------------------------------ MODULE FeedCrawl ------------------------------
(***************************************************************************)
(* The life of one feed: processFeed of internal/scheduler/scheduler.go    *)
(* against the tables of internal/database/repository.go, while operators  *)
(* edit the same rows through internal/server/handlers.go.                 *)
(*                                                                         *)
(* Each database statement, and each transaction, is one step: the pool    *)
(* has a single connection (db.go:27).  Between two statements anything    *)
(* else may happen.  Module Scheduler shows that at most one processFeed   *)
(* runs for a feed; the rows of other feeds are never touched here.        *)
(*                                                                         *)
(* The site publishes versions 1..MaxVersion of the feed document, with    *)
(* the items Items[v].  A version stands for its ETag and Last-Modified,   *)
(* 0 for "none stored"; a configuration stands for every other column of   *)
(* the feeds row an operator sets.                                         *)
(***************************************************************************)
EXTENDS Integers, FiniteSets

CONSTANTS
  User,        \* subscribers that may exist
  Guid,        \* identities of items: GUID, else link, else title
  NoGuid,      \* "no item is being processed"
  NoRow,       \* "no feeds row has been read"
  MaxVersion,  \* versions of the document the site publishes
  Items,       \* Items[v]: the items in version v
  MaxEdits,    \* bound: PUTs of the feed
  MaxRewinds,  \* bound: rewinds of the feed
  MaxFailures, \* bound: statements and sanitisings that fail by themselves
  MaxAborts    \* bound: crawls cut short by a shutdown or a crash

ASSUME VersionAssumption == MaxVersion \in Nat \ {0}
ASSUME ItemsAssumption   == Items \in [1..MaxVersion -> SUBSET Guid]
ASSUME NamesAssumption   == NoGuid \notin Guid
ASSUME BoundsAssumption  == {MaxEdits, MaxRewinds, MaxFailures, MaxAborts} \subseteq Nat

Row == [etag : 0..MaxVersion, conf : Nat]

ASSUME NoRowAssumption   == NoRow \notin Row

VARIABLES
  \* The database.
  feed,      \* "unused" before CreateFeed, "live", "deleted"
  row,       \* the feeds row, meaningful while live
  users,     \* rows of users
  subs,      \* subscribers of the feed
  seen,      \* guids in seen_items
  \* The site.
  version,
  \* processFeed.
  read,      \* a row a poll or a scan has read and not yet begun to crawl
  pc,
  snap,      \* processFeed's *types.Feed
  subscribers, \* the result of ListSubscriptionsForFeed
  todo,      \* items of the response still to look at
  item,      \* the guid in hand
  to,        \* subscribers the item in hand is still to be queued for
  \* handleCatchupFeed.
  cpc, csnap, ctodo,
  \* History.
  mails,     \* mails[<<g, u>>]: outbox rows queued for item g and subscriber u
  unmarks,   \* unmarks[g]: how often a rewind took g out of seen_items
  intended,  \* the configuration of the last successful POST or PUT
  rewinds, failures, aborts

tables  == <<feed, row, users, subs, seen>>
crawl   == <<pc, snap, subscribers, todo, item, to>>
catchup == <<cpc, csnap, ctodo>>
history == <<mails, unmarks, intended>>
bounds  == <<rewinds, failures, aborts>>
vars    == <<tables, version, read, crawl, catchup, history, bounds>>

CrawlPC == {"idle", "fetch", "saveOnly", "save", "load", "items", "check",
            "content", "mark", "queue"}

TypeOK ==
  /\ feed \in {"unused", "live", "deleted"}
  /\ row \in Row
  /\ users \in SUBSET User
  /\ subs \in SUBSET User
  /\ seen \in SUBSET Guid
  /\ version \in 1..MaxVersion
  /\ read \in Row \cup {NoRow}
  /\ pc \in CrawlPC
  /\ snap \in Row
  /\ subscribers \in SUBSET User
  /\ todo \in SUBSET Guid
  /\ item \in Guid \cup {NoGuid}
  /\ to \in SUBSET User
  /\ cpc \in {"idle", "fetch", "marking"}
  /\ csnap \in 0..MaxVersion
  /\ ctodo \in SUBSET Guid
  /\ mails \in [Guid \X User -> Nat]
  /\ unmarks \in [Guid -> Nat]
  /\ intended \in Nat
  /\ rewinds \in Nat /\ failures \in Nat /\ aborts \in Nat

Init ==
  /\ feed = "unused"
  /\ row = [etag |-> 0, conf |-> 0]
  /\ users = {}
  /\ subs = {}
  /\ seen = {}
  /\ version = 1
  /\ read = NoRow
  /\ pc = "idle"
  /\ snap = [etag |-> 0, conf |-> 0]
  /\ subscribers = {}
  /\ todo = {}
  /\ item = NoGuid
  /\ to = {}
  /\ cpc = "idle"
  /\ csnap = 0
  /\ ctodo = {}
  /\ mails = [m \in Guid \X User |-> 0]
  /\ unmarks = [g \in Guid |-> 0]
  /\ intended = 0
  /\ rewinds = 0
  /\ failures = 0
  /\ aborts = 0

Live == feed = "live"

\* processFeed returns and its variables go out of scope.
NoCrawl ==
  /\ pc' = "idle"
  /\ snap' = [etag |-> 0, conf |-> 0]
  /\ subscribers' = {}
  /\ todo' = {}
  /\ item' = NoGuid
  /\ to' = {}

NoCatchup == cpc' = "idle" /\ csnap' = 0 /\ ctodo' = {}

Goto(from, to1) == pc = from /\ pc' = to1
Works == UNCHANGED failures
Fails == failures < MaxFailures /\ failures' = failures + 1

-----------------------------------------------------------------------------
(* The crawl. *)

\* ListFeedsDue of a poll, or GetFeed of a scan: also while a crawl runs.
ReadRow ==
  /\ Live
  /\ read = NoRow
  /\ read' = row
  /\ UNCHANGED <<tables, version, crawl, catchup, history, bounds>>

\* The feed was in flight, or the pool was full.
SkipCrawl ==
  /\ read # NoRow
  /\ read' = NoRow
  /\ UNCHANGED <<tables, version, crawl, catchup, history, bounds>>

\* Variant: the row that GetFeed did not find is crawled all the same.
StartCrawlUnread ==
  /\ Goto("idle", "fetch")
  /\ snap' = read
  /\ read' = NoRow
  /\ UNCHANGED <<tables, version, subscribers, todo, item, to, catchup, history, bounds>>

StartCrawl ==
  /\ read # NoRow
  /\ Goto("idle", "fetch")
  /\ snap' = read
  /\ read' = NoRow
  /\ UNCHANGED <<tables, version, subscribers, todo, item, to, catchup, history, bounds>>

\* An error, whose text and backoff are written to the row, or a 304 Not
\* Modified: the site still publishes the version whose ETag was sent.
FetchNothing ==
  /\ Fails \/ (snap.etag = version /\ Works)
  /\ Goto("fetch", "saveOnly")
  /\ UNCHANGED <<tables, version, read, snap, subscribers, todo, item, to, catchup,
                 history, rewinds, aborts>>

Fetch ==
  /\ Goto("fetch", "save")
  /\ snap' = [snap EXCEPT !.etag = version]
  /\ todo' = Items[version]
  /\ UNCHANGED <<tables, version, read, subscribers, item, to, catchup, history, bounds>>

\* UpdateFeed writes every column of the in-memory feed, if the row exists.
UpdateFeed ==
  \/ /\ Works
     /\ Live
     /\ row' = snap
  \/ /\ Works
     /\ ~Live
     /\ UNCHANGED row
  \/ /\ Fails
     /\ UNCHANGED row

\* After an error or a 304 that is all.
SaveOnly ==
  /\ pc = "saveOnly"
  /\ UpdateFeed
  /\ NoCrawl
  /\ UNCHANGED <<feed, users, subs, seen, version, read, catchup, history, rewinds,
                 aborts>>

\* The cache markers are saved before any item is looked at, and an error is
\* only logged.
Save ==
  /\ UpdateFeed
  /\ Goto("save", "load")
  /\ UNCHANGED <<feed, users, subs, seen, version, read, snap, subscribers, todo,
                 item, to, catchup, history, rewinds, aborts>>

\* ListSubscriptionsForFeed; an error ends the crawl.
Load ==
  /\ pc = "load"
  /\ \/ /\ Works
        /\ pc' = "items"
        /\ subscribers' = subs
        /\ UNCHANGED <<snap, todo, item, to>>
     \/ Fails /\ NoCrawl
  /\ UNCHANGED <<tables, version, read, catchup, history, rewinds, aborts>>

NextItem(g) ==
  /\ g \in todo
  /\ Goto("items", "check")
  /\ item' = g
  /\ todo' = todo \ {g}
  /\ UNCHANGED <<tables, version, read, snap, subscribers, to, catchup, history, bounds>>

EndCrawl ==
  /\ pc = "items"
  /\ todo = {}
  /\ NoCrawl
  /\ UNCHANGED <<tables, version, read, catchup, history, bounds>>

\* Variant: the first seen item ends the loop.
CheckStopping ==
  /\ pc = "check"
  /\ \/ /\ Works
        /\ item \in seen
        /\ NoCrawl
     \/ /\ Works
        /\ item \notin seen
        /\ pc' = "content"
        /\ UNCHANGED <<snap, subscribers, todo, item, to>>
  /\ UNCHANGED <<tables, version, read, catchup, history, rewinds, aborts>>

\* IsItemSeen; a seen item, and one that cannot be checked, is passed over.
Check ==
  /\ \/ Works /\ pc' = IF item \in seen THEN "items" ELSE "content"
     \/ Fails /\ pc' = "items"
  /\ pc = "check"
  /\ UNCHANGED <<tables, version, read, snap, subscribers, todo, item, to, catchup,
                 history, rewinds, aborts>>

\* Variant: without subscribers the item is passed over.
ContentPassing ==
  /\ \/ Works /\ pc' = IF subscribers = {} THEN "items" ELSE "queue"
     \/ Fails /\ pc' = "items"
  /\ pc = "content"
  /\ to' = subscribers
  /\ UNCHANGED <<tables, version, read, snap, subscribers, todo, item, catchup,
                 history, rewinds, aborts>>

\* Extraction (a failed one falls back to the feed's content) and sanitising,
\* which may fail and pass the item over.
Content ==
  /\ \/ Works /\ pc' = IF subscribers = {} THEN "mark" ELSE "queue"
     \/ Fails /\ pc' = "items"
  /\ pc = "content"
  /\ to' = subscribers
  /\ UNCHANGED <<tables, version, read, snap, subscribers, todo, item, catchup,
                 history, rewinds, aborts>>

\* Without subscribers the item is marked seen.  The foreign key refuses a row
\* for a feed that is gone.
MarkSeen ==
  /\ \/ Works /\ Live /\ seen' = seen \cup {item}
     \/ Works /\ ~Live /\ UNCHANGED seen
     \/ Fails /\ UNCHANGED seen
  /\ Goto("mark", "items")
  /\ UNCHANGED <<feed, row, users, subs, version, read, snap, subscribers, todo,
                 item, to, catchup, history, rewinds, aborts>>

\* Variants: the item is marked when its last subscriber is done, in a
\* transaction of its own; the mail is kept though the item cannot be marked.
QueueTxMarkingLast(u) ==
  \/ /\ Works
     /\ item \in seen \/ ~Live
     /\ UNCHANGED <<seen, mails>>
  \/ /\ Works
     /\ item \notin seen
     /\ Live
     /\ seen' = IF to = {u} THEN seen \cup {item} ELSE seen
     /\ mails' = [mails EXCEPT ![<<item, u>>] = @ + 1]
QueueTxKeeping(u) ==
  /\ Works
  /\ item \notin seen
  /\ seen' = IF Live THEN seen \cup {item} ELSE seen
  /\ mails' = [mails EXCEPT ![<<item, u>>] = @ + 1]

\* The body of WithTx for one subscriber: seen already, nothing; otherwise the
\* mail is queued and the item marked, or neither.
QueueTx(u) ==
  \/ /\ Works
     /\ item \in seen \/ ~Live
     /\ UNCHANGED <<seen, mails>>
  \/ /\ Works
     /\ item \notin seen
     /\ Live
     /\ seen' = seen \cup {item}
     /\ mails' = [mails EXCEPT ![<<item, u>>] = @ + 1]
  \/ /\ Fails
     /\ UNCHANGED <<seen, mails>>

Queue(u) ==
  /\ pc = "queue"
  /\ u \in to
  /\ QueueTx(u)
  /\ to' = to \ {u}
  /\ pc' = IF to = {u} THEN "items" ELSE "queue"
  /\ UNCHANGED <<feed, row, users, subs, version, read, snap, subscribers, todo,
                 item, catchup, unmarks, intended, rewinds, aborts>>

-----------------------------------------------------------------------------
(* The operators' requests. *)

\* handleCreateFeed: the feed and its subscriptions in one transaction.
CreateFeed(S) ==
  /\ feed = "unused"
  /\ S \subseteq users
  /\ feed' = "live"
  /\ row' = [etag |-> 0, conf |-> 0]
  /\ subs' = S
  /\ UNCHANGED <<users, seen, version, read, crawl, catchup, history, bounds>>

\* handleUpdateFeed writes the whole row from the request; the dashboard's
\* carries neither ETag nor Last-Modified.
PutFeed ==
  /\ Live
  /\ intended < MaxEdits
  /\ row' = [etag |-> 0, conf |-> intended + 1]
  /\ intended' = intended + 1
  /\ UNCHANGED <<feed, users, subs, seen, version, read, crawl, catchup, mails,
                 unmarks, bounds>>

\* DeleteFeed cascades to the subscriptions and the seen items.
DeleteFeed ==
  /\ Live
  /\ feed' = "deleted"
  /\ subs' = {}
  /\ seen' = {}
  /\ UNCHANGED <<row, users, version, read, crawl, catchup, history, bounds>>

CreateUser(u) ==
  /\ u \notin users
  /\ users' = users \cup {u}
  /\ UNCHANGED <<feed, row, subs, seen, version, read, crawl, catchup, history, bounds>>

DeleteUser(u) ==
  /\ u \in users
  /\ users' = users \ {u}
  /\ subs' = subs \ {u}
  /\ UNCHANGED <<feed, row, seen, version, read, crawl, catchup, history, bounds>>

Subscribe(u) ==
  /\ Live
  /\ u \in users
  /\ subs' = subs \cup {u}
  /\ UNCHANGED <<feed, row, users, seen, version, read, crawl, catchup, history, bounds>>

Unsubscribe(u) ==
  /\ u \in subs
  /\ subs' = subs \ {u}
  /\ UNCHANGED <<feed, row, users, seen, version, read, crawl, catchup, history, bounds>>

\* handleSubscriberUnsubscribe: a subscriber's own choice of feeds replaces the
\* one before in a single transaction, which fails as a whole where the feed or
\* the subscriber has gone since the page was shown.
SavePreferences(u, wanted) ==
  /\ \/ wanted /\ Live /\ u \in users /\ subs' = subs \cup {u}
     \/ ~wanted /\ subs' = subs \ {u}
  /\ UNCHANGED <<feed, row, users, seen, version, read, crawl, catchup, history, bounds>>

\* handleRewindFeed takes the most recent rows out of seen_items; which ones
\* those are is left open.
Rewind(S) ==
  /\ rewinds < MaxRewinds
  /\ S \in (SUBSET seen) \ {{}}
  /\ seen' = seen \ S
  /\ unmarks' = [g \in Guid |-> unmarks[g] + IF g \in S THEN 1 ELSE 0]
  /\ rewinds' = rewinds + 1
  /\ UNCHANGED <<feed, row, users, subs, version, read, crawl, catchup, mails,
                 intended, failures, aborts>>

\* handleCatchupFeed: GetFeed, Crawl with the stored ETag, MarkItemSeen.
CatchupRead ==
  /\ Live
  /\ cpc = "idle"
  /\ cpc' = "fetch"
  /\ csnap' = row.etag
  /\ UNCHANGED <<tables, version, read, crawl, ctodo, history, bounds>>

CatchupFails ==
  /\ cpc = "fetch"
  /\ Fails
  /\ NoCatchup
  /\ UNCHANGED <<tables, version, read, crawl, history, rewinds, aborts>>

\* 304: the handler answers "Feed already up-to-date".
CatchupUpToDate ==
  /\ cpc = "fetch"
  /\ csnap = version
  /\ NoCatchup
  /\ UNCHANGED <<tables, version, read, crawl, history, bounds>>

CatchupFetch ==
  /\ cpc = "fetch"
  /\ cpc' = "marking"
  /\ ctodo' = Items[version]
  /\ UNCHANGED <<tables, version, read, crawl, csnap, history, bounds>>

CatchupMark(g) ==
  /\ cpc = "marking"
  /\ g \in ctodo
  /\ ctodo' = ctodo \ {g}
  /\ \/ Works /\ Live /\ seen' = seen \cup {g}
     \/ Works /\ ~Live /\ UNCHANGED seen
     \/ Fails /\ UNCHANGED seen
  /\ UNCHANGED <<feed, row, users, subs, version, read, crawl, cpc, csnap, history,
                 rewinds, aborts>>

CatchupEnd ==
  /\ cpc = "marking"
  /\ ctodo = {}
  /\ NoCatchup
  /\ UNCHANGED <<tables, version, read, crawl, history, bounds>>

-----------------------------------------------------------------------------
(* The site, and the process. *)

Publish ==
  /\ version < MaxVersion
  /\ version' = version + 1
  /\ UNCHANGED <<tables, read, crawl, catchup, history, bounds>>

\* The crawl and the requests end between two statements: the item loop sees
\* the shutdown, every further statement has a cancelled context, or the
\* process dies and is started again.
Abort ==
  /\ aborts < MaxAborts
  /\ aborts' = aborts + 1
  /\ NoCrawl
  /\ NoCatchup
  /\ read' = NoRow
  /\ UNCHANGED <<tables, version, history, rewinds, failures>>

-----------------------------------------------------------------------------
CrawlStep ==
  \/ FetchNothing \/ Fetch \/ SaveOnly \/ Save \/ Load
  \/ \E g \in Guid : NextItem(g)
  \/ EndCrawl \/ Check \/ Content \/ MarkSeen
  \/ \E u \in User : Queue(u)

CatchupStep ==
  \/ CatchupRead \/ CatchupFails \/ CatchupUpToDate \/ CatchupFetch
  \/ \E g \in Guid : CatchupMark(g)
  \/ CatchupEnd

Request ==
  \/ \E S \in SUBSET User : CreateFeed(S)
  \/ PutFeed \/ DeleteFeed
  \/ \E u \in User : CreateUser(u) \/ DeleteUser(u) \/ Subscribe(u) \/ Unsubscribe(u)
  \/ \E u \in User, wanted \in BOOLEAN : SavePreferences(u, wanted)
  \/ \E S \in SUBSET Guid : Rewind(S)

Next ==
  \/ ReadRow \/ SkipCrawl \/ StartCrawl
  \/ CrawlStep
  \/ CatchupStep
  \/ Request
  \/ Publish
  \/ Abort

Spec == Init /\ [][Next]_vars

-----------------------------------------------------------------------------
(* What the crawl promises. *)

\* No subscriber is queued an item twice, but for once more each time an
\* operator rewinds it: a crawl that was cut short and started again, a
\* catch-up or a deletion at the same time change nothing.  This is the work of
\* queueing and marking in one transaction (scheduler.go:309-333).
QueuedOnce ==
  \A g \in Guid, u \in User :
    mails[<<g, u>>] <= unmarks[g] + IF g \in seen \/ feed = "deleted" THEN 1 ELSE 0

\* The items and the mails obey FeedLedger: a mail is queued in the step that
\* marks its item seen, or not at all, and a feed that is deleted mails nothing
\* more, not even for the crawl that was running (scheduler.go:309-333).
Ledger == INSTANCE FeedLedger
ImplementsLedger == Ledger!Spec

\* Where nothing fails and nothing is rewound, a stored ETag is no promise
\* broken: outside the crawl that stored it, every item of that version has
\* been seen to, so that the 304 it earns hides nothing.
ConditionalGetSafe ==
  (Live /\ row.etag > 0 /\ pc \in {"idle", "fetch", "saveOnly", "save"})
    => Items[row.etag] \subseteq seen

\* Every item the site publishes is queued or marked in the end, unless the feed
\* is deleted.
EveryItemSeen ==
  \A g \in Guid :
    (Live /\ g \in Items[version]) ~> (g \in seen \/ ~Live \/ g \notin Items[version])

\* When the subscribers of an item have been gone through, a mail for it has
\* been queued for each who still is one (README.md:3: "emails new items to subscribed
\* recipients").
EverySubscriberQueued ==
  [][pc = "queue" /\ pc' = "items" /\ Live
       => \A u \in subscribers \cap subs : mails'[<<item, u>>] > 0]_vars

\* A PUT of the feed replaces its configuration (handlers.go:275), and a crawl
\* does not take it back.
EditKept == Live => row.conf = intended

\* A feed that is due is read, and the crawl of it started, in the end (module
\* Scheduler); a crawl that runs goes on, every fetch being under a timeout.
Fairness ==
  /\ WF_vars(ReadRow)
  /\ SF_vars(StartCrawl)
  /\ WF_vars(CrawlStep)

FairSpec == Spec /\ Fairness

=============================================================================
