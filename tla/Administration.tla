---------------------------- MODULE Administration ----------------------------
(***************************************************************************)
(* Who changes the tables besides the crawls: the operator's requests and  *)
(* a subscriber's preferences page (internal/server/handlers.go), and the  *)
(* import of a legacy database (cmd/import_legacy/main.go), which runs     *)
(* beside the daemon or before it, may be killed, and may be run again.    *)
(*                                                                         *)
(* Each statement, and each transaction, is one step.  A page is shown     *)
(* after four statements and saved, at any later time, after one more and  *)
(* a transaction.  The import makes a statement of its own for every row.  *)
(***************************************************************************)
EXTENDS Tables

CONSTANTS
  LegacyUsers,  \* the legacy tables: ids to addresses,
  LegacyFeeds,  \* ids to URLs,
  LegacySubs,   \* pairs of ids, which may refer to rows that are gone,
  LegacySeen,   \* pairs of an id and a guid, likewise
  MaxRequests,  \* bound: requests of operators that are carried out
  MaxFailures,  \* bound: statements of a save that fail by themselves
  MaxKills      \* bound: imports killed

ASSUME LegacyAssumption ==
  /\ DOMAIN LegacyUsers \subseteq Id /\ DOMAIN LegacyFeeds \subseteq Id
  /\ \A u \in DOMAIN LegacyUsers : LegacyUsers[u] \in Email
  /\ \A f \in DOMAIN LegacyFeeds : LegacyFeeds[f] \in Url
  /\ LegacySubs \subseteq Id \X Id /\ LegacySeen \subseteq Id \X Guid
ASSUME LegacyUnique ==
  /\ \A u, v \in DOMAIN LegacyUsers : LegacyUsers[u] = LegacyUsers[v] => u = v
  /\ \A f, g \in DOMAIN LegacyFeeds : LegacyFeeds[f] = LegacyFeeds[g] => f = g
ASSUME BoundsAssumption == {MaxRequests, MaxFailures, MaxKills} \subseteq Nat

VARIABLES
  db,
  \* The preferences page of one subscriber.
  ppc,      \* where the page and its two requests stand
  email,    \* whose page it is
  user,     \* the id GetUserByEmail found
  shown,    \* the feeds on the page
  ticked,   \* those shown as subscribed
  wanted,   \* those the subscriber leaves ticked
  quiet,    \* history: nobody has changed the tables since the page was asked for
  \* The import.
  stage,
  todo,     \* rows of the stage still to insert
  disturbed, \* history: the daemon has changed the tables
  requests, failures, kills

page   == <<ppc, email, user, shown, ticked, wanted>>
import == <<stage, todo>>
bounds == <<requests, failures, kills>>
vars   == <<db, page, quiet, import, disturbed, bounds>>

\* The rows of a stage.  The queries leave out what refers to rows that are gone.
Rows(s) ==
  CASE s = "users" -> DOMAIN LegacyUsers
    [] s = "feeds" -> DOMAIN LegacyFeeds
    [] s = "subs"  -> {x \in LegacySubs : x[1] \in DOMAIN LegacyUsers /\ x[2] \in DOMAIN LegacyFeeds}
    [] s = "seen"  -> {x \in LegacySeen : x[1] \in DOMAIN LegacyFeeds}
    [] OTHER       -> {}

Stages == {"users", "feeds", "subs", "seen"}

TypeOK ==
  /\ db \in Database
  /\ ppc \in {"closed", "user", "feeds", "shown", "saving", "saved", "refused"}
  /\ email \in Email \cup {Nobody}
  /\ user \in Id \cup {0}
  /\ shown \subseteq Id /\ ticked \subseteq shown /\ wanted \subseteq shown
  /\ stage \in Stages \cup {"off", "done"}
  /\ todo \subseteq Rows(stage)
  /\ quiet \in BOOLEAN /\ disturbed \in BOOLEAN
  /\ requests \in Nat /\ failures \in Nat /\ kills \in Nat

Init ==
  /\ db = Empty
  /\ ppc = "closed" /\ email = Nobody /\ user = 0
  /\ shown = {} /\ ticked = {} /\ wanted = {}
  /\ quiet = FALSE
  /\ stage = "off"
  /\ todo = {}
  /\ disturbed = FALSE
  /\ requests = 0 /\ failures = 0 /\ kills = 0

-----------------------------------------------------------------------------
(* Requests of operators.  One that changes nothing is no step. *)

Request(r) ==
  /\ requests < MaxRequests
  /\ WithTx(db, r) # db
  /\ db' = WithTx(db, r)
  /\ requests' = requests + 1
  /\ quiet' = FALSE
  /\ disturbed' = TRUE
  /\ UNCHANGED <<page, import, failures, kills>>

\* The feed and its subscriptions in one transaction: either all users, or
\* those of a list, any of whom may be gone.
CreateFeedFor(url, U) ==
  /\ db.lastFeed < MaxId
  /\ LET r == CreateFeed(db, url)
     IN  Request(IF r.ok THEN SubscribeEach(r.db, U \X {r.db.lastFeed}) ELSE r)
HandleCreateFeed ==
  \E url \in Url :
    CreateFeedFor(url, Users(db)) \/ \E U \in SUBSET Id : CreateFeedFor(url, U)

HandleUpdateFeed == \E f \in Id, url \in Url : Request(UpdateFeed(db, f, url))
HandleDeleteFeed == \E f \in Id : Request(DeleteFeed(db, f))
HandleCreateUser ==
  /\ db.lastUser < MaxId
  /\ \E e \in Email : Request(CreateUser(db, e))
HandleDeleteUser  == \E u \in Id : Request(DeleteUser(db, u))
HandleSubscribe   == \E u, f \in Id : Request(Subscribe(db, u, f))
HandleUnsubscribe == \E u, f \in Id : Request(Unsubscribe(db, u, f))

\* A limit that is not positive is refused.
Rewind(f, limit) == Request(Done(UnmarkSeenItems(db, f, limit)))
HandleRewindFeed == \E f \in Id, limit \in 1..2 : Rewind(f, limit)

\* What crawls and catch-ups do to these tables.
Mark == \E f \in Id, g \in Guid : Request(MarkItemSeen(db, f, g))

-----------------------------------------------------------------------------
(* The preferences page: handleSubscriberManage reads the user, all feeds and
   the user's feeds, each in a statement of its own. *)

UserWith(e) == {u \in Users(db) : db.users[u] = e}

Page(from, to) == ppc = from /\ ppc' = to
NoChange == UNCHANGED <<db, import, disturbed, requests, kills>>

\* An unknown address is answered 404.
PageUser ==
  /\ ppc \in {"closed", "saved", "refused"}
  /\ ppc' = "user"
  /\ \E u \in Users(db) : user' = u /\ email' = db.users[u]
  /\ quiet' = TRUE
  /\ UNCHANGED <<shown, ticked, wanted, failures>> /\ NoChange

PageFeeds ==
  /\ Page("user", "feeds")
  /\ shown' = Feeds(db)
  /\ UNCHANGED <<email, user, ticked, wanted, quiet, failures>> /\ NoChange

\* Variant: the user's feeds are not told from those of others.
PageSubsAnyone ==
  /\ Page("feeds", "shown")
  /\ ticked' = {f \in shown : \E u \in Id : f \in SubscriptionsOf(db, u)}
  /\ wanted' = ticked'
  /\ user' = 0
  /\ UNCHANGED <<email, shown, quiet, failures>> /\ NoChange

PageSubs ==
  /\ Page("feeds", "shown")
  /\ ticked' = shown \cap SubscriptionsOf(db, user)
  /\ wanted' = ticked'
  /\ user' = 0
  /\ UNCHANGED <<email, shown, quiet, failures>> /\ NoChange

Tick ==
  /\ ppc = "shown"
  /\ wanted' \in (SUBSET shown) \ {wanted}
  /\ UNCHANGED <<ppc, email, user, shown, ticked, quiet, failures>> /\ NoChange

Answer(a) ==
  /\ ppc' = a
  /\ email' = Nobody /\ user' = 0
  /\ shown' = {} /\ ticked' = {} /\ wanted' = {}
  /\ quiet' = FALSE

\* The subscriber leaves, or a statement of the page fails.
ClosePage ==
  /\ ppc \in {"user", "feeds", "shown"}
  /\ Answer("closed")
  /\ UNCHANGED failures /\ NoChange

\* handleSubscriberUnsubscribe looks the user up by address first.
Submit ==
  /\ Page("shown", "saving")
  /\ user' \in UserWith(email)
  /\ UNCHANGED <<email, shown, ticked, wanted, quiet, failures>> /\ NoChange

SubmitUnknown ==
  /\ ppc = "shown"
  /\ UserWith(email) = {}
  /\ Answer("refused")
  /\ UNCHANGED failures /\ NoChange

\* The body of the transaction, which reads the current subscriptions.
Preferences ==
  LET current == SubscriptionsOf(db, user)
      dropped == [db EXCEPT !.subs = @ \ ({user} \X (current \ wanted))]
  IN  SubscribeEach(dropped, {user} \X (wanted \ current))

\* Any of its statements may fail by itself, after others have been made.
PreferencesCut ==
  LET current == SubscriptionsOf(db, user)
  IN  Failed([db EXCEPT !.subs = @ \ ({user} \X (current \ wanted))])

SaveTx ==
  /\ ppc = "saving"
  /\ \/ /\ db' = WithTx(db, Preferences)
        /\ Answer(IF Preferences.ok THEN "saved" ELSE "refused")
        /\ UNCHANGED failures
     \/ /\ failures < MaxFailures
        /\ failures' = failures + 1
        /\ db' = WithTx(db, PreferencesCut)
        /\ Answer("refused")
  /\ disturbed' = (disturbed \/ db' # db)
  /\ UNCHANGED <<import, requests, kills>>

-----------------------------------------------------------------------------
(* The import. *)

After(s) == CASE s = "users" -> "feeds" [] s = "feeds" -> "subs"
              [] s = "subs" -> "seen" [] s = "seen" -> "done"

\* A row whose address or URL exists is passed over, whatever its id; one whose
\* id alone is taken is an error.  (Variant: no ON CONFLICT.)
InsertUserPlain(u) ==
  If(~EmailTaken(db, LegacyUsers[u]) /\ u \notin Users(db), PutUser(db, u, LegacyUsers[u]), db)
InsertUser(u) ==
  IF EmailTaken(db, LegacyUsers[u]) THEN Done(db)
  ELSE If(u \notin Users(db), PutUser(db, u, LegacyUsers[u]), db)
InsertFeed(f) ==
  IF UrlTaken(db, LegacyFeeds[f]) THEN Done(db)
  ELSE If(f \notin Feeds(db), PutFeed(db, f, LegacyFeeds[f]), db)

Insert(s, x) ==
  CASE s = "users" -> InsertUser(x)
    [] s = "feeds" -> InsertFeed(x)
    [] s = "subs"  -> Subscribe(db, x[1], x[2])
    [] s = "seen"  -> MarkItemSeen(db, x[1], x[2])

\* It may be run as often as one likes.
StartImport ==
  /\ stage \in {"off", "done"}
  /\ stage' = "users"
  /\ todo' = Rows("users")
  /\ UNCHANGED <<db, page, quiet, disturbed, bounds>>

\* log.Fatalf ends it at the first row that is refused.
ImportRow ==
  /\ \E x \in todo :
       LET r == Insert(stage, x)
       IN  /\ db' = r.db
           /\ stage' = IF r.ok THEN stage ELSE "off"
           /\ todo' = IF r.ok THEN todo \ {x} ELSE {}
  /\ quiet' = (quiet /\ db' = db)
  /\ UNCHANGED <<page, disturbed, bounds>>

NextStage ==
  /\ stage \in Stages
  /\ todo = {}
  /\ stage' = After(stage)
  /\ todo' = Rows(After(stage))
  /\ UNCHANGED <<db, page, quiet, disturbed, bounds>>

KillImport ==
  /\ stage \in Stages
  /\ kills < MaxKills
  /\ kills' = kills + 1
  /\ stage' = "off"
  /\ todo' = {}
  /\ UNCHANGED <<db, page, quiet, disturbed, requests, failures>>

-----------------------------------------------------------------------------
Operator ==
  \/ HandleCreateFeed \/ HandleUpdateFeed \/ HandleDeleteFeed
  \/ HandleCreateUser \/ HandleDeleteUser
  \/ HandleSubscribe \/ HandleUnsubscribe \/ HandleRewindFeed
  \/ Mark
Subscriber ==
  \/ PageUser \/ PageFeeds \/ PageSubs \/ Tick \/ ClosePage
  \/ Submit \/ SubmitUnknown \/ SaveTx
Import == StartImport \/ ImportRow \/ NextStage

Next == Operator \/ Subscriber \/ Import \/ KillImport

Spec == Init /\ [][Next]_vars

\* Somebody runs the import until it is through.
FairSpec == Spec /\ WF_vars(stage # "done" /\ Import)

-----------------------------------------------------------------------------
(* What the tables and their clients promise. *)

\* The tables keep their types; no row refers to one that is gone, no two rows
\* share a URL, an address or an item, and every id comes from the sequence,
\* through any order of requests, saves and imports (001_initial.sql: foreign keys,
\* UNIQUE and AUTOINCREMENT).
Intact ==
  /\ TypeOK
  /\ db.subs \subseteq Users(db) \X Feeds(db)
  /\ \A x \in db.seen : x.feed \in Feeds(db)
  /\ \A x, y \in db.seen : x.feed = y.feed /\ (x.guid = y.guid \/ x.rowid = y.rowid) => x = y
  /\ \A f, g \in Feeds(db) : db.feeds[f] = db.feeds[g] => f = g
  /\ \A u, v \in Users(db) : db.users[u] = db.users[v] => u = v
  /\ \A f \in Feeds(db) : f <= db.lastFeed
  /\ \A u \in Users(db) : u <= db.lastUser

\* A save gives the subscriber exactly the feeds that were sent, or it is
\* refused and changes nothing, and it never touches what another address
\* subscribes to, though the account may have been deleted, and others been
\* created, after it was looked up (handlers.go:125 "atomically").  Only the
\* import can give its id to another address, the legacy one.  A page that is
\* sent back as it was shown changes nothing, unless somebody else has changed
\* the tables between: its three reads agree with what the transaction reads.
SavesExactly ==
  [][ppc = "saving" /\ ppc' # "saving" =>
       /\ ppc' = "saved" => SubscriptionsOf(db', user) = wanted
       /\ ppc' = "refused" => db' = db
       /\ \A u, f \in Id : (<<u, f>> \in db.subs) # (<<u, f>> \in db'.subs)
            => db.users[u] = email \/ (u \in DOMAIN LegacyUsers /\ db.users[u] = LegacyUsers[u])
       /\ quiet /\ wanted = ticked
            => db' = db /\ (ppc' = "refused" => failures' > failures)
    ]_<<db, ppc>>

\* What a completed import leaves in tables that were empty before.
Imported ==
  /\ \A u \in Id : db.users[u] = IF u \in DOMAIN LegacyUsers THEN LegacyUsers[u] ELSE Nobody
  /\ \A f \in Id : db.feeds[f] = IF f \in DOMAIN LegacyFeeds THEN LegacyFeeds[f] ELSE Nobody
  /\ db.subs = Rows("subs")
  /\ {<<x.feed, x.guid>> : x \in db.seen} = Rows("seen")

\* An import that is killed at any row can be run again, after it has succeeded
\* too, and comes to its end with all the rows that refer to none that is missing
\* (main.go:153 "excluding orphaned rows"), where nobody else changes the tables.
ImportCompletes ==
  []<>(disturbed \/ (stage = "done" /\ Imported))

=============================================================================
