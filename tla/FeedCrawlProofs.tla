---------------------------- MODULE FeedCrawlProofs ----------------------------
(***************************************************************************)
(* Theorems about the life of one feed, for any subscribers, items and     *)
(* versions of the document, and any number of edits, rewinds, failures    *)
(* and aborts (none of the last three where the ETag is concerned).        *)
(*                                                                         *)
(* QueuedOnce is inductive by itself.  ConditionalGetSafe is not: it needs *)
(* what every copy of the ETag stands for (the row, the row that was read, *)
(* the crawl's feed), while the crawl that stored it is under way too.     *)
(***************************************************************************)
EXTENDS FeedCrawl, TLAPS

USE VersionAssumption, ItemsAssumption, NamesAssumption, BoundsAssumption, NoRowAssumption

-----------------------------------------------------------------------------
(* Types, with the guid in hand. *)

InHand == {"check", "content", "mark", "queue"}

Typed == TypeOK /\ (pc \in InHand => item \in Guid)

LEMMA TypedInit == Init => Typed
<1> SUFFICES ASSUME Init PROVE Typed
  OBVIOUS
<1>1. row \in Row /\ snap \in Row
  BY DEF Init, Row
<1>2. mails \in [Guid \X User -> Nat] /\ unmarks \in [Guid -> Nat]
  BY DEF Init
<1> QED
  BY <1>1, <1>2 DEF Init, Typed, TypeOK, CrawlPC, InHand

\* What the two ways to end leave behind.
LEMMA TypedEnds ==
  /\ NoCrawl => /\ pc' \in CrawlPC /\ pc' \notin InHand /\ snap' \in Row
                /\ subscribers' \in SUBSET User /\ todo' \in SUBSET Guid
                /\ item' \in Guid \cup {NoGuid} /\ to' \in SUBSET User
  /\ NoCatchup => /\ cpc' \in {"idle", "fetch", "marking"} /\ csnap' \in 0..MaxVersion
                  /\ ctodo' \in SUBSET Guid
BY DEF NoCrawl, NoCatchup, Row, CrawlPC, InHand

\* What one transaction of the queue changes.
LEMMA OneMail ==
  ASSUME TypeOK, item \in Guid, NEW u \in User, QueueTx(u)
  PROVE  /\ mails' \in [Guid \X User -> Nat]
         /\ \A g \in Guid, v \in User :
              mails'[<<g, v>>] = mails[<<g, v>>]
              \/ (g = item /\ Live /\ g \notin seen /\ g \in seen'
                    /\ mails'[<<g, v>>] = mails[<<g, v>>] + 1)
<1>1. <<item, u>> \in Guid \X User /\ mails[<<item, u>>] \in Nat
  BY DEF TypeOK
<1>2. CASE UNCHANGED mails
  BY <1>2 DEF TypeOK
<1>3. CASE /\ item \notin seen /\ Live /\ item \in seen'
           /\ mails' = [mails EXCEPT ![<<item, u>>] = mails[<<item, u>>] + 1]
  <2>1. mails \in [Guid \X User -> Nat]
    BY DEF TypeOK
  <2>2. mails[<<item, u>>] + 1 \in Nat
    BY <1>1
  <2>3. mails' \in [Guid \X User -> Nat]
    BY <1>3, <2>1, <2>2
  <2>4. ASSUME NEW g \in Guid, NEW v \in User
        PROVE  mails'[<<g, v>>] = IF <<g, v>> = <<item, u>> THEN mails[<<item, u>>] + 1
                                                            ELSE mails[<<g, v>>]
    BY <1>3, <2>1
  <2> QED
    BY SMTT(30), <1>3, <2>3, <2>4
<1> QED
  BY <1>2, <1>3 DEF QueueTx

LEMMA TypedCrawl == Typed /\ CrawlStep => Typed'
<1> SUFFICES ASSUME Typed, CrawlStep PROVE Typed'
  OBVIOUS
<1> USE DEF tables, crawl, catchup, history, bounds, Goto, Works, Fails
<1>0. TypeOK /\ (pc \in InHand => item \in Guid)
  BY DEF Typed
<1>1. CASE FetchNothing
  BY <1>0, <1>1 DEF FetchNothing, TypeOK, Typed, CrawlPC, InHand
<1>2. CASE Fetch
  <2>1. todo' \in SUBSET Guid
    BY <1>0, <1>2 DEF Fetch, TypeOK
  <2>2. snap' \in Row
    BY SMTT(30), <1>0, <1>2 DEF Fetch, TypeOK, Row
  <2> QED
    BY <1>0, <1>2, <2>1, <2>2 DEF Fetch, TypeOK, Typed, CrawlPC, InHand
<1>3. ASSUME UpdateFeed
      PROVE  row' \in Row /\ failures' \in Nat
  BY <1>0, <1>3 DEF UpdateFeed, TypeOK
<1>4. CASE SaveOnly
  BY <1>0, <1>3, <1>4, TypedEnds DEF SaveOnly, TypeOK, Typed
<1>5. CASE Save
  BY <1>0, <1>3, <1>5 DEF Save, TypeOK, Typed, CrawlPC, InHand
<1>6. CASE Load
  BY <1>0, <1>6, TypedEnds DEF Load, TypeOK, Typed, CrawlPC, InHand
<1>7. ASSUME NEW g \in Guid, NextItem(g)
      PROVE  Typed'
  BY <1>0, <1>7 DEF NextItem, TypeOK, Typed, CrawlPC
<1>8. CASE EndCrawl
  BY <1>0, <1>8, TypedEnds DEF EndCrawl, TypeOK, Typed
<1>9. CASE Check
  BY <1>0, <1>9 DEF Check, TypeOK, Typed, CrawlPC, InHand
<1>10. CASE Content
  BY <1>0, <1>10 DEF Content, TypeOK, Typed, CrawlPC, InHand
<1>11. CASE MarkSeen
  BY <1>0, <1>11 DEF MarkSeen, TypeOK, Typed, CrawlPC, InHand
<1>12. ASSUME NEW u \in User, Queue(u)
      PROVE  Typed'
  <2>1. item \in Guid
    BY <1>0, <1>12 DEF Queue, InHand
  <2>2. seen' \in SUBSET Guid /\ failures' \in Nat
    BY <1>0, <1>12, <2>1 DEF Queue, QueueTx, TypeOK
  <2>3. mails' \in [Guid \X User -> Nat]
    BY <1>0, <1>12, <2>1, OneMail DEF Queue
  <2> QED
    BY <1>0, <1>12, <2>1, <2>2, <2>3 DEF Queue, TypeOK, Typed, CrawlPC, InHand
<1> QED
  BY <1>1, <1>2, <1>4, <1>5, <1>6, <1>7, <1>8, <1>9, <1>10, <1>11, <1>12 DEF CrawlStep

LEMMA TypedCatchup == Typed /\ CatchupStep => Typed'
<1> SUFFICES ASSUME Typed, CatchupStep PROVE Typed'
  OBVIOUS
<1> USE DEF tables, crawl, catchup, history, bounds, Works, Fails
<1>0. TypeOK /\ (pc \in InHand => item \in Guid)
  BY DEF Typed
<1>1. CASE CatchupRead
  BY <1>0, <1>1 DEF CatchupRead, TypeOK, Typed, Row
<1>2. CASE CatchupFails \/ CatchupUpToDate \/ CatchupEnd
  <2>1. /\ cpc' \in {"idle", "fetch", "marking"} /\ csnap' \in 0..MaxVersion
        /\ ctodo' \in SUBSET Guid
    BY <1>2, TypedEnds DEF CatchupFails, CatchupUpToDate, CatchupEnd
  <2>2. failures' \in Nat
    BY <1>0, <1>2 DEF CatchupFails, CatchupUpToDate, CatchupEnd, TypeOK
  <2>3. UNCHANGED <<tables, version, read, crawl, history, rewinds, aborts>>
    BY <1>2 DEF CatchupFails, CatchupUpToDate, CatchupEnd
  <2> QED
    BY <1>0, <2>1, <2>2, <2>3 DEF TypeOK, Typed
<1>3. CASE CatchupFetch
  BY <1>0, <1>3 DEF CatchupFetch, TypeOK, Typed
<1>4. ASSUME NEW g \in Guid, CatchupMark(g)
      PROVE  Typed'
  BY <1>0, <1>4 DEF CatchupMark, TypeOK, Typed
<1> QED
  BY <1>1, <1>2, <1>3, <1>4 DEF CatchupStep

LEMMA TypedRequest == Typed /\ Request => Typed'
<1> SUFFICES ASSUME Typed, Request PROVE Typed'
  OBVIOUS
<1> USE DEF tables, crawl, catchup, history, bounds
<1>0. TypeOK /\ (pc \in InHand => item \in Guid)
  BY DEF Typed
<1>1. ASSUME NEW S \in SUBSET User, CreateFeed(S)
      PROVE  Typed'
  BY <1>0, <1>1 DEF CreateFeed, TypeOK, Typed, Row
<1>2. CASE PutFeed
  <2>1. row' \in Row
    BY SMTT(30), <1>0, <1>2 DEF PutFeed, TypeOK, Row
  <2> QED
    BY <1>0, <1>2, <2>1 DEF PutFeed, TypeOK, Typed
<1>3. CASE DeleteFeed
  BY <1>0, <1>3 DEF DeleteFeed, TypeOK, Typed
<1>4. ASSUME NEW u \in User, CreateUser(u) \/ DeleteUser(u) \/ Subscribe(u) \/ Unsubscribe(u)
      PROVE  Typed'
  BY <1>0, <1>4 DEF CreateUser, DeleteUser, Subscribe, Unsubscribe, TypeOK, Typed
<1>5. ASSUME NEW u \in User, NEW wanted \in BOOLEAN, SavePreferences(u, wanted)
      PROVE  Typed'
  BY <1>0, <1>5 DEF SavePreferences, TypeOK, Typed
<1>6. ASSUME NEW S \in SUBSET Guid, Rewind(S)
      PROVE  Typed'
  <2>1. unmarks' \in [Guid -> Nat]
    BY <1>0, <1>6 DEF Rewind, TypeOK
  <2> QED
    BY <1>0, <1>6, <2>1 DEF Rewind, TypeOK, Typed
<1> QED
  BY <1>1, <1>2, <1>3, <1>4, <1>5, <1>6 DEF Request

LEMMA TypedNext == Typed /\ [Next]_vars => Typed'
<1> SUFFICES ASSUME Typed, [Next]_vars PROVE Typed'
  OBVIOUS
<1> USE DEF tables, crawl, catchup, history, bounds
<1>0. TypeOK /\ (pc \in InHand => item \in Guid)
  BY DEF Typed
<1>1. CASE ReadRow \/ SkipCrawl
  BY <1>0, <1>1 DEF ReadRow, SkipCrawl, TypeOK, Typed
<1>2. CASE StartCrawl
  BY <1>0, <1>2 DEF StartCrawl, Goto, TypeOK, Typed, CrawlPC, InHand
<1>3. CASE Publish
  BY <1>0, <1>3 DEF Publish, TypeOK, Typed
<1>4. CASE Abort
  BY <1>0, <1>4, TypedEnds DEF Abort, TypeOK, Typed
<1>5. CASE UNCHANGED vars
  BY <1>0, <1>5 DEF vars, TypeOK, Typed
<1> QED
  BY <1>1, <1>2, <1>3, <1>4, <1>5, TypedCrawl, TypedCatchup, TypedRequest DEF Next

-----------------------------------------------------------------------------
(* No item is queued twice. *)

Inv == Typed /\ QueuedOnce

\* What may happen to the books: nothing is queued, and what is taken out of
\* seen_items was rewound, or the feed is gone.
LEMMA QueuedOnceKept ==
  ASSUME Inv, UNCHANGED mails, feed = "deleted" => feed' = "deleted",
         \A g \in Guid : unmarks'[g] \in Nat /\ unmarks'[g] >= unmarks[g],
         \A g \in Guid : g \in seen => \/ g \in seen' \/ feed' = "deleted"
                                       \/ unmarks'[g] > unmarks[g]
  PROVE  QueuedOnce'
<1>1. ASSUME NEW g \in Guid, NEW u \in User
      PROVE  mails'[<<g, u>>] <= unmarks'[g] + IF g \in seen' \/ feed' = "deleted" THEN 1 ELSE 0
  <2>1. mails[<<g, u>>] \in Nat /\ unmarks[g] \in Nat /\ unmarks'[g] \in Nat
    BY DEF Inv, Typed, TypeOK
  <2>2. mails[<<g, u>>] <= unmarks[g] + IF g \in seen \/ feed = "deleted" THEN 1 ELSE 0
    BY DEF Inv, QueuedOnce
  <2> QED
    BY <2>1, <2>2
<1> QED
  BY <1>1 DEF QueuedOnce

LEMMA InvInit == Init => Inv
<1> SUFFICES ASSUME Init PROVE Inv
  OBVIOUS
<1>1. \A g \in Guid, u \in User : mails[<<g, u>>] = 0 /\ unmarks[g] = 0
  BY DEF Init
<1> QED
  BY <1>1, TypedInit DEF Inv, QueuedOnce

LEMMA InvNext == Inv /\ [Next]_vars => Inv'
<1> SUFFICES ASSUME Inv, [Next]_vars PROVE Inv'
  OBVIOUS
<1> USE DEF tables, crawl, catchup, history, bounds
<1>0. Typed' /\ TypeOK /\ Typed
  BY TypedNext DEF Inv, Typed
<1>a. \A g \in Guid : unmarks[g] \in Nat
  BY <1>0 DEF TypeOK
<1>1. ASSUME NEW u \in User, Queue(u)
      PROVE  QueuedOnce'
  <2>1. item \in Guid /\ UNCHANGED <<unmarks, feed>> /\ seen \subseteq seen'
    BY <1>0, <1>1 DEF Queue, QueueTx, Typed, InHand
  <2>2. ASSUME NEW g \in Guid, NEW v \in User
        PROVE  mails'[<<g, v>>] <= unmarks'[g] + IF g \in seen' \/ feed' = "deleted" THEN 1 ELSE 0
    <3>1. mails[<<g, v>>] <= unmarks[g] + IF g \in seen \/ feed = "deleted" THEN 1 ELSE 0
      BY DEF Inv, QueuedOnce
    <3>2. mails[<<g, v>>] \in Nat /\ unmarks[g] \in Nat
      BY <1>0 DEF TypeOK
    <3>3. \/ mails'[<<g, v>>] = mails[<<g, v>>]
          \/ /\ Live /\ g \notin seen /\ g \in seen'
             /\ mails'[<<g, v>>] = mails[<<g, v>>] + 1
      BY <1>0, <1>1, <2>1, OneMail DEF Queue
    <3> QED
      BY <2>1, <3>1, <3>2, <3>3 DEF Live
  <2> QED
    BY <2>2 DEF QueuedOnce
<1>2. CASE CrawlStep /\ ~ \E u \in User : Queue(u)
  <2>1. UNCHANGED <<feed, mails, unmarks>> /\ seen \subseteq seen'
    BY <1>2 DEF CrawlStep, FetchNothing, Fetch, SaveOnly, Save, Load, NextItem, EndCrawl,
                Check, Content, MarkSeen
  <2> QED
    BY <1>0, <1>a, <2>1, QueuedOnceKept DEF Inv
<1>3. CASE CatchupStep
  <2>1. UNCHANGED <<feed, mails, unmarks>> /\ seen \subseteq seen'
    BY <1>3 DEF CatchupStep, CatchupRead, CatchupFails, CatchupUpToDate, CatchupFetch,
                CatchupMark, CatchupEnd
  <2> QED
    BY <1>0, <1>a, <2>1, QueuedOnceKept DEF Inv
<1>4. ASSUME NEW S \in SUBSET Guid, Rewind(S)
      PROVE  QueuedOnce'
  <2>1. \A g \in Guid : unmarks'[g] = unmarks[g] + IF g \in S THEN 1 ELSE 0
    BY <1>4 DEF Rewind
  <2>2. UNCHANGED <<feed, mails>> /\ seen' = seen \ S
    BY <1>4 DEF Rewind
  <2> QED
    BY <1>a, <2>1, <2>2, QueuedOnceKept
<1>5. CASE Request /\ ~ \E S \in SUBSET Guid : Rewind(S)
  <2>1. /\ UNCHANGED <<mails, unmarks>>
        /\ feed' = "deleted" \/ (feed # "deleted" /\ seen' = seen)
                             \/ (feed' = feed /\ seen' = seen)
    BY <1>5 DEF Request, CreateFeed, PutFeed, DeleteFeed, CreateUser, DeleteUser, Subscribe,
                Unsubscribe, SavePreferences
  <2> QED
    BY <1>0, <1>a, <2>1, QueuedOnceKept DEF Inv
<1>6. CASE ReadRow \/ SkipCrawl \/ StartCrawl \/ Publish \/ Abort \/ UNCHANGED vars
  <2>1. UNCHANGED <<feed, mails, unmarks, seen>>
    BY <1>6 DEF ReadRow, SkipCrawl, StartCrawl, Publish, Abort, vars
  <2> QED
    BY <1>0, <1>a, <2>1, QueuedOnceKept DEF Inv
<1> QED
  BY <1>0, <1>1, <1>2, <1>3, <1>4, <1>5, <1>6 DEF Next, CrawlStep, Inv

LEMMA Invariance == Spec => []Inv
BY InvInit, InvNext, PTL DEF Spec

\* Every variable keeps its type: a guid is in hand wherever the crawl uses one.
THEOREM TypeCorrect == Spec => []TypeOK
<1>1. Inv => TypeOK
  BY DEF Inv, Typed
<1> QED
  BY <1>1, Invariance, PTL

\* However crawls, catch-ups, edits, rewinds, deletions, failures and crashes
\* interleave, no subscriber is queued an item more often than once and once
\* more for each rewind of it.
THEOREM NeverQueuedTwice == Spec => []QueuedOnce
<1>1. Inv => QueuedOnce
  BY DEF Inv
<1> QED
  BY <1>1, Invariance, PTL

-----------------------------------------------------------------------------
(* The ledger. *)

\* Deleting a feed takes its rows of seen_items with it, and no foreign key lets
\* one back in: without this a rewind could still find something to take out.
Emptied == ~Live => seen = {}

LInv == Typed /\ Emptied

\* What a step of the crawl, or of a catch-up, does to the ledger.
LEMMA CrawlOnLedger ==
  ASSUME Typed, CrawlStep \/ CatchupStep
  PROVE  \/ UNCHANGED <<feed, seen, mails>>
         \/ \E g \in Guid : Ledger!Mark(g) \/ \E U \in SUBSET User : Ledger!Mail(g, U)
<1> USE DEF tables, crawl, catchup, history, bounds, Goto, Live
<1>0. TypeOK /\ (pc \in InHand => item \in Guid)
  BY DEF Typed
<1>1. ASSUME NEW u \in User, Queue(u)
      PROVE  \/ UNCHANGED <<feed, seen, mails>>
             \/ \E g \in Guid : \E U \in SUBSET User : Ledger!Mail(g, U)
  <2>1. item \in Guid /\ UNCHANGED feed
    BY <1>0, <1>1 DEF Queue, InHand
  <2>2. CASE UNCHANGED <<seen, mails>>
    BY <2>1, <2>2
  <2>3. CASE /\ feed = "live" /\ item \notin seen /\ seen' = seen \cup {item}
             /\ mails' = [mails EXCEPT ![<<item, u>>] = mails[<<item, u>>] + 1]
    <3>1. mails \in [Guid \X User -> Nat]
      BY <1>0 DEF TypeOK
    <3>2. ASSUME NEW m \in Guid \X User
          PROVE  mails'[m] = mails[m] + IF m \in {item} \X {u} THEN 1 ELSE 0
      <4>1. mails[m] \in Nat /\ (m \in {item} \X {u} <=> m = <<item, u>>)
        BY <3>1
      <4> QED
        BY <2>3, <3>1, <4>1
    <3>3. mails' = [m \in Guid \X User |-> mails'[m]]
      BY <2>3, <3>1
    <3>4. mails' = [m \in Guid \X User |-> mails[m] + IF m \in {item} \X {u} THEN 1 ELSE 0]
      BY <3>2, <3>3
    <3>5. Ledger!Mail(item, {u})
      BY <2>1, <2>3, <3>4 DEF Ledger!Mail
    <3> QED
      BY <2>1, <3>5
  <2> QED
    BY <1>1, <2>2, <2>3 DEF Queue, QueueTx
<1>2. CASE MarkSeen
  <2>1. item \in Guid
    BY <1>0, <1>2 DEF MarkSeen, InHand
  <2>2. UNCHANGED <<feed, seen, mails>> \/ Ledger!Mark(item)
    BY <1>2 DEF MarkSeen, Ledger!Mark
  <2> QED
    BY <2>1, <2>2
<1>3. ASSUME NEW g \in Guid, CatchupMark(g)
      PROVE  UNCHANGED <<feed, seen, mails>> \/ Ledger!Mark(g)
  BY <1>3 DEF CatchupMark, Ledger!Mark
<1>4. ASSUME \/ FetchNothing \/ Fetch \/ SaveOnly \/ Save \/ Load \/ EndCrawl
             \/ Check \/ Content \/ \E g \in Guid : NextItem(g)
             \/ CatchupRead \/ CatchupFails \/ CatchupUpToDate \/ CatchupFetch \/ CatchupEnd
      PROVE  UNCHANGED <<feed, seen, mails>>
  BY <1>4 DEF FetchNothing, Fetch, SaveOnly, Save, Load, EndCrawl, Check, Content, NextItem,
              CatchupRead, CatchupFails, CatchupUpToDate, CatchupFetch, CatchupEnd
<1> QED
  BY <1>1, <1>2, <1>3, <1>4 DEF CrawlStep, CatchupStep

\* What a request does to it.
LEMMA RequestOnLedger ==
  ASSUME LInv, Request
  PROVE  \/ UNCHANGED <<feed, seen, mails>>
         \/ Ledger!Open \/ Ledger!Delete
         \/ \E S \in SUBSET Guid : Ledger!Rewind(S)
<1> USE DEF tables, crawl, catchup, history, bounds, Live
<1>1. ASSUME NEW S \in SUBSET User, CreateFeed(S)
      PROVE  Ledger!Open
  BY <1>1 DEF CreateFeed, Ledger!Open
<1>2. CASE DeleteFeed
  BY <1>2 DEF DeleteFeed, Ledger!Delete
<1>3. ASSUME NEW S \in SUBSET Guid, Rewind(S)
      PROVE  Ledger!Rewind(S)
  <2>1. S \in (SUBSET seen) \ {{}} /\ seen' = seen \ S /\ UNCHANGED <<feed, mails>>
    BY <1>3 DEF Rewind
  <2>2. PICK g \in seen : g \in S
    BY <2>1
  <2>3. feed = "live"
    BY <2>2 DEF LInv, Emptied
  <2> QED
    BY <2>1, <2>3 DEF Ledger!Rewind
<1>4. ASSUME \/ PutFeed
             \/ \E u \in User : CreateUser(u) \/ DeleteUser(u) \/ Subscribe(u) \/ Unsubscribe(u)
             \/ \E u \in User, wanted \in BOOLEAN : SavePreferences(u, wanted)
      PROVE  UNCHANGED <<feed, seen, mails>>
  BY <1>4 DEF PutFeed, CreateUser, DeleteUser, Subscribe, Unsubscribe, SavePreferences
<1> QED
  BY <1>1, <1>2, <1>3, <1>4 DEF Request

LEMMA StepOnLedger == LInv /\ [Next]_vars => [Ledger!Next]_(Ledger!vars)
<1> SUFFICES ASSUME LInv, [Next]_vars
             PROVE  Ledger!Next \/ UNCHANGED <<feed, seen, mails>>
  BY DEF Ledger!vars
<1>1. CASE CrawlStep \/ CatchupStep
  BY <1>1, CrawlOnLedger DEF LInv, Ledger!Next
<1>2. CASE Request
  BY <1>2, RequestOnLedger DEF Ledger!Next
<1>3. CASE ReadRow \/ SkipCrawl \/ StartCrawl \/ Publish \/ Abort \/ UNCHANGED vars
  BY <1>3 DEF ReadRow, SkipCrawl, StartCrawl, Publish, Abort, vars, tables, history
<1> QED
  BY <1>1, <1>2, <1>3 DEF Next

\* A step of the ledger never marks anything for a feed that is not there.
LEMMA LInvNext == LInv /\ [Next]_vars => LInv'
<1> SUFFICES ASSUME LInv, [Next]_vars PROVE LInv'
  OBVIOUS
<1>1. Typed'
  BY TypedNext DEF LInv
<1>2. Ledger!Next \/ UNCHANGED <<feed, seen, mails>>
  BY StepOnLedger DEF Ledger!vars
<1>3. Emptied'
  BY <1>2 DEF LInv, Emptied, Live, Ledger!Next, Ledger!Open, Ledger!Delete, Ledger!Mark,
              Ledger!Mail, Ledger!Rewind
<1> QED
  BY <1>1, <1>3 DEF LInv

\* However crawls, catch-ups, requests, failures and aborts interleave, an item is
\* mailed only while it is unseen and the feed is there, in the step that makes
\* it seen; the transaction of a crawl whose feed was deleted fails as a whole.
THEOREM CrawlImplementsLedger == Spec => ImplementsLedger
<1>1. Init => LInv
  BY TypedInit DEF LInv, Emptied, Init
<1>2. Init => Ledger!Init
  BY DEF Init, Ledger!Init
<1> QED
  BY <1>1, <1>2, LInvNext, StepOnLedger, PTL DEF Spec, ImplementsLedger, Ledger!Spec

-----------------------------------------------------------------------------
(* The stored ETag, where nothing fails, is cut short or is rewound. *)

\* Items the crawl has yet to see to, from the time its ETag is stored.
Pending ==
  IF pc \in {"load", "items"} \cup InHand
    THEN todo \cup (IF pc \in InHand THEN {item} ELSE {})
    ELSE {}

\* What an ETag stands for: items that have been seen to, or will be by the crawl
\* that is under way.
SeenTo(etag) == etag > 0 => Items[etag] \subseteq seen \cup Pending

Faultless == MaxFailures = 0 /\ MaxRewinds = 0 /\ MaxAborts = 0

EtagsHonest ==
  /\ feed = "unused" => read = NoRow /\ pc = "idle"
  /\ Live => /\ SeenTo(row.etag)
             /\ read # NoRow => SeenTo(read.etag)
             /\ pc \in {"fetch", "saveOnly"} => SeenTo(snap.etag)
             /\ pc = "save" => snap.etag > 0 /\ todo = Items[snap.etag]
             /\ pc = "queue" => to # {} \* so that its item is seen to

LEMMA HonestInit == Init => EtagsHonest
BY DEF Init, EtagsHonest, SeenTo, Live

LEMMA NothingFails ==
  ASSUME Faultless, Typed
  PROVE  ~Fails /\ ~Abort /\ \A S : ~Rewind(S)
BY DEF Faultless, Typed, TypeOK, Fails, Abort, Rewind

\* While the feed is there, no step gives up an item that is seen or pending.
LEMMA NothingForgotten ==
  ASSUME Faultless, Typed, EtagsHonest, [Next]_vars, Live, Live'
  PROVE  seen \cup Pending \subseteq seen' \cup Pending'
<1> USE NothingFails DEF tables, crawl, catchup, history, bounds, Goto
<1>0. TypeOK /\ (pc \in InHand => item \in Guid)
  BY DEF Typed
<1>1. CASE CrawlStep
  <2>1. CASE FetchNothing \/ Fetch \/ SaveOnly \/ Save \/ Load \/ EndCrawl
    BY <2>1
    DEF FetchNothing, Fetch, SaveOnly, Save, Load, EndCrawl, NoCrawl, Pending, InHand
  <2>2. ASSUME NEW g \in Guid, NextItem(g)
        PROVE  seen \cup Pending \subseteq seen' \cup Pending'
    BY <2>2 DEF NextItem, Pending, InHand
  <2>3. CASE Check \/ Content
    BY <2>3 DEF Check, Content, Pending, InHand
  <2>4. CASE MarkSeen
    BY <2>4 DEF MarkSeen, Pending, InHand
  <2>5. ASSUME NEW u \in User, Queue(u)
        PROVE  seen \cup Pending \subseteq seen' \cup Pending'
    <3>1. item \in seen' /\ seen \subseteq seen' /\ UNCHANGED <<item, todo>> /\ pc = "queue"
          /\ pc' \in {"items", "queue"}
      BY <2>5 DEF Queue, QueueTx
    <3> QED
      BY <3>1 DEF Pending, InHand
  <2> QED
    BY <1>1, <2>1, <2>2, <2>3, <2>4, <2>5 DEF CrawlStep
<1>2. CASE CatchupStep
  BY <1>2 DEF CatchupStep, CatchupRead, CatchupFails, CatchupUpToDate, CatchupFetch,
              CatchupMark, CatchupEnd, Pending
<1>3. CASE Request
  BY <1>3 DEF Request, CreateFeed, PutFeed, DeleteFeed, CreateUser, DeleteUser, Subscribe,
              Unsubscribe, SavePreferences, Pending, Live
<1>4. CASE StartCrawl
  BY <1>4 DEF StartCrawl, Pending, InHand
<1>5. CASE ReadRow \/ SkipCrawl \/ Publish \/ UNCHANGED vars
  BY <1>5 DEF ReadRow, SkipCrawl, Publish, vars, Pending
<1> QED
  BY <1>1, <1>2, <1>3, <1>4, <1>5 DEF Next

\* The copies of the ETag that a crawl makes.
LEMMA HonestCrawl ==
  ASSUME Faultless, Typed, EtagsHonest, CrawlStep, Live
  PROVE  /\ Live' /\ UNCHANGED read
         /\ row' = row \/ (row' = snap /\ pc \in {"saveOnly", "save"})
         /\ pc' \in {"fetch", "saveOnly"} => UNCHANGED snap /\ pc = "fetch"
         /\ pc' = "save" => snap'.etag > 0 /\ todo' = Items[snap'.etag]
         /\ pc' = "queue" => to' # {}
<1> USE NothingFails DEF tables, crawl, catchup, history, bounds, Goto, Live
<1>0. TypeOK /\ (pc \in InHand => item \in Guid)
  BY DEF Typed
<1>1. CASE FetchNothing \/ Load \/ EndCrawl \/ Check \/ Content \/ MarkSeen
  BY <1>1 DEF FetchNothing, Load, EndCrawl, Check, Content, MarkSeen, NoCrawl
<1>2. CASE Fetch
  <2>1. snap'.etag = version /\ version > 0
    BY <1>0, <1>2 DEF Fetch, TypeOK, Row
  <2> QED
    BY <1>2, <2>1 DEF Fetch
<1>3. CASE SaveOnly
  BY <1>3 DEF SaveOnly, UpdateFeed, NoCrawl
<1>4. CASE Save
  BY <1>4 DEF Save, UpdateFeed
<1>5. ASSUME NEW g \in Guid, NextItem(g)
      PROVE  pc' = "check" /\ UNCHANGED <<feed, row, read>>
  BY <1>5 DEF NextItem
<1>6. ASSUME NEW u \in User, Queue(u)
      PROVE  /\ pc' \in {"items", "queue"} /\ UNCHANGED <<feed, row, read>>
             /\ pc' = "queue" => to' # {}
  BY <1>6 DEF Queue
<1> QED
  BY <1>1, <1>2, <1>3, <1>4, <1>5, <1>6 DEF CrawlStep

LEMMA HonestNext == Faultless /\ Typed /\ EtagsHonest /\ [Next]_vars => EtagsHonest'
<1> SUFFICES ASSUME Faultless, Typed, EtagsHonest, [Next]_vars
             PROVE  EtagsHonest'
  OBVIOUS
<1> USE DEF tables, crawl, catchup, history, bounds, Goto
<1>0. TypeOK
  BY DEF Typed
<1>1. feed' = "unused" => read' = NoRow /\ pc' = "idle"
  <2> SUFFICES ASSUME feed' = "unused" PROVE read' = NoRow /\ pc' = "idle"
    OBVIOUS
  <2>1. feed = "unused"
    BY DEF Next, vars, ReadRow, SkipCrawl, StartCrawl, CrawlStep, FetchNothing, Fetch,
           SaveOnly, Save, Load, NextItem, EndCrawl, Check, Content, MarkSeen, Queue,
           CatchupStep, CatchupRead, CatchupFails, CatchupUpToDate, CatchupFetch,
           CatchupMark, CatchupEnd, Request, CreateFeed, PutFeed, DeleteFeed, CreateUser,
           DeleteUser, Subscribe, Unsubscribe, SavePreferences, Rewind, Publish, Abort
  <2>2. read = NoRow /\ pc = "idle"
    BY <2>1 DEF EtagsHonest
  <2>3. ~CrawlStep
    BY <2>2 DEF CrawlStep, FetchNothing, Fetch, SaveOnly, Save, Load, NextItem, EndCrawl,
                Check, Content, MarkSeen, Queue
  <2>4. CatchupStep \/ Request => UNCHANGED <<read, pc>>
    BY DEF CatchupStep, CatchupRead, CatchupFails, CatchupUpToDate, CatchupFetch,
           CatchupMark, CatchupEnd, Request, CreateFeed, PutFeed, DeleteFeed, CreateUser,
           DeleteUser, Subscribe, Unsubscribe, SavePreferences, Rewind
  <2> QED
    BY <2>1, <2>2, <2>3, <2>4, NothingFails
    DEF Next, vars, ReadRow, SkipCrawl, StartCrawl, Publish, Live
<1>2. CASE ~Live'
  BY <1>1, <1>2 DEF EtagsHonest
<1>3. CASE Live' /\ ~Live
  <2>1. PICK S \in SUBSET User : CreateFeed(S)
    BY <1>3, NothingFails
    DEF Live, Next, vars, ReadRow, SkipCrawl, StartCrawl, CrawlStep, FetchNothing, Fetch,
        SaveOnly, Save, Load, NextItem, EndCrawl, Check, Content, MarkSeen, Queue,
        CatchupStep, CatchupRead, CatchupFails, CatchupUpToDate, CatchupFetch,
        CatchupMark, CatchupEnd, Request, CreateFeed, PutFeed, DeleteFeed, CreateUser,
        DeleteUser, Subscribe, Unsubscribe, SavePreferences, Publish
  <2>2. read' = NoRow /\ pc' = "idle" /\ row'.etag = 0
    BY <2>1 DEF CreateFeed, EtagsHonest
  <2> QED
    BY <1>1, <2>2 DEF EtagsHonest, SeenTo
<1>4. CASE Live' /\ Live
  <2>0. /\ SeenTo(row.etag)
        /\ read # NoRow => SeenTo(read.etag)
        /\ pc \in {"fetch", "saveOnly"} => SeenTo(snap.etag)
        /\ pc = "save" => snap.etag > 0 /\ todo = Items[snap.etag]
        /\ pc = "queue" => to # {}
    BY <1>4 DEF EtagsHonest
  <2> DEFINE Still(etag) == etag > 0 => Items[etag] \subseteq seen' \cup Pending'
  <2>1. ASSUME NEW etag, SeenTo(etag)
        PROVE  Still(etag)
    BY <1>4, <2>1, NothingForgotten DEF SeenTo
  <2> SUFFICES /\ Still(row'.etag)
               /\ read' # NoRow => Still(read'.etag)
               /\ pc' \in {"fetch", "saveOnly"} => Still(snap'.etag)
               /\ pc' = "save" => snap'.etag > 0 /\ todo' = Items[snap'.etag]
               /\ pc' = "queue" => to' # {}
    BY <1>1 DEF EtagsHonest, SeenTo
  <2>2. CASE CrawlStep
    <3>1. pc = "save" => Still(snap.etag)
      <4>1. CASE pc = "save"
        <5>1. pc' = "load" /\ UNCHANGED <<todo, snap>>
          BY <2>2, <4>1, NothingFails
          DEF CrawlStep, FetchNothing, Fetch, SaveOnly, Save, Load, NextItem, EndCrawl,
              Check, Content, MarkSeen, Queue
        <5> QED
          BY <2>0, <4>1, <5>1 DEF Pending
      <4> QED
        BY <4>1
    <3> HIDE DEF Still
    <3> QED
      BY <1>4, <2>0, <2>1, <2>2, <3>1, HonestCrawl
  <2>3. CASE CatchupStep
    <3>1. UNCHANGED <<row, read, pc, snap, todo, to>>
      BY <2>3 DEF CatchupStep, CatchupRead, CatchupFails, CatchupUpToDate, CatchupFetch,
                  CatchupMark, CatchupEnd
    <3> HIDE DEF Still
    <3> QED
      BY <2>0, <2>1, <3>1
  <2>4. CASE Request
    <3>1. UNCHANGED <<read, pc, snap, todo, to>> /\ (row' = row \/ row'.etag = 0)
      BY <1>4, <2>4 DEF Request, CreateFeed, PutFeed, DeleteFeed, CreateUser, DeleteUser,
                        Subscribe, Unsubscribe, SavePreferences, Rewind
    <3>2. row'.etag = 0 => Still(row'.etag)
      OBVIOUS
    <3> HIDE DEF Still
    <3> QED
      BY <2>0, <2>1, <3>1, <3>2
  <2>5. CASE ReadRow \/ SkipCrawl \/ StartCrawl \/ Publish \/ UNCHANGED vars
    <3> HIDE DEF Still
    <3> QED
      BY <2>0, <2>1, <2>5 DEF ReadRow, SkipCrawl, StartCrawl, Publish, vars
  <2> QED
    BY <2>2, <2>3, <2>4, <2>5, NothingFails DEF Next
<1> QED
  BY <1>2, <1>3, <1>4

\* Where no statement fails, no crawl is cut short and nothing is rewound, a 304
\* never hides an item: an ETag is stored before its items are looked at, and
\* copied, overwritten and read back by later crawls, but outside the crawl that
\* stored it all of them have been seen to.  (With a failure it is not so: README.)
THEOREM EtagHidesNothing ==
  ASSUME MaxFailures = 0, MaxRewinds = 0, MaxAborts = 0
  PROVE  Spec => []ConditionalGetSafe
<1>1. Init => Typed /\ EtagsHonest
  BY TypedInit, HonestInit
<1>2. Typed /\ EtagsHonest /\ [Next]_vars => (Typed /\ EtagsHonest)'
  BY TypedNext, HonestNext DEF Faultless
<1>3. Typed /\ EtagsHonest => ConditionalGetSafe
  BY DEF EtagsHonest, SeenTo, Pending, InHand, ConditionalGetSafe
<1> QED
  BY <1>1, <1>2, <1>3, PTL DEF Spec

=============================================================================
