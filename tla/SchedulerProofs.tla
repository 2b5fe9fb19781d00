---------------------------- MODULE SchedulerProofs ----------------------------
(***************************************************************************)
(* Theorems about the scheduler, for any finite set of feeds, any workers, *)
(* callers of Stop, scans and failed statements.                           *)
(*                                                                         *)
(* The inductive invariant is Owned: every feed has at most one owner, a   *)
(* crawl, a scan about to start, or the poll that has flagged it and not   *)
(* started it yet, and it is flagged exactly while it has one.             *)
(***************************************************************************)
EXTENDS Scheduler, FiniteSetTheorems, SequenceTheorems, TLAPS

-----------------------------------------------------------------------------
(* The due feeds. *)

LEMMA OthersAreFeeds ==
  ASSUME due \in Seq(Feed), NEW f \in Feed
  PROVE  Others(f) \in Seq(Feed)
<1>1. CASE InDue(f)
  <2> DEFINE place == CHOOSE i \in 1..Len(due) : due[i] = f
  <2>1. place \in 1..Len(due)
    BY <1>1 DEF InDue
  <2>2. SubSeq(due, 1, place - 1) \in Seq(Feed)
    <3>1. \A i \in 1..(place - 1) : due[i] \in Feed
      BY <2>1, LenProperties
    <3> QED
      BY <2>1, <3>1, LenProperties, SubSeqProperties
  <2>3. SubSeq(due, place + 1, Len(due)) \in Seq(Feed)
    <3>1. \A i \in (place + 1)..Len(due) : due[i] \in Feed
      BY <2>1, LenProperties
    <3> QED
      BY <2>1, <3>1, LenProperties, SubSeqProperties
  <2> QED
    BY <1>1, <2>2, <2>3, ConcatProperties DEF Others
<1>2. CASE ~InDue(f)
  BY <1>2 DEF Others
<1> QED
  BY <1>1, <1>2

LEMMA RescheduleTyped ==
  ASSUME due \in Seq(Feed), NEW f \in Feed, Reschedule(f)
  PROVE  due' \in Seq(Feed)
BY OthersAreFeeds, AppendProperties DEF Reschedule

-----------------------------------------------------------------------------
(* The crawls that run, and the WaitGroup. *)

LEMMA RunningFinite == IsFiniteSet(Running) /\ Cardinality(Running) \in Nat
<1>1. IsFiniteSet(Kind)
  <2>1. Kind = ({} \cup {"poll"}) \cup {"scan"}
    BY DEF Kind
  <2> QED
    BY <2>1, FS_EmptySet, FS_AddElement
<1>2. IsFiniteSet(Kind \X Feed)
  BY <1>1, FeedAssumption, FS_Product
<1>3. Running \in SUBSET (Kind \X Feed)
  BY DEF Running
<1> QED
  BY <1>2, <1>3, FS_Subset, FS_CardinalityType

\* What the set of crawls becomes when one of them moves.
LEMMA RunningMoves ==
  ASSUME TypeOK, NEW k \in Kind, NEW f \in Feed, NEW to \in Phase,
         task' = [task EXCEPT ![k][f] = to]
  PROVE  /\ <<k, f>> \in Running <=> task[k][f] # "none"
         /\ Running' = IF to = "none" THEN Running \ {<<k, f>>} ELSE Running \cup {<<k, f>>}
<1>1. ASSUME NEW t \in Kind \X Feed
      PROVE  task'[t[1]][t[2]] = IF t = <<k, f>> THEN to ELSE task[t[1]][t[2]]
  BY DEF TypeOK
<1> QED
  BY <1>1 DEF Running

\* A crawl begins: one more.
LEMMA CountBegins ==
  ASSUME TypeOK, wg = Cardinality(Running),
         NEW k \in Kind, NEW f \in Feed, task[k][f] = "none",
         task' = [task EXCEPT ![k][f] = "crawl"], wg' = wg + 1
  PROVE  wg' = Cardinality(Running')
<1>1. Running' = Running \cup {<<k, f>>} /\ <<k, f>> \notin Running
  BY RunningMoves DEF Phase
<1> QED
  BY <1>1, RunningFinite, FS_AddElement

\* A crawl ends: one less.
LEMMA CountEnds ==
  ASSUME TypeOK, wg = Cardinality(Running),
         NEW k \in Kind, NEW f \in Feed, task[k][f] # "none",
         task' = [task EXCEPT ![k][f] = "none"], wg' = wg - 1
  PROVE  wg' = Cardinality(Running') /\ wg' \in Nat
<1>1. Running' = Running \ {<<k, f>>} /\ <<k, f>> \in Running
  BY RunningMoves DEF Phase
<1>2. IsFiniteSet(Running')
  BY <1>1, RunningFinite, FS_RemoveElement
<1> QED
  BY <1>1, <1>2, RunningFinite, FS_RemoveElement, FS_CardinalityType

\* A crawl goes on: as many.
LEMMA CountGoesOn ==
  ASSUME TypeOK, NEW k \in Kind, NEW f \in Feed, NEW from \in Phase \ {"none"},
         NEW to \in Phase \ {"none"}, Step(k, f, from, to)
  PROVE  Running' = Running
<1>1. task[k][f] = from /\ task' = [task EXCEPT ![k][f] = to] /\ to \in Phase
  BY DEF Step
<1>2. <<k, f>> \in Running /\ Running' = Running \cup {<<k, f>>}
  BY <1>1, RunningMoves
<1> QED
  BY <1>2

-----------------------------------------------------------------------------
(* The inductive invariant. *)

\* A feed has one owner at most.
OneOwner ==
  /\ pc \in {"lock", "slot"} => cur \in Feed
  /\ OneCrawlPerFeed
  /\ \A f \in requested : \A k \in Kind : task[k][f] = "none"
  /\ pc = "slot" => cur \notin requested /\ \A k \in Kind : task[k][cur] = "none"

Owned == TypeOK /\ OneOwner /\ FlagsOwned

\* Start and its calls of Stop.  Whoever runs the body of once is past its
\* entry, so that a Stop which finds it running is not the first.
StopOrder ==
  /\ stop[Loop] # "idle" => pc \in {"stop", "returned"}
  /\ once # "new" => \E c \in Caller : stop[c] \notin {"idle", "once"}
  /\ \A c \in Caller : stop[c] = "once" => once # "new"

Inv == Owned /\ StopOrder /\ PollCrawlsWaited

-----------------------------------------------------------------------------
(* The invariant at the start. *)

LEMMA OwnedInit == Init => Owned
<1> SUFFICES ASSUME Init PROVE Owned
  OBVIOUS
<1>1. TypeOK
  <2>1. <<>> \in Seq(Feed)
    OBVIOUS
  <2> QED
    BY <2>1 DEF Init, TypeOK, LoopPC, StopPC, Phase
<1>2. OneOwner
  BY DEF Init, OneOwner, OneCrawlPerFeed, Kind
<1>3. Running = {}
  BY DEF Init, Running
<1>4. FlagsOwned
  BY <1>3, FS_EmptySet DEF Init, FlagsOwned
<1> QED
  BY <1>1, <1>2, <1>4 DEF Owned

-----------------------------------------------------------------------------
(* Steps that leave the owners alone. *)

LEMMA OwnedSameOwners ==
  ASSUME Owned, TypeOK', UNCHANGED <<task, requested, inFlight, wg>>,
         pc # "slot", pc' # "slot",
         pc' = "lock" => cur' \in Feed
  PROVE  Owned'
<1>1. Running' = Running
  BY DEF Running
<1> QED
  BY <1>1 DEF Owned, OneOwner, OneCrawlPerFeed, FlagsOwned

LEMMA OwnedSamePlace ==
  ASSUME Owned, TypeOK', UNCHANGED <<task, requested, inFlight, wg, pc, cur>>
  PROVE  Owned'
<1>1. Running' = Running
  BY DEF Running
<1> QED
  BY <1>1 DEF Owned, OneOwner, OneCrawlPerFeed, FlagsOwned

\* A crawl goes on.
LEMMA OwnedGoesOn ==
  ASSUME Owned, NEW k \in Kind, NEW f \in Feed, NEW from \in Phase \ {"none"},
         NEW to \in Phase \ {"none"}, Step(k, f, from, to),
         due' \in Seq(Feed), dbErrors' \in Nat,
         UNCHANGED <<loop, cancelled, inFlight, wg, stops, fresh, requested, scans>>
  PROVE  Owned'
<1> USE DEF loop, stops
<1>1. Running' = Running
  BY CountGoesOn DEF Owned
<1>2. task' \in [Kind -> [Feed -> Phase]]
  BY DEF Owned, TypeOK, Step
<1>3. \A h \in Kind, g \in Feed : task'[h][g] = "none" <=> task[h][g] = "none"
  BY DEF Owned, TypeOK, Step
<1>4. TypeOK'
  BY <1>2 DEF Owned, TypeOK
<1>5. OneOwner'
  BY <1>3 DEF Owned, TypeOK, OneOwner, OneCrawlPerFeed, Kind
<1>6. FlagsOwned'
  BY <1>1, <1>3 DEF Owned, FlagsOwned
<1> QED
  BY <1>4, <1>5, <1>6 DEF Owned

-----------------------------------------------------------------------------
(* The poll. *)

LEMMA OwnedLoop == Owned /\ LoopStep => Owned'
<1> SUFFICES ASSUME Owned, LoopStep PROVE Owned'
  OBVIOUS
<1> USE DEF loop, stops, tasks, bounds, Goto
<1>0. TypeOK /\ OneOwner /\ FlagsOwned
  BY DEF Owned
<1>1. CASE ListDue
  BY <1>0, <1>1, OwnedSameOwners DEF ListDue, TypeOK, LoopPC
<1>2. CASE ListFails
  <2>1. dbErrors' \in Nat
    BY <1>0, <1>2 DEF ListFails, DBFails, DBWorks, TypeOK
  <2> QED
    BY <1>0, <1>2, <2>1, OwnedSameOwners DEF ListFails, TypeOK, LoopPC
<1>3. CASE EndPoll
  BY <1>0, <1>3, OwnedSameOwners DEF EndPoll, TypeOK, LoopPC
<1>4. CASE NextFeed
  <2>1. Head(todo) \in Feed /\ Tail(todo) \in Seq(Feed)
    BY <1>0, <1>4, HeadTailProperties DEF NextFeed, TypeOK
  <2> QED
    BY <1>0, <1>4, <2>1, OwnedSameOwners DEF NextFeed, TypeOK, LoopPC
<1>5. CASE SkipInFlight
  BY <1>0, <1>5, OwnedSameOwners DEF SkipInFlight, TypeOK, LoopPC
<1>6. CASE Flag
  <2>1. TypeOK' /\ cur \in Feed
    BY <1>0, <1>6 DEF Flag, TypeOK, OneOwner, LoopPC
  <2>2. OneOwner'
    BY <1>0, <1>6, <2>1 DEF Flag, OneOwner, OneCrawlPerFeed, FlagsOwned
  <2>3. FlagsOwned'
    <3>1. Running' = Running
      BY <1>6 DEF Flag, Running
    <3> QED
      BY <1>0, <1>6, <2>1, <3>1 DEF Flag, FlagsOwned
  <2> QED
    BY <2>1, <2>2, <2>3 DEF Owned
<1>7. CASE Spawn
  <2>1. "poll" \in Kind /\ cur \in Feed /\ cur' = NoFeed /\ NoFeed \notin Feed
    BY <1>0, <1>7, NamesAssumption DEF Spawn, OneOwner, Kind
  <2>2. task["poll"][cur] = "none"
    BY <1>0, <1>7, <2>1 DEF Spawn, OneOwner
  <2>3. \A h \in Kind, g \in Feed :
          task'[h][g] = IF h = "poll" /\ g = cur THEN "crawl" ELSE task[h][g]
    BY <1>0, <1>7, <2>1 DEF Spawn, TypeOK
  <2>4. TypeOK'
    BY <1>0, <1>7, <2>1 DEF Spawn, TypeOK, LoopPC, Phase
  <2>5. OneOwner'
    BY <1>0, <1>7, <2>1, <2>3 DEF Spawn, TypeOK, OneOwner, OneCrawlPerFeed, Kind
  <2>6. wg' = Cardinality(Running')
    BY <1>0, <1>7, <2>1, <2>2, CountBegins DEF Spawn, FlagsOwned
  <2>7. inFlight' = {f \in Feed : \/ \E k \in Kind : task'[k][f] # "none"
                                  \/ f \in requested'
                                  \/ pc' = "slot" /\ cur' = f}
    BY <1>0, <1>7, <2>1, <2>3 DEF Spawn, FlagsOwned
  <2> QED
    BY <2>4, <2>5, <2>6, <2>7 DEF Owned, FlagsOwned
<1>8. CASE Postpone
  <2>1. TypeOK' /\ cur \in Feed
    BY <1>0, <1>8 DEF Postpone, TypeOK, OneOwner, LoopPC
  <2>2. OneOwner'
    BY <1>0, <1>8 DEF Postpone, OneOwner, OneCrawlPerFeed
  <2>3. FlagsOwned'
    <3>1. Running' = Running
      BY <1>8 DEF Postpone, Running
    <3> QED
      BY <1>0, <1>8, <2>1, <3>1 DEF Postpone, FlagsOwned, OneOwner
  <2> QED
    BY <2>1, <2>2, <2>3 DEF Owned
<1>9. CASE Select
  BY <1>0, <1>9, OwnedSameOwners DEF Select, TypeOK, LoopPC
<1>10. CASE ReturnAfterStop
  BY <1>0, <1>10, OwnedSameOwners DEF ReturnAfterStop, TypeOK, LoopPC
<1> QED
  BY <1>1, <1>2, <1>3, <1>4, <1>5, <1>6, <1>7, <1>8, <1>9, <1>10 DEF LoopStep

-----------------------------------------------------------------------------
(* The crawls, and the requests to scan. *)

LEMMA OwnedTask ==
  ASSUME Owned, NEW f \in Feed, TaskStep(f)
  PROVE  Owned'
<1> USE DEF loop, stops, tasks, bounds
<1>0. TypeOK /\ OneOwner /\ FlagsOwned
  BY DEF Owned
<1>1. ASSUME NEW k \in Kind, Crawl(k, f)
      PROVE  Owned'
  BY <1>0, <1>1, OwnedGoesOn DEF Crawl, TypeOK, Phase
<1>2. ASSUME NEW k \in Kind, Save(k, f)
      PROVE  Owned'
  <2>1. due' \in Seq(Feed)
    BY <1>0, <1>2, RescheduleTyped DEF Save, TypeOK
  <2>2. dbErrors' \in Nat
    BY <1>0, <1>2 DEF Save, DBWorks, DBFails, TypeOK
  <2>3. PICK to \in Phase \ {"none"} : Step(k, f, "save", to)
    BY <1>2 DEF Save, Last, Phase
  <2> QED
    BY <1>2, <2>1, <2>2, <2>3, OwnedGoesOn DEF Save, Phase
<1>3. ASSUME NEW k \in Kind, EndItems(k, f)
      PROVE  Owned'
  <2>1. Last(k) \in Phase \ {"none"} /\ "items" \in Phase \ {"none"}
    BY DEF Last, Phase
  <2> QED
    BY <1>0, <1>3, <2>1, OwnedGoesOn DEF EndItems, TypeOK
<1>4. CASE ReleaseSlot(f)
  BY <1>0, <1>4, OwnedGoesOn DEF ReleaseSlot, TypeOK, Phase, Kind
<1>5. ASSUME NEW k \in Kind, Unflag(k, f)
      PROVE  Owned'
  <2>1. task[k][f] # "none" /\ task' = [task EXCEPT ![k][f] = "none"]
    BY <1>5 DEF Unflag, Step
  <2>2. wg' = Cardinality(Running') /\ wg' \in Nat
    BY <1>0, <1>5, <2>1, CountEnds DEF Unflag, FlagsOwned
  <2>3. \A h \in Kind, g \in Feed :
          task'[h][g] = IF h = k /\ g = f THEN "none" ELSE task[h][g]
    BY <1>0, <2>1 DEF TypeOK
  <2>4. TypeOK'
    BY <1>0, <1>5, <2>1, <2>2 DEF Unflag, TypeOK, Phase
  <2>5. OneOwner'
    BY <1>0, <1>5, <2>3 DEF Unflag, TypeOK, OneOwner, OneCrawlPerFeed, Kind
  <2>6. f \notin requested /\ ~(pc = "slot" /\ cur = f)
    BY <1>0, <2>1 DEF OneOwner
  <2>7. \A h \in Kind : task'[h][f] = "none"
    BY <1>0, <2>1, <2>3 DEF OneOwner, OneCrawlPerFeed, Kind
  <2>8. inFlight' = {g \in Feed : \/ \E h \in Kind : task'[h][g] # "none"
                                  \/ g \in requested'
                                  \/ pc' = "slot" /\ cur' = g}
    BY <1>0, <1>5, <2>3, <2>6, <2>7 DEF Unflag, FlagsOwned
  <2> QED
    BY <2>2, <2>4, <2>5, <2>8 DEF Owned, FlagsOwned
<1>6. CASE GoScan(f)
  <2>1. "scan" \in Kind /\ task["scan"][f] = "none"
    BY <1>0, <1>6 DEF GoScan, OneOwner, Kind
  <2>2. wg' = Cardinality(Running')
    BY <1>0, <1>6, <2>1, CountBegins DEF GoScan, FlagsOwned
  <2>3. \A h \in Kind, g \in Feed :
          task'[h][g] = IF h = "scan" /\ g = f THEN "crawl" ELSE task[h][g]
    BY <1>0, <1>6, <2>1 DEF GoScan, TypeOK
  <2>4. TypeOK'
    BY <1>0, <1>6, <2>1 DEF GoScan, TypeOK, Phase
  <2>5. OneOwner'
    BY <1>0, <1>6, <2>3 DEF GoScan, TypeOK, OneOwner, OneCrawlPerFeed, Kind
  <2>6. inFlight' = {g \in Feed : \/ \E h \in Kind : task'[h][g] # "none"
                                  \/ g \in requested'
                                  \/ pc' = "slot" /\ cur' = g}
    BY <1>0, <1>6, <2>1, <2>3 DEF GoScan, FlagsOwned
  <2> QED
    BY <2>2, <2>4, <2>5, <2>6 DEF Owned, FlagsOwned
<1> QED
  BY <1>1, <1>2, <1>3, <1>4, <1>5, <1>6 DEF TaskStep

LEMMA OwnedTrigger ==
  ASSUME Owned, NEW f \in Feed, Trigger(f)
  PROVE  Owned'
<1> USE DEF loop, stops
<1>0. TypeOK /\ OneOwner /\ FlagsOwned
  BY DEF Owned
<1>1. TypeOK'
  BY <1>0 DEF Trigger, TypeOK
<1>2. OneOwner'
  BY <1>0 DEF Trigger, OneOwner, OneCrawlPerFeed, FlagsOwned
<1>3. Running' = Running
  BY DEF Trigger, Running
<1>4. FlagsOwned'
  BY <1>0, <1>3 DEF Trigger, FlagsOwned
<1> QED
  BY <1>1, <1>2, <1>4 DEF Owned

-----------------------------------------------------------------------------
(* Stop, and the whole next-state relation. *)

LEMMA StopTyped ==
  ASSUME TypeOK, NEW c \in Caller, StopStep(c)
  PROVE  TypeOK' /\ UNCHANGED <<due, loop, cancelled, inFlight, wg, tasks, bounds>>
<1> USE DEF tasks, bounds, loop
<1>1. CASE CallStop(c)
  BY <1>1 DEF CallStop, TypeOK, StopPC
<1>2. CASE OnceReturns(c)
  BY <1>2 DEF OnceReturns, TypeOK, StopPC
<1>3. CASE CloseShutdown(c)
  BY <1>3 DEF CloseShutdown, TypeOK, StopPC
<1>4. CASE WaitTasks(c)
  BY <1>4 DEF WaitTasks, TypeOK, StopPC
<1> QED
  BY <1>1, <1>2, <1>3, <1>4 DEF StopStep

LEMMA OwnedNext == Owned /\ [Next]_vars => Owned'
<1> SUFFICES ASSUME Owned, [Next]_vars PROVE Owned'
  OBVIOUS
<1> USE DEF loop, stops, tasks, bounds
<1>0. TypeOK
  BY DEF Owned
<1>1. CASE LoopStep
  BY <1>1, OwnedLoop
<1>2. ASSUME NEW f \in Feed, TaskStep(f) \/ Trigger(f)
      PROVE  Owned'
  BY <1>2, OwnedTask, OwnedTrigger
<1>3. ASSUME NEW f \in Feed, Expire(f)
      PROVE  Owned'
  <2>1. due' \in Seq(Feed)
    BY <1>0, <1>3, AppendProperties DEF Expire, TypeOK
  <2> QED
    BY <1>0, <1>3, <2>1, OwnedSamePlace DEF Expire, TypeOK
<1>4. ASSUME NEW c \in Caller, StopStep(c)
      PROVE  Owned'
  BY <1>0, <1>4, StopTyped, OwnedSamePlace
<1>5. CASE Cancel
  BY <1>0, <1>5, OwnedSamePlace DEF Cancel, TypeOK
<1>6. CASE UNCHANGED vars
  BY <1>0, <1>6, OwnedSamePlace DEF vars, TypeOK
<1> QED
  BY <1>1, <1>2, <1>3, <1>4, <1>5, <1>6 DEF Next

LEMMA InvInit == Init => Inv
<1> SUFFICES ASSUME Init PROVE Inv
  OBVIOUS
<1>1. StopOrder /\ PollCrawlsWaited
  BY DEF Init, StopOrder, PollCrawlsWaited, Caller
<1> QED
  BY <1>1, OwnedInit DEF Inv

\* No crawl runs once wg.Wait has returned.
LEMMA WaitedFor ==
  ASSUME Owned, wg = 0
  PROVE  \A k \in Kind, f \in Feed : task[k][f] = "none"
<1>1. Running = {}
  BY RunningFinite, FS_EmptySet DEF Owned, FlagsOwned
<1>2. ASSUME NEW k \in Kind, NEW f \in Feed, task[k][f] # "none"
      PROVE  FALSE
  <2>1. <<k, f>> \in Running
    BY <1>2 DEF Running
  <2> QED
    BY <1>1, <2>1
<1> QED
  BY <1>2

\* Where nobody takes part in Stop, only the polls' crawls may begin, and none
\* does outside a poll.
LEMMA WaitedKept ==
  ASSUME Inv, [Next]_vars, UNCHANGED stops
  PROVE  StopOrder' /\ PollCrawlsWaited'
<1> USE DEF loop, stops, tasks, bounds
<1>1. stop[Loop] # "idle" => pc' \in {"stop", "returned"}
  <2>1. CASE UNCHANGED pc
    BY <2>1 DEF Inv, StopOrder
  <2>2. CASE LoopStep
    BY <2>2 DEF Inv, StopOrder, LoopStep, ListDue, ListFails, EndPoll, NextFeed,
                SkipInFlight, Flag, Spawn, Postpone, Select, ReturnAfterStop, Goto
  <2>3. \/ LoopStep
        \/ UNCHANGED pc
    <3>1. ASSUME NEW f \in Feed, TaskStep(f) \/ Trigger(f) \/ Expire(f)
          PROVE  UNCHANGED pc
      BY <3>1 DEF TaskStep, Crawl, Save, EndItems, ReleaseSlot, Unflag, GoScan,
                  Trigger, Expire
    <3>2. ASSUME NEW c \in Caller, StopStep(c)
          PROVE  UNCHANGED pc
      BY <3>2, StopTyped DEF Inv, Owned
    <3> QED
      BY <3>1, <3>2 DEF Next, vars, Cancel
  <2> QED
    BY <2>1, <2>2, <2>3
<1>2. StopOrder'
  BY <1>1 DEF Inv, StopOrder
<1>3. ASSUME stop[Loop] = "returned", \A f \in Feed : task["poll"][f] = "none",
             NEW g \in Feed
      PROVE  task'["poll"][g] = "none"
  <2>1. pc \notin {"poll", "next", "lock", "slot", "select"}
    BY <1>3 DEF Inv, StopOrder
  <2>2. CASE LoopStep
    BY <1>3, <2>1, <2>2 DEF LoopStep, ListDue, ListFails, EndPoll, NextFeed,
                SkipInFlight, Flag, Spawn, Postpone, Select, ReturnAfterStop, Goto
  <2>3. ASSUME NEW f \in Feed, TaskStep(f)
        PROVE  task'["poll"][g] = "none"
    <3>1. "poll" \in Kind /\ task \in [Kind -> [Feed -> Phase]]
      BY DEF Kind, Inv, Owned, TypeOK
    <3>2. ASSUME NEW k \in Kind, NEW from, NEW to, Step(k, f, from, to), from # "none"
          PROVE  task'["poll"][g] = "none"
      BY <1>3, <3>1, <3>2 DEF Step
    <3>3. CASE GoScan(f)
      BY <1>3, <3>1, <3>3 DEF GoScan
    <3> QED
      BY <2>3, <3>1, <3>2, <3>3
      DEF TaskStep, Crawl, Save, EndItems, ReleaseSlot, Unflag
  <2>4. ASSUME NEW f \in Feed, Trigger(f) \/ Expire(f)
        PROVE  UNCHANGED task
    BY <2>4 DEF Trigger, Expire
  <2>5. ASSUME NEW c \in Caller, StopStep(c)
        PROVE  UNCHANGED task
    BY <2>5, StopTyped DEF Inv, Owned
  <2> QED
    BY <1>3, <2>2, <2>3, <2>4, <2>5 DEF Next, vars, Cancel
<1> QED
  BY <1>2, <1>3 DEF Inv, PollCrawlsWaited

\* The steps of Stop.
LEMMA WaitedStop ==
  ASSUME Inv, NEW c \in Caller, StopStep(c)
  PROVE  StopOrder' /\ PollCrawlsWaited'
<1> USE DEF loop, tasks
<1>0. /\ stop \in [Caller -> StopPC] /\ Loop \in Caller /\ Stopper \subseteq Caller
      /\ Caller \ {Loop} \subseteq Stopper
      /\ UNCHANGED <<pc, task>>
  BY StopTyped DEF Inv, Owned, TypeOK, Caller
<1>1. CASE CallStop(c)
  <2>1. stop' = [stop EXCEPT ![c] = IF once = "new" THEN "close" ELSE "once"]
    BY <1>1 DEF CallStop
  <2>2. once' # "new" /\ (once = "new" \/ once' = once)
    BY <1>1 DEF CallStop
  <2>3. stop'[Loop] # "idle" => pc' \in {"stop", "returned"}
    BY <1>0, <1>1, <2>1 DEF CallStop, Inv, StopOrder
  <2>4. \E d \in Caller : stop'[d] \notin {"idle", "once"}
    <3>1. CASE once = "new"
      BY <1>0, <2>1, <3>1
    <3>2. CASE once # "new"
      <4>1. PICK d \in Caller : stop[d] \notin {"idle", "once"}
        BY <3>2 DEF Inv, StopOrder
      <4>2. d # c
        BY <1>1, <4>1 DEF CallStop
      <4> QED
        BY <1>0, <2>1, <4>1, <4>2
    <3> QED
      BY <3>1, <3>2
  <2>5. PollCrawlsWaited'
    BY <1>0, <1>1, <2>1 DEF CallStop, Inv, PollCrawlsWaited
  <2> QED
    BY <2>2, <2>3, <2>4, <2>5 DEF StopOrder
<1>2. CASE OnceReturns(c)
  <2>1. PICK d \in Caller : stop[d] \notin {"idle", "once"}
    BY <1>2 DEF OnceReturns, Inv, StopOrder
  <2>2. StopOrder'
    BY <1>0, <1>2, <2>1 DEF OnceReturns, Inv, StopOrder
  <2>3. PollCrawlsWaited'
    \* If no other goroutine has called Stop, d is Start's, and so is not c.
    BY <1>0, <1>2, <2>1 DEF OnceReturns, Inv, PollCrawlsWaited
  <2> QED
    BY <2>2, <2>3
<1>3. CASE CloseShutdown(c)
  <2>1. StopOrder'
    BY <1>0, <1>3 DEF CloseShutdown, Inv, StopOrder
  <2>2. PollCrawlsWaited'
    BY <1>0, <1>3 DEF CloseShutdown, Inv, PollCrawlsWaited
  <2> QED
    BY <2>1, <2>2
<1>4. CASE WaitTasks(c)
  <2>1. StopOrder'
    BY <1>0, <1>4 DEF WaitTasks, Inv, StopOrder
  <2>2. \A f \in Feed : task["poll"][f] = "none"
    BY <1>4, WaitedFor DEF WaitTasks, Inv, Kind
  <2>3. PollCrawlsWaited'
    BY <1>0, <2>2 DEF PollCrawlsWaited
  <2> QED
    BY <2>1, <2>3
<1> QED
  BY <1>1, <1>2, <1>3, <1>4 DEF StopStep

LEMMA InvNext == Inv /\ [Next]_vars => Inv'
<1> SUFFICES ASSUME Inv, [Next]_vars PROVE Inv'
  OBVIOUS
<1>1. Owned'
  BY OwnedNext DEF Inv
<1>2. CASE UNCHANGED stops
  BY <1>1, <1>2, WaitedKept DEF Inv
<1>3. ASSUME NEW c \in Caller, StopStep(c)
      PROVE  Inv'
  BY <1>1, <1>3, WaitedStop DEF Inv
<1>4. UNCHANGED stops \/ \E c \in Caller : StopStep(c)
  <2>1. LoopStep => UNCHANGED stops
    BY DEF LoopStep, ListDue, ListFails, EndPoll, NextFeed, SkipInFlight, Flag,
           Spawn, Postpone, Select, ReturnAfterStop
  <2>2. ASSUME NEW f \in Feed, TaskStep(f) \/ Trigger(f) \/ Expire(f)
        PROVE  UNCHANGED stops
    BY <2>2 DEF TaskStep, Crawl, Save, EndItems, ReleaseSlot, Unflag, GoScan,
                Trigger, Expire
  <2> QED
    BY <2>1, <2>2 DEF Next, vars, Cancel
<1> QED
  BY <1>2, <1>3, <1>4

-----------------------------------------------------------------------------
(* The theorems. *)

LEMMA Invariance == Spec => []Inv
BY InvInit, InvNext, PTL DEF Spec

\* Every variable keeps its type; that the WaitGroup never goes below zero is
\* part of it (sync.WaitGroup panics there).
THEOREM TypeCorrect == Spec => []TypeOK
<1>1. Inv => TypeOK
  BY DEF Inv, Owned
<1> QED
  BY <1>1, Invariance, PTL

\* pollFeeds and TriggerCrawl, under s.mu, never crawl one feed together.
THEOREM CrawlsExclusive == Spec => []OneCrawlPerFeed
<1>1. Inv => OneCrawlPerFeed
  BY DEF Inv, Owned, OneOwner
<1> QED
  BY <1>1, Invariance, PTL

\* A feed is in inFlight exactly while someone will delete it from there, and
\* s.wg counts the crawls that run.
THEOREM FlagsAreOwned == Spec => []FlagsOwned
<1>1. Inv => FlagsOwned
  BY DEF Inv, Owned
<1> QED
  BY <1>1, Invariance, PTL

\* Start, stopped by its context alone, returns after every crawl of its polls.
THEOREM StartWaits == Spec => []PollCrawlsWaited
<1>1. Inv => PollCrawlsWaited
  BY DEF Inv
<1> QED
  BY <1>1, Invariance, PTL

=============================================================================
