------------------------------ MODULE Scheduler ------------------------------
(***************************************************************************)
(* Which crawls run, and when: Scheduler of internal/scheduler/scheduler.go*)
(* without the inside of processFeed, which module FeedCrawl models.       *)
(*                                                                         *)
(* One goroutine runs Start and polls; each poll makes a semaphore of its  *)
(* own and starts a goroutine for every due feed that is not in flight, as *)
(* long as the semaphore has room.  Requests to scan a feed start          *)
(* goroutines too.  Stop is called by Start when its context is cancelled, *)
(* and may be called by other goroutines.                                  *)
(*                                                                         *)
(* Time is the order of due times: due holds the feeds whose next_poll_at  *)
(* has passed, oldest first, as ListFeedsDue returns them.                 *)
(***************************************************************************)
EXTENDS Integers, FiniteSets, Sequences

CONSTANTS
  Feed,        \* the rows of feeds
  Hot,         \* feeds that are due again at once: a poll interval of zero
  Stopper,     \* goroutines, other than Start's, that call Stop
  Loop,        \* the goroutine that runs Start
  NoFeed,      \* "no feed is being started"
  MaxWorkers,  \* Config.MaxWorkers
  MayCancel,   \* whether the context given to Start may be cancelled
  MaxScans,    \* bound: scans requested
  MaxDBErrors  \* bound: statements the database fails by itself

ASSUME FeedAssumption    == IsFiniteSet(Feed) /\ Hot \subseteq Feed
ASSUME WorkersAssumption == MaxWorkers \in Nat \ {0}
ASSUME NamesAssumption   == NoFeed \notin Feed /\ Loop \notin Stopper
ASSUME BoundsAssumption  == MayCancel \in BOOLEAN /\ {MaxScans, MaxDBErrors} \subseteq Nat

Caller == Stopper \cup {Loop}
Kind   == {"poll", "scan"}

VARIABLES
  due,
  \* The goroutine that runs Start.
  pc,
  todo,       \* feeds of the current poll still to look at
  cur,        \* the feed flagged and not yet started
  cancelled,
  \* The Scheduler's fields.
  inFlight,
  wg,
  closed,     \* shutdownCh is closed
  once,       \* shutdownOnce: "new", "running", "done"
  stop,       \* stop[c]: where caller c stands in Stop
  \* The other goroutines.
  task,       \* task[k][f]: where the crawl of f stands that a k started
  fresh,      \* feeds started by the current poll, on its semaphore
  requested,  \* feeds TriggerCrawl has flagged and not yet started
  \* Counters of the bounds.
  scans, dbErrors

loop   == <<pc, todo, cur>>
stops  == <<closed, once, stop>>
tasks  == <<task, fresh, requested>>
bounds == <<scans, dbErrors>>
vars   == <<due, loop, cancelled, inFlight, wg, stops, tasks, bounds>>

LoopPC == {"poll", "next", "lock", "slot", "select", "stop", "returned"}
StopPC == {"idle", "once", "close", "wait", "returned"}
Phase  == {"none", "crawl", "save", "items", "release", "unflag"}

TypeOK ==
  /\ due \in Seq(Feed)
  /\ pc \in LoopPC
  /\ todo \in Seq(Feed)
  /\ cur \in Feed \cup {NoFeed}
  /\ cancelled \in BOOLEAN
  /\ inFlight \in SUBSET Feed
  /\ wg \in Nat
  /\ closed \in BOOLEAN
  /\ once \in {"new", "running", "done"}
  /\ stop \in [Caller -> StopPC]
  /\ task \in [Kind -> [Feed -> Phase]]
  /\ fresh \in SUBSET Feed
  /\ requested \in SUBSET Feed
  /\ scans \in Nat /\ dbErrors \in Nat

Init ==
  /\ due = <<>>
  /\ pc = "poll"
  /\ todo = <<>>
  /\ cur = NoFeed
  /\ cancelled = FALSE
  /\ inFlight = {}
  /\ wg = 0
  /\ closed = FALSE
  /\ once = "new"
  /\ stop = [c \in Caller |-> "idle"]
  /\ task = [k \in Kind |-> [f \in Feed |-> "none"]]
  /\ fresh = {}
  /\ requested = {}
  /\ scans = 0
  /\ dbErrors = 0

Goto(from, to) == pc = from /\ pc' = to
DBFails == dbErrors < MaxDBErrors /\ dbErrors' = dbErrors + 1
DBWorks == UNCHANGED dbErrors

Shutdown == cancelled \/ closed
InDue(f) == \E i \in 1..Len(due) : due[i] = f

\* Goroutines that hold a slot of the current poll's semaphore.
Slots == {f \in fresh : task["poll"][f] \in {"crawl", "save", "items", "release"}}

-----------------------------------------------------------------------------
(* pollFeeds. *)

\* ListFeedsDue, and a new semaphore.
ListDue ==
  /\ Goto("poll", "next")
  /\ ~cancelled
  /\ todo' = due
  /\ fresh' = {}
  /\ UNCHANGED <<due, cur, cancelled, inFlight, wg, stops, task, requested, bounds>>

ListFails ==
  /\ Goto("poll", "select")
  /\ \/ cancelled /\ DBWorks
     \/ ~cancelled /\ DBFails
  /\ UNCHANGED <<due, todo, cur, cancelled, inFlight, wg, stops, tasks, scans>>

\* The loop over the due feeds ends, or a shutdown ends it.
EndPoll ==
  /\ Goto("next", "select")
  /\ todo = <<>> \/ Shutdown
  /\ todo' = <<>>
  /\ UNCHANGED <<due, cur, cancelled, inFlight, wg, stops, tasks, bounds>>

NextFeed ==
  /\ Goto("next", "lock")
  /\ todo # <<>>
  /\ ~Shutdown
  /\ cur' = Head(todo)
  /\ todo' = Tail(todo)
  /\ UNCHANGED <<due, cancelled, inFlight, wg, stops, tasks, bounds>>

SkipInFlight ==
  /\ Goto("lock", "next")
  /\ cur \in inFlight
  /\ cur' = NoFeed
  /\ UNCHANGED <<due, todo, cancelled, inFlight, wg, stops, tasks, bounds>>

Flag ==
  /\ Goto("lock", "slot")
  /\ cur \notin inFlight
  /\ inFlight' = inFlight \cup {cur}
  /\ UNCHANGED <<due, todo, cur, cancelled, wg, stops, tasks, bounds>>

Spawn ==
  /\ Goto("slot", "next")
  /\ Cardinality(Slots) < MaxWorkers
  /\ wg' = wg + 1
  /\ task' = [task EXCEPT !["poll"][cur] = "crawl"]
  /\ fresh' = fresh \cup {cur}
  /\ cur' = NoFeed
  /\ UNCHANGED <<due, todo, cancelled, inFlight, stops, requested, bounds>>

\* Variant: the flag stays.
PostponeFlagged ==
  /\ Goto("slot", "next")
  /\ Cardinality(Slots) >= MaxWorkers
  /\ cur' = NoFeed
  /\ UNCHANGED <<due, todo, cancelled, inFlight, wg, stops, tasks, bounds>>

\* The pool is full: the feed is left to the next poll.
Postpone ==
  /\ Goto("slot", "next")
  /\ Cardinality(Slots) >= MaxWorkers
  /\ inFlight' = inFlight \ {cur}
  /\ cur' = NoFeed
  /\ UNCHANGED <<due, todo, cancelled, wg, stops, tasks, bounds>>

-----------------------------------------------------------------------------
(* Start. *)

\* select takes any case that is ready.
Select ==
  /\ \/ Goto("select", "poll")
     \/ cancelled /\ Goto("select", "stop")
     \/ closed /\ Goto("select", "returned")
  /\ UNCHANGED <<due, todo, cur, cancelled, inFlight, wg, stops, tasks, bounds>>

ReturnAfterStop ==
  /\ stop[Loop] = "returned"
  /\ Goto("stop", "returned")
  /\ UNCHANGED <<due, todo, cur, cancelled, inFlight, wg, stops, tasks, bounds>>

-----------------------------------------------------------------------------
(* The goroutines that crawl. *)

\* The rest of a crawl by a poll gives the slot back first.
Last(k) == IF k = "poll" THEN "release" ELSE "unflag"

Step(k, f, from, to) ==
  /\ task[k][f] = from
  /\ task' = [task EXCEPT ![k][f] = to]

Crawl(k, f) ==
  /\ Step(k, f, "crawl", "save")
  /\ UNCHANGED <<due, loop, cancelled, inFlight, wg, stops, fresh, requested, bounds>>

\* The due feeds without f, which is among them once at most.
Others(f) ==
  IF InDue(f)
    THEN LET place == CHOOSE i \in 1..Len(due) : due[i] = f
         IN  SubSeq(due, 1, place - 1) \o SubSeq(due, place + 1, Len(due))
    ELSE due

\* Variant: the feed goes before the others.
RescheduleFirst(f) == due' = IF f \in Hot THEN <<f>> \o Others(f) ELSE Others(f)

\* The feed leaves the due ones, or is the last of them to have become due.
Reschedule(f) == due' = IF f \in Hot THEN Append(Others(f), f) ELSE Others(f)

\* UpdateFeed moves next_poll_at on, whatever came of the crawl.  It fails with
\* the context of Start; a scan's is never cancelled.  Only a new document has
\* items.
Save(k, f) ==
  /\ Step(k, f, "save", "items") \/ Step(k, f, "save", Last(k))
  /\ \/ /\ DBWorks
        /\ k = "poll" => ~cancelled
        /\ Reschedule(f)
     \/ /\ \/ k = "poll" /\ cancelled /\ DBWorks
           \/ (k = "poll" => ~cancelled) /\ DBFails
        /\ UNCHANGED due
  /\ UNCHANGED <<loop, cancelled, inFlight, wg, stops, fresh, requested, scans>>

\* The item loop ends of itself or at the next item after a shutdown.
EndItems(k, f) ==
  /\ Step(k, f, "items", Last(k))
  /\ UNCHANGED <<due, loop, cancelled, inFlight, wg, stops, fresh, requested, bounds>>

\* <-sem
ReleaseSlot(f) ==
  /\ Step("poll", f, "release", "unflag")
  /\ UNCHANGED <<due, loop, cancelled, inFlight, wg, stops, fresh, requested, bounds>>

\* Variant: the goroutine ends without wg.Done.
UnflagUndone(k, f) ==
  /\ Step(k, f, "unflag", "none")
  /\ inFlight' = inFlight \ {f}
  /\ UNCHANGED <<due, loop, cancelled, wg, stops, fresh, requested, bounds>>

\* The deferred calls: the flag goes, and wg.Done, which only wg.Wait observes,
\* follows without anything in between.
Unflag(k, f) ==
  /\ Step(k, f, "unflag", "none")
  /\ inFlight' = inFlight \ {f}
  /\ wg' = wg - 1
  /\ UNCHANGED <<due, loop, cancelled, stops, fresh, requested, bounds>>

-----------------------------------------------------------------------------
(* TriggerCrawl, called by handleScanFeed.  A feed in flight is a conflict. *)

\* Variant: the flag is not looked at.
TriggerUnchecked(f) ==
  /\ f \notin requested
  /\ scans < MaxScans
  /\ scans' = scans + 1
  /\ inFlight' = inFlight \cup {f}
  /\ requested' = requested \cup {f}
  /\ UNCHANGED <<due, loop, cancelled, wg, stops, task, fresh, dbErrors>>

Trigger(f) ==
  /\ f \notin inFlight
  /\ scans < MaxScans
  /\ scans' = scans + 1
  /\ inFlight' = inFlight \cup {f}
  /\ requested' = requested \cup {f}
  /\ UNCHANGED <<due, loop, cancelled, wg, stops, task, fresh, dbErrors>>

\* Variant: the goroutine is not counted.
GoScanUncounted(f) ==
  /\ f \in requested
  /\ requested' = requested \ {f}
  /\ task' = [task EXCEPT !["scan"][f] = "crawl"]
  /\ UNCHANGED <<due, loop, cancelled, inFlight, wg, stops, fresh, bounds>>

GoScan(f) ==
  /\ f \in requested
  /\ requested' = requested \ {f}
  /\ wg' = wg + 1
  /\ task' = [task EXCEPT !["scan"][f] = "crawl"]
  /\ UNCHANGED <<due, loop, cancelled, inFlight, stops, fresh, bounds>>

-----------------------------------------------------------------------------
(* Stop. *)

CallStop(c) ==
  /\ IF c = Loop THEN pc = "stop" ELSE TRUE
  /\ stop[c] = "idle"
  /\ IF once = "new"
       THEN once' = "running" /\ stop' = [stop EXCEPT ![c] = "close"]
       ELSE UNCHANGED once /\ stop' = [stop EXCEPT ![c] = "once"]
  /\ UNCHANGED <<due, loop, cancelled, inFlight, wg, closed, tasks, bounds>>

OnceReturns(c) ==
  /\ stop[c] = "once"
  /\ once = "done"
  /\ stop' = [stop EXCEPT ![c] = "returned"]
  /\ UNCHANGED <<due, loop, cancelled, inFlight, wg, closed, once, tasks, bounds>>

CloseShutdown(c) ==
  /\ stop[c] = "close"
  /\ closed' = TRUE
  /\ stop' = [stop EXCEPT ![c] = "wait"]
  /\ UNCHANGED <<due, loop, cancelled, inFlight, wg, once, tasks, bounds>>

\* Variant: wg.Wait is missing.
WaitTasksNot(c) ==
  /\ stop[c] = "wait"
  /\ once' = "done"
  /\ stop' = [stop EXCEPT ![c] = "returned"]
  /\ UNCHANGED <<due, loop, cancelled, inFlight, wg, closed, tasks, bounds>>

WaitTasks(c) ==
  /\ stop[c] = "wait"
  /\ wg = 0
  /\ once' = "done"
  /\ stop' = [stop EXCEPT ![c] = "returned"]
  /\ UNCHANGED <<due, loop, cancelled, inFlight, wg, closed, tasks, bounds>>

StopStep(c) == CallStop(c) \/ OnceReturns(c) \/ CloseShutdown(c) \/ WaitTasks(c)

-----------------------------------------------------------------------------
(* Time and the operating system. *)

\* next_poll_at of feed f passes.
Expire(f) ==
  /\ ~InDue(f)
  /\ due' = Append(due, f)
  /\ UNCHANGED <<loop, cancelled, inFlight, wg, stops, tasks, bounds>>

Cancel ==
  /\ MayCancel
  /\ ~cancelled
  /\ cancelled' = TRUE
  /\ UNCHANGED <<due, loop, inFlight, wg, stops, tasks, bounds>>

-----------------------------------------------------------------------------
LoopStep ==
  \/ ListDue \/ ListFails \/ EndPoll \/ NextFeed
  \/ SkipInFlight \/ Flag \/ Spawn \/ Postpone
  \/ Select \/ ReturnAfterStop

TaskStep(f) ==
  \/ \E k \in Kind : Crawl(k, f) \/ Save(k, f) \/ EndItems(k, f) \/ Unflag(k, f)
  \/ ReleaseSlot(f)
  \/ GoScan(f)

Next ==
  \/ LoopStep
  \/ \E f \in Feed : TaskStep(f) \/ Trigger(f) \/ Expire(f)
  \/ \E c \in Caller : StopStep(c)
  \/ Cancel

Spec == Init /\ [][Next]_vars

\* The goroutines are scheduled; a crawl ends because each request and each
\* statement does; Go chooses among ready cases of a select at random.
SelectExit == Select /\ pc' # "poll"
Fairness ==
  /\ WF_vars(LoopStep)
  /\ SF_vars(SelectExit)
  /\ \A f \in Feed : WF_vars(TaskStep(f))
  /\ \A c \in Caller : WF_vars(StopStep(c) /\ (c # Loop => stop[c] # "idle"))

FairSpec == Spec /\ Fairness

-----------------------------------------------------------------------------
(* What the scheduler promises. *)

Running == {t \in Kind \X Feed : task[t[1]][t[2]] # "none"}

\* A poll and a scan never crawl one feed at the same time.
OneCrawlPerFeed ==
  \A f \in Feed : ~(task["poll"][f] # "none" /\ task["scan"][f] # "none")

\* A feed is flagged exactly while someone will take the flag away again: a
\* flag that outlived its crawl would keep the feed from ever being polled.  And
\* the WaitGroup counts the crawls that have not ended: Stop waits for no other.
FlagsOwned ==
  /\ inFlight = {f \in Feed : \/ \E k \in Kind : task[k][f] # "none"
                              \/ f \in requested
                              \/ pc = "slot" /\ cur = f}
  /\ wg = Cardinality(Running)

\* When Start returns because of its context, no crawl of its polls is running,
\* although Stop races scans that are being started.  (Where another goroutine
\* calls Stop, a poll may start a crawl after it: this is what Queue.mu excludes
\* in the outbox worker.)
PollCrawlsWaited ==
  stop[Loop] = "returned" /\ (\A c \in Stopper : stop[c] = "idle")
    => \A f \in Feed : task["poll"][f] = "none"

\* A due feed is crawled in the end, however many feeds share however few
\* workers, and also when another feed is due again at once; one that becomes
\* due during a crawl of it may be moved on by that crawl.
DueCrawled ==
  \A f \in Feed : InDue(f) ~> (Shutdown \/ \E k \in Kind : task[k][f] # "none")

\* A cancelled scheduler comes to an end, its own call of Stop included.
CancelEnds == cancelled ~> pc = "returned"

=============================================================================
