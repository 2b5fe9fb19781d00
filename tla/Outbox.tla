------------------------------- MODULE Outbox -------------------------------
(***************************************************************************)
(* The outbox worker: Queue of internal/outbox/outbox.go over the rows of  *)
(* the outbox table (internal/database/repository.go).                     *)
(*                                                                         *)
(* One goroutine runs Start: each cycle lists the due rows and delivers    *)
(* them one by one.  A row is set to "delivering" before the mail is sent, *)
(* so that a restart cannot send it again.  Stop may be called by other    *)
(* goroutines, and by Start itself once its context is cancelled.  Around  *)
(* the worker: the scheduler inserts rows, the mail server accepts or      *)
(* rejects, the database may fail a statement, the context may be          *)
(* cancelled and the process may die at any step and be started again.     *)
(*                                                                         *)
(* Time is relative: wait[i] is how long row i's next_attempt_at lies in   *)
(* the future, so next_attempt_at <= now is wait[i] = 0.                   *)
(***************************************************************************)
EXTENDS RetryDelay, FiniteSets

CONSTANTS
  Item,          \* rows the scheduler may insert
  Stopper,       \* goroutines, other than Start's, that call Stop
  Loop,          \* the goroutine that runs Start
  NoItem,        \* "no row is being delivered"
  MaxRetries,    \* Config.MaxRetries
  InitialBackoff, MaxBackoff,  \* of Config, never zero (NewQueue)
  FarFuture,     \* the hundred years after which a failed row is due again
  MaxInterrupts, \* bound: processes cancelled or killed
  MaxDBErrors    \* bound: statements the database fails by itself

ASSUME MaxRetriesAssumption == MaxRetries \in Nat \ {0}
ASSUME BackoffAssumption    == {InitialBackoff, MaxBackoff} \subseteq Duration
ASSUME FarFutureAssumption  == FarFuture \in Nat \ {0}
ASSUME NamesAssumption      == NoItem \notin Item /\ Loop \notin Stopper
ASSUME BoundsAssumption     == MaxInterrupts \in Nat /\ MaxDBErrors \in Nat

Caller == Stopper \cup {Loop}

\* The delay after the n-th failed attempt.
Backoff == [n \in 1..MaxRetries |-> CalculateBackoff(n, InitialBackoff, MaxBackoff)]

VARIABLES
  \* The outbox table: it survives the process.
  status,     \* status[i]: "absent" before the row is inserted
  retries,    \* retry_count
  wait,       \* next_attempt_at - now, 0 when due
  \* The goroutine that runs Start.
  pc,
  batch,      \* rows of the current listing not yet looked at
  copy,       \* the in-memory retry_count of the rows of the listing
  cur,        \* the row in deliverItem
  sent,       \* what Send has come to: "none", "ok" or "err"
  cancelled,  \* ctx.Err() # nil
  \* The Queue's fields.
  stopped,    \* guarded by mu
  closed,     \* shutdownCh is closed
  wg,         \* counter of the WaitGroup
  once,       \* shutdownOnce: "new", "running", "done"
  stop,       \* stop[c]: where caller c stands in Stop
  \* History: what the world outside has seen.
  accepted,   \* messages the mail server accepted for row i
  ambiguous,  \* of those, the ones whose Send nevertheless reported an error
  rest,       \* time since row i's last failed attempt, up to its backoff
  interrupts, \* processes cancelled or killed so far
  dbErrors    \* statements failed so far

table   == <<status, retries, wait>>
work    == <<batch, copy, cur, sent>>
queue   == <<stopped, closed, wg, once, stop>>
mail    == <<accepted, ambiguous>>
faults  == <<interrupts, dbErrors>>
vars    == <<table, pc, work, cancelled, queue, mail, rest, faults>>

Status == {"absent", "pending", "delivering", "delivered", "failed"}

\* Where Start stands.  "down": the process is not running.
PC == {"down", "begin", "list", "next", "claim", "sending", "accepted",
       "record", "done", "select", "stop", "returned"}
\* Where a caller of Stop stands.
StopPC == {"idle", "once", "mark", "close", "wait", "returned"}

TypeOK ==
  /\ status \in [Item -> Status]
  /\ retries \in [Item -> 0..MaxRetries]
  /\ wait \in [Item -> Nat]
  /\ pc \in PC
  /\ batch \in SUBSET Item
  /\ copy \in [Item -> 0..MaxRetries]
  /\ cur \in Item \cup {NoItem}
  /\ sent \in {"none", "ok", "err"}
  /\ cancelled \in BOOLEAN
  /\ stopped \in BOOLEAN /\ closed \in BOOLEAN
  /\ wg \in {0, 1}
  /\ once \in {"new", "running", "done"}
  /\ stop \in [Caller -> StopPC]
  /\ accepted \in [Item -> Nat] /\ ambiguous \in [Item -> Nat]
  /\ rest \in [Item -> Nat]
  /\ interrupts \in Nat /\ dbErrors \in Nat

-----------------------------------------------------------------------------
(* NewQueue, and the empty table. *)

FreshQueue ==
  /\ batch' = {}
  /\ copy' = [i \in Item |-> 0]
  /\ cur' = NoItem
  /\ sent' = "none"
  /\ stopped' = FALSE
  /\ closed' = FALSE
  /\ wg' = 0
  /\ once' = "new"
  /\ stop' = [c \in Caller |-> "idle"]

Init ==
  /\ status = [i \in Item |-> "absent"]
  /\ retries = [i \in Item |-> 0]
  /\ wait = [i \in Item |-> 0]
  /\ pc = "begin"
  /\ batch = {}
  /\ copy = [i \in Item |-> 0]
  /\ cur = NoItem
  /\ sent = "none"
  /\ cancelled = FALSE
  /\ stopped = FALSE
  /\ closed = FALSE
  /\ wg = 0
  /\ once = "new"
  /\ stop = [c \in Caller |-> "idle"]
  /\ accepted = [i \in Item |-> 0]
  /\ ambiguous = [i \in Item |-> 0]
  /\ rest = [i \in Item |-> 0]
  /\ interrupts = 0
  /\ dbErrors = 0

Goto(from, to) == pc = from /\ pc' = to

-----------------------------------------------------------------------------
(* The database. *)

\* EnqueueOutboxItem, committed by the scheduler's transaction: a pending row
\* that is due at once.
Enqueue(i) ==
  /\ pc # "down"
  /\ status[i] = "absent"
  /\ status' = [status EXCEPT ![i] = "pending"]
  /\ UNCHANGED <<retries, wait, pc, work, cancelled, queue, mail, rest, faults>>

\* Variants of Due that a plausible mistake in the query would give.
DueOrDelivering ==
  {i \in Item : status[i] \in {"pending", "failed", "delivering"} /\ wait[i] = 0}
DueAtAnyTime == {i \in Item : status[i] \in {"pending", "failed"}}

\* The rows ListPendingOutboxItems selects.
Due == {i \in Item : status[i] \in {"pending", "failed"} /\ wait[i] = 0}

\* A statement fails because its context is cancelled, or by itself.
StatementFails ==
  \/ cancelled /\ UNCHANGED dbErrors
  \/ /\ ~cancelled
     /\ dbErrors < MaxDBErrors
     /\ dbErrors' = dbErrors + 1

StatementSucceeds == ~cancelled /\ UNCHANGED dbErrors

\* UpdateOutboxItemStatus writes the whole in-memory item over the row: its
\* status, its retry count and its next attempt, w from now.
UpdateRow(s, w) ==
  /\ status' = [status EXCEPT ![cur] = s]
  /\ retries' = [retries EXCEPT ![cur] = copy[cur]]
  /\ wait' = [wait EXCEPT ![cur] = w]

-----------------------------------------------------------------------------
(* Start: the loop. *)

\* Variant: wg.Add without looking at stopped.
TryBeginCycleUnchecked ==
  /\ Goto("begin", "list")
  /\ wg' = wg + 1
  /\ UNCHANGED <<table, work, cancelled, stopped, closed, once, stop, mail,
                 rest, faults>>

\* tryBeginCycle under mu: either the cycle is registered, or Stop came first.
TryBeginCycle ==
  /\ \/ /\ ~stopped
        /\ Goto("begin", "list")
        /\ wg' = wg + 1
     \/ /\ stopped
        /\ Goto("begin", "select")
        /\ UNCHANGED wg
  /\ UNCHANGED <<table, work, cancelled, stopped, closed, once, stop, mail,
                 rest, faults>>

\* Variant: wg.Done is missed when processPending returns the context's error.
EndCycleMissed ==
  /\ Goto("done", "select")
  /\ wg' = IF cancelled THEN wg ELSE wg - 1
  /\ UNCHANGED <<table, work, cancelled, stopped, closed, once, stop, mail,
                 rest, faults>>

EndCycle ==
  /\ Goto("done", "select")
  /\ wg' = wg - 1
  /\ UNCHANGED <<table, work, cancelled, stopped, closed, once, stop, mail,
                 rest, faults>>

\* select takes any case that is ready: the ticker, ctx.Done() or shutdownCh.
Select ==
  /\ \/ Goto("select", "begin")
     \/ cancelled /\ Goto("select", "stop")
     \/ closed /\ Goto("select", "returned")
  /\ UNCHANGED <<table, work, cancelled, queue, mail, rest, faults>>

\* After ctx.Done() Start returns once its own call of Stop has.
ReturnAfterStop ==
  /\ stop[Loop] = "returned"
  /\ Goto("stop", "returned")
  /\ UNCHANGED <<table, work, cancelled, queue, mail, rest, faults>>

-----------------------------------------------------------------------------
(* processPending. *)

\* Variant: the whole listing is set to "delivering" at once.
ListClaiming ==
  /\ StatementSucceeds
  /\ Goto("list", "next")
  /\ batch' = Due
  /\ copy' = [i \in Item |-> IF i \in Due THEN retries[i] ELSE 0]
  /\ status' = [i \in Item |-> IF i \in Due THEN "delivering" ELSE status[i]]
  /\ UNCHANGED <<retries, wait, cur, sent, cancelled, queue, mail, rest, interrupts>>

List ==
  /\ StatementSucceeds
  /\ Goto("list", "next")
  /\ batch' = Due
  /\ copy' = [i \in Item |-> IF i \in Due THEN retries[i] ELSE 0]
  /\ UNCHANGED <<table, cur, sent, cancelled, queue, mail, rest, interrupts>>

ListFails ==
  /\ StatementFails
  /\ Goto("list", "done")
  /\ UNCHANGED <<table, work, cancelled, queue, mail, rest, interrupts>>

\* The range loop over the listing ends, or a cancelled context cuts it short.
LeaveBatch ==
  /\ batch = {} \/ cancelled
  /\ Goto("next", "done")
  /\ batch' = {}
  /\ UNCHANGED <<table, copy, cur, sent, cancelled, queue, mail, rest, faults>>

\* A row that has used up its retries is passed over.
Skip(i) ==
  /\ ~cancelled
  /\ i \in batch
  /\ copy[i] >= MaxRetries
  /\ Goto("next", "next")
  /\ batch' = batch \ {i}
  /\ UNCHANGED <<table, copy, cur, sent, cancelled, queue, mail, rest, faults>>

\* Variant: rows that have used up their retries are taken too.
TakeAny(i) ==
  /\ ~cancelled
  /\ i \in batch
  /\ Goto("next", "claim")
  /\ batch' = batch \ {i}
  /\ cur' = i
  /\ UNCHANGED <<table, copy, sent, cancelled, queue, mail, rest, faults>>

Take(i) ==
  /\ ~cancelled
  /\ i \in batch
  /\ copy[i] < MaxRetries
  /\ Goto("next", "claim")
  /\ batch' = batch \ {i}
  /\ cur' = i
  /\ UNCHANGED <<table, copy, sent, cancelled, queue, mail, rest, faults>>

-----------------------------------------------------------------------------
(* deliverItem. *)

\* The row is "delivering" before anything is sent.
Claim ==
  /\ StatementSucceeds
  /\ Goto("claim", "sending")
  /\ UpdateRow("delivering", wait[cur])
  /\ UNCHANGED <<work, cancelled, queue, mail, rest, interrupts>>

ClaimFails ==
  /\ StatementFails
  /\ Goto("claim", "next")
  /\ cur' = NoItem
  /\ UNCHANGED <<table, batch, copy, sent, cancelled, queue, mail, rest, interrupts>>

\* The mail server takes the message; Send has not returned yet.
ServerAccepts ==
  /\ Goto("sending", "accepted")
  /\ accepted' = [accepted EXCEPT ![cur] = @ + 1]
  /\ UNCHANGED <<table, work, cancelled, queue, ambiguous, rest, faults>>

\* Send returns nil: the in-memory item becomes "delivered".
SendSucceeds ==
  /\ Goto("accepted", "record")
  /\ sent' = "ok"
  /\ UNCHANGED <<table, batch, copy, cur, cancelled, queue, mail, rest, faults>>

\* Send returns an error, the message refused or its acceptance not heard of.
SendFails ==
  /\ \/ Goto("sending", "record") /\ UNCHANGED ambiguous
     \/ /\ Goto("accepted", "record")
        /\ ambiguous' = [ambiguous EXCEPT ![cur] = @ + 1]
  /\ sent' = "err"
  /\ copy' = [copy EXCEPT ![cur] = @ + 1]
  /\ rest' = [rest EXCEPT ![cur] = 0]
  /\ UNCHANGED <<table, batch, cur, cancelled, queue, accepted, faults>>

\* The failed attempt was the last one allowed; the variant is off by one.
ExhaustedLate == copy[cur] > MaxRetries
Exhausted == copy[cur] >= MaxRetries

\* deliverItem is over; the loop goes on with the next row of the listing.
NextItem ==
  /\ Goto("record", "next")
  /\ cur' = NoItem
  /\ sent' = "none"
  /\ UNCHANGED <<batch, copy, cancelled, queue, mail, rest, interrupts>>

RecordDelivered ==
  /\ sent = "ok"
  /\ StatementSucceeds
  /\ UpdateRow("delivered", wait[cur])
  /\ NextItem

RecordGivenUp ==
  /\ sent = "err"
  /\ Exhausted
  /\ StatementSucceeds
  /\ UpdateRow("failed", FarFuture)
  /\ NextItem

\* Variant: the status is not set back to "pending".
RecordRetryKeepingStatus ==
  /\ sent = "err"
  /\ ~Exhausted
  /\ StatementSucceeds
  /\ UpdateRow("delivering", Backoff[copy[cur]])
  /\ NextItem

RecordRetry ==
  /\ sent = "err"
  /\ ~Exhausted
  /\ StatementSucceeds
  /\ UpdateRow("pending", Backoff[copy[cur]])
  /\ NextItem

\* The outcome is only logged: the row stays "delivering".
RecordFails ==
  /\ StatementFails
  /\ UNCHANGED table
  /\ NextItem

-----------------------------------------------------------------------------
(* Stop. *)

\* shutdownOnce.Do: the first caller runs the function, a later one blocks
\* until it has returned.
CallStop(c) ==
  /\ pc # "down"
  /\ IF c = Loop THEN pc = "stop" ELSE TRUE
  /\ stop[c] = "idle"
  /\ IF once = "new"
       THEN once' = "running" /\ stop' = [stop EXCEPT ![c] = "mark"]
       ELSE UNCHANGED once /\ stop' = [stop EXCEPT ![c] = "once"]
  /\ UNCHANGED <<table, pc, work, cancelled, stopped, closed, wg, mail, rest, faults>>

OnceReturns(c) ==
  /\ stop[c] = "once"
  /\ once = "done"
  /\ stop' = [stop EXCEPT ![c] = "returned"]
  /\ UNCHANGED <<table, pc, work, cancelled, stopped, closed, wg, once, mail,
                 rest, faults>>

MarkStopped(c) ==
  /\ stop[c] = "mark"
  /\ stopped' = TRUE
  /\ stop' = [stop EXCEPT ![c] = "close"]
  /\ UNCHANGED <<table, pc, work, cancelled, closed, wg, once, mail, rest, faults>>

CloseShutdown(c) ==
  /\ stop[c] = "close"
  /\ closed' = TRUE
  /\ stop' = [stop EXCEPT ![c] = "wait"]
  /\ UNCHANGED <<table, pc, work, cancelled, stopped, wg, once, mail, rest, faults>>

\* Variant: wg.Wait is missing.
WaitCycleNot(c) ==
  /\ stop[c] = "wait"
  /\ once' = "done"
  /\ stop' = [stop EXCEPT ![c] = "returned"]
  /\ UNCHANGED <<table, pc, work, cancelled, stopped, closed, wg, mail, rest, faults>>

WaitCycle(c) ==
  /\ stop[c] = "wait"
  /\ wg = 0
  /\ once' = "done"
  /\ stop' = [stop EXCEPT ![c] = "returned"]
  /\ UNCHANGED <<table, pc, work, cancelled, stopped, closed, wg, mail, rest, faults>>

StopStep(c) ==
  CallStop(c) \/ OnceReturns(c) \/ MarkStopped(c) \/ CloseShutdown(c) \/ WaitCycle(c)

-----------------------------------------------------------------------------
(* Time and the operating system. *)

Tick ==
  /\ wait' = [i \in Item |-> IF wait[i] = 0 THEN 0 ELSE wait[i] - 1]
  /\ rest' = [i \in Item |->
                IF status[i] = "pending" /\ retries[i] > 0
                     /\ rest[i] < Backoff[retries[i]]
                  THEN rest[i] + 1 ELSE rest[i]]
  /\ UNCHANGED <<status, retries, pc, work, cancelled, queue, mail, faults>>

\* The signal handler of main cancels the context given to Start.
Cancel ==
  /\ pc # "down"
  /\ ~cancelled
  /\ interrupts < MaxInterrupts
  /\ cancelled' = TRUE
  /\ interrupts' = interrupts + 1
  /\ UNCHANGED <<table, pc, work, queue, mail, rest, dbErrors>>

\* The process dies.  After a cancellation this is also main returning: it
\* waits for the HTTP server, never for the outbox worker.
Die ==
  /\ pc # "down"
  /\ cancelled \/ interrupts < MaxInterrupts
  /\ pc' = "down"
  /\ interrupts' = IF cancelled THEN interrupts ELSE interrupts + 1
  /\ cancelled' = FALSE
  /\ FreshQueue
  /\ UNCHANGED <<table, mail, rest, dbErrors>>

\* A new process: NewQueue and Start on the same database.
Restart ==
  /\ Goto("down", "begin")
  /\ UNCHANGED <<table, work, cancelled, queue, mail, rest, faults>>

-----------------------------------------------------------------------------
\* deliverItem once the row is taken from the listing.
DeliverStep ==
  \/ Claim \/ ClaimFails
  \/ ServerAccepts \/ SendSucceeds \/ SendFails
  \/ RecordDelivered \/ RecordGivenUp \/ RecordRetry \/ RecordFails

LoopStep ==
  \/ TryBeginCycle \/ EndCycle \/ Select \/ ReturnAfterStop
  \/ List \/ ListFails \/ LeaveBatch
  \/ \E i \in Item : Skip(i) \/ Take(i)
  \/ DeliverStep

Next ==
  \/ \E i \in Item : Enqueue(i)
  \/ LoopStep
  \/ \E c \in Caller : StopStep(c)
  \/ Tick
  \/ Cancel
  \/ Die
  \/ Restart

Spec == Init /\ [][Next]_vars

\* The goroutine running Start is scheduled, and Send returns because every
\* SMTP operation and the sendmail command run under a timeout; a call of Stop
\* that has begun goes on; time passes; a process that died is started again.
\* Strong fairness on the two ways out of select: Go chooses among ready cases
\* at random, so one that is ready again and again is taken in the end.
SelectExit == Select /\ pc' # "begin"
Fairness ==
  /\ WF_vars(LoopStep)
  /\ SF_vars(SelectExit)
  /\ \A c \in Caller : WF_vars(StopStep(c) /\ (c # Loop => stop[c] # "idle"))
  /\ WF_vars(Tick)
  /\ WF_vars(Restart)

FairSpec == Spec /\ Fairness

-----------------------------------------------------------------------------
(* What the worker promises. *)

\* Where a cycle registered with the WaitGroup is running.
InCycle == pc \in {"list", "next", "claim", "sending", "accepted", "record", "done"}
Delivering == pc \in {"sending", "accepted", "record"}

\* A message is never sent again once the mail server has confirmed it: the
\* server accepts a row more than once only when Send reported an error for a
\* message it had accepted, and a delivered row was accepted.  This is what
\* setting the row to "delivering" first is for (outbox.go:171), across
\* crashes, cancellations and failed statements.
NoDoubleDelivery ==
  \A i \in Item :
    /\ accepted[i] <= ambiguous[i] + 1
    /\ status[i] = "delivered" => accepted[i] = ambiguous[i] + 1

\* Rows that are "delivering" though no goroutine delivers them: no listing
\* selects them again.
Stranded == {i \in Item : status[i] = "delivering" /\ ~(Delivering /\ cur = i)}

\* Because delivery is sequential and a cancelled context lets no row be
\* claimed, a process that is cancelled or killed strands at most one row, and
\* otherwise only a failed status update does.
StrandedBounded == Cardinality(Stranded) <= interrupts + dbErrors

\* A row is claimed again only after the backoff of its last failed attempt
\* has really passed, restarts included.
BackoffHonoured ==
  [][\A i \in Item :
       status[i] # "delivering" /\ status'[i] = "delivering" /\ retries[i] > 0
         => rest[i] >= Backoff[retries[i]]]_vars

\* A row that is queued again waits for no longer than calculateBackoff says of
\* its attempts, for no less when it has just failed, and for every
\* configuration that delay doubles until it reaches the maximum: no shift,
\* division or product near the limit of the integers (outbox.go:221-231) makes
\* it small or negative, which would send the mail again at once.
DelayDoubles ==
  /\ Erratic = {}
  /\ \A i \in Item :
       status[i] = "pending" /\ retries[i] > 0
         => LET delay == CalculateBackoff(retries[i], InitialBackoff, MaxBackoff)
            IN  wait[i] <= delay /\ (rest[i] = 0 => wait[i] = delay)

\* Once a call of Stop has returned no cycle runs and none will: the caller
\* may close the database ("waiting for in-flight deliveries", outbox.go:126).
StopWaits ==
  (\E c \in Caller : stop[c] = "returned") => ~InCycle

\* wg.Add never raises the counter from zero while a Stop is in wg.Wait, which
\* the runtime would punish with a panic (the comment on Queue.mu).
NoAddDuringWait ==
  [][wg = 0 /\ wg' = 1 => \A c \in Caller : stop[c] # "wait"]_vars

\* The rows and the mail go through the life cycle of MailLifecycle.
Lifecycle == INSTANCE MailLifecycle WITH tries <- retries
ImplementsLifecycle == Lifecycle!Spec

\* A cancelled worker comes to an end, and so does every call of Stop that has
\* begun, the worker's own included, unless the process dies under it: the
\* worker waits in Stop for a WaitGroup that it counts in itself.
ShutdownEnds ==
  /\ cancelled ~> pc \in {"returned", "down"}
  /\ \A c \in Caller : stop[c] \notin {"idle", "returned"} ~> stop[c] \in {"idle", "returned"}

\* A worker that nothing disturbs, no call of Stop either, delivers every queued
\* row or gives it up, whatever the mail server answers.
SettledUnlessDisturbed ==
  \A i \in Item :
    status[i] # "absent"
      ~> \/ status[i] \in {"delivered", "failed"}
         \/ interrupts + dbErrors > 0
         \/ once # "new"

\* Every queued row is delivered, or given up after MaxRetries attempts (README.md:66:
\* "durable email outbox deliveries").
EverySettled ==
  \A i \in Item : status[i] # "absent" ~> status[i] \in {"delivered", "failed"}

=============================================================================
