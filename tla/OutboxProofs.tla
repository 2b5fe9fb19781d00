---------------------------- MODULE OutboxProofs ----------------------------
(***************************************************************************)
(* Theorems about the outbox worker, for every set of rows, every set of   *)
(* callers of Stop, every limit on retries and any number of faults.       *)
(*                                                                         *)
(* The inductive invariant is IInv.  Its heart is the account of each row: *)
(* outside an attempt the server has accepted exactly the messages whose   *)
(* acceptance was not heard of, and the attempt in hand adds at most one.  *)
(* A row that is "delivering" without an attempt in hand is never picked   *)
(* again, because no listing selects it.                                   *)
(***************************************************************************)
EXTENDS Outbox, Induction, FiniteSetTheorems, TLAPS

-----------------------------------------------------------------------------
(* The delays, in integers of any width. *)

\* What fits is not changed.
LEMMA WrapFits ==
  ASSUME NEW n \in 0..Biggest
  PROVE  Wrap(n) = n
<1> USE HalfAssumption DEF Biggest
<1>1. n + Half \in 0..(2 * Half) - 1
  OBVIOUS
<1>2. \A m \in Nat \ {0} : \A k \in 0..m - 1 : k % m = k
  OBVIOUS
<1>3. 2 * Half \in Nat \ {0}
  OBVIOUS
<1>4. (n + Half) % (2 * Half) = n + Half
  BY <1>1, <1>2, <1>3
<1> QED
  BY <1>4 DEF Wrap

\* Dividing the maximum is as good as multiplying, without the overflow.
LEMMA DivisionTest ==
  ASSUME NEW initial \in Nat \ {0}, NEW factor \in Nat, NEW max \in Nat
  PROVE  factor > max \div initial <=> initial * factor > max
<1> DEFINE q == max \div initial
<1>1. q \in Nat /\ initial * q <= max /\ max < initial * (q + 1)
  OBVIOUS
<1>2. CASE factor > q
  <2>1. initial * (q + 1) <= initial * factor
    BY <1>1, <1>2
  <2> QED
    BY <1>1, <1>2, <2>1
<1>3. CASE factor <= q
  <2>1. initial * factor <= initial * q
    BY <1>1, <1>3
  <2> QED
    BY <1>1, <1>3, <2>1
<1> QED
  BY <1>1, <1>2, <1>3

\* The product is only taken where it fits, so that the delay is the exact
\* product or the maximum, whichever is less (outbox.go:226-231).
THEOREM ScaleExact ==
  ASSUME NEW initial \in Duration, NEW factor \in Nat, NEW max \in Duration
  PROVE  Scale(initial, factor, max)
           = IF initial * factor <= max THEN initial * factor ELSE max
<1>0. initial \in Nat \ {0} /\ max \in 0..Biggest /\ Biggest \in Nat
  BY HalfAssumption DEF Duration, Biggest
<1>1. factor > max \div initial <=> initial * factor > max
  BY <1>0, DivisionTest
<1>2. initial * factor \in Nat
  BY <1>0
<1>3. CASE factor > max \div initial
  <2>1. Scale(initial, factor, max) = max
    BY <1>3 DEF Scale
  <2>2. ~(initial * factor <= max)
    BY <1>0, <1>1, <1>2, <1>3
  <2> QED
    BY <2>1, <2>2
<1>4. CASE ~(factor > max \div initial)
  <2>1. initial * factor <= max
    BY <1>0, <1>1, <1>2, <1>4
  <2>2. initial * factor \in 0..Biggest
    BY <1>0, <1>2, <2>1
  <2>3. Wrap(initial * factor) = initial * factor
    BY <2>2, WrapFits
  <2>4. Scale(initial, factor, max) = initial * factor
    BY <1>4, <2>3 DEF Scale
  <2> QED
    BY <2>1, <2>4
<1> QED
  BY <1>3, <1>4

LEMMA PowerBounds ==
  ASSUME NEW n \in 0..Width
  PROVE  2^n \in Nat \ {0}
<1> DEFINE S == {k \in 0..Width : 2^k \in Nat \ {0}}
<1>1. 0 \in S /\ \A k \in 0..Width - 1 : k \in S => k + 1 \in S
  BY PowersOfTwo, WidthAssumption
<1> QED
  BY <1>1, UpTo, WidthAssumption

\* A shift by fewer than Width - 2 places fits.
LEMMA ShiftFits ==
  ASSUME NEW n \in 0..Width - 2
  PROVE  2^n \in 1..Biggest
<1> USE WidthAssumption, HalfAssumption
<1> DEFINE S == {k \in 0..Width - 2 : 2 * 2^(Width - 2 - k) <= Half}
<1>1. 0 \in S
  <2>1. 2^(Width - 2 + 1) = 2 * 2^(Width - 2)
    BY PowersOfTwo
  <2>2. Width - 2 + 1 = Width - 1 /\ Width - 2 - 0 = Width - 2
    OBVIOUS
  <2> QED
    BY <2>1, <2>2
<1>2. ASSUME NEW k \in 0..Width - 2 - 1, k \in S
      PROVE  k + 1 \in S
  <2>1. PICK j \in 0..Width : j = Width - 2 - (k + 1) /\ j + 1 = Width - 2 - k
    OBVIOUS
  <2>2. 2^(j + 1) = 2 * 2^j /\ 2^j \in Nat
    BY PowersOfTwo, PowerBounds
  <2>3. 2 * 2^(j + 1) <= Half
    BY <1>2, <2>1
  <2>4. 2 * 2^j <= Half
    BY <2>2, <2>3
  <2> QED
    BY <2>1, <2>4
<1>3. 0..Width - 2 \subseteq S
  <2>1. Width - 2 \in Nat
    OBVIOUS
  <2> HIDE DEF S
  <2> QED
    BY <1>1, <1>2, <2>1, UpTo
<1>4. Width - 2 - n \in S /\ Width - 2 - (Width - 2 - n) = n
  <2>1. Width - 2 - n \in 0..Width - 2 /\ Width - 2 - (Width - 2 - n) = n
    OBVIOUS
  <2> HIDE DEF S
  <2> QED
    BY <1>3, <2>1
<1>5. 2^n \in Nat \ {0}
  BY PowerBounds
<1> QED
  BY <1>4, <1>5 DEF Biggest

\* The delay of an attempt, for any width.
LEMMA DelayExact ==
  ASSUME NEW n \in Nat \ {0}, NEW initial \in Duration, NEW max \in Duration
  PROVE  CalculateBackoff(n, initial, max)
           = IF n < Width - 1 /\ initial * 2^(n - 1) <= max THEN initial * 2^(n - 1) ELSE max
<1> USE WidthAssumption
<1>1. CASE n < Width - 1
  <2>1. n - 1 \in 0..Width - 2 /\ ~(n - 1 >= Width - 2) /\ ~(n <= 0)
    BY <1>1
  <2>2. 2^(n - 1) \in 1..Biggest /\ Biggest \in Nat
    BY <2>1, ShiftFits, HalfAssumption DEF Biggest
  <2>3. Wrap(2^(n - 1)) = 2^(n - 1)
    BY <2>2, WrapFits
  <2>4. CalculateBackoff(n, initial, max) = Scale(initial, 2^(n - 1), max)
    BY <2>1, <2>3 DEF CalculateBackoff
  <2> QED
    BY <1>1, <2>2, <2>4, ScaleExact
<1>2. CASE ~(n < Width - 1)
  <2>1. n - 1 >= Width - 2 /\ ~(n <= 0)
    BY <1>2
  <2> QED
    BY <1>2, <2>1 DEF CalculateBackoff
<1> QED
  BY <1>1, <1>2

\* For integers of any width, every initial and every maximal delay, the delay
\* doubles with each attempt until it reaches the maximum, and stays there: no
\* shift, division or product overflows (outbox.go:215-232).
THEOREM DelaysDouble == Erratic = {}
<1> SUFFICES ASSUME NEW initial \in Duration, NEW max \in Duration, NEW n \in Attempt
             PROVE  LET delay == CalculateBackoff(n, initial, max)
                        next  == CalculateBackoff(n + 1, initial, max)
                    IN  /\ delay \in 1..max
                        /\ delay <= next
                        /\ next = 2 * delay \/ next = max
                        /\ n = 1 => delay = IF initial <= max THEN initial ELSE max
  BY DEF Erratic, Doubles
<1> USE WidthAssumption
<1> DEFINE delay == CalculateBackoff(n, initial, max)
           next  == CalculateBackoff(n + 1, initial, max)
           p     == initial * 2^(n - 1)
<1>1. /\ n \in Nat \ {0} /\ n + 1 \in Nat \ {0} /\ n - 1 \in 0..Width /\ (n + 1) - 1 = (n - 1) + 1
      /\ initial \in Nat \ {0} /\ max \in Nat \ {0}
  BY HalfAssumption DEF Attempt, Duration, Biggest
<1>2. 2^((n - 1) + 1) = 2 * 2^(n - 1) /\ 2^(n - 1) \in Nat \ {0}
  BY <1>1, PowersOfTwo, PowerBounds
<1>3. p \in Nat \ {0} /\ initial * 2^((n + 1) - 1) = 2 * p
  BY <1>1, <1>2
<1>4. delay = IF n < Width - 1 /\ p <= max THEN p ELSE max
  BY <1>1, DelayExact
<1>5. next = IF n + 1 < Width - 1 /\ 2 * p <= max THEN 2 * p ELSE max
  BY <1>1, <1>3, DelayExact
<1>6. n = 1 => p = initial
  BY <1>1, PowersOfTwo
<1> HIDE DEF p, delay, next
<1>7. delay \in 1..max /\ delay <= next /\ (next = 2 * delay \/ next = max)
  BY <1>1, <1>3, <1>4, <1>5
<1>8. n = 1 => delay = IF initial <= max THEN initial ELSE max
  BY <1>1, <1>4, <1>6
<1> QED
  BY <1>7, <1>8 DEF delay, next


\* The worker waits after every failed attempt.
LEMMA BackoffPositive == Backoff \in [1..MaxRetries -> Nat \ {0}]
<1> SUFFICES ASSUME NEW n \in 1..MaxRetries
             PROVE  CalculateBackoff(n, InitialBackoff, MaxBackoff) \in Nat \ {0}
  BY DEF Backoff
<1> DEFINE p == InitialBackoff * 2^(n - 1)
<1>1. /\ n \in Nat \ {0} /\ InitialBackoff \in Duration /\ MaxBackoff \in Duration
      /\ InitialBackoff \in Nat \ {0} /\ MaxBackoff \in Nat \ {0}
  BY BackoffAssumption, MaxRetriesAssumption, HalfAssumption DEF Duration, Biggest
<1>2. CASE n < Width - 1
  <2>1. n - 1 \in 0..Width
    BY <1>1, <1>2, WidthAssumption
  <2>2. p \in Nat \ {0}
    BY <1>1, <2>1, PowerBounds
  <2> HIDE DEF p
  <2>3. CalculateBackoff(n, InitialBackoff, MaxBackoff) \in {p, MaxBackoff}
    BY <1>1, DelayExact DEF p
  <2> QED
    BY <1>1, <2>2, <2>3
<1>3. CASE ~(n < Width - 1)
  BY <1>1, <1>3, DelayExact
<1> QED
  BY <1>2, <1>3

-----------------------------------------------------------------------------
(* Type correctness. *)

USE MaxRetriesAssumption, BackoffPositive, FarFutureAssumption,
    NamesAssumption, BoundsAssumption

\* Every reachable state of the worker, its table and its callers is of the
\* expected type.  wg is 0 or 1 because a cycle is registered only when the
\* last one is over; a row in deliverItem has retries left.
WgInCycle == wg = IF InCycle THEN 1 ELSE 0

\* A row is claimed only while a further failure stays within MaxRetries, and
\* a failure has been counted when its outcome is recorded.
RetriesLeft ==
  /\ sent # "none" => pc = "record"
  /\ sent = "err" => copy[cur] > 0
  /\ pc \in {"claim", "sending", "accepted"} => copy[cur] < MaxRetries
  /\ pc \in {"claim", "sending", "accepted", "record"} => cur \in Item

TypeInv == TypeOK /\ WgInCycle /\ RetriesLeft

LEMMA TypeInvInit == Init => TypeInv
<1> SUFFICES ASSUME Init PROVE TypeInv
  OBVIOUS
<1> USE DEF Init
<1>1. status \in [Item -> Status] /\ retries \in [Item -> 0..MaxRetries]
  BY DEF Status
<1>2. copy \in [Item -> 0..MaxRetries] /\ stop \in [Caller -> StopPC]
  BY DEF StopPC
<1>3. TypeOK
  BY <1>1, <1>2 DEF TypeOK, PC
<1>4. WgInCycle /\ RetriesLeft
  BY DEF WgInCycle, InCycle, RetriesLeft
<1>5. QED
  BY <1>3, <1>4 DEF TypeInv

LEMMA TypeInvStep == TypeInv /\ [Next]_vars => TypeInv'
<1> SUFFICES ASSUME TypeInv, [Next]_vars PROVE TypeInv'
  OBVIOUS
<1> USE DEF TypeInv, TypeOK, WgInCycle, InCycle, RetriesLeft, PC, StopPC, Status,
            table, work, queue, mail, faults, Goto
<1>1. ASSUME NEW i \in Item, Enqueue(i) PROVE TypeInv'
  BY SMTT(30), <1>1 DEF Enqueue
<1>2. CASE TryBeginCycle
  <2>1. /\ wg' \in {0, 1} /\ wg' = IF pc' = "list" THEN 1 ELSE 0
        /\ pc' \in {"list", "select"}
    BY <1>2 DEF TryBeginCycle
  <2>2. QED
    BY <1>2, <2>1 DEF TryBeginCycle
<1>3. CASE EndCycle
  BY <1>3 DEF EndCycle
<1>4. CASE Select
  BY <1>4 DEF Select
<1>5. CASE ReturnAfterStop
  BY <1>5 DEF ReturnAfterStop
<1>6. CASE List
  <2>1. copy' \in [Item -> 0..MaxRetries] /\ batch' \in SUBSET Item
    BY <1>6 DEF List, Due
  <2>2. QED
    BY <1>6, <2>1 DEF List, StatementSucceeds
<1>7. CASE ListFails
  <2>1. dbErrors' \in Nat
    BY <1>7 DEF ListFails, StatementFails
  <2>2. QED
    BY <1>7, <2>1 DEF ListFails
<1>8. CASE LeaveBatch
  BY <1>8 DEF LeaveBatch
<1>9. ASSUME NEW i \in Item, Skip(i) PROVE TypeInv'
  BY <1>9 DEF Skip
<1>10. ASSUME NEW i \in Item, Take(i) PROVE TypeInv'
  BY <1>10 DEF Take
<1>11. CASE Claim
  BY <1>11 DEF Claim, StatementSucceeds, UpdateRow
<1>12. CASE ClaimFails
  <2>1. dbErrors' \in Nat
    BY <1>12 DEF ClaimFails, StatementFails
  <2>2. QED
    BY <1>12, <2>1 DEF ClaimFails
<1>13. CASE ServerAccepts
  BY <1>13 DEF ServerAccepts
<1>14. CASE SendSucceeds
  BY <1>14 DEF SendSucceeds
<1>15. CASE SendFails
  <2>1. cur \in Item /\ copy[cur] + 1 \in 0..MaxRetries
    BY <1>15 DEF SendFails
  <2>2. ambiguous' \in [Item -> Nat]
    BY SMTT(30), <1>15 DEF SendFails
  <2>3. rest' \in [Item -> Nat]
    BY <1>15 DEF SendFails
  <2>4. copy' \in [Item -> 0..MaxRetries] /\ copy'[cur] > 0
    BY <1>15, <2>1 DEF SendFails
  <2>5. pc \in {"sending", "accepted"} /\ pc' = "record" /\ sent' = "err" /\ wg' = wg
    BY <1>15 DEF SendFails
  <2>6. TypeOK'
    BY <1>15, <2>2, <2>3, <2>4, <2>5 DEF SendFails
  <2>7. QED
    BY <1>15, <2>1, <2>4, <2>5, <2>6 DEF SendFails
<1>16. CASE RecordDelivered
  BY <1>16 DEF RecordDelivered, StatementSucceeds, UpdateRow, NextItem
<1>17. CASE RecordGivenUp
  BY <1>17 DEF RecordGivenUp, StatementSucceeds, UpdateRow, NextItem
<1>18. CASE RecordRetry
  <2>1. cur \in Item /\ copy[cur] \in 0..MaxRetries
    BY <1>18 DEF RecordRetry, NextItem
  <2>2. Backoff[copy[cur]] \in Nat
    BY <1>18, <2>1 DEF RecordRetry
  <2>3. QED
    BY <1>18, <2>1, <2>2
    DEF RecordRetry, StatementSucceeds, UpdateRow, NextItem
<1>19. CASE RecordFails
  <2>1. dbErrors' \in Nat
    BY <1>19 DEF RecordFails, StatementFails
  <2>2. QED
    BY <1>19, <2>1 DEF RecordFails, NextItem
<1>20. ASSUME NEW c \in Caller, StopStep(c) PROVE TypeInv'
  <2>1. CASE CallStop(c)
    <3>1. PICK place \in StopPC : stop' = [stop EXCEPT ![c] = place]
      BY ZenonT(30), <2>1 DEF CallStop
    <3>2. stop' \in [Caller -> StopPC]
      BY <3>1
    <3>3. once' \in {"new", "running", "done"}
      BY ZenonT(30), <2>1 DEF CallStop
    <3>4. UNCHANGED <<table, pc, work, cancelled, stopped, closed, wg, mail, rest, faults>>
      BY <2>1 DEF CallStop
    <3>5. QED
      BY SMTT(30), <3>2, <3>3, <3>4
  <2>2. CASE OnceReturns(c)
    BY <2>2 DEF OnceReturns
  <2>3. CASE MarkStopped(c)
    BY <2>3 DEF MarkStopped
  <2>4. CASE CloseShutdown(c)
    BY <2>4 DEF CloseShutdown
  <2>5. CASE WaitCycle(c)
    BY <2>5 DEF WaitCycle
  <2>6. QED
    BY <1>20, <2>1, <2>2, <2>3, <2>4, <2>5 DEF StopStep
<1>21. CASE Tick
  <2>1. wait' \in [Item -> Nat]
    BY SMTT(30), <1>21 DEF Tick
  <2>2. rest' \in [Item -> Nat]
    BY SMTT(30), <1>21 DEF Tick
  <2>3. QED
    BY <1>21, <2>1, <2>2 DEF Tick
<1>22. CASE Cancel
  BY <1>22 DEF Cancel
<1>23. CASE Die
  <2>1. copy' \in [Item -> 0..MaxRetries] /\ stop' \in [Caller -> StopPC]
    BY <1>23 DEF Die, FreshQueue
  <2>2. interrupts' \in Nat
    BY <1>23 DEF Die
  <2>3. QED
    BY <1>23, <2>1, <2>2 DEF Die, FreshQueue
<1>24. CASE Restart
  BY <1>24 DEF Restart
<1>25. CASE UNCHANGED vars
  BY <1>25 DEF vars
<1>26. QED
  BY <1>1, <1>2, <1>3, <1>4, <1>5, <1>6, <1>7, <1>8, <1>9, <1>10, <1>11, <1>12,
     <1>13, <1>14, <1>15, <1>16, <1>17, <1>18, <1>19, <1>20, <1>21, <1>22, <1>23,
     <1>24, <1>25 DEF Next, LoopStep, DeliverStep

LEMMA TypeInvariance == Spec => []TypeInv
BY TypeInvInit, TypeInvStep, PTL DEF Spec

THEOREM TypeCorrect == Spec => []TypeOK
BY TypeInvariance, PTL DEF TypeInv

-----------------------------------------------------------------------------
(* The inductive invariants. *)

\* The row in deliverItem is none of those still to come, and it is
\* "delivering" from the claim to the record of the outcome.
CurrentRow ==
  /\ pc \in {"claim", "sending", "accepted", "record"} => cur \notin batch
  /\ Delivering => status[cur] = "delivering"
  /\ pc = "record" => sent # "none"

\* What the listing read is still what the table holds.
SnapshotFresh ==
  /\ \A i \in batch : status[i] \in {"pending", "failed"} /\ copy[i] = retries[i]
  /\ pc = "claim" => status[cur] \in {"pending", "failed"} /\ copy[cur] = retries[cur]
  /\ Delivering => copy[cur] = retries[cur] + IF sent = "err" THEN 1 ELSE 0

\* The attempt in hand has reached the server, as far as Send knows.
Counted == IF pc = "accepted" \/ sent = "ok" THEN 1 ELSE 0

\* How many messages the server has accepted for each row.
Account ==
  \A i \in Item :
    /\ status[i] \in {"absent", "pending", "failed"} => accepted[i] = ambiguous[i]
    /\ status[i] = "delivered" => accepted[i] = ambiguous[i] + 1
    /\ status[i] = "delivering" => accepted[i] <= ambiguous[i] + 1
    /\ Delivering /\ cur = i => accepted[i] = ambiguous[i] + Counted

IInv == TypeInv /\ CurrentRow /\ SnapshotFresh /\ Account

\* At most one acceptance for each attempt made, and MaxRetries attempts.
Tally ==
  \A i \in Item :
    /\ status[i] \in {"absent", "pending"} => retries[i] < MaxRetries
    /\ status[i] = "failed" => retries[i] = MaxRetries
    /\ status[i] \in {"absent", "pending", "failed"} => accepted[i] <= retries[i]
    /\ Delivering /\ cur = i =>
         accepted[i] <= retries[i] + IF pc = "sending" THEN 0 ELSE 1

\* Where a call of Stop stands tells what the queue's fields hold, and at most
\* one caller is inside shutdownOnce.
StopOrder ==
  \A c \in Caller :
    /\ stop[c] \in {"close", "wait"} => stopped
    /\ stop[c] \in {"mark", "close", "wait"} => once = "running"
    /\ stop[c] = "returned" => once = "done"
    /\ \A d \in Caller :
         {stop[c], stop[d]} \subseteq {"mark", "close", "wait"} => c = d

StopInv == TypeInv /\ StopOrder /\ (once = "done" => stopped /\ ~InCycle)


-----------------------------------------------------------------------------
(* No message is delivered twice. *)

LEMMA IInvInit == Init => IInv
<1> SUFFICES ASSUME Init PROVE IInv
  OBVIOUS
<1>1. CurrentRow /\ SnapshotFresh /\ Account
  BY DEF Init, CurrentRow, SnapshotFresh, Account, Delivering
<1>2. QED
  BY <1>1, TypeInvInit DEF IInv

LEMMA IInvStep == IInv /\ [Next]_vars => IInv'
<1> SUFFICES ASSUME IInv, [Next]_vars PROVE IInv'
  OBVIOUS
<1>0. TypeInv'
  BY TypeInvStep DEF IInv
<1> SUFFICES (CurrentRow /\ SnapshotFresh /\ Account)'
  BY <1>0 DEF IInv
<1> USE DEF IInv, TypeInv, TypeOK, RetriesLeft, CurrentRow, SnapshotFresh, Account,
            Delivering, Counted, table, work, queue, mail, faults, Goto
<1>1. ASSUME NEW i \in Item, Enqueue(i) PROVE (CurrentRow /\ SnapshotFresh /\ Account)'
  BY <1>1 DEF Enqueue
<1>2. CASE TryBeginCycle
  BY <1>2 DEF TryBeginCycle
<1>3. CASE EndCycle
  BY <1>3 DEF EndCycle
<1>4. CASE Select
  BY <1>4 DEF Select
<1>5. CASE ReturnAfterStop
  BY <1>5 DEF ReturnAfterStop
<1>6. CASE List
  BY <1>6 DEF List, Due
<1>7. CASE ListFails
  BY <1>7 DEF ListFails
<1>8. CASE LeaveBatch
  BY <1>8 DEF LeaveBatch
<1>9. ASSUME NEW i \in Item, Skip(i) PROVE (CurrentRow /\ SnapshotFresh /\ Account)'
  BY <1>9 DEF Skip
<1>10. ASSUME NEW i \in Item, Take(i) PROVE (CurrentRow /\ SnapshotFresh /\ Account)'
  BY <1>10 DEF Take
<1>11. CASE Claim
  BY SMTT(30), <1>11 DEF Claim, UpdateRow
<1>12. CASE ClaimFails
  BY <1>12 DEF ClaimFails
<1>13. CASE ServerAccepts
  BY <1>13 DEF ServerAccepts
<1>14. CASE SendSucceeds
  BY <1>14 DEF SendSucceeds
<1>15. CASE SendFails
  <2>1. cur \in Item /\ status[cur] = "delivering" /\ sent = "none" /\ pc' = "record"
    BY <1>15 DEF SendFails, PC
  <2>2. CurrentRow' /\ SnapshotFresh'
    BY <1>15, <2>1 DEF SendFails
  <2>3. Account'
    <3>1. CASE pc = "sending" /\ UNCHANGED ambiguous
      BY <1>15, <2>1, <3>1 DEF SendFails
    <3>2. CASE pc = "accepted" /\ ambiguous' = [ambiguous EXCEPT ![cur] = @ + 1]
      <4>1. /\ ambiguous'[cur] = ambiguous[cur] + 1 /\ ambiguous[cur] \in Nat
            /\ \A i \in Item \ {cur} : ambiguous'[i] = ambiguous[i]
        BY <2>1, <3>2
      <4>2. accepted[cur] = ambiguous[cur] + 1 /\ Counted' = 0
        BY <1>15, <2>1, <3>2 DEF SendFails
      <4>3. UNCHANGED <<status, accepted, cur>>
        BY <1>15 DEF SendFails
      <4> QED
        BY SMTT(30), <2>1, <4>1, <4>2, <4>3 DEF Status
    <3>3. QED
      BY <1>15, <3>1, <3>2 DEF SendFails
  <2>4. QED
    BY <2>2, <2>3
<1>16. CASE RecordDelivered
  BY <1>16 DEF RecordDelivered, UpdateRow, NextItem
<1>17. ASSUME RecordGivenUp \/ RecordRetry PROVE (CurrentRow /\ SnapshotFresh /\ Account)'
  <2>1. /\ pc = "record" /\ pc' = "next" /\ sent = "err" /\ sent' = "none"
        /\ UNCHANGED <<batch, copy, accepted, ambiguous>>
    BY <1>17 DEF RecordGivenUp, RecordRetry, NextItem
  <2>2. cur \in Item /\ cur \notin batch /\ accepted[cur] = ambiguous[cur]
    BY <2>1
  <2>3. /\ status'[cur] \in {"pending", "failed"}
        /\ \A i \in Item \ {cur} : status'[i] = status[i] /\ retries'[i] = retries[i]
    BY <1>17, <2>2 DEF RecordGivenUp, RecordRetry, UpdateRow
  <2>4. SnapshotFresh'
    BY <2>1, <2>2, <2>3
  <2>5. QED
    BY SMTT(30), <2>1, <2>2, <2>3, <2>4
<1>19. CASE RecordFails
  BY <1>19 DEF RecordFails, NextItem
<1>20. CASE Tick
  BY <1>20 DEF Tick
<1>21. CASE Cancel
  BY <1>21 DEF Cancel
<1>22. CASE Die
  BY <1>22 DEF Die, FreshQueue
<1>23. CASE Restart
  BY <1>23 DEF Restart
<1>24. ASSUME NEW c \in Caller, StopStep(c) PROVE (CurrentRow /\ SnapshotFresh /\ Account)'
  <2>1. UNCHANGED <<table, pc, work, mail>>
    BY <1>24 DEF StopStep, CallStop, OnceReturns, MarkStopped, CloseShutdown, WaitCycle
  <2>2. QED
    BY <2>1
<1>25. CASE UNCHANGED vars
  BY <1>25 DEF vars
<1>26. QED
  BY <1>1, <1>2, <1>3, <1>4, <1>5, <1>6, <1>7, <1>8, <1>9, <1>10, <1>11, <1>12, <1>13, <1>14, <1>15, <1>16, <1>17, <1>19, <1>20, <1>21, <1>22, <1>23, <1>24, <1>25
  DEF Next, LoopStep, DeliverStep

\* The server accepts a row at most once more often than Send has failed to
\* report it, and a delivered row exactly so: the row set to "delivering"
\* before the mail is sent keeps a restart from sending it again.
THEOREM DeliveredOnce == Spec => []NoDoubleDelivery
<1>1. IInv => NoDoubleDelivery
  <2> SUFFICES ASSUME IInv, NEW i \in Item
               PROVE  accepted[i] <= ambiguous[i] + 1
                      /\ (status[i] = "delivered" => accepted[i] = ambiguous[i] + 1)
    BY DEF NoDoubleDelivery
  <2>1. status[i] \in Status /\ ambiguous[i] \in Nat /\ accepted[i] \in Nat
    BY DEF IInv, TypeInv, TypeOK
  <2> QED
    BY <2>1 DEF IInv, Account, Status
<1>2. QED
  BY <1>1, IInvInit, IInvStep, PTL DEF Spec

-----------------------------------------------------------------------------
(* Stop. *)

LEMMA StopInvInit == Init => StopInv
<1> SUFFICES ASSUME Init PROVE StopInv
  OBVIOUS
<1>1. StopOrder /\ (once = "done" => stopped /\ ~InCycle)
  BY DEF Init, StopOrder
<1>2. QED
  BY <1>1, TypeInvInit DEF StopInv

LEMMA StopInvStep == StopInv /\ [Next]_vars => StopInv'
<1> SUFFICES ASSUME StopInv, [Next]_vars PROVE StopInv'
  OBVIOUS
<1>0. TypeInv'
  BY TypeInvStep DEF StopInv
<1> DEFINE Rest == StopOrder /\ (once = "done" => stopped /\ ~InCycle)
<1> SUFFICES Rest'
  BY <1>0 DEF StopInv
<1> USE DEF StopInv, TypeInv, TypeOK, WgInCycle, InCycle, StopOrder,
            table, work, queue, mail, faults, Goto
<1>1. ASSUME NEW i \in Item, Enqueue(i) PROVE Rest'
  BY <1>1 DEF Enqueue
<1>2. CASE TryBeginCycle
  BY <1>2 DEF TryBeginCycle
<1>3. CASE EndCycle
  BY <1>3 DEF EndCycle
<1>4. CASE Select
  BY <1>4 DEF Select
<1>5. CASE ReturnAfterStop
  BY <1>5 DEF ReturnAfterStop
<1>6. CASE List
  BY <1>6 DEF List, Due
<1>7. CASE ListFails
  BY <1>7 DEF ListFails
<1>8. CASE LeaveBatch
  BY <1>8 DEF LeaveBatch
<1>9. ASSUME NEW i \in Item, Skip(i) PROVE Rest'
  BY <1>9 DEF Skip
<1>10. ASSUME NEW i \in Item, Take(i) PROVE Rest'
  BY <1>10 DEF Take
<1>11. CASE Claim
  BY <1>11 DEF Claim, UpdateRow
<1>12. CASE ClaimFails
  BY <1>12 DEF ClaimFails
<1>13. CASE ServerAccepts
  BY <1>13 DEF ServerAccepts
<1>14. CASE SendSucceeds
  BY <1>14 DEF SendSucceeds
<1>15. CASE SendFails
  BY <1>15 DEF SendFails
<1>16. CASE RecordDelivered
  BY <1>16 DEF RecordDelivered, UpdateRow, NextItem
<1>17. CASE RecordGivenUp
  BY <1>17 DEF RecordGivenUp, UpdateRow, NextItem
<1>18. CASE RecordRetry
  BY <1>18 DEF RecordRetry, UpdateRow, NextItem
<1>19. CASE RecordFails
  BY <1>19 DEF RecordFails, NextItem
<1>20. CASE Tick
  BY <1>20 DEF Tick
<1>21. CASE Cancel
  BY <1>21 DEF Cancel
<1>22. CASE Die
  BY <1>22 DEF Die, FreshQueue
<1>23. CASE Restart
  BY <1>23 DEF Restart
<1>24. ASSUME NEW c \in Caller, StopStep(c) PROVE Rest'
  <2>1. CASE CallStop(c)
    BY <2>1 DEF CallStop
  <2>2. CASE OnceReturns(c)
    BY <2>2 DEF OnceReturns
  <2>3. CASE MarkStopped(c)
    BY <2>3 DEF MarkStopped
  <2>4. CASE CloseShutdown(c)
    BY <2>4 DEF CloseShutdown
  <2>5. CASE WaitCycle(c)
    BY <2>5 DEF WaitCycle
  <2>6. QED
    BY <1>24, <2>1, <2>2, <2>3, <2>4, <2>5 DEF StopStep
<1>25. CASE UNCHANGED vars
  BY <1>25 DEF vars
<1>26. QED
  BY <1>1, <1>2, <1>3, <1>4, <1>5, <1>6, <1>7, <1>8, <1>9, <1>10, <1>11, <1>12, <1>13, <1>14, <1>15, <1>16, <1>17, <1>18, <1>19, <1>20, <1>21, <1>22, <1>23, <1>24, <1>25
  DEF Next, LoopStep, DeliverStep

\* Once a call of Stop has returned no delivery cycle runs, whoever called it
\* and however many did.
THEOREM StopHasWaited == Spec => []StopWaits
<1>1. StopInv => StopWaits
  BY DEF StopInv, StopOrder, StopWaits
<1>2. QED
  BY <1>1, StopInvInit, StopInvStep, PTL DEF Spec

\* The WaitGroup is never added to from zero while a Stop waits for it.
THEOREM AddBeforeWait == Spec => NoAddDuringWait
<1>1. StopInv /\ [Next]_vars =>
        [wg = 0 /\ wg' = 1 => \A c \in Caller : stop[c] # "wait"]_vars
  <2> SUFFICES ASSUME StopInv, Next, wg = 0, wg' = 1
               PROVE  \A c \in Caller : stop[c] # "wait"
    BY DEF vars
  <2> USE DEF table, work, queue, mail, faults
  <2>1. ~stopped
    BY DEF Next, LoopStep, DeliverStep, Enqueue, TryBeginCycle, EndCycle, Select,
           ReturnAfterStop, List, ListFails, LeaveBatch, Skip, Take, Claim,
           ClaimFails, ServerAccepts, SendSucceeds, SendFails, RecordDelivered,
           RecordGivenUp, RecordRetry, RecordFails, NextItem, StopStep, CallStop,
           OnceReturns, MarkStopped, CloseShutdown, WaitCycle, Tick, Cancel, Die,
           FreshQueue, Restart
  <2>2. QED
    BY <2>1 DEF StopInv, StopOrder
<1>2. QED
  BY <1>1, StopInvInit, StopInvStep, PTL DEF Spec, NoAddDuringWait

-----------------------------------------------------------------------------
(* The worker implements MailLifecycle. *)

RInv == IInv /\ Tally

LEMMA RInvInit == Init => RInv
<1>1. Init => Tally
  BY DEF Init, Tally, Delivering
<1>2. QED
  BY <1>1, IInvInit DEF RInv

LEMMA RInvStep == RInv /\ [Next]_vars => RInv'
<1> SUFFICES ASSUME RInv, [Next]_vars PROVE RInv'
  OBVIOUS
<1>0. IInv'
  BY IInvStep DEF RInv
<1> SUFFICES Tally'
  BY <1>0 DEF RInv
<1> USE DEF RInv, IInv, TypeInv, TypeOK, RetriesLeft, CurrentRow, SnapshotFresh,
            Delivering, Tally, table, work, queue, mail, faults, Goto
<1>1. ASSUME NEW i \in Item, Enqueue(i) PROVE Tally'
  BY <1>1 DEF Enqueue
<1>2. CASE TryBeginCycle
  BY <1>2 DEF TryBeginCycle
<1>3. CASE EndCycle
  BY <1>3 DEF EndCycle
<1>4. CASE Select
  BY <1>4 DEF Select
<1>5. CASE ReturnAfterStop
  BY <1>5 DEF ReturnAfterStop
<1>6. CASE List
  BY <1>6 DEF List, Due
<1>7. CASE ListFails
  BY <1>7 DEF ListFails
<1>8. CASE LeaveBatch
  BY <1>8 DEF LeaveBatch
<1>9. ASSUME NEW i \in Item, Skip(i) PROVE Tally'
  BY <1>9 DEF Skip
<1>10. ASSUME NEW i \in Item, Take(i) PROVE Tally'
  BY <1>10 DEF Take
<1>11. CASE Claim
  BY <1>11 DEF Claim, UpdateRow
<1>12. CASE ClaimFails
  BY <1>12 DEF ClaimFails
<1>13. CASE ServerAccepts
  <2>1. /\ pc = "sending" /\ pc' = "accepted" /\ cur \in Item /\ status[cur] = "delivering"
        /\ UNCHANGED <<status, retries, cur>>
    BY <1>13 DEF ServerAccepts
  <2>2. /\ accepted'[cur] = accepted[cur] + 1 /\ accepted[cur] \in Nat
        /\ \A i \in Item \ {cur} : accepted'[i] = accepted[i]
    BY <1>13, <2>1 DEF ServerAccepts
  <2>3. QED
    BY SMTT(30), <2>1, <2>2
<1>14. CASE SendSucceeds
  BY <1>14 DEF SendSucceeds
<1>15. CASE SendFails
  BY <1>15 DEF SendFails
<1>16. CASE RecordDelivered
  BY <1>16 DEF RecordDelivered, UpdateRow, NextItem
<1>17. CASE RecordGivenUp
  BY <1>17 DEF RecordGivenUp, Exhausted, Account, UpdateRow, NextItem
<1>18. CASE RecordRetry
  BY <1>18 DEF RecordRetry, Exhausted, UpdateRow, NextItem
<1>19. CASE RecordFails
  BY <1>19 DEF RecordFails, NextItem
<1>20. CASE Tick
  BY <1>20 DEF Tick
<1>21. CASE Cancel
  BY <1>21 DEF Cancel
<1>22. CASE Die
  BY <1>22 DEF Die, FreshQueue
<1>23. CASE Restart
  BY <1>23 DEF Restart
<1>24. ASSUME NEW c \in Caller, StopStep(c) PROVE Tally'
  BY <1>24 DEF StopStep, CallStop, OnceReturns, MarkStopped, CloseShutdown, WaitCycle
<1>25. CASE UNCHANGED vars
  BY <1>25 DEF vars
<1>26. QED
  BY <1>1, <1>2, <1>3, <1>4, <1>5, <1>6, <1>7, <1>8, <1>9, <1>10, <1>11, <1>12, <1>13, <1>14, <1>15, <1>16, <1>17, <1>18, <1>19, <1>20, <1>21, <1>22, <1>23, <1>24, <1>25
  DEF Next, LoopStep, DeliverStep

\* Every step of the worker, of the database under it and of the world around
\* it is a step of MailLifecycle or changes nothing there.
THEOREM WorkerImplementsLifecycle == Spec => ImplementsLifecycle
<1>1. Init => Lifecycle!Init
  BY DEF Init, Lifecycle!Init
<1>2. RInv /\ [Next]_vars => [Lifecycle!Next]_(Lifecycle!vars)
  <2> SUFFICES ASSUME RInv, [Next]_vars
               PROVE  Lifecycle!Next \/ UNCHANGED <<status, retries, accepted>>
    BY DEF Lifecycle!vars
  <2> USE DEF RInv, IInv, TypeInv, TypeOK, RetriesLeft, SnapshotFresh, Tally,
              Delivering, table, work, queue, mail, faults, Goto
  <2>1. ASSUME NEW i \in Item, Enqueue(i) PROVE Lifecycle!Next
    <3>1. Lifecycle!Queue(i)
      BY <2>1 DEF Enqueue, Lifecycle!Queue, Lifecycle!Become
    <3>2. QED
      BY <3>1 DEF Lifecycle!Next
  <2>2. CASE Claim
    <3>1. cur \in Item /\ status[cur] = "pending" /\ copy[cur] = retries[cur]
      BY <2>2 DEF Claim
    <3>2. Lifecycle!Attempt(cur)
      BY <2>2, <3>1 DEF Claim, UpdateRow, Lifecycle!Attempt, Lifecycle!Become
    <3>3. QED
      BY <3>1, <3>2 DEF Lifecycle!Next
  <2>3. CASE ServerAccepts
    <3>1. cur \in Item /\ status[cur] = "delivering" /\ accepted[cur] <= retries[cur]
      BY <2>3 DEF ServerAccepts, CurrentRow
    <3>2. Lifecycle!Accept(cur)
      BY <2>3, <3>1 DEF ServerAccepts, Lifecycle!Accept
    <3>3. QED
      BY <3>1, <3>2 DEF Lifecycle!Next
  <2>4. CASE RecordDelivered
    <3>1. /\ cur \in Item /\ status[cur] = "delivering"
          /\ copy[cur] = retries[cur] /\ accepted[cur] > 0
      BY <2>4 DEF RecordDelivered, NextItem, CurrentRow, Account, Counted
    <3>2. Lifecycle!Succeed(cur)
      BY <2>4, <3>1
      DEF RecordDelivered, UpdateRow, NextItem, Lifecycle!Succeed, Lifecycle!Become
    <3>3. QED
      BY <3>1, <3>2 DEF Lifecycle!Next
  <2>5. ASSUME RecordGivenUp \/ RecordRetry PROVE Lifecycle!Next
    <3>1. /\ cur \in Item /\ status[cur] = "delivering"
          /\ copy[cur] = retries[cur] + 1
      BY <2>5 DEF RecordGivenUp, RecordRetry, NextItem, CurrentRow
    <3>2. /\ retries' = [retries EXCEPT ![cur] = @ + 1]
          /\ status' = [status EXCEPT ![cur] =
                          IF retries[cur] + 1 < MaxRetries THEN "pending" ELSE "failed"]
          /\ UNCHANGED accepted
      BY <2>5, <3>1 DEF RecordGivenUp, RecordRetry, Exhausted, UpdateRow, NextItem
    <3>3. Lifecycle!Fail(cur)
      BY <3>1, <3>2 DEF Lifecycle!Fail, Lifecycle!Become
    <3>4. QED
      BY <3>1, <3>3 DEF Lifecycle!Next
  <2>6. ASSUME \/ TryBeginCycle \/ EndCycle \/ Select \/ ReturnAfterStop
               \/ List \/ ListFails \/ LeaveBatch
               \/ \E i \in Item : Skip(i) \/ Take(i)
               \/ ClaimFails \/ SendSucceeds \/ SendFails \/ RecordFails
        PROVE  UNCHANGED <<status, retries, accepted>>
    BY <2>6 DEF TryBeginCycle, EndCycle, Select, ReturnAfterStop, List, ListFails,
         LeaveBatch, Skip, Take, ClaimFails, SendSucceeds, SendFails, RecordFails,
         NextItem
  <2>7. ASSUME \/ \E c \in Caller : StopStep(c)
               \/ Tick \/ Cancel \/ Die \/ Restart \/ UNCHANGED vars
        PROVE  UNCHANGED <<status, retries, accepted>>
    BY <2>7 DEF StopStep, CallStop, OnceReturns, MarkStopped, CloseShutdown,
         WaitCycle, Tick, Cancel, Die, Restart, vars
  <2>8. QED
    BY <2>1, <2>2, <2>3, <2>4, <2>5, <2>6, <2>7 DEF Next, LoopStep, DeliverStep
<1>3. QED
  BY <1>1, <1>2, RInvInit, RInvStep, PTL
  DEF Spec, ImplementsLifecycle, Lifecycle!Spec

-----------------------------------------------------------------------------
(* The backoff of a failed attempt passes before the next one. *)

\* Of a row that waits, what has passed of its backoff and what is to come make
\* up the whole of it; the rows a listing has selected are due.
Rested ==
  /\ \A i \in Item :
       /\ status[i] = "absent" => retries[i] = 0
       /\ status[i] = "pending" /\ retries[i] > 0 => rest[i] + wait[i] = Backoff[retries[i]]
       /\ i \in batch => wait[i] = 0
  /\ pc = "claim" => wait[cur] = 0
  /\ sent = "err" => rest[cur] = 0

BInv == RInv /\ Rested

LEMMA RestedTable ==
  ASSUME BInv, UNCHANGED <<status, retries, wait, rest>>, batch' \subseteq batch,
         pc' # "claim" \/ (pc' = pc /\ cur' = cur),
         sent' # "err" \/ (sent' = sent /\ cur' = cur)
  PROVE  Rested'
BY DEF BInv, Rested

\* The outcome of an attempt is recorded: only the row in hand changes.
LEMMA RestedRecord ==
  ASSUME BInv, pc = "record", NEW s \in {"delivered", "failed", "pending"},
         NEW w \in Nat, UpdateRow(s, w), UNCHANGED <<rest, batch>>, pc' # "claim",
         sent' = "none",
         s = "pending" /\ copy[cur] > 0 => sent = "err" /\ w = Backoff[copy[cur]]
  PROVE  Rested'
<1> USE DEF BInv, RInv, IInv, TypeInv, TypeOK, RetriesLeft, CurrentRow
<1>1. cur \in Item /\ cur \notin batch /\ copy[cur] \in 0..MaxRetries /\ rest[cur] \in Nat
  OBVIOUS
<1>2. ASSUME NEW i \in Item
      PROVE  /\ status'[i] = IF i = cur THEN s ELSE status[i]
             /\ retries'[i] = IF i = cur THEN copy[cur] ELSE retries[i]
             /\ wait'[i] = IF i = cur THEN w ELSE wait[i]
  BY DEF UpdateRow
<1>3. copy[cur] > 0 => Backoff[copy[cur]] \in Nat
  BY <1>1
<1> QED
  <2>1. ASSUME NEW i \in Item
        PROVE  /\ status'[i] = "absent" => retries'[i] = 0
               /\ status'[i] = "pending" /\ retries'[i] > 0
                    => rest'[i] + wait'[i] = Backoff[retries'[i]]
               /\ i \in batch' => wait'[i] = 0
    <3>1. CASE i = cur
      BY <1>1, <1>2, <1>3, <3>1 DEF Rested
    <3>2. CASE i # cur
      BY <1>2, <3>2 DEF Rested
    <3> QED
      BY <3>1, <3>2
  <2> QED
    BY <2>1 DEF Rested

LEMMA BInvInit == Init => BInv
<1>1. Init => Rested
  BY DEF Init, Rested
<1> QED
  BY <1>1, RInvInit DEF BInv

LEMMA BInvStep == BInv /\ [Next]_vars => BInv'
<1> SUFFICES ASSUME BInv, [Next]_vars PROVE BInv'
  OBVIOUS
<1>0. RInv'
  BY RInvStep DEF BInv
<1> SUFFICES Rested'
  BY <1>0 DEF BInv
<1> USE DEF table, work, queue, mail, faults, Goto
<1>a. TypeOK /\ RetriesLeft /\ CurrentRow /\ SnapshotFresh
  BY DEF BInv, RInv, IInv, TypeInv
<1>1. ASSUME NEW i \in Item, Enqueue(i) PROVE Rested'
  <2>1. \A j \in Item : status'[j] = IF j = i THEN "pending" ELSE status[j]
    BY <1>a, <1>1 DEF Enqueue, TypeOK
  <2>2. status[i] = "absent" /\ retries[i] = 0
    BY <1>1 DEF Enqueue, BInv, Rested
  <2>3. UNCHANGED <<retries, wait, rest, batch, cur, sent, pc>>
    BY <1>1 DEF Enqueue
  <2> QED
    BY <2>1, <2>2, <2>3 DEF BInv, Rested
<1>2. CASE List
  BY <1>a, <1>2 DEF List, Due, BInv, Rested
<1>3. ASSUME NEW i \in Item, Take(i) PROVE Rested'
  BY <1>a, <1>3 DEF Take, BInv, Rested, RetriesLeft
<1>4. CASE Claim
  <2>1. cur \in Item /\ pc' = "sending" /\ sent' = "none" /\ UNCHANGED <<batch, rest>>
    BY <1>a, <1>4 DEF Claim, RetriesLeft, TypeOK
  <2>2. ASSUME NEW i \in Item
        PROVE  /\ status'[i] = IF i = cur THEN "delivering" ELSE status[i]
               /\ i # cur => retries'[i] = retries[i]
               /\ wait'[i] = wait[i]
    BY <1>a, <1>4, <2>1 DEF Claim, UpdateRow, TypeOK
  <2> QED
    BY <2>1, <2>2 DEF BInv, Rested
<1>5. CASE SendFails
  <2>1. cur \in Item /\ status[cur] = "delivering" /\ pc' = "record"
        /\ UNCHANGED <<status, retries, wait, batch, cur>>
    BY <1>a, <1>5 DEF SendFails, RetriesLeft, CurrentRow, Delivering
  <2>2. \A i \in Item : rest'[i] = IF i = cur THEN 0 ELSE rest[i]
    BY <1>a, <1>5, <2>1 DEF SendFails, TypeOK
  <2> QED
    BY <2>1, <2>2 DEF BInv, Rested
<1>6. CASE RecordDelivered
  BY <1>a, <1>6, RestedRecord DEF RecordDelivered, NextItem, TypeOK, RetriesLeft
<1>7. CASE RecordGivenUp
  BY <1>a, <1>7, RestedRecord DEF RecordGivenUp, NextItem
<1>8. CASE RecordRetry
  <2>1. cur \in Item /\ copy[cur] \in 1..MaxRetries
    BY <1>a, <1>8 DEF RecordRetry, NextItem, TypeOK, RetriesLeft
  <2>2. Backoff[copy[cur]] \in Nat
    BY <2>1
  <2> QED
    BY <1>8, <2>2, RestedRecord DEF RecordRetry, NextItem
<1>9. CASE Tick
  <2>1. ASSUME NEW i \in Item
        PROVE  /\ wait'[i] = 0 \/ wait'[i] = wait[i] - 1
               /\ wait[i] = 0 => wait'[i] = 0
               /\ status[i] = "pending" /\ retries[i] > 0 =>
                    rest'[i] + wait'[i] = Backoff[retries[i]]
               /\ status[i] # "pending" => rest'[i] = rest[i]
    <3>1. wait[i] \in Nat /\ rest[i] \in Nat /\ retries[i] \in 0..MaxRetries
      BY <1>a DEF TypeOK
    <3>2. retries[i] > 0 => Backoff[retries[i]] \in Nat
      BY <3>1
    <3>3. /\ wait'[i] = IF wait[i] = 0 THEN 0 ELSE wait[i] - 1
          /\ rest'[i] = IF status[i] = "pending" /\ retries[i] > 0
                             /\ rest[i] < Backoff[retries[i]]
                          THEN rest[i] + 1 ELSE rest[i]
      BY <1>9 DEF Tick
    <3>4. status[i] = "pending" /\ retries[i] > 0 => rest[i] + wait[i] = Backoff[retries[i]]
      BY DEF BInv, Rested
    <3>5. CASE status[i] = "pending" /\ retries[i] > 0
      <4>1. wait[i] = 0 <=> ~(rest[i] < Backoff[retries[i]])
        BY <3>1, <3>2, <3>4, <3>5
      <4>2. CASE wait[i] = 0
        <5>1. wait'[i] = 0 /\ rest'[i] = rest[i]
          BY <3>3, <3>5, <4>1, <4>2
        <5> QED
          BY SMTT(30), <3>1, <3>2, <3>4, <3>5, <4>2, <5>1
      <4>3. CASE wait[i] # 0
        <5>1. wait'[i] = wait[i] - 1 /\ rest'[i] = rest[i] + 1
          BY <3>3, <3>5, <4>1, <4>3
        <5>2. wait[i] \in Nat /\ rest[i] \in Nat
          BY Zenon, <3>1
        <5>3. rest'[i] + wait'[i] = rest[i] + wait[i]
          BY SMTT(30), <5>1, <5>2
        <5> QED
          BY Zenon, <3>4, <3>5, <4>3, <5>1, <5>3
      <4> QED
        BY <4>2, <4>3
    <3> QED
      BY <3>3, <3>5
  <2>2. UNCHANGED <<status, retries, batch, pc, cur, sent>>
    BY <1>9 DEF Tick
  <2>3. pc = "claim" => cur \in Item
    BY <1>a DEF RetriesLeft
  <2>4. sent = "err" => cur \in Item /\ status[cur] = "delivering"
    BY <1>a DEF RetriesLeft, CurrentRow, Delivering
  <2> QED
    BY <2>1, <2>2, <2>3, <2>4 DEF BInv, Rested
<1>10. CASE \/ TryBeginCycle \/ EndCycle \/ Select \/ ReturnAfterStop
            \/ ListFails \/ LeaveBatch \/ (\E i \in Item : Skip(i))
            \/ ClaimFails \/ ServerAccepts \/ SendSucceeds \/ RecordFails
  BY <1>a, <1>10, RestedTable
  DEF RetriesLeft, TryBeginCycle, EndCycle, Select, ReturnAfterStop, ListFails, LeaveBatch, Skip,
      ClaimFails, ServerAccepts, SendSucceeds, RecordFails, NextItem
<1>11. CASE \/ \E c \in Caller : StopStep(c)
            \/ Cancel \/ Die \/ Restart \/ UNCHANGED vars
  BY <1>11, RestedTable
  DEF StopStep, CallStop, OnceReturns, MarkStopped, CloseShutdown, WaitCycle,
      Cancel, Die, FreshQueue, Restart, vars
<1> QED
  BY <1>1, <1>2, <1>3, <1>4, <1>5, <1>6, <1>7, <1>8, <1>9, <1>10, <1>11
  DEF Next, LoopStep, DeliverStep

\* A queued row waits as long as calculateBackoff says of its attempts, and that
\* delay doubles up to its maximum (outbox.go:197).
THEOREM DelaysKept == Spec => []DelayDoubles
<1>1. BInv => DelayDoubles
  <2> SUFFICES ASSUME BInv, NEW i \in Item, status[i] = "pending", retries[i] > 0
               PROVE  /\ wait[i] <= CalculateBackoff(retries[i], InitialBackoff, MaxBackoff)
                      /\ rest[i] = 0 =>
                           wait[i] = CalculateBackoff(retries[i], InitialBackoff, MaxBackoff)
    BY DelaysDouble DEF DelayDoubles
  <2>1. rest[i] \in Nat /\ wait[i] \in Nat /\ retries[i] \in 1..MaxRetries
    BY DEF BInv, RInv, IInv, TypeInv, TypeOK
  <2>2. rest[i] + wait[i] = Backoff[retries[i]]
    BY DEF BInv, Rested
  <2>3. Backoff[retries[i]] = CalculateBackoff(retries[i], InitialBackoff, MaxBackoff)
    BY <2>1 DEF Backoff
  <2> QED
    BY <2>1, <2>2, <2>3
<1> QED
  BY <1>1, BInvInit, BInvStep, PTL DEF Spec

\* A row is claimed again only when the backoff of its last failed attempt has
\* passed in full, whatever crashes and restarts come in between.
THEOREM BackoffPasses == Spec => BackoffHonoured
<1>1. BInv /\ [Next]_vars =>
        [\A i \in Item :
           status[i] # "delivering" /\ status'[i] = "delivering" /\ retries[i] > 0
             => rest[i] >= Backoff[retries[i]]]_vars
  <2> SUFFICES ASSUME BInv, Next, NEW i \in Item,
                      status[i] # "delivering", status'[i] = "delivering", retries[i] > 0
               PROVE  rest[i] >= Backoff[retries[i]]
    BY DEF vars
  <2> USE DEF table, work, queue, mail, faults, Goto
  <2>a. TypeOK /\ RetriesLeft /\ SnapshotFresh /\ Tally
    BY DEF BInv, RInv, IInv, TypeInv
  <2>1. Claim
    BY <2>a
    DEF TypeOK, Next, LoopStep, DeliverStep, Enqueue, TryBeginCycle, EndCycle, Select,
        ReturnAfterStop, List, ListFails, LeaveBatch, Skip, Take, ClaimFails,
        ServerAccepts, SendSucceeds, SendFails, RecordDelivered, RecordGivenUp,
        RecordRetry, RecordFails, UpdateRow, NextItem, StopStep, CallStop, OnceReturns,
        MarkStopped, CloseShutdown, WaitCycle, Tick, Cancel, Die, Restart
  <2>2. cur = i /\ pc = "claim"
    BY <2>a, <2>1 DEF Claim, UpdateRow, TypeOK
  <2>3. status[i] = "pending" /\ wait[i] = 0
    BY <2>a, <2>2 DEF RetriesLeft, SnapshotFresh, Tally, BInv, Rested
  <2>4. rest[i] + wait[i] = Backoff[retries[i]] /\ rest[i] \in Nat
    BY <2>a, <2>3 DEF BInv, Rested, TypeOK
  <2> QED
    BY <2>3, <2>4
<1> QED
  BY <1>1, BInvInit, BInvStep, PTL DEF Spec, BackoffHonoured

-----------------------------------------------------------------------------
(* Rows that no listing selects again. *)

\* A cancelled worker with a row in hand may still strand it, on the account of
\* the cancellation.
Owing == IF cancelled /\ Delivering THEN 1 ELSE 0

Few == IsFiniteSet(Stranded) /\ Cardinality(Stranded) + Owing <= interrupts + dbErrors

SInv == IInv /\ Few

LEMMA FewInit == Init => Few
<1> SUFFICES ASSUME Init PROVE Few
  OBVIOUS
<1>1. Stranded = {} /\ Owing = 0
  BY DEF Init, Stranded, Owing
<1> QED
  BY <1>1, FS_EmptySet DEF Few, Init

\* Nothing new is stranded, and nothing more may come to be.
LEMMA FewKept ==
  ASSUME SInv, TypeOK', Stranded' \subseteq Stranded, Owing' <= Owing,
         interrupts' >= interrupts, dbErrors' >= dbErrors
  PROVE  Few'
<1>1. IsFiniteSet(Stranded') /\ Cardinality(Stranded') <= Cardinality(Stranded)
  BY FS_Subset DEF SInv, Few
<1>2. Cardinality(Stranded) \in Nat /\ Cardinality(Stranded') \in Nat
  BY <1>1, FS_CardinalityType DEF SInv, Few
<1>3. Owing \in {0, 1} /\ Owing' \in {0, 1}
  BY DEF Owing
<1>4. interrupts \in Nat /\ dbErrors \in Nat /\ interrupts' \in Nat /\ dbErrors' \in Nat
  BY DEF SInv, IInv, TypeInv, TypeOK
<1>5. Cardinality(Stranded) + Owing <= interrupts + dbErrors
  BY DEF SInv, Few
<1>6. ASSUME NEW n \in Nat, NEW n1 \in Nat, NEW o \in {0, 1}, NEW o1 \in {0, 1},
             NEW b \in Nat, NEW b1 \in Nat, NEW d \in Nat, NEW d1 \in Nat,
             n + o <= b + d, n1 <= n, o1 <= o, b1 >= b, d1 >= d
      PROVE  n1 + o1 <= b1 + d1
  BY <1>6
<1>7. Cardinality(Stranded') + Owing' <= interrupts' + dbErrors'
  BY SMTT(30), <1>1, <1>2, <1>3, <1>4, <1>5, <1>6
<1> QED
  BY <1>1, <1>7 DEF Few

\* The row in hand is stranded, on an account of its own.
LEMMA FewMore ==
  ASSUME SInv, TypeOK', Stranded' \subseteq Stranded \cup {cur}, Owing' = 0,
         Owing + interrupts' + dbErrors' >= 1 + interrupts + dbErrors
  PROVE  Few'
<1>1. IsFiniteSet(Stranded \cup {cur})
      /\ Cardinality(Stranded \cup {cur}) <= Cardinality(Stranded) + 1
  <2>1. IsFiniteSet(Stranded) /\ Cardinality(Stranded) \in Nat
    BY FS_CardinalityType DEF SInv, Few
  <2>2. /\ IsFiniteSet(Stranded \cup {cur})
        /\ Cardinality(Stranded \cup {cur}) =
             IF cur \in Stranded THEN Cardinality(Stranded) ELSE Cardinality(Stranded) + 1
    BY <2>1, FS_AddElement
  <2> QED
    BY <2>1, <2>2
<1>2. IsFiniteSet(Stranded') /\ Cardinality(Stranded') <= Cardinality(Stranded \cup {cur})
  BY <1>1, FS_Subset
<1>3. /\ Cardinality(Stranded) \in Nat /\ Cardinality(Stranded') \in Nat
      /\ Cardinality(Stranded \cup {cur}) \in Nat
  BY <1>1, <1>2, FS_CardinalityType DEF SInv, Few
<1>4. Owing \in {0, 1}
  BY DEF Owing
<1>5. interrupts \in Nat /\ dbErrors \in Nat /\ interrupts' \in Nat /\ dbErrors' \in Nat
  BY DEF SInv, IInv, TypeInv, TypeOK
<1>6. Cardinality(Stranded') + Owing' <= interrupts' + dbErrors'
  <2>1. Cardinality(Stranded) + Owing <= interrupts + dbErrors
    BY DEF SInv, Few
  <2>2. ASSUME NEW n \in Nat, NEW n1 \in Nat, NEW m \in Nat, NEW o \in {0, 1},
               NEW b \in Nat, NEW b1 \in Nat, NEW d \in Nat, NEW d1 \in Nat,
               n + o <= b + d, n1 <= m, m <= n + 1, o + b1 + d1 >= 1 + b + d
        PROVE  n1 + 0 <= b1 + d1
    BY <2>2
  <2> QED
    BY <1>1, <1>2, <1>3, <1>4, <1>5, <2>1, <2>2
<1> QED
  BY <1>2, <1>6 DEF Few

LEMMA FewStep == SInv /\ [Next]_vars => Few'
<1> SUFFICES ASSUME SInv, [Next]_vars PROVE Few'
  OBVIOUS
<1>0. TypeOK'
  BY TypeInvStep DEF SInv, IInv, TypeInv
<1> USE DEF table, work, queue, mail, faults, Goto
<1>a. TypeOK /\ RetriesLeft /\ CurrentRow /\ SnapshotFresh
  BY DEF SInv, IInv, TypeInv
<1>b. interrupts \in Nat /\ dbErrors \in Nat
  BY <1>a DEF TypeOK
<1>1. ASSUME NEW i \in Item, Enqueue(i) PROVE Few'
  <2>1. Stranded' \subseteq Stranded /\ Owing' = Owing
    BY <1>a, <1>1 DEF Enqueue, Stranded, Owing, Delivering, TypeOK
  <2> QED
    BY <1>0, <1>1, <1>b, <2>1, FewKept DEF Enqueue, Owing
<1>2. CASE \/ TryBeginCycle \/ EndCycle \/ Select \/ ReturnAfterStop \/ List \/ LeaveBatch
           \/ (\E i \in Item : Skip(i) \/ Take(i))
           \/ ServerAccepts \/ SendSucceeds \/ SendFails
           \/ (\E c \in Caller : StopStep(c)) \/ Tick \/ Restart \/ UNCHANGED vars
  <2>1. /\ UNCHANGED <<status, interrupts, dbErrors, cancelled>>
        /\ Delivering' = Delivering /\ (Delivering => cur' = cur)
    BY <1>2
    DEF TryBeginCycle, EndCycle, Select, ReturnAfterStop, List, StatementSucceeds,
        LeaveBatch, Skip, Take, ServerAccepts, SendSucceeds, SendFails, StopStep, CallStop,
        OnceReturns, MarkStopped, CloseShutdown, WaitCycle, Tick, Restart, vars, Delivering
  <2>2. Stranded' \subseteq Stranded /\ Owing' = Owing
    BY <2>1 DEF Stranded, Owing
  <2> QED
    BY <1>0, <1>b, <2>1, <2>2, FewKept DEF Owing
<1>3. CASE ListFails \/ ClaimFails
  <2>1. Stranded' \subseteq Stranded /\ Owing' <= Owing
    BY <1>3 DEF ListFails, ClaimFails, Stranded, Owing, Delivering
  <2>2. interrupts' >= interrupts /\ dbErrors' >= dbErrors
    BY <1>3, <1>b DEF ListFails, ClaimFails, StatementFails
  <2> QED
    BY <1>0, <2>1, <2>2, FewKept
<1>4. CASE Claim
  <2>1. cur \in Item /\ ~cancelled /\ UNCHANGED <<cur, cancelled, interrupts, dbErrors>>
    BY <1>a, <1>4 DEF Claim, StatementSucceeds, RetriesLeft
  <2>2. Stranded' \subseteq Stranded /\ Owing' <= Owing
    BY <1>a, <1>4, <2>1 DEF Claim, UpdateRow, TypeOK, Stranded, Owing, Delivering
  <2> QED
    BY <1>0, <1>b, <2>1, <2>2, FewKept
<1>5. CASE RecordDelivered \/ RecordGivenUp \/ RecordRetry
  <2>1. /\ cur \in Item /\ ~cancelled /\ UNCHANGED <<cancelled, interrupts, dbErrors>>
        /\ \E s \in {"delivered", "failed", "pending"} : status' = [status EXCEPT ![cur] = s]
        /\ pc = "record" /\ pc' = "next"
    BY <1>a, <1>5 DEF RecordDelivered, RecordGivenUp, RecordRetry, UpdateRow, NextItem,
                      StatementSucceeds, RetriesLeft
  <2>2. Stranded' \subseteq Stranded /\ Owing' <= Owing
    BY <1>a, <2>1 DEF TypeOK, Stranded, Owing, Delivering
  <2> QED
    BY <1>0, <1>b, <2>1, <2>2, FewKept
<1>6. CASE RecordFails
  <2>1. Stranded' \subseteq Stranded \cup {cur} /\ Owing' = 0
        /\ Owing = IF cancelled THEN 1 ELSE 0
    BY <1>6 DEF RecordFails, NextItem, Stranded, Owing, Delivering
  <2>2. Owing + interrupts' + dbErrors' >= 1 + interrupts + dbErrors
    BY <1>6, <1>b, <2>1 DEF RecordFails, NextItem, StatementFails
  <2> QED
    BY <1>0, <2>1, <2>2, FewMore
<1>7. CASE Cancel
  <2>1. Stranded' = Stranded /\ Owing = 0 /\ Owing' \in {0, 1}
        /\ interrupts' = interrupts + 1 /\ dbErrors' = dbErrors
    BY <1>7 DEF Cancel, Stranded, Owing, Delivering
  <2>2. Cardinality(Stranded) \in Nat
    BY FS_CardinalityType DEF SInv, Few
  <2> QED
    BY <1>b, <2>1, <2>2 DEF SInv, Few
<1>8. CASE Die
  <2>1. Owing' = 0 /\ dbErrors' = dbErrors /\ status' = status /\ pc' = "down"
        /\ interrupts' = IF cancelled THEN interrupts ELSE interrupts + 1
    BY <1>8 DEF Die, Owing
  <2>2. CASE Delivering
    <3>1. Stranded' \subseteq Stranded \cup {cur}
      BY <2>1 DEF Stranded, Delivering
    <3>2. Owing + interrupts' + dbErrors' >= 1 + interrupts + dbErrors
      BY <1>b, <2>1, <2>2 DEF Owing
    <3> QED
      BY <1>0, <2>1, <3>1, <3>2, FewMore
  <2>3. CASE ~Delivering
    <3>1. Stranded' \subseteq Stranded
      BY <2>1, <2>3 DEF Stranded
    <3>2. Owing' <= Owing /\ interrupts' >= interrupts /\ dbErrors' >= dbErrors
      BY <1>b, <2>1 DEF Owing
    <3> QED
      BY <1>0, <3>1, <3>2, FewKept
  <2> QED
    BY <2>2, <2>3
<1> QED
  BY <1>1, <1>2, <1>3, <1>4, <1>5, <1>6, <1>7, <1>8 DEF Next, LoopStep, DeliverStep

\* A process that is cancelled or killed strands one row at most, and otherwise
\* only a failed statement does: deliveries come one after the other, and a
\* cancelled context lets none begin.
THEOREM FewStranded == Spec => []StrandedBounded
<1>1. SInv => StrandedBounded
  <2> SUFFICES ASSUME SInv PROVE StrandedBounded
    OBVIOUS
  <2>1. Owing \in {0, 1} /\ Cardinality(Stranded) \in Nat
    BY FS_CardinalityType DEF Owing, SInv, Few
  <2>2. interrupts \in Nat /\ dbErrors \in Nat
    BY DEF SInv, IInv, TypeInv, TypeOK
  <2> QED
    BY <2>1, <2>2 DEF SInv, Few, StrandedBounded
<1>2. Init => SInv
  BY IInvInit, FewInit DEF SInv
<1>3. SInv /\ [Next]_vars => SInv'
  BY IInvStep, FewStep DEF SInv
<1> QED
  BY <1>1, <1>2, <1>3, PTL DEF Spec

=============================================================================
