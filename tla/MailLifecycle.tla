---------------------------- MODULE MailLifecycle ----------------------------
(***************************************************************************)
(* What the outbox promises of each message, whatever goroutines, crashes  *)
(* and databases do: an attempt is recorded before it is made, reaches the *)
(* mail server at most once, and ends in delivered, in another attempt or, *)
(* after MaxRetries attempts, in failed.  Nothing leaves delivered and     *)
(* failed, and nothing but the attempt's own outcome leaves delivering: an *)
(* attempt whose outcome is lost is never made again.                      *)
(***************************************************************************)
EXTENDS Integers

CONSTANTS Item, MaxRetries

VARIABLES
  status,   \* the row's status, "absent" before it is queued
  tries,    \* attempts that ended without success
  accepted  \* times the mail server accepted the message

vars == <<status, tries, accepted>>

Init ==
  /\ status = [i \in Item |-> "absent"]
  /\ tries = [i \in Item |-> 0]
  /\ accepted = [i \in Item |-> 0]

Become(i, from, to) == status[i] = from /\ status' = [status EXCEPT ![i] = to]

Queue(i) ==
  /\ Become(i, "absent", "pending")
  /\ UNCHANGED <<tries, accepted>>

Attempt(i) ==
  /\ tries[i] < MaxRetries
  /\ Become(i, "pending", "delivering")
  /\ UNCHANGED <<tries, accepted>>

\* At most one acceptance for each attempt, the current one included.
Accept(i) ==
  /\ status[i] = "delivering"
  /\ accepted[i] <= tries[i]
  /\ accepted' = [accepted EXCEPT ![i] = @ + 1]
  /\ UNCHANGED <<status, tries>>

Succeed(i) ==
  /\ accepted[i] > 0
  /\ Become(i, "delivering", "delivered")
  /\ UNCHANGED <<tries, accepted>>

Fail(i) ==
  /\ tries' = [tries EXCEPT ![i] = @ + 1]
  /\ Become(i, "delivering", IF tries[i] + 1 < MaxRetries THEN "pending" ELSE "failed")
  /\ UNCHANGED accepted

Next == \E i \in Item : Queue(i) \/ Attempt(i) \/ Accept(i) \/ Succeed(i) \/ Fail(i)

Spec == Init /\ [][Next]_vars

=============================================================================
