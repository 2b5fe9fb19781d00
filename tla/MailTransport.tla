---------------------------- MODULE MailTransport ----------------------------
(***************************************************************************)
(* What the outbox worker relies on when it calls Sender.Send: a call that *)
(* returns nil has put the message into the mail server's hands exactly    *)
(* once, for all its recipients and nobody else; a call that returns an    *)
(* error has done so at most once.  The second is why module Outbox counts *)
(* ambiguous sends.                                                        *)
(***************************************************************************)
EXTENDS Integers

CONSTANTS Caller, Recipients

VARIABLES
  call,     \* call[c]: "none", "sending", or how the last call ended
  accepted, \* accepted[c]: times the server accepted the message of the call
  reached   \* reached[c]: for whom

vars == <<call, accepted, reached>>

Init ==
  /\ call = [c \in Caller |-> "none"]
  /\ accepted = [c \in Caller |-> 0]
  /\ reached = [c \in Caller |-> {}]

Start(c) ==
  /\ call[c] # "sending"
  /\ call' = [call EXCEPT ![c] = "sending"]
  /\ accepted' = [accepted EXCEPT ![c] = 0]
  /\ reached' = [reached EXCEPT ![c] = {}]

\* A call that is refused before anything is sent.
Refuse(c) ==
  /\ call[c] # "sending"
  /\ call' = [call EXCEPT ![c] = "err"]
  /\ accepted' = [accepted EXCEPT ![c] = 0]
  /\ reached' = [reached EXCEPT ![c] = {}]

Accept(c) ==
  /\ call[c] = "sending"
  /\ accepted[c] = 0
  /\ accepted' = [accepted EXCEPT ![c] = 1]
  /\ reached' = [reached EXCEPT ![c] = {c} \X Recipients[c]]
  /\ UNCHANGED call

Return(c, outcome) ==
  /\ call[c] = "sending"
  /\ outcome = "ok" => accepted[c] = 1
  /\ call' = [call EXCEPT ![c] = outcome]
  /\ UNCHANGED <<accepted, reached>>

Next ==
  \E c \in Caller :
    \/ Start(c) \/ Refuse(c) \/ Accept(c)
    \/ \E outcome \in {"ok", "err"} : Return(c, outcome)

Spec == Init /\ [][Next]_vars

=============================================================================
