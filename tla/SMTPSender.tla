------------------------------ MODULE SMTPSender ------------------------------
(***************************************************************************)
(* SMTPSender of internal/notifier/notifier.go: goroutines that call Send  *)
(* share one authenticated connection, which is kept between calls, tried  *)
(* with NOOP before it is used again and thrown away after any error.      *)
(*                                                                         *)
(* The other end is a mail server that may drop a connection, refuse any   *)
(* command, and accept a message without its answer being heard.  A server *)
(* that stays silent is the same as one that refuses: every operation runs *)
(* under opTimeout, so it fails in the end.                                *)
(***************************************************************************)
EXTENDS Integers, FiniteSets

CONSTANTS
  Caller,      \* goroutines that call Send
  Rcpt,        \* mail addresses
  Recipients,  \* Recipients[c]: the recipients of the messages c sends
  Nobody,      \* mu is not held
  NoConn,      \* no connection
  MaxDials,    \* bound: connections the network lets through
  MaxCalls     \* bound: calls of Send

ASSUME RecipientsAssumption == Recipients \in [Caller -> SUBSET Rcpt]
ASSUME NamesAssumption      == Nobody \notin Caller /\ NoConn \notin 1..MaxDials
ASSUME BoundsAssumption     == MaxDials \in Nat /\ MaxCalls \in Nat

Conn == 1..MaxDials

VARIABLES
  \* The SMTPSender.
  mu,        \* who holds the mutex
  cached,    \* client, and conn, which is always set and cleared with it
  \* The callers.
  pc,
  client,    \* client[c]: the local variable of Send, or of connect
  todo,      \* todo[c]: recipients still to be named
  cancelled, \* ctx.Err() # nil
  \* The connections.
  session,   \* session[k]: where the server stands on connection k
  envelope,  \* envelope[k]: who named whom in the transaction on k
  open,      \* connections this end has not closed
  broken,    \* connections on which this end has seen an error
  dials, calls,
  \* What callers and the server have come to.
  result,    \* result[c]: how c's last call ended
  accepted,  \* accepted[c]: messages of c's last call that the server accepted
  reached    \* reached[c]: the recipients of the one accepted last

sender  == <<mu, cached>>
callers == <<pc, client, todo>>
network == <<session, envelope, open, broken>>
outcome == <<result, accepted, reached>>
vars    == <<sender, callers, cancelled, network, dials, calls, outcome>>

PC == {"idle", "lock", "check", "noop", "dial", "greet", "mail", "rcpt",
       "write", "close", "reply"}
\* Within an SMTP transaction.
InSession == {"noop", "dial", "greet", "mail", "rcpt", "write", "close", "reply"}

TypeOK ==
  /\ mu \in Caller \cup {Nobody}
  /\ cached \in Conn \cup {NoConn}
  /\ pc \in [Caller -> PC]
  /\ client \in [Caller -> Conn \cup {NoConn}]
  /\ todo \in [Caller -> SUBSET Rcpt]
  /\ cancelled \in BOOLEAN
  /\ session \in [Conn -> {"unused", "greeting", "ready", "mail", "data", "gone"}]
  /\ envelope \in [Conn -> SUBSET (Caller \X Rcpt)]
  /\ open \in SUBSET Conn /\ broken \in SUBSET Conn
  /\ dials \in 0..MaxDials /\ calls \in 0..MaxCalls
  /\ result \in [Caller -> {"none", "ok", "err"}]
  /\ accepted \in [Caller -> 0..1]
  /\ reached \in [Caller -> SUBSET (Caller \X Rcpt)]

Init ==
  /\ mu = Nobody
  /\ cached = NoConn
  /\ pc = [c \in Caller |-> "idle"]
  /\ client = [c \in Caller |-> NoConn]
  /\ todo = [c \in Caller |-> {}]
  /\ cancelled = FALSE
  /\ session = [k \in Conn |-> "unused"]
  /\ envelope = [k \in Conn |-> {}]
  /\ open = {}
  /\ broken = {}
  /\ dials = 0
  /\ calls = 0
  /\ result = [c \in Caller |-> "none"]
  /\ accepted = [c \in Caller |-> 0]
  /\ reached = [c \in Caller |-> {}]

Goto(c, from, to) == pc[c] = from /\ pc' = [pc EXCEPT ![c] = to]

\* Send returns, and its deferred Unlock runs.
Return(c, how) ==
  /\ pc' = [pc EXCEPT ![c] = "idle"]
  /\ client' = [client EXCEPT ![c] = NoConn]
  /\ todo' = [todo EXCEPT ![c] = {}]
  /\ mu' = Nobody
  /\ result' = [result EXCEPT ![c] = how]
  /\ UNCHANGED <<accepted, reached>>

-----------------------------------------------------------------------------
(* Send, up to the connection. *)

\* The call; without recipients, and with a cancelled context, it returns at
\* once.
Call(c) ==
  /\ pc[c] = "idle"
  /\ calls < MaxCalls
  /\ calls' = calls + 1
  /\ accepted' = [accepted EXCEPT ![c] = 0]
  /\ reached' = [reached EXCEPT ![c] = {}]
  /\ IF Recipients[c] = {} \/ cancelled
       THEN result' = [result EXCEPT ![c] = "err"] /\ UNCHANGED <<pc, todo>>
       ELSE /\ pc' = [pc EXCEPT ![c] = "lock"]
            /\ todo' = [todo EXCEPT ![c] = Recipients[c]]
            /\ UNCHANGED result
  /\ UNCHANGED <<sender, client, cancelled, network, dials>>

\* Variant: no mutex.
LockUnchecked(c) ==
  /\ Goto(c, "lock", "check")
  /\ mu' = c
  /\ UNCHANGED <<cached, client, todo, cancelled, network, dials, calls, outcome>>

Lock(c) ==
  /\ mu = Nobody
  /\ Goto(c, "lock", "check")
  /\ mu' = c
  /\ UNCHANGED <<cached, client, todo, cancelled, network, dials, calls, outcome>>

\* Variant: the mutex is kept when the context is cancelled.
CheckKeepingLock(c) ==
  /\ pc[c] = "check"
  /\ IF cancelled
       THEN /\ pc' = [pc EXCEPT ![c] = "idle"]
            /\ result' = [result EXCEPT ![c] = "err"]
            /\ UNCHANGED <<mu, client, todo, accepted, reached>>
       ELSE /\ pc' = [pc EXCEPT ![c] = IF cached = NoConn THEN "dial" ELSE "noop"]
            /\ client' = [client EXCEPT ![c] = cached]
            /\ UNCHANGED <<mu, todo, outcome>>
  /\ UNCHANGED <<cached, cancelled, network, dials, calls>>

\* The context is looked at again under the mutex; then getClient.
Check(c) ==
  /\ pc[c] = "check"
  /\ IF cancelled
       THEN Return(c, "err")
       ELSE /\ pc' = [pc EXCEPT ![c] = IF cached = NoConn THEN "dial" ELSE "noop"]
            /\ client' = [client EXCEPT ![c] = cached]
            /\ UNCHANGED <<mu, todo, outcome>>
  /\ UNCHANGED <<cached, cancelled, network, dials, calls>>

\* closeCached
CloseCached(c) ==
  /\ cached' = NoConn
  /\ open' = open \ {cached}
  /\ broken' = broken \cup {client[c]}

NoopSucceeds(c) ==
  /\ Goto(c, "noop", "mail")
  /\ session[client[c]] # "gone"
  /\ UNCHANGED <<sender, client, todo, cancelled, network, dials, calls, outcome>>

NoopFails(c) ==
  /\ Goto(c, "noop", "dial")
  /\ CloseCached(c)
  /\ client' = [client EXCEPT ![c] = NoConn]
  /\ UNCHANGED <<mu, todo, cancelled, session, envelope, dials, calls, outcome>>

-----------------------------------------------------------------------------
(* connect. *)

\* A connection, which a cancelled context does not let through.
Dial(c) ==
  /\ Goto(c, "dial", "greet")
  /\ ~cancelled
  /\ dials < MaxDials
  /\ dials' = dials + 1
  /\ client' = [client EXCEPT ![c] = dials + 1]
  /\ session' = [session EXCEPT ![dials + 1] = "greeting"]
  /\ open' = open \cup {dials + 1}
  /\ UNCHANGED <<sender, todo, cancelled, envelope, broken, calls, outcome>>

DialFails(c) ==
  /\ pc[c] = "dial"
  /\ Return(c, "err")
  /\ UNCHANGED <<cached, cancelled, network, dials, calls>>

\* The greeting, STARTTLS and the login.
Handshake(c) ==
  /\ Goto(c, "greet", "mail")
  /\ session[client[c]] = "greeting"
  /\ session' = [session EXCEPT ![client[c]] = "ready"]
  /\ cached' = client[c]
  /\ UNCHANGED <<mu, client, todo, cancelled, envelope, open, broken, dials, calls,
                 outcome>>

\* Variant: the connection is left open.
HandshakeFailsOpen(c) ==
  /\ pc[c] = "greet"
  /\ broken' = broken \cup {client[c]}
  /\ Return(c, "err")
  /\ UNCHANGED <<cached, cancelled, session, envelope, open, dials, calls>>

\* Any of them fails: the connection is closed and was never cached.
HandshakeFails(c) ==
  /\ pc[c] = "greet"
  /\ broken' = broken \cup {client[c]}
  /\ open' = open \ {client[c]}
  /\ Return(c, "err")
  /\ UNCHANGED <<cached, cancelled, session, envelope, dials, calls>>

-----------------------------------------------------------------------------
(* Send, on the connection. *)

\* A command the server takes in state s1 and that brings it to s2.
Command(c, s1, s2) ==
  /\ session[client[c]] = s1
  /\ session' = [session EXCEPT ![client[c]] = s2]
  /\ UNCHANGED <<sender, client, cancelled, open, broken, dials, calls>>

Mail(c) ==
  /\ Goto(c, "mail", "rcpt")
  /\ Command(c, "ready", "mail")
  /\ envelope' = [envelope EXCEPT ![client[c]] = {}]
  /\ UNCHANGED <<todo, outcome>>

AddRcpt(c, r) ==
  /\ pc[c] = "rcpt"
  /\ r \in todo[c]
  /\ Command(c, "mail", "mail")
  /\ envelope' = [envelope EXCEPT ![client[c]] = @ \cup {<<c, r>>}]
  /\ todo' = [todo EXCEPT ![c] = @ \ {r}]
  /\ UNCHANGED <<pc, outcome>>

Data(c) ==
  /\ todo[c] = {}
  /\ Goto(c, "rcpt", "write")
  /\ Command(c, "mail", "data")
  /\ UNCHANGED <<todo, envelope, outcome>>

Write(c) ==
  /\ Goto(c, "write", "close")
  /\ Command(c, "data", "data")
  /\ UNCHANGED <<todo, envelope, outcome>>

\* The server accepts the message that Close has ended.
ServerAccepts(c) ==
  /\ Goto(c, "close", "reply")
  /\ Command(c, "data", "ready")
  /\ accepted' = [accepted EXCEPT ![c] = @ + 1]
  /\ reached' = [reached EXCEPT ![c] = envelope[client[c]]]
  /\ UNCHANGED <<todo, envelope, result>>

\* Close returns nil: the answer may come in although the server drops the
\* connection after it.
Succeed(c) ==
  /\ pc[c] = "reply"
  /\ Return(c, "ok")
  /\ UNCHANGED <<cached, cancelled, network, dials, calls>>

Failing == {"mail", "rcpt", "write", "close", "reply"}

\* Variants: an error leaves the connection cached; a refused recipient is
\* passed over; a broken transaction is tried again on a new connection.
FailKeeping(c) ==
  /\ pc[c] \in Failing
  /\ broken' = broken \cup {client[c]}
  /\ Return(c, "err")
  /\ UNCHANGED <<cached, cancelled, session, envelope, open, dials, calls>>
FailPassing(c) ==
  \/ /\ pc[c] = "rcpt"
     /\ \E r \in todo[c] : todo' = [todo EXCEPT ![c] = @ \ {r}]
     /\ UNCHANGED <<sender, pc, client, cancelled, network, dials, calls, outcome>>
  \/ /\ pc[c] \in Failing \ {"rcpt"}
     /\ CloseCached(c)
     /\ Return(c, "err")
     /\ UNCHANGED <<cancelled, session, envelope, dials, calls>>
FailRetrying(c) ==
  /\ pc[c] \in Failing
  /\ CloseCached(c)
  /\ pc' = [pc EXCEPT ![c] = "dial"]
  /\ client' = [client EXCEPT ![c] = NoConn]
  /\ todo' = [todo EXCEPT ![c] = Recipients[c]]
  /\ UNCHANGED <<mu, cancelled, session, envelope, dials, calls, outcome>>

\* Any command may be refused, time out, or find the connection gone, the
\* answer to an accepted message included: discardAndFail.
Fail(c) ==
  /\ pc[c] \in Failing
  /\ CloseCached(c)
  /\ Return(c, "err")
  /\ UNCHANGED <<cancelled, session, envelope, dials, calls>>

-----------------------------------------------------------------------------
(* Around the sender. *)

ServerDrops(k) ==
  /\ session[k] \in {"greeting", "ready", "mail", "data"}
  /\ session' = [session EXCEPT ![k] = "gone"]
  /\ UNCHANGED <<sender, callers, cancelled, envelope, open, broken, dials, calls,
                 outcome>>

Cancel ==
  /\ ~cancelled
  /\ cancelled' = TRUE
  /\ UNCHANGED <<sender, callers, network, dials, calls, outcome>>

-----------------------------------------------------------------------------
SendStep(c) ==
  \/ Check(c) \/ NoopSucceeds(c) \/ NoopFails(c)
  \/ Dial(c) \/ DialFails(c) \/ Handshake(c) \/ HandshakeFails(c)
  \/ Mail(c) \/ (\E r \in Rcpt : AddRcpt(c, r)) \/ Data(c) \/ Write(c)
  \/ ServerAccepts(c) \/ Succeed(c) \/ Fail(c)

Next ==
  \/ \E c \in Caller : Call(c) \/ Lock(c) \/ SendStep(c)
  \/ \E k \in Conn : ServerDrops(k)
  \/ Cancel

Spec == Init /\ [][Next]_vars

\* Every operation on a connection ends, by opTimeout if not by an answer, and
\* a Go mutex starves no goroutine that waits for it.
Fairness == \A c \in Caller : WF_vars(SendStep(c)) /\ SF_vars(Lock(c))

FairSpec == Spec /\ Fairness

-----------------------------------------------------------------------------
(* What the sender promises. *)

\* Two calls never talk to the server at the same time: their commands would
\* mix into one transaction (the comment in Send).
SessionsSerialised ==
  \A c, d \in Caller : c # d => ~(pc[c] \in InSession /\ pc[d] \in InSession)

\* Nothing is ever sent again on a connection that has shown an error (the
\* comment on closeCached), neither by the call that saw it nor by a later one.
BrokenNeverUsed ==
  \A c \in Caller : pc[c] \in InSession => client[c] \notin broken

\* Every open connection is the cached one or the one being set up, so there
\* is never more than one.
NoConnectionLeak ==
  open \subseteq {cached} \cup {client[c] : c \in {d \in Caller : pc[d] = "greet"}}

\* Calls implement what the outbox relies on: a mail that is accepted reaches all
\* recipients of its call and nobody else, refusals of single ones included, and
\* a call that succeeds had one accepted.
Transport ==
  INSTANCE MailTransport
    WITH call <- [c \in Caller |-> IF pc[c] = "idle" THEN result[c] ELSE "sending"]
ImplementsTransport == Transport!Spec

\* Every call returns, though calls of others and a silent server delay it.
SendReturns == \A c \in Caller : pc[c] # "idle" ~> pc[c] = "idle"

=============================================================================
