---------------------------- MODULE SMTPSenderProofs ----------------------------
(***************************************************************************)
(* Theorems about SMTPSender, for any callers and recipients and any bound *)
(* on connections and calls, and the proof that it implements              *)
(* MailTransport.                                                          *)
(*                                                                         *)
(* The inductive invariant comes in layers: who holds the mutex, which     *)
(* connection its holder talks on, and, for the refinement, what the       *)
(* server has been told on it.                                             *)
(***************************************************************************)
EXTENDS SMTPSender, TLAPS

USE RecipientsAssumption, NamesAssumption, BoundsAssumption

-----------------------------------------------------------------------------
(* The inductive invariant. *)

\* Whoever is past Lock holds the mutex.
Mutex == \A c \in Caller : pc[c] \notin {"idle", "lock"} <=> mu = c

OnCached == {"noop", "mail", "rcpt", "write", "close", "reply"}

\* The connections there are: all dialled, and none open that nobody knows.
Dialled == \A k \in open \cup broken : k <= dials
Known   == \A k \in open : k = cached \/ \E c \in Caller : pc[c] = "greet" /\ client[c] = k

\* The cached connection and the one each caller talks on.
CachedGood == cached # NoConn => cached \in open \ broken
OwnConnection ==
  \A c \in Caller :
    /\ pc[c] \in {"idle", "lock", "check", "dial"} => client[c] = NoConn
    /\ pc[c] \in OnCached => client[c] = cached /\ cached # NoConn
    /\ pc[c] \in {"dial", "greet"} => cached = NoConn
    /\ pc[c] = "greet" => client[c] \in open \ broken

Connections == Dialled /\ Known /\ CachedGood /\ OwnConnection

\* A call counts its message as accepted between the server's word and its own.
Counted == \A c \in Caller : pc[c] # "idle" => accepted[c] = IF pc[c] = "reply" THEN 1 ELSE 0

Inv == TypeOK /\ Mutex /\ Connections /\ Counted

-----------------------------------------------------------------------------
(* It holds at the start and is kept. *)

LEMMA InvInit == Init => Inv
<1> SUFFICES ASSUME Init PROVE Inv
  OBVIOUS
<1>1. pc \in [Caller -> PC] /\ session \in
        [Conn -> {"unused", "greeting", "ready", "mail", "data", "gone"}]
  BY DEF Init, PC
<1>2. TypeOK
  <2>1. client \in [Caller -> Conn \cup {NoConn}] /\ todo \in [Caller -> SUBSET Rcpt]
    BY DEF Init
  <2>2. envelope \in [Conn -> SUBSET (Caller \X Rcpt)]
    BY DEF Init
  <2>3. reached \in [Caller -> SUBSET (Caller \X Rcpt)]
    BY DEF Init
  <2>4. accepted \in [Caller -> 0..1] /\ result \in [Caller -> {"none", "ok", "err"}]
    BY DEF Init
  <2>5. dials \in 0..MaxDials /\ calls \in 0..MaxCalls
    BY DEF Init
  <2> QED
    BY <1>1, <2>1, <2>2, <2>3, <2>4, <2>5 DEF Init, TypeOK
<1>3. Mutex /\ Connections /\ Counted
  BY DEF Init, Mutex, Connections, Dialled, Known, CachedGood, OwnConnection, OnCached, Counted
<1> QED
  BY <1>2, <1>3 DEF Inv

\* The others of a caller that holds the mutex, and the connections there are.
LEMMA Alone ==
  ASSUME Inv, NEW c \in Caller, pc[c] \notin {"idle", "lock"}
  PROVE  /\ \A d \in Caller : d # c => pc[d] \in {"idle", "lock"} /\ client[d] = NoConn
         /\ mu = c
         /\ pc[c] = "greet" => open \subseteq {client[c]}
         /\ pc[c] # "greet" => open \subseteq {cached}
<1>1. \A d \in Caller : d # c => pc[d] \in {"idle", "lock"}
  BY DEF Inv, Mutex
<1>2. \A d \in Caller : d # c => client[d] = NoConn
  BY <1>1 DEF Inv, Connections, OwnConnection
<1>3. \A k \in open : k = cached \/ (pc[c] = "greet" /\ client[c] = k)
  BY <1>1 DEF Inv, Connections, Known
<1>4. pc[c] = "greet" => cached = NoConn /\ NoConn \notin open
  BY DEF Inv, Connections, OwnConnection, TypeOK, Conn
<1> QED
  BY <1>1, <1>2, <1>3, <1>4 DEF Inv, Mutex

\* The steps that leave mutex and connections alone.
LEMMA InvSameConnection ==
  ASSUME Inv, TypeOK', NEW c \in Caller, NEW from \in PC, NEW to \in PC,
         Goto(c, from, to),
         {from, to} \subseteq OnCached \/ {from, to} \subseteq {"idle", "lock"},
         UNCHANGED <<mu, cached, client, open, broken, dials>>
  PROVE  Mutex' /\ Connections'
<1>1. \A d \in Caller : pc'[d] = IF d = c THEN to ELSE pc[d]
  BY DEF Goto, Inv, TypeOK
<1>2. pc[c] = from
  BY DEF Goto
<1>3. Mutex'
  BY <1>1, <1>2 DEF Inv, Mutex, OnCached
<1>4. Dialled' /\ CachedGood'
  BY DEF Inv, Connections, Dialled, CachedGood
<1>5. Known'
  BY <1>1, <1>2 DEF Inv, Connections, Known, OnCached
<1>6. OwnConnection'
  BY <1>1, <1>2 DEF Inv, Connections, OwnConnection, OnCached
<1> QED
  BY <1>3, <1>4, <1>5, <1>6 DEF Connections

\* The steps of the caller that holds the mutex: it moves on, to a place where
\* its connection is as the invariant wants it.
LEMMA InvHolder ==
  ASSUME Inv, TypeOK', NEW c \in Caller, pc[c] \notin {"idle", "lock"},
         NEW to \in PC \ {"idle", "lock"}, NEW k \in Conn \cup {NoConn},
         pc' = [pc EXCEPT ![c] = to], client' = [client EXCEPT ![c] = k], UNCHANGED mu,
         Dialled', CachedGood',
         \A h \in open' : h = cached' \/ (to = "greet" /\ h = k),
         to \in {"check", "dial"} => k = NoConn,
         to \in OnCached => k = cached' /\ k # NoConn,
         to \in {"dial", "greet"} => cached' = NoConn,
         to = "greet" => k \in open' \ broken'
  PROVE  Mutex' /\ Connections'
<1>1. \A d \in Caller : /\ pc'[d] = IF d = c THEN to ELSE pc[d]
                        /\ client'[d] = IF d = c THEN k ELSE client[d]
  BY DEF Inv, TypeOK
<1>2. Mutex'
  BY <1>1 DEF Inv, Mutex
<1>3. Known'
  BY <1>1 DEF Known
<1>4. OwnConnection'
  BY <1>1, Alone DEF OwnConnection, OnCached
<1> QED
  BY <1>2, <1>3, <1>4 DEF Connections

\* A call that returns leaves at most the cached connection behind, and the
\* mutex free.
LEMMA InvReturn ==
  ASSUME Inv, NEW c \in Caller, pc[c] \notin {"idle", "lock"},
         NEW how \in {"ok", "err"}, Return(c, how),
         Dialled', CachedGood', open' \subseteq {cached'},
         cached' \in Conn \cup {NoConn}, open' \subseteq Conn, broken' \subseteq Conn,
         UNCHANGED <<cancelled, session, envelope, dials, calls>>
  PROVE  Inv'
<1>1. TypeOK'
  BY DEF Inv, TypeOK, PC, Return
<1>2. \A d \in Caller : /\ pc'[d] = IF d = c THEN "idle" ELSE pc[d]
                        /\ client'[d] = IF d = c THEN NoConn ELSE client[d]
  BY DEF Inv, TypeOK, Return
<1>3. Mutex'
  BY <1>2, Alone DEF Return, Mutex
<1>4. Known'
  BY DEF Known
<1>5. OwnConnection'
  BY <1>2, Alone DEF OwnConnection, OnCached
<1>6. Counted'
  BY <1>2 DEF Inv, Counted, Return
<1> QED
  BY <1>1, <1>3, <1>4, <1>5, <1>6 DEF Inv, Connections

-----------------------------------------------------------------------------
(* The steps of a call. *)

LEMMA InvCall ==
  ASSUME Inv, NEW c \in Caller, Call(c)
  PROVE  Inv'
<1> USE DEF sender, network
<1>1. TypeOK'
  BY DEF Call, Inv, TypeOK, PC
<1>2. Counted'
  BY DEF Call, Inv, TypeOK, Counted
<1>3. CASE Recipients[c] = {} \/ cancelled
  BY <1>1, <1>2, <1>3
  DEF Call, Inv, Mutex, Connections, Dialled, Known, CachedGood, OwnConnection
<1>4. CASE ~(Recipients[c] = {} \/ cancelled)
  BY <1>1, <1>2, <1>4, InvSameConnection DEF Call, Goto, PC, Inv
<1> QED
  BY <1>3, <1>4

LEMMA InvLock ==
  ASSUME Inv, NEW c \in Caller, Lock(c)
  PROVE  Inv'
<1> USE DEF network, outcome
<1>1. TypeOK'
  BY DEF Lock, Goto, Inv, TypeOK, PC
<1>2. \A d \in Caller : pc'[d] = IF d = c THEN "check" ELSE pc[d]
  BY DEF Lock, Goto, Inv, TypeOK
<1>3. Mutex'
  BY <1>2 DEF Lock, Goto, Inv, Mutex
<1>4. Connections'
  BY <1>2
  DEF Lock, Goto, Inv, Connections, Dialled, Known, CachedGood, OwnConnection, OnCached
<1>5. Counted'
  BY <1>2 DEF Lock, Goto, Inv, Counted
<1> QED
  BY <1>1, <1>3, <1>4, <1>5 DEF Inv

LEMMA InvConnect ==
  ASSUME Inv, NEW c \in Caller,
         \/ Check(c) \/ NoopSucceeds(c) \/ NoopFails(c)
         \/ Dial(c) \/ DialFails(c) \/ Handshake(c) \/ HandshakeFails(c)
  PROVE  Inv'
<1> USE DEF sender, callers, network, outcome
<1>0. TypeOK /\ Mutex /\ Dialled /\ Known /\ CachedGood /\ OwnConnection /\ Counted
  BY DEF Inv, Connections
<1>a. pc[c] \in {"check", "noop", "dial", "greet"}
  BY DEF Check, NoopSucceeds, NoopFails, Dial, DialFails, Handshake, HandshakeFails, Goto
<1>b. UNCHANGED <<accepted>>
  BY DEF Check, NoopSucceeds, NoopFails, Dial, DialFails, Handshake, HandshakeFails, Return
<1>c. ASSUME pc' = [pc EXCEPT ![c] = "noop"] \/ pc' = [pc EXCEPT ![c] = "dial"]
             \/ pc' = [pc EXCEPT ![c] = "greet"] \/ pc' = [pc EXCEPT ![c] = "mail"]
      PROVE  Counted'
  BY <1>0, <1>a, <1>b, <1>c DEF TypeOK, Counted
<1>1. CASE Check(c)
  <2>0. UNCHANGED <<open, broken, dials, cached>> /\ open \subseteq {cached}
        /\ Dialled' /\ CachedGood'
    BY <1>0, <1>1, Alone DEF Check, Dialled, CachedGood
  <2>1. CASE cancelled
    BY <1>0, <1>1, <2>0, <2>1, InvReturn DEF Check, TypeOK
  <2>2. CASE ~cancelled
    <3>1. TypeOK'
      BY <1>0, <1>1, <2>2 DEF Check, TypeOK, PC
    <3> DEFINE to == IF cached = NoConn THEN "dial" ELSE "noop"
    <3>2. /\ pc' = [pc EXCEPT ![c] = to] /\ client' = [client EXCEPT ![c] = cached]
          /\ to \in PC \ {"idle", "lock"} /\ UNCHANGED mu
      BY <1>1, <2>2 DEF Check, PC
    <3>3. Mutex' /\ Connections'
      BY <1>0, <1>1, <2>0, <3>1, <3>2, InvHolder DEF Check, TypeOK, OnCached
    <3> QED
      BY <1>c, <3>1, <3>2, <3>3 DEF Inv
  <2> QED
    BY <2>1, <2>2
<1>2. CASE NoopSucceeds(c)
  <2>1. TypeOK'
    BY <1>0, <1>2 DEF NoopSucceeds, Goto, TypeOK, PC
  <2> QED
    BY <1>2, <1>c, <2>1, InvSameConnection DEF NoopSucceeds, PC, OnCached, Inv, Goto
<1>3. CASE NoopFails(c)
  <2>1. client[c] = cached /\ cached \in Conn /\ cached \in open
    BY <1>0, <1>3 DEF NoopFails, Goto, OwnConnection, CachedGood, TypeOK, OnCached
  <2>2. TypeOK'
    BY <1>0, <1>3, <2>1 DEF NoopFails, CloseCached, Goto, TypeOK, PC
  <2>3. open' = {}
    BY <1>3, Alone DEF NoopFails, CloseCached, Goto
  <2>4. Dialled' /\ CachedGood'
    BY <1>0, <1>3, <2>1, <2>3 DEF NoopFails, CloseCached, Dialled, CachedGood
  <2>5. Mutex' /\ Connections'
    BY <1>3, <2>2, <2>3, <2>4, InvHolder DEF NoopFails, CloseCached, Goto, PC, OnCached
  <2> QED
    BY <1>3, <1>c, <2>2, <2>5 DEF NoopFails, Goto, Inv
<1>4. CASE Dial(c)
  <2>1. dials \in Nat /\ dials + 1 \in Conn
    BY <1>0, <1>4 DEF Dial, TypeOK, Conn
  <2>2. TypeOK'
    BY <1>0, <1>4, <2>1 DEF Dial, Goto, TypeOK, PC
  <2>3. cached = NoConn /\ open' = {dials + 1}
    <3>1. cached = NoConn /\ open \subseteq {NoConn} /\ NoConn \notin open
      BY <1>0, <1>4, Alone DEF Dial, Goto, OwnConnection, TypeOK, Conn
    <3> QED
      BY <1>4, <3>1 DEF Dial
  <2>4. dials + 1 \notin broken /\ Dialled' /\ CachedGood'
    BY <1>0, <1>4, <2>1, <2>3 DEF Dial, Dialled, CachedGood, TypeOK, Conn
  <2>5. Mutex' /\ Connections'
    BY <1>4, <2>1, <2>2, <2>3, <2>4, InvHolder DEF Dial, Goto, PC, OnCached
  <2> QED
    BY <1>4, <1>c, <2>2, <2>5 DEF Dial, Goto, Inv
<1>5. CASE DialFails(c)
  <2>1. open' \subseteq {cached'} /\ Dialled' /\ CachedGood'
    BY <1>0, <1>5, Alone DEF DialFails, Dialled, CachedGood
  <2> QED
    BY <1>0, <1>5, <2>1, InvReturn DEF DialFails, TypeOK
<1>6. CASE Handshake(c)
  <2>1. client[c] \in Conn /\ client[c] \in open \ broken /\ open \subseteq {client[c]}
    BY <1>0, <1>6, Alone DEF Handshake, Goto, OwnConnection, TypeOK
  <2>2. TypeOK'
    BY <1>0, <1>6, <2>1 DEF Handshake, Goto, TypeOK, PC
  <2>3. Dialled' /\ CachedGood'
    BY <1>0, <1>6, <2>1 DEF Handshake, Dialled, CachedGood
  <2>4. client[c] # NoConn /\ client' = [client EXCEPT ![c] = client[c]]
    BY <1>0, <1>6, <2>1 DEF Handshake, TypeOK, Conn
  <2>5. Mutex' /\ Connections'
    <3>1. pc[c] \notin {"idle", "lock"} /\ "mail" \in PC \ {"idle", "lock"}
      BY <1>6 DEF Handshake, Goto, PC
    <3>2. /\ pc' = [pc EXCEPT ![c] = "mail"] /\ cached' = client[c] /\ UNCHANGED <<mu, open>>
          /\ client[c] \in Conn \cup {NoConn}
      BY <1>6, <2>1 DEF Handshake, Goto
    <3>3. \A h \in open' : h = cached'
      BY <2>1, <3>2
    <3> QED
      BY <2>2, <2>3, <2>4, <3>1, <3>2, <3>3, InvHolder
  <2> QED
    BY <1>6, <1>c, <2>2, <2>5 DEF Handshake, Goto, Inv
<1>7. CASE HandshakeFails(c)
  <2>1. client[c] \in Conn /\ client[c] \in open \ broken /\ open \subseteq {client[c]}
        /\ cached = NoConn
    BY <1>0, <1>7, Alone DEF HandshakeFails, OwnConnection, TypeOK
  <2>2. open' = {} /\ Dialled' /\ CachedGood'
    BY <1>0, <1>7, <2>1 DEF HandshakeFails, Dialled, CachedGood
  <2>3. broken' \subseteq Conn
    BY <1>0, <1>7, <2>1 DEF HandshakeFails, TypeOK
  <2> QED
    BY <1>0, <1>7, <2>1, <2>2, <2>3, InvReturn DEF HandshakeFails, TypeOK
<1> QED
  BY <1>1, <1>2, <1>3, <1>4, <1>5, <1>6, <1>7

LEMMA InvTransaction ==
  ASSUME Inv, NEW c \in Caller,
         \/ Mail(c) \/ (\E r \in Rcpt : AddRcpt(c, r)) \/ Data(c) \/ Write(c)
         \/ ServerAccepts(c) \/ Succeed(c) \/ Fail(c)
  PROVE  Inv'
<1> USE DEF sender, callers, network, outcome
<1>0. TypeOK /\ Mutex /\ Dialled /\ Known /\ CachedGood /\ OwnConnection /\ Counted
  BY DEF Inv, Connections
<1>c. ASSUME NEW from \in OnCached \ {"reply"}, NEW to \in OnCached \ {"reply"},
             Goto(c, from, to), UNCHANGED accepted
      PROVE  Counted'
  BY <1>0, <1>c DEF TypeOK, Counted, Goto, OnCached
<1>1. CASE Mail(c)
  <2>1. TypeOK'
    BY <1>0, <1>1 DEF Mail, Command, Goto, TypeOK, PC
  <2> QED
    BY <1>1, <1>c, <2>1, InvSameConnection DEF Mail, Command, PC, OnCached, Inv
<1>2. ASSUME NEW r \in Rcpt, AddRcpt(c, r)
      PROVE  Inv'
  <2>1. TypeOK'
    <3>1. client[c] \in Conn
      BY <1>0, <1>2 DEF AddRcpt, TypeOK, OwnConnection, OnCached
    <3>2. envelope' \in [Conn -> SUBSET (Caller \X Rcpt)]
      BY <1>0, <1>2, <3>1 DEF AddRcpt, TypeOK
    <3> QED
      BY <1>0, <1>2, <3>2 DEF AddRcpt, Command, TypeOK, PC
  <2>2. UNCHANGED <<pc, mu, cached, client, open, broken, dials, accepted>>
    BY <1>2 DEF AddRcpt, Command
  <2> QED
    BY <1>0, <2>1, <2>2
    DEF Inv, Mutex, Connections, Dialled, Known, CachedGood, OwnConnection, Counted
<1>3. CASE Data(c)
  <2>1. TypeOK'
    BY <1>0, <1>3 DEF Data, Command, Goto, TypeOK, PC
  <2> QED
    BY <1>3, <1>c, <2>1, InvSameConnection DEF Data, Command, PC, OnCached, Inv
<1>4. CASE Write(c)
  <2>1. TypeOK'
    BY <1>0, <1>4 DEF Write, Command, Goto, TypeOK, PC
  <2> QED
    BY <1>4, <1>c, <2>1, InvSameConnection DEF Write, Command, PC, OnCached, Inv
<1>5. CASE ServerAccepts(c)
  <2>1. client[c] \in Conn /\ accepted[c] = 0
    BY <1>0, <1>5 DEF ServerAccepts, Goto, TypeOK, OwnConnection, OnCached, Counted
  <2>2. TypeOK'
    <3>1. accepted' \in [Caller -> 0..1]
      BY <1>0, <1>5, <2>1 DEF ServerAccepts, TypeOK
    <3> QED
      BY <1>0, <1>5, <2>1, <3>1 DEF ServerAccepts, Command, Goto, TypeOK, PC
  <2>3. Counted'
    BY <1>0, <1>5, <2>1 DEF ServerAccepts, Goto, TypeOK, Counted
  <2> QED
    BY <1>5, <2>2, <2>3, InvSameConnection DEF ServerAccepts, Command, PC, OnCached, Inv
<1>6. CASE Succeed(c)
  <2>1. open' \subseteq {cached'} /\ Dialled' /\ CachedGood'
    BY <1>0, <1>6, Alone DEF Succeed, Dialled, CachedGood
  <2> QED
    BY <1>0, <1>6, <2>1, InvReturn DEF Succeed, TypeOK
<1>7. CASE Fail(c)
  <2>1. client[c] = cached /\ cached \in Conn /\ cached \in open /\ open \subseteq {cached}
    BY <1>0, <1>7, Alone DEF Fail, Failing, OwnConnection, CachedGood, TypeOK, OnCached
  <2>2. open' = {} /\ Dialled' /\ CachedGood'
    BY <1>0, <1>7, <2>1 DEF Fail, CloseCached, Dialled, CachedGood
  <2>3. broken' \subseteq Conn /\ cached' = NoConn
    BY <1>0, <1>7, <2>1 DEF Fail, CloseCached, TypeOK
  <2> QED
    BY <1>0, <1>7, <2>2, <2>3, InvReturn DEF Fail, Failing, TypeOK
<1> QED
  BY <1>1, <1>2, <1>3, <1>4, <1>5, <1>6, <1>7

LEMMA InvNext == Inv /\ [Next]_vars => Inv'
<1> SUFFICES ASSUME Inv, [Next]_vars PROVE Inv'
  OBVIOUS
<1>1. ASSUME NEW c \in Caller, Call(c) \/ Lock(c) \/ SendStep(c)
      PROVE  Inv'
  BY <1>1, InvCall, InvLock, InvConnect, InvTransaction DEF SendStep
<1>2. ASSUME NEW k \in Conn, ServerDrops(k)
      PROVE  Inv'
  <2>1. TypeOK'
    BY <1>2 DEF ServerDrops, sender, callers, outcome, Inv, TypeOK
  <2>2. Connections'
    BY <1>2 DEF ServerDrops, sender, callers, Inv, Connections, Dialled, Known,
                CachedGood, OwnConnection
  <2> QED
    BY <1>2, <2>1, <2>2 DEF ServerDrops, sender, callers, outcome, Inv, Mutex, Counted
<1>3. CASE Cancel \/ UNCHANGED vars
  <2>1. TypeOK'
    BY <1>3 DEF Cancel, vars, sender, callers, network, outcome, Inv, TypeOK
  <2>2. Connections'
    BY <1>3 DEF Cancel, vars, sender, callers, network, Inv, Connections, Dialled, Known,
                CachedGood, OwnConnection
  <2> QED
    BY <1>3, <2>1, <2>2
    DEF Cancel, vars, sender, callers, outcome, Inv, Mutex, Counted
<1> QED
  BY <1>1, <1>2, <1>3 DEF Next

LEMMA Invariance == Spec => []Inv
BY InvInit, InvNext, PTL DEF Spec

-----------------------------------------------------------------------------
(* The theorems. *)

\* Every variable keeps its type: no message is accepted twice in one call.
THEOREM TypeCorrect == Spec => []TypeOK
<1>1. Inv => TypeOK
  BY DEF Inv
<1> QED
  BY <1>1, Invariance, PTL

\* Under SMTPSender.mu, calls of Send take turns in talking to the server.
THEOREM SessionsTakeTurns == Spec => []SessionsSerialised
<1>1. Inv => SessionsSerialised
  BY DEF Inv, Mutex, SessionsSerialised, InSession
<1> QED
  BY <1>1, Invariance, PTL

\* closeCached leaves no call, then or later, with a connection that failed.
THEOREM BrokenIsGone == Spec => []BrokenNeverUsed
<1>1. Inv => BrokenNeverUsed
  BY DEF Inv, TypeOK, Conn, Connections, CachedGood, OwnConnection, BrokenNeverUsed,
         InSession, OnCached
<1> QED
  BY <1>1, Invariance, PTL

\* getClient, connect and closeCached close every connection they give up.
THEOREM NoLeak == Spec => []NoConnectionLeak
<1>1. Inv => NoConnectionLeak
  BY DEF Inv, Connections, Known, NoConnectionLeak
<1> QED
  BY <1>1, Invariance, PTL

-----------------------------------------------------------------------------
(* What the server has been told. *)

\* What an envelope says of one caller.
Envelope(c) ==
  /\ pc[c] \in {"lock", "check", "noop", "dial", "greet", "mail"} => todo[c] = Recipients[c]
  /\ pc[c] = "rcpt" => /\ todo[c] \subseteq Recipients[c]
                       /\ envelope[client[c]] = {c} \X (Recipients[c] \ todo[c])
  /\ pc[c] \in {"write", "close"} => envelope[client[c]] = {c} \X Recipients[c]

Envelopes == \A c \in Caller : Envelope(c)

\* Only the caller that holds the mutex changes what its envelope says.
LEMMA EnvelopesHolder ==
  ASSUME Inv, Envelopes, NEW c \in Caller, pc[c] \notin {"idle", "lock"}, Envelope(c)',
         NEW to \in PC, pc' = [pc EXCEPT ![c] = to],
         \A d \in Caller : d # c => todo'[d] = todo[d]
  PROVE  Envelopes'
<1>1. ASSUME NEW d \in Caller, d # c
      PROVE  Envelope(d)'
  <2>1. pc[d] \in {"idle", "lock"} /\ pc'[d] = pc[d]
    BY <1>1, Alone DEF Inv, TypeOK
  <2> QED
    BY <1>1, <2>1 DEF Envelopes, Envelope
<1> QED
  BY <1>1 DEF Envelopes

LEMMA EnvelopesInit == Init => Envelopes
BY DEF Init, Envelopes, Envelope

LEMMA EnvelopesNext == Inv /\ Envelopes /\ [Next]_vars => Envelopes'
<1> SUFFICES ASSUME Inv, Envelopes, [Next]_vars PROVE Envelopes'
  OBVIOUS
<1> USE DEF sender, callers, network, outcome
<1>0. TypeOK /\ \A c \in Caller : Envelope(c)
  BY DEF Inv, Envelopes
<1>1. ASSUME NEW c \in Caller, Call(c)
      PROVE  Envelopes'
  BY <1>0, <1>1 DEF Call, TypeOK, Envelopes, Envelope
<1>2. ASSUME NEW c \in Caller, Lock(c)
      PROVE  Envelopes'
  BY <1>0, <1>2 DEF Lock, Goto, TypeOK, Envelopes, Envelope
<1>3. ASSUME NEW c \in Caller, Check(c) \/ NoopSucceeds(c) \/ NoopFails(c) \/ Dial(c)
                               \/ DialFails(c) \/ Handshake(c) \/ HandshakeFails(c)
      PROVE  Envelopes'
  <2>1. PICK to \in {"idle", "noop", "dial", "greet", "mail"} : pc' = [pc EXCEPT ![c] = to]
    BY <1>3 DEF Check, NoopSucceeds, NoopFails, Dial, DialFails, Handshake,
                HandshakeFails, Goto, Return
  <2>2. /\ pc[c] \in {"check", "noop", "dial", "greet"}
        /\ to # "idle" => UNCHANGED todo
        /\ to = "idle" => todo' = [todo EXCEPT ![c] = {}]
    BY <1>3, <1>0, <2>1
    DEF Check, NoopSucceeds, NoopFails, Dial, DialFails, Handshake,
        HandshakeFails, Goto, Return, TypeOK
  <2>3. Envelope(c)' /\ \A d \in Caller : d # c => todo'[d] = todo[d]
    BY <1>0, <2>1, <2>2 DEF TypeOK, Envelope
  <2> QED
    BY <2>1, <2>2, <2>3, EnvelopesHolder DEF PC
<1>4. ASSUME NEW c \in Caller, Mail(c)
      PROVE  Envelopes'
  <2>1. client[c] \in Conn
    BY <1>0, <1>4 DEF Mail, Goto, TypeOK, Inv, Connections, OwnConnection, OnCached
  <2>2. envelope'[client[c]] = {} /\ pc'[c] = "rcpt" /\ todo'[c] = Recipients[c]
        /\ client' = client
    BY <1>0, <1>4, <2>1 DEF Mail, Command, Goto, TypeOK, Envelope
  <2>3. Envelope(c)'
    BY <2>2 DEF Envelope
  <2> QED
    BY <1>4, <2>3, EnvelopesHolder DEF Mail, Goto, PC
<1>5. ASSUME NEW c \in Caller, NEW r \in Rcpt, AddRcpt(c, r)
      PROVE  Envelopes'
  <2>1. client[c] \in Conn /\ pc[c] = "rcpt" /\ r \in todo[c]
    BY <1>0, <1>5 DEF AddRcpt, TypeOK, Inv, Connections, OwnConnection, OnCached
  <2>2. /\ envelope'[client[c]] = envelope[client[c]] \cup {<<c, r>>}
        /\ todo'[c] = todo[c] \ {r} /\ UNCHANGED <<pc, client>>
        /\ \A d \in Caller : d # c => todo'[d] = todo[d]
    BY <1>0, <1>5, <2>1 DEF AddRcpt, Command, TypeOK
  <2>3. /\ envelope[client[c]] = {c} \X (Recipients[c] \ todo[c])
        /\ todo[c] \subseteq Recipients[c]
    BY <1>0, <2>1 DEF Envelope
  <2>4. envelope'[client[c]] = {c} \X (Recipients[c] \ todo'[c])
    BY <2>1, <2>2, <2>3
  <2>5. Envelope(c)'
    BY <2>1, <2>2, <2>3, <2>4 DEF Envelope
  <2>6. pc' = [pc EXCEPT ![c] = "rcpt"]
    BY <1>0, <2>1, <2>2 DEF TypeOK
  <2> QED
    BY <2>1, <2>2, <2>5, <2>6, EnvelopesHolder DEF PC
<1>6. ASSUME NEW c \in Caller, Data(c) \/ Write(c) \/ ServerAccepts(c)
      PROVE  Envelopes'
  <2>1. /\ pc[c] \in {"rcpt", "write", "close"}
        /\ pc[c] = "rcpt" => todo[c] = {}
        /\ UNCHANGED <<todo, envelope, client>>
        /\ \/ pc' = [pc EXCEPT ![c] = "write"]
           \/ pc' = [pc EXCEPT ![c] = "close"]
           \/ pc' = [pc EXCEPT ![c] = "reply"]
    BY <1>6 DEF Data, Write, ServerAccepts, Command, Goto
  <2>2. envelope[client[c]] = {c} \X Recipients[c]
    BY <1>0, <2>1 DEF Envelope
  <2>3. Envelope(c)'
    BY <1>0, <2>1, <2>2 DEF TypeOK, Envelope
  <2> QED
    BY <2>1, <2>3, EnvelopesHolder DEF PC
<1>7. ASSUME NEW c \in Caller, Succeed(c) \/ Fail(c)
      PROVE  Envelopes'
  <2>1. /\ pc[c] \notin {"idle", "lock"}
        /\ pc' = [pc EXCEPT ![c] = "idle"] /\ todo' = [todo EXCEPT ![c] = {}]
    BY <1>7 DEF Succeed, Fail, Failing, Return
  <2>2. Envelope(c)' /\ \A d \in Caller : d # c => todo'[d] = todo[d]
    BY <1>0, <2>1 DEF TypeOK, Envelope
  <2> QED
    BY <2>1, <2>2, EnvelopesHolder DEF PC
<1>8. CASE \/ \E k \in Conn : ServerDrops(k)
           \/ Cancel \/ UNCHANGED vars
  BY <1>0, <1>8 DEF ServerDrops, Cancel, vars, Envelopes, Envelope
<1> QED
  BY <1>1, <1>2, <1>3, <1>4, <1>5, <1>6, <1>7, <1>8 DEF Next, SendStep

-----------------------------------------------------------------------------
(* The refinement. *)

RInv == Inv /\ Envelopes

\* Every step of a call is a step of MailTransport or changes nothing there.
LEMMA TransportStep ==
  ASSUME RInv, [Next]_vars
  PROVE  [Transport!Next]_(Transport!vars)
<1> USE DEF sender, callers, network, outcome
<1>0. TypeOK /\ Counted /\ Envelopes
  BY DEF RInv, Inv
<1> DEFINE call == [c \in Caller |-> IF pc[c] = "idle" THEN result[c] ELSE "sending"]
<1> SUFFICES ASSUME TRUE
             PROVE  Transport!Next \/ UNCHANGED <<call, accepted, reached>>
  BY DEF Transport!vars
<1>1. ASSUME NEW c \in Caller, Call(c)
      PROVE  Transport!Start(c) \/ Transport!Refuse(c)
  <2>1. /\ call[c] # "sending"
        /\ accepted' = [accepted EXCEPT ![c] = 0] /\ reached' = [reached EXCEPT ![c] = {}]
    BY <1>0, <1>1 DEF Call, TypeOK
  <2>2. CASE Recipients[c] = {} \/ cancelled
    <3>1. call' = [call EXCEPT ![c] = "err"]
      BY <1>0, <1>1, <2>2 DEF Call, TypeOK
    <3> QED
      BY <2>1, <3>1 DEF Transport!Refuse
  <2>3. CASE ~(Recipients[c] = {} \/ cancelled)
    <3>1. call' = [call EXCEPT ![c] = "sending"]
      BY <1>0, <1>1, <2>3 DEF Call, TypeOK
    <3> QED
      BY <2>1, <3>1 DEF Transport!Start
  <2> QED
    BY <2>2, <2>3
<1>2. ASSUME NEW c \in Caller, NEW from, NEW to, Goto(c, from, to),
             from # "idle", to # "idle", UNCHANGED result
      PROVE  UNCHANGED call
  BY <1>0, <1>2 DEF TypeOK, Goto
<1>3. ASSUME NEW c \in Caller, ServerAccepts(c)
      PROVE  Transport!Accept(c)
  <2>1. accepted[c] = 0 /\ pc[c] # "idle"
    BY <1>0, <1>3 DEF ServerAccepts, Goto, Counted
  <2>2. envelope[client[c]] = {c} \X Recipients[c]
    BY <1>0, <1>3 DEF ServerAccepts, Goto, Envelopes, Envelope
  <2>3. UNCHANGED call
    BY <1>2, <1>3 DEF ServerAccepts, Goto
  <2> QED
    BY <1>0, <1>3, <2>1, <2>2, <2>3 DEF ServerAccepts, TypeOK, Transport!Accept
<1>4. ASSUME NEW c \in Caller, NEW how \in {"ok", "err"}, pc[c] # "idle",
             how = "ok" => pc[c] = "reply", Return(c, how)
      PROVE  Transport!Return(c, how)
  BY <1>0, <1>4 DEF Return, TypeOK, Counted, Transport!Return
<1>5. ASSUME NEW c \in Caller, Lock(c) \/ SendStep(c)
      PROVE  Transport!Next \/ UNCHANGED <<call, accepted, reached>>
  <2>1. CASE Lock(c) \/ NoopSucceeds(c) \/ NoopFails(c) \/ Dial(c) \/ Handshake(c)
             \/ Mail(c) \/ Data(c) \/ Write(c)
    BY <1>2, <2>1 DEF Lock, NoopSucceeds, NoopFails, Dial, Handshake, Mail, Data, Write,
                      Command, Goto
  <2>2. CASE \E r \in Rcpt : AddRcpt(c, r)
    BY <2>2 DEF AddRcpt
  <2>3. CASE ServerAccepts(c)
    BY <1>3, <2>3 DEF Transport!Next
  <2>4. ASSUME NEW how \in {"ok", "err"}, pc[c] # "idle",
               how = "ok" => pc[c] = "reply", Return(c, how)
        PROVE  Transport!Next
    BY <1>4, <2>4 DEF Transport!Next
  <2>5. CASE Check(c)
    <3>1. CASE cancelled
      BY <2>4, <2>5, <3>1 DEF Check
    <3>2. CASE ~cancelled
      <4>1. UNCHANGED call
        BY <1>0, <2>5, <3>2 DEF Check, TypeOK
      <4> QED
        BY <2>5, <3>2, <4>1 DEF Check
    <3> QED
      BY <3>1, <3>2
  <2>6. CASE DialFails(c) \/ HandshakeFails(c) \/ Succeed(c) \/ Fail(c)
    BY <2>4, <2>6 DEF DialFails, HandshakeFails, Succeed, Fail, Failing
  <2> QED
    BY <1>5, <2>1, <2>2, <2>3, <2>5, <2>6 DEF SendStep
<1>6. CASE (\E k \in Conn : ServerDrops(k)) \/ Cancel \/ UNCHANGED vars
  BY <1>6 DEF ServerDrops, Cancel, vars
<1>7. ASSUME NEW c \in Caller, Call(c)
      PROVE  Transport!Next
  BY <1>1, <1>7 DEF Transport!Next
<1> QED
  BY <1>5, <1>6, <1>7 DEF Next

\* Send implements MailTransport: a call that succeeds had its message accepted
\* once, for all its recipients and nobody else, and no call more than once.
THEOREM SenderImplementsTransport == Spec => ImplementsTransport
<1>1. Init => Transport!Init
  BY DEF Init, Transport!Init
<1>2. Init => RInv
  BY InvInit, EnvelopesInit DEF RInv
<1>3. RInv /\ [Next]_vars => RInv'
  BY InvNext, EnvelopesNext DEF RInv
<1>4. RInv /\ [Next]_vars => [Transport!Next]_(Transport!vars)
  BY TransportStep
<1> QED
  BY <1>1, <1>2, <1>3, <1>4, PTL DEF Spec, ImplementsTransport, Transport!Spec

=============================================================================
