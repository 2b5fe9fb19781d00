------------------------- MODULE LogBroadcasterProofs -------------------------
(***************************************************************************)
(* For rings and channels of any size, any number of connections and any   *)
(* levels: the ring holds exactly the latest lines, and a connection is    *)
(* sent them without gap or repetition.  For any overrides of any paths: a *)
(* record is written exactly when the most specific one lets it through.   *)
(***************************************************************************)
EXTENDS LogStream, Induction, TLAPS

\* An index that has passed the end of the ring at most once.
LEMMA Wrap ==
  \A x \in Int :
    0 <= x /\ x < 2 * RingSize =>
      /\ x < RingSize => x % RingSize = x
      /\ x >= RingSize => x % RingSize = x - RingSize
<1> SUFFICES ASSUME NEW r \in Nat, r # 0, NEW x \in Int, 0 <= x, x < 2 * r
             PROVE  (x < r => x % r = x) /\ (x >= r => x % r = x - r)
  BY SizesAssumption, Zenon
<1> QED
  BY SMTT(30)

\* The slot written a lines before the last one.
Back(a) == IF a < ringHead THEN ringHead - 1 - a ELSE ringHead - 1 - a + RingSize

(* The ring.  TypeOK bounds what a slot may hold; History is made of lines *)
(* only because of where these are.                                        *)
RingTyped ==
  /\ ring \in [Slot -> 0..MaxLines]
  /\ ringHead \in Slot
  /\ ringLen \in 0..RingSize
  /\ lines \in 0..MaxLines

RingFilled == ringLen = IF lines < RingSize THEN lines ELSE RingSize

RingHolds == \A a \in 0..ringLen - 1 : ring[Back(a)] = lines - a

Ring == RingTyped /\ RingFilled /\ RingHolds

LEMMA RingInit == Init => Ring
<1> SUFFICES ASSUME Init PROVE Ring
  OBVIOUS
<1> USE SizesAssumption
<1>1. RingTyped
  BY DEF Init, RingTyped, Slot
<1>2. RingFilled
  BY DEF Init, RingFilled
<1>3. RingHolds
  BY DEF Init, RingHolds
<1> QED
  BY <1>1, <1>2, <1>3 DEF Ring

LEMMA RingNext == Ring /\ [Next]_vars => Ring'
<1> SUFFICES ASSUME Ring, [Next]_vars PROVE Ring'
  OBVIOUS
<1> USE SizesAssumption DEF Slot
<1>1. CASE Broadcast
  <2>1. /\ lines < MaxLines /\ lines' = lines + 1
        /\ ring' = [ring EXCEPT ![ringHead] = lines']
        /\ ringHead' = (ringHead + 1) % RingSize
        /\ ringLen' = IF ringLen < RingSize THEN ringLen + 1 ELSE ringLen
    BY <1>1 DEF Broadcast, WriteRing
  <2>2. ringHead' = IF ringHead + 1 < RingSize THEN ringHead + 1 ELSE 0
    <3>1. ringHead \in 0..RingSize - 1
      BY DEF Ring, RingTyped
    <3>2. (ringHead + 1) % RingSize = IF ringHead + 1 < RingSize THEN ringHead + 1 ELSE 0
      BY <3>1, Wrap
    <3> QED
      BY <3>2, <2>1
  <2>3. RingTyped'
    BY <2>1, <2>2 DEF Ring, RingTyped
  <2>4. RingFilled'
    BY <2>1 DEF Ring, RingTyped, RingFilled
  <2>5. ASSUME NEW a \in 0..ringLen' - 1
        PROVE  ring'[Back(a)'] = lines' - a
    <3>1. CASE a = 0
      <4>1. Back(a)' = ringHead
        BY <3>1, <2>2 DEF Back, Ring, RingTyped
      <4> QED
        BY <4>1, <3>1, <2>1 DEF Ring, RingTyped
    <3>2. CASE a # 0
      <4>1. a - 1 \in 0..ringLen - 1 /\ a < RingSize
        BY <3>2, <2>1 DEF Ring, RingTyped
      <4>2. Back(a)' = Back(a - 1)
        BY <4>1, <2>2 DEF Back, Ring, RingTyped
      <4>3. Back(a - 1) \in Slot /\ Back(a - 1) # ringHead
        BY <4>1 DEF Back, Ring, RingTyped
      <4>4. ring[Back(a - 1)] = lines - (a - 1)
        BY <4>1 DEF Ring, RingHolds
      <4>5. ring'[Back(a - 1)] = ring[Back(a - 1)]
        BY <4>3, <2>1 DEF Ring, RingTyped
      <4> QED
        BY <4>2, <4>4, <4>5, <2>1 DEF Ring, RingTyped
    <3> QED
      BY <3>1, <3>2
  <2> QED
    BY <2>3, <2>4, <2>5 DEF Ring, RingHolds
<1>2. CASE UNCHANGED <<buffer, lines>>
  BY <1>2 DEF buffer, Ring, RingTyped, RingFilled, RingHolds, Back
<1> QED
  BY <1>1, <1>2 DEF Next, Handler, Connect, RegisterWithReplay, ReplayLine,
     ReplayEnds, Receive, Leave, Unregister, vars

LEMMA RingAlways == Spec => []Ring
  BY RingInit, RingNext, PTL DEF Spec

\* What the ring holds is the history, oldest first.
LEMMA RingIsHistory == Ring => HistoryIsLatest
<1> SUFFICES ASSUME Ring PROVE HistoryIsLatest
  OBVIOUS
<1> USE SizesAssumption DEF Slot
<1> DEFINE start == (ringHead - ringLen + RingSize) % RingSize
<1>1. start = IF ringHead < ringLen THEN ringHead - ringLen + RingSize
                                    ELSE ringHead - ringLen
  <2>1. ringHead \in 0..RingSize - 1 /\ ringLen \in 0..RingSize
    BY DEF Ring, RingTyped
  <2>2. PICK x \in Int : x = ringHead - ringLen + RingSize
    BY <2>1
  <2>3. start = x % RingSize
    BY <2>2
  <2> QED
    BY <2>1, <2>2, <2>3, Wrap
<1>2. ASSUME NEW i \in 1..ringLen
      PROVE  ring[(start + i - 1) % RingSize] = lines - ringLen + i
  <2>2. (start + i - 1) % RingSize = Back(ringLen - i)
    <3> HIDE DEF start
    <3>1. PICK x \in Int : x = start + i - 1
      BY <1>1 DEF Ring, RingTyped
    <3>2. 0 <= x /\ x < 2 * RingSize
      BY <3>1, <1>1 DEF Ring, RingTyped
    <3>3. x % RingSize = IF x < RingSize THEN x ELSE x - RingSize
      BY <3>2, Wrap
    <3>4. x % RingSize = Back(ringLen - i)
      BY <1>1, <3>1, <3>3 DEF Ring, RingTyped, Back
    <3> QED
      BY <3>1, <3>4
  <2>3. ringLen - i \in 0..ringLen - 1 /\ lines - (ringLen - i) = lines - ringLen + i
    BY DEF Ring, RingTyped
  <2> QED
    BY <2>2, <2>3 DEF Ring, RingHolds
<1>3. History = [i \in 1..ringLen |-> lines - ringLen + i]
  BY <1>2 DEF History
<1> QED
  BY <1>3 DEF Ring, RingFilled, HistoryIsLatest

\* The ring holds exactly the latest lines, oldest first, for a ring of any size
\* and any number of lines (server.go:202, 224).
THEOREM RingIsLatest == Spec => []HistoryIsLatest
  BY RingAlways, RingIsHistory, PTL

-----------------------------------------------------------------------------
(* Sequences of numbers. *)

LEMMA RisingAppend ==
  ASSUME NEW s \in Seq(Int), NEW k \in Int, Rising(s), \A v \in Values(s) : v < k
  PROVE  Rising(Append(s, k))
<1>1. \A i \in 1..Len(s) : s[i] < k
  BY DEF Values
<1>2. /\ Len(Append(s, k)) = Len(s) + 1
      /\ \A i \in 1..Len(s) : Append(s, k)[i] = s[i]
      /\ Append(s, k)[Len(s) + 1] = k
  OBVIOUS
<1>3. ASSUME NEW i \in 1..Len(s) + 1, NEW j \in 1..Len(s) + 1, i < j
      PROVE  Append(s, k)[i] < Append(s, k)[j]
  <2>1. i \in 1..Len(s)
    BY <1>3
  <2>2. CASE j \in 1..Len(s)
    BY <1>2, <1>3, <2>1, <2>2 DEF Rising
  <2>3. CASE j = Len(s) + 1
    BY <1>1, <1>2, <2>1, <2>3
  <2> QED
    BY <2>2, <2>3
<1> QED
  BY <1>2, <1>3 DEF Rising

LEMMA ValuesAppend ==
  ASSUME NEW s \in Seq(Int), NEW k \in Int
  PROVE  Values(Append(s, k)) = Values(s) \cup {k}
<1>1. /\ Len(Append(s, k)) = Len(s) + 1 /\ Len(s) \in Nat
      /\ \A i \in 1..Len(s) : Append(s, k)[i] = s[i]
      /\ Append(s, k)[Len(s) + 1] = k
  OBVIOUS
<1>2. \A i \in 1..Len(s) + 1 : i \in 1..Len(s) \/ i = Len(s) + 1
  BY <1>1
<1>3. 1..Len(s) \subseteq 1..Len(s) + 1 /\ Len(s) + 1 \in 1..Len(s) + 1
  BY <1>1
<1>4. Values(Append(s, k)) \subseteq Values(s) \cup {k}
  BY <1>1, <1>2 DEF Values
<1>5. ASSUME NEW v \in Values(s) \cup {k}
      PROVE  \E i \in 1..Len(s) + 1 : v = Append(s, k)[i]
  <2>1. CASE v = k
    BY <1>1, <1>3, <2>1
  <2>2. CASE v # k
    <3>1. PICK i \in 1..Len(s) : v = s[i]
      BY <2>2 DEF Values
    <3> QED
      BY <3>1, <1>1, <1>3
  <2> QED
    BY <2>1, <2>2
<1> QED
  BY <1>1, <1>4, <1>5 DEF Values

\* The first element of a sequence is taken off.
LEMMA TakeFirst ==
  ASSUME NEW s \in Seq(Int), s # <<>>
  PROVE  /\ Tail(s) \in Seq(Int) /\ Head(s) \in Int
         /\ Values(s) = {Head(s)} \cup Values(Tail(s))
         /\ Rising(s) => /\ Rising(Tail(s))
                         /\ \A v \in Values(Tail(s)) : Head(s) < v
<1>1. /\ Len(s) \in Nat \ {0} /\ Head(s) = s[1]
      /\ Tail(s) \in Seq(Int) /\ Len(Tail(s)) = Len(s) - 1
      /\ \A i \in 1..Len(s) - 1 : Tail(s)[i] = s[i + 1]
      /\ \A i \in 1..Len(s) : s[i] \in Int
  OBVIOUS
<1>2. Values(s) \subseteq {Head(s)} \cup Values(Tail(s))
  <2> SUFFICES ASSUME NEW i \in 1..Len(s), i # 1
               PROVE  s[i] \in Values(Tail(s))
    BY <1>1 DEF Values
  <2>1. i - 1 \in 1..Len(s) - 1 /\ (i - 1) + 1 = i
    BY <1>1
  <2>2. Tail(s)[i - 1] = s[i]
    BY <1>1, <2>1
  <2> QED
    BY <1>1, <2>1, <2>2 DEF Values
<1>3. \A i \in 1..Len(s) - 1 : i + 1 \in 1..Len(s) /\ 1 < i + 1
  BY <1>1
<1>4. {Head(s)} \cup Values(Tail(s)) \subseteq Values(s)
  BY <1>1, <1>3 DEF Values
<1>5. ASSUME Rising(s)
      PROVE  Rising(Tail(s)) /\ \A v \in Values(Tail(s)) : Head(s) < v
  <2>1. \A i \in 1..Len(s) - 1 : Head(s) < Tail(s)[i]
    BY <1>1, <1>3, <1>5 DEF Rising
  <2>2. ASSUME NEW i \in 1..Len(s) - 1, NEW j \in 1..Len(s) - 1, i < j
        PROVE  Tail(s)[i] < Tail(s)[j]
    BY <1>1, <1>3, <1>5, <2>2 DEF Rising
  <2> QED
    BY <1>1, <2>1, <2>2 DEF Rising, Values
<1> QED
  BY <1>1, <1>2, <1>4, <1>5

LEMMA Joined ==
  ASSUME NEW s \in Seq(Int), NEW t \in Seq(Int)
  PROVE  /\ s \o t \in Seq(Int)
         /\ Values(s \o t) = Values(s) \cup Values(t)
         /\ (/\ Rising(s) /\ Rising(t)
             /\ \A v \in Values(s), w \in Values(t) : v < w) => Rising(s \o t)
<1>1. /\ s \o t \in Seq(Int) /\ Len(s \o t) = Len(s) + Len(t)
      /\ Len(s) \in Nat /\ Len(t) \in Nat
      /\ \A i \in 1..Len(s) : (s \o t)[i] = s[i]
      /\ \A i \in Len(s) + 1..Len(s) + Len(t) : (s \o t)[i] = t[i - Len(s)]
  OBVIOUS
<1>2. \A i \in 1..Len(s) + Len(t) :
        i \in 1..Len(s) \/ (i \in Len(s) + 1..Len(s) + Len(t) /\ i - Len(s) \in 1..Len(t))
  BY <1>1
<1>3. Values(s \o t) \subseteq Values(s) \cup Values(t)
  BY <1>1, <1>2 DEF Values
<1>4. ASSUME NEW v \in Values(s) \cup Values(t)
      PROVE  \E i \in 1..Len(s) + Len(t) : v = (s \o t)[i]
  <2>1. CASE v \in Values(s)
    <3>1. PICK i \in 1..Len(s) : v = s[i]
      BY <2>1 DEF Values
    <3>2. i \in 1..Len(s) + Len(t) /\ v = (s \o t)[i]
      BY <1>1, <3>1
    <3> WITNESS i \in 1..Len(s) + Len(t)
    <3> QED
      BY <3>2
  <2>2. CASE v \in Values(t)
    <3>1. PICK i \in 1..Len(t) : v = t[i]
      BY <2>2 DEF Values
    <3>2. Len(s) + i \in Len(s) + 1..Len(s) + Len(t) /\ (Len(s) + i) - Len(s) = i
      BY <1>1
    <3>3. Len(s) + i \in 1..Len(s) + Len(t) /\ v = (s \o t)[Len(s) + i]
      BY <1>1, <3>1, <3>2
    <3> WITNESS Len(s) + i \in 1..Len(s) + Len(t)
    <3> QED
      BY <3>3
  <2> QED
    BY <2>1, <2>2
<1>5. ASSUME Rising(s), Rising(t), \A v \in Values(s), w \in Values(t) : v < w,
             NEW i \in 1..Len(s) + Len(t), NEW j \in 1..Len(s) + Len(t), i < j
      PROVE  (s \o t)[i] < (s \o t)[j]
  <2>1. CASE i \in 1..Len(s) /\ j \in 1..Len(s)
    BY <1>1, <1>5, <2>1 DEF Rising
  <2>2. CASE i \in 1..Len(s) /\ j \notin 1..Len(s)
    <3>1. (s \o t)[i] = s[i] /\ s[i] \in Values(s)
      BY <1>1, <2>2 DEF Values
    <3>2. j - Len(s) \in 1..Len(t) /\ (s \o t)[j] = t[j - Len(s)]
      BY <1>1, <1>2, <2>2
    <3>3. t[j - Len(s)] \in Values(t)
      BY <3>2 DEF Values
    <3> QED
      BY <1>5, <3>1, <3>2, <3>3
  <2>3. CASE i \notin 1..Len(s)
    <3>1. j \notin 1..Len(s)
      BY <1>1, <1>5, <2>3
    <3>2. /\ i - Len(s) \in 1..Len(t) /\ (s \o t)[i] = t[i - Len(s)]
          /\ j - Len(s) \in 1..Len(t) /\ (s \o t)[j] = t[j - Len(s)]
      BY <1>1, <1>2, <2>3, <3>1
    <3>3. i - Len(s) < j - Len(s)
      BY <1>1, <1>5
    <3> QED
      BY <1>5, <3>2, <3>3 DEF Rising
  <2> QED
    BY <2>1, <2>2, <2>3
<1> QED
  BY <1>1, <1>3, <1>4, <1>5 DEF Values, Rising

-----------------------------------------------------------------------------
(* The connections. *)

\* What c holds by where its handler stands.
Standing(c) ==
  /\ c \in clients <=> pc[c] \in {"replay", "live", "leaving"}
  /\ pc[c] \in {"new", "register"} => sent[c] = <<>> /\ chan[c] = <<>> /\ lost[c] = {}
  /\ pc[c] # "replay" => replay[c] = <<>>
  /\ from[c] <= lines
  /\ \A k \in lost[c] : k <= lines

\* The three parts of c's stream rise, and each ends before the next.
InOrder(c) ==
  /\ Rising(sent[c]) /\ Rising(replay[c]) /\ Rising(chan[c])
  /\ \A v \in Values(sent[c]), w \in Values(replay[c]) \cup Values(chan[c]) : v < w
  /\ \A v \in Values(replay[c]), w \in Values(chan[c]) : v < w

\* They hold what they should.
Held(c) == Values(sent[c]) \cup Values(replay[c]) \cup Values(chan[c])

Complete(c) ==
  /\ Held(c) \subseteq (First(c)..lines) \ lost[c]
  /\ \A k \in (First(c)..lines) \ lost[c] : Passes(c, k) => k \in Held(c)
  /\ \A k \in Values(sent[c]) : Passes(c, k)

Fine(c) == Standing(c) /\ (Following(c) => InOrder(c) /\ Complete(c))

Followed == \A c \in Client : Fine(c)

Inv == Ring /\ TypeOK /\ Followed

LEMMA InvInit == Init => Inv
<1> SUFFICES ASSUME Init PROVE Inv
  OBVIOUS
<1>1. Ring
  BY RingInit
<1>2. TypeOK
  BY <1>1, SizesAssumption DEF Init, TypeOK, Ring, RingTyped, Line
<1>3. ASSUME NEW c \in Client
      PROVE  Standing(c) /\ ~Following(c)
  <2>1. /\ pc[c] = "new" /\ sent[c] = <<>> /\ chan[c] = <<>> /\ replay[c] = <<>>
        /\ lost[c] = {} /\ from[c] = 0 /\ lines = 0 /\ c \notin clients
    BY DEF Init
  <2> QED
    BY <2>1 DEF Standing, Following
<1>4. Followed
  BY <1>3 DEF Followed, Fine
<1> QED
  BY <1>1, <1>2, <1>4 DEF Inv

LEMMA TypeNext == Inv /\ [Next]_vars => TypeOK'
<1> SUFFICES ASSUME Inv, [Next]_vars PROVE TypeOK'
  OBVIOUS
<1> USE SizesAssumption DEF Line
<1>1. Ring'
  BY RingNext DEF Inv
<1>2. TypeOK
  BY DEF Inv
<1>3. CASE Broadcast
  <2>1. lines' \in Line /\ UNCHANGED <<clients, handler, from>>
    BY <1>2, <1>3 DEF Broadcast, TypeOK
  <2>2. chan' \in [Client -> Seq(Line)]
    <3>1. \A c \in Client : Append(chan[c], lines') \in Seq(Line)
      BY <1>2, <2>1 DEF TypeOK
    <3> QED
      BY <1>2, <1>3, <3>1 DEF Broadcast, Dispatch, TypeOK
  <2>3. lost' \in [Client -> SUBSET Line]
    BY <1>2, <1>3, <2>1 DEF Broadcast, Dispatch, TypeOK
  <2> QED
    BY <1>1, <1>2, <2>1, <2>2, <2>3 DEF Ring, RingTyped, TypeOK, handler
<1>4. ASSUME NEW c \in Client, RegisterWithReplay(c)
      PROVE  TypeOK'
  <2>1. History \in Seq(Line)
    <3>1. History = [i \in 1..ringLen |-> lines - ringLen + i]
      BY RingIsHistory DEF Inv, HistoryIsLatest
    <3>2. \A i \in 1..ringLen : lines - ringLen + i \in Line
      BY DEF Inv, Ring, RingTyped, RingFilled
    <3>3. ringLen \in Nat
      BY DEF Inv, Ring, RingTyped
    <3> QED
      BY <3>1, <3>2, <3>3
  <2>2. replay' \in [Client -> Seq(Line)]
    BY <1>2, <1>4, <2>1 DEF RegisterWithReplay, TypeOK
  <2> QED
    BY <1>2, <1>4, <2>2 DEF RegisterWithReplay, TypeOK, Goto, buffer
<1>5. ASSUME NEW c \in Client, NEW k \in Line, Send(c, k)
      PROVE  sent' \in [Client -> Seq(Line)]
  <2>1. Append(sent[c], k) \in Seq(Line)
    BY <1>2 DEF TypeOK
  <2> QED
    BY <1>2, <1>5, <2>1 DEF Send, TypeOK
<1>6. ASSUME NEW c \in Client, ReplayLine(c)
      PROVE  TypeOK'
  <2>1. Head(replay[c]) \in Line /\ Tail(replay[c]) \in Seq(Line)
    BY <1>2, <1>6 DEF ReplayLine, TypeOK
  <2>2. sent' \in [Client -> Seq(Line)]
    BY <1>5, <1>6, <2>1 DEF ReplayLine
  <2>3. replay' \in [Client -> Seq(Line)]
    BY <1>2, <1>6, <2>1 DEF ReplayLine, TypeOK
  <2> QED
    BY <1>2, <1>6, <2>2, <2>3 DEF ReplayLine, TypeOK, buffer
<1>7. ASSUME NEW c \in Client, Receive(c)
      PROVE  TypeOK'
  <2>1. Head(chan[c]) \in Line /\ Tail(chan[c]) \in Seq(Line)
    BY <1>2, <1>7 DEF Receive, TypeOK
  <2>2. sent' \in [Client -> Seq(Line)]
    BY <1>5, <1>7, <2>1 DEF Receive
  <2>3. chan' \in [Client -> Seq(Line)]
    BY <1>2, <1>7, <2>1 DEF Receive, TypeOK
  <2> QED
    BY <1>2, <1>7, <2>2, <2>3 DEF Receive, TypeOK, buffer
<1>8. ASSUME NEW c \in Client,
             Connect(c) \/ ReplayEnds(c) \/ Leave(c) \/ Unregister(c)
      PROVE  TypeOK'
  BY <1>2, <1>8 DEF Connect, ReplayEnds, Leave, Unregister, Goto, TypeOK, buffer
<1>9. CASE UNCHANGED vars
  BY <1>2, <1>9 DEF vars, buffer, handler, TypeOK
<1> QED
  BY <1>3, <1>4, <1>6, <1>7, <1>8, <1>9 DEF Next, Handler

LEMMA Numbers ==
  ASSUME Inv, NEW c \in Client
  PROVE  sent[c] \in Seq(Int) /\ replay[c] \in Seq(Int) /\ chan[c] \in Seq(Int)
  BY SizesAssumption DEF Inv, TypeOK, Line

\* The step of one connection leaves the others alone.
LEMMA OthersFine ==
  ASSUME NEW d \in Client, Fine(d), d \in clients' <=> d \in clients,
         UNCHANGED <<pc[d], sent[d], replay[d], chan[d], from[d], lost[d], lines>>
  PROVE  Fine(d)'
  BY DEF Fine, Standing, Following, InOrder, Complete, Held, First, Passes

LEMMA BroadcastFine ==
  ASSUME Inv, Broadcast, NEW d \in Client
  PROVE  Fine(d)'
<1> USE SizesAssumption DEF Line
<1> DEFINE k == lines + 1
<1>1. /\ Fine(d) /\ lines' = k /\ k \in Line /\ lines \in Nat
      /\ UNCHANGED <<clients, pc, replay, sent, from>>
      /\ chan'[d] = IF d \in clients /\ HasRoom(d) THEN Append(chan[d], k) ELSE chan[d]
      /\ lost'[d] = IF d \in clients /\ ~HasRoom(d) THEN lost[d] \cup {k} ELSE lost[d]
  BY DEF Inv, TypeOK, Followed, Fine, Broadcast, Dispatch, handler
<1>2. /\ sent[d] \in Seq(Int) /\ replay[d] \in Seq(Int) /\ chan[d] \in Seq(Int)
      /\ lost[d] \subseteq Line /\ from[d] \in Nat
  BY DEF Inv, TypeOK
<1>3. Standing(d)'
  BY <1>1, <1>2 DEF Fine, Standing
<1>4. ASSUME Following(d)'
      PROVE  InOrder(d)' /\ Complete(d)'
  <2>1. /\ InOrder(d) /\ Complete(d) /\ d \in clients
        /\ from[d] <= lines /\ \A l \in lost[d] : l <= lines
    BY <1>1, <1>4 DEF Fine, Following, Standing
  <2>2. First(d)' = First(d) /\ First(d) \in Nat /\ First(d) <= k
    BY <1>1, <1>2, <2>1 DEF First
  <2>3. Held(d) \subseteq Int /\ \A v \in Held(d) : v < k
    BY <1>1, <2>1, <2>2 DEF Complete
  <2>4. CASE HasRoom(d)
    <3>1. chan'[d] = Append(chan[d], k) /\ lost'[d] = lost[d]
      BY <1>1, <2>1, <2>4
    <3>2. Values(chan'[d]) = Values(chan[d]) \cup {k}
      BY <1>1, <1>2, <3>1, ValuesAppend
    <3>3. Rising(chan'[d])
      BY <1>1, <1>2, <2>1, <2>3, <3>1, RisingAppend DEF InOrder, Held
    <3>4. Held(d)' = Held(d) \cup {k}
      BY <1>1, <3>2 DEF Held
    <3>5. (First(d)'..lines') \ lost'[d] = ((First(d)..lines) \ lost[d]) \cup {k}
      BY <1>1, <2>1, <2>2, <3>1
    <3>6. InOrder(d)'
      BY <1>1, <2>1, <2>3, <3>2, <3>3 DEF InOrder, Held
    <3>7. Complete(d)'
      BY <1>1, <2>1, <3>4, <3>5 DEF Complete, Passes
    <3> QED
      BY <3>6, <3>7
  <2>5. CASE ~HasRoom(d)
    <3>1. chan'[d] = chan[d] /\ lost'[d] = lost[d] \cup {k}
      BY <1>1, <2>1, <2>5
    <3>2. Held(d)' = Held(d)
      BY <1>1, <3>1 DEF Held
    <3>3. (First(d)'..lines') \ lost'[d] = (First(d)..lines) \ lost[d]
      BY <1>1, <2>1, <2>2, <3>1
    <3>4. InOrder(d)'
      BY <1>1, <2>1, <3>1 DEF InOrder
    <3>5. Complete(d)'
      BY <1>1, <2>1, <3>2, <3>3 DEF Complete, Passes
    <3> QED
      BY <3>4, <3>5
  <2> QED
    BY <2>4, <2>5
<1> QED
  BY <1>3, <1>4 DEF Fine

LEMMA RegisterFine ==
  ASSUME Inv, NEW c \in Client, RegisterWithReplay(c)
  PROVE  Fine(c)'
<1> USE SizesAssumption
<1>1. /\ Fine(c) /\ pc[c] = "register" /\ lines \in Nat /\ ringLen \in Nat
      /\ ringLen = IF lines < RingSize THEN lines ELSE RingSize
  BY DEF Inv, Ring, RingTyped, RingFilled, Followed, Fine, RegisterWithReplay, Goto
<1>2. /\ pc'[c] = "replay" /\ c \in clients' /\ replay'[c] = History
      /\ from'[c] = lines /\ UNCHANGED <<chan, sent, lines, lost>>
  BY DEF Inv, TypeOK, RegisterWithReplay, Goto
<1>3. /\ sent'[c] = <<>> /\ chan'[c] = <<>> /\ lost'[c] = {}
  BY <1>1, <1>2 DEF Fine, Standing
<1>4. Standing(c)'
  BY <1>1, <1>2, <1>3 DEF Standing
<1>5. History = [i \in 1..ringLen |-> lines - ringLen + i]
  BY RingIsHistory DEF Inv, HistoryIsLatest
<1>6. Len(History) = ringLen /\ \A i \in 1..ringLen : History[i] = lines - ringLen + i
  <2> DEFINE h == [i \in 1..ringLen |-> lines - ringLen + i]
  <2>1. h \in Seq(Int) /\ Len(h) = ringLen
    BY <1>1
  <2> QED
    BY <1>5, <2>1
<1>7. Rising(History)
  BY <1>1, <1>6 DEF Rising
<1>8. Values(History) = First(c)'..lines
  <2>1. First(c)' = lines - ringLen + 1
    BY <1>1, <1>2 DEF First
  <2>2. Values(History) \subseteq First(c)'..lines
    <3>1. \A i \in 1..ringLen : lines - ringLen + i \in lines - ringLen + 1..lines
      BY <1>1
    <3> QED
      BY <1>6, <2>1, <3>1 DEF Values
  <2>3. ASSUME NEW v \in First(c)'..lines
        PROVE  v \in Values(History)
    <3>1. v - (lines - ringLen) \in 1..ringLen
      BY <1>1, <2>1
    <3>2. History[v - (lines - ringLen)] = v
      BY <1>1, <1>6, <3>1, <2>1
    <3> QED
      BY <1>6, <3>1, <3>2 DEF Values
  <2> QED
    BY <2>2, <2>3
<1>9. Values(sent'[c]) = {} /\ Values(chan'[c]) = {} /\ Rising(sent'[c]) /\ Rising(chan'[c])
  BY <1>3 DEF Values, Rising
<1>10. InOrder(c)'
  BY <1>2, <1>7, <1>9 DEF InOrder
<1>11. Complete(c)'
  BY <1>2, <1>3, <1>8, <1>9 DEF Complete, Held
<1> QED
  BY <1>4, <1>10, <1>11 DEF Fine

\* A line that moves from the front of the history, or of the channel once the
\* history is through, to the browser.
LEMMA ReplayLineFine ==
  ASSUME Inv, NEW c \in Client, ReplayLine(c)
  PROVE  Fine(c)'
<1> DEFINE k == Head(replay[c])
<1>1. /\ Fine(c) /\ pc[c] = "replay" /\ replay[c] # <<>> /\ replay'[c] = Tail(replay[c])
      /\ sent'[c] = IF Passes(c, k) THEN Append(sent[c], k) ELSE sent[c]
      /\ UNCHANGED <<clients, chan, pc, lines, from, lost>>
      /\ sent[c] \in Seq(Int) /\ replay[c] \in Seq(Int)
  BY Numbers DEF Inv, TypeOK, Followed, ReplayLine, Send
<1> HIDE DEF k
<1>2. Standing(c)'
  BY <1>1 DEF Fine, Standing
<1>3. InOrder(c) /\ Complete(c)
  BY <1>1 DEF Fine, Following
<1>4. /\ k \in Int /\ Values(replay[c]) = {k} \cup Values(replay'[c])
      /\ Rising(replay'[c]) /\ \A v \in Values(replay'[c]) : k < v
  BY <1>1, <1>3, TakeFirst DEF InOrder, k
<1>5. /\ Rising(sent'[c])
      /\ Values(sent'[c]) = IF Passes(c, k) THEN Values(sent[c]) \cup {k} ELSE Values(sent[c])
  <2>1. \A v \in Values(sent[c]) : v < k
    BY <1>3, <1>4 DEF InOrder
  <2>2. Rising(Append(sent[c], k)) /\ Values(Append(sent[c], k)) = Values(sent[c]) \cup {k}
    BY <1>1, <1>3, <1>4, <2>1, RisingAppend, ValuesAppend DEF InOrder
  <2> QED
    BY <1>1, <1>3, <2>2 DEF InOrder
<1>6. InOrder(c)'
  BY <1>1, <1>3, <1>4, <1>5 DEF InOrder
<1>7. Complete(c)'
  BY <1>1, <1>3, <1>4, <1>5 DEF Complete, Held, First, Passes
<1> QED
  BY <1>2, <1>6, <1>7 DEF Fine

LEMMA ReceiveFine ==
  ASSUME Inv, NEW c \in Client, Receive(c)
  PROVE  Fine(c)'
<1> DEFINE k == Head(chan[c])
<1>1. /\ Fine(c) /\ pc[c] = "live" /\ chan[c] # <<>> /\ chan'[c] = Tail(chan[c])
      /\ sent'[c] = IF Passes(c, k) THEN Append(sent[c], k) ELSE sent[c]
      /\ UNCHANGED <<clients, replay, pc, lines, from, lost>>
      /\ sent[c] \in Seq(Int) /\ chan[c] \in Seq(Int)
  BY Numbers DEF Inv, TypeOK, Followed, Receive, Send
<1> HIDE DEF k
<1>2. Standing(c)'
  BY <1>1 DEF Fine, Standing
<1>3. InOrder(c) /\ Complete(c) /\ Values(replay[c]) = {}
  BY <1>1 DEF Fine, Following, Standing, Values
<1>4. /\ k \in Int /\ Values(chan[c]) = {k} \cup Values(chan'[c])
      /\ Rising(chan'[c]) /\ \A v \in Values(chan'[c]) : k < v
  BY <1>1, <1>3, TakeFirst DEF InOrder, k
<1>5. /\ Rising(sent'[c])
      /\ Values(sent'[c]) = IF Passes(c, k) THEN Values(sent[c]) \cup {k} ELSE Values(sent[c])
  <2>1. \A v \in Values(sent[c]) : v < k
    BY <1>3, <1>4 DEF InOrder
  <2>2. Rising(Append(sent[c], k)) /\ Values(Append(sent[c], k)) = Values(sent[c]) \cup {k}
    BY <1>1, <1>3, <1>4, <2>1, RisingAppend, ValuesAppend DEF InOrder
  <2> QED
    BY <1>1, <1>3, <2>2 DEF InOrder
<1>6. InOrder(c)'
  BY <1>1, <1>3, <1>4, <1>5 DEF InOrder
<1>7. Complete(c)'
  BY <1>1, <1>3, <1>4, <1>5 DEF Complete, Held, First, Passes
<1> QED
  BY <1>2, <1>6, <1>7 DEF Fine

LEMMA MoveFine ==
  ASSUME Inv, NEW c \in Client,
         Connect(c) \/ ReplayEnds(c) \/ Leave(c) \/ Unregister(c)
  PROVE  Fine(c)'
<1>1. /\ Fine(c) /\ UNCHANGED <<chan, replay, sent, lines, from, lost>>
      /\ \/ pc[c] = "new" /\ pc'[c] = "register" /\ clients' = clients
         \/ pc[c] = "replay" /\ pc'[c] = "live" /\ replay[c] = <<>> /\ clients' = clients
         \/ pc[c] = "live" /\ pc'[c] = "leaving" /\ clients' = clients
         \/ pc[c] = "leaving" /\ pc'[c] = "gone" /\ c \notin clients'
  BY DEF Inv, TypeOK, Followed, Connect, ReplayEnds, Leave, Unregister, Goto
<1>2. Standing(c)'
  BY <1>1 DEF Fine, Standing
<1>3. Following(c)' => InOrder(c)' /\ Complete(c)'
  BY <1>1 DEF Fine, Following, InOrder, Complete, Held, First, Passes
<1> QED
  BY <1>2, <1>3 DEF Fine

LEMMA InvNext == Inv /\ [Next]_vars => Inv'
<1> SUFFICES ASSUME Inv, [Next]_vars PROVE Inv'
  OBVIOUS
<1>1. Ring' /\ TypeOK'
  BY RingNext, TypeNext DEF Inv
<1>2. ASSUME NEW d \in Client
      PROVE  Fine(d)'
  <2>1. CASE Broadcast
    BY <2>1, BroadcastFine
  <2>2. ASSUME NEW c \in Client, Connect(c) \/ Handler(c) \/ Leave(c)
        PROVE  Fine(d)'
    <3>1. CASE c = d
      BY <2>2, <3>1, RegisterFine, ReplayLineFine, ReceiveFine, MoveFine DEF Handler
    <3>2. CASE c # d
      <4>1. /\ d \in clients' <=> d \in clients
            /\ UNCHANGED <<pc[d], sent[d], replay[d], chan[d], from[d], lost[d], lines>>
        BY <2>2, <3>2 DEF Inv, TypeOK, Connect, Handler, RegisterWithReplay, ReplayLine,
           ReplayEnds, Receive, Leave, Unregister, Goto, Send
      <4> QED
        BY <4>1, OthersFine DEF Inv, Followed
    <3> QED
      BY <3>1, <3>2
  <2>3. CASE UNCHANGED vars
    BY <2>3, OthersFine DEF vars, handler, Inv, Followed
  <2> QED
    BY <2>1, <2>2, <2>3 DEF Next
<1> QED
  BY <1>1, <1>2 DEF Inv, Followed

LEMMA Invariance == Spec => []Inv
  BY InvInit, InvNext, PTL DEF Spec

\* The lines that wait and that are sent are lines that were written; this needs
\* that no slot of the ring is replayed before it is filled (server.go:224).
THEOREM TypeCorrect == Spec => []TypeOK
<1>1. Inv => TypeOK
  BY DEF Inv
<1> QED
  BY <1>1, Invariance, PTL

\* History and live lines join without gap or repetition in the stream of every
\* connection, whatever the sizes of the ring and of the channels, the levels
\* and the number of connections (server.go:180, handlers.go:732).
THEOREM StreamIsSeamless == Spec => []NoGapNoRepeat
<1>1. Inv => NoGapNoRepeat
  <2> SUFFICES ASSUME Inv, NEW c \in Client, Following(c)
               PROVE  /\ Rising(Stream(c))
                      /\ {k \in Values(Stream(c)) : Passes(c, k)}
                           = {k \in First(c)..lines : Passes(c, k) /\ k \notin lost[c]}
                      /\ \A k \in Values(sent[c]) : Passes(c, k)
    BY DEF NoGapNoRepeat
  <2>1. InOrder(c) /\ Complete(c)
    BY DEF Inv, Followed, Fine
  <2>2. sent[c] \in Seq(Int) /\ replay[c] \in Seq(Int) /\ chan[c] \in Seq(Int)
    BY Numbers
  <2>3. /\ sent[c] \o replay[c] \in Seq(Int) /\ Rising(sent[c] \o replay[c])
        /\ Values(sent[c] \o replay[c]) = Values(sent[c]) \cup Values(replay[c])
    BY <2>1, <2>2, Joined DEF InOrder
  <2>4. Rising(Stream(c)) /\ Values(Stream(c)) = Held(c)
    BY <2>1, <2>2, <2>3, Joined DEF InOrder, Stream, Held
  <2> QED
    BY <2>1, <2>4 DEF Complete
<1> QED
  BY <1>1, Invariance, PTL

-----------------------------------------------------------------------------
(* The filter. *)

\* Walk stops at the longest path that has a level.
LEMMA WalkFindsLongest ==
  ASSUME NEW overrides, NEW component, Len(component) \in Nat
  PROVE  \/ /\ \A n \in 1..Len(component) : SubSeq(component, 1, n) \notin DOMAIN overrides
            /\ Walk(overrides, component) = Unset
         \/ \E n \in 1..Len(component) :
              /\ SubSeq(component, 1, n) \in DOMAIN overrides
              /\ \A j \in n + 1..Len(component) : SubSeq(component, 1, j) \notin DOMAIN overrides
              /\ Walk(overrides, component) = overrides[SubSeq(component, 1, n)]
<1> DEFINE m == Len(component)
           Hit == {n \in 1..m : SubSeq(component, 1, n) \in DOMAIN overrides}
           says == [n \in 1..m |-> overrides[SubSeq(component, 1, n)]]
           Body(f) == [n \in 0..m |->
             IF n = 0 THEN Unset
             ELSE IF SubSeq(component, 1, n) \in DOMAIN overrides
                    THEN overrides[SubSeq(component, 1, n)]
                    ELSE f[n - 1]]
           At[n \in 0..m] ==
             IF n = 0 THEN Unset
             ELSE IF SubSeq(component, 1, n) \in DOMAIN overrides
                    THEN overrides[SubSeq(component, 1, n)]
                    ELSE At[n - 1]
<1>1. ASSUME NEW f PROVE  Search(f, m, Hit, says, Unset) <=> f = Body(f)
  BY DEF Search
<1>2. \E f : f = Body(f)
  BY <1>1, SearchExists
<1>3. At = Body(At)
  BY Zenon, <1>2
<1>4. Walk(overrides, component) = At[m]
  BY Zenon DEF Walk
<1>5. Latest(m, Hit, says, Unset, At[m])
  <2> HIDE DEF At, Hit, says, Body
  <2> QED
    BY <1>1, <1>3, SearchFindsLatest
<1> HIDE DEF At
<1> QED
  BY <1>4, <1>5 DEF Latest

\* The innermost component that has a level decides.
LEMMA EffectiveFindsInnermost ==
  ASSUME NEW global, NEW overrides, NEW components, Len(components) \in Nat
  PROVE  \/ /\ \A i \in 1..Len(components) : Walk(overrides, components[i]) = Unset
            /\ Effective(global, overrides, components) = global
         \/ \E i \in 1..Len(components) :
              /\ Walk(overrides, components[i]) # Unset
              /\ \A j \in i + 1..Len(components) : Walk(overrides, components[j]) = Unset
              /\ Effective(global, overrides, components) = Walk(overrides, components[i])
<1> DEFINE m == Len(components)
           Hit == {i \in 1..m : Walk(overrides, components[i]) # Unset}
           says == [i \in 1..m |-> Walk(overrides, components[i])]
           Body(f) == [i \in 0..m |->
             IF i = 0 THEN global
             ELSE IF Walk(overrides, components[i]) # Unset
                    THEN Walk(overrides, components[i])
                    ELSE f[i - 1]]
           Upto[i \in 0..m] ==
             IF i = 0 THEN global
             ELSE IF Walk(overrides, components[i]) # Unset
                    THEN Walk(overrides, components[i])
                    ELSE Upto[i - 1]
<1>1. ASSUME NEW f PROVE  Search(f, m, Hit, says, global) <=> f = Body(f)
  BY DEF Search
<1>2. \E f : f = Body(f)
  BY <1>1, SearchExists
<1>3. Upto = Body(Upto)
  BY Zenon, <1>2
<1>4. Effective(global, overrides, components) = Upto[m]
  BY Zenon DEF Effective
<1>5. Latest(m, Hit, says, global, Upto[m])
  <2> HIDE DEF Upto, Hit, says, Body
  <2> QED
    BY <1>1, <1>3, SearchFindsLatest
<1> HIDE DEF Upto
<1> QED
  BY <1>4, <1>5 DEF Latest

\* Severities that a filter compares are numbers, so that the least is one of them.
LEMMA MinLevelIsLeast ==
  ASSUME NEW c \in Configuration
  PROVE  \A l \in {c.global} \cup {c.overrides[p] : p \in DOMAIN c.overrides} :
           MinLevel(c.global, c.overrides) \in Severity /\ MinLevel(c.global, c.overrides) <= l
<1> DEFINE levels == {c.global} \cup {c.overrides[p] : p \in DOMAIN c.overrides}
<1>1. levels \subseteq Severity /\ c.global \in levels
  BY DEF Configuration, Overrides
<1>2. \E l \in levels : \A k \in levels : l <= k
  <2> HIDE DEF levels
  <2>1. levels \subseteq {0, 1, 2, 3, 4}
    BY <1>1 DEF Severity
  <2>2. CASE 0 \in levels
    BY <2>1, <2>2
  <2>3. CASE 0 \notin levels /\ 1 \in levels
    BY <2>1, <2>3
  <2>4. CASE levels \subseteq {2, 3, 4} /\ 2 \in levels
    BY <2>4
  <2>5. CASE levels \subseteq {3, 4} /\ 3 \in levels
    BY <2>5
  <2>6. CASE levels = {4}
    BY <2>6
  <2>7. levels # {}
    BY <1>1
  <2> QED
    BY <2>1, <2>2, <2>3, <2>4, <2>5, <2>6, <2>7
<1>3. /\ MinLevel(c.global, c.overrides) \in levels
      /\ \A k \in levels : MinLevel(c.global, c.overrides) <= k
  <2>1. MinLevel(c.global, c.overrides) = CHOOSE l \in levels : \A k \in levels : l <= k
    BY Zenon DEF MinLevel
  <2> HIDE DEF levels
  <2> QED
    BY Zenon, <1>2, <2>1
<1> QED
  BY <1>1, <1>3

\* The shape of what a record carries.
LEMMA ComponentsShape ==
  ASSUME NEW components \in Components
  PROVE  /\ Len(components) \in Nat
         /\ \A i \in 1..Len(components) : Len(components[i]) \in 1..Depth
<1>1. PICK n \in 0..Depth : components \in [1..n -> Component]
  BY DEF Components
<1>2. n \in Nat /\ Depth \in Nat
  BY FilterAssumption
<1>3. Len(components) = n
  BY <1>1, <1>2
<1>4. ASSUME NEW i \in 1..n
      PROVE  Len(components[i]) \in 1..Depth
  <2>0. components[i] \in Component
    BY <1>1, <1>4
  <2>1. PICK k \in 1..Depth : components[i] \in [1..k -> Part]
    BY <2>0 DEF Component
  <2>2. k \in Nat
    BY <1>2
  <2> QED
    BY <2>1, <2>2
<1> QED
  BY <1>2, <1>3, <1>4

\* The filter is exact for any components, overrides and levels.
THEOREM FilterExact == Inexact = {}
<1> SUFFICES ASSUME NEW c \in Configuration, NEW components \in Components
             PROVE  LET Path(p) == SubSeq(components[p[1]], 1, p[2])
                        Hits    == {p \in (1..Len(components)) \X (1..Depth) :
                                      p[2] <= Len(components[p[1]]) /\ Path(p) \in DOMAIN c.overrides}
                        Asked   == {c.overrides[Path(p)] : p \in
                                      {p \in Hits : \A q \in Hits :
                                          q[1] < p[1] \/ (q[1] = p[1] /\ q[2] <= p[2])}}
                    IN  \A level \in 0..3 :
                          Writes(c.global, c.overrides, components, level)
                            <=> \A l \in (IF Hits = {} THEN {c.global} ELSE Asked) : level >= l
  BY DEF Inexact, Exact
<1> DEFINE o == c.overrides
           m == Len(components)
           Path(p) == SubSeq(components[p[1]], 1, p[2])
           Hits == {p \in (1..m) \X (1..Depth) : p[2] <= Len(components[p[1]]) /\ Path(p) \in DOMAIN o}
           Top(p) == \A q \in Hits : q[1] < p[1] \/ (q[1] = p[1] /\ q[2] <= p[2])
           Asked == {o[Path(p)] : p \in {p \in Hits : Top(p)}}
           effective == Effective(c.global, o, components)
<1>1. m \in Nat /\ \A i \in 1..m : Len(components[i]) \in 1..Depth
  BY ComponentsShape
<1>2. c.global \in Severity /\ \A path \in DOMAIN o : o[path] \in Severity
  BY DEF Configuration, Overrides
<1>3. ASSUME NEW i \in 1..m
      PROVE  \/ Walk(o, components[i]) = Unset /\ \A p \in Hits : p[1] # i
             \/ \E p \in Hits : /\ p[1] = i /\ Walk(o, components[i]) = o[Path(p)]
                                /\ \A q \in Hits : q[1] = i => q[2] <= p[2]
  <2>1. Len(components[i]) \in 1..Depth
    BY <1>1
  <2>2. CASE /\ \A n \in 1..Len(components[i]) : SubSeq(components[i], 1, n) \notin DOMAIN o
             /\ Walk(o, components[i]) = Unset
    BY <2>1, <2>2
  <2>3. ASSUME NEW n \in 1..Len(components[i]),
               SubSeq(components[i], 1, n) \in DOMAIN o,
               \A j \in n + 1..Len(components[i]) : SubSeq(components[i], 1, j) \notin DOMAIN o,
               Walk(o, components[i]) = o[SubSeq(components[i], 1, n)]
        PROVE  \E p \in Hits : /\ p[1] = i /\ Walk(o, components[i]) = o[Path(p)]
                               /\ \A q \in Hits : q[1] = i => q[2] <= p[2]
    <3>0. n \in 1..Depth /\ Path(<<i, n>>) = SubSeq(components[i], 1, n)
      BY <2>1, FilterAssumption
    <3>1. <<i, n>> \in Hits
      BY <2>1, <2>3, <3>0
    <3>2. ASSUME NEW q \in Hits, q[1] = i
          PROVE  q[2] <= n
      <4>1. q[2] \in 1..Len(components[i]) /\ SubSeq(components[i], 1, q[2]) \in DOMAIN o
        BY <2>1, <3>2, FilterAssumption
      <4> QED
        BY <2>1, <2>3, <4>1
    <3> QED
      BY <2>3, <3>0, <3>1, <3>2
  <2> HIDE DEF Hits, Path, o
  <2> QED
    BY <2>1, <2>2, <2>3, WalkFindsLongest
<1>4. \A p \in Hits : p[1] \in 1..m /\ p[2] \in 1..Depth /\ o[Path(p)] \in Severity
  BY <1>2
<1>5. ASSUME NEW p \in Hits
      PROVE  Walk(o, components[p[1]]) # Unset
  <2>1. p[1] \in 1..m
    BY <1>4
  <2>2. PICK r \in Hits : Walk(o, components[p[1]]) = o[Path(r)]
    <3> HIDE DEF Hits, Path, o
    <3> QED
      BY <1>3, <2>1
  <2>3. o[Path(r)] \in Severity
    <3> HIDE DEF Hits, Path, o
    <3> QED
      BY <1>4
  <2> HIDE DEF Hits, Path, o
  <2> QED
    BY <2>2, <2>3 DEF Severity, Unset
<1>6. ASSUME \A i \in 1..m : Walk(o, components[i]) = Unset
      PROVE  Hits = {}
  BY <1>5, <1>6
<1>7. ASSUME NEW i \in 1..m, Walk(o, components[i]) # Unset,
             \A j \in i + 1..m : Walk(o, components[j]) = Unset,
             effective = Walk(o, components[i])
      PROVE  Hits # {} /\ Asked = {effective} /\ \E path \in DOMAIN o : effective = o[path]
  <2>1. PICK p \in Hits : /\ p[1] = i /\ Walk(o, components[i]) = o[Path(p)]
                          /\ \A q \in Hits : q[1] = i => q[2] <= p[2]
    BY <1>3, <1>7
  <2>2. ASSUME NEW q \in Hits
        PROVE  q[1] < i \/ q[1] = i
    <3>1. q[1] \in 1..m
      BY <1>4
    <3>2. q[1] \notin i + 1..m
      BY <1>7, <1>5
    <3> QED
      BY <1>1, <3>1, <3>2
  <2>3. Top(p)
    BY <2>1, <2>2
  <2>4. ASSUME NEW q \in Hits, Top(q)
        PROVE  q = p
    <3>1. p[1] < q[1] \/ (p[1] = q[1] /\ p[2] <= q[2])
      BY <2>4
    <3>2. q[1] < p[1] \/ (q[1] = p[1] /\ q[2] <= p[2])
      BY <2>3
    <3>3. q[1] = p[1] /\ q[2] = p[2]
      BY <1>1, <1>4, <3>1, <3>2, FilterAssumption
    <3>4. q = <<q[1], q[2]>> /\ p = <<p[1], p[2]>>
      BY DEF Hits
    <3> QED
      BY <3>3, <3>4
  <2>5. Asked = {o[Path(p)]}
    <3> HIDE DEF Hits, Path, Top, o
    <3> QED
      BY <2>3, <2>4
  <2>6. Path(p) \in DOMAIN o
    BY DEF Hits
  <2> QED
    BY <1>7, <2>1, <2>5, <2>6
<1>8. ASSUME NEW level \in 0..3,
             MinLevel(c.global, o) \in Severity, MinLevel(c.global, o) <= effective,
             effective \in Severity
      PROVE  Writes(c.global, o, components, level) <=> level >= effective
  BY <1>8 DEF Writes, Severity
<1>9. \A l \in {c.global} \cup {o[path] : path \in DOMAIN o} :
        MinLevel(c.global, o) \in Severity /\ MinLevel(c.global, o) <= l
  BY MinLevelIsLeast
<1> HIDE DEF Hits, Path, Top, o, m, effective
<1>10. /\ effective \in {c.global} \cup {o[path] : path \in DOMAIN o}
       /\ \A l : l \in (IF Hits = {} THEN {c.global} ELSE Asked) <=> l = effective
  <2>1. \/ (\A i \in 1..m : Walk(o, components[i]) = Unset) /\ effective = c.global
        \/ \E i \in 1..m :
              /\ Walk(o, components[i]) # Unset
              /\ \A j \in i + 1..m : Walk(o, components[j]) = Unset
              /\ effective = Walk(o, components[i])
    <3>1. Len(components) \in Nat
      BY <1>1 DEF m
    <3> QED
      BY SMTT(30), <3>1, EffectiveFindsInnermost DEF effective, m
  <2>2. CASE (\A i \in 1..m : Walk(o, components[i]) = Unset) /\ effective = c.global
    BY <1>6, <2>2
  <2>3. CASE \E i \in 1..m :
               /\ Walk(o, components[i]) # Unset
               /\ \A j \in i + 1..m : Walk(o, components[j]) = Unset
               /\ effective = Walk(o, components[i])
    BY <1>7, <2>3
  <2> QED
    BY <2>1, <2>2, <2>3
<1>11. effective \in Severity
  BY <1>2, <1>10
<1>12. \A level \in 0..3 :
         Writes(c.global, o, components, level)
           <=> \A l \in (IF Hits = {} THEN {c.global} ELSE Asked) : level >= l
  BY <1>8, <1>9, <1>10, <1>11
<1> QED
  BY <1>12 DEF Hits, Path, Top, o, m

\* Of levels there is always a most severe one.
LEMMA SomeLargest ==
  ASSUME NEW S \in SUBSET (0..3), S # {}
  PROVE  \E l \in S : \A m \in S : m <= l
<1>1. CASE 3 \in S
  BY <1>1
<1>2. CASE 3 \notin S /\ 2 \in S
  BY <1>2
<1>3. CASE 3 \notin S /\ 2 \notin S /\ 1 \in S
  BY <1>3
<1>4. CASE 3 \notin S /\ 2 \notin S /\ 1 \notin S
  <2>1. \A m \in S : m = 0
    <3> SUFFICES ASSUME NEW m \in S PROVE m = 0
      OBVIOUS
    <3>1. m \in 0..3 /\ m # 3 /\ m # 2 /\ m # 1
      BY <1>4
    <3> QED
      BY <3>1
  <2>2. PICK l \in S : TRUE
    OBVIOUS
  <2>3. \A m \in S : m <= l
    BY <2>1, <2>2
  <2> QED
    BY Zenon, <2>2, <2>3
<1> QED
  BY Zenon, <1>1, <1>2, <1>3, <1>4

\* What is written is decided by the most specific level, and no text hides a
\* record from a browser that asks for its level, for any levels, components and
\* texts (logger.go:187-216, handlers.go:715-729).
THEOREM NothingHidden == Spec => []FilterObeyed
<1>1. TypeOK /\ NoGapNoRepeat => FilterObeyed
  <2> SUFFICES ASSUME TypeOK, NoGapNoRepeat,
                      NEW c \in Client, Following(c), NEW k \in (First(c)..lines) \ lost[c],
                      WrittenRecords[k].level \in WrittenRecords[k].markers,
                      WrittenRecords[k].level >= Threshold[c]
               PROVE  k \in Values(Stream(c))
    BY FilterExact DEF FilterObeyed
  <2> DEFINE r == WrittenRecords[k]
  <2>1. k \in 1..MaxLines
    BY SizesAssumption DEF TypeOK, First
  <2>2. r.markers \subseteq 0..3 /\ Level[k] = LineLevel(r)
    BY <2>1, LinesAssumption
  <2>3. \E l \in r.markers : \A m \in r.markers : m <= l
    <3> HIDE DEF r
    <3> QED
      BY <2>2, SomeLargest DEF r
  <2>4. LineLevel(r) \in r.markers /\ \A m \in r.markers : m <= LineLevel(r)
    BY <2>3 DEF LineLevel
  <2>5. Level[k] >= r.level
    BY <2>2, <2>4
  <2>6. Threshold[c] \in 0..3 /\ Level[k] \in -1..3 /\ r.level \in 0..3
    BY <2>1, <2>2, LevelsAssumption
  <2>7. Passes(c, k)
    BY <2>5, <2>6 DEF Passes
  <2> QED
    BY <2>7 DEF NoGapNoRepeat
<1> QED
  BY <1>1, TypeCorrect, StreamIsSeamless, PTL

=============================================================================
