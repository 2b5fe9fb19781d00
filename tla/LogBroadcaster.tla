---------------------------- MODULE LogBroadcaster ----------------------------
(***************************************************************************)
(* The log lines of the process and the browsers that follow them:         *)
(* LogBroadcaster and sseWriter of internal/server/server.go, and          *)
(* handleGetLogs of internal/server/handlers.go.                           *)
(*                                                                         *)
(* A ring keeps the latest lines for replay.  Each connection registers a  *)
(* channel, is sent the history, and then what comes in on its channel; a  *)
(* line finds no room in the channel of a slow one is lost to it.  Every   *)
(* method of the broadcaster runs under its mutex and is one step.         *)
(*                                                                         *)
(* Line k is the k-th line written; the text is left out but for its level.*)
(***************************************************************************)
EXTENDS Integers, Sequences

CONSTANTS
  Client,    \* connections to /api/logs
  RingSize,  \* len(b.ring)
  ChanSize,  \* the capacity of a channel
  Threshold, \* Threshold[c]: the level connection c asks for
  MaxLines,  \* bound: lines written
  Level      \* Level[k]: lineLevel of line k, -1 where it finds no marker

ASSUME SizesAssumption == RingSize \in Nat \ {0} /\ ChanSize \in Nat /\ MaxLines \in Nat
ASSUME LevelsAssumption ==
  Threshold \in [Client -> 0..3] /\ Level \in [1..MaxLines -> -1..3]

VARIABLES
  \* The LogBroadcaster; 0 is the empty string of a slot never written.
  ring, ringHead, ringLen,
  clients,   \* registered channels
  chan,      \* chan[c]: what waits in c's channel
  \* handleGetLogs.
  pc,
  replay,    \* replay[c]: the part of the history still to be sent
  sent,      \* sent[c]: lines sent to connection c
  \* History.
  lines,     \* lines broadcast
  from,      \* from[c]: lines broadcast before c registered
  lost       \* lost[c]: lines that found no room in c's channel

buffer  == <<ring, ringHead, ringLen>>
handler == <<pc, replay, sent>>
vars    == <<buffer, clients, chan, handler, lines, from, lost>>

Line == 1..MaxLines
Slot == 0..RingSize - 1

TypeOK ==
  /\ ring \in [Slot -> 0..MaxLines]
  /\ ringHead \in Slot
  /\ ringLen \in 0..RingSize
  /\ clients \in SUBSET Client
  /\ chan \in [Client -> Seq(Line)]
  /\ pc \in [Client -> {"new", "register", "replay", "live", "leaving", "gone"}]
  /\ replay \in [Client -> Seq(Line)]
  /\ sent \in [Client -> Seq(Line)]
  /\ lines \in 0..MaxLines
  /\ from \in [Client -> 0..MaxLines]
  /\ lost \in [Client -> SUBSET Line]

Init ==
  /\ ring = [s \in Slot |-> 0]
  /\ ringHead = 0
  /\ ringLen = 0
  /\ clients = {}
  /\ chan = [c \in Client |-> <<>>]
  /\ pc = [c \in Client |-> "new"]
  /\ replay = [c \in Client |-> <<>>]
  /\ sent = [c \in Client |-> <<>>]
  /\ lines = 0
  /\ from = [c \in Client |-> 0]
  /\ lost = [c \in Client |-> {}]

\* historyLocked: the lines of the ring, oldest first; the variant starts at
\* the head, which is right only once the ring is full.
HistoryFromHead == [i \in 1..ringLen |-> ring[(ringHead + i - 1) % RingSize]]
History ==
  LET start == (ringHead - ringLen + RingSize) % RingSize
  IN  [i \in 1..ringLen |-> ring[(start + i - 1) % RingSize]]

-----------------------------------------------------------------------------
\* The write into the ring, overwriting the oldest line when it is full; the
\* variant lets ringLen grow past the ring.
WriteRingUncapped(k) ==
  /\ ring' = [ring EXCEPT ![ringHead] = k]
  /\ ringHead' = (ringHead + 1) % RingSize
  /\ ringLen' = ringLen + 1
WriteRing(k) ==
  /\ ring' = [ring EXCEPT ![ringHead] = k]
  /\ ringHead' = (ringHead + 1) % RingSize
  /\ ringLen' = IF ringLen < RingSize THEN ringLen + 1 ELSE ringLen

HasRoom(c) == Len(chan[c]) < ChanSize

\* The line goes to every channel that has room; one that has none loses it.
Dispatch(k) ==
  /\ chan' = [c \in Client |->
                IF c \in clients /\ HasRoom(c) THEN Append(chan[c], k) ELSE chan[c]]
  /\ lost' = [c \in Client |->
                IF c \in clients /\ ~HasRoom(c) THEN lost[c] \cup {k} ELSE lost[c]]

\* sseWriter.Write, its line already written to the console.  The logger's
\* handler writes one line at a time.
Broadcast ==
  /\ lines < MaxLines
  /\ lines' = lines + 1
  /\ WriteRing(lines')
  /\ Dispatch(lines')
  /\ UNCHANGED <<clients, handler, from>>

-----------------------------------------------------------------------------
Goto(c, p, q) == pc[c] = p /\ pc' = [pc EXCEPT ![c] = q]

Connect(c) ==
  /\ Goto(c, "new", "register")
  /\ UNCHANGED <<buffer, clients, chan, replay, sent, lines, from, lost>>

\* Variant: the history is read before the channel is registered, under two
\* acquisitions of the mutex.
RegisterSplit(c) ==
  \/ /\ pc[c] = "register"
     /\ replay[c] = <<>>
     /\ ringLen > 0
     /\ replay' = [replay EXCEPT ![c] = History]
     /\ from' = [from EXCEPT ![c] = lines]
     /\ UNCHANGED <<buffer, clients, chan, pc, sent, lines, lost>>
  \/ /\ Goto(c, "register", "replay")
     /\ replay[c] # <<>> \/ ringLen = 0
     /\ clients' = clients \cup {c}
     /\ UNCHANGED <<buffer, chan, replay, sent, lines, from, lost>>

RegisterWithReplay(c) ==
  /\ Goto(c, "register", "replay")
  /\ clients' = clients \cup {c}
  /\ replay' = [replay EXCEPT ![c] = History]
  /\ from' = [from EXCEPT ![c] = lines]
  /\ UNCHANGED <<buffer, chan, sent, lines, lost>>

\* The level filter: lines without a marker pass.  The variant drops them.
PassesMarked(c, k) == Level[k] >= Threshold[c]
Passes(c, k) == Level[k] = -1 \/ Level[k] >= Threshold[c]

Send(c, k) == sent' = [sent EXCEPT ![c] = IF Passes(c, k) THEN Append(@, k) ELSE @]

ReplayLine(c) ==
  /\ pc[c] = "replay"
  /\ replay[c] # <<>>
  /\ Send(c, Head(replay[c]))
  /\ replay' = [replay EXCEPT ![c] = Tail(@)]
  /\ UNCHANGED <<buffer, clients, chan, pc, lines, from, lost>>

ReplayEnds(c) ==
  /\ replay[c] = <<>>
  /\ Goto(c, "replay", "live")
  /\ UNCHANGED <<buffer, clients, chan, replay, sent, lines, from, lost>>

Receive(c) ==
  /\ pc[c] = "live"
  /\ chan[c] # <<>>
  /\ Send(c, Head(chan[c]))
  /\ chan' = [chan EXCEPT ![c] = Tail(@)]
  /\ UNCHANGED <<buffer, clients, pc, replay, lines, from, lost>>

\* The browser goes away; the live loop notices, and Unregister runs.
Leave(c) ==
  /\ Goto(c, "live", "leaving")
  /\ UNCHANGED <<buffer, clients, chan, replay, sent, lines, from, lost>>

Unregister(c) ==
  /\ Goto(c, "leaving", "gone")
  /\ clients' = clients \ {c}
  /\ UNCHANGED <<buffer, chan, replay, sent, lines, from, lost>>

-----------------------------------------------------------------------------
Handler(c) ==
  \/ RegisterWithReplay(c) \/ ReplayLine(c) \/ ReplayEnds(c) \/ Receive(c) \/ Unregister(c)

Next ==
  \/ Broadcast
  \/ \E c \in Client : Connect(c) \/ Handler(c) \/ Leave(c)

Spec == Init /\ [][Next]_vars

\* The goroutine of each connection is scheduled.
Fairness == \A c \in Client : WF_vars(Handler(c))

FairSpec == Spec /\ Fairness

-----------------------------------------------------------------------------
(* What the broadcaster promises. *)

\* The ring holds exactly the latest lines, as many as it has room for, oldest
\* first, however often it has wrapped around.
HistoryIsLatest ==
  /\ ringLen = IF lines < RingSize THEN lines ELSE RingSize
  /\ History = [i \in 1..ringLen |-> lines - ringLen + i]

Following(c) == pc[c] \in {"replay", "live"}

\* The oldest line that was still in the ring when c registered.
First(c) == IF from[c] < RingSize THEN 1 ELSE from[c] - RingSize + 1

\* What c has been sent, what it will be replayed and what waits in its channel.
Stream(c) == sent[c] \o replay[c] \o chan[c]

Rising(s) == \A i, j \in 1..Len(s) : i < j => s[i] < s[j]
Values(s) == {s[i] : i \in 1..Len(s)}

\* The stream of a connection rises from what was in the ring when it registered
\* to the latest line: history and live lines follow in order and no line comes
\* twice; and of the lines of its level it holds every one but those that a full
\* channel lost.  It is the race between replay and live lines that
\* RegisterWithReplay is there to exclude.
NoGapNoRepeat ==
  \A c \in Client :
    Following(c) =>
      /\ Rising(Stream(c))
      /\ {k \in Values(Stream(c)) : Passes(c, k)}
           = {k \in First(c)..lines : Passes(c, k) /\ k \notin lost[c]}
      /\ \A k \in Values(sent[c]) : Passes(c, k)

\* A line reaches every connection that was following when it was written, is
\* asking for its level, does not leave and does not lose it.
LinesArrive ==
  \A c \in Client, k \in Line :
    (Following(c) /\ from[c] < k /\ k <= lines)
      ~> \/ (\E i \in 1..Len(sent[c]) : sent[c][i] = k) \/ k \in lost[c] \/ ~Following(c)
         \/ (Level[k] # -1 /\ Level[k] < Threshold[c])

=============================================================================
