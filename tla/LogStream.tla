------------------------------ MODULE LogStream ------------------------------
(***************************************************************************)
(* The stream of LogBroadcaster fed by the logger: the k-th line is the    *)
(* k-th of the records that the filter of LogFilter writes.                *)
(***************************************************************************)
EXTENDS LogBroadcaster, LogFilter

CONSTANTS
  Global,   \* the level for everything
  Override, \* Override[c]: the level of component c
  Record    \* the records in the order in which they are logged; markers are the
            \* levels whose marker stands anywhere in the record's line

\* The levels the process runs with, asked of a record (Setup, filterHandler).
Written(r) == Writes(Global, Override, r.components, r.level)

WrittenRecords == SelectSeq(Record, Written)

\* Variant: it looks for the least severe first.
LineLevelLeast(r) ==
  IF r.markers = {} THEN -1 ELSE CHOOSE l \in r.markers : \A m \in r.markers : l <= m

\* lineLevel looks for markers in the whole line, message and attributes included,
\* for the most severe first.
LineLevel(r) ==
  IF r.markers = {} THEN -1 ELSE CHOOSE l \in r.markers : \A m \in r.markers : m <= l

ASSUME LinesAssumption ==
  /\ MaxLines <= Len(WrittenRecords)
  /\ \A k \in 1..MaxLines :
       /\ WrittenRecords[k].markers \subseteq 0..3
       /\ Level[k] = LineLevel(WrittenRecords[k])

\* A record is written exactly when it is as severe as the most specific
\* override that applies to it asks for, or as the global level does where none
\* applies: the innermost component counts before the others, a longer path
\* before its parents.  The minimum that all sinks share (logger.go:40) neither
\* hides what a more talkative component lets through nor lets a silent one be
\* heard.  And no text hides a written record from a browser: where its own marker
\* is in the line, and its level is one the browser asks for, the line is in the
\* stream or was lost to a full channel.
FilterObeyed ==
  /\ Inexact = {}
  /\ \A c \in Client :
       Following(c) =>
         \A k \in (First(c)..lines) \ lost[c] :
           LET r == WrittenRecords[k]
           IN  r.level \in r.markers /\ r.level >= Threshold[c] => k \in Values(Stream(c))

=============================================================================
