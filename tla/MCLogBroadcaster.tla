-------------------------- MODULE MCLogBroadcaster --------------------------
\* Small instances of LogStream for TLC.
EXTENDS LogStream

CONSTANTS b1, b2

\* One connection asks for everything, one for the default level.
MCThreshold == [c \in {b1, b2} |-> IF c = b1 THEN 0 ELSE 1]

\* Debug for everything, info for "api".
MCGlobal   == ParseLevel("debug")
MCOverride == [c \in {<<"api">>} |-> ParseLevel("info")]

\* All but the second are written.  The fourth has a level between the named
\* ones, for which there is no marker.  The text of the third holds " DBG ", that of
\* the last " WRN ".
MCRecord ==
  << [level |-> 0, components |-> << <<"scheduler">> >>, markers |-> {0}],
     [level |-> 0, components |-> << <<"api">> >>, markers |-> {0}],
     [level |-> 1, components |-> << <<"api">> >>, markers |-> {0, 1}],
     [level |-> 1, components |-> <<>>, markers |-> {}],
     [level |-> 0, components |-> << <<"scheduler", "poll">> >>, markers |-> {0}],
     [level |-> 0, components |-> <<>>, markers |-> {0, 2}] >>

MCLevel == [k \in 1..MaxLines |-> LineLevel(WrittenRecords[k])]

=============================================================================
