------------------------------- MODULE Loading -------------------------------
(***************************************************************************)
(* One call of config.Load with any command line, environment and files,   *)
(* and what the comments of config.go say of the file it reads.            *)
(***************************************************************************)
EXTENDS Configuration

VARIABLES
  line,   \* the command line, environment and files
  loaded, \* Load has returned
  result  \* what it has returned

vars == <<line, loaded, result>>

Init ==
  /\ line \in CommandLine
  /\ loaded = FALSE
  /\ result = Stopped

Return ==
  /\ ~loaded
  /\ loaded' = TRUE
  /\ result' = Load(line)
  /\ UNCHANGED line

Next == Return

Spec == Init /\ [][Next]_vars

-----------------------------------------------------------------------------
\* The file is the one the command line tells of, -config before RSS2GO_CONFIG:
\* "CLI flag -> env var -> default" (config.go:59), and a daemon starts only where a
\* file it was told of is there: "error if explicitly required but missing"
\* (config.go:80).
FileAsTold == loaded => Told(line, result)

=============================================================================
