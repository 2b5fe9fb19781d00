----------------------------- MODULE Configuration -----------------------------
(***************************************************************************)
(* What config.Load (internal/config/config.go) makes of a command line,   *)
(* the environment and the files it may find: a configuration or a refusal.*)
(*                                                                         *)
(* An option is one of the fields of Config that Validate looks at.  Of its *)
(* values only what tells them apart is kept: the usable ones, Refused, which *)
(* parses and which Validate turns down (an empty address, no crawlers, an *)
(* unknown mailer), and, for numbers and durations, Garbage.               *)
(***************************************************************************)
EXTENDS Naturals, FiniteSets

CONSTANTS
  Option,   \* fields of Config,
  Numeric,  \* those that are numbers or durations
  Usable,   \* values Validate accepts
  Default,  \* the one that each option has by itself,
  Unset, Refused, Garbage,  \* other things a source may say of an option
  Missing, Malformed,       \* what else there may be in the place of a file
  Stopped                   \* the daemon does not start: exit status 2

ASSUME ConfigurationAssumption ==
  /\ Numeric \subseteq Option
  /\ Default \in Usable
  /\ {Unset, Refused, Garbage} \cap Usable = {}
  /\ Unset # Refused /\ Garbage \notin {Unset, Refused}
  /\ Stopped \notin [Option -> Usable]

\* What the environment, or the flags, may say; a file with garbage is malformed.
Says(o)   == Usable \cup {Unset, Refused} \cup (IF o \in Numeric THEN {Garbage} ELSE {})
All(v)    == [o \in Option |-> v]
Silent    == All(Unset)
Layer(o)  == {[Silent EXCEPT ![o] = v] : v \in Says(o)}
FileOf(o) == {[Silent EXCEPT ![o] = v] : v \in Says(o) \ {Garbage}} \cup {Missing, Malformed}

\* The file that nobody has to name, the one -config names, and the one
\* RSS2GO_CONFIG names.
File == {"rss2go.yaml", "flag", "env"}

\* Command lines in which one option is set: options do not touch each other.
\* The -config flag is "late" where it stands behind another flag.
CommandLine ==
  UNION {{t \in [files : [File -> FileOf(o)],
                 named : SUBSET {"flag", "env"}, late : BOOLEAN,
                 env   : Layer(o), flags : Layer(o)] :
            t.late => "flag" \in t.named /\ t.flags # Silent} : o \in Option}

\* The first pass over the flags knows only -config and gives up at another one.
Place(t) ==
  CASE "env" \in t.named -> "env"
    [] "env" \notin t.named /\ "flag" \in t.named /\ ~t.late -> "flag"
    [] "env" \notin t.named /\ ("flag" \notin t.named \/ t.late) -> "rss2go.yaml"
Explicit(t) == Place(t) # "rss2go.yaml"

Over(base, layer, passed) ==
  [o \in Option |-> IF layer[o] \in passed THEN base[o] ELSE layer[o]]

Valid(c) == \A o \in Option : c[o] # Refused

\* Variant: the environment comes after the flags.
LoadEnvironmentLast(t) ==
  LET found  == t.files[Place(t)]
      file   == IF found = Missing THEN All(Default) ELSE Over(All(Default), found, {Unset})
      result == Over(Over(file, t.flags, {Unset}), t.env, {Unset, Garbage})
  IN  IF \/ found = Malformed
         \/ found = Missing /\ Explicit(t)
         \/ \E o \in Option : t.flags[o] = Garbage
         \/ ~Valid(result)
      THEN Stopped ELSE result

Load(t) ==
  LET found  == t.files[Place(t)]
      file   == IF found = Missing THEN All(Default) ELSE Over(All(Default), found, {Unset})
      result == Over(Over(file, t.env, {Unset, Garbage}), t.flags, {Unset})
  IN  IF \/ found = Malformed
         \/ found = Missing /\ Explicit(t)
         \/ \E o \in Option : t.flags[o] = Garbage
         \/ ~Valid(result)
      THEN Stopped ELSE result

-----------------------------------------------------------------------------
(* What loading promises, over all these command lines. *)

\* The sources of an option where f is the file to read, the strongest first
\* (config.go:55).
Sources(t, f, o) ==
  <<t.flags[o], t.env[o],
    IF t.files[f] \in {Missing, Malformed} THEN Unset ELSE t.files[f][o], Default>>

\* A daemon that starts with configuration c has for each option a usable value,
\* from the strongest source that says anything of it, but for a number in the
\* environment that is none, and has read f unless that is the file nobody named
\* and missing; one that does not start was told something wrong.
Obeys(t, f, c) ==
  IF c # Stopped
    THEN /\ \A o \in Option : \E i \in 1..4 :
              /\ c[o] = Sources(t, f, o)[i] /\ c[o] \in Usable
              /\ \A j \in 1..(i - 1) : Sources(t, f, o)[j] = Unset
                                       \/ (j = 2 /\ Sources(t, f, o)[j] = Garbage)
         /\ t.files[f] # Malformed
         /\ t.files[f] = Missing => f = "rss2go.yaml"
    ELSE \/ \E o \in Option : t.flags[o] = Garbage
         \/ \E o \in Option, i \in 1..3 : Sources(t, f, o)[i] = Refused
         \/ t.files[f] = Malformed
         \/ t.files[f] = Missing /\ f # "rss2go.yaml"

\* The file the daemon is told to read: "CLI flag -> env var -> default"
\* (config.go:59).
Intended(t) ==
  IF "flag" \in t.named THEN "flag" ELSE IF "env" \in t.named THEN "env" ELSE "rss2go.yaml"

Told(t, c) == Obeys(t, Intended(t), c)

\* At most one file is named, and -config stands where the first pass finds it.
Clear(t) == ~t.late /\ t.named # {"flag", "env"}

\* The clear command lines that are not loaded as told, and the others of which
\* no single choice of the file explains the outcome.
Misread ==
  {t \in CommandLine :
     IF Clear(t) THEN ~Told(t, Load(t))
                 ELSE \A f \in t.named \cup {"rss2go.yaml"} : ~Obeys(t, f, Load(t))}

Configurations == {Load(t) : t \in CommandLine} \ {Stopped}

=============================================================================
