------------------------------- MODULE LogFilter -------------------------------
(***************************************************************************)
(* Which log records are written: the handlers of internal/logger/logger.go*)
(* with a level for everything and levels of their own for components.     *)
(*                                                                         *)
(* Severities are 0 to 4: debug, info, warn, error, and off, above any     *)
(* record.  A component is the sequence of the parts of its path, "a/b"    *)
(* being <<a, b>>; overrides is a function from components to severities.  *)
(* A record carries its "component" attributes in the order in which they  *)
(* were added, the logger's own before those of the record.                *)
(***************************************************************************)
EXTENDS Integers, Sequences, FiniteSets

CONSTANTS
  Part,         \* parts of component paths
  Depth,        \* bound: parts of a path, and components of a record
  MaxOverrides  \* bound: components with a level of their own

ASSUME FilterAssumption == IsFiniteSet(Part) /\ {Depth, MaxOverrides} \subseteq Nat

Severity == 0..4

\* ParseLevel; the empty string, here blank, is info.
ParseLevel(name) ==
  CASE name = "debug" -> 0
    [] name \in {"info", "blank"} -> 1
    [] name \in {"warn", "warning"} -> 2
    [] name = "error" -> 3
    [] name = "off" -> 4

\* Variant: the overrides are not looked at.
MinLevelGlobal(global, overrides) == global

\* dynamicMinLevel: below it no sink is enabled.
MinLevel(global, overrides) ==
  LET levels == {global} \cup {overrides[c] : c \in DOMAIN overrides}
  IN  CHOOSE l \in levels : \A m \in levels : l <= m

\* A level no override has: there is none for the component.
Unset == -1

\* The level of the component's longest path that has one.
Walk(overrides, component) ==
  LET At[n \in 0..Len(component)] ==
        IF n = 0 THEN Unset
        ELSE IF SubSeq(component, 1, n) \in DOMAIN overrides
               THEN overrides[SubSeq(component, 1, n)]
               ELSE At[n - 1]
  IN  At[Len(component)]

\* filterHandler.Handle: the last component that has a level decides.
Effective(global, overrides, components) ==
  LET Upto[i \in 0..Len(components)] ==
        IF i = 0 THEN global
        ELSE IF Walk(overrides, components[i]) # Unset
               THEN Walk(overrides, components[i])
               ELSE Upto[i - 1]
  IN  Upto[Len(components)]

\* A record reaches the sinks: the logger asks Enabled, the filter looks at the
\* components, and each sink at its own minimum again.
Writes(global, overrides, components, level) ==
  /\ level >= MinLevel(global, overrides)
  /\ level >= Effective(global, overrides, components)

-----------------------------------------------------------------------------
(* What the filter promises, over all small configurations. *)

Component  == UNION {[1..n -> Part] : n \in 1..Depth}
Components == UNION {[1..n -> Component] : n \in 0..Depth}
Overrides  ==
  UNION {[D -> Severity] : D \in {S \in SUBSET Component : Cardinality(S) <= MaxOverrides}}

Configuration == [global : Severity, overrides : Overrides]

\* Under configuration c a record is written exactly when it is as severe as
\* the most specific override that applies to it asks for, or as the global level
\* does where none applies.
Exact(c) ==
  \A components \in Components :
    LET Path(p) == SubSeq(components[p[1]], 1, p[2])
        Hits    == {p \in (1..Len(components)) \X (1..Depth) :
                      p[2] <= Len(components[p[1]]) /\ Path(p) \in DOMAIN c.overrides}
        Asked   == {c.overrides[Path(p)] : p \in
                      {p \in Hits : \A q \in Hits :
                          q[1] < p[1] \/ (q[1] = p[1] /\ q[2] <= p[2])}}
    IN  \A level \in 0..3 :
          Writes(c.global, c.overrides, components, level)
            <=> \A l \in (IF Hits = {} THEN {c.global} ELSE Asked) : level >= l

Inexact == {c \in Configuration : ~Exact(c)}

=============================================================================
