----------------------------- MODULE DaemonProofs -----------------------------
(***************************************************************************)
(* Theorems about Daemon, for any processes, migrations and options, and   *)
(* about Configuration, for every command line.                            *)
(***************************************************************************)
EXTENDS Daemon, TLAPS

Value == Usable \cup {Unset, Refused, Garbage}

-----------------------------------------------------------------------------
(* Loading. *)

\* What a command line is made of, without the rule that only one option is set.
LEMMA CommandLineShape ==
  ASSUME NEW t \in CommandLine
  PROVE  /\ t.env \in [Option -> Value]
         /\ t.flags \in [Option -> Value]
         /\ t.named \in SUBSET {"flag", "env"}
         /\ Place(t) \in t.named \cup {"rss2go.yaml"}
         /\ t.files[Place(t)] \in {Missing, Malformed} \cup [Option -> Value \ {Garbage}]
<1> PICK o \in Option :
      t \in [files : [File -> FileOf(o)],
             named : SUBSET {"flag", "env"}, late : BOOLEAN,
             env   : Layer(o), flags : Layer(o)]
  BY DEF CommandLine
<1>1. Layer(o) \subseteq [Option -> Value]
  BY DEF Layer, Silent, All, Says, Value
<1>2. FileOf(o) \subseteq {Missing, Malformed} \cup [Option -> Value \ {Garbage}]
  BY ConfigurationAssumption DEF FileOf, Layer, Silent, All, Says, Value
<1>3. t.named \in SUBSET {"flag", "env"} /\ t.late \in BOOLEAN
  OBVIOUS
<1>4. Place(t) \in t.named \cup {"rss2go.yaml"}
  BY <1>3 DEF Place
<1>5. Place(t) \in File
  BY <1>3, <1>4 DEF File
<1> QED
  BY <1>1, <1>2, <1>3, <1>4, <1>5

\* What loading leaves of an option: the strongest source that says anything of
\* it, after garbage in the environment is passed over.
Strongest(t, file, o) ==
  IF t.flags[o] # Unset THEN t.flags[o]
  ELSE IF t.env[o] \notin {Unset, Garbage} THEN t.env[o]
  ELSE IF file # Missing /\ file[o] # Unset THEN file[o]
  ELSE Default

LEMMA LoadTakesStrongest ==
  ASSUME NEW t \in CommandLine,
         t.files[Place(t)] # Malformed,
         t.files[Place(t)] = Missing => ~Explicit(t),
         \A o \in Option : t.flags[o] # Garbage
  PROVE  LET c == [o \in Option |-> Strongest(t, t.files[Place(t)], o)]
         IN  Load(t) = IF Valid(c) THEN c ELSE Stopped
<1> DEFINE found  == t.files[Place(t)]
           file   == IF found = Missing THEN All(Default) ELSE Over(All(Default), found, {Unset})
           result == Over(Over(file, t.env, {Unset, Garbage}), t.flags, {Unset})
           c      == [o \in Option |-> Strongest(t, found, o)]
<1>1. \A o \in Option :
        file[o] = IF found # Missing /\ found[o] # Unset THEN found[o] ELSE Default
  BY DEF All, Over
<1>2. result = c
  <2>1. \A o \in Option : result[o] = Strongest(t, found, o)
    BY <1>1 DEF Over, Strongest
  <2> QED
    BY <2>1 DEF Over
<1>3. Load(t) = IF ~Valid(result) THEN Stopped ELSE result
  BY DEF Load
<1> QED
  BY <1>2, <1>3

\* With the file that Load settles on, every command line is loaded as config.go:55
\* says, or refused for a reason.
LEMMA LoadObeysPlace ==
  ASSUME NEW t \in CommandLine
  PROVE  Obeys(t, Place(t), Load(t))
<1> DEFINE found == t.files[Place(t)]
           c     == [o \in Option |-> Strongest(t, found, o)]
<1>1. CASE \/ found = Malformed
           \/ found = Missing /\ Explicit(t)
           \/ \E o \in Option : t.flags[o] = Garbage
  <2>1. Load(t) = Stopped
    BY <1>1 DEF Load
  <2> QED
    BY <1>1, <2>1 DEF Obeys, Explicit
<1>2. CASE /\ found # Malformed
           /\ found = Missing => ~Explicit(t)
           /\ \A o \in Option : t.flags[o] # Garbage
  <2> USE CommandLineShape
  <2>1. Load(t) = IF Valid(c) THEN c ELSE Stopped
    BY <1>2, LoadTakesStrongest
  <2>2. ASSUME Valid(c)
        PROVE  Obeys(t, Place(t), Load(t))
    <3>1. c \in [Option -> Usable]
      BY <1>2, <2>2, ConfigurationAssumption DEF Valid, Strongest, Value
    <3>2. Load(t) = c /\ Load(t) # Stopped
      BY <2>1, <2>2, <3>1, ConfigurationAssumption
    <3>3. ASSUME NEW o \in Option
          PROVE  \E i \in 1..4 :
                   /\ c[o] = Sources(t, Place(t), o)[i]
                   /\ \A j \in 1..(i - 1) :
                        \/ Sources(t, Place(t), o)[j] = Unset
                        \/ j = 2 /\ Sources(t, Place(t), o)[j] = Garbage
      <4>1. CASE t.flags[o] # Unset
        BY <4>1 DEF Sources, Strongest
      <4>2. CASE t.flags[o] = Unset /\ t.env[o] \notin {Unset, Garbage}
        BY <4>2 DEF Sources, Strongest
      <4>3. CASE /\ t.flags[o] = Unset /\ t.env[o] \in {Unset, Garbage}
                 /\ found # Missing /\ found[o] # Unset
        BY <1>2, <4>3 DEF Sources, Strongest
      <4>4. CASE /\ t.flags[o] = Unset /\ t.env[o] \in {Unset, Garbage}
                 /\ found = Missing \/ found[o] = Unset
        BY <1>2, <4>4 DEF Sources, Strongest
      <4> QED
        BY <4>1, <4>2, <4>3, <4>4
    <3>4. found # Malformed /\ (found = Missing => Place(t) = "rss2go.yaml")
      BY <1>2 DEF Explicit
    <3> QED
      BY <3>1, <3>2, <3>3, <3>4 DEF Obeys
  <2>3. ASSUME ~Valid(c)
        PROVE  Obeys(t, Place(t), Load(t))
    <3>1. PICK o \in Option : c[o] = Refused
      BY <2>3 DEF Valid
    <3>2. \E i \in 1..3 : Sources(t, Place(t), o)[i] = Refused
      BY <1>2, <3>1, ConfigurationAssumption DEF Sources, Strongest
    <3> QED
      BY <2>1, <2>3, <3>2 DEF Obeys
  <2> QED
    BY <2>2, <2>3
<1> QED
  BY <1>1, <1>2

\* What a command line says of the options is kept, with one of the files it
\* names; and where it names only one, with a leading -config or in the
\* environment, or none, with the file config.go:59 tells of.
THEOREM LoadsAsTold ==
  ASSUME NEW t \in CommandLine
  PROVE  /\ \E f \in t.named \cup {"rss2go.yaml"} : Obeys(t, f, Load(t))
         /\ Clear(t) => Told(t, Load(t))
<1>1. Place(t) \in t.named \cup {"rss2go.yaml"} /\ Obeys(t, Place(t), Load(t))
  BY CommandLineShape, LoadObeysPlace
<1>2. Clear(t) => Place(t) = Intended(t)
  BY CommandLineShape DEF Clear, Place, Intended
<1> QED
  BY <1>1, <1>2 DEF Told

-----------------------------------------------------------------------------
(* Types.  Inductive with two facts: Stop finds httpServer always set, and a
   process migrates only where there is a next migration. *)

Typed ==
  /\ TypeOK
  /\ \A p \in Process : shut[p] # "missed" /\ (pc[p] = "migrate" => read[p] < Last)

LEMMA StoppedIsNone == Stopped \notin Configurations
BY DEF Configurations

LEMMA TypedInit == Init => Typed
BY DaemonAssumption DEF Init, Typed, TypeOK, Launched, Migration

LEMMA ExitTyped ==
  ASSUME Typed, NEW p \in Process, Exit(p), schema' \subseteq Migration, version' \in -1..Last
  PROVE  Typed'
BY DaemonAssumption, StoppedIsNone DEF Typed, TypeOK, Exit, Launched

LEMMA TypedNext == Typed /\ [Next]_vars => Typed'
<1> SUFFICES ASSUME Typed, [Next]_vars
             PROVE  Typed'
  OBVIOUS
<1> USE DaemonAssumption, StoppedIsNone
<1>1. ASSUME NEW p \in Process, Exec(p)
      PROVE  Typed'
  BY <1>1 DEF Exec, Go, Typed, TypeOK, Launched, database
<1>2. ASSUME NEW p \in Process, ReadVersion(p)
      PROVE  Typed'
  BY <1>2 DEF ReadVersion, Go, Typed, TypeOK, Launched, database
<1>3. ASSUME NEW p \in Process, Migrate(p)
      PROVE  Typed'
  <2>1. CASE Harmful(p) /\ Exit(p) /\ UNCHANGED database
    BY <2>1, ExitTyped DEF Typed, TypeOK, database
  <2>2. CASE /\ ~Harmful(p) /\ Go(p, "migrate", "open")
             /\ schema' = schema \cup {Next1(p)} /\ version' = Next1(p)
             /\ read' = [read EXCEPT ![p] = -1]
             /\ UNCHANGED <<config, workers, signalled, shut, listening>>
    <3>1. Next1(p) \in Migration
      BY <2>2 DEF Next1, Go, Typed, TypeOK, Migration
    <3>2. schema' \subseteq Migration
      BY <2>2, <3>1 DEF Typed, TypeOK
    <3>3. version' \in -1..Last
      BY <2>2, <3>1 DEF Next1, Migration, Typed, TypeOK
    <3> QED
      BY <2>2, <3>2, <3>3 DEF Go, Typed, TypeOK, Launched
  <2> QED
    BY <1>3, <2>1, <2>2 DEF Migrate
<1>4. ASSUME NEW p \in Process, Launch(p)
      PROVE  Typed'
  BY <1>4 DEF Launch, Go, Typed, TypeOK, Launched, database
<1>5. ASSUME NEW p \in Process, StartServer(p)
      PROVE  Typed'
  BY <1>5 DEF StartServer, Go, Typed, TypeOK, Launched, database
<1>6. ASSUME NEW p \in Process, Listen(p)
      PROVE  Typed'
  <2>1. CASE Exit(p) /\ UNCHANGED database
    BY <2>1, ExitTyped DEF Typed, TypeOK, database
  <2>2. CASE ~Exit(p)
    BY <1>6, <2>2 DEF Listen, Go, Typed, TypeOK, Launched, database
  <2> QED
    BY <1>6, <2>1, <2>2 DEF Listen
<1>7. ASSUME NEW p \in Process, Return(p)
      PROVE  Typed'
  BY <1>7 DEF Return, Go, Typed, TypeOK, Launched, database
<1>8. ASSUME NEW p \in Process, Close(p) \/ Kill(p)
      PROVE  Typed'
  BY <1>8, ExitTyped DEF Close, Kill, Typed, TypeOK, database
<1>9. ASSUME NEW p \in Process, Stop(p)
      PROVE  Typed'
  BY <1>9 DEF Stop, Typed, TypeOK, Launched, database
<1>10. ASSUME NEW p \in Process, WorkersEnd(p) \/ Signal(p)
       PROVE  Typed'
  BY <1>10 DEF WorkersEnd, Signal, Typed, TypeOK, Launched, database
<1>11. CASE UNCHANGED vars
  BY <1>11 DEF vars, Typed, TypeOK
<1> QED
  BY <1>1, <1>2, <1>3, <1>4, <1>5, <1>6, <1>7, <1>8, <1>9, <1>10, <1>11 DEF Next, Main

\* Every variable keeps its type, and where main stands agrees with what runs.
THEOREM TypeCorrect == Spec => []TypeOK
<1>1. Typed => TypeOK
  BY DEF Typed
<1> QED
  BY TypedInit, TypedNext, <1>1, PTL DEF Spec

-----------------------------------------------------------------------------
(* Migrations.  That the schema is complete is inductive once one knows that
   the recorded version, and every version a process has read and means to go
   on from, stands for all migrations up to it; no migration is taken back. *)

Upto(n) == 0..n \subseteq schema

Migrated ==
  /\ Typed
  /\ Upto(version)
  /\ \A p \in Process : pc[p] = "migrate" => Upto(read[p])
  /\ SchemaComplete

LEMMA MigratedInit == Init => Migrated
BY DaemonAssumption, TypedInit DEF Init, Migrated, SchemaComplete, Upto, Launched

\* A step that leaves the tables alone and lets no process read or become ready.
LEMMA SchemaKept ==
  ASSUME Migrated, Typed', UNCHANGED database, NEW p \in Process,
         \A q \in Process \ {p} : pc'[q] = pc[q] /\ read'[q] = read[q] /\ (q \in workers' <=> q \in workers),
         pc'[p] # "migrate",
         pc'[p] \in Launched \cup {"ready"} \/ p \in workers' => schema = Migration
  PROVE  Migrated'
BY DEF Migrated, SchemaComplete, Upto, database

LEMMA MigratedNext == Migrated /\ [Next]_vars => Migrated'
<1> SUFFICES ASSUME Migrated, [Next]_vars
             PROVE  Migrated'
  OBVIOUS
<1> USE DaemonAssumption
<1>0. Typed'
  BY TypedNext DEF Migrated
<1>1. ASSUME NEW p \in Process, Exec(p)
      PROVE  Migrated'
  BY <1>0, <1>1, SchemaKept DEF Exec, Go, Migrated, Typed, TypeOK, SchemaComplete, Launched, database
<1>2. ASSUME NEW p \in Process, ReadVersion(p)
      PROVE  Migrated'
  <2>1. CASE version = Last
    <3>1. schema = Migration
      BY <2>1 DEF Migrated, Upto, Typed, TypeOK, Migration
    <3> QED
      BY <1>0, <1>2, <2>1, <3>1, SchemaKept
      DEF ReadVersion, Go, Migrated, Typed, TypeOK, Launched, database
  <2>2. CASE version # Last
    BY <1>0, <1>2, <2>2
    DEF ReadVersion, Go, Migrated, Typed, TypeOK, SchemaComplete, Upto, Launched, database
  <2> QED
    BY <2>1, <2>2
<1>3. ASSUME NEW p \in Process, Migrate(p)
      PROVE  Migrated'
  <2>1. CASE Exit(p) /\ UNCHANGED database
    BY <1>0, <2>1, SchemaKept DEF Exit, Migrated, Typed, TypeOK, SchemaComplete, Launched, database
  <2>2. CASE /\ Go(p, "migrate", "open")
             /\ schema' = schema \cup {Next1(p)} /\ version' = Next1(p)
             /\ read' = [read EXCEPT ![p] = -1]
             /\ UNCHANGED <<config, workers, signalled, shut, listening>>
    <3>1. Upto(read[p]) /\ read[p] \in -1..(Last - 1)
      BY <2>2 DEF Go, Migrated, Typed, TypeOK
    <3>2. 0..Next1(p) \subseteq schema'
      BY <2>2, <3>1 DEF Upto, Next1
    <3>3. schema \subseteq schema' /\ schema' \subseteq Migration
      BY <1>0, <2>2 DEF Typed, TypeOK
    <3>4. \A q \in Process : pc'[q] = "migrate" => Upto(read[q])'
      BY <2>2, <3>3 DEF Go, Migrated, Typed, TypeOK, Upto
    <3>5. SchemaComplete'
      BY <2>2, <3>3 DEF Go, Migrated, Typed, TypeOK, SchemaComplete, Launched, Migration
    <3> QED
      BY <1>0, <2>2, <3>2, <3>4, <3>5 DEF Migrated, Upto
  <2> QED
    BY <1>3, <2>1, <2>2 DEF Migrate
<1>4. ASSUME NEW p \in Process, Launch(p) \/ StartServer(p) \/ Return(p)
      PROVE  Migrated'
  BY <1>0, <1>4, SchemaKept
  DEF Launch, StartServer, Return, Go, Migrated, Typed, TypeOK, SchemaComplete, Launched, database
<1>5. ASSUME NEW p \in Process, Listen(p)
      PROVE  Migrated'
  <2>1. CASE Exit(p) /\ UNCHANGED database
    BY <1>0, <2>1, SchemaKept DEF Exit, Migrated, Typed, TypeOK, SchemaComplete, Launched, database
  <2>2. CASE ~Exit(p)
    BY <1>0, <1>5, <2>2, SchemaKept
    DEF Listen, Go, Migrated, Typed, TypeOK, SchemaComplete, Launched, database
  <2> QED
    BY <1>5, <2>1, <2>2 DEF Listen
<1>6. ASSUME NEW p \in Process, Close(p) \/ Kill(p)
      PROVE  Migrated'
  BY <1>0, <1>6, SchemaKept
  DEF Close, Kill, Exit, Migrated, Typed, TypeOK, SchemaComplete, Launched, database
<1>7. ASSUME NEW p \in Process, Stop(p) \/ WorkersEnd(p) \/ Signal(p)
      PROVE  Migrated'
  BY <1>0, <1>7, SchemaKept
  DEF Stop, WorkersEnd, Signal, Migrated, Typed, TypeOK, SchemaComplete, Launched, database
<1>8. CASE UNCHANGED vars
  BY <1>0, <1>8 DEF vars, Migrated, SchemaComplete, Upto
<1> QED
  BY <1>1, <1>2, <1>3, <1>4, <1>5, <1>6, <1>7, <1>8 DEF Next, Main

\* No worker and no server runs before every migration is applied, however many
\* processes migrate the database at once and wherever they are killed.
THEOREM SchemaBeforeWork == Spec => []SchemaComplete
<1>1. Migrated => SchemaComplete
  BY DEF Migrated
<1> QED
  BY MigratedInit, MigratedNext, <1>1, PTL DEF Spec

-----------------------------------------------------------------------------
(* What a daemon runs with. *)

LEMMA LoadUsable ==
  ASSUME NEW c \in Configurations
  PROVE  c \in [Option -> Usable]
<1>1. PICK t \in CommandLine : c = Load(t) /\ c # Stopped
  BY DEF Configurations
<1> DEFINE r == [o \in Option |-> Strongest(t, t.files[Place(t)], o)]
<1>2. Load(t) = IF Valid(r) THEN r ELSE Stopped
  BY <1>1, LoadTakesStrongest DEF Load
<1>3. DOMAIN c = Option /\ c = [o \in Option |-> c[o]]
  BY <1>1, <1>2
<1>4. \A o \in Option : c[o] \in Usable
  BY <1>1, LoadObeysPlace DEF Obeys
<1> QED
  BY <1>3, <1>4

\* A daemon that runs has a usable configuration, and the one it was told where it
\* is told clearly of a file, for any options and any values of them.
THEOREM RunsWhatWasTold == Spec => []RunsAsTold
<1>1. Typed => RunsAsTold
  <2>1. Misread = {}
    BY LoadsAsTold DEF Misread
  <2> QED
    BY <2>1, LoadUsable DEF Typed, TypeOK, RunsAsTold
<1> QED
  BY TypedInit, TypedNext, <1>1, PTL DEF Spec

=============================================================================
