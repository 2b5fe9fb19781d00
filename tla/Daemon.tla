-------------------------------- MODULE Daemon --------------------------------
(***************************************************************************)
(* The process (cmd/rss2go/main.go) from its start to its exit: loading    *)
(* its configuration, opening and migrating the database                   *)
(* (internal/database/db.go), launching its workers, listening             *)
(* (internal/server/server.go) and shutting down.  Several processes may   *)
(* run on one database, as when a daemon is replaced; any may be killed.   *)
(*                                                                         *)
(* Goose and net/http are external.  goose.Up reads the version, applies   *)
(* the next migration and records it in one transaction, and goes on until *)
(* there is no next; nothing keeps two processes from doing so together.   *)
(***************************************************************************)
EXTENDS Configuration, Integers

CONSTANTS
  Process,
  Addr,        \* the option that is the address
  Last,        \* the newest migration
  Repeatable   \* migrations that do no harm when applied again

ASSUME DaemonAssumption ==
  /\ Addr \in Option
  /\ Last \in Nat
  /\ Repeatable \subseteq 1..Last

\* Migration 0 is goose's table of versions.
Migration == 0..Last

VARIABLES
  pc,        \* where main stands
  config,    \* what Load returned
  read,      \* the version goose read
  workers,   \* processes whose outbox worker and scheduler run
  signalled, \* processes whose context is cancelled
  shut,      \* where the goroutine that waits for that stands
  listening, \* processes that hold their port
  schema,    \* migrations applied to the database,
  version    \* and the one recorded last, -1 before the first

vars == <<pc, config, read, workers, signalled, shut, listening, schema, version>>

\* From where on signals cancel the context.
Launched == {"launched", "binding", "serving", "closing"}

TypeOK ==
  /\ pc \in [Process -> {"off", "open", "migrate", "ready"} \cup Launched]
  /\ config \in [Process -> Configurations \cup {Stopped}]
  /\ read \in [Process -> -1..Last]
  /\ shut \in [Process -> {"no", "yes", "missed"}]
  /\ schema \subseteq Migration /\ version \in -1..Last
  /\ \A p \in Process :
       /\ config[p] = Stopped <=> pc[p] = "off"
       /\ p \in workers \cup signalled => pc[p] \in Launched
       /\ p \in listening => pc[p] = "serving"
       /\ pc[p] = "serving" => (p \in listening <=> shut[p] = "no")

Init ==
  /\ pc = [p \in Process |-> "off"]
  /\ config = [p \in Process |-> Stopped]
  /\ read = [p \in Process |-> -1]
  /\ workers = {} /\ signalled = {} /\ listening = {}
  /\ shut = [p \in Process |-> "no"]
  /\ schema = {} /\ version = -1

Go(p, from, to) == pc[p] = from /\ pc' = [pc EXCEPT ![p] = to]

\* os.Exit, a return from main and a kill take all goroutines along.
Exit(p) ==
  /\ pc' = [pc EXCEPT ![p] = "off"]
  /\ config' = [config EXCEPT ![p] = Stopped]
  /\ read' = [read EXCEPT ![p] = -1]
  /\ workers' = workers \ {p}
  /\ signalled' = signalled \ {p}
  /\ shut' = [shut EXCEPT ![p] = "no"]
  /\ listening' = listening \ {p}

database == <<schema, version>>

-----------------------------------------------------------------------------
\* A process that Load refuses, or that cannot open its log file, is not seen
\* by the others.
Exec(p) ==
  /\ Go(p, "off", "open")
  /\ \E c \in Configurations : config' = [config EXCEPT ![p] = c]
  /\ UNCHANGED <<read, workers, signalled, shut, listening, database>>

ReadVersion(p) ==
  /\ Go(p, "open", IF version = Last THEN "ready" ELSE "migrate")
  /\ read' = [read EXCEPT ![p] = IF version = Last THEN -1 ELSE version]
  /\ UNCHANGED <<config, workers, signalled, shut, listening, database>>

Next1(p) == read[p] + 1
Harmful(p) == Next1(p) \in schema \ Repeatable

\* Variant: the error is logged and the daemon starts.
MigrateAnyway(p) ==
  /\ pc[p] = "migrate"
  /\ IF Harmful(p)
       THEN pc' = [pc EXCEPT ![p] = "ready"] /\ UNCHANGED database
       ELSE /\ pc' = [pc EXCEPT ![p] = "open"]
            /\ schema' = schema \cup {Next1(p)} /\ version' = Next1(p)
  /\ read' = [read EXCEPT ![p] = -1]
  /\ UNCHANGED <<config, workers, signalled, shut, listening>>

\* A migration that another process has applied meanwhile fails as a whole, and
\* with it Open and main.
Migrate(p) ==
  /\ pc[p] = "migrate"
  /\ \/ /\ Harmful(p)
        /\ Exit(p) /\ UNCHANGED database
     \/ /\ ~Harmful(p)
        /\ Go(p, "migrate", "open")
        /\ schema' = schema \cup {Next1(p)} /\ version' = Next1(p)
        /\ read' = [read EXCEPT ![p] = -1]
        /\ UNCHANGED <<config, workers, signalled, shut, listening>>

\* NotifyContext, the outbox worker and the scheduler, before the server.
Launch(p) ==
  /\ Go(p, "ready", "launched")
  /\ workers' = workers \cup {p}
  /\ UNCHANGED <<config, read, signalled, shut, listening, database>>

\* Start sets httpServer before it starts the goroutine that will stop it.
StartServer(p) ==
  /\ Go(p, "launched", "binding")
  /\ UNCHANGED <<config, read, workers, signalled, shut, listening, database>>

Taken(p) == \E q \in listening : config[q][Addr] = config[p][Addr]

\* Variant: a server that cannot listen leaves the rest of the daemon running.
ListenRegardless(p) ==
  /\ IF shut[p] = "yes" THEN Go(p, "binding", "closing") ELSE Go(p, "binding", "serving")
  /\ listening' = listening \cup (IF shut[p] = "yes" \/ Taken(p) THEN {} ELSE {p})
  /\ UNCHANGED <<config, read, workers, signalled, shut, database>>

\* ListenAndServe, which returns at once after a Shutdown.  An address that is
\* taken ends the daemon with status 1.
Listen(p) ==
  /\ pc[p] = "binding"
  /\ \/ /\ shut[p] = "yes"
        /\ Go(p, "binding", "closing")
        /\ UNCHANGED <<config, read, workers, signalled, shut, listening, database>>
     \/ /\ shut[p] # "yes" /\ Taken(p)
        /\ Exit(p) /\ UNCHANGED database
     \/ /\ shut[p] # "yes" /\ ~Taken(p)
        /\ Go(p, "binding", "serving")
        /\ listening' = listening \cup {p}
        /\ UNCHANGED <<config, read, workers, signalled, shut, database>>

\* Variant: the goroutine may run before httpServer is set, and finds nothing.
StopHasty(p) ==
  /\ p \in signalled /\ shut[p] = "no"
  /\ shut' = [shut EXCEPT ![p] = IF pc[p] = "launched" THEN "missed" ELSE "yes"]
  /\ listening' = listening \ {p}
  /\ UNCHANGED <<pc, config, read, workers, signalled, database>>

\* The goroutine calls Stop, and Shutdown closes the listener first of all.
Stop(p) ==
  /\ p \in signalled /\ shut[p] = "no"
  /\ pc[p] \in {"binding", "serving"}
  /\ shut' = [shut EXCEPT ![p] = "yes"]
  /\ listening' = listening \ {p}
  /\ UNCHANGED <<pc, config, read, workers, signalled, database>>

\* ListenAndServe does not wait for Shutdown, nor main for its workers.
Return(p) ==
  /\ Go(p, "serving", "closing")
  /\ shut[p] = "yes"
  /\ UNCHANGED <<config, read, workers, signalled, shut, listening, database>>

Close(p) == pc[p] = "closing" /\ Exit(p) /\ UNCHANGED database

\* The workers' loops end when the context does.
WorkersEnd(p) ==
  /\ p \in workers \cap signalled
  /\ workers' = workers \ {p}
  /\ UNCHANGED <<pc, config, read, signalled, shut, listening, database>>

Signal(p) ==
  /\ pc[p] \in Launched /\ p \notin signalled
  /\ signalled' = signalled \cup {p}
  /\ UNCHANGED <<pc, config, read, workers, shut, listening, database>>

\* Also a signal before NotifyContext, and any failure to open the database.
Kill(p) == pc[p] # "off" /\ Exit(p) /\ UNCHANGED database

-----------------------------------------------------------------------------
Main(p) == ReadVersion(p) \/ Migrate(p) \/ Launch(p) \/ StartServer(p)
             \/ Listen(p) \/ Return(p) \/ Close(p)

Next == \E p \in Process :
          Exec(p) \/ Main(p) \/ Stop(p) \/ WorkersEnd(p) \/ Signal(p) \/ Kill(p)

Spec == Init /\ [][Next]_vars

\* Every goroutine goes on; nobody has to start a daemon or to end one.
FairSpec == Spec /\ \A p \in Process :
              WF_vars(Main(p)) /\ WF_vars(Stop(p)) /\ WF_vars(WorkersEnd(p))

-----------------------------------------------------------------------------
\* A daemon runs with the configuration it was told, and only with one that
\* Validate accepts, whatever garbage some source holds (config.go:54, 213).  Told
\* of the file in one way, it reads that one; told in two, or too late on the
\* command line, it still reads no more than one of them (Misread).
RunsAsTold ==
  /\ Misread = {}
  /\ \A p \in Process : pc[p] # "off" => config[p] \in [Option -> Usable]

\* No worker and no server runs before the database has every migration, also
\* where two processes migrate it at once and where one that did is killed
\* between two of them (db.go:40).
SchemaComplete ==
  \A p \in Process : pc[p] \in Launched \cup {"ready"} \/ p \in workers => schema = Migration

\* Two daemons that were given the same address do not work on in the same
\* database: though both have launched their workers before they listen, one of
\* them finds the address taken and ends (main.go:163-167).
RivalLeaves ==
  \A p, q \in Process : p # q =>
    ({p, q} \subseteq workers /\ config[p][Addr] = config[q][Addr]
       ~> ~ ({p, q} \subseteq workers /\ config[p][Addr] = config[q][Addr]))

\* A signal ends the process at whatever point after NotifyContext it comes, also
\* before the server listens or is even made (server.go:143-156).
SignalEnds == \A p \in Process : p \in signalled ~> pc[p] = "off"

=============================================================================
