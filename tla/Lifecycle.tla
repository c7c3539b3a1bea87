----------------------------- MODULE Lifecycle -----------------------------
(***************************************************************************)
(* The life of a server process (cmd/cache-server/main.go): it migrates the *)
(* database it may share with other replicas (internal/db/migrations.go),   *)
(* listens, runs its jobs (internal/cron/cron.go), and on a signal drains   *)
(* the requests, waits for the merges and for the jobs, and exits.  A       *)
(* process that has exited or died is started again.                       *)
(*                                                                         *)
(* m0Init is a list of CREATE statements, none of which passes over what is *)
(* there already, each committed by itself; the name of the migration is    *)
(* recorded after the last of them.                                        *)
(***************************************************************************)
EXTENDS Integers, FiniteSets

CONSTANTS
    Server,         \* the replicas
    Statements,     \* how many statements m0Init has
    Request,        \* requests a server may answer at a time
    Job,            \* the scheduled jobs
    MaxAccidents,   \* bound on crashes and faults
    MaxSignals      \* bound on the signals sent

ASSUME SizeAssumption ==
    Statements \in Nat \ {0} /\ MaxAccidents \in Nat /\ MaxSignals \in Nat

Statement == 1 .. Statements

VARIABLES
    migrationsTable,    \* whether the table _migrations is there
    schema,             \* statements of m0Init that have taken effect
    applied,            \* whether _migrations names 0_init
    pc,                 \* where main is in each server
    at,                 \* the statement of m0Init a server has come to
    proc,               \* the rest of a server's state
    ticks,              \* the jobs whose ticker has a tick waiting
    accidents, signals, \* counted for the bounds
    hurt                \* ghost: an accident befell a server that was halfway
                        \* through the migration

database == <<migrationsTable, schema, applied>>
process == <<proc, ticks>>
bounds == <<accidents, signals>>
vars == <<database, pc, at, process, bounds, hurt>>

-----------------------------------------------------------------------------
(* Helpers. *)

Starting == {"open", "load", "migrate", "record", "adapter"}
Stopping == {"drain", "merges", "jobs"}
Alive == Starting \cup {"up"} \cup Stopping

(* Variables of a process: httpSrv, svc.merges and the channels main waits  *)
(* for, rootCtx, shutCtx, and the jobs that run and those whose goroutines  *)
(* have returned.                                                          *)
NewProcess == [listener |-> "none", requests |-> {}, merges |-> {}, awaited |-> {},
               cancelled |-> FALSE, late |-> FALSE,
               running |-> {}, returned |-> {}]

Goto(s, l) == pc' = [pc EXCEPT ![s] = l]

(* The process is gone, and all its variables. *)
Gone(s) ==
    /\ Goto(s, "down")
    /\ at' = [at EXCEPT ![s] = 1]
    /\ proc' = [proc EXCEPT ![s] = NewProcess]
    /\ ticks' = [ticks EXCEPT ![s] = {}]

(* s has built the schema as far as it is there. *)
Builds(s) ==
    \/ pc[s] = "migrate" /\ at[s] > 1 /\ schema = 1 .. at[s] - 1
    \/ pc[s] = "record" /\ schema = Statement

Torn == schema # {} /\ ~applied /\ \A s \in Server : ~Builds(s)

Accident(s) ==
    /\ accidents < MaxAccidents
    /\ accidents' = accidents + 1
    /\ UNCHANGED signals
    /\ hurt' = (hurt \/ Builds(s) \/ schema' # schema)

-----------------------------------------------------------------------------
Init ==
    /\ migrationsTable = FALSE /\ schema = {} /\ applied = FALSE
    /\ pc = [s \in Server |-> "down"]
    /\ at = [s \in Server |-> 1]
    /\ proc = [s \in Server |-> NewProcess]
    /\ ticks = [s \in Server |-> {}]
    /\ accidents = 0 /\ signals = 0
    /\ hurt = FALSE

(* The supervisor starts the program again. *)
Start(s) ==
    /\ pc[s] = "down"
    /\ Goto(s, "open")
    /\ UNCHANGED <<database, at, process, bounds, hurt>>

-----------------------------------------------------------------------------
(* Migrate. *)

(* Faulty: without IF NOT EXISTS. *)
CreateMigrationsTable(s) ==
    /\ pc[s] = "open"
    /\ migrationsTable' = TRUE
    /\ IF migrationsTable THEN Gone(s) ELSE Goto(s, "load") /\ UNCHANGED <<at, process>>
    /\ UNCHANGED <<schema, applied, bounds, hurt>>

EnsureMigrationsTable(s) ==
    /\ pc[s] = "open"
    /\ migrationsTable' = TRUE
    /\ Goto(s, "load")
    /\ UNCHANGED <<schema, applied, at, process, bounds, hurt>>

LoadApplied(s) ==
    /\ pc[s] = "load" /\ migrationsTable
    /\ Goto(s, IF applied THEN "adapter" ELSE "migrate")
    /\ UNCHANGED <<database, at, process, bounds, hurt>>

(* Faulty: the loop goes one too far. *)
AfterOneMore(n) == IF n > Statements THEN "record" ELSE "migrate"

After(n) == IF n = Statements THEN "record" ELSE "migrate"

CreateStatement(s) ==
    /\ pc[s] = "migrate" /\ at[s] \notin schema
    /\ schema' = schema \cup {at[s]}
    /\ Goto(s, After(at[s]))
    /\ at' = [at EXCEPT ![s] = IF After(@) = "migrate" THEN @ + 1 ELSE @]
    /\ UNCHANGED <<migrationsTable, applied, process, bounds, hurt>>

(* Faulty: who finds a table takes the migration for done. *)
StatementTakenForDone(s) ==
    /\ pc[s] = "migrate" /\ at[s] \in schema
    /\ Goto(s, "adapter")
    /\ UNCHANGED <<database, at, process, bounds, hurt>>

(* Faulty: a migration that fails is undone. *)
StatementUndone(s) ==
    /\ pc[s] = "migrate" /\ at[s] \in schema
    /\ Gone(s)
    /\ schema' = {}
    /\ UNCHANGED <<migrationsTable, applied, bounds, hurt>>

(* The table or index is there: the statement fails, the process exits.     *)
StatementRefused(s) ==
    /\ pc[s] = "migrate" /\ at[s] \in schema
    /\ Gone(s)
    /\ UNCHANGED <<database, bounds, hurt>>

(* INSERT INTO _migrations: the primary key refuses a second row. *)
RecordMigration(s) ==
    /\ pc[s] = "record"
    /\ applied' = TRUE
    /\ IF applied THEN Gone(s) ELSE Goto(s, "adapter") /\ UNCHANGED <<at, process>>
    /\ UNCHANGED <<migrationsTable, schema, bounds, hurt>>

(* A statement fails for another reason, with or without its effect; or the *)
(* database, the credentials or the bucket cannot be had.                  *)
StartFails(s) ==
    /\ pc[s] \in Starting
    /\ Gone(s)
    /\ \/ UNCHANGED database
       \/ /\ pc[s] = "migrate" /\ schema' = schema \cup {at[s]}
          /\ UNCHANGED <<migrationsTable, applied>>
       \/ /\ pc[s] = "record" /\ applied' = TRUE
          /\ UNCHANGED <<migrationsTable, schema>>
    /\ Accident(s)

(* buildStorageAdapter, NewHandler; then the signals are caught and         *)
(* scheduler.Run starts a goroutine for each job.                          *)
ComeUp(s) ==
    /\ pc[s] = "adapter"
    /\ Goto(s, "up")
    /\ at' = [at EXCEPT ![s] = 1]
    /\ UNCHANGED <<database, process, bounds, hurt>>

-----------------------------------------------------------------------------
(* A server at work. *)

Works(s) == pc[s] = "up" \/ pc[s] \in Stopping

(* A step of a process that concerns nobody else. *)
Change(s, p) ==
    /\ proc' = [proc EXCEPT ![s] = p]
    /\ UNCHANGED <<database, pc, at, ticks, hurt>>

(* ListenAndServe, in a goroutine of its own: after Shutdown it returns at  *)
(* once.                                                                   *)
Listen(s) ==
    /\ Works(s) /\ proc[s].listener = "none"
    /\ Change(s, [proc[s] EXCEPT !.listener = IF pc[s] = "up" THEN "open" ELSE "closed"])
    /\ UNCHANGED bounds

(* The error is logged, and the process stays. *)
ListenFails(s) ==
    /\ pc[s] = "up" /\ proc[s].listener = "none"
    /\ accidents < MaxAccidents /\ accidents' = accidents + 1
    /\ Change(s, [proc[s] EXCEPT !.listener = "failed"])
    /\ UNCHANGED signals

RequestBegins(s, r) ==
    /\ proc[s].listener = "open" /\ r \notin proc[s].requests
    /\ Change(s, [proc[s] EXCEPT !.requests = @ \cup {r}])
    /\ UNCHANGED bounds

(* Download: the merge goes on when the request has ended. *)
MergeBegins(s, r) ==
    /\ r \in proc[s].requests \ proc[s].merges
    /\ Change(s, [proc[s] EXCEPT !.merges = @ \cup {r}])
    /\ UNCHANGED bounds

RequestEnds(s, r) ==
    /\ r \in proc[s].requests
    /\ Change(s, [proc[s] EXCEPT !.requests = @ \ {r}])
    /\ UNCHANGED bounds

MergeEnds(s, r) ==
    /\ r \in proc[s].merges
    /\ Change(s, [proc[s] EXCEPT !.merges = @ \ {r}])
    /\ UNCHANGED bounds

-----------------------------------------------------------------------------
(* runJob.  The channel of a ticker holds one tick.  A job that is stopped  *)
(* may still take a tick, with a context that has ended.                   *)

TickerFires(s, j) ==
    /\ Works(s) /\ j \notin ticks[s] \cup proc[s].returned
    /\ ticks' = [ticks EXCEPT ![s] = @ \cup {j}]
    /\ UNCHANGED <<database, pc, at, proc, bounds, hurt>>

JobBegins(s, j) ==
    /\ Works(s) /\ j \in ticks[s] \ (proc[s].running \cup proc[s].returned)
    /\ proc' = [proc EXCEPT ![s] = [proc[s] EXCEPT !.running = @ \cup {j}]]
    /\ ticks' = [ticks EXCEPT ![s] = @ \ {j}]
    /\ UNCHANGED <<database, pc, at, bounds, hurt>>

JobEnds(s, j) ==
    /\ j \in proc[s].running
    /\ Change(s, [proc[s] EXCEPT !.running = @ \ {j}])
    /\ UNCHANGED bounds

JobReturns(s, j) ==
    /\ proc[s].cancelled /\ j \notin proc[s].running \cup proc[s].returned
    /\ proc' = [proc EXCEPT ![s] = [proc[s] EXCEPT !.returned = @ \cup {j}]]
    /\ ticks' = [ticks EXCEPT ![s] = @ \ {j}]
    /\ UNCHANGED <<database, pc, at, bounds, hurt>>

-----------------------------------------------------------------------------
(* Stopping. *)

(* SIGINT or SIGTERM: before signal.NotifyContext it ends the process.      *)
Signal(s) ==
    /\ pc[s] \in Starting \cup {"up"} /\ ~proc[s].cancelled
    /\ signals < MaxSignals
    /\ signals' = signals + 1
    /\ IF pc[s] = "up"
       THEN /\ proc' = [proc EXCEPT ![s] = [proc[s] EXCEPT !.cancelled = TRUE]]
            /\ UNCHANGED <<pc, at, ticks, hurt>>
       ELSE Gone(s) /\ hurt' = (hurt \/ Builds(s))
    /\ UNCHANGED <<database, accidents>>

Crash(s) ==
    /\ pc[s] \in Alive
    /\ Gone(s)
    /\ UNCHANGED database
    /\ Accident(s)

(* httpSrv.Shutdown: no new requests. *)
Shutdown(s) ==
    /\ pc[s] = "up" /\ proc[s].cancelled
    /\ Goto(s, "drain")
    /\ proc' = [proc EXCEPT ![s] =
           [proc[s] EXCEPT !.listener = IF @ = "open" THEN "closed" ELSE @]]
    /\ UNCHANGED <<database, at, ticks, bounds, hurt>>

(* shutCtx ends after 30 seconds; nothing more hangs on it once main waits  *)
(* for the jobs.                                                           *)
Deadline(s) ==
    /\ pc[s] \in {"drain", "merges"} /\ ~proc[s].late
    /\ Change(s, [proc[s] EXCEPT !.late = TRUE])
    /\ UNCHANGED bounds

(* Faulty: the requests are not waited for, as with Close. *)
Closed(s) ==
    /\ pc[s] = "drain"
    /\ Goto(s, "merges")
    /\ proc' = [proc EXCEPT ![s] = [proc[s] EXCEPT !.awaited = proc[s].merges]]
    /\ UNCHANGED <<database, at, ticks, bounds, hurt>>

(* Shutdown returns, and WaitForOngoingMerges takes the channels. *)
Drained(s) ==
    /\ pc[s] = "drain" /\ (proc[s].requests = {} \/ proc[s].late)
    /\ Goto(s, "merges")
    /\ proc' = [proc EXCEPT ![s] = [proc[s] EXCEPT !.awaited = proc[s].merges]]
    /\ UNCHANGED <<database, at, ticks, bounds, hurt>>

(* The channels that main waits for and that are still open. *)
Awaited(s) == proc[s].awaited \cap proc[s].merges

(* Faulty: the merges are waited for without shutCtx. *)
MergesWaitedOut(s) ==
    /\ pc[s] = "merges" /\ Awaited(s) = {}
    /\ Goto(s, "jobs")
    /\ UNCHANGED <<database, at, process, bounds, hurt>>

MergesWaitedFor(s) ==
    /\ pc[s] = "merges" /\ (Awaited(s) = {} \/ proc[s].late)
    /\ Goto(s, "jobs")
    /\ UNCHANGED <<database, at, process, bounds, hurt>>

(* scheduler.Wait and wg.Wait return, and so does main. *)
Exit(s) ==
    /\ pc[s] = "jobs"
    /\ proc[s].returned = Job /\ proc[s].listener # "none"
    /\ Gone(s)
    /\ UNCHANGED <<database, bounds, hurt>>

-----------------------------------------------------------------------------
Migrate(s) ==
    \/ EnsureMigrationsTable(s) \/ LoadApplied(s) \/ CreateStatement(s)
    \/ StatementRefused(s) \/ RecordMigration(s)

(* What main does by itself. *)
MainStep(s) ==
    \/ Migrate(s) \/ ComeUp(s) \/ Shutdown(s) \/ Drained(s) \/ MergesWaitedFor(s)
    \/ Exit(s)

Work(s) ==
    \/ Listen(s)
    \/ \E r \in Request :
          RequestBegins(s, r) \/ RequestEnds(s, r) \/ MergeBegins(s, r) \/ MergeEnds(s, r)
    \/ \E j \in Job : TickerFires(s, j) \/ JobBegins(s, j) \/ JobEnds(s, j) \/ JobReturns(s, j)

Trouble(s) == StartFails(s) \/ ListenFails(s) \/ Signal(s) \/ Crash(s)

Next == \E s \in Server :
    Start(s) \/ MainStep(s) \/ Work(s) \/ Deadline(s) \/ Trouble(s)

Spec == Init /\ [][Next]_vars

(* main goes on and time passes; a job that runs comes to an end, and the   *)
(* select of runJob, which picks at random, does not take the tick for      *)
(* ever.  Requests and merges may hang.                                    *)
Fairness == \A s \in Server :
    /\ WF_vars(Start(s)) /\ WF_vars(MainStep(s)) /\ WF_vars(Listen(s))
    /\ WF_vars(Deadline(s))
    /\ \A j \in Job : WF_vars(JobEnds(s, j)) /\ SF_vars(JobReturns(s, j))

FairSpec == Spec /\ Fairness

-----------------------------------------------------------------------------
(* Properties. *)

ProcType ==
    [listener : {"none", "open", "closed", "failed"},
     requests : SUBSET Request, merges : SUBSET Request, awaited : SUBSET Request,
     cancelled : BOOLEAN, late : BOOLEAN,
     running : SUBSET Job, returned : SUBSET Job]

(* Type correctness: in particular main never goes past the last statement. *)
TypeOK ==
    /\ migrationsTable \in BOOLEAN /\ schema \subseteq Statement /\ applied \in BOOLEAN
    /\ pc \in [Server -> Alive \cup {"down"}]
    /\ at \in [Server -> Statement]
    /\ proc \in [Server -> ProcType] /\ ticks \in [Server -> SUBSET Job]
    /\ accidents \in 0 .. MaxAccidents /\ signals \in 0 .. MaxSignals
    /\ hurt \in BOOLEAN

(* A server that listens, runs jobs or is about to has the whole schema     *)
(* under it, whichever replica built it and whoever died meanwhile          *)
(* (migrations.go:31-40).                                                  *)
ServesFullSchema == \A s \in Server :
    pc[s] \in Alive \ {"open", "load", "migrate", "record"} => schema = Statement

(* Replicas that start together on an empty database never leave half a     *)
(* schema behind by themselves: that takes a crash, a signal or a failure   *)
(* in the one that was building it.                                        *)
RaceNeverTears == Torn => hurt

Exits(s) == pc[s] = "jobs" /\ pc'[s] = "down" /\ accidents' = accidents

(* A server that stops within the deadline cuts nothing off: no request is  *)
(* being answered when it exits and no merge runs, nor does one that a      *)
(* request began while main was already shutting down (main.go:97-98).  It  *)
(* never exits with a job running, deadline or not (main.go:99).           *)
CleanExit == [][\A s \in Server : Exits(s) =>
    /\ proc[s].running = {}
    /\ proc[s].late \/ (proc[s].requests = {} /\ proc[s].merges = {})]_vars

(* A server that was signalled exits, though requests and merges may hang   *)
(* and ticks go on coming.                                                 *)
SignalEndsIt == \A s \in Server : proc[s].cancelled ~> pc[s] = "down"

(* When the accidents are over, every server comes up and stays up, those   *)
(* included that lost the race to migrate and exited; or the schema is torn *)
(* and none ever does: no start completes a migration that was cut short.   *)
AllComeUp ==
    \/ <>[](\A s \in Server : pc[s] = "up" /\ proc[s].listener # "none")
    \/ <>[](Torn /\ \A s \in Server : pc[s] # "up")
=============================================================================
