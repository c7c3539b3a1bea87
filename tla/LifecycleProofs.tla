-------------------------- MODULE LifecycleProofs --------------------------
(***************************************************************************)
(* Proofs about Lifecycle: for any number of replicas and of statements, no *)
(* server works on half a schema, and no race to build it leaves one        *)
(* behind.                                                                 *)
(*                                                                         *)
(* The invariant says what a server in the middle of Migrate knows of the   *)
(* database: what it has come past is there.  Since no statement succeeds   *)
(* twice, whoever creates the next part of the schema is the one that has   *)
(* built all of it so far.                                                 *)
(***************************************************************************)
EXTENDS Lifecycle, TLAPS

ControlType ==
    /\ schema \subseteq Statement /\ applied \in BOOLEAN /\ hurt \in BOOLEAN
    /\ pc \in [Server -> Alive \cup {"down"}]
    /\ at \in [Server -> Statement]

(* m0Init begins with its first statement. *)
FromTheFirst == \A s \in Server : pc[s] \in {"down", "open", "load"} => at[s] = 1

(* What a server has come past is there. *)
PastIsThere == \A s \in Server :
    /\ pc[s] = "migrate" => 1 .. at[s] - 1 \subseteq schema
    /\ pc[s] = "record" => schema = Statement

RecordedIsThere == applied => schema = Statement

SchemaInv ==
    ControlType /\ FromTheFirst /\ PastIsThere /\ RecordedIsThere /\ ServesFullSchema

LEMMA StatementFacts ==
    /\ Statements \in Nat /\ Statements >= 1
    /\ 1 \in Statement
    /\ \A n \in Statement : n \in Nat /\ n >= 1 /\ n <= Statements
BY SizeAssumption DEF Statement

(* A step of s that leaves what the others have alone. *)
LEMMA GoneKeeps ==
    ASSUME SchemaInv, NEW s \in Server, Gone(s), UNCHANGED <<schema, applied>>,
           hurt' \in BOOLEAN
    PROVE  SchemaInv'
BY StatementFacts
DEF SchemaInv, ControlType, FromTheFirst, PastIsThere, RecordedIsThere, ServesFullSchema,
    Gone, Goto, Alive, Starting, Stopping

LEMMA ChangeKeeps ==
    ASSUME SchemaInv, UNCHANGED <<schema, applied, pc, at>>, hurt' \in BOOLEAN
    PROVE  SchemaInv'
BY DEF SchemaInv, ControlType, FromTheFirst, PastIsThere, RecordedIsThere, ServesFullSchema

(* A step that only moves main of s on, to where no more of the schema is   *)
(* needed than s had.                                                      *)
LEMMA GotoKeeps ==
    ASSUME SchemaInv, NEW s \in Server, NEW l \in Alive,
           Goto(s, l), UNCHANGED <<schema, hurt>>, at' \in [Server -> Statement],
           \A t \in Server \ {s} : at'[t] = at[t],
           applied' \in BOOLEAN, applied' => schema = Statement,
           l \in {"open", "load"} => at'[s] = 1,
           l = "migrate" => at'[s] = 1,
           l \notin {"open", "load", "migrate"} => schema = Statement
    PROVE  SchemaInv'
<1>1. ControlType' /\ RecordedIsThere'
    BY DEF SchemaInv, ControlType, RecordedIsThere, Goto, Alive, Starting, Stopping
<1>2. \A t \in Server : pc'[t] = IF t = s THEN l ELSE pc[t]
    BY DEF SchemaInv, ControlType, Goto
<1>3. FromTheFirst'
    BY <1>2 DEF SchemaInv, FromTheFirst, Alive, Starting, Stopping
<1>4. PastIsThere'
    BY <1>2, StatementFacts DEF SchemaInv, PastIsThere
<1>5. ServesFullSchema'
    BY <1>2 DEF SchemaInv, ServesFullSchema, Alive, Starting, Stopping
<1>6. QED  BY <1>1, <1>3, <1>4, <1>5 DEF SchemaInv

LEMMA CreateKeeps ==
    ASSUME SchemaInv, NEW s \in Server, CreateStatement(s)
    PROVE  SchemaInv'
<1>1. pc[s] = "migrate" /\ at[s] \in Statement /\ 1 .. at[s] - 1 \subseteq schema
    BY DEF CreateStatement, SchemaInv, ControlType, PastIsThere
<1>2. schema' = schema \cup {at[s]} /\ UNCHANGED <<applied, hurt>> /\ schema # Statement
    BY <1>1 DEF CreateStatement
<1>3. \A t \in Server : pc'[t] = IF t = s THEN After(at[s]) ELSE pc[t]
    BY DEF CreateStatement, Goto, SchemaInv, ControlType
<1>4. \A t \in Server : at'[t] = IF t = s /\ at[s] # Statements THEN at[t] + 1 ELSE at[t]
    BY StatementFacts DEF CreateStatement, SchemaInv, ControlType, After
<1>5. ControlType'
    <2>1. pc' \in [Server -> Alive \cup {"down"}]
        BY DEF CreateStatement, Goto, SchemaInv, ControlType, After, Alive, Starting
    <2>2. at[s] # Statements => at[s] + 1 \in Statement
        BY <1>1, StatementFacts DEF Statement
    <2>3. at' \in [Server -> Statement]
        BY <2>2, StatementFacts DEF CreateStatement, SchemaInv, ControlType, After
    <2>4. QED  BY <1>1, <1>2, <2>1, <2>3 DEF SchemaInv, ControlType
<1>6. FromTheFirst'
    BY <1>3, <1>4 DEF SchemaInv, FromTheFirst, After
<1>7. PastIsThere'
    <2> SUFFICES ASSUME NEW t \in Server
                 PROVE  /\ pc'[t] = "migrate" => 1 .. at'[t] - 1 \subseteq schema'
                        /\ pc'[t] = "record" => schema' = Statement
        BY DEF PastIsThere
    <2>1. CASE t # s
        BY <2>1, <1>1, <1>2, <1>3, <1>4 DEF SchemaInv, PastIsThere
    <2>2. CASE t = s /\ at[s] = Statements
        <3>1. 1 .. Statements \subseteq schema'
            BY <2>2, <1>1, <1>2, StatementFacts
        <3>2. schema' = Statement
            BY <3>1, <1>1, <1>2 DEF SchemaInv, ControlType, Statement
        <3>3. QED  BY <3>2, <2>2, <1>3 DEF After
    <2>3. CASE t = s /\ at[s] # Statements
        <3>1. pc'[t] = "migrate" /\ at'[t] = at[s] + 1
            BY <2>3, <1>3, <1>4 DEF After
        <3>2. 1 .. at[s] \subseteq schema'
            BY <1>1, <1>2, StatementFacts
        <3>3. QED  BY <3>1, <3>2, <1>1, StatementFacts
    <2>4. QED  BY <2>1, <2>2, <2>3
<1>8. RecordedIsThere' /\ ServesFullSchema'
    BY <1>2, <1>3 DEF SchemaInv, RecordedIsThere, ServesFullSchema, After
<1>9. QED  BY <1>5, <1>6, <1>7, <1>8 DEF SchemaInv

LEMMA StartFailsKeeps ==
    ASSUME SchemaInv, NEW s \in Server, StartFails(s)
    PROVE  SchemaInv'
<1>1. hurt' \in BOOLEAN
    BY DEF StartFails, Accident
<1>2. CASE UNCHANGED database
    BY <1>1, <1>2, GoneKeeps DEF StartFails, database
<1>3. CASE pc[s] = "record" /\ applied' = TRUE /\ UNCHANGED schema
    <2>1. schema = Statement
        BY <1>3 DEF SchemaInv, PastIsThere
    <2>2. QED
        BY <1>1, <1>3, <2>1, StatementFacts
        DEF StartFails, SchemaInv, ControlType, FromTheFirst, PastIsThere, RecordedIsThere,
            ServesFullSchema, Gone, Goto, Alive, Starting, Stopping
<1>4. CASE pc[s] = "migrate" /\ schema' = schema \cup {at[s]} /\ UNCHANGED applied
    <2>1. at[s] \in Statement /\ (schema = Statement => schema' = schema)
        BY <1>4 DEF SchemaInv, ControlType
    <2>2. QED
        BY <1>1, <1>4, <2>1, StatementFacts
        DEF StartFails, SchemaInv, ControlType, FromTheFirst, PastIsThere, RecordedIsThere,
            ServesFullSchema, Gone, Goto, Alive, Starting, Stopping
<1>5. QED  BY <1>2, <1>3, <1>4 DEF StartFails

-----------------------------------------------------------------------------
(* The steps that leave the schema, the record and the place of main alone. *)
Quiet == UNCHANGED <<schema, applied, pc, at, hurt>>

LEMMA WorkIsQuiet ==
    ASSUME NEW s \in Server, Work(s) \/ Deadline(s) \/ ListenFails(s)
    PROVE  Quiet
BY DEF Work, Deadline, ListenFails, Listen, RequestBegins, RequestEnds, MergeBegins, MergeEnds,
       TickerFires, JobBegins, JobEnds, JobReturns, Change, database, Quiet

LEMMA SchemaStep == SchemaInv /\ [Next]_vars => SchemaInv'
<1> SUFFICES ASSUME SchemaInv, [Next]_vars PROVE SchemaInv'
    OBVIOUS
<1>1. CASE UNCHANGED vars
    BY <1>1, ChangeKeeps DEF vars, database, SchemaInv, ControlType
<1>2. ASSUME NEW s \in Server,
             Start(s) \/ MainStep(s) \/ Work(s) \/ Deadline(s) \/ Trouble(s)
      PROVE  SchemaInv'
    <2>0. at[s] \in Statement /\ at \in [Server -> Statement] /\ hurt \in BOOLEAN
          /\ applied \in BOOLEAN
        BY DEF SchemaInv, ControlType
    <2>1. CASE Start(s)
        BY <2>0, <2>1, GotoKeeps
        DEF Start, database, SchemaInv, FromTheFirst, RecordedIsThere, Alive, Starting
    <2>2. CASE EnsureMigrationsTable(s)
        BY <2>0, <2>2, GotoKeeps
        DEF EnsureMigrationsTable, SchemaInv, FromTheFirst, RecordedIsThere, Alive, Starting
    <2>3. CASE LoadApplied(s)
        BY <2>0, <2>3, GotoKeeps
        DEF LoadApplied, database, SchemaInv, FromTheFirst, RecordedIsThere, Alive, Starting
    <2>4. CASE CreateStatement(s)
        BY <2>4, CreateKeeps
    <2>5. CASE StatementRefused(s)
        BY <2>0, <2>5, GoneKeeps DEF StatementRefused, database
    <2>6. CASE RecordMigration(s)
        <3>1. schema = Statement
            BY <2>6 DEF RecordMigration, SchemaInv, PastIsThere
        <3>2. CASE applied
            BY <2>0, <2>6, <3>2, GoneKeeps DEF RecordMigration
        <3>3. CASE ~applied
            BY <2>0, <2>6, <3>1, <3>3, GotoKeeps DEF RecordMigration, Alive, Starting
        <3>4. QED  BY <3>2, <3>3
    <2>7. CASE ComeUp(s)
        <3>1. schema = Statement
            BY <2>7 DEF ComeUp, SchemaInv, ServesFullSchema, Alive, Starting
        <3>2. /\ at' \in [Server -> Statement] /\ \A t \in Server \ {s} : at'[t] = at[t]
            BY <2>0, <2>7, StatementFacts DEF ComeUp
        <3>3. QED  BY <2>0, <2>7, <3>1, <3>2, GotoKeeps DEF ComeUp, database, Alive
    <2>8. CASE Shutdown(s) \/ Drained(s) \/ MergesWaitedFor(s)
        <3>1. PICK l \in Stopping : Goto(s, l)
            BY <2>8 DEF Shutdown, Drained, MergesWaitedFor, Stopping
        <3>2. schema = Statement /\ UNCHANGED <<schema, applied, at, hurt>>
            BY <2>8 DEF Shutdown, Drained, MergesWaitedFor, database, SchemaInv,
                        ServesFullSchema, Alive, Starting, Stopping
        <3>3. l \in Alive /\ l \notin {"open", "load", "migrate"}
            BY <3>1 DEF Alive, Stopping
        <3>4. QED  BY <2>0, <3>1, <3>2, <3>3, GotoKeeps
    <2>9. CASE Exit(s)
        BY <2>0, <2>9, GoneKeeps DEF Exit, database
    <2>10. CASE Work(s) \/ Deadline(s) \/ ListenFails(s)
        BY <2>0, <2>10, WorkIsQuiet, ChangeKeeps DEF Quiet
    <2>11. CASE StartFails(s)
        BY <2>11, StartFailsKeeps
    <2>12. CASE Signal(s)
        <3>1. CASE pc[s] = "up"
            BY <2>0, <2>12, <3>1, ChangeKeeps DEF Signal, database
        <3>2. CASE pc[s] # "up"
            BY <2>12, <3>2, GoneKeeps DEF Signal, database
        <3>3. QED  BY <3>1, <3>2
    <2>13. CASE Crash(s)
        BY <2>13, GoneKeeps DEF Crash, Accident, database
    <2>14. QED
        BY <1>2, <2>1, <2>2, <2>3, <2>4, <2>5, <2>6, <2>7, <2>8, <2>9, <2>10, <2>11, <2>12,
           <2>13 DEF MainStep, Migrate, Trouble
<1>3. QED  BY <1>1, <1>2 DEF Next

LEMMA SchemaStart == Init => SchemaInv
BY StatementFacts
DEF Init, SchemaInv, ControlType, FromTheFirst, PastIsThere, RecordedIsThere, ServesFullSchema,
    Alive, Starting, Stopping

(* Whatever races, crashes and failures there are, a server that has come   *)
(* past the migration has the whole schema under it (migrations.go:31-40).  *)
THEOREM SchemaIsWhole == Spec => []ServesFullSchema
<1>1. SchemaInv => ServesFullSchema
    BY DEF SchemaInv
<1>2. QED  BY SchemaStart, SchemaStep, <1>1, PTL DEF Spec

-----------------------------------------------------------------------------
(* Races.  What shows that a schema half built is not torn is the server    *)
(* that builds it; a step of another server leaves that one what it is.     *)

LEMMA Bystander ==
    ASSUME SchemaInv, RaceNeverTears, NEW s \in Server, ~Builds(s),
           \A t \in Server \ {s} : pc'[t] = pc[t] /\ at'[t] = at[t],
           UNCHANGED schema, applied => applied', hurt => hurt'
    PROVE  RaceNeverTears'
BY DEF RaceNeverTears, Torn, Builds

(* Who creates the next part of the schema has built all of it so far.      *)
LEMMA CreatorBuilds ==
    ASSUME SchemaInv, RaceNeverTears, NEW s \in Server, CreateStatement(s), ~hurt
    PROVE  Builds(s)'
<1>1. /\ pc[s] = "migrate" /\ at[s] \in Statement /\ at[s] \notin schema
      /\ 1 .. at[s] - 1 \subseteq schema /\ schema' = schema \cup {at[s]}
      /\ ~applied
    BY DEF CreateStatement, SchemaInv, ControlType, PastIsThere, RecordedIsThere
<1>2. schema = 1 .. at[s] - 1
    <2>1. CASE schema = {}
        BY <2>1, <1>1, StatementFacts
    <2>2. CASE schema # {}
        <3>1. PICK t \in Server : Builds(t)
            BY <2>2, <1>1 DEF RaceNeverTears, Torn
        <3>2. at[t] \in Statement /\ schema = 1 .. at[t] - 1
            BY <3>1, <1>1 DEF Builds, SchemaInv, ControlType
        <3>3. at[s] = at[t]
            BY <3>2, <1>1, StatementFacts
        <3>4. QED  BY <3>2, <3>3
    <2>3. QED  BY <2>1, <2>2
<1>3. schema' = 1 .. at[s]
    BY <1>1, <1>2, StatementFacts
<1>4. pc'[s] = After(at[s])
    BY DEF CreateStatement, Goto, SchemaInv, ControlType
<1>5. CASE at[s] = Statements
    BY <1>3, <1>4, <1>5 DEF Builds, After, Statement
<1>6. CASE at[s] # Statements
    <2>1. pc'[s] = "migrate" /\ at'[s] = at[s] + 1
        BY <1>4, <1>6 DEF After, CreateStatement, SchemaInv, ControlType
    <2>2. at'[s] > 1 /\ at'[s] - 1 = at[s]
        BY <2>1, <1>1, StatementFacts
    <2>3. QED  BY <1>3, <2>1, <2>2 DEF Builds
<1>7. QED  BY <1>5, <1>6

LEMMA CreateNeverTears ==
    ASSUME SchemaInv, RaceNeverTears, NEW s \in Server, CreateStatement(s)
    PROVE  RaceNeverTears'
<1>1. CASE hurt
    BY <1>1 DEF CreateStatement, RaceNeverTears
<1>2. CASE ~hurt
    BY <1>2, CreatorBuilds DEF RaceNeverTears, Torn
<1>3. QED  BY <1>1, <1>2

(* If the builder dies, that is what hurt says. *)
LEMMA GoneIsNoticed ==
    ASSUME SchemaInv, RaceNeverTears, NEW s \in Server, Gone(s),
           hurt => hurt', Builds(s) \/ schema' # schema => hurt', applied => applied'
    PROVE  RaceNeverTears'
<1>1. CASE hurt'
    BY <1>1 DEF RaceNeverTears
<1>2. CASE ~hurt'
    <2>1. ~Builds(s) /\ schema' = schema
        BY <1>2
    <2>2. \A t \in Server \ {s} : pc'[t] = pc[t] /\ at'[t] = at[t]
        BY DEF Gone, Goto, SchemaInv, ControlType
    <2>3. QED  BY <2>1, <2>2, Bystander
<1>3. QED  BY <1>1, <1>2

LEMMA RaceStep == SchemaInv /\ RaceNeverTears /\ [Next]_vars => RaceNeverTears'
<1> SUFFICES ASSUME SchemaInv, RaceNeverTears, [Next]_vars PROVE RaceNeverTears'
    OBVIOUS
<1>1. ASSUME Quiet PROVE RaceNeverTears'
    BY <1>1 DEF Quiet, RaceNeverTears, Torn, Builds
<1>2. ASSUME NEW s \in Server,
             Start(s) \/ MainStep(s) \/ Work(s) \/ Deadline(s) \/ Trouble(s)
      PROVE  RaceNeverTears'
    <2>0. ASSUME NEW l, Goto(s, l)
          PROVE  \A t \in Server \ {s} : pc'[t] = pc[t]
        BY <2>0 DEF Goto, SchemaInv, ControlType
    <2>1. CASE Start(s)
        BY <2>0, <2>1, Bystander DEF Start, database, Builds
    <2>2. CASE EnsureMigrationsTable(s)
        BY <2>0, <2>2, Bystander DEF EnsureMigrationsTable, Builds
    <2>3. CASE LoadApplied(s)
        BY <2>0, <2>3, Bystander DEF LoadApplied, database, Builds
    <2>4. CASE CreateStatement(s)
        BY <2>4, CreateNeverTears
    <2>5. CASE StatementRefused(s)
        <3>1. ~Builds(s)
            BY <2>5, StatementFacts DEF StatementRefused, Builds, SchemaInv, ControlType
        <3>2. QED  BY <2>5, <3>1, GoneIsNoticed DEF StatementRefused, database
    <2>6. CASE RecordMigration(s)
        BY <2>6 DEF RecordMigration, RaceNeverTears, Torn
    <2>7. CASE ComeUp(s)
        <3>1. \A t \in Server \ {s} : at'[t] = at[t]
            BY <2>7 DEF ComeUp, SchemaInv, ControlType
        <3>2. QED  BY <2>0, <2>7, <3>1, Bystander DEF ComeUp, database, Builds
    <2>8. CASE Shutdown(s) \/ Drained(s) \/ MergesWaitedFor(s)
        <3>1. PICK l : Goto(s, l)
            BY <2>8 DEF Shutdown, Drained, MergesWaitedFor
        <3>2. ~Builds(s) /\ UNCHANGED <<schema, applied, at, hurt>>
            BY <2>8 DEF Shutdown, Drained, MergesWaitedFor, database, Builds
        <3>3. QED  BY <2>0, <3>1, <3>2, Bystander
    <2>9. CASE Exit(s)
        BY <2>9, GoneIsNoticed DEF Exit, database, Builds
    <2>10. CASE Work(s) \/ Deadline(s) \/ ListenFails(s)
        BY <1>1, <2>10, WorkIsQuiet
    <2>11. CASE StartFails(s)
        <3>1. Gone(s) /\ hurt' = (hurt \/ Builds(s) \/ schema' # schema)
            BY <2>11 DEF StartFails, Accident
        <3>2. applied => applied'
            BY <2>11 DEF StartFails, database
        <3>3. QED  BY <3>1, <3>2, GoneIsNoticed, Zenon
    <2>12. CASE Signal(s)
        <3>1. CASE pc[s] = "up"
            BY <1>1, <2>12, <3>1 DEF Signal, database, Quiet
        <3>2. CASE pc[s] # "up"
            BY <2>12, <3>2, GoneIsNoticed DEF Signal, database
        <3>3. QED  BY <3>1, <3>2
    <2>13. CASE Crash(s)
        BY <2>13, GoneIsNoticed DEF Crash, Accident, database
    <2>14. QED
        BY <1>2, <2>1, <2>2, <2>3, <2>4, <2>5, <2>6, <2>7, <2>8, <2>9, <2>10, <2>11, <2>12,
           <2>13 DEF MainStep, Migrate, Trouble
<1>3. CASE UNCHANGED vars
    BY <1>1, <1>3 DEF vars, database, Quiet
<1>4. QED  BY <1>2, <1>3 DEF Next

(* Any number of replicas may start on an empty database at once: if the    *)
(* schema is left half built, its builder met with an accident.             *)
THEOREM RacesNeverTear == Spec => []RaceNeverTears
<1>1. Init => RaceNeverTears
    BY DEF Init, RaceNeverTears, Torn
<1>2. QED  BY SchemaStart, SchemaStep, RaceStep, <1>1, PTL DEF Spec

-----------------------------------------------------------------------------
(* Types. *)

LEMMA ProcFacts ==
    /\ NewProcess \in ProcType
    /\ \A p \in ProcType :
          /\ \A l \in {"none", "open", "closed", "failed"} :
                [p EXCEPT !.listener = l] \in ProcType
          /\ \A R \in SUBSET Request :
                /\ [p EXCEPT !.requests = R] \in ProcType
                /\ [p EXCEPT !.merges = R] \in ProcType
                /\ [p EXCEPT !.awaited = R] \in ProcType
          /\ [p EXCEPT !.cancelled = TRUE] \in ProcType
          /\ [p EXCEPT !.late = TRUE] \in ProcType
          /\ \A J \in SUBSET Job :
                [p EXCEPT !.running = J] \in ProcType /\ [p EXCEPT !.returned = J] \in ProcType
BY DEF ProcType, NewProcess

ProcTyped == proc \in [Server -> ProcType] /\ ticks \in [Server -> SUBSET Job]
CountsTyped == accidents \in 0 .. MaxAccidents /\ signals \in 0 .. MaxSignals

LEMMA ProcTypedStep == ProcTyped /\ [Next]_vars => ProcTyped'
<1> SUFFICES ASSUME ProcTyped, [Next]_vars PROVE ProcTyped'
    OBVIOUS
<1>1. ASSUME UNCHANGED process PROVE ProcTyped'
    BY <1>1 DEF process, ProcTyped
<1>2. ASSUME NEW s \in Server, Gone(s) PROVE ProcTyped'
    BY <1>2, ProcFacts DEF Gone, ProcTyped
<1>3. ASSUME NEW s \in Server, NEW p \in ProcType, proc' = [proc EXCEPT ![s] = p],
             ticks' \in [Server -> SUBSET Job]
      PROVE  ProcTyped'
    BY <1>3 DEF ProcTyped
<1>4. ASSUME NEW s \in Server,
             Start(s) \/ MainStep(s) \/ Work(s) \/ Deadline(s) \/ Trouble(s)
      PROVE  ProcTyped'
    <2>0. /\ proc[s] \in ProcType /\ ticks \in [Server -> SUBSET Job]
          /\ proc[s].requests \subseteq Request /\ proc[s].merges \subseteq Request
          /\ proc[s].running \subseteq Job /\ proc[s].returned \subseteq Job
          /\ proc[s].listener \in {"none", "open", "closed", "failed"}
        BY DEF ProcTyped, ProcType
    <2>1. CASE \/ Start(s) \/ EnsureMigrationsTable(s) \/ LoadApplied(s) \/ CreateStatement(s)
               \/ ComeUp(s) \/ MergesWaitedFor(s)
        BY <1>1, <2>1 DEF Start, EnsureMigrationsTable, LoadApplied, CreateStatement, ComeUp,
                          MergesWaitedFor
    <2>2. CASE StatementRefused(s) \/ Exit(s) \/ StartFails(s) \/ Crash(s)
        BY <1>2, <2>2 DEF StatementRefused, Exit, StartFails, Crash
    <2>3. CASE RecordMigration(s)
        BY <1>1, <1>2, <2>3 DEF RecordMigration
    <2>4. CASE Shutdown(s)
        <3> DEFINE l == IF proc[s].listener = "open" THEN "closed" ELSE proc[s].listener
        <3>1. [proc[s] EXCEPT !.listener = l] \in ProcType
            BY <2>0, ProcFacts
        <3>2. proc' = [proc EXCEPT ![s] = [proc[s] EXCEPT !.listener = l]] /\ ticks' = ticks
            BY <2>4, Zenon DEF Shutdown
        <3>3. QED  BY <1>3, <2>0, <3>1, <3>2
    <2>5. CASE Drained(s)
        BY <1>3, <2>0, <2>5, ProcFacts DEF Drained
    <2>6. CASE Listen(s)
        <3> DEFINE l == IF pc[s] = "up" THEN "open" ELSE "closed"
        <3>1. [proc[s] EXCEPT !.listener = l] \in ProcType
            BY <2>0, ProcFacts
        <3>2. proc' = [proc EXCEPT ![s] = [proc[s] EXCEPT !.listener = l]] /\ ticks' = ticks
            BY <2>6, Zenon DEF Listen, Change
        <3>3. QED  BY <1>3, <2>0, <3>1, <3>2
    <2>7. CASE ListenFails(s) \/ Deadline(s)
        BY <1>3, <2>0, <2>7, ProcFacts DEF ListenFails, Deadline, Change
    <2>8. ASSUME NEW r \in Request,
                 RequestBegins(s, r) \/ RequestEnds(s, r) \/ MergeBegins(s, r) \/ MergeEnds(s, r)
          PROVE  ProcTyped'
        <3>1. /\ [proc[s] EXCEPT !.requests = @ \cup {r}] \in ProcType
              /\ [proc[s] EXCEPT !.requests = @ \ {r}] \in ProcType
              /\ [proc[s] EXCEPT !.merges = @ \cup {r}] \in ProcType
              /\ [proc[s] EXCEPT !.merges = @ \ {r}] \in ProcType
            BY <2>0, ProcFacts
        <3>2. QED
            BY <1>3, <2>0, <2>8, <3>1
            DEF RequestBegins, RequestEnds, MergeBegins, MergeEnds, Change
    <2>9. ASSUME NEW j \in Job,
                 TickerFires(s, j) \/ JobBegins(s, j) \/ JobEnds(s, j) \/ JobReturns(s, j)
          PROVE  ProcTyped'
        <3>1. /\ [proc[s] EXCEPT !.running = @ \cup {j}] \in ProcType
              /\ [proc[s] EXCEPT !.running = @ \ {j}] \in ProcType
              /\ [proc[s] EXCEPT !.returned = @ \cup {j}] \in ProcType
            BY <2>0, ProcFacts
        <3>2. /\ [ticks EXCEPT ![s] = @ \cup {j}] \in [Server -> SUBSET Job]
              /\ [ticks EXCEPT ![s] = @ \ {j}] \in [Server -> SUBSET Job]
            BY <2>0
        <3>3. CASE TickerFires(s, j)
            BY <3>2, <3>3 DEF TickerFires, ProcTyped
        <3>4. CASE JobBegins(s, j) \/ JobEnds(s, j) \/ JobReturns(s, j)
            BY <1>3, <2>0, <3>1, <3>2, <3>4 DEF JobBegins, JobEnds, JobReturns, Change
        <3>5. QED  BY <2>9, <3>3, <3>4
    <2>10. CASE Signal(s)
        <3>1. CASE pc[s] = "up"
            BY <1>3, <2>0, <2>10, <3>1, ProcFacts DEF Signal
        <3>2. CASE pc[s] # "up"
            BY <1>2, <2>10, <3>2 DEF Signal
        <3>3. QED  BY <3>1, <3>2
    <2>11. QED
        BY <1>4, <2>1, <2>2, <2>3, <2>4, <2>5, <2>6, <2>7, <2>8, <2>9, <2>10
        DEF MainStep, Migrate, Work, Trouble
<1>5. CASE UNCHANGED vars
    BY <1>1, <1>5 DEF vars, process
<1>6. QED  BY <1>4, <1>5 DEF Next

LEMMA CountsTypedStep == CountsTyped /\ [Next]_vars => CountsTyped'
<1> SUFFICES ASSUME CountsTyped, [Next]_vars PROVE CountsTyped'
    OBVIOUS
<1> DEFINE Counted ==
               \/ UNCHANGED bounds
               \/ accidents < MaxAccidents /\ accidents' = accidents + 1 /\ signals' = signals
               \/ signals < MaxSignals /\ signals' = signals + 1 /\ accidents' = accidents
<1>1. Counted
    <2>1. CASE UNCHANGED vars
        BY <2>1 DEF vars, bounds
    <2>2. ASSUME NEW s \in Server,
                 Start(s) \/ MainStep(s) \/ Work(s) \/ Deadline(s) \/ Trouble(s)
          PROVE  Counted
        <3>1. CASE Start(s) \/ MainStep(s) \/ Deadline(s)
            BY <3>1
            DEF Start, MainStep, Migrate, EnsureMigrationsTable, LoadApplied, CreateStatement,
                StatementRefused, RecordMigration, ComeUp, Shutdown, Drained, MergesWaitedFor,
                Exit, Deadline
        <3>2. CASE Work(s)
            BY <3>2
            DEF Work, Listen, RequestBegins, RequestEnds, MergeBegins, MergeEnds, TickerFires,
                JobBegins, JobEnds, JobReturns
        <3>3. CASE Trouble(s)
            BY <3>3 DEF Trouble, StartFails, ListenFails, Signal, Crash, Accident, bounds
        <3>4. QED  BY <2>2, <3>1, <3>2, <3>3
    <2>3. QED  BY <2>1, <2>2 DEF Next
<1>2. QED  BY <1>1, SizeAssumption DEF CountsTyped, bounds
TableTyped == migrationsTable \in BOOLEAN

LEMMA TableTypedStep == TableTyped /\ [Next]_vars => TableTyped'
<1> SUFFICES ASSUME [Next]_vars
             PROVE  migrationsTable' = migrationsTable \/ migrationsTable' = TRUE
    BY DEF TableTyped
<1>1. ASSUME NEW s \in Server,
             Start(s) \/ MainStep(s) \/ Work(s) \/ Deadline(s) \/ Trouble(s)
      PROVE  migrationsTable' = migrationsTable \/ migrationsTable' = TRUE
    BY <1>1
    DEF database, MainStep, Work, Trouble, Start, Migrate, EnsureMigrationsTable, LoadApplied,
        CreateStatement, StatementRefused, RecordMigration, ComeUp, Shutdown, Drained,
        MergesWaitedFor, Exit, Deadline, Listen, RequestBegins, RequestEnds, MergeBegins,
        MergeEnds, TickerFires, JobBegins, JobEnds, JobReturns, StartFails, ListenFails, Signal,
        Crash, Change
<1>2. CASE UNCHANGED vars
    BY <1>2 DEF vars, database
<1>3. QED  BY <1>1, <1>2 DEF Next

(* Type correctness, for any number of replicas, requests, jobs, statements *)
(* and accidents: main never goes past the last statement.                  *)
THEOREM LifecycleTyped == Spec => []TypeOK
<1>1. Init => ProcTyped /\ CountsTyped /\ TableTyped
    <2>1. Init => ProcTyped /\ TableTyped
        BY ProcFacts DEF Init, ProcTyped, TableTyped
    <2>2. Init => CountsTyped
        BY SizeAssumption DEF Init, CountsTyped
    <2>3. QED  BY <2>1, <2>2
<1>2. SchemaInv /\ ProcTyped /\ CountsTyped /\ TableTyped => TypeOK
    BY DEF SchemaInv, ControlType, ProcTyped, CountsTyped, TableTyped, TypeOK
<1>3. QED
    BY SchemaStart, SchemaStep, ProcTypedStep, CountsTypedStep, TableTypedStep,
       <1>1, <1>2, PTL DEF Spec

-----------------------------------------------------------------------------
(* Stopping. *)

(* What main has waited for is over and stays over, unless the deadline has *)
(* passed: without a listener no request begins, and without a request no   *)
(* merge does.                                                              *)
WaitedFor(s) ==
    /\ pc[s] \in Stopping => proc[s].listener # "open"
    /\ pc[s] \in {"merges", "jobs"} /\ ~proc[s].late =>
          proc[s].requests = {} /\ proc[s].merges \subseteq proc[s].awaited
    /\ pc[s] = "jobs" /\ ~proc[s].late => proc[s].merges = {}
    /\ proc[s].running \cap proc[s].returned = {}
    /\ ~Works(s) => proc[s] = NewProcess

StoppingInv == \A s \in Server : WaitedFor(s)

StopTyped == ControlType /\ ProcTyped

LEMMA StoppingStep ==
    StopTyped /\ StopTyped' /\ StoppingInv /\ [Next]_vars => StoppingInv'
<1> SUFFICES ASSUME StopTyped, StopTyped', StoppingInv, [Next]_vars PROVE StoppingInv'
    OBVIOUS
(* Only s takes a step. *)
<1>1. ASSUME NEW s \in Server,
             \A t \in Server \ {s} : pc'[t] = pc[t] /\ proc'[t] = proc[t],
             WaitedFor(s)'
      PROVE  StoppingInv'
    BY <1>1 DEF StoppingInv, WaitedFor, Works
<1>2. ASSUME NEW s \in Server, Gone(s) PROVE StoppingInv'
    <2>1. \A t \in Server \ {s} : pc'[t] = pc[t] /\ proc'[t] = proc[t]
        BY <1>2 DEF Gone, Goto, StopTyped, ControlType, ProcTyped
    <2>2. pc'[s] = "down" /\ proc'[s] = NewProcess
        BY <1>2 DEF Gone, Goto, StopTyped, ControlType, ProcTyped
    <2>3. WaitedFor(s)'
        BY <2>2 DEF WaitedFor, Works, Stopping, NewProcess
    <2>4. QED  BY <1>1, <2>1, <2>3
<1>3. ASSUME NEW s \in Server, NEW l \in Starting \cup {"up"}, Goto(s, l), UNCHANGED proc,
             ~Works(s)
      PROVE  StoppingInv'
    <2>1. \A t \in Server \ {s} : pc'[t] = pc[t] /\ proc'[t] = proc[t]
        BY <1>3 DEF Goto, StopTyped, ControlType
    <2>2. pc'[s] = l /\ proc'[s] = NewProcess
        BY <1>3 DEF Goto, StopTyped, ControlType, StoppingInv, WaitedFor
    <2>3. WaitedFor(s)'
        BY <2>2 DEF WaitedFor, Works, Starting, Stopping, NewProcess
    <2>4. QED  BY <1>1, <2>1, <2>3
(* Only the process of s changes. *)
<1>4. ASSUME NEW s \in Server, NEW p \in ProcType, proc' = [proc EXCEPT ![s] = p],
             UNCHANGED pc, Works(s),
             pc[s] \in Stopping => p.listener # "open",
             pc[s] \in {"merges", "jobs"} /\ ~p.late =>
                 p.requests = {} /\ p.merges \subseteq p.awaited,
             pc[s] = "jobs" /\ ~p.late => p.merges = {},
             p.running \cap p.returned = {}
      PROVE  StoppingInv'
    <2>1. \A t \in Server \ {s} : pc'[t] = pc[t] /\ proc'[t] = proc[t]
        BY <1>4 DEF StopTyped, ProcTyped
    <2>2. pc'[s] = pc[s] /\ proc'[s] = p
        BY <1>4 DEF StopTyped, ProcTyped
    <2>3. WaitedFor(s)'
        BY <1>4, <2>2 DEF WaitedFor, Works
    <2>4. QED  BY <1>1, <2>1, <2>3
<1>5. ASSUME UNCHANGED <<pc, proc>> PROVE StoppingInv'
    BY <1>5 DEF StoppingInv, WaitedFor, Works
<1>6. ASSUME NEW s \in Server,
             Start(s) \/ MainStep(s) \/ Work(s) \/ Deadline(s) \/ Trouble(s)
      PROVE  StoppingInv'
    <2>0. /\ WaitedFor(s) /\ proc[s] \in ProcType /\ proc'[s] \in ProcType
          /\ pc \in [Server -> Alive \cup {"down"}] /\ proc \in [Server -> ProcType]
          /\ proc[s].requests \subseteq Request /\ proc[s].merges \subseteq Request
          /\ proc[s].running \subseteq Job /\ proc[s].returned \subseteq Job
          /\ proc[s].listener \in {"none", "open", "closed", "failed"}
        BY DEF StoppingInv, StopTyped, ControlType, ProcTyped, ProcType
    <2>1. CASE \/ Start(s) \/ EnsureMigrationsTable(s) \/ LoadApplied(s) \/ CreateStatement(s)
               \/ ComeUp(s)
        <3>1. PICK l \in Starting \cup {"up"} : Goto(s, l)
            BY <2>1 DEF Start, EnsureMigrationsTable, LoadApplied, CreateStatement, ComeUp,
                        After, Starting
        <3>2. UNCHANGED proc /\ ~Works(s)
            BY <2>1 DEF Start, EnsureMigrationsTable, LoadApplied, CreateStatement, ComeUp,
                        process, Works, Stopping
        <3>3. QED  BY <1>3, <3>1, <3>2
    <2>2. CASE StatementRefused(s) \/ Exit(s) \/ StartFails(s) \/ Crash(s)
        BY <1>2, <2>2 DEF StatementRefused, Exit, StartFails, Crash
    <2>3. CASE RecordMigration(s)
        <3>1. "adapter" \in Starting \cup {"up"} /\ ~Works(s)
            BY <2>3 DEF RecordMigration, Works, Starting, Stopping
        <3>2. QED  BY <1>2, <1>3, <2>3, <3>1 DEF RecordMigration, process
    <2>4. CASE Shutdown(s)
        <3> DEFINE l == IF proc[s].listener = "open" THEN "closed" ELSE proc[s].listener
        <3>1. /\ proc' = [proc EXCEPT ![s] = [proc[s] EXCEPT !.listener = l]]
              /\ Goto(s, "drain") /\ pc[s] = "up"
            BY <2>4, Zenon DEF Shutdown
        <3>2. \A t \in Server \ {s} : pc'[t] = pc[t] /\ proc'[t] = proc[t]
            BY <2>0, <3>1 DEF Goto
        <3>3. /\ pc'[s] = "drain" /\ proc'[s].listener # "open"
              /\ proc'[s].running = proc[s].running /\ proc'[s].returned = proc[s].returned
            BY <2>0, <3>1 DEF Goto, ProcType
        <3>4. WaitedFor(s)'
            BY <2>0, <3>3 DEF WaitedFor, Works, Stopping
        <3>5. QED  BY <1>1, <3>2, <3>4
    <2>5. CASE Drained(s)
        <3>1. \A t \in Server \ {s} : pc'[t] = pc[t] /\ proc'[t] = proc[t]
            BY <2>0, <2>5 DEF Drained, Goto
        <3>2. /\ pc'[s] = "merges"
              /\ proc'[s] = [proc[s] EXCEPT !.awaited = proc[s].merges]
              /\ proc[s].requests = {} \/ proc[s].late
              /\ proc[s].listener # "open"
            BY <2>0, <2>5 DEF Drained, Goto, WaitedFor, Stopping
        <3>3. WaitedFor(s)'
            BY <2>0, <3>2 DEF WaitedFor, Works, Stopping, ProcType
        <3>4. QED  BY <1>1, <3>1, <3>3
    <2>6. CASE MergesWaitedFor(s)
        <3>1. \A t \in Server \ {s} : pc'[t] = pc[t] /\ proc'[t] = proc[t]
            BY <2>0, <2>6 DEF MergesWaitedFor, Goto, process
        <3>2. /\ pc'[s] = "jobs" /\ proc'[s] = proc[s] /\ pc[s] = "merges"
              /\ proc[s].awaited \cap proc[s].merges = {} \/ proc[s].late
            BY <2>0, <2>6 DEF MergesWaitedFor, Goto, process, Awaited
        <3>3. WaitedFor(s)'
            BY <2>0, <3>2 DEF WaitedFor, Works, Stopping, ProcType
        <3>4. QED  BY <1>1, <3>1, <3>3
    <2>7. CASE Listen(s)
        <3> DEFINE l == IF pc[s] = "up" THEN "open" ELSE "closed"
        <3>1. /\ proc' = [proc EXCEPT ![s] = [proc[s] EXCEPT !.listener = l]]
              /\ UNCHANGED pc /\ Works(s)
            BY <2>7, Zenon DEF Listen, Change
        <3>2. pc[s] \in Stopping => l # "open"
            BY DEF Stopping
        <3>3. l \in {"open", "closed"}
            OBVIOUS
        <3> HIDE DEF l
        <3>4. QED
            <4> DEFINE p == [proc[s] EXCEPT !.listener = l]
            <4>1. p \in ProcType
                BY <2>0, ProcFacts, <3>3
            <4>2. p.listener = l
                BY <2>0 DEF ProcType
            <4>3. /\ p.awaited = proc[s].awaited /\ p.late = proc[s].late /\ p.merges = proc[s].merges
                  /\ p.requests = proc[s].requests /\ p.returned = proc[s].returned /\ p.running = proc[s].running
                BY <2>0 DEF ProcType
            <4>4. proc' = [proc EXCEPT ![s] = p]
                BY <3>1, Zenon DEF Change
            <4> HIDE DEF p
            <4>5. QED
                BY <1>4, <2>0, <3>1, <3>2, <4>1, <4>2, <4>3, <4>4 DEF WaitedFor
    <2>8. CASE ListenFails(s) \/ Deadline(s)
        <3>1. Works(s) /\ UNCHANGED pc
            BY <2>8 DEF ListenFails, Deadline, Works, Stopping, Change
        <3>2. CASE ListenFails(s)
            <4> DEFINE p == [proc[s] EXCEPT !.listener = "failed"]
            <4>1. p \in ProcType
                BY <2>0, ProcFacts
            <4>2. p.listener = "failed"
                BY <2>0 DEF ProcType
            <4>3. /\ p.awaited = proc[s].awaited /\ p.late = proc[s].late /\ p.merges = proc[s].merges
                  /\ p.requests = proc[s].requests /\ p.returned = proc[s].returned /\ p.running = proc[s].running
                BY <2>0 DEF ProcType
            <4>4. proc' = [proc EXCEPT ![s] = p]
                BY <3>2, Zenon DEF ListenFails, Change
            <4> HIDE DEF p
            <4>5. QED
                BY <1>4, <2>0, <3>1, <4>1, <4>2, <4>3, <4>4 DEF WaitedFor
        <3>3. CASE Deadline(s)
            <4> DEFINE p == [proc[s] EXCEPT !.late = TRUE]
            <4>1. p \in ProcType
                BY <2>0, ProcFacts
            <4>2. p.late = TRUE
                BY <2>0 DEF ProcType
            <4>3. /\ p.awaited = proc[s].awaited /\ p.listener = proc[s].listener /\ p.merges = proc[s].merges
                  /\ p.requests = proc[s].requests /\ p.returned = proc[s].returned /\ p.running = proc[s].running
                BY <2>0 DEF ProcType
            <4>4. proc' = [proc EXCEPT ![s] = p]
                BY <3>3, Zenon DEF Deadline, Change
            <4> HIDE DEF p
            <4>5. QED
                BY <1>4, <2>0, <3>1, <4>1, <4>2, <4>3, <4>4 DEF WaitedFor
        <3>4. QED  BY <2>8, <3>2, <3>3
    <2>9. ASSUME NEW r \in Request,
                 RequestBegins(s, r) \/ RequestEnds(s, r) \/ MergeBegins(s, r) \/ MergeEnds(s, r)
          PROVE  StoppingInv'
        <3>1. Works(s) /\ UNCHANGED pc
            BY <2>0, <2>9
            DEF RequestBegins, RequestEnds, MergeBegins, MergeEnds, WaitedFor, NewProcess, Change
        <3>3. CASE RequestBegins(s, r)
            <4> DEFINE p == [proc[s] EXCEPT !.requests = proc[s].requests \cup {r}]
            <4>1. p \in ProcType
                BY <2>0, ProcFacts
            <4>2. p.requests = proc[s].requests \cup {r}
                BY <2>0 DEF ProcType
            <4>3. /\ p.awaited = proc[s].awaited /\ p.late = proc[s].late /\ p.listener = proc[s].listener
                  /\ p.merges = proc[s].merges /\ p.returned = proc[s].returned /\ p.running = proc[s].running
                BY <2>0 DEF ProcType
            <4>4. proc' = [proc EXCEPT ![s] = p]
                BY <3>3, Zenon DEF RequestBegins, Change
            <4> HIDE DEF p
            <4>5. QED
                BY <1>4, <2>0, <3>1, <3>3, <4>1, <4>2, <4>3, <4>4 DEF RequestBegins, WaitedFor, Stopping
        <3>4. CASE RequestEnds(s, r)
            <4> DEFINE p == [proc[s] EXCEPT !.requests = proc[s].requests \ {r}]
            <4>1. p \in ProcType
                BY <2>0, ProcFacts
            <4>2. p.requests = proc[s].requests \ {r}
                BY <2>0 DEF ProcType
            <4>3. /\ p.awaited = proc[s].awaited /\ p.late = proc[s].late /\ p.listener = proc[s].listener
                  /\ p.merges = proc[s].merges /\ p.returned = proc[s].returned /\ p.running = proc[s].running
                BY <2>0 DEF ProcType
            <4>4. proc' = [proc EXCEPT ![s] = p]
                BY <3>4, Zenon DEF RequestEnds, Change
            <4> HIDE DEF p
            <4>5. QED
                BY <1>4, <2>0, <3>1, <4>1, <4>2, <4>3, <4>4 DEF WaitedFor
        <3>5. CASE MergeBegins(s, r)
            <4> DEFINE p == [proc[s] EXCEPT !.merges = proc[s].merges \cup {r}]
            <4>1. p \in ProcType
                BY <2>0, ProcFacts
            <4>2. p.merges = proc[s].merges \cup {r}
                BY <2>0 DEF ProcType
            <4>3. /\ p.awaited = proc[s].awaited /\ p.late = proc[s].late /\ p.listener = proc[s].listener
                  /\ p.requests = proc[s].requests /\ p.returned = proc[s].returned /\ p.running = proc[s].running
                BY <2>0 DEF ProcType
            <4>4. proc' = [proc EXCEPT ![s] = p]
                BY <3>5, Zenon DEF MergeBegins, Change
            <4> HIDE DEF p
            <4>5. QED
                BY <1>4, <2>0, <3>1, <3>5, <4>1, <4>2, <4>3, <4>4 DEF MergeBegins, WaitedFor
        <3>6. CASE MergeEnds(s, r)
            <4> DEFINE p == [proc[s] EXCEPT !.merges = proc[s].merges \ {r}]
            <4>1. p \in ProcType
                BY <2>0, ProcFacts
            <4>2. p.merges = proc[s].merges \ {r}
                BY <2>0 DEF ProcType
            <4>3. /\ p.awaited = proc[s].awaited /\ p.late = proc[s].late /\ p.listener = proc[s].listener
                  /\ p.requests = proc[s].requests /\ p.returned = proc[s].returned /\ p.running = proc[s].running
                BY <2>0 DEF ProcType
            <4>4. proc' = [proc EXCEPT ![s] = p]
                BY <3>6, Zenon DEF MergeEnds, Change
            <4> HIDE DEF p
            <4>5. QED
                BY <1>4, <2>0, <3>1, <4>1, <4>2, <4>3, <4>4 DEF WaitedFor
        <3>7. QED  BY <2>9, <3>3, <3>4, <3>5, <3>6
    <2>10. ASSUME NEW j \in Job,
                  TickerFires(s, j) \/ JobBegins(s, j) \/ JobEnds(s, j) \/ JobReturns(s, j)
           PROVE  StoppingInv'
        <3>1. CASE TickerFires(s, j)
            BY <1>5, <3>1 DEF TickerFires
        <3>2. CASE JobBegins(s, j) \/ JobEnds(s, j) \/ JobReturns(s, j)
            <4>1. /\ Works(s) /\ UNCHANGED pc
                  /\ JobBegins(s, j) => j \notin proc[s].returned
                  /\ JobReturns(s, j) => j \notin proc[s].running
                BY <2>0, <3>2 DEF JobBegins, JobEnds, JobReturns, Change, WaitedFor, NewProcess
            <4>2. CASE JobBegins(s, j)
                <5> DEFINE p == [proc[s] EXCEPT !.running = proc[s].running \cup {j}]
                <5>1. p \in ProcType
                    BY <2>0, ProcFacts
                <5>2. p.running = proc[s].running \cup {j}
                    BY <2>0 DEF ProcType
                <5>3. /\ p.awaited = proc[s].awaited /\ p.late = proc[s].late /\ p.listener = proc[s].listener
                      /\ p.merges = proc[s].merges /\ p.requests = proc[s].requests /\ p.returned = proc[s].returned
                    BY <2>0 DEF ProcType
                <5>4. proc' = [proc EXCEPT ![s] = p]
                    BY <4>2, Zenon DEF JobBegins
                <5> HIDE DEF p
                <5>5. QED
                    BY <1>4, <2>0, <4>1, <5>1, <5>2, <5>3, <5>4, <4>2 DEF WaitedFor
            <4>3. CASE JobEnds(s, j)
                <5> DEFINE p == [proc[s] EXCEPT !.running = proc[s].running \ {j}]
                <5>1. p \in ProcType
                    BY <2>0, ProcFacts
                <5>2. p.running = proc[s].running \ {j}
                    BY <2>0 DEF ProcType
                <5>3. /\ p.awaited = proc[s].awaited /\ p.late = proc[s].late /\ p.listener = proc[s].listener
                      /\ p.merges = proc[s].merges /\ p.requests = proc[s].requests /\ p.returned = proc[s].returned
                    BY <2>0 DEF ProcType
                <5>4. proc' = [proc EXCEPT ![s] = p]
                    BY <4>3, Zenon DEF JobEnds, Change
                <5> HIDE DEF p
                <5>5. QED
                    BY <1>4, <2>0, <4>1, <5>1, <5>2, <5>3, <5>4 DEF WaitedFor
            <4>4. CASE JobReturns(s, j)
                <5> DEFINE p == [proc[s] EXCEPT !.returned = proc[s].returned \cup {j}]
                <5>1. p \in ProcType
                    BY <2>0, ProcFacts
                <5>2. p.returned = proc[s].returned \cup {j}
                    BY <2>0 DEF ProcType
                <5>3. /\ p.awaited = proc[s].awaited /\ p.late = proc[s].late /\ p.listener = proc[s].listener
                      /\ p.merges = proc[s].merges /\ p.requests = proc[s].requests /\ p.running = proc[s].running
                    BY <2>0 DEF ProcType
                <5>4. proc' = [proc EXCEPT ![s] = p]
                    BY <4>4, Zenon DEF JobReturns
                <5> HIDE DEF p
                <5>5. QED
                    BY <1>4, <2>0, <4>1, <5>1, <5>2, <5>3, <5>4, <4>4 DEF WaitedFor
            <4>5. QED  BY <3>2, <4>2, <4>3, <4>4
        <3>3. QED  BY <2>10, <3>1, <3>2
    <2>11. CASE Signal(s)
        <3>1. CASE pc[s] = "up"
            <4> DEFINE p == [proc[s] EXCEPT !.cancelled = TRUE]
            <4>1. p \in ProcType
                BY <2>0, ProcFacts
            <4>2. /\ p.requests = proc[s].requests /\ p.merges = proc[s].merges
                  /\ p.running = proc[s].running /\ p.returned = proc[s].returned
                BY <2>0 DEF ProcType
            <4>3. proc' = [proc EXCEPT ![s] = p] /\ UNCHANGED pc
                BY <2>11, <3>1, Zenon DEF Signal
            <4> HIDE DEF p
            <4>4. Works(s) /\ pc[s] \notin Stopping /\ pc[s] \notin {"merges", "jobs"}
                BY <3>1 DEF Works, Stopping
            <4>5. QED
                BY <1>4, <2>0, <4>1, <4>2, <4>3, <4>4 DEF WaitedFor
        <3>2. CASE pc[s] # "up"
            BY <1>2, <2>11, <3>2 DEF Signal
        <3>3. QED  BY <3>1, <3>2
    <2>12. QED
        BY <1>6, <2>1, <2>2, <2>3, <2>4, <2>5, <2>6, <2>7, <2>8, <2>9, <2>10, <2>11
        DEF MainStep, Migrate, Work, Trouble
<1>7. CASE UNCHANGED vars
    BY <1>5, <1>7 DEF vars, process
<1>8. QED  BY <1>6, <1>7 DEF Next

(* main exits by its last step only: a crash counts as an accident.         *)
LEMMA ExitIsClean ==
    StopTyped /\ CountsTyped /\ StoppingInv /\ [Next]_vars =>
        \A s \in Server : Exits(s) =>
            /\ proc[s].running = {}
            /\ proc[s].late \/ (proc[s].requests = {} /\ proc[s].merges = {})
<1> SUFFICES ASSUME StopTyped, CountsTyped, StoppingInv, [Next]_vars,
                    NEW s \in Server, Exits(s)
             PROVE  /\ proc[s].running = {}
                    /\ proc[s].late \/ (proc[s].requests = {} /\ proc[s].merges = {})
    OBVIOUS
<1>1. pc[s] = "jobs" /\ pc'[s] = "down" /\ accidents' = accidents /\ accidents \in Nat
      /\ WaitedFor(s) /\ proc[s].running \subseteq Job
    BY SizeAssumption DEF Exits, CountsTyped, StoppingInv, StopTyped, ProcTyped, ProcType
<1>2. proc[s].late \/ (proc[s].requests = {} /\ proc[s].merges = {})
    BY <1>1 DEF WaitedFor
<1>3. proc[s].returned = Job
    <2>1. PICK t \in Server : Start(t) \/ MainStep(t) \/ Work(t) \/ Deadline(t) \/ Trouble(t)
        BY <1>1 DEF Next, vars
    <2>2. ~Work(t) /\ ~Deadline(t) /\ ~ListenFails(t)
        BY <1>1, WorkIsQuiet DEF Quiet
    <2>3. pc' # pc /\ \A l : Goto(t, l) => t = s /\ l = "down"
        BY <1>1 DEF Goto, StopTyped, ControlType
    <2>4. CASE Start(t) \/ MainStep(t)
        BY <1>1, <2>3, <2>4
        DEF Start, MainStep, Migrate, EnsureMigrationsTable, LoadApplied, CreateStatement,
            StatementRefused, RecordMigration, ComeUp, Shutdown, Drained, MergesWaitedFor, Exit,
            Gone, After
    <2>5. CASE Trouble(t)
        <3>1. CASE StartFails(t) \/ Crash(t)
            BY <1>1, <3>1 DEF StartFails, Crash, Accident
        <3>2. CASE Signal(t)
            BY <1>1, <2>3, <3>2 DEF Signal, Gone, Starting
        <3>3. QED  BY <2>2, <2>5, <3>1, <3>2 DEF Trouble
    <2>6. QED  BY <2>1, <2>2, <2>4, <2>5
<1>4. proc[s].running = {}
    BY <1>1, <1>3 DEF WaitedFor
<1>5. QED  BY <1>2, <1>4

(* A server that stops within the deadline cuts off no request and no       *)
(* merge, and none exits with a job running (main.go:95-99), however many   *)
(* requests, merges and jobs there are.                                     *)
THEOREM ExitsClean == Spec => CleanExit
<1>1. Init => ProcTyped /\ CountsTyped /\ StoppingInv
    <2>1. Init => ProcTyped /\ CountsTyped
        BY ProcFacts, SizeAssumption DEF Init, ProcTyped, CountsTyped
    <2>2. Init => StoppingInv
        BY DEF Init, StoppingInv, WaitedFor, Works, Stopping, NewProcess
    <2>3. QED  BY <2>1, <2>2
<1>2. SchemaInv /\ ProcTyped => StopTyped
    BY DEF SchemaInv, StopTyped
<1>3. QED
    BY SchemaStart, SchemaStep, ProcTypedStep, CountsTypedStep, StoppingStep, ExitIsClean,
       <1>1, <1>2, PTL DEF Spec, CleanExit

=============================================================================
