---------------------------- MODULE GraphMigrations ----------------------------
(***************************************************************************)
(* The graph migrations: backend/app/graph/migrations.py as run by         *)
(* scripts/graph_migrate.py.  A command reads which migrations are         *)
(* recorded, then goes through the others (apply) or those (rollback,      *)
(* newest first) one after the other.  A migration of schema statements    *)
(* alone runs them one by one, each committed as it ends, and then writes  *)
(* its bookkeeping node; any other one is a single transaction.  A command *)
(* may stop at any point and be started again, and two hosts may apply at  *)
(* the same time.                                                          *)
(***************************************************************************)
EXTENDS Integers, Sequences, FiniteSetsExt, Functions

CONSTANTS
  Order,         \* the migrations on disk, in the order of their names
  Forward,       \* their statements
  Rollback,      \* those of their rollback file, none if there is no file
  Items,         \* what statements make or drop: a constraint, index or node
  Runners,       \* hosts the script runs on
  MaxCommands    \* bound: how many commands are started

Ids == {Order[i] : i \in DOMAIN Order}

\* The schema statements say IF NOT EXISTS or IF EXISTS, all of them.
Statements == [kind : {"schema", "data"}, op : {"make", "drop"}, item : Items]

ASSUME MigrationsAssumption ==
  /\ Order \in Seq(Ids) /\ IsInjective(Order)
  /\ Forward \in [Ids -> Seq(Statements)]
  /\ Rollback \in [Ids -> Seq(Statements)]
  /\ MaxCommands \in Nat

\* What a file names, and whether it holds a statement that is no schema's.
Named(statements) == {s.item : s \in Range(statements)}
Makes(m)          == Named(Forward[m])
WritesData(m)     == \E s \in Range(Forward[m]) : s.kind = "data"

\* The files of the repository: each names an item once, no two migrations
\* name the same one, a migration makes things and its rollback drops things
\* of its own.  Schema and data do not share a transaction, so they do not
\* share a file; and data has a rollback, which drops all of it.
ASSUME FilesAssumption ==
  \A m \in Ids :
    /\ \A f \in {Forward, Rollback} :
         \A s, t \in Range(f[m]) : s.item = t.item => s = t
    /\ \A n \in Ids \ {m} : Makes(m) \cap Makes(n) = {}
    /\ \A s \in Range(Forward[m]) : s.op = "make"
    /\ Named(Rollback[m]) \subseteq Makes(m)
    /\ \A s \in Range(Rollback[m]) : s.op = "drop"
    /\ WritesData(m) =>
         /\ \A s \in Range(Forward[m]) \cup Range(Rollback[m]) : s.kind = "data"
         /\ Named(Rollback[m]) = Makes(m)

VARIABLES
  graph,      \* how often each item is in the database
  record,     \* the :_GraphMigration nodes of each migration
  runner,     \* the command each host runs
  commands,   \* how many were started
  cut         \* history: rollbacks that dropped something and unrecorded nothing

vars == <<graph, record, runner, commands, cut>>

-----------------------------------------------------------------------------

Idle == [command |-> "none", todo |-> {}, step |-> 1]

Init ==
  /\ graph = [x \in Items |-> 0]
  /\ record = [m \in Ids |-> 0]
  /\ runner = [r \in Runners |-> Idle]
  /\ commands = 0
  /\ cut = {}

\* _applied_ids and graph_migration_status: the nodes as a set of ids.
Applied == {m \in Ids : record[m] > 0}

Recorded == {i \in DOMAIN Order : Order[i] \in Applied}

\* apply_graph_migrations and rollback_graph_migrations: the files a command
\* that starts now will go through.
Plan(command) ==
  IF command = "apply" THEN DOMAIN Order \ Recorded ELSE Recorded

\* Mutant of Position: a rollback goes through the migrations in file order.
PositionForward(r) == Min(runner[r].todo)

\* The loops of both: in file order, or newest first.
Position(r) == IF runner[r].command = "apply" THEN Min(runner[r].todo)
                                              ELSE Max(runner[r].todo)

\* The migration a runner is at and the statements it runs for it.
At(r)   == Order[Position(r)]
Body(r) == IF runner[r].command = "apply" THEN Forward[At(r)] ELSE Rollback[At(r)]

\* Mutant of IsSchemaOnly: every migration runs outside a transaction.
IsSchemaOnlyAlways(statements) == TRUE

\* _is_schema_only.
IsSchemaOnly(statements) ==
  /\ statements # <<>>
  /\ \A i \in DOMAIN statements : statements[i].kind = "schema"

\* How often its item is there after a statement: schema is made once, data
\* by each CREATE again.
After(count, s) == IF s.op = "drop" THEN 0
                   ELSE IF s.kind = "schema" THEN 1
                   ELSE count + 1

\* The database db with statements run on it, each on an item of its own.
Effect(db, statements) ==
  [x \in Items |->
     IF x \in {s.item : s \in statements}
     THEN After(db[x], CHOOSE s \in statements : s.item = x)
     ELSE db[x]]

-----------------------------------------------------------------------------

\* The script is started.  An operator rolls back alone, while no other
\* command runs; applying is what a deployment does, from any host.
Start(r, command) ==
  /\ runner[r].command = "none" /\ commands < MaxCommands
  /\ \A q \in Runners \ {r} :
       runner[q].command = "none" \/ {command, runner[q].command} = {"apply"}
  /\ runner' = [runner EXCEPT ![r] =
                  [command |-> command, todo |-> Plan(command), step |-> 1]]
  /\ commands' = commands + 1
  /\ UNCHANGED <<graph, record, cut>>

\* Mutant of SchemaStatement: a statement that fails is passed over.
SchemaStatementBestEffort(r) ==
  /\ runner[r].todo # {} /\ IsSchemaOnly(Body(r))
  /\ runner[r].step <= Len(Body(r))
  /\ graph' \in {graph, Effect(graph, {Body(r)[runner[r].step]})}
  /\ runner' = [runner EXCEPT ![r].step = @ + 1]
  /\ cut' = IF runner[r].command = "rollback" THEN cut \cup {At(r)} ELSE cut
  /\ UNCHANGED <<record, commands>>

\* _apply_step: session.run of the next schema statement.
SchemaStatement(r) ==
  /\ runner[r].todo # {} /\ IsSchemaOnly(Body(r))
  /\ runner[r].step <= Len(Body(r))
  /\ graph' = Effect(graph, {Body(r)[runner[r].step]})
  /\ runner' = [runner EXCEPT ![r].step = @ + 1]
  /\ cut' = IF runner[r].command = "rollback" THEN cut \cup {At(r)} ELSE cut
  /\ UNCHANGED <<record, commands>>

\* Mutant of Bookkeep: the next migration starts where this one ended.
BookkeepNoReset(r) ==
  /\ record' = [record EXCEPT ![At(r)] =
                  IF runner[r].command = "apply" THEN @ + 1 ELSE 0]
  /\ runner' = [runner EXCEPT ![r].todo = @ \ {Position(r)}]

\* _RECORD and _UNRECORD, and on to the next migration.  The one creates a
\* node each time, the other deletes them all.
Bookkeep(r) ==
  /\ record' = [record EXCEPT ![At(r)] =
                  IF runner[r].command = "apply" THEN @ + 1 ELSE 0]
  /\ runner' = [runner EXCEPT ![r].todo = @ \ {Position(r)}, ![r].step = 1]

\* Mutant of RecordSchema: the node is written before the last statement.
RecordSchemaEarly(r) ==
  /\ runner[r].todo # {} /\ IsSchemaOnly(Body(r))
  /\ runner[r].step >= Len(Body(r))
  /\ Bookkeep(r)
  /\ cut' = cut \ {At(r)}
  /\ UNCHANGED <<graph, commands>>

\* _apply_step: session.run of the bookkeeping after the last statement.
RecordSchema(r) ==
  /\ runner[r].todo # {} /\ IsSchemaOnly(Body(r))
  /\ runner[r].step > Len(Body(r))
  /\ Bookkeep(r)
  /\ cut' = cut \ {At(r)}
  /\ UNCHANGED <<graph, commands>>

\* _run_steps_then_bookkeeping: all or nothing, so one step.  Without a
\* rollback file there is only the bookkeeping.
Transaction(r) ==
  /\ runner[r].todo # {} /\ ~IsSchemaOnly(Body(r))
  /\ graph' = Effect(graph, Range(Body(r)))
  /\ Bookkeep(r)
  /\ UNCHANGED <<commands, cut>>

\* The command has gone through all.
Finish(r) ==
  /\ runner[r].command # "none" /\ runner[r].todo = {}
  /\ runner' = [runner EXCEPT ![r] = Idle]
  /\ UNCHANGED <<graph, record, commands, cut>>

\* A statement or the connection fails, or the process is killed.
Stop(r) ==
  /\ runner[r].command # "none"
  /\ runner' = [runner EXCEPT ![r] = Idle]
  /\ UNCHANGED <<graph, record, commands, cut>>

Next ==
  \E r \in Runners :
    \/ \E command \in {"apply", "rollback"} : Start(r, command)
    \/ SchemaStatement(r) \/ RecordSchema(r) \/ Transaction(r)
    \/ Finish(r) \/ Stop(r)

Spec == Init /\ [][Next]_vars

-----------------------------------------------------------------------------
(* Properties.                                                             *)

\* Every variable keeps its type, and no runner is past the bookkeeping that
\* follows the last statement of the migration it is at.
TypeOK ==
  /\ graph \in [Items -> Nat]
  /\ record \in [Ids -> Nat]
  /\ runner \in [Runners -> [command : {"none", "apply", "rollback"},
                             todo : SUBSET DOMAIN Order, step : Nat \ {0}]]
  /\ \A r \in Runners :
       runner[r].todo # {} => runner[r].step <= Len(Body(r)) + 1
  /\ commands \in 0..MaxCommands
  /\ cut \subseteq Ids

Present(m) == \A x \in Makes(m) : graph[x] > 0

\* apply_graph_migrations and rollback_graph_migrations: the recorded ones are
\* always the first so many, as a later migration may build on an earlier one,
\* wherever commands stopped and whoever applied beside them.
RecordedIsPrefix ==
  \A i, j \in DOMAIN Order :
    i < j /\ Order[j] \in Applied => Order[i] \in Applied

\* _apply_step, "records itself": what the status lists as applied is in the
\* database, also while several hosts apply and after one stopped midway.  Not
\* so for a rollback that was cut off: it has dropped what is recorded still,
\* and only another rollback puts that right.
RecordedIsApplied == \A m \in Applied \ cut : Present(m)

\* "a mid-way failure rolls the whole migration back": a migration that writes
\* data has left its data exactly as often as it is recorded.
DataMatchesRecords ==
  \A m \in Ids : WritesData(m) => \A x \in Makes(m) : graph[x] = record[m]

\* "Apply every not-yet-recorded migration": when an apply ends, everything on
\* disk is recorded, and present but for a rollback cut off before.
ApplyCompletes ==
  [][\A r \in Runners : Finish(r) /\ runner[r].command = "apply" =>
       Applied = Ids /\ \A m \in Ids \ cut : Present(m)]_vars
===============================================================================
