------------------------ MODULE GraphMigrations_proofs ------------------------
(***************************************************************************)
(* The properties of GraphMigrations for any files, hosts and number of    *)
(* commands.  What makes them hold is that applying only ever adds, so     *)
(* that a stale list does no harm, and that a rollback runs alone, so that *)
(* its list never is stale.                                                *)
(***************************************************************************)
EXTENDS GraphMigrations, FiniteSetTheorems, WellFoundedInduction, TLAPS

-----------------------------------------------------------------------------
(* The next position of a list.                                            *)

(* Intervals that end, or start, in S: the smallest by inclusion ends in   *)
(* the least element of S, or starts in the greatest.                      *)
LEMMA SmallestInterval ==
  ASSUME NEW n \in Nat, NEW T, T # {}, \A X \in T : X \subseteq 1..n
  PROVE  \E X \in T : \A Y \in T : Y \subseteq X => Y = X
<1>1. T \subseteq FiniteSubsetsOf(1..n)
  <2> SUFFICES ASSUME NEW X \in T PROVE X \in FiniteSubsetsOf(1..n)
    OBVIOUS
  <2>1. IsFiniteSet(1..n)
    BY FS_Interval
  <2>2. IsFiniteSet(X)
    BY <2>1, FS_Subset
  <2> QED
    BY <2>2 DEF FiniteSubsetsOf
<1>2. PICK X \in T : \A Y \in T : <<Y, X>> \notin StrictSubsetOrdering(1..n)
  BY <1>1, FS_StrictSubsetOrderingWellFounded, WFMin
<1> QED
  BY <1>2 DEF StrictSubsetOrdering

LEMMA LeastExists ==
  ASSUME NEW n \in Nat, NEW S \in SUBSET (1..n), S # {}
  PROVE  /\ Min(S) \in S
         /\ \A j \in S : Min(S) <= j
<1> DEFINE T == {1..i : i \in S}
<1>0. T # {}
  BY Zenon
<1>1. \A X \in T : X \subseteq 1..n
  <2> SUFFICES ASSUME NEW i \in S PROVE (1..i) \subseteq 1..n
    BY Zenon
  <2> QED
    OBVIOUS
<1> HIDE DEF T
<1>2. PICK X \in T : \A Y \in T : Y \subseteq X => Y = X
  BY <1>0, <1>1, SmallestInterval
<1>3. PICK i \in S : X = 1..i
  BY <1>2 DEF T
<1>4. ASSUME NEW j \in S PROVE i <= j
  <2>1. (1..j) \in T
    BY DEF T
  <2>2. j < i => (1..j) \subseteq (1..i) /\ i \in 1..i /\ i \notin 1..j
    OBVIOUS
  <2> QED
    BY <1>2, <1>3, <2>1, <2>2
<1> QED
  BY <1>4 DEF Min

LEMMA GreatestExists ==
  ASSUME NEW n \in Nat, NEW S \in SUBSET (1..n), S # {}
  PROVE  /\ Max(S) \in S
         /\ \A j \in S : Max(S) >= j
<1> DEFINE T == {i..n : i \in S}
<1>0. T # {}
  BY Zenon
<1>1. \A X \in T : X \subseteq 1..n
  <2> SUFFICES ASSUME NEW i \in S PROVE (i..n) \subseteq 1..n
    BY Zenon
  <2> QED
    OBVIOUS
<1> HIDE DEF T
<1>2. PICK X \in T : \A Y \in T : Y \subseteq X => Y = X
  BY <1>0, <1>1, SmallestInterval
<1>3. PICK i \in S : X = i..n
  BY <1>2 DEF T
<1>4. ASSUME NEW j \in S PROVE i >= j
  <2>1. (j..n) \in T
    BY DEF T
  <2>2. j > i => (j..n) \subseteq (i..n) /\ i \in i..n /\ i \notin j..n
    OBVIOUS
  <2> QED
    BY <1>2, <1>3, <2>1, <2>2
<1> QED
  BY <1>4 DEF Max

-----------------------------------------------------------------------------
(* The inductive invariant.                                                *)

\* Whoever rolls back is alone.
Alone == \A r, q \in Runners :
  runner[r].command = "rollback" /\ q # r => runner[q].command = "none"

\* Everything an apply has been through is recorded, by it or by another; a
\* rollback goes through just what is.
Lists == \A r \in Runners :
  /\ runner[r].command = "none" => runner[r].todo = {}
  /\ runner[r].command = "apply" => DOMAIN Order \ runner[r].todo \subseteq Recorded
  /\ runner[r].command = "rollback" => runner[r].todo = Recorded

\* What an apply has made of the migration it is at is there.
MadeSoFar(r) ==
  runner[r].command = "apply" /\ runner[r].todo # {} /\ IsSchemaOnly(Body(r))
    => \A k \in 1..runner[r].step - 1 : graph[Body(r)[k].item] > 0

ListsOK == TypeOK /\ Alone /\ Lists /\ RecordedIsPrefix

MigrationsInv ==
  /\ ListsOK
  /\ \A r \in Runners : MadeSoFar(r)
  /\ RecordedIsApplied
  /\ DataMatchesRecords

-----------------------------------------------------------------------------
(* Where a runner is.                                                      *)

LEMMA OrderIs ==
  /\ \A i \in DOMAIN Order : Order[i] \in Ids
  /\ \A m \in Ids : \E i \in DOMAIN Order : m = Order[i]
  /\ \A i, j \in DOMAIN Order : Order[i] = Order[j] => i = j
  /\ \E n \in Nat : DOMAIN Order = 1..n
BY MigrationsAssumption DEF Ids, IsInjective

LEMMA PositionIs ==
  ASSUME TypeOK, NEW r \in Runners, runner[r].todo # {}
  PROVE  /\ Position(r) \in runner[r].todo /\ Position(r) \in DOMAIN Order
         /\ At(r) \in Ids
         /\ runner[r].command = "apply" =>
              \A j \in runner[r].todo : Position(r) <= j
         /\ runner[r].command # "apply" =>
              \A j \in runner[r].todo : Position(r) >= j
<1>1. PICK n \in Nat : DOMAIN Order = 1..n
  BY OrderIs
<1>2. runner[r].todo \in SUBSET (1..n)
  BY <1>1 DEF TypeOK
<1> DEFINE S == runner[r].todo
<1>3. Min(S) \in S /\ \A j \in S : Min(S) <= j
  BY <1>2, LeastExists
<1>4. Max(S) \in S /\ \A j \in S : Max(S) >= j
  BY <1>2, GreatestExists
<1>5. Position(r) \in DOMAIN Order
  BY <1>1, <1>2, <1>3, <1>4 DEF Position
<1> QED
  BY <1>3, <1>4, <1>5, OrderIs DEF Position, At

\* A runner that keeps its list and command is where it was.
LEMMA SamePlace ==
  ASSUME NEW r, runner'[r].command = runner[r].command,
         runner'[r].todo = runner[r].todo
  PROVE  /\ Position(r)' = Position(r) /\ At(r)' = At(r) /\ Body(r)' = Body(r)
BY DEF Position, At, Body

\* The statements a runner works on: those of its migration.
LEMMA BodyIs ==
  ASSUME TypeOK, NEW r \in Runners, runner[r].todo # {}
  PROVE  /\ Body(r) \in Seq(Statements)
         /\ \A s \in Range(Body(r)) : s \in Statements
         /\ \A k \in 1..Len(Body(r)) : Body(r)[k] \in Range(Body(r))
         /\ \A s \in Range(Body(r)) : \E k \in 1..Len(Body(r)) : s = Body(r)[k]
         /\ \A s, t \in Range(Body(r)) : s.item = t.item => s = t
         /\ Named(Body(r)) \subseteq Makes(At(r))
         /\ \A n \in Ids \ {At(r)} : Makes(n) \cap Named(Body(r)) = {}
<1>1. At(r) \in Ids
  BY PositionIs
<1>2. Body(r) \in Seq(Statements)
  BY <1>1, MigrationsAssumption DEF Body
<1>3. Body(r) = Forward[At(r)] \/ Body(r) = Rollback[At(r)]
  BY DEF Body
<1>4. \A s, t \in Range(Body(r)) : s.item = t.item => s = t
  BY <1>1, <1>3, FilesAssumption
<1>5. Named(Body(r)) \subseteq Makes(At(r))
  BY <1>1, <1>3, FilesAssumption DEF Makes
<1>6. \A n \in Ids \ {At(r)} : Makes(n) \cap Named(Body(r)) = {}
  BY <1>1, <1>5, FilesAssumption
<1> QED
  BY <1>2, <1>4, <1>5, <1>6 DEF Range

-----------------------------------------------------------------------------
(* What statements do.                                                     *)

LEMMA MakesItems ==
  ASSUME NEW m \in Ids
  PROVE  Makes(m) \subseteq Items
<1>1. Forward[m] \in Seq(Statements)
  BY MigrationsAssumption
<1>2. \A s \in Range(Forward[m]) : s \in Statements
  BY <1>1 DEF Range
<1> QED
  BY <1>2 DEF Makes, Named, Statements

LEMMA EffectIs ==
  ASSUME NEW db \in [Items -> Nat], NEW S, \A s \in S : s \in Statements,
         \A s, t \in S : s.item = t.item => s = t
  PROVE  /\ Effect(db, S) \in [Items -> Nat]
         /\ \A s \in S : Effect(db, S)[s.item] = After(db[s.item], s)
         /\ \A x \in Items : (\A s \in S : s.item # x) => Effect(db, S)[x] = db[x]
<1>1. ASSUME NEW x \in Items, NEW s \in S, s.item = x
      PROVE  Effect(db, S)[x] = After(db[x], s) /\ After(db[x], s) \in Nat
  <2>1. x \in {t.item : t \in S}
    BY <1>1
  <2> DEFINE u == CHOOSE t \in S : t.item = x
  <2>2. u \in S /\ u.item = x
    BY <1>1
  <2>3. u = s
    BY <1>1, <2>2
  <2>4. Effect(db, S)[x] = After(db[x], u)
    BY <2>1 DEF Effect
  <2>5. After(db[x], s) \in Nat
    BY DEF After
  <2> QED
    BY <2>3, <2>4, <2>5
<1>2. ASSUME NEW x \in Items, \A s \in S : s.item # x
      PROVE  Effect(db, S)[x] = db[x]
  <2>1. x \notin {t.item : t \in S}
    BY <1>2
  <2> QED
    BY <2>1 DEF Effect
<1>3. \A s \in S : s.item \in Items
  BY DEF Statements
<1>4. \A x \in Items : Effect(db, S)[x] \in Nat
  <2> SUFFICES ASSUME NEW x \in Items PROVE Effect(db, S)[x] \in Nat
    OBVIOUS
  <2>1. CASE \E s \in S : s.item = x
    BY <1>1, <2>1
  <2>2. CASE \A s \in S : s.item # x
    BY <1>2, <2>2
  <2> QED
    BY <2>1, <2>2
<1>5. Effect(db, S) \in [Items -> Nat]
  <2> DEFINE f(x) == IF x \in {t.item : t \in S}
                     THEN After(db[x], CHOOSE t \in S : t.item = x) ELSE db[x]
  <2>1. Effect(db, S) = [x \in Items |-> f(x)]
    BY DEF Effect
  <2> HIDE DEF f
  <2>2. \A x \in Items : f(x) \in Nat
    BY <1>4, <2>1
  <2> QED
    BY <2>1, <2>2
<1> QED
  BY <1>1, <1>2, <1>3, <1>5

\* Some of the statements a runner works on, run now.
Runs(r, S) == S \subseteq Range(Body(r)) /\ graph' = Effect(graph, S)

LEMMA RunsIs ==
  ASSUME TypeOK, NEW r \in Runners, runner[r].todo # {}, NEW S, Runs(r, S)
  PROVE  /\ graph' \in [Items -> Nat]
         /\ \A s \in S : graph'[s.item] = After(graph[s.item], s)
         /\ \A n \in Ids \ {At(r)} : \A x \in Makes(n) : graph'[x] = graph[x]
         /\ \A x \in Items \ Makes(At(r)) : graph'[x] = graph[x]
<1>1. /\ \A s \in S : s \in Statements /\ s \in Range(Body(r))
      /\ \A s, t \in S : s.item = t.item => s = t
  BY BodyIs DEF Runs
<1>2. graph \in [Items -> Nat] /\ graph' = Effect(graph, S)
  BY DEF TypeOK, Runs
<1>3. /\ graph' \in [Items -> Nat]
      /\ \A s \in S : graph'[s.item] = After(graph[s.item], s)
      /\ \A x \in Items : (\A s \in S : s.item # x) => graph'[x] = graph[x]
  BY <1>1, <1>2, EffectIs
<1>4. \A s \in S : s.item \in Named(Body(r))
  BY <1>1 DEF Named
<1>5. ASSUME NEW n \in Ids \ {At(r)}, NEW x \in Makes(n)
      PROVE  graph'[x] = graph[x]
  <2>1. \A s \in S : s.item # x
    BY <1>4, <1>5, BodyIs
  <2>2. x \in Items
    BY MakesItems
  <2> QED
    BY <1>3, <2>1, <2>2
<1>6. \A x \in Items \ Makes(At(r)) : graph'[x] = graph[x]
  BY <1>3, <1>4, BodyIs
<1> QED
  BY <1>3, <1>5, <1>6

\* Applying only adds.
LEMMA ApplyAdds ==
  ASSUME TypeOK, NEW r \in Runners, runner[r].todo # {}, NEW S, Runs(r, S),
         runner[r].command = "apply"
  PROVE  /\ \A s \in S : graph'[s.item] > 0
         /\ \A x \in Items : graph[x] > 0 => graph'[x] > 0
<1>1. ASSUME NEW s \in S PROVE s.op = "make" /\ s.item \in Items
  <2>1. s \in Range(Forward[At(r)]) /\ At(r) \in Ids /\ s \in Statements
    BY PositionIs, BodyIs DEF Runs, Body
  <2> QED
    BY <2>1, FilesAssumption DEF Statements
<1>2. ASSUME NEW s \in S PROVE graph'[s.item] > 0
  <2>1. graph'[s.item] = After(graph[s.item], s)
    BY RunsIs
  <2>2. graph[s.item] \in Nat
    BY <1>1 DEF TypeOK
  <2> QED
    BY <1>1, <2>1, <2>2 DEF After
<1>3. ASSUME NEW x \in Items, graph[x] > 0 PROVE graph'[x] > 0
  <2>1. CASE \E s \in S : s.item = x
    BY <1>2, <2>1
  <2>2. CASE \A s \in S : s.item # x
    <3>1. /\ \A s \in S : s \in Statements
          /\ \A s, t \in S : s.item = t.item => s = t
      BY BodyIs DEF Runs
    <3>2. graph \in [Items -> Nat] /\ graph' = Effect(graph, S)
      BY DEF TypeOK, Runs
    <3>3. graph'[x] = graph[x]
      BY <2>2, <3>1, <3>2, EffectIs
    <3> QED
      BY <1>3, <3>3
  <2> QED
    BY <2>1, <2>2
<1> QED
  BY <1>2, <1>3

-----------------------------------------------------------------------------
(* The lists and the records.                                              *)

RunnerRecords == [command : {"none", "apply", "rollback"},
                  todo : SUBSET DOMAIN Order, step : Nat \ {0}]

LEMMA RunnerIs ==
  ASSUME TypeOK, NEW r \in Runners
  PROVE  /\ runner \in [Runners -> RunnerRecords]
         /\ runner[r].command \in {"none", "apply", "rollback"}
         /\ runner[r].todo \subseteq DOMAIN Order
         /\ runner[r].step \in Nat \ {0}
<1>1. runner \in [Runners -> RunnerRecords]
  BY DEF TypeOK, RunnerRecords
<1>2. runner[r] \in RunnerRecords
  BY <1>1
<1> QED
  BY <1>1, <1>2 DEF RunnerRecords

\* One runner's command, list or step changes.
LEMMA RunnerSet ==
  ASSUME runner \in [Runners -> RunnerRecords], NEW r \in Runners, NEW n,
         runner' = [runner EXCEPT ![r] = n],
         n \in RunnerRecords
  PROVE  /\ runner' \in [Runners -> RunnerRecords]
         /\ runner'[r] = n
         /\ \A q \in Runners \ {r} : runner'[q] = runner[q]
  OBVIOUS

\* A runner's step that leaves the lists, the records and the counter alone.
LEMMA StatementKeepsLists ==
  ASSUME ListsOK, NEW r \in Runners, runner[r].todo # {},
         runner[r].step <= Len(Body(r)),
         runner' = [runner EXCEPT ![r].step = @ + 1],
         graph' \in [Items -> Nat], cut' \subseteq Ids,
         UNCHANGED <<record, commands>>
  PROVE  ListsOK'
<1> DEFINE n == [runner[r] EXCEPT !.step = @ + 1]
<1>a. TypeOK
  BY DEF ListsOK
<1>b. runner[r] \in RunnerRecords /\ runner \in [Runners -> RunnerRecords]
  BY <1>a, RunnerIs
<1>c. /\ n \in RunnerRecords /\ n.command = runner[r].command
      /\ n.todo = runner[r].todo /\ n.step = runner[r].step + 1
  BY <1>b DEF RunnerRecords
<1>d. runner' = [runner EXCEPT ![r] = n]
  OBVIOUS
<1> HIDE DEF n
<1>e. /\ runner' \in [Runners -> RunnerRecords] /\ runner'[r] = n
      /\ \A q \in Runners \ {r} : runner'[q] = runner[q]
  BY <1>b, <1>c, <1>d, RunnerSet
<1>1. \A q \in Runners : /\ runner'[q].command = runner[q].command
                         /\ runner'[q].todo = runner[q].todo
                         /\ q # r => runner'[q] = runner[q]
  BY <1>c, <1>e
<1>2. runner'[r].step = runner[r].step + 1
  BY <1>c, <1>e
<1>3. \A q \in Runners : Body(q)' = Body(q)
  BY <1>1, SamePlace
<1>4. TypeOK'
  <2>1. runner' \in [Runners -> [command : {"none", "apply", "rollback"},
                                 todo : SUBSET DOMAIN Order, step : Nat \ {0}]]
    BY <1>e DEF RunnerRecords
  <2>2. Len(Body(r)) \in Nat
    BY BodyIs DEF ListsOK
  <2>3. \A q \in Runners :
          runner'[q].todo # {} => runner'[q].step <= Len(Body(q)') + 1
    BY <1>1, <1>2, <1>3, <2>2 DEF ListsOK, TypeOK
  <2> QED
    BY <2>1, <2>3 DEF ListsOK, TypeOK
<1>5. Applied' = Applied /\ Recorded' = Recorded
  BY DEF Applied, Recorded
<1> QED
  BY <1>1, <1>4, <1>5 DEF ListsOK, Alone, Lists, RecordedIsPrefix

LEMMA RecordAdvance ==
  ASSUME NEW C, NEW T, NEW S, NEW old \in [command : C, todo : T, step : S],
         NEW t \in T, NEW k \in S, NEW n,
         n = [old EXCEPT !.todo = t, !.step = k]
  PROVE  /\ n \in [command : C, todo : T, step : S]
         /\ n.command = old.command /\ n.todo = t /\ n.step = k
OBVIOUS

\* The record of the migration a runner is at, and where the runner goes.
LEMMA BookkeepIs ==
  ASSUME TypeOK, NEW r \in Runners, runner[r].todo # {}, Bookkeep(r)
  PROVE  /\ record' \in [Ids -> Nat]
         /\ \A n \in Ids \ {At(r)} : record'[n] = record[n]
         /\ record'[At(r)] = IF runner[r].command = "apply"
                             THEN record[At(r)] + 1 ELSE 0
         /\ runner' \in [Runners -> RunnerRecords]
         /\ \A q \in Runners \ {r} : runner'[q] = runner[q]
         /\ runner'[r].command = runner[r].command
         /\ runner'[r].todo = runner[r].todo \ {Position(r)}
         /\ runner'[r].step = 1
<1>1. At(r) \in Ids /\ record \in [Ids -> Nat]
  BY PositionIs DEF TypeOK
<1> DEFINE n == [runner[r] EXCEPT !.todo = @ \ {Position(r)}, !.step = 1]
<1>2. runner[r] \in RunnerRecords /\ runner \in [Runners -> RunnerRecords]
  BY RunnerIs
<1>3. /\ n \in RunnerRecords /\ n.command = runner[r].command
      /\ n.todo = runner[r].todo \ {Position(r)} /\ n.step = 1
  <2>1. runner[r].todo \ {Position(r)} \in SUBSET DOMAIN Order
    BY RunnerIs
  <2> DEFINE rest == runner[r].todo \ {Position(r)}
             C == {"none", "apply", "rollback"}
             T == SUBSET DOMAIN Order
             S == Nat \ {0}
  <2>2. runner[r] \in [command : C, todo : T, step : S] /\ rest \in T /\ 1 \in S
    BY <1>2, <2>1 DEF RunnerRecords
  <2>3. n = [runner[r] EXCEPT !.todo = rest, !.step = 1]
    OBVIOUS
  <2> HIDE DEF n, rest, C, T, S
  <2>4. /\ n \in [command : C, todo : T, step : S]
        /\ n.command = runner[r].command /\ n.todo = rest /\ n.step = 1
    BY <2>2, <2>3, RecordAdvance
  <2> QED
    BY <2>4 DEF RunnerRecords, rest, C, T, S
<1>4. runner' = [runner EXCEPT ![r] = n]
  BY <1>2 DEF Bookkeep
<1> HIDE DEF n
<1>5. /\ runner' \in [Runners -> RunnerRecords] /\ runner'[r] = n
      /\ \A q \in Runners \ {r} : runner'[q] = runner[q]
  BY <1>2, <1>3, <1>4, RunnerSet
<1>6. record' = [record EXCEPT ![At(r)] =
                   IF runner[r].command = "apply" THEN @ + 1 ELSE 0]
  BY DEF Bookkeep
<1>7. /\ record' \in [Ids -> Nat]
      /\ \A m \in Ids \ {At(r)} : record'[m] = record[m]
      /\ record'[At(r)] = IF runner[r].command = "apply"
                           THEN record[At(r)] + 1 ELSE 0
  BY <1>1, <1>6
<1> QED
  BY <1>3, <1>5, <1>7

LEMMA BookkeepKeepsLists ==
  ASSUME ListsOK, NEW r \in Runners, runner[r].todo # {}, Bookkeep(r),
         graph' \in [Items -> Nat], cut' \subseteq Ids, UNCHANGED commands
  PROVE  ListsOK'
<1> DEFINE p == Position(r)
<1>0. TypeOK
  BY DEF ListsOK
<1>1. /\ p \in runner[r].todo /\ p \in DOMAIN Order /\ At(r) = Order[p]
      /\ runner[r].command = "apply" => \A j \in runner[r].todo : p <= j
      /\ runner[r].command # "apply" => \A j \in runner[r].todo : p >= j
  BY <1>0, PositionIs DEF At
<1>2. runner[r].command \in {"apply", "rollback"}
  BY <1>0 DEF ListsOK, Lists, TypeOK
<1>3. TypeOK'
  <2>1. \A q \in Runners \ {r} : Body(q)' = Body(q)
    BY <1>0, BookkeepIs, SamePlace
  <2>2. /\ record' \in [Ids -> Nat]
        /\ runner' \in [Runners -> RunnerRecords]
        /\ \A q \in Runners \ {r} : runner'[q] = runner[q]
        /\ runner'[r].step = 1
    BY <1>0, BookkeepIs
  <2>3. runner'[r].todo # {} => Len(Body(r)') \in Nat
    <3>1. SUFFICES ASSUME runner'[r].todo # {} PROVE Len(Body(r)') \in Nat
      OBVIOUS
    <3>2. At(r)' \in Ids
      <4>1. runner'[r].todo \in SUBSET DOMAIN Order
        BY <2>2 DEF RunnerRecords
      <4>2. PICK n \in Nat : DOMAIN Order = 1..n
        BY OrderIs
      <4>3. Min(runner'[r].todo) \in DOMAIN Order /\ Max(runner'[r].todo) \in DOMAIN Order
        BY <3>1, <4>1, <4>2, LeastExists, GreatestExists
      <4> QED
        BY <4>3, OrderIs DEF At, Position
    <3> QED
      BY <3>2, MigrationsAssumption DEF Body
  <2>4. \A q \in Runners : runner'[q].todo # {} =>
          runner'[q].step <= Len(Body(q)') + 1
    <3>1. \A q \in Runners \ {r} : runner[q].todo # {} =>
            runner[q].step <= Len(Body(q)) + 1
      BY <1>0 DEF TypeOK
    <3> QED
      BY <2>1, <2>2, <2>3, <3>1, SMTT(30)
  <2> QED
    BY <1>0, <2>2, <2>4 DEF TypeOK, RunnerRecords
<1>4. \A j \in DOMAIN Order \ {p} : Order[j] \in Applied' <=> Order[j] \in Applied
  BY <1>0, <1>1, BookkeepIs, OrderIs DEF Applied
<1>5. /\ runner[r].command = "apply" => Order[p] \in Applied'
      /\ runner[r].command # "apply" => Order[p] \notin Applied'
  <2>1. /\ Order[p] \in Ids /\ record[Order[p]] \in Nat
        /\ record'[Order[p]] = IF runner[r].command = "apply"
                               THEN record[Order[p]] + 1 ELSE 0
    BY <1>0, <1>1, BookkeepIs, OrderIs DEF TypeOK
  <2> QED
    BY <2>1 DEF Applied
<1>6. /\ \A q \in Runners \ {r} : runner'[q] = runner[q]
      /\ runner'[r].command = runner[r].command
      /\ runner'[r].todo = runner[r].todo \ {p}
  BY <1>0, BookkeepIs
<1>7. Alone'
  BY <1>6 DEF ListsOK, Alone
<1>8. CASE runner[r].command = "apply"
  <2>1. Recorded' = Recorded \cup {p}
    BY <1>1, <1>4, <1>5, <1>8 DEF Recorded
  <2>2. \A q \in Runners : runner[q].command # "rollback"
    BY <1>8 DEF ListsOK, Alone
  <2>3. Lists'
    BY <1>6, <1>8, <2>1, <2>2 DEF ListsOK, Lists
  <2>4. ASSUME NEW i \in DOMAIN Order, NEW j \in DOMAIN Order, i < j,
               j \in Recorded'
        PROVE  i \in Recorded'
    <3>1. CASE j \in Recorded
      BY <2>1, <2>4, <3>1 DEF ListsOK, RecordedIsPrefix, Recorded
    <3>2. CASE j = p
      <4>1. i \notin runner[r].todo
        BY <1>1, <1>8, <2>4, <3>2, OrderIs
      <4> QED
        BY <1>8, <2>1, <4>1 DEF ListsOK, Lists
    <3> QED
      BY <2>1, <2>4, <3>1, <3>2
  <2>5. RecordedIsPrefix'
    BY <2>4 DEF RecordedIsPrefix, Recorded
  <2> QED
    BY <1>3, <1>7, <2>3, <2>5 DEF ListsOK
<1>9. CASE runner[r].command = "rollback"
  <2>1. Recorded' = Recorded \ {p}
    BY <1>1, <1>4, <1>5, <1>9 DEF Recorded
  <2>2. \A q \in Runners \ {r} : runner[q].command = "none"
    BY <1>9 DEF ListsOK, Alone
  <2>3. Lists'
    BY <1>6, <1>9, <2>1, <2>2 DEF ListsOK, Lists
  <2>4. ASSUME NEW i \in DOMAIN Order, NEW j \in DOMAIN Order, i < j,
               j \in Recorded'
        PROVE  i \in Recorded'
    <3>1. j \in Recorded /\ j # p /\ j \in runner[r].todo
      BY <1>9, <2>1, <2>4 DEF ListsOK, Lists
    <3>2. i \in Recorded
      BY <2>4, <3>1 DEF ListsOK, RecordedIsPrefix, Recorded
    <3>3. i # p
      BY <1>1, <1>9, <2>4, <3>1, OrderIs
    <3> QED
      BY <2>1, <3>2, <3>3
  <2>5. RecordedIsPrefix'
    BY <2>4 DEF RecordedIsPrefix, Recorded
  <2> QED
    BY <1>3, <1>7, <2>3, <2>5 DEF ListsOK
<1> QED
  BY <1>2, <1>8, <1>9

\* A command starts or is over.
LEMMA CommandKeepsLists ==
  ASSUME ListsOK, NEW r \in Runners, NEW command \in {"apply", "rollback"},
         Start(r, command) \/ Finish(r) \/ Stop(r)
  PROVE  ListsOK' /\ (\A q \in Runners \ {r} : runner'[q] = runner[q])
         /\ runner'[r].step = 1 /\ UNCHANGED <<graph, record, cut>>
<1>0. TypeOK /\ UNCHANGED <<graph, record, cut>> /\ Recorded' = Recorded
  BY DEF ListsOK, Start, Finish, Stop, Recorded, Applied
<1>1. runner \in [Runners -> RunnerRecords]
  BY <1>0, RunnerIs
<1>2. PICK n : /\ runner' = [runner EXCEPT ![r] = n]
               /\ n = Idle \/ n = [command |-> command, todo |-> Plan(command),
                                   step |-> 1]
               /\ n # Idle => Start(r, command)
  BY DEF Start, Finish, Stop
<1>3. Plan(command) \in SUBSET DOMAIN Order
  BY DEF Plan, Recorded
<1>4. n \in RunnerRecords /\ n.step = 1
  BY <1>2, <1>3 DEF RunnerRecords, Idle
<1>5. /\ runner' \in [Runners -> RunnerRecords] /\ runner'[r] = n
      /\ \A q \in Runners \ {r} : runner'[q] = runner[q]
  BY <1>1, <1>2, <1>4, RunnerSet
<1>6. commands' \in 0..MaxCommands
  BY <1>0, MigrationsAssumption DEF Start, Finish, Stop, TypeOK
<1>7. TypeOK'
  <2>1. \A q \in Runners \ {r} : Body(q)' = Body(q)
    BY <1>5, SamePlace
  <2>2. runner'[r].todo # {} => Len(Body(r)') \in Nat
    <3>1. SUFFICES ASSUME runner'[r].todo # {} PROVE Len(Body(r)') \in Nat
      OBVIOUS
    <3>2. runner'[r].todo \in SUBSET DOMAIN Order
      BY <1>4, <1>5 DEF RunnerRecords
    <3>3. PICK m \in Nat : DOMAIN Order = 1..m
      BY OrderIs
    <3>4. /\ Min(runner'[r].todo) \in DOMAIN Order
          /\ Max(runner'[r].todo) \in DOMAIN Order
      BY <3>1, <3>2, <3>3, LeastExists, GreatestExists
    <3>5. At(r)' \in Ids
      BY <3>4, OrderIs DEF At, Position
    <3> QED
      BY <3>5, MigrationsAssumption DEF Body
  <2>3. \A q \in Runners \ {r} : runner[q].todo # {} =>
          runner[q].step <= Len(Body(q)) + 1
    BY <1>0 DEF TypeOK
  <2>4. \A q \in Runners : runner'[q].todo # {} =>
          runner'[q].step <= Len(Body(q)') + 1
    BY <1>4, <1>5, <2>1, <2>2, <2>3
  <2> QED
    BY <1>0, <1>5, <1>6, <2>4 DEF TypeOK, RunnerRecords
<1>8. Alone'
  <2>1. CASE n = Idle
    BY <1>5, <2>1 DEF ListsOK, Alone, Idle
  <2>2. CASE n # Idle
    <3>1. /\ Start(r, command) /\ n.command = command
          /\ runner[r].command = "none"
      BY <1>2, <2>2 DEF Start
    <3>2. \A q \in Runners \ {r} :
            \/ runner[q].command = "none"
            \/ (command = "apply" /\ runner[q].command = "apply")
      <4>1. \A q \in Runners \ {r} : \/ runner[q].command = "none"
                                     \/ {command, runner[q].command} = {"apply"}
        BY <3>1 DEF Start
      <4> QED
        BY <4>1
    <3> QED
      BY <1>5, <3>1, <3>2 DEF ListsOK, Alone
  <2> QED
    BY <2>1, <2>2
<1>9. Lists'
  <2>1. /\ n.command = "none" => n.todo = {}
        /\ n.command = "apply" => n.todo = DOMAIN Order \ Recorded
        /\ n.command = "rollback" => n.todo = Recorded
    BY <1>2 DEF Idle, Plan
  <2> QED
    BY <1>0, <1>5, <2>1 DEF ListsOK, Lists
<1>10. RecordedIsPrefix'
  BY <1>0 DEF ListsOK, RecordedIsPrefix, Applied
<1> QED
  BY <1>0, <1>4, <1>5, <1>7, <1>8, <1>9, <1>10 DEF ListsOK

-----------------------------------------------------------------------------
(* What is recorded is there.                                              *)

\* The others, while a runner works on its migration.
LEMMA OthersKeepMaking ==
  ASSUME ListsOK, NEW r \in Runners, runner[r].todo # {}, NEW S, Runs(r, S),
         NEW q \in Runners \ {r}, runner'[q] = runner[q], MadeSoFar(q)
  PROVE  MadeSoFar(q)'
<1>0. TypeOK
  BY DEF ListsOK
<1>1. SUFFICES ASSUME runner'[q].command = "apply", runner'[q].todo # {},
                      IsSchemaOnly(Body(q)'),
                      NEW k \in 1..runner'[q].step - 1
               PROVE  graph'[Body(q)'[k].item] > 0
  BY DEF MadeSoFar
<1>2. Body(q)' = Body(q)
  BY SamePlace
<1>3. /\ runner[q].command = "apply" /\ runner[q].todo # {}
      /\ IsSchemaOnly(Body(q)) /\ k \in 1..runner[q].step - 1
  BY <1>1, <1>2 DEF IsSchemaOnly
<1>4. graph[Body(q)[k].item] > 0
  BY <1>3 DEF MadeSoFar
<1>5. runner[r].command = "apply"
  BY <1>0, <1>3 DEF ListsOK, Lists, Alone, TypeOK
<1>6. Body(q)[k].item \in Items
  <2>1. k \in 1..Len(Body(q))
    <3>1. /\ runner[q].step \in Nat /\ runner[q].step <= Len(Body(q)) + 1
          /\ Len(Body(q)) \in Nat
      BY <1>0, <1>3, RunnerIs, BodyIs DEF TypeOK
    <3> QED
      BY <1>3, <3>1
  <2> QED
    BY <1>0, <1>3, <2>1, BodyIs DEF Statements
<1> QED
  BY <1>0, <1>2, <1>4, <1>5, <1>6, ApplyAdds

LEMMA StatementKeeps ==
  ASSUME MigrationsInv, NEW r \in Runners, SchemaStatement(r)
  PROVE  MigrationsInv'
<1> DEFINE s == Body(r)[runner[r].step]
<1>0. TypeOK /\ ListsOK
  BY DEF MigrationsInv, ListsOK
<1>1. /\ runner[r].todo # {} /\ IsSchemaOnly(Body(r))
      /\ runner[r].step <= Len(Body(r)) /\ graph' = Effect(graph, {s})
      /\ runner' = [runner EXCEPT ![r].step = @ + 1]
      /\ cut' = IF runner[r].command = "rollback" THEN cut \cup {At(r)} ELSE cut
      /\ UNCHANGED <<record, commands>>
  BY DEF SchemaStatement
<1>2. At(r) \in Ids
  BY <1>0, <1>1, PositionIs
<1>3. runner[r].step \in 1..Len(Body(r))
  BY <1>0, <1>1, RunnerIs, BodyIs
<1>4. s \in Range(Body(r)) /\ s \in Statements /\ s.kind = "schema"
  <2>1. s \in Range(Body(r)) /\ s \in Statements
    BY <1>0, <1>1, <1>3, BodyIs
  <2>2. DOMAIN Body(r) = 1..Len(Body(r))
    BY <1>0, <1>1, BodyIs
  <2> QED
    BY <1>1, <1>3, <2>1, <2>2 DEF IsSchemaOnly
<1>5. Runs(r, {s})
  BY <1>1, <1>4 DEF Runs
<1> HIDE DEF s
<1>6. ListsOK'
  <2>1. graph' \in [Items -> Nat]
    BY <1>0, <1>1, <1>5, RunsIs
  <2>2. cut' \subseteq Ids
    BY <1>0, <1>1, <1>2 DEF TypeOK
  <2> QED
    BY <1>0, <1>1, <2>1, <2>2, StatementKeepsLists
<1>7. Applied' = Applied
  BY <1>1 DEF Applied
<1>8. \A q \in Runners \ {r} : runner'[q] = runner[q]
  BY <1>0, <1>1, RunnerIs
<1>9. /\ runner'[r].command = runner[r].command
      /\ runner'[r].todo = runner[r].todo
      /\ runner'[r].step = runner[r].step + 1
  BY <1>0, <1>1, RunnerIs DEF RunnerRecords
<1>10. Body(r)' = Body(r)
  BY <1>9, SamePlace
<1>11. MadeSoFar(r)'
  <2> SUFFICES ASSUME runner[r].command = "apply", NEW k \in 1..runner[r].step
               PROVE  graph'[Body(r)[k].item] > 0
    <3>1. runner'[r].step - 1 = runner[r].step
      BY <1>0, <1>9, RunnerIs
    <3>2. SUFFICES ASSUME runner'[r].command = "apply",
                          NEW k \in 1..runner'[r].step - 1
                   PROVE  graph'[Body(r)'[k].item] > 0
      BY Zenon DEF MadeSoFar
    <3>3. k \in 1..runner[r].step
      BY <3>1
    <3> QED
      BY <1>9, <1>10, <3>2, <3>3
  <2>1. CASE k = runner[r].step
    <3>1. s.item = Body(r)[k].item /\ graph'[s.item] > 0
      BY <1>0, <1>1, <1>5, <2>1, ApplyAdds DEF s
    <3> QED
      BY <3>1
  <2>2. CASE k \in 1..runner[r].step - 1
    <3>1. graph[Body(r)[k].item] > 0
      BY <1>1, <2>2 DEF MigrationsInv, MadeSoFar
    <3>2. k \in 1..Len(Body(r))
      BY <1>3, <2>2
    <3>3. Body(r)[k].item \in Items
      BY <1>0, <1>1, <3>2, BodyIs DEF Statements
    <3> QED
      BY <1>0, <1>1, <1>5, <3>1, <3>3, ApplyAdds
  <2> QED
    BY <1>3, <2>1, <2>2
<1>12. \A q \in Runners \ {r} : MadeSoFar(q)'
  BY <1>0, <1>1, <1>5, <1>8, OthersKeepMaking DEF MigrationsInv
<1>13. RecordedIsApplied'
  <2> SUFFICES ASSUME NEW m \in Applied \ cut', NEW x \in Makes(m)
               PROVE  graph'[x] > 0
    BY <1>7 DEF RecordedIsApplied, Present
  <2>1. m \in Ids /\ x \in Items /\ m \in Applied \ cut
    BY <1>1, MakesItems DEF Applied
  <2>2. graph[x] > 0
    BY <2>1 DEF MigrationsInv, RecordedIsApplied, Present
  <2>3. CASE runner[r].command = "apply"
    BY <1>0, <1>1, <1>5, <2>1, <2>2, <2>3, ApplyAdds
  <2>4. CASE runner[r].command # "apply"
    <3>1. runner[r].command = "rollback"
      BY <1>0, <1>1, <2>4 DEF ListsOK, Lists, TypeOK
    <3>2. m # At(r)
      BY <1>1, <3>1
    <3>3. graph'[x] = graph[x]
      BY <1>0, <1>1, <1>5, <2>1, <3>2, RunsIs
    <3> QED
      BY <2>2, <3>3
  <2> QED
    BY <2>3, <2>4
<1>14. DataMatchesRecords'
  <2> SUFFICES ASSUME NEW m \in Ids, WritesData(m), NEW x \in Makes(m)
               PROVE  graph'[x] = record'[m]
    BY DEF DataMatchesRecords
  <2>1. graph[x] = record[m]
    BY DEF MigrationsInv, DataMatchesRecords
  <2>2. m # At(r)
    <3>1. SUFFICES ASSUME m = At(r) PROVE s.kind = "data"
      BY <1>4
    <3>2. s \in Range(Forward[m]) \cup Range(Rollback[m])
      BY <1>4, <3>1 DEF Body
    <3> QED
      BY <3>2, FilesAssumption
  <2> QED
    BY <1>0, <1>1, <1>5, <2>1, <2>2, RunsIs
<1> QED
  BY <1>6, <1>11, <1>12, <1>13, <1>14 DEF MigrationsInv

\* The end of a migration, in whichever way it ran: what r recorded is there,
\* what it unrecorded was data that is gone, and nothing else changed.
LEMMA BookkeepingKeeps ==
  ASSUME MigrationsInv, NEW r \in Runners, runner[r].todo # {}, Bookkeep(r),
         NEW S, Runs(r, S), UNCHANGED commands,
         cut' \in {cut, cut \ {At(r)}},
         runner[r].command = "apply" => \A x \in Makes(At(r)) : graph'[x] > 0,
         WritesData(At(r)) => \A x \in Makes(At(r)) : graph'[x] = record'[At(r)]
  PROVE  MigrationsInv'
<1>0. TypeOK /\ ListsOK
  BY DEF MigrationsInv, ListsOK
<1>1. At(r) \in Ids
  BY <1>0, PositionIs
<1>2. ListsOK'
  <2>1. graph' \in [Items -> Nat]
    BY <1>0, RunsIs
  <2>2. cut' \subseteq Ids
    BY <1>0 DEF TypeOK
  <2> QED
    BY <1>0, <2>1, <2>2, BookkeepKeepsLists
<1>3. /\ \A n \in Ids \ {At(r)} : record'[n] = record[n]
      /\ record'[At(r)] = IF runner[r].command = "apply"
                          THEN record[At(r)] + 1 ELSE 0
      /\ \A q \in Runners \ {r} : runner'[q] = runner[q]
      /\ runner'[r].step = 1
  BY <1>0, BookkeepIs
<1>4. ASSUME NEW q \in Runners PROVE MadeSoFar(q)'
  <2>1. CASE q = r
    BY <1>3, <2>1 DEF MadeSoFar
  <2>2. CASE q # r
    BY <1>0, <1>3, <2>2, OthersKeepMaking DEF MigrationsInv
  <2> QED
    BY <2>1, <2>2
<1>5. RecordedIsApplied'
  <2> SUFFICES ASSUME NEW m \in Applied' \ cut', NEW x \in Makes(m)
               PROVE  graph'[x] > 0
    BY DEF RecordedIsApplied, Present
  <2>1. m \in Ids /\ x \in Items
    BY MakesItems DEF Applied
  <2>2. CASE m = At(r)
    <3>1. runner[r].command = "apply"
      BY <1>3, <2>2 DEF Applied
    <3> QED
      BY <2>2, <3>1
  <2>3. CASE m # At(r)
    <3>1. m \in Applied \ cut
      BY <1>3, <2>1, <2>3 DEF Applied
    <3>2. graph[x] > 0
      BY <3>1 DEF MigrationsInv, RecordedIsApplied, Present
    <3>3. graph'[x] = graph[x]
      BY <1>0, <2>1, <2>3, RunsIs
    <3> QED
      BY <3>2, <3>3
  <2> QED
    BY <2>2, <2>3
<1>6. DataMatchesRecords'
  <2> SUFFICES ASSUME NEW m \in Ids, WritesData(m), NEW x \in Makes(m)
               PROVE  graph'[x] = record'[m]
    BY DEF DataMatchesRecords
  <2>1. CASE m = At(r)
    BY <2>1
  <2>2. CASE m # At(r)
    <3>1. graph[x] = record[m]
      BY DEF MigrationsInv, DataMatchesRecords
    <3>2. graph'[x] = graph[x]
      BY <1>0, <2>2, RunsIs
    <3> QED
      BY <1>3, <2>2, <3>1, <3>2
  <2> QED
    BY <2>1, <2>2
<1> QED
  BY <1>2, <1>4, <1>5, <1>6 DEF MigrationsInv

\* No statement at all.
LEMMA NothingRuns ==
  ASSUME TypeOK, NEW r \in Runners, UNCHANGED graph
  PROVE  Runs(r, {})
<1>1. graph \in [Items -> Nat]
  BY DEF TypeOK
<1>2. \A x \in Items : Effect(graph, {})[x] = graph[x]
  BY <1>1, EffectIs
<1>3. Effect(graph, {}) \in [Items -> Nat]
  BY <1>1, EffectIs
<1>4. Effect(graph, {}) = graph
  BY <1>1, <1>2, <1>3
<1> QED
  BY <1>4 DEF Runs

LEMMA RecordSchemaKeeps ==
  ASSUME MigrationsInv, NEW r \in Runners, RecordSchema(r)
  PROVE  MigrationsInv'
<1>0. TypeOK /\ ListsOK
  BY DEF MigrationsInv, ListsOK
<1>1. /\ runner[r].todo # {} /\ IsSchemaOnly(Body(r)) /\ Bookkeep(r)
      /\ runner[r].step > Len(Body(r)) /\ cut' = cut \ {At(r)}
      /\ UNCHANGED <<graph, commands>>
  BY DEF RecordSchema
<1>2. At(r) \in Ids
  BY <1>0, <1>1, PositionIs
<1>3. Runs(r, {})
  BY <1>0, <1>1, NothingRuns
<1>4. ASSUME runner[r].command = "apply", NEW x \in Makes(At(r))
      PROVE  graph'[x] > 0
  <2>1. Body(r) = Forward[At(r)]
    BY <1>4 DEF Body
  <2>2. PICK s \in Range(Body(r)) : s.item = x
    BY <2>1 DEF Makes, Named
  <2>3. PICK k \in 1..Len(Body(r)) : s = Body(r)[k]
    BY <1>0, <1>1, BodyIs
  <2>4. k \in 1..runner[r].step - 1
    <3>1. runner[r].step \in Nat /\ Len(Body(r)) \in Nat
      BY <1>0, <1>1, RunnerIs, BodyIs
    <3> QED
      BY <1>1, <3>1
  <2>5. graph[Body(r)[k].item] > 0
    BY <1>1, <1>4, <2>4 DEF MigrationsInv, MadeSoFar
  <2> QED
    BY <1>1, <2>2, <2>3, <2>5
<1>5. ~WritesData(At(r))
  <2>1. PICK s : s \in Range(Body(r)) /\ s.kind = "schema"
    <3>1. /\ Body(r) \in Seq(Statements) /\ Body(r) # <<>>
          /\ \A i \in DOMAIN Body(r) : Body(r)[i].kind = "schema"
      BY <1>0, <1>1, BodyIs DEF IsSchemaOnly
    <3>2. 1 \in DOMAIN Body(r)
      BY <3>1
    <3> QED
      BY <3>1, <3>2 DEF Range
  <2>2. s \in Range(Forward[At(r)]) \cup Range(Rollback[At(r)])
    BY <2>1 DEF Body
  <2> QED
    BY <1>2, <2>1, <2>2, FilesAssumption
<1> QED
  BY <1>1, <1>3, <1>4, <1>5, BookkeepingKeeps

LEMMA TransactionKeeps ==
  ASSUME MigrationsInv, NEW r \in Runners, Transaction(r)
  PROVE  MigrationsInv'
<1> DEFINE S == Range(Body(r))
<1>0. TypeOK /\ ListsOK
  BY DEF MigrationsInv, ListsOK
<1>1. /\ runner[r].todo # {} /\ Bookkeep(r) /\ graph' = Effect(graph, S)
      /\ UNCHANGED <<commands, cut>>
  BY DEF Transaction
<1>2. At(r) \in Ids
  BY <1>0, <1>1, PositionIs
<1>3. Runs(r, S)
  BY <1>1 DEF Runs
<1> HIDE DEF S
<1>4. ASSUME runner[r].command = "apply", NEW x \in Makes(At(r))
      PROVE  graph'[x] > 0
  <2>1. PICK s \in S : s.item = x
    BY <1>4 DEF Makes, Named, Body, S
  <2> QED
    BY <1>0, <1>1, <1>3, <1>4, <2>1, ApplyAdds
<1>5. ASSUME WritesData(At(r)), NEW x \in Makes(At(r))
      PROVE  graph'[x] = record'[At(r)]
  <2>1. PICK s \in S : s.item = x
    <3>1. Named(Rollback[At(r)]) = Makes(At(r))
      BY <1>2, <1>5, FilesAssumption
    <3> QED
      BY <3>1 DEF Makes, Named, Body, S
  <2>2. graph'[x] = After(graph[x], s)
    BY <1>0, <1>1, <1>3, <2>1, RunsIs
  <2>3. graph[x] = record[At(r)]
    BY <1>2, <1>5 DEF MigrationsInv, DataMatchesRecords
  <2>4. record'[At(r)] = IF runner[r].command = "apply"
                         THEN record[At(r)] + 1 ELSE 0
    BY <1>0, <1>1, BookkeepIs
  <2>5. s.kind = "data"
    <3>1. s \in Range(Forward[At(r)]) \cup Range(Rollback[At(r)])
      BY <2>1 DEF Body, S
    <3> QED
      BY <1>2, <1>5, <3>1, FilesAssumption
  <2>6. IF runner[r].command = "apply" THEN s.op = "make" ELSE s.op = "drop"
    BY <1>2, <2>1, FilesAssumption DEF Body, S
  <2> QED
    BY <2>2, <2>3, <2>4, <2>5, <2>6 DEF After
<1> QED
  BY <1>1, <1>3, <1>4, <1>5, BookkeepingKeeps

LEMMA CommandKeeps ==
  ASSUME MigrationsInv, NEW r \in Runners, NEW command \in {"apply", "rollback"},
         Start(r, command) \/ Finish(r) \/ Stop(r)
  PROVE  MigrationsInv'
<1>1. /\ ListsOK' /\ (\A q \in Runners \ {r} : runner'[q] = runner[q])
      /\ runner'[r].step = 1 /\ UNCHANGED <<graph, record, cut>>
  BY CommandKeepsLists DEF MigrationsInv
<1>2. ASSUME NEW q \in Runners PROVE MadeSoFar(q)'
  <2>1. CASE q = r
    BY <1>1, <2>1 DEF MadeSoFar
  <2>2. CASE q # r
    <3>1. Body(q)' = Body(q)
      BY <1>1, <2>2, SamePlace
    <3> QED
      BY <1>1, <2>2, <3>1 DEF MigrationsInv, MadeSoFar
  <2> QED
    BY <2>1, <2>2
<1>3. RecordedIsApplied' /\ DataMatchesRecords'
  BY <1>1 DEF MigrationsInv, RecordedIsApplied, Present, DataMatchesRecords, Applied
<1> QED
  BY <1>1, <1>2, <1>3 DEF MigrationsInv

-----------------------------------------------------------------------------
(* The invariant, for any number of hosts, migrations and commands.        *)
THEOREM MigrationsInvariant == Spec => []MigrationsInv
<1>1. Init => MigrationsInv
  <2> SUFFICES ASSUME Init PROVE MigrationsInv
    OBVIOUS
  <2>1. \A r \in Runners : /\ runner[r].command = "none" /\ runner[r].todo = {}
                           /\ runner[r].step = 1
    BY DEF Init, Idle
  <2>2. Applied = {}
    BY DEF Init, Applied
  <2>3. TypeOK
    <3>1. Idle \in [command : {"none", "apply", "rollback"},
                    todo : SUBSET DOMAIN Order, step : Nat \ {0}]
      BY DEF Idle
    <3> QED
      BY <2>1, <3>1, MigrationsAssumption DEF Init, TypeOK
  <2>4. ListsOK
    BY <2>1, <2>2, <2>3 DEF ListsOK, Alone, Lists, RecordedIsPrefix
  <2>5. RecordedIsApplied /\ \A r \in Runners : MadeSoFar(r)
    BY <2>1, <2>2 DEF RecordedIsApplied, MadeSoFar
  <2>6. DataMatchesRecords
    BY MakesItems DEF Init, DataMatchesRecords
  <2> QED
    BY <2>4, <2>5, <2>6 DEF MigrationsInv
<1>2. MigrationsInv /\ [Next]_vars => MigrationsInv'
  <2> SUFFICES ASSUME MigrationsInv, [Next]_vars PROVE MigrationsInv'
    OBVIOUS
  <2>1. ASSUME NEW r \in Runners, NEW command \in {"apply", "rollback"},
               Start(r, command) \/ Finish(r) \/ Stop(r)
        PROVE  MigrationsInv'
    BY <2>1, CommandKeeps
  <2>2. CASE UNCHANGED vars
    <3>1. \A r \in Runners : Body(r)' = Body(r)
      BY <2>2, SamePlace DEF vars
    <3>2. \A r \in Runners : MadeSoFar(r)'
      BY <2>2, <3>1 DEF vars, MigrationsInv, MadeSoFar
    <3>3. ListsOK'
      BY <2>2, <3>1 DEF vars, MigrationsInv, ListsOK, TypeOK, Alone, Lists,
         RecordedIsPrefix, Applied, Recorded
    <3> QED
      BY <2>2, <3>2, <3>3 DEF vars, MigrationsInv, RecordedIsApplied, Present,
         DataMatchesRecords, Applied
  <2> QED
    BY <2>1, <2>2, StatementKeeps, RecordSchemaKeeps, TransactionKeeps DEF Next
<1> QED
  BY <1>1, <1>2, PTL DEF Spec

(* Every variable keeps its type, and no command is past the bookkeeping   *)
(* of the migration it is at.                                              *)
THEOREM TypesHold == Spec => []TypeOK
<1>1. MigrationsInv => TypeOK
  BY DEF MigrationsInv, ListsOK
<1> QED
  BY <1>1, MigrationsInvariant, PTL

(* apply_graph_migrations and rollback_graph_migrations: the recorded      *)
(* migrations are the first so many of the files, although hosts apply     *)
(* from stale lists and stop anywhere.                                     *)
THEOREM RecordsArePrefix == Spec => []RecordedIsPrefix
<1>1. MigrationsInv => RecordedIsPrefix
  BY DEF MigrationsInv, ListsOK
<1> QED
  BY <1>1, MigrationsInvariant, PTL

(* _apply_step: a migration that is recorded is in the database, except    *)
(* where a rollback was cut off.                                           *)
THEOREM RecordsAreApplied == Spec => []RecordedIsApplied
<1>1. MigrationsInv => RecordedIsApplied
  BY DEF MigrationsInv
<1> QED
  BY <1>1, MigrationsInvariant, PTL

(* _run_steps_then_bookkeeping: a migration's data is there as often as    *)
(* the migration is recorded.                                              *)
THEOREM DataFollowsRecords == Spec => []DataMatchesRecords
<1>1. MigrationsInv => DataMatchesRecords
  BY DEF MigrationsInv
<1> QED
  BY <1>1, MigrationsInvariant, PTL

(* apply_graph_migrations: an apply that ends leaves every file recorded   *)
(* and, but for a cut-off rollback, in the database, whoever else applied. *)
THEOREM AppliesComplete == Spec => ApplyCompletes
<1>1. MigrationsInv =>
        \A r \in Runners : Finish(r) /\ runner[r].command = "apply" =>
          Applied = Ids /\ \A m \in Ids \ cut : Present(m)
  <2> SUFFICES ASSUME MigrationsInv, NEW r \in Runners, Finish(r),
                      runner[r].command = "apply"
               PROVE  Applied = Ids /\ \A m \in Ids \ cut : Present(m)
    OBVIOUS
  <2>1. DOMAIN Order \subseteq Recorded
    BY DEF Finish, MigrationsInv, ListsOK, Lists
  <2>2. Applied = Ids
    BY <2>1, OrderIs DEF Recorded, Applied
  <2> QED
    BY <2>2 DEF MigrationsInv, RecordedIsApplied
<1> QED
  BY <1>1, MigrationsInvariant, PTL DEF ApplyCompletes
=============================================================================
