# IntelliVault: a TLA+ model

This directory holds a TLA+ model of IntelliVault: specifications written from the
source under `src/`, TLC configurations that check them on small instances, and proofs
for TLAPS of the properties that hold for instances of any size. Paths below are
relative to the repository; `app/` is short for `src/backend/app/`.

## 1. Inventory

IntelliVault is a FastAPI gateway, a taskiq worker, a Next.js frontend and four stores:
Postgres (accounts, sessions, research runs), Neo4j (the knowledge graph), Redis (the
job list and task results), and an Ollama model server with two MCP tool servers, which
keep no state of ours.

```
 browser --HTTP--> gateway --LPUSH--> Redis "agent" --BRPOP--> worker
    ^                | ^                                         |
    +-- SSE/replies -+ +------ Postgres: agent_runs -------------+
                     |                                           |
                     +---------------- Neo4j --------------------+
```

| Component | State it keeps | Operations | Talks to |
|---|---|---|---|
| Run lifecycle (`app/agent/router.py`, `service.py`, `tasks.py`, `broker.py`, `sql/`) | a row of `agent_runs` per run: status, parked drafts, lists of committed ids, result | create, list, get, stream, review; the tasks `run_agent` and `commit_agent_run` | Redis list, Postgres |
| Writing nodes (`nodes/commit.py`, `enrich.py`) | local lists of the ids written so far | write entities, sources, embeddings, edges and links one await at a time | Neo4j, Postgres |
| Research graph (`graph.py`, `graph_state.py`, the other nodes) | the LangGraph state of one run, in memory only | plan, survey, search, broaden, fetch, analyze (fan-out), synthesize, structure, critique, lookup | models, MCP tools, web pages |
| Run page (`frontend/src/app/runs/[id]`, `service.stream_run`) | the shown run, the subscription, the last row sent | poll and send, subscribe, approve, reject | gateway |
| Chat turn (`app/chat`) | the history sent to Ollama, the tool-call cards, the message; the thread itself lives in the browser | decide, call a tool, launch a run, reply | Ollama, Redis, Postgres |
| Search graph (`app/agent/search_graph.py`) | one search in the worker | vector search, lexical fallback, edges among the hits | Neo4j, embedder |
| Knowledge graph (`app/graph`) | `Entity`, `RELATED_TO`, `Source`, `SOURCED_FROM`, the vector index | create, delete, attach sources, embed, connect, publish, withdraw, cascade, list, search | Neo4j |
| Authentication (`app/auth`) | users, passkeys, challenges, sessions | registration, login, adding a passkey, account update, passkey delete, logout | Postgres, browser |
| Graph migrations (`app/graph/migrations.py`) | bookkeeping nodes in Neo4j | apply, roll back, status | Neo4j |
| Page fetching (`app/agent/fetch.py`) | none beyond one request | fetch with redirects, extract text | web |
| Health (`app/health`) | none | probe every dependency under a timeout | all stores |
| Adapters, settings, tracing, relational migrations, the rest of the frontend | none of their own | | |

**Hard behaviour.**

* *Interleaving.* Every `await` of a handler or a task lets others run. The gateway
  serves requests side by side, the worker executes `agent_worker_concurrency` tasks
  side by side, and the run row is written by both.
* *Check then act.* `submit_review` reads the status and updates the row in two
  statements; a passkey delete counts in its own snapshot; a login's passkey may be gone
  before its session is stored.
* *Two stores, no common transaction.* `commit_node` writes to Neo4j and then appends
  the id to a Postgres row; the worker may die, or the deadline cancel it, between the
  two.
* *Losing a job.* `BRPOP` hands a job over once. Nothing retries it.
* *Partial failure.* Sources, embeddings, pages and branches are best effort, each with
  a note; a failure elsewhere ends the run through `mark_failed`.
* *Counted loops.* Search retries and critique retries count at different points of the
  loop; the chat's decide loop stops early on a launch.
* *Timeouts.* Every model, tool and page request, every chat search and every run has
  one; a late answer finds nobody waiting.
* *Transactions.* A visibility change is up to six Cypher statements of one transaction;
  Neo4j reads what is committed and locks only what it writes, so other requests get in
  between. Graph migrations run their schema statements outside any transaction, may
  stop after each, and may run on two hosts.
* *Tenancy.* Edges connect entities of different owners, whose visibility changes later
  and in cascades.

**What makes each component correct.** A run writes what was approved and nothing else,
reports what it wrote, is worked on by one party at a time and comes to rest. The
research graph ends, drops no source silently and hands on drafts that can be committed.
The page shows the run's state, also after a review. A chat turn ends, tells the model
the truth about each tool call and shows the user each run it started. The knowledge
graph never shows anybody a private thing of someone else or leaves an edge its owner
cannot see. Accounts and sessions belong to the passkeys that proved them.

## 2. Modules and how they correspond to the code

| Module | What it is | Checked by | Proved in |
|---|---|---|---|
| `RunLifecycle` | what a run promises, without jobs and workers | `AgentRun` instantiates it | `RunLifecycle_proofs` |
| `AgentRun` | run lifecycle, queue, both tasks, `commit_node`, `enrich_node` | `MCAgentRun` | `AgentRun_proofs`, `AgentRunSerial_proofs` |
| `RunPage` | composes `AgentRun` with the stream and the run page | `MCRunPage` | `AgentRunSerial_proofs` |
| `ResearchGraph` | the research phase, which `AgentRun` treats as one step | `MCResearchGraph` | `ResearchGraph_proofs` |
| `ChatTurn` | a chat turn, the search graph, and the worker they share with runs | `MCChatTurn` | `ChatTurn_proofs` |
| `KnowledgeGraph` | what `app/graph` promises: one atomic step per service call | extended by `GraphTransactions` | `GraphTransactions_proofs` |
| `GraphTransactions` | the Cypher statements, transactions and locks behind it | `MCGraphTransactions` | `GraphTransactions_proofs` |
| `GraphMigrations` | apply and rollback of the graph migrations | `MCGraphMigrations` | `GraphMigrations_proofs` |
| `Auth` | passkey ceremonies, sessions, accounts | `MCAuth` | `Auth_proofs` |

`AgentRunSerial_proofs` extends `AgentRun_proofs` and `RunPage`.
An `MC` module defines the small sets of an instance. Operators named as mutants
(`...Late`, `...Unchecked`, ...) are plausible bugs of the operator they stand next to;
no specification uses them, and each property is broken by one of them. `PROJECT.json`
maps every other definition to its lines of source.

**`AgentRun`.** `row` is the table `agent_runs`, `queue` the Redis list, `task[w]` what
slot `w` of the worker executes, `req` the review requests, `creating` the runs inserted
and not yet pushed; `entities`, `edges`, `sourced` and `embedded` are what the runs
wrote to Neo4j. `approved`, `rejected` and `report` only remember. One action is one
statement, push or Neo4j call with the local code around it: `ReadForReview`, then
`MarkCancelled` or `ApproveReview`, then `EnqueueCommit` is `review_run`;
`CreateEntity`, `AppendCommittedEntity`, `AttachSources`, `EmbedEntity` is the body of
the loop in `_commit_entities`. A task carries both the lists of the graph state and the
local lists a node fills, because the difference matters when a node raises.
`DeadlinePasses` and `NodeRaises` are the two ways out of `_guarded`; `TaskDies` is a
failing statement outside it; `Crash` kills the worker. `ReviewSettings` holds the
values of `agent_review_required` that workers run with; with both, each task may see
either.

**`RunLifecycle`** is the contract of a run in eight actions: it starts, may be parked,
is approved or rejected, writes, puts each write on record before the next, and
succeeds, reporting all it wrote, or fails. `AgentRun!Lifecycle` instantiates it under a
refinement mapping (`Stage` folds `queued` and `running` into "active", `written` is
what a run's tasks put into Neo4j, `reported` the two lists of its row), and
`ImplementsLifecycle` says that every step of every handler and task is a step of the
contract or changes nothing it speaks of.

**`RunPage`.** `Poll` is one turn of `stream_run`'s loop, `wire` the events under way,
`StreamBreaks` a connection lost in any phase. `ReviewCard` is the condition under which
the buttons are there and enabled; `Click` then starts `AgentRun`'s review of the viewed
run, and `ReviewAnswered` is `onSuccess`. A row is compared with the last one sent,
which is what `updated_at` is for: every statement that updates a row sets it.

**`ResearchGraph`.** One action is one node, since a node reads the state once and
returns an update; `AnalyzeOneNode(doc)` is one branch of the fan-out. `tools` says
which MCP servers the worker found at its start. Model output is a nondeterministic
choice: any subset of drafts, any edges out of `ModelEdges`, any verdict. `steps` counts
LangGraph supersteps.

**`ChatTurn`.** `pc` follows `run_callback`; `todo` is the rest of the decision's tool
calls; `history` is what the turn added to `ollama_history`, by kind of note. `result`
is the result backend, where an answer may arrive after the gateway gave up. The worker
has one slot, which a research run may hold for as long as it likes. `scanned` remembers
the searches whose lexical scan really found nothing.

**`KnowledgeGraph`.** One action is one service call. `OwnedComponent` defines the set a
cascade flips as what every closed set around the start contains, without a search.

**`GraphTransactions`** runs the same graph statement by statement. `tx[s]` is what
session `s` is about (the next statement, the ids found so far, its locks) and
`wrote[s]` its uncommitted writes, which only it reads (`EntityFor`, `RelFor`,
`CitesFor`). Reads see what is committed and lock nothing; a statement that writes needs
the locks of what it writes (`Free`) and keeps them until `Commit` or `Abort`, which may
come at any statement. Single-statement calls commit as they end, except that
`create_relationship.cypher` reads its ends (`MatchEnds`) before its `CREATE` locks them
(`CreateEdge`). `attach_sources.cypher` takes its entity's lock by creating an edge; on
an edge that exists it would read the visibility unlocked, but its one caller cites an
entity it has just created, so a citation is attached once. `SearchRound` is one turn of the loop in `_owned_component`;
`FlipEntities`, `FlipRelationships`, `SyncSources`, `DemoteOwnedEdges` and
`RemoveForeignEdges` are the files of the same names. `AtomicChanges` is
`KnowledgeGraph!Spec` itself: the two modules share the variables of the committed
graph, so the refinement mapping is the identity.

**`GraphMigrations`.** `Start` reads what is recorded, and the runner then works off
what that leaves (`Plan`, positions of files), in file order or newest first
(`Position`), although it may be stale by then. A migration of schema statements alone
takes one step per statement and one for the bookkeeping node (`SchemaStatement`,
`RecordSchema`), any other one is one `Transaction`; `Stop` is a failure or a kill
anywhere. `FilesAssumption` says what is true of the files in `graph_migrations/`: each
names an item once and no two the same one, a migration makes and its rollback drops,
schema and data do not share a file. Hence the statements of a transaction can take
effect in any order (`Effect`). A future file that drops and recreates an index, as the
comment in `0002` foresees, is outside of it. A failed statement raises out of the script, so it is a `Stop` too. Applies
may overlap; a rollback is taken to be an operator's act while nothing else runs.

**`Auth`.** A handler is `begin` (check, then `StoreChallenge`) or `finish`
(`PopChallenge`, then verify and write). What a request read is kept in `req[s]`, so
that it can be stale when it is used. `CountPasskeys` and `DeleteCredential` are one SQL
statement in two steps: under READ COMMITTED the subquery sees the snapshot at the
statement's start.

## 3. What the runs check

Passing runs:

| Run | Question | Instance | States, time |
|---|---|---|---|
| `AgentRunSerial` | Does a run keep its contract, owned by one party and complete, when its owner sends one decision at a time? | 1 run, 2 slots, 2 reviews, 2 draft entities (1 matched), 1 draft edge, reviews on and off, all faults | 67 thousand, 8 s |
| `AgentRunConcurrent` | What survives when two reviews race? | as above with 1 entity, review on, reviews unordered | 1.3 million, 70 s |
| `RunPage` | Does a run come to rest, and does the page follow it? | 1 run, 1 slot, 1 click, wire of 2, connection may break; no crashes | 211 thousand, 60 s |
| `ChatTurn` | Is a turn truthful whatever fails, and does it end? | 1 turn, 2 rounds of up to 2 calls, every pattern of tools | 613 thousand, 45 s |
| `GraphTransactions` | Do the statements of a change, with failures at each, add up to one atomic step, and do visibility, search and citations hold? | 2 users, 3 entities, 2 edges, 1 page, 1 session | 329 thousand up to symmetry, 60 s |
| `ResearchGraph` | Do the loops end in bounds, and is nothing lost? | 2 pages, 2 drafts, 2 model edges, 2 search retries, 1 critique retry, any tools | 351 thousand, 30 s |
| `Auth` | Do accounts and sessions belong to who proved them? | 2 users, emails, passkeys, tokens, slots; 3 challenges | 134 thousand, 30 s |
| `GraphMigrations` | Does what is recorded stay true of the database, wherever commands stop? | the 3 migrations of the repository and one that writes data, 2 hosts, 4 commands | 2.2 thousand up to symmetry, 2 s |

The properties, by module; each is stated with its code in the module.

* `AgentRun`: `ImplementsLifecycle` (above; so a parked, undecided or rejected run has
  written nothing, a decided one is final, and the stored lists miss at most one write,
  at any crash); `SucceededIsComplete` (a run that succeeded lists exactly what it
  wrote, wrote each agreed entity once, and wrote or noted each agreed edge, and keeps
  its report); `OneOwnerPerRun`; with racing reviews still `RecordedAreReal`,
  `WrittenWasApproved`, `ParkedIsUntouched`; without faults `NoOrphanRun` and
  `RunSettles`.
* `RunPage`: `EndedStreamIsCurrent` (the gateway hangs up only when what it last sent
  stays true until a review), `PageCatchesUp`.
* `ChatTurn`: `HistoryIsPaired`, `LaunchesAreShown` (every run that was started is on a
  card, and none was started without a model), `NothingMeansSearched` ("nothing found"
  is told only of a finished scan), `TurnEnds`.
* `GraphTransactions`: `AtomicChanges`, `SearchFindsComponent`, and of `KnowledgeGraph`
  `EdgeNotMoreVisible`, `OwnersSeeTheirEdges`, `SourcesMirrorEntity`, `TenantIsolation`.
* `GraphMigrations`: `RecordedIsPrefix`, `RecordedIsApplied`, `DataMatchesRecords`,
  `ApplyCompletes`.
* `ResearchGraph`: `StepsBounded`, `SourcesAccounted`, `RevisionsHonoured`,
  `DraftResolves`, `NotesAreKept`, `GraphEnds`.
* `Auth`: `ChallengeUsedOnce`, `PasskeysAreOwners`, `SessionsAreProven`,
  `KeepsOnePasskey`.
* A type invariant per module; that of `GraphTransactions` also says that what is
  written is locked, and by one session.

**Disagreements between the code and its words.** Four runs expect a violation:

| Run | What the counterexample shows |
|---|---|
| `AgentRunReviewRace` | Two reviews both read `awaiting_review`; one rejects, the other approves; the rejected run is written. `mark_cancelled.sql` says nothing is written. `approve_review.sql` and `mark_cancelled.sql` would need `AND status = 'awaiting_review'`. |
| `AgentRunFailedRecord` | `commit_node` raises after several appends; `_guarded` hands `mark_failed` the lists of the graph state, still empty, which replace the stored ones. `mark_failed.sql` says they are kept. |
| `GraphTransactionsRace` | `create_relationship` finds both ends public; a visibility change makes one private and commits; then the public edge is created. `create_relationship.cypher` says an edge must not be more visible than its ends. |
| `AuthDeleteRace` | Two deletes of a user's two passkeys count 2 each and both go through; the comment of `delete_credential.sql` calls it atomic. |

Smaller ones have no run of their own:

* An error in `enrich_node` that is no `HTTPException` fails the run, though its
  docstring says that it never does (`LinkPc` is part of `GuardedPc` for this reason).
* `plan_node` lets `StructuredOutputError` out, though `app/agent/llm.py` says callers
  treat it as no output (`NodeRaises`).
* `guard_url` says that it returns the URL or raises `SsrfError`; on a malformed URL it
  lets the `ValueError` of `urlsplit` or `getaddrinfo` out, and `search_node`, which
  catches `SsrfError` alone, fails the run where another bad hit is a note
  (`GuardRaises`).
* A search that timed out shows the user a card with an empty result, while the model is
  told that it timed out.
* `search_entities_by_vector.cypher` filters by visibility after the index yielded its k
  nearest of all tenants, so fewer than k visible entities can come back although there
  are more.
* A rollback cut off between dropping a schema and unrecording it leaves a migration
  recorded that is not there, and the next apply passes it over; the comment of
  `_apply_step` speaks only of re-running. `RecordedIsApplied` excepts these (`cut`).
* Two changes of one user that overlap can leave a public edge on a private entity as
  well: a cascade that publishes an edge has found its ends before another transaction
  makes one of them private.

**Bounds, and why they are enough.**

* *AgentRun.* Rows, tasks and graph nodes of different runs share no state but `nextId`,
  the queue and the slots, so one run with two slots shows every interleaving of two
  tasks *on one run*, which is what the code does not prevent. Two reviews are the
  smallest race. Two draft entities let a failure fall between one written and one not;
  one of them is matched to an existing node, the path that writes nothing. `MaxLinks =
  1` reaches the append after a link. The queue needs no bound: a run is pushed once per
  create and per approval.
* *RunPage.* With `WireCap = 2` an event can be overtaken by a newer one and the page
  can be two behind. One click per life of the run is what the card admits. `Faults` is
  off by an assumption of the module, since a crashed run never settles.
* *ChatTurn.* `MaxRounds = 2` is the least with a decision after a decision; two calls
  reach mixed decisions (launch then search, search then unusable). Turns share only the
  queue and the results of task ids the next turn does not know, so one is enough; the
  worker may be busy from the first search on.
* *GraphTransactions.* Three entities and two edges are the least for a cascade of two
  hops, or of one that must stop at another owner. `MaxExtras` bounds how many entities
  are cited or embedded at a time, not what happens to them. One session means that
  requests follow one another, each failing anywhere; what holds with several is proved
  for any number (section 4), and `GraphTransactionsRace` shows what does not.
* *GraphMigrations.* Two hosts give every overlap of two stale plans; four commands are
  an apply, a cut-off rollback, and a repetition of each. With a data migration the
  branch the repository does not use yet runs too.
* *ResearchGraph.* Two search retries reach broaden twice; one critique retry reaches
  both branches of the route. Two documents finish in either order, and either may fail.
  The proofs cover all values.
* *Auth.* Two slots are two requests at a time; three challenges allow a registration,
  an added passkey and a login.

`CHECK_DEADLOCK FALSE` stands where the system may rest: every run is terminal and every
request of the instance is used, the turn is over, the graph has ended, all commands
were run. Symmetry is used only in runs without liveness properties.

**Fairness.**

* `ResearchGraph!FairSpec` is weak fairness of *some* node running: `agent_llm_timeout`,
  `agent_mcp_timeout` and `agent_fetch_timeout` end every await of a node.
* `RunPage!FairPageSpec`: the gateway goes on with a request it began, each worker slot
  with the job it has or finds (`BRPOP` blocks until there is one; the timeouts above
  and `agent_run_timeout` end every task), the poll loop wakes after its sleep, and the
  browser runs its callbacks. Nobody is assumed to load the page or to click, and no
  failure is assumed to happen or to stop happening.
* `ChatTurn!FairSpec`: weak fairness of the turn's own coroutine, which
  `chat_llm_timeout` and `chat_search_timeout` wake. Of the worker nothing is assumed:
  `TurnEnds` holds if it never runs.

## 4. What is proved

The proofs hold for every value of the constants that satisfies the named assumptions of
the modules: sets of any size, any retries and limits.

| Module | Theorems | Inductive invariant |
|---|---|---|
| `RunLifecycle_proofs` | `ContractHolds`, `DecidedStays` | `Contract` |
| `AgentRun_proofs` | `TypeCorrect`, `RecordsAreReal` | `RunInv` |
| | `OwnersInvariant`, `NoRunIsOrphaned` | `OwnersOK`, `AllOwned` |
| | `ParkedRunsWait`, `WritesWereApproved` | `Untouched`, `AllDraftsOK` |
| `AgentRunSerial_proofs` | `OneOwner`, `RunsFollowTheContract` | `SerialOK`, `ListsInv` |
| | `SucceededRunsAreComplete` | `CompleteInv` |
| | `PageRefinesRuns`, `EndedStreamsAreCurrent` | `StreamInv` |
| `ResearchGraph_proofs` | `TypesHold`, `StepsAreBounded`, `RetriesAreUsedUp`, `SourcesAreAccounted`, `RevisionsAreHonoured`, `DraftsResolve`, `NotesKept` | `ResearchInv` |
| `ChatTurn_proofs` | `ChatInvariant`, `TypeCorrect`, `PairsAreKept`, `CardsAreRuns`, `NothingWasSearched` | `ChatInv` |
| `GraphTransactions_proofs` | `EdgeVisibility`, `OwnersKeepSight`, `SourcesFollow`, `TenantsAreIsolated` | `GraphInv` |
| | `TxTypes`, `SourcesFollowTx` | `TxInv` |
| | `ChangesAreAtomic`, `SearchIsComplete`, `SerialEdgeVisibility`, `SerialOwnersKeepSight`, `SerialTenantsAreIsolated` | `SerialInv` |
| `GraphMigrations_proofs` | `TypesHold`, `RecordsArePrefix`, `RecordsAreApplied`, `DataFollowsRecords`, `AppliesComplete` | `MigrationsInv` |
| `Auth_proofs` | `AuthTypes`, `ChallengesAreSingleUse`, `PasskeysStayOwners`, `SessionsStayProven`, `LastPasskeyStays` | `AuthInv`, `Keeps` |

Every safety property of a passing run is stated by one of these theorems, and so are
the action properties `ImplementsLifecycle`, `AtomicChanges`, `TenantIsolation` and
`ApplyCompletes`.

**The runs.** Each invariant is shown with the ones before it as hypotheses.

* **`RunInv`.** That a row lists only what its run wrote is not inductive: rows get
  their lists from tasks, so the invariant says the same of each task's two pairs of
  lists and of the id it is about to append, and that these lists are finite, since
  `_result` counts them. `TypeOK` is a part of it. There is a lemma per group of actions
  (`ResearchStep`, `CommitStep`, ...), and the frame lemmas `TaskSet`, `RowSet`,
  `TaskOnly` and `TaskAndRow` carry the part a step does not touch.
* **`OwnersOK`** needs no assumption on reviewers, workers or faults. A run has one job
  `run_agent` in its life, which is in one place: being created, in the queue, or with a
  task (`OneRunOwner`); a commit job exists only after an approval, an approval only of
  a run that was parked, and the job `run_agent` is over by then (`PhaseOK`). The steps
  of a task fall into those that keep it going (`Moves`), those that end it (`Leaves`)
  and those that start it, so the argument is made for these kinds and not for each
  action. With `Faults` off, `AllOwned` adds that an active run has an owner.
* **`Untouched`** says of every run that nothing of it is in the graph before its task
  is past the research phase, **`AllDraftsOK`** that what a task is about to write is
  in the draft an approval stored. `ParkedRunsWait` and `WritesWereApproved` follow, with
  racing reviews and crashes included.
* **`SerialOK`** needs `SerialReviews`, which is therefore a hypothesis of `OneOwner` and
  of what builds on it: at most one request is between its check and its update, so a
  decision finds the status it has read, there is one approval, and one commit job in
  one place. `AgentRunReviewRace` is what happens otherwise.
* **`ListsInv`** relates the three copies of what a run has written: the local lists of
  its task, the ids on its row, and the graph, which is ahead of the row by the one id
  the task is about to append. `RunsFollowTheContract` reads a step of `RunLifecycle`
  off each kind of step: the lemmas behind it compute `Stage`, `written`, `reported` and
  `approved` before and after.
* **`CompleteInv`** follows the draft through the two loops: the report of the research
  phase is on the row while the run waits and with the task while it writes, every item
  the task has taken from its list is in the graph or noted (`ItemsAt`, `EdgesAt`), and
  of each entity it is known whether its sources and embedding are stored or noted
  (`StoresAt`). When the task is at `finish` this is the whole draft. `ReportTyped` and
  `NullAssumption` (`NULL` is none of the values it stands beside) are needed to tell
  a report from none.
* **`StreamInv`.** `PageRefinesRuns` makes every theorem on `AgentRun` one on the runs
  beside a page. When the stream has ended, what it sent last is the row, and the row is
  at rest: by `OwnersOK` nobody works on it, so only a review can change it, and the
  page's own are the only ones.

**The other components.**

* **`GraphInv`** is the conjunction of the type invariant and the three safety
  properties, which support one another: that an edge's owner owns one of its ends is
  what makes the removal of foreign edges sufficient, and an edge's ends existing is
  what lets a deleted id be given out again. `FlipPreserves` covers both visibility
  transactions, for any set of owned entities; that a cascade's set is owned is
  `ComponentIsOwned`. `TenantsAreIsolated` is an action property that follows from
  `GraphInv` in each state.
* **`Contract`** is inductive for `RunLifecycle` as it stands: an undecided or rejected
  run has written nothing, with review on what was written was approved, and the record
  lags by one write at most. `RunsFollowTheContract` carries it over to `AgentRun`.
* **`TxInv`** holds for any number of sessions side by side: every write is locked, no
  two sessions lock the same, and (`Agree`) the entities a transaction flips and the
  ones whose citations it rewrites are the same set with the same visibility. That is
  enough for `SourcesFollowTx`, since a citation is written under the lock of its
  entity. `RelStatementKeeps` is the lemma the three statements on edges share.
* **`SerialInv`** adds, for one session at a time (`OneSession`), how far a transaction
  is: `Searching` (what the search has seen is in the component, and what it has
  expanded has its neighbours seen), `EntitiesFlipped`, `CitationsSynced` and, statement
  by statement, `EdgesWritten`, which part of the atomic step the edges have taken.
  `CommitIsAtomic` reads `SetVisibility` or `CascadeVisibility` off it, `SearchEnds`
  that an empty frontier means the whole component; neither needs an induction over the
  rounds. With `ChangesAreAtomic`, the theorems on `KnowledgeGraph` carry over to the
  statements.
* **`ResearchInv`** adds, for each node, how many supersteps may have been taken when it
  is next (`StepsByNode`), that nothing has been critiqued while research is on
  (`EarlyStart`), how the documents split into running, noted and failed branches
  (`BranchesSplit`, which also says that a search starts without hits, so that a search
  node that raises leaves none behind), and that each verdict so far is on record
  (`VerdictsNoted`).
  `PruneResolves` is the lemma about `_dedupe_against_existing` followed by
  `_prune_dangling_edges`.
* **`AuthInv`** is three layers, each used by the next. `Types` adds to `TypeOK` that
  requests, passkeys and sessions name accounts that exist, which they do for good.
  `Once`: a request that holds a popped challenge is alone with it, and all the log has
  for that challenge is the registration whose session it is about to issue; hence what
  the row of a logged challenge said stays as it was (`GoneStays`). `Proven`: a request
  about to issue a session has a ceremony behind it. It needs `Passkeys` to be finite,
  for the count. **`Keeps`** is inductive only if a user sends one delete at a time
  (`SerialDeletes`, an assumption of `LastPasskeyStays`): a delete that counted more
  than one passkey finds another still there, because no other request deletes for that
  user. `AuthDeleteRace` is what happens otherwise.

* **`ChatInv`** has a part per property. `TurnTyped` says what the counters and
  pointers promise at each point of the turn. `HistoryInv`: every assistant entry of
  the history with n calls is followed by its n results, except that while calls are
  under way the last one lacks just the results of `todo`. `LaunchInv`: the cards are the runs of the turn,
  but for the one just inserted, and the model is asked again only while there are none.
  `SearchInv` carries "nothing was found" from the scan to the worker's last node, to
  the result backend and to the history, each under the id of its search.
* **`MigrationsInv`.** Applying only adds (`ApplyAdds`), so a stale list does no harm:
  everything an apply has been through is recorded (`Lists`), and what it has made of
  the migration it is at stays (`MadeSoFar`). A rollback is alone (`Alone`), so its list
  is exactly what is recorded. `BookkeepingKeeps` is the common end of both kinds of
  migration. That a list has a next position (`LeastExists`, `GreatestExists`) is an
  induction over data, done through the theorem that strict inclusion of finite sets is
  well-founded. `FilesAssumption` is used for all but the types and the prefix.

Only model-checked: all liveness (`RunSettles`, `PageCatchesUp`, `TurnEnds`,
`GraphEnds`), because TLAPS reasons about neither `ENABLED` nor, here, fairness. The
theorems that assume `SerialReviews`, `SerialDeletes` or one session at a time say so
in their statements; the four violated runs show why they have to.

## 5. What is not modelled, and why

* Text: prompts, parsing of model output, page extraction, ranking by token overlap,
  formatting. They decide *which* draft or note comes about, and the models allow any.
* Reads made of several statements: `list_graph` reads entities and edges in two
  transactions, and the callers drop edges whose ends are missing. Ranking and limits of
  the vector index.
* Page fetching: one actor, a redirect loop with one counter, nothing kept. Its outcomes
  are the choices of `FetchNode`.
* Health checks: probes gathered once under two timeouts, nothing written. What is kept
  are references to abandoned probes, so that they are not collected.
* Sign counts of passkeys, display names, cookies. What a WebAuthn verification
  establishes is assumed to be what it says.
* Relational migrations (run by yoyo), settings, tracing, MCP and model adapters, the
  rest of the frontend: no state of their own, or the declarations the modules take as
  given.
* Recovery of a run whose worker was killed: no code does it, and no property claims it.

## 6. Plan

Done, in this order: `AgentRun` and its runs and proofs; `KnowledgeGraph`;
`ResearchGraph`; `Auth`; `RunPage` on top of `AgentRun`; `ChatTurn`;
`GraphTransactions`, shown and proved to implement `KnowledgeGraph`; `GraphMigrations`;
`RunLifecycle`, shown and proved to be implemented by `AgentRun`; the proofs about
`Auth`, `ChatTurn`, `GraphMigrations`, the owners and contents of runs, and the page.

Next:

1. What the contract promises, as theorems on `AgentRun` itself: `RunLifecycle`'s
   `ContractHolds` and `DecidedStays` under the refinement mapping.
2. What of `GraphTransactions` holds with several sessions beyond `SourcesFollowTx`.
3. The safety half of the liveness properties: that a run which never settles has a task
   or a request that is at fault, which `NoOrphanRun` states without faults only.
