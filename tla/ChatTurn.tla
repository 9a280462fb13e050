------------------------------- MODULE ChatTurn -------------------------------
(***************************************************************************)
(* One user's chat: the turns POST /chat runs in the gateway               *)
(* (backend/app/chat/service.py, graph_search.py), the search graph the    *)
(* worker runs for them (backend/app/agent/search_graph.py) and the Redis  *)
(* list that carries search tasks and launched research runs alike.        *)
(*                                                                         *)
(* What the model answers, how long a research run keeps the worker and    *)
(* whether a call fails are nondeterministic; the gateway waits for a      *)
(* search only for a time, so an answer may come when nobody wants it.     *)
(***************************************************************************)
EXTENDS Integers, Sequences, FiniteSets

CONSTANTS
  MaxRounds,  \* chat_tool_call_max_rounds
  MaxCalls,   \* tool calls the model makes in one decision, a bound
  MaxTurns,   \* turns of the thread, a bound
  NULL        \* None

ASSUME BoundsAssumption == /\ MaxRounds \in Nat
                           /\ MaxCalls \in Nat \ {0}
                           /\ MaxTurns \in Nat
ASSUME NullAssumption ==
  /\ NULL \notin {"no_model", "nothing"}
  /\ NULL \notin {"vector_search", "lexical_fallback", "fetch_edges"}

VARIABLES
  turn,      \* the number of the current or last turn
  pc,        \* where run_callback is
  rounds,    \* decisions made in this turn
  todo,      \* the tool calls of the last decision not yet executed
  launched,  \* _resolve_tools' flag
  history,   \* what this turn added to ollama_history
  parts,     \* the tool-call parts collected so far
  message,   \* the parts of the assistant message, NULL before the append
  ended,     \* how the last turn ended
  runs,      \* agent_runs rows the turns inserted
  waiting,   \* the id of the search task wait_result polls for
  nextId,    \* source of task and run ids
  queue,     \* the Redis list "agent"
  worker,    \* the job the worker executes
  result,    \* the result backend: the answer of each search task
  scanned    \* history: tasks whose lexical scan found nothing

toolVars   == <<rounds, todo, launched, history, parts>>
workerVars == <<queue, worker, result, scanned>>
vars == <<turn, pc, toolVars, message, ended, runs, waiting, nextId, workerVars>>

-----------------------------------------------------------------------------

\* A call with unusable arguments or of an unknown tool is "unusable".
Tools == {"search", "launch", "unusable"}
Decisions == UNION {[1..n -> Tools] : n \in 1..MaxCalls}

\* Ollama's history: an assistant turn with its number of tool calls, or a tool
\* result with what it says and the task or run it is about.
Called(n) == [role |-> "assistant", calls |-> n, note |-> NULL, id |-> NULL]
Told(note, id) == [role |-> "tool", calls |-> 0, note |-> note, id |-> id]

\* A tool-call part of the assistant message, drawn as a card.
Card(tool, id) == [tool |-> tool, id |-> id]

Idle == [job |-> "none", id |-> NULL, node |-> NULL, found |-> FALSE]

Init ==
  /\ turn = 0 /\ pc = "idle"
  /\ rounds = 0 /\ todo = <<>> /\ launched = FALSE
  /\ history = <<>> /\ parts = {} /\ message = NULL /\ ended = NULL
  /\ runs = {} /\ waiting = NULL /\ nextId = 1
  /\ queue = <<>> /\ worker = Idle
  /\ result = [id \in {} |-> NULL] /\ scanned = {}

-----------------------------------------------------------------------------
(* The decide loop of _resolve_tools.                                      *)

\* Mutant of AfterRound: one round too many.
AfterRoundLate(r, l) == IF l \/ r > MaxRounds THEN "reply" ELSE "decide"

\* The loop goes on unless research was launched or the rounds are used up.
AfterRound(r, l) == IF l \/ r = MaxRounds THEN "reply" ELSE "decide"

\* run_callback up to the loop: the user's message is in the state.
StartTurn ==
  /\ pc = "idle" /\ turn < MaxTurns
  /\ turn' = turn + 1
  /\ rounds' = 0 /\ todo' = <<>> /\ launched' = FALSE
  /\ history' = <<>> /\ parts' = {} /\ message' = NULL /\ ended' = NULL
  /\ pc' = AfterRound(0, FALSE)
  /\ UNCHANGED <<runs, waiting, nextId, workerVars>>

\* chat_once with the tools offered; without tool calls the loop is left.
Decide ==
  /\ pc = "decide"
  /\ \/ /\ pc' = "reply"
        /\ rounds' = rounds + 1
        /\ UNCHANGED <<todo, launched, history>>
     \/ \E calls \in Decisions :
          /\ pc' = "call"
          /\ rounds' = rounds + 1
          /\ todo' = calls
          /\ launched' = FALSE
          /\ history' = Append(history, Called(Len(calls)))
  /\ UNCHANGED <<turn, parts, message, ended, runs, waiting, nextId, workerVars>>

\* chat_once raises: the turn ends with an error and no assistant message.
DecideFails ==
  /\ pc = "decide"
  /\ pc' = "idle" /\ ended' = "no_model"
  /\ UNCHANGED <<turn, toolVars, message, runs, waiting, nextId, workerVars>>

\* The for loop's bookkeeping for one executed call.
Answer(note, id, cards, l) ==
  /\ history' = Append(history, Told(note, id))
  /\ parts' = parts \cup cards
  /\ todo' = Tail(todo)
  /\ launched' = (launched \/ l)
  /\ pc' = IF Len(todo) = 1 THEN AfterRound(rounds, launched \/ l) ELSE "call"

\* Mutant of CallUnusable: nothing is appended for a tool nobody knows.
CallUnusableSilently ==
  /\ pc = "call" /\ Head(todo) = "unusable"
  /\ todo' = Tail(todo)
  /\ pc' = IF Len(todo) = 1 THEN AfterRound(rounds, launched) ELSE "call"
  /\ UNCHANGED <<turn, rounds, launched, history, parts, message, ended, runs,
                 waiting, nextId, workerVars>>

\* A short query or topic, or an unrecognized tool.
CallUnusable ==
  /\ pc = "call" /\ Head(todo) = "unusable"
  /\ Answer("unusable", NULL, {}, FALSE)
  /\ UNCHANGED <<turn, rounds, message, ended, runs, waiting, nextId, workerVars>>

-----------------------------------------------------------------------------
(* search_knowledge_graph, the gateway's side.                             *)

\* search_knowledge_graph_task.kiq.
EnqueueSearch ==
  /\ pc = "call" /\ Head(todo) = "search"
  /\ pc' = "waiting"
  /\ waiting' = nextId /\ nextId' = nextId + 1
  /\ queue' = Append(queue, [job |-> "search", id |-> nextId])
  /\ UNCHANGED <<turn, toolVars, message, ended, runs, worker, result, scanned>>

\* Redis cannot be reached, from kiq or while waiting: the except of
\* _run_search turns it into a note.
SearchRaises ==
  /\ \/ pc = "call" /\ Head(todo) = "search"
     \/ pc = "waiting"
  /\ Answer("failed", NULL, {}, FALSE)
  /\ waiting' = NULL
  /\ UNCHANGED <<turn, rounds, message, ended, runs, nextId, workerVars>>

\* wait_result finds the answer; format_search_result tells what it says.
SearchAnswered ==
  /\ pc = "waiting" /\ waiting \in DOMAIN result
  /\ Answer(result[waiting], waiting, {Card("search", waiting)}, FALSE)
  /\ waiting' = NULL
  /\ UNCHANGED <<turn, rounds, message, ended, runs, nextId, workerVars>>

\* Mutant of SearchTimesOut: wait_result is called without its timeout.
SearchWaitsOn ==
  /\ pc = "waiting" /\ waiting \in DOMAIN result
  /\ Answer("timed_out", waiting, {Card("search", waiting)}, FALSE)
  /\ waiting' = NULL
  /\ UNCHANGED <<turn, rounds, message, ended, runs, nextId, workerVars>>

\* chat_search_timeout passes; the task stays queued or goes on.
SearchTimesOut ==
  /\ pc = "waiting"
  /\ Answer("timed_out", waiting, {Card("search", waiting)}, FALSE)
  /\ waiting' = NULL
  /\ UNCHANGED <<turn, rounds, message, ended, runs, nextId, workerVars>>

-----------------------------------------------------------------------------
(* launch_research_agent.                                                  *)

\* agent_service.create_run.
InsertRun ==
  /\ pc = "call" /\ Head(todo) = "launch"
  /\ pc' = "launching"
  /\ runs' = runs \cup {[id |-> nextId, turn |-> turn]}
  /\ nextId' = nextId + 1
  /\ UNCHANGED <<turn, toolVars, message, ended, waiting, workerVars>>

\* Mutant of EnqueueRun: a launched run gets no card.
EnqueueRunUnseen ==
  /\ pc = "launching"
  /\ queue' = Append(queue, [job |-> "run", id |-> nextId - 1])
  /\ Answer("launched", nextId - 1, {}, TRUE)
  /\ UNCHANGED <<turn, rounds, message, ended, runs, waiting, nextId,
                 worker, result, scanned>>

\* agent_service.enqueue_run, and the card with the run.
EnqueueRun ==
  /\ pc = "launching"
  /\ queue' = Append(queue, [job |-> "run", id |-> nextId - 1])
  /\ Answer("launched", nextId - 1, {Card("launch", nextId - 1)}, TRUE)
  /\ UNCHANGED <<turn, rounds, message, ended, runs, waiting, nextId,
                 worker, result, scanned>>

\* Postgres or Redis fails: no handler is there, the exception ends the turn.
LaunchRaises ==
  /\ \/ pc = "call" /\ Head(todo) = "launch"
     \/ pc = "launching"
  /\ pc' = "idle" /\ ended' = "launch_failed"
  /\ UNCHANGED <<turn, toolVars, message, runs, waiting, nextId, workerVars>>

-----------------------------------------------------------------------------
(* The reply.                                                              *)

\* The assistant message with the cards is appended, then text is streamed.
AppendMessage ==
  /\ pc = "reply" /\ message = NULL
  /\ message' = parts
  /\ UNCHANGED <<turn, pc, toolVars, ended, runs, waiting, nextId, workerVars>>

\* chat_stream ends, or breaks off; what it brought stays in the message.
Reply ==
  /\ pc = "reply" /\ message # NULL
  /\ ended' \in {"replied", "cut"}
  /\ pc' = "idle"
  /\ UNCHANGED <<turn, toolVars, message, runs, waiting, nextId, workerVars>>

-----------------------------------------------------------------------------
(* The worker: one slot, whose research runs can keep a search waiting.    *)

Receive ==
  /\ worker = Idle /\ queue # <<>>
  /\ worker' = [job |-> Head(queue).job, id |-> Head(queue).id, found |-> FALSE,
                node |-> IF Head(queue).job = "search" THEN "vector_search"
                                                       ELSE "research"]
  /\ queue' = Tail(queue)
  /\ UNCHANGED <<turn, pc, toolVars, message, ended, runs, waiting, nextId,
                 result, scanned>>

\* A research run ends, AgentRun says how; or the worker is killed and the
\* job it had popped is gone.
WorkerDrops ==
  /\ worker # Idle
  /\ worker' = Idle
  /\ UNCHANGED <<turn, pc, toolVars, message, ended, runs, waiting, nextId,
                 queue, result, scanned>>

\* Mutant of VectorSearchNode: a failing embedder is no hits and no fallback.
VectorSearchNodeNoFallback ==
  /\ worker.node = "vector_search"
  /\ \E found \in BOOLEAN :
       worker' = [worker EXCEPT !.found = found, !.node = "fetch_edges"]
  /\ UNCHANGED <<turn, pc, toolVars, message, ended, runs, waiting, nextId,
                 queue, result, scanned>>

\* _vector_search_node and its route; a failure counts as no hits.
VectorSearchNode ==
  /\ worker.node = "vector_search"
  /\ \E found \in BOOLEAN :
       worker' = [worker EXCEPT !.found = found,
                    !.node = IF found THEN "fetch_edges" ELSE "lexical_fallback"]
  /\ UNCHANGED <<turn, pc, toolVars, message, ended, runs, waiting, nextId,
                 queue, result, scanned>>

\* _lexical_fallback_node: the whole visible graph by shared tokens.
LexicalFallbackNode ==
  /\ worker.node = "lexical_fallback"
  /\ \E found \in BOOLEAN :
       /\ worker' = [worker EXCEPT !.found = found, !.node = "fetch_edges"]
       /\ scanned' = IF found THEN scanned ELSE scanned \cup {worker.id}
  /\ UNCHANGED <<turn, pc, toolVars, message, ended, runs, waiting, nextId,
                 queue, result>>

\* The task is over and its answer is in Redis.
Store(answer) ==
  /\ result' = [id \in DOMAIN result \cup {worker.id} |->
                  IF id = worker.id THEN answer ELSE result[id]]
  /\ worker' = Idle
  /\ UNCHANGED <<turn, pc, toolVars, message, ended, runs, waiting, nextId,
                 queue, scanned>>

\* _fetch_edges_node, the last one.
FetchEdgesNode ==
  /\ worker.node = "fetch_edges"
  /\ Store(IF worker.found THEN "found" ELSE "nothing")

\* Neo4j fails under a node that does not catch it: result.is_err.
SearchGraphRaises ==
  /\ \/ worker.node = "lexical_fallback"
     \/ worker.node = "fetch_edges" /\ worker.found
  /\ Store("failed")

-----------------------------------------------------------------------------

Progress ==
  \/ Decide \/ CallUnusable
  \/ EnqueueSearch \/ SearchAnswered \/ SearchTimesOut
  \/ InsertRun \/ EnqueueRun
  \/ AppendMessage \/ Reply

Failure == DecideFails \/ SearchRaises \/ LaunchRaises

Worker ==
  \/ Receive \/ WorkerDrops
  \/ VectorSearchNode \/ LexicalFallbackNode \/ FetchEdgesNode
  \/ SearchGraphRaises

Next == StartTurn \/ Progress \/ Failure \/ Worker

Spec == Init /\ [][Next]_vars

\* chat_llm_timeout and chat_search_timeout bound every wait of a turn, so its
\* coroutine moves on; of the worker nothing is assumed, and no call has to
\* fail.
FairSpec == Spec /\ WF_vars(Progress)

-----------------------------------------------------------------------------
(* Properties.                                                             *)

Ids == 1..(nextId - 1)
Notes == {"unusable", "failed", "timed_out", "found", "nothing", "launched"}
LaunchCards == {c \in message : c.tool = "launch"}
RunsOfTurn == {r \in runs : r.turn = turn}

\* Every variable keeps its type; no turn takes more than MaxRounds decisions.
TypeOK ==
  /\ turn \in 0..MaxTurns
  /\ pc \in {"idle", "decide", "call", "waiting", "launching", "reply"}
  /\ rounds \in 0..MaxRounds
  /\ todo \in Seq(Tools) /\ (pc \in {"call", "waiting", "launching"} => todo # <<>>)
  /\ launched \in BOOLEAN
  /\ history \in Seq([role : {"assistant", "tool"}, calls : 0..MaxCalls,
                      note : Notes \cup {NULL}, id : Ids \cup {NULL}])
  /\ parts \subseteq [tool : {"search", "launch"}, id : Ids]
  /\ message = NULL \/ message \subseteq parts
  /\ ended \in {"replied", "cut", "no_model", "launch_failed", NULL}
  /\ runs \subseteq [id : Ids, turn : 1..MaxTurns]
  /\ waiting \in Ids \cup {NULL} /\ nextId \in Nat
  /\ queue \in Seq([job : {"search", "run"}, id : Ids])
  /\ worker.job \in {"search", "run", "none"} /\ worker.id \in Ids \cup {NULL}
  /\ DOMAIN result \subseteq Ids /\ scanned \subseteq Ids

\* _resolve_tools, "the assistant(tool_calls) -> tool(result) pairing Ollama's
\* chat API expects": whenever the model is asked, every assistant turn with n
\* calls is followed by its n results before the next assistant turn.
HistoryIsPaired ==
  pc \in {"decide", "reply"} =>
    \A i \in DOMAIN history : history[i].role = "assistant" =>
      LET n == history[i].calls IN
      /\ i + n <= Len(history)
      /\ \A k \in (i + 1)..(i + n) : history[k].role = "tool"
      /\ i + n < Len(history) => history[i + n + 1].role = "assistant"

\* _run_launch: every run a turn started is on a card of the message the user
\* gets, whatever else the model called in between, and no card is of another
\* run; a turn answered "Could not reach the language model" instead has
\* started no research.
LaunchesAreShown ==
  /\ message # NULL => {c.id : c \in LaunchCards} = {r.id : r \in RunsOfTurn}
  /\ ended = "no_model" => RunsOfTurn = {}

\* The model is told that the graph has nothing only where the search of that
\* very call scanned the graph and found nothing; a search given up, failed
\* or answered too late is told apart.
NothingMeansSearched ==
  \A i \in DOMAIN history : history[i].note = "nothing" =>
    history[i].id \in scanned

\* chat_search_timeout: a turn ends whether or not the worker ever answers.
TurnEnds == pc # "idle" ~> pc = "idle"
=============================================================================
