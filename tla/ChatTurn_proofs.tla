---------------------------- MODULE ChatTurn_proofs ----------------------------
(***************************************************************************)
(* Proofs about ChatTurn for any number of turns, rounds and tool calls:   *)
(* its types, the pairing of the history Ollama is given, the cards of     *)
(* launched runs, and what a search that found nothing stands for.         *)
(***************************************************************************)
EXTENDS ChatTurn, SequenceTheorems, TLAPS

\* The points at which a decision's tool calls are being executed.
Calling == {"call", "waiting", "launching"}
SearchNodes == {"vector_search", "lexical_fallback", "fetch_edges"}

Entries(ids) == [role : {"assistant", "tool"}, calls : 0..MaxCalls,
                 note : Notes \cup {NULL}, id : ids \cup {NULL}]

(* The types, with what the counters and pointers promise at each pc.      *)
TurnTyped ==
  /\ turn \in 0..MaxTurns
  /\ pc \in Calling \cup {"idle", "decide", "reply"}
  /\ rounds \in 0..MaxRounds
  /\ pc = "decide" => rounds # MaxRounds
  /\ pc # "idle" => turn # 0
  /\ todo \in Seq(Tools) /\ (pc \in Calling => todo # <<>>)
  /\ launched \in BOOLEAN
  /\ ended \in {"replied", "cut", "no_model", "launch_failed", NULL}
  /\ nextId \in Nat \ {0}
  /\ waiting \in Ids \cup {NULL}
  /\ pc = "waiting" => waiting \in Ids
  /\ pc = "launching" => nextId - 1 \in Ids

DataTyped ==
  /\ history \in Seq(Entries(Ids))
  /\ parts \subseteq [tool : {"search", "launch"}, id : Ids]
  /\ message = NULL \/ message \subseteq parts
  /\ runs \subseteq [id : Ids, turn : 1..turn]

WorkerTyped ==
  /\ queue \in Seq([job : {"search", "run"}, id : Ids])
  /\ worker \in [job : {"search", "run", "none"}, id : Ids \cup {NULL},
                 node : SearchNodes \cup {"research", NULL}, found : BOOLEAN]
  /\ worker.node \in SearchNodes => worker.id \in Ids
  /\ DOMAIN result \subseteq Ids /\ scanned \subseteq Ids
  /\ \A id \in DOMAIN result : result[id] \in {"found", "nothing", "failed"}

Typed == TurnTyped /\ DataTyped /\ WorkerTyped

(* Every turn with tool calls has its results, save the one being worked   *)
(* off: that one lacks as many as there are calls to do.                   *)
Answered(h, i) ==
  LET n == h[i].calls IN
  /\ i + n <= Len(h)
  /\ \A k \in (i + 1)..(i + n) : h[k].role = "tool"
  /\ i + n < Len(h) => h[i + n + 1].role = "assistant"

AllAnswered(h, except) ==
  \A i \in DOMAIN h \ except : h[i].role = "assistant" => Answered(h, i)

Open(h, left, o) ==
  /\ o \in DOMAIN h
  /\ h[o].role = "assistant"
  /\ Len(h) + left = o + h[o].calls
  /\ \A k \in (o + 1)..Len(h) : h[k].role = "tool"
  /\ AllAnswered(h, {o})

HistoryInv ==
  /\ pc \in {"decide", "reply"} => AllAnswered(history, {})
  /\ pc \in Calling => \E o \in DOMAIN history : Open(history, Len(todo), o)

(* The runs of the turn are on the cards collected so far, but for the one *)
(* just inserted; the model is only asked again while there are none.      *)
Launches(cards) == {c.id : c \in {x \in cards : x.tool = "launch"}}
TurnRuns == {r.id : r \in RunsOfTurn}

LaunchInv ==
  /\ pc \in {"decide", "call", "waiting", "reply"} =>
       Launches(parts) = TurnRuns
  /\ pc = "launching" => TurnRuns = Launches(parts) \cup {nextId - 1}
  /\ pc = "decide" => RunsOfTurn = {}
  /\ pc \in {"call", "waiting"} /\ ~launched => RunsOfTurn = {}
  /\ message # NULL => /\ pc \in {"reply", "idle"} /\ message = parts
                       /\ Launches(parts) = TurnRuns
  /\ pc # "idle" => ended = NULL
  /\ ended = "no_model" => RunsOfTurn = {}

(* An answer "nothing" comes from a scan, from the node that found nothing *)
(* to the history.                                                         *)
SearchInv ==
  /\ worker.node = "fetch_edges" /\ ~worker.found => worker.id \in scanned
  /\ \A id \in DOMAIN result : result[id] = "nothing" => id \in scanned
  /\ NothingMeansSearched

ChatInv == Typed /\ HistoryInv /\ LaunchInv /\ SearchInv

-----------------------------------------------------------------------------
(* Ids are only added, so what was typed over them stays typed.            *)
LEMMA IdsGrow ==
  ASSUME nextId \in Nat \ {0}, nextId' \in {nextId, nextId + 1}
  PROVE  /\ nextId' \in Nat \ {0} /\ Ids \subseteq Ids'
         /\ nextId' = nextId + 1 => nextId \in Ids'
<1>1. PICK m, n \in Nat : m = nextId /\ n = nextId' /\ m # 0
  OBVIOUS
<1>2. n \in {m, m + 1}
  BY <1>1
<1>3. /\ n # 0 /\ 1..(m - 1) \subseteq 1..(n - 1)
      /\ n = m + 1 => m \in 1..(n - 1)
  <2>1. CASE n = m
    BY <1>1, <2>1
  <2>2. CASE n = m + 1
    BY <1>1, <2>2
  <2> QED
    BY <1>2, <2>1, <2>2
<1> QED
  BY <1>1, <1>3 DEF Ids

LEMMA DataStays ==
  ASSUME Typed, UNCHANGED <<turn, history, parts, message, runs>>,
         nextId' \in {nextId, nextId + 1}
  PROVE  DataTyped'
<1>1. Ids \subseteq Ids'
  BY IdsGrow DEF Typed, TurnTyped
<1> PICK S, T : S = Entries(Ids) /\ T = Entries(Ids')
  OBVIOUS
<1>2. S \subseteq T
  BY <1>1 DEF Entries
<1>3. history' \in Seq(T)
  <2>1. history \in Seq(S)
    BY DEF Typed, DataTyped
  <2> QED
    BY <1>2, <2>1, SeqMonotonic
<1> QED
  BY <1>1, <1>3 DEF Typed, DataTyped

LEMMA WorkerStays ==
  ASSUME Typed, UNCHANGED <<queue, worker, result, scanned>>,
         nextId' \in {nextId, nextId + 1}
  PROVE  WorkerTyped'
<1>1. Ids \subseteq Ids'
  BY IdsGrow DEF Typed, TurnTyped
<1> PICK S, T : /\ S = [job : {"search", "run"}, id : Ids]
                /\ T = [job : {"search", "run"}, id : Ids']
  OBVIOUS
<1>2. S \subseteq T
  BY <1>1
<1>3. queue' \in Seq(T)
  <2>1. queue \in Seq(S)
    BY DEF Typed, WorkerTyped
  <2> QED
    BY <1>2, <2>1, SeqMonotonic
<1> QED
  BY <1>1, <1>3 DEF Typed, WorkerTyped

(* The bookkeeping of one executed call.                                   *)
LEMMA AnswerTyped ==
  ASSUME Typed, pc \in Calling, NEW note \in Notes, NEW id \in Ids \cup {NULL},
         NEW cards, cards \subseteq [tool : {"search", "launch"}, id : Ids],
         NEW l \in BOOLEAN, Answer(note, id, cards, l),
         waiting' \in {waiting, NULL},
         UNCHANGED <<turn, rounds, message, ended, runs, nextId>>
  PROVE  TurnTyped' /\ DataTyped'
<1>1. todo \in Seq(Tools) /\ todo # <<>>
  BY DEF Typed, TurnTyped
<1>2. /\ todo' \in Seq(Tools) /\ Len(todo') = Len(todo) - 1
      /\ Len(todo) \in Nat
  BY <1>1, HeadTailProperties, LenProperties DEF Answer
<1>3. Len(todo) # 1 => todo' # <<>>
  BY <1>2, EmptySeq
<1>4. /\ pc' \in {"call", "reply", "decide"}
      /\ pc' = "call" => Len(todo) # 1
      /\ pc' = "decide" => rounds # MaxRounds
  BY DEF Answer, AfterRound
<1>5. TurnTyped'
  BY <1>2, <1>3, <1>4 DEF Answer, Typed, TurnTyped, Calling, Ids
<1>6. Ids' = Ids
  BY DEF Ids
<1> PICK e : e = Told(note, id)
  OBVIOUS
<1>7. e \in Entries(Ids)
  BY BoundsAssumption DEF Told, Entries
<1>8. history' \in Seq(Entries(Ids))
  BY <1>7 DEF Answer, Typed, DataTyped
<1>9. DataTyped'
  BY <1>6, <1>8 DEF Answer, Typed, DataTyped
<1> QED
  BY <1>5, <1>9

\* The five ways a tool call is answered.
Answering == \/ CallUnusable \/ SearchRaises \/ SearchAnswered
             \/ SearchTimesOut \/ EnqueueRun

(* What they have in common.                                               *)
LEMMA AnsweringIs ==
  ASSUME Typed, Answering
  PROVE  /\ pc \in Calling
         /\ \E note \in Notes, id \in Ids \cup {NULL},
               cards \in SUBSET [tool : {"search", "launch"}, id : Ids],
               l \in BOOLEAN : Answer(note, id, cards, l)
         /\ waiting' \in {waiting, NULL}
         /\ UNCHANGED <<turn, rounds, message, ended, runs, nextId, worker,
                        result, scanned>>
         /\ queue' # queue => EnqueueRun
<1> USE DEF Calling, Notes, workerVars
<1>1. CASE CallUnusable
  <2>1. Answer("unusable", NULL, {}, FALSE) /\ "unusable" \in Notes
    BY <1>1 DEF CallUnusable
  <2> QED
    BY <1>1, <2>1 DEF CallUnusable
<1>2. CASE SearchRaises
  <2>1. Answer("failed", NULL, {}, FALSE) /\ "failed" \in Notes
    BY <1>2 DEF SearchRaises
  <2> QED
    BY <1>2, <2>1 DEF SearchRaises
<1>3. CASE SearchAnswered
  <2>1. /\ waiting \in Ids /\ result[waiting] \in Notes
        /\ {Card("search", waiting)} \subseteq
             [tool : {"search", "launch"}, id : Ids]
    BY <1>3 DEF SearchAnswered, Typed, TurnTyped, WorkerTyped, Card
  <2>2. Answer(result[waiting], waiting, {Card("search", waiting)}, FALSE)
    BY <1>3 DEF SearchAnswered
  <2> QED
    BY <1>3, <2>1, <2>2 DEF SearchAnswered
<1>4. CASE SearchTimesOut
  <2>1. /\ waiting \in Ids /\ "timed_out" \in Notes
        /\ {Card("search", waiting)} \subseteq
             [tool : {"search", "launch"}, id : Ids]
    BY <1>4 DEF SearchTimesOut, Typed, TurnTyped, Card
  <2>2. Answer("timed_out", waiting, {Card("search", waiting)}, FALSE)
    BY <1>4 DEF SearchTimesOut
  <2> QED
    BY <1>4, <2>1, <2>2 DEF SearchTimesOut
<1>5. CASE EnqueueRun
  <2>1. /\ nextId - 1 \in Ids /\ "launched" \in Notes
        /\ {Card("launch", nextId - 1)} \subseteq
             [tool : {"search", "launch"}, id : Ids]
    BY <1>5 DEF EnqueueRun, Typed, TurnTyped, Card
  <2>2. Answer("launched", nextId - 1, {Card("launch", nextId - 1)}, TRUE)
    BY <1>5 DEF EnqueueRun
  <2> QED
    BY <1>5, <2>1, <2>2 DEF EnqueueRun
<1> QED
  BY <1>1, <1>2, <1>3, <1>4, <1>5 DEF Answering

\* The tool calls of one decision.
LEMMA DecisionIs ==
  ASSUME NEW calls \in Decisions
  PROVE  calls \in Seq(Tools) /\ calls # <<>> /\ Len(calls) \in 1..MaxCalls
<1>1. PICK n \in 1..MaxCalls : calls \in [1..n -> Tools]
  BY DEF Decisions
<1>2. n \in Nat /\ n # 0
  BY BoundsAssumption
<1>3. calls \in Seq(Tools) /\ Len(calls) = n
  BY <1>1, <1>2
<1> QED
  BY <1>2, <1>3, EmptySeq

\* The gateway's steps that answer no tool call.
TurnStep == \/ StartTurn \/ Decide \/ DecideFails \/ EnqueueSearch \/ InsertRun
            \/ LaunchRaises \/ AppendMessage \/ Reply

(* The types are kept by them.                                             *)
LEMMA TurnStepTyped ==
  ASSUME Typed, TurnStep
  PROVE  TurnTyped' /\ DataTyped'
<1> USE DEF Calling
<1>0. /\ nextId \in Nat \ {0} /\ turn \in 0..MaxTurns /\ rounds \in 0..MaxRounds
      /\ MaxTurns \in Nat /\ MaxRounds \in Nat
  BY BoundsAssumption DEF Typed, TurnTyped
<1>1. CASE StartTurn
  <2>1. turn + 1 \in 0..MaxTurns /\ 1..turn \subseteq 1..(turn + 1)
    BY <1>0, <1>1 DEF StartTurn
  <2>2. <<>> \in Seq(Tools) /\ <<>> \in Seq(Entries(Ids))
    BY EmptySeq
  <2>3. Ids' = Ids /\ 0 \in 0..MaxRounds
    BY <1>0, <1>1 DEF StartTurn, Ids
  <2>6. /\ pc' \in {"reply", "decide"}
        /\ pc' = "decide" => rounds' # MaxRounds
        /\ turn' = turn + 1 /\ turn + 1 # 0 /\ rounds' = 0 /\ todo' = <<>>
        /\ launched' = FALSE /\ ended' = NULL /\ UNCHANGED <<nextId, waiting>>
    BY <1>0, <1>1 DEF StartTurn, AfterRound
  <2>4. TurnTyped'
    BY <2>1, <2>2, <2>3, <2>6 DEF Typed, TurnTyped
  <2>5. DataTyped'
    BY <1>1, <2>1, <2>2, <2>3 DEF StartTurn, Typed, DataTyped
  <2> QED
    BY <2>4, <2>5
<1>2. CASE Decide
  <2>0. pc = "decide" /\ rounds # MaxRounds
    BY <1>2 DEF Decide, Typed, TurnTyped
  <2>1. rounds' \in 0..MaxRounds
    BY <1>0, <1>2, <2>0 DEF Decide
  <2>2. Ids' = Ids
    BY <1>2 DEF Decide, Ids
  <2>3. CASE pc' = "reply"
    <3>1. UNCHANGED <<todo, launched, history>>
      BY <1>2, <2>3 DEF Decide
    <3> QED
      BY <1>2, <2>0, <2>1, <2>2, <2>3, <3>1 DEF Decide, Typed, TurnTyped,
           DataTyped
  <2>4. CASE pc' # "reply"
    <3>1. PICK calls \in Decisions :
            /\ pc' = "call" /\ todo' = calls /\ launched' = FALSE
            /\ history' = Append(history, Called(Len(calls)))
      BY <1>2, <2>4 DEF Decide
    <3>2. /\ calls \in Seq(Tools) /\ calls # <<>> /\ Len(calls) \in 0..MaxCalls
      BY BoundsAssumption, DecisionIs
    <3> PICK e : e = Called(Len(calls))
      OBVIOUS
    <3>3. e \in Entries(Ids)
      BY <3>2 DEF Called, Entries
    <3>4. history' \in Seq(Entries(Ids))
      BY <3>1, <3>3 DEF Typed, DataTyped
    <3>5. TurnTyped'
      BY <1>2, <2>0, <2>1, <2>2, <3>1, <3>2 DEF Decide, Typed, TurnTyped
    <3>6. DataTyped'
      BY <1>2, <2>2, <3>4 DEF Decide, Typed, DataTyped
    <3> QED
      BY <3>5, <3>6
  <2> QED
    BY <2>3, <2>4
<1>3. CASE DecideFails \/ LaunchRaises \/ AppendMessage \/ Reply
  <2>1. /\ UNCHANGED <<turn, rounds, todo, launched, history, parts, runs,
                       waiting, nextId>>
        /\ pc' \in {"idle", pc} /\ (pc' = pc => pc = "reply")
        /\ message' \in {message, parts}
        /\ ended' \in {"replied", "cut", "no_model", "launch_failed", ended}
    BY <1>3 DEF DecideFails, LaunchRaises, AppendMessage, Reply, toolVars
  <2>2. Ids' = Ids
    BY <2>1 DEF Ids
  <2>3. TurnTyped'
    BY <2>1, <2>2 DEF Typed, TurnTyped
  <2>4. DataTyped'
    BY <2>1, <2>2 DEF Typed, DataTyped
  <2> QED
    BY <2>3, <2>4
<1>4. CASE EnqueueSearch
  <2>1. DataTyped'
    BY <1>4, DataStays DEF EnqueueSearch, toolVars
  <2>2. Ids \subseteq Ids' /\ nextId' \in Nat \ {0} /\ nextId \in Ids'
    BY <1>0, <1>4, IdsGrow DEF EnqueueSearch
  <2>3. TurnTyped'
    BY <1>4, <2>2 DEF EnqueueSearch, toolVars, Typed, TurnTyped
  <2> QED
    BY <2>1, <2>3
<1>5. CASE InsertRun
  <2>1. Ids \subseteq Ids' /\ nextId' \in Nat \ {0} /\ nextId \in Ids'
    BY <1>0, <1>5, IdsGrow DEF InsertRun
  <2>2. nextId' - 1 = nextId
    BY <1>0, <1>5 DEF InsertRun
  <2>3. TurnTyped'
    BY <1>5, <2>1, <2>2 DEF InsertRun, toolVars, Typed, TurnTyped
  <2> PICK S, T : S = Entries(Ids) /\ T = Entries(Ids')
    OBVIOUS
  <2>4. S \subseteq T
    BY <2>1 DEF Entries
  <2>5. history' \in Seq(T)
    <3>1. history \in Seq(S) /\ history' = history
      BY <1>5 DEF InsertRun, toolVars, Typed, DataTyped
    <3> QED
      BY <2>4, <3>1, SeqMonotonic
  <2>6. turn \in 1..turn
    BY <1>0, <1>5 DEF InsertRun, Typed, TurnTyped
  <2>7. runs' \subseteq [id : Ids', turn : 1..turn]
    BY <1>5, <2>1, <2>6 DEF InsertRun, Typed, DataTyped
  <2>8. DataTyped'
    BY <1>5, <2>1, <2>5, <2>7 DEF InsertRun, toolVars, Typed, DataTyped
  <2> QED
    BY <2>3, <2>8
<1> QED
  BY <1>1, <1>2, <1>3, <1>4, <1>5 DEF TurnStep

(* The worker's steps.                                                     *)
LEMMA WorkerStepTyped ==
  ASSUME Typed, Worker
  PROVE  Typed'
<1>0. /\ UNCHANGED <<turn, pc, rounds, todo, launched, history, parts, message,
                     ended, runs, waiting, nextId>>
      /\ Ids' = Ids
  BY DEF Worker, Receive, WorkerDrops, VectorSearchNode, LexicalFallbackNode,
       FetchEdgesNode, SearchGraphRaises, Store, toolVars, Ids
<1>1. TurnTyped' /\ DataTyped'
  BY <1>0 DEF Typed, TurnTyped, DataTyped
<1>2. /\ queue \in Seq([job : {"search", "run"}, id : Ids])
      /\ worker \in [job : {"search", "run", "none"}, id : Ids \cup {NULL},
                     node : SearchNodes \cup {"research", NULL},
                     found : BOOLEAN]
      /\ worker.node \in SearchNodes => worker.id \in Ids
  BY DEF Typed, WorkerTyped
<1>3. CASE Receive
  <2>1. PICK j \in [job : {"search", "run"}, id : Ids] : j = Head(queue)
    BY <1>2, <1>3, HeadTailProperties DEF Receive
  <2>2. queue' \in Seq([job : {"search", "run"}, id : Ids])
    BY <1>2, <1>3, HeadTailProperties DEF Receive
  <2>3. worker' = [job |-> j.job, id |-> j.id, found |-> FALSE,
                   node |-> IF j.job = "search" THEN "vector_search"
                                                ELSE "research"]
    BY <1>3, <2>1 DEF Receive
  <2>4. /\ worker' \in [job : {"search", "run", "none"}, id : Ids \cup {NULL},
                        node : SearchNodes \cup {"research", NULL},
                        found : BOOLEAN]
        /\ worker'.id \in Ids
    BY <2>1, <2>3 DEF SearchNodes
  <2> QED
    BY <1>0, <1>1, <1>3, <2>2, <2>4 DEF Receive, Typed, WorkerTyped
<1>4. worker' = Idle => WorkerTyped' \/ ~(DOMAIN result' \subseteq Ids)
        \/ ~(UNCHANGED <<queue, scanned>>)
        \/ \E id \in DOMAIN result' :
             result'[id] \notin {"found", "nothing", "failed"}
  <2>1. /\ Idle \in [job : {"search", "run", "none"}, id : Ids \cup {NULL},
                     node : SearchNodes \cup {"research", NULL},
                     found : BOOLEAN]
        /\ Idle.node \notin SearchNodes
    BY NullAssumption DEF Idle, SearchNodes
  <2> QED
    BY <1>0, <2>1 DEF Typed, WorkerTyped
<1>5. CASE WorkerDrops
  BY <1>1, <1>4, <1>5 DEF WorkerDrops, Typed, WorkerTyped
<1>6. CASE VectorSearchNode
  <2>1. PICK f \in BOOLEAN :
          worker' = [worker EXCEPT !.found = f,
                       !.node = IF f THEN "fetch_edges" ELSE "lexical_fallback"]
    BY <1>6 DEF VectorSearchNode
  <2>2. worker.id \in Ids
    BY <1>2, <1>6 DEF VectorSearchNode, SearchNodes
  <2>3. /\ worker' \in [job : {"search", "run", "none"}, id : Ids \cup {NULL},
                        node : SearchNodes \cup {"research", NULL},
                        found : BOOLEAN]
        /\ worker'.id \in Ids
    BY <1>2, <2>1, <2>2 DEF SearchNodes
  <2> QED
    BY <1>0, <1>1, <1>6, <2>3 DEF VectorSearchNode, Typed, WorkerTyped
<1>7. CASE LexicalFallbackNode
  <2>1. PICK f \in BOOLEAN :
          /\ worker' = [worker EXCEPT !.found = f, !.node = "fetch_edges"]
          /\ scanned' = IF f THEN scanned ELSE scanned \cup {worker.id}
    BY <1>7 DEF LexicalFallbackNode
  <2>2. worker.id \in Ids
    BY <1>2, <1>7 DEF LexicalFallbackNode, SearchNodes
  <2>3. /\ worker' \in [job : {"search", "run", "none"}, id : Ids \cup {NULL},
                        node : SearchNodes \cup {"research", NULL},
                        found : BOOLEAN]
        /\ worker'.id \in Ids
    BY <1>2, <2>1, <2>2 DEF SearchNodes
  <2> QED
    BY <1>0, <1>1, <1>7, <2>1, <2>2, <2>3
       DEF LexicalFallbackNode, Typed, WorkerTyped
<1>8. CASE FetchEdgesNode \/ SearchGraphRaises
  <2>1. worker.id \in Ids
    BY <1>2, <1>8 DEF FetchEdgesNode, SearchGraphRaises, SearchNodes
  <2>2. PICK answer \in {"found", "nothing", "failed"} : Store(answer)
    BY <1>8 DEF FetchEdgesNode, SearchGraphRaises
  <2>3. /\ DOMAIN result' \subseteq Ids
        /\ \A id \in DOMAIN result' :
             result'[id] \in {"found", "nothing", "failed"}
    BY <2>1, <2>2 DEF Store, Typed, WorkerTyped
  <2> QED
    BY <1>1, <1>4, <2>2, <2>3 DEF Store, Typed
<1> QED
  BY <1>3, <1>5, <1>6, <1>7, <1>8 DEF Worker

(* Every step keeps the types.                                             *)
LEMMA StepTyped ==
  ASSUME Typed, [Next]_vars
  PROVE  Typed'
<1>1. CASE UNCHANGED vars
  BY <1>1 DEF vars, toolVars, workerVars, Typed, TurnTyped, DataTyped,
       WorkerTyped, Ids
<1>2. CASE Worker
  BY <1>2, WorkerStepTyped
<1>3. CASE Answering
  <2>1. TurnTyped' /\ DataTyped'
    BY <1>3, AnsweringIs, AnswerTyped
  <2>2. CASE queue' = queue
    BY <1>3, <2>1, <2>2, AnsweringIs, WorkerStays DEF Typed
  <2>3. CASE EnqueueRun
    <3> PICK j : j = [job |-> "run", id |-> nextId - 1]
      OBVIOUS
    <3>1. /\ queue' = Append(queue, j)
          /\ UNCHANGED <<nextId, worker, result, scanned>> /\ Ids' = Ids
      BY <2>3 DEF EnqueueRun, Ids
    <3>2. j \in [job : {"search", "run"}, id : Ids]
      BY <2>3 DEF EnqueueRun, Typed, TurnTyped
    <3>3. queue' \in Seq([job : {"search", "run"}, id : Ids])
      BY <3>1, <3>2 DEF Typed, WorkerTyped
    <3> QED
      BY <2>1, <3>1, <3>3 DEF Typed, WorkerTyped
  <2> QED
    BY <1>3, <2>2, <2>3, AnsweringIs
<1>4. CASE TurnStep
  <2>1. TurnTyped' /\ DataTyped'
    BY <1>4, TurnStepTyped
  <2>2. CASE EnqueueSearch
    <3> PICK j : j = [job |-> "search", id |-> nextId]
      OBVIOUS
    <3>0. /\ nextId' = nextId + 1 /\ queue' = Append(queue, j)
          /\ UNCHANGED <<worker, result, scanned>>
      BY <2>2 DEF EnqueueSearch
    <3>1. Ids \subseteq Ids' /\ j.id \in Ids'
      BY <3>0, IdsGrow DEF Typed, TurnTyped
    <3> PICK S, T : /\ S = [job : {"search", "run"}, id : Ids]
                    /\ T = [job : {"search", "run"}, id : Ids']
      OBVIOUS
    <3>2. S \subseteq T /\ j \in T /\ queue \in Seq(S)
      BY <3>1 DEF Typed, WorkerTyped
    <3>3. queue \in Seq(T)
      BY <3>2, SeqMonotonic
    <3>4. queue' \in Seq(T)
      BY <3>0, <3>2, <3>3
    <3>5. WorkerTyped'
      BY <3>0, <3>1, <3>4 DEF Typed, WorkerTyped
    <3> QED
      BY <2>1, <3>5 DEF Typed
  <2>3. CASE ~EnqueueSearch
    <3>1. /\ UNCHANGED <<queue, worker, result, scanned>>
          /\ nextId' \in {nextId, nextId + 1}
      BY <1>4, <2>3 DEF TurnStep, StartTurn, Decide, DecideFails, InsertRun,
           LaunchRaises, AppendMessage, Reply, workerVars
    <3> QED
      BY <2>1, <3>1, WorkerStays DEF Typed
  <2> QED
    BY <2>2, <2>3
<1> QED
  BY <1>1, <1>2, <1>3, <1>4 DEF Next, Progress, Failure, Answering, TurnStep

-----------------------------------------------------------------------------
(* The pairing of calls and results, on any history.                       *)

\* A result for the open turn leaves one call less to do.
LEMMA ResultAppended ==
  ASSUME NEW S, NEW h \in Seq(S), NEW e \in S, e.role = "tool",
         NEW left \in Nat, NEW o, Open(h, left + 1, o),
         \A i \in DOMAIN h : h[i].calls \in Nat
  PROVE  Open(Append(h, e), left, o)
<1> PICK g : g = Append(h, e)
  OBVIOUS
<1>1. /\ g \in Seq(S) /\ Len(g) = Len(h) + 1 /\ Len(h) \in Nat
      /\ \A i \in 1..Len(h) : g[i] = h[i]
      /\ g[Len(h) + 1] = e
      /\ DOMAIN h = 1..Len(h) /\ DOMAIN g = 1..(Len(h) + 1)
  BY AppendProperties
<1>2. /\ o \in 1..Len(h) /\ h[o].role = "assistant"
      /\ \A k \in (o + 1)..Len(h) : h[k].role = "tool"
      /\ Len(h) + left + 1 = o + h[o].calls
  BY <1>1 DEF Open
<1>3. ASSUME NEW k \in (o + 1)..Len(g) PROVE g[k].role = "tool"
  <2>1. k = Len(h) + 1 \/ k \in (o + 1)..Len(h)
    BY <1>1, <1>2
  <2>2. k \in (o + 1)..Len(h) => k \in 1..Len(h)
    BY <1>1, <1>2
  <2> QED
    BY <1>1, <1>2, <2>1, <2>2
<1>4. ASSUME NEW i \in DOMAIN g \ {o}, g[i].role = "assistant"
      PROVE  Answered(g, i)
  <2>1. i \in 1..Len(h) /\ g[i] = h[i]
    BY <1>1, <1>4
  <2>2. Answered(h, i) /\ i < o
    BY <1>1, <1>2, <1>4, <2>1 DEF Open, AllAnswered
  <2> PICK n \in Nat : n = h[i].calls
    BY <1>1, <2>1
  <2>3. i + n < o
    <3>1. i + n <= Len(h) /\ \A k \in (i + 1)..(i + n) : h[k].role = "tool"
      BY <2>2 DEF Answered
    <3>2. o \notin (i + 1)..(i + n)
      BY <1>2, <3>1
    <3> QED
      BY <1>2, <2>1, <2>2, <3>2
  <2>4. /\ \A k \in (i + 1)..(i + n) : g[k].role = "tool"
        /\ g[i + n + 1].role = "assistant" /\ i + n <= Len(g)
    <3>1. /\ \A k \in (i + 1)..(i + n) : h[k].role = "tool" /\ k \in 1..Len(h)
          /\ i + n < Len(h) /\ h[i + n + 1].role = "assistant"
      BY <1>1, <1>2, <2>1, <2>2, <2>3 DEF Answered
    <3> QED
      BY <1>1, <2>1, <3>1, SMTT(30)
  <2> QED
    BY <2>1, <2>4 DEF Answered
<1>5. g[o] = h[o] /\ o \in DOMAIN g
  BY <1>1, <1>2
<1>6. Len(g) + left = o + g[o].calls
  BY <1>1, <1>2, <1>5
<1> QED
  BY <1>2, <1>3, <1>4, <1>5, <1>6 DEF Open, AllAnswered

\* With no call left every turn is answered.
LEMMA NothingOpen ==
  ASSUME NEW S, NEW h \in Seq(S), NEW o, Open(h, 0, o),
         \A i \in DOMAIN h : h[i].calls \in Nat
  PROVE  AllAnswered(h, {})
<1>1. Answered(h, o)
  <2>1. o \in 1..Len(h) /\ Len(h) \in Nat /\ h[o].calls \in Nat
    BY LenProperties DEF Open
  <2> PICK n \in Nat : n = h[o].calls
    BY <2>1
  <2>2. Len(h) = o + n /\ \A k \in (o + 1)..Len(h) : h[k].role = "tool"
    BY <2>1 DEF Open
  <2>3. /\ o + n <= Len(h) /\ ~(o + n < Len(h))
        /\ \A k \in (o + 1)..(o + n) : h[k].role = "tool"
    BY <2>1, <2>2
  <2> QED
    BY <2>3 DEF Answered
<1> QED
  BY <1>1 DEF Open, AllAnswered

\* The end of an answered turn is before the end of the history, or is it.
LEMMA BelowOrAt ==
  ASSUME NEW i \in Nat, NEW m \in Nat, NEW last \in Nat, i + m <= last
  PROVE  i + m < last \/ i + m = last
OBVIOUS

\* A decision opens a turn behind answered ones.
LEMMA CallsAppended ==
  ASSUME NEW S, NEW h \in Seq(S), NEW e \in S, e.role = "assistant",
         NEW n \in Nat \ {0}, e.calls = n, AllAnswered(h, {}),
         \A i \in DOMAIN h : h[i].calls \in Nat
  PROVE  Open(Append(h, e), n, Len(h) + 1)
<1> PICK g : g = Append(h, e)
  OBVIOUS
<1>1. /\ g \in Seq(S) /\ Len(g) = Len(h) + 1 /\ Len(h) \in Nat
      /\ \A i \in 1..Len(h) : g[i] = h[i]
      /\ g[Len(h) + 1] = e
      /\ DOMAIN h = 1..Len(h) /\ DOMAIN g = 1..(Len(h) + 1)
  BY AppendProperties
<1>2. ASSUME NEW i \in DOMAIN g \ {Len(h) + 1}, g[i].role = "assistant"
      PROVE  Answered(g, i)
  <2>1. i \in 1..Len(h) /\ g[i] = h[i]
    BY <1>1
  <2>2. Answered(h, i)
    BY <1>1, <1>2, <2>1 DEF AllAnswered
  <2> PICK m \in Nat : m = h[i].calls
    BY <1>1, <2>1
  <2>3. /\ i + m <= Len(h)
        /\ \A k \in (i + 1)..(i + m) : h[k].role = "tool" /\ k \in 1..Len(h)
        /\ i + m < Len(h) => h[i + m + 1].role = "assistant"
    BY <1>1, <2>1, <2>2 DEF Answered
  <2>4. g[i + m + 1].role = "assistant"
    <3>1. CASE i + m < Len(h)
      <4>1. i + m + 1 \in 1..Len(h)
        BY <1>1, <2>1, <3>1
      <4> QED
        BY <1>1, <2>3, <3>1, <4>1
    <3>2. CASE i + m = Len(h)
      BY <1>1, <3>2
    <3>3. i + m < Len(h) \/ i + m = Len(h)
      BY <1>1, <2>1, <2>3, BelowOrAt
    <3> QED
      BY <3>1, <3>2, <3>3
  <2>5. \A k \in (i + 1)..(i + m) : g[k].role = "tool"
    BY <1>1, <2>3
  <2> QED
    BY <1>1, <2>1, <2>3, <2>4, <2>5 DEF Answered
<1> PICK o : o = Len(h) + 1
  OBVIOUS
<1>3. \A k \in (o + 1)..Len(g) : g[k].role = "tool"
  BY <1>1
<1>4. /\ o \in DOMAIN g /\ g[o].role = "assistant"
      /\ Len(g) + n = o + g[o].calls
  BY <1>1
<1> QED
  BY <1>2, <1>3, <1>4 DEF Open, AllAnswered

(* Every step keeps the pairing.                                           *)
LEMMA StepPaired ==
  ASSUME Typed, HistoryInv, [Next]_vars
  PROVE  HistoryInv'
<1> PICK S : S = Entries(Ids)
  OBVIOUS
<1>0. /\ history \in Seq(S) /\ \A e \in S : e.calls \in Nat
      /\ \A i \in DOMAIN history : history[i].calls \in Nat
  <2>1. history \in Seq(S)
    BY DEF Typed, DataTyped
  <2>2. \A e \in S : e.calls \in Nat
    BY BoundsAssumption DEF Entries
  <2> QED
    BY <2>1, <2>2, ElementOfSeq, LenProperties
<1>1. CASE UNCHANGED <<pc, todo, history>>
  BY <1>1 DEF HistoryInv, AllAnswered, Answered, Open
<1>2. CASE Answering
  <2>1. PICK note \in Notes, id \in Ids \cup {NULL},
             cards \in SUBSET [tool : {"search", "launch"}, id : Ids],
             l \in BOOLEAN : Answer(note, id, cards, l)
    BY <1>2, AnsweringIs
  <2> PICK e : e = Told(note, id)
    OBVIOUS
  <2>2. e \in S /\ e.role = "tool" /\ history' = Append(history, e)
    BY <2>1, BoundsAssumption DEF Told, Entries, Answer
  <2>3. pc \in Calling /\ todo \in Seq(Tools) /\ todo # <<>>
    BY <1>2, AnsweringIs DEF Typed, TurnTyped
  <2>4. PICK left \in Nat : /\ Len(todo) = left + 1 /\ Len(todo') = left
                            /\ pc' \in {"call", "reply", "decide"}
                            /\ pc' = "call" <=> left # 0
    <3>1. /\ Len(todo) \in Nat \ {0} /\ Len(todo') = Len(todo) - 1
          /\ pc' \in {"call", "reply", "decide"}
          /\ pc' = "call" <=> Len(todo) # 1
      BY <2>1, <2>3, HeadTailProperties, EmptySeq DEF Answer, AfterRound
    <3> PICK n \in Nat : n = Len(todo) - 1
      BY <3>1
    <3>2. Len(todo) = n + 1 /\ Len(todo') = n /\ (n # 0 <=> Len(todo) # 1)
      BY <3>1
    <3> QED
      BY <3>1, <3>2
  <2>5. PICK o \in DOMAIN history : Open(history, left + 1, o)
    BY <2>3, <2>4 DEF HistoryInv
  <2>6. Open(history', left, o) /\ history' \in Seq(S)
    BY <1>0, <2>2, <2>5, ResultAppended
  <2>7. \A i \in DOMAIN history' : history'[i].calls \in Nat
    BY <1>0, <2>6, ElementOfSeq, LenProperties
  <2>8. CASE left = 0
    <3>1. AllAnswered(history', {})
      BY <2>6, <2>7, <2>8, NothingOpen
    <3> QED
      BY <2>4, <2>8, <3>1 DEF HistoryInv, Calling, AllAnswered, Answered
  <2>9. CASE left # 0
    <3>1. o \in DOMAIN history' /\ pc' = "call" /\ Len(todo') = left
      BY <2>4, <2>6, <2>9 DEF Open
    <3>2. \E i \in DOMAIN history' : Open(history', Len(todo'), i)
      BY <2>6, <3>1
    <3> QED
      BY <3>1, <3>2 DEF HistoryInv, Calling, Open, AllAnswered, Answered
  <2> QED
    BY <2>8, <2>9
<1>3. CASE Decide
  <2>0. AllAnswered(history, {})
    BY <1>3 DEF Decide, HistoryInv
  <2>1. CASE pc' = "reply"
    <3>1. UNCHANGED history
      BY <1>3, <2>1 DEF Decide
    <3> QED
      BY <2>0, <2>1, <3>1 DEF HistoryInv, Calling, AllAnswered, Answered
  <2>2. CASE pc' # "reply"
    <3>1. PICK calls \in Decisions :
            /\ pc' = "call" /\ todo' = calls
            /\ history' = Append(history, Called(Len(calls)))
      BY <1>3, <2>2 DEF Decide
    <3> PICK n \in Nat \ {0} : n = Len(calls) /\ n \in 1..MaxCalls
      BY DecisionIs, BoundsAssumption
    <3> PICK e : e = Called(n)
      OBVIOUS
    <3>2. /\ e \in S /\ e.role = "assistant" /\ e.calls = n
          /\ history' = Append(history, e)
      BY <3>1, BoundsAssumption DEF Called, Entries
    <3>3. Open(history', Len(todo'), Len(history) + 1)
      BY <1>0, <2>0, <3>1, <3>2, CallsAppended
    <3>4. Len(history) + 1 \in DOMAIN history'
      BY <3>3 DEF Open
    <3>5. \E o \in DOMAIN history' : Open(history', Len(todo'), o)
      BY <3>3, <3>4
    <3> QED
      BY <3>1, <3>5 DEF HistoryInv, Open, AllAnswered, Answered
  <2> QED
    BY <2>1, <2>2
<1>4. CASE StartTurn
  <2>1. history' = <<>> /\ pc' \in {"decide", "reply"}
    BY <1>4 DEF StartTurn, AfterRound
  <2>2. DOMAIN history' = {}
    BY <2>1
  <2> QED
    BY <2>1, <2>2 DEF HistoryInv, Calling, AllAnswered
<1>5. CASE DecideFails \/ LaunchRaises \/ Reply
  <2>1. pc' = "idle"
    BY <1>5 DEF DecideFails, LaunchRaises, Reply
  <2> QED
    BY <2>1 DEF HistoryInv, Calling
<1>6. CASE EnqueueSearch \/ InsertRun
  <2>1. pc \in Calling /\ pc' \in Calling /\ UNCHANGED <<todo, history>>
    BY <1>6 DEF EnqueueSearch, InsertRun, toolVars, Calling
  <2>2. \E o \in DOMAIN history : Open(history, Len(todo), o)
    BY <2>1 DEF HistoryInv
  <2>3. \E o \in DOMAIN history' : Open(history', Len(todo'), o)
    BY <2>1, <2>2
  <2> QED
    BY <2>1, <2>3 DEF HistoryInv, Calling, Open, AllAnswered, Answered
<1>7. Worker \/ AppendMessage \/ UNCHANGED vars =>
        UNCHANGED <<pc, todo, history>>
  BY DEF Worker, Receive, WorkerDrops, VectorSearchNode, LexicalFallbackNode,
       FetchEdgesNode, SearchGraphRaises, Store, AppendMessage, toolVars, vars
<1> QED
  BY <1>1, <1>2, <1>3, <1>4, <1>5, <1>6, <1>7
     DEF Next, Progress, Failure, Answering

-----------------------------------------------------------------------------
\* A card more, or a card of a search, among the cards of launched runs.
LEMMA CardAdded ==
  ASSUME NEW cards, NEW id
  PROVE  /\ Launches(cards \cup {Card("launch", id)}) =
              Launches(cards) \cup {id}
         /\ Launches(cards \cup {Card("search", id)}) = Launches(cards)
<1> PICK a, b : a = Card("launch", id) /\ b = Card("search", id)
  OBVIOUS
<1>1. a.tool = "launch" /\ a.id = id /\ b.tool # "launch"
  BY DEF Card
<1>2. Launches(cards \cup {a}) = Launches(cards) \cup {id}
  BY <1>1 DEF Launches
<1>3. Launches(cards \cup {b}) = Launches(cards)
  BY <1>1 DEF Launches
<1> QED
  BY <1>2, <1>3

(* Every step keeps the cards up with the runs.                            *)
LEMMA StepShown ==
  ASSUME Typed, LaunchInv, [Next]_vars
  PROVE  LaunchInv'
<1> USE DEF Calling
<1>1. CASE UNCHANGED <<turn, pc, launched, parts, message, ended, runs, nextId>>
  BY <1>1 DEF LaunchInv, Launches, TurnRuns, RunsOfTurn
<1>2. CASE CallUnusable \/ SearchRaises \/ SearchAnswered \/ SearchTimesOut
  <2>1. /\ pc \in {"call", "waiting"} /\ launched' = launched
        /\ pc' \in {"call", "reply", "decide"}
        /\ pc' = "decide" => ~launched
        /\ UNCHANGED <<turn, message, ended, runs, nextId>>
    BY <1>2 DEF CallUnusable, SearchRaises, SearchAnswered, SearchTimesOut,
         Answer, AfterRound, Typed, TurnTyped
  <2>2. parts' = parts \/ \E id : parts' = parts \cup {Card("search", id)}
    BY <1>2 DEF CallUnusable, SearchRaises, SearchAnswered, SearchTimesOut,
         Answer
  <2>3. Launches(parts') = Launches(parts) /\ RunsOfTurn' = RunsOfTurn
    BY <2>1, <2>2, CardAdded, ZenonT(60) DEF RunsOfTurn
  <2>4. /\ Launches(parts) = TurnRuns /\ message = NULL /\ ended = NULL
        /\ ~launched => RunsOfTurn = {}
    BY <2>1 DEF LaunchInv
  <2>5. Launches(parts)' = TurnRuns'
    BY <2>3, <2>4 DEF TurnRuns, Launches
  <2> QED
    BY <2>1, <2>3, <2>4, <2>5 DEF LaunchInv
<1>3. CASE EnqueueRun
  <2>1. /\ pc = "launching" /\ launched'
        /\ pc' \in {"call", "reply"}
        /\ parts' = parts \cup {Card("launch", nextId - 1)}
        /\ UNCHANGED <<turn, message, ended, runs, nextId>>
    BY <1>3 DEF EnqueueRun, Answer, AfterRound
  <2>2. Launches(parts') = Launches(parts) \cup {nextId - 1}
    BY <2>1, CardAdded
  <2>3. /\ TurnRuns = Launches(parts) \cup {nextId - 1} /\ message = NULL
        /\ ended = NULL
    BY <2>1 DEF LaunchInv
  <2>4. RunsOfTurn' = RunsOfTurn
    BY <2>1 DEF RunsOfTurn
  <2>5. Launches(parts)' = TurnRuns'
    BY <2>2, <2>3, <2>4 DEF TurnRuns, Launches
  <2> QED
    BY <2>1, <2>3, <2>5, NullAssumption DEF LaunchInv
<1>4. CASE InsertRun
  <2> PICK r : r = [id |-> nextId, turn |-> turn]
    OBVIOUS
  <2>1. /\ pc = "call" /\ pc' = "launching" /\ runs' = runs \cup {r}
        /\ nextId' - 1 = nextId /\ r.id = nextId /\ r.turn = turn
        /\ UNCHANGED <<turn, launched, parts, message, ended>>
    BY <1>4 DEF InsertRun, toolVars, Typed, TurnTyped
  <2>2. Launches(parts) = TurnRuns /\ message = NULL /\ ended = NULL
    BY <2>1 DEF LaunchInv
  <2>3. RunsOfTurn' = RunsOfTurn \cup {r}
    BY <2>1 DEF RunsOfTurn
  <2>4. TurnRuns' = TurnRuns \cup {nextId}
    BY <2>1, <2>3 DEF TurnRuns
  <2>5. Launches(parts)' = Launches(parts)
    BY <2>1 DEF Launches
  <2> QED
    BY <2>1, <2>2, <2>4, <2>5, NullAssumption DEF LaunchInv
<1>5. CASE StartTurn
  <2>1. /\ turn' = turn + 1 /\ parts' = {} /\ message' = NULL /\ ended' = NULL
        /\ runs' = runs /\ pc' \in {"decide", "reply"}
    BY <1>5 DEF StartTurn, AfterRound
  <2>2. RunsOfTurn' = {}
    <3>1. \A r \in runs : r.turn \in 1..turn
      BY DEF Typed, DataTyped
    <3>2. turn \in Nat /\ \A i \in 1..turn : i # turn + 1
      BY BoundsAssumption DEF Typed, TurnTyped
    <3> QED
      BY <2>1, <3>1, <3>2 DEF RunsOfTurn
  <2>3. Launches(parts)' = {} /\ TurnRuns' = {}
    BY <2>1, <2>2 DEF Launches, TurnRuns
  <2> QED
    BY <2>1, <2>2, <2>3, NullAssumption DEF LaunchInv
<1>6. CASE Decide
  <2>1. /\ pc = "decide" /\ pc' \in {"reply", "call"}
        /\ UNCHANGED <<turn, parts, message, ended, runs, nextId>>
    BY <1>6 DEF Decide
  <2>2. UNCHANGED <<RunsOfTurn, TurnRuns, Launches(parts)>>
    BY <2>1 DEF RunsOfTurn, TurnRuns, Launches
  <2> QED
    BY <2>1, <2>2 DEF LaunchInv
<1>7. CASE DecideFails \/ LaunchRaises
  <2>1. /\ pc # "idle" /\ pc # "reply" /\ pc' = "idle"
        /\ UNCHANGED <<turn, parts, message, runs, nextId>>
        /\ \/ pc = "decide" /\ ended' = "no_model"
           \/ ended' = "launch_failed"
    BY <1>7 DEF DecideFails, LaunchRaises, toolVars
  <2>2. UNCHANGED <<RunsOfTurn, TurnRuns, Launches(parts)>>
    BY <2>1 DEF RunsOfTurn, TurnRuns, Launches
  <2> QED
    BY <2>1, <2>2 DEF LaunchInv
<1>8. CASE AppendMessage
  <2>1. /\ pc = "reply" /\ message' = parts
        /\ UNCHANGED <<turn, pc, launched, parts, ended, runs, nextId>>
    BY <1>8 DEF AppendMessage, toolVars
  <2>2. UNCHANGED <<RunsOfTurn, TurnRuns, Launches(parts)>>
    BY <2>1 DEF RunsOfTurn, TurnRuns, Launches
  <2> QED
    BY <2>1, <2>2 DEF LaunchInv
<1>9. CASE Reply
  <2>1. /\ pc = "reply" /\ pc' = "idle" /\ ended' \in {"replied", "cut"}
        /\ UNCHANGED <<turn, parts, message, runs, nextId>>
    BY <1>9 DEF Reply, toolVars
  <2>2. UNCHANGED <<RunsOfTurn, TurnRuns, Launches(parts)>>
    BY <2>1 DEF RunsOfTurn, TurnRuns, Launches
  <2> QED
    BY <2>1, <2>2 DEF LaunchInv
<1>10. CASE EnqueueSearch
  <2>1. /\ pc = "call" /\ pc' = "waiting"
        /\ UNCHANGED <<turn, launched, parts, message, ended, runs>>
    BY <1>10 DEF EnqueueSearch, toolVars
  <2>2. UNCHANGED <<RunsOfTurn, TurnRuns, Launches(parts)>>
    BY <2>1 DEF RunsOfTurn, TurnRuns, Launches
  <2> QED
    BY <2>1, <2>2 DEF LaunchInv
<1>11. Worker \/ UNCHANGED vars =>
         UNCHANGED <<turn, pc, launched, parts, message, ended, runs, nextId>>
  BY DEF Worker, Receive, WorkerDrops, VectorSearchNode, LexicalFallbackNode,
       FetchEdgesNode, SearchGraphRaises, Store, toolVars, vars
<1> QED
  BY <1>1, <1>2, <1>3, <1>4, <1>5, <1>6, <1>7, <1>8, <1>9, <1>10, <1>11
     DEF Next, Progress, Failure

-----------------------------------------------------------------------------
(* Every step keeps the answers "nothing" backed by a scan.                *)
LEMMA StepSearched ==
  ASSUME Typed, SearchInv, [Next]_vars
  PROVE  SearchInv'
<1> PICK S : S = Entries(Ids)
  OBVIOUS
<1>0. /\ history \in Seq(S)
      /\ worker \in [job : {"search", "run", "none"}, id : Ids \cup {NULL},
                     node : SearchNodes \cup {"research", NULL},
                     found : BOOLEAN]
  BY DEF Typed, DataTyped, WorkerTyped
<1>1. CASE UNCHANGED <<history, worker, result, scanned>>
  BY <1>1 DEF SearchInv, NothingMeansSearched
<1>2. CASE Answering
  <2>1. PICK note \in Notes, id \in Ids \cup {NULL},
             cards \in SUBSET [tool : {"search", "launch"}, id : Ids],
             l \in BOOLEAN :
          Answer(note, id, cards, l) /\ (note = "nothing" => id \in scanned)
    <3> USE DEF Notes
    <3>1. CASE CallUnusable \/ SearchRaises
      BY <3>1 DEF CallUnusable, SearchRaises
    <3>2. CASE SearchAnswered
      <4>1. /\ waiting \in Ids /\ result[waiting] \in Notes
            /\ {Card("search", waiting)} \subseteq
                 [tool : {"search", "launch"}, id : Ids]
            /\ result[waiting] = "nothing" => waiting \in scanned
        BY <3>2 DEF SearchAnswered, Typed, TurnTyped, WorkerTyped, Card,
             SearchInv
      <4>2. Answer(result[waiting], waiting, {Card("search", waiting)}, FALSE)
        BY <3>2 DEF SearchAnswered
      <4> QED
        BY <4>1, <4>2
    <3>3. CASE SearchTimesOut
      <4>1. /\ waiting \in Ids
            /\ {Card("search", waiting)} \subseteq
                 [tool : {"search", "launch"}, id : Ids]
        BY <3>3 DEF SearchTimesOut, Typed, TurnTyped, Card
      <4>2. Answer("timed_out", waiting, {Card("search", waiting)}, FALSE)
        BY <3>3 DEF SearchTimesOut
      <4> QED
        BY <4>1, <4>2
    <3>4. CASE EnqueueRun
      <4>1. /\ nextId - 1 \in Ids
            /\ {Card("launch", nextId - 1)} \subseteq
                 [tool : {"search", "launch"}, id : Ids]
        BY <3>4 DEF EnqueueRun, Typed, TurnTyped, Card
      <4>2. Answer("launched", nextId - 1, {Card("launch", nextId - 1)}, TRUE)
        BY <3>4 DEF EnqueueRun
      <4> QED
        BY <4>1, <4>2
    <3> QED
      BY <1>2, <3>1, <3>2, <3>3, <3>4 DEF Answering
  <2> PICK e : e = Told(note, id)
    OBVIOUS
  <2>2. /\ e \in S /\ e.note = note /\ e.id = id
        /\ history' = Append(history, e)
    BY <2>1, BoundsAssumption DEF Told, Entries, Answer
  <2>3. UNCHANGED <<worker, result, scanned>>
    BY <1>2, AnsweringIs
  <2>4. NothingMeansSearched'
    BY <1>0, <2>1, <2>2, <2>3, AppendProperties
       DEF SearchInv, NothingMeansSearched
  <2> QED
    BY <2>3, <2>4 DEF SearchInv
<1>3. CASE Decide
  <2>1. UNCHANGED <<worker, result, scanned>>
    BY <1>3 DEF Decide, workerVars
  <2>2. CASE history' = history
    BY <2>1, <2>2 DEF SearchInv, NothingMeansSearched
  <2>3. CASE history' # history
    <3>1. PICK calls \in Decisions :
            history' = Append(history, Called(Len(calls)))
      BY <1>3, <2>3 DEF Decide
    <3> PICK e : e = Called(Len(calls))
      OBVIOUS
    <3>2. e \in S /\ e.note # "nothing" /\ history' = Append(history, e)
      BY <3>1, DecisionIs, BoundsAssumption, NullAssumption
         DEF Called, Entries
    <3>3. NothingMeansSearched'
      BY <1>0, <2>1, <3>2, AppendProperties DEF SearchInv, NothingMeansSearched
    <3> QED
      BY <2>1, <3>3 DEF SearchInv
  <2> QED
    BY <2>2, <2>3
<1>4. CASE StartTurn
  <2>1. history' = <<>> /\ UNCHANGED <<worker, result, scanned>>
    BY <1>4 DEF StartTurn, workerVars
  <2>2. DOMAIN history' = {}
    BY <2>1
  <2> QED
    BY <2>1, <2>2 DEF SearchInv, NothingMeansSearched
<1>5. CASE Receive \/ WorkerDrops
  <2>1. worker'.node # "fetch_edges"
    BY <1>5, NullAssumption DEF Receive, WorkerDrops, Idle
  <2>2. UNCHANGED <<history, result, scanned>>
    BY <1>5 DEF Receive, WorkerDrops, toolVars
  <2> QED
    BY <2>1, <2>2 DEF SearchInv, NothingMeansSearched
<1>6. CASE VectorSearchNode
  <2>1. worker'.node = "fetch_edges" => worker'.found
    BY <1>0, <1>6 DEF VectorSearchNode
  <2>2. UNCHANGED <<history, result, scanned>>
    BY <1>6 DEF VectorSearchNode, toolVars
  <2> QED
    BY <2>1, <2>2 DEF SearchInv, NothingMeansSearched
<1>7. CASE LexicalFallbackNode
  <2>1. PICK f \in BOOLEAN :
          /\ worker' = [worker EXCEPT !.found = f, !.node = "fetch_edges"]
          /\ scanned' = IF f THEN scanned ELSE scanned \cup {worker.id}
    BY <1>7 DEF LexicalFallbackNode
  <2>2. worker'.found = f /\ worker'.id = worker.id
    BY <1>0, <2>1
  <2>3. UNCHANGED <<history, result>> /\ scanned \subseteq scanned'
    BY <1>7, <2>1 DEF LexicalFallbackNode, toolVars
  <2> QED
    BY <2>1, <2>2, <2>3 DEF SearchInv, NothingMeansSearched
<1>8. CASE FetchEdgesNode \/ SearchGraphRaises
  <2>1. PICK answer : /\ Store(answer)
                      /\ answer = "nothing" => /\ worker.node = "fetch_edges"
                                               /\ ~worker.found
    BY <1>8 DEF FetchEdgesNode, SearchGraphRaises
  <2>2. answer = "nothing" => worker.id \in scanned
    BY <2>1 DEF SearchInv
  <2>3. worker'.node # "fetch_edges"
    BY <2>1, NullAssumption DEF Store, Idle
  <2>4. \A id \in DOMAIN result' : result'[id] = "nothing" => id \in scanned
    BY <2>1, <2>2 DEF Store, SearchInv
  <2> QED
    BY <2>1, <2>3, <2>4 DEF Store, toolVars, SearchInv, NothingMeansSearched
<1>9. EnqueueSearch \/ InsertRun \/ DecideFails \/ LaunchRaises \/ AppendMessage
        \/ Reply \/ UNCHANGED vars =>
      UNCHANGED <<history, worker, result, scanned>>
  BY DEF EnqueueSearch, InsertRun, DecideFails, LaunchRaises, AppendMessage,
       Reply, toolVars, workerVars, vars
<1> QED
  BY <1>1, <1>2, <1>3, <1>4, <1>5, <1>6, <1>7, <1>8, <1>9
     DEF Next, Progress, Failure, Answering, Worker

-----------------------------------------------------------------------------
(* The invariant of the chat, for any bounds.                              *)
THEOREM ChatInvariant == Spec => []ChatInv
<1>1. Init => ChatInv
  <2> SUFFICES ASSUME Init PROVE ChatInv
    OBVIOUS
  <2>1. TurnTyped
    <3>1. 0 \in 0..MaxTurns /\ 0 \in 0..MaxRounds /\ <<>> \in Seq(Tools)
      BY BoundsAssumption, EmptySeq
    <3>2. /\ turn = 0 /\ pc = "idle" /\ rounds = 0 /\ todo = <<>>
          /\ launched = FALSE /\ ended = NULL /\ nextId = 1 /\ waiting = NULL
      BY DEF Init
    <3>3. pc \notin Calling /\ pc \notin {"decide", "waiting", "launching"}
      BY <3>2 DEF Calling
    <3>4. /\ turn \in 0..MaxTurns /\ rounds \in 0..MaxRounds
          /\ todo \in Seq(Tools) /\ launched \in BOOLEAN
      BY <3>1, <3>2
    <3>5. nextId \in Nat \ {0}
      BY <3>2
    <3> QED
      BY <3>2, <3>3, <3>4, <3>5 DEF TurnTyped
  <2>2. DataTyped
    BY EmptySeq DEF Init, DataTyped
  <2>3. WorkerTyped
    <3>1. /\ Idle \in [job : {"search", "run", "none"}, id : Ids \cup {NULL},
                       node : SearchNodes \cup {"research", NULL},
                       found : BOOLEAN]
          /\ Idle.node \notin SearchNodes
      BY NullAssumption DEF Idle, SearchNodes
    <3>2. DOMAIN result = {}
      BY DEF Init
    <3> QED
      BY <3>1, <3>2, EmptySeq DEF Init, WorkerTyped
  <2>4. HistoryInv
    BY DEF Init, HistoryInv, Calling
  <2>5. LaunchInv
    BY NullAssumption DEF Init, LaunchInv
  <2>6. SearchInv
    <3>1. DOMAIN result = {} /\ DOMAIN history = {}
      BY DEF Init
    <3>2. worker.node # "fetch_edges"
      BY NullAssumption DEF Init, Idle
    <3> QED
      BY <3>1, <3>2 DEF SearchInv, NothingMeansSearched
  <2> QED
    BY <2>1, <2>2, <2>3, <2>4, <2>5, <2>6 DEF ChatInv, Typed
<1>2. ChatInv /\ [Next]_vars => ChatInv'
  BY StepTyped, StepPaired, StepShown, StepSearched DEF ChatInv
<1> QED
  BY <1>1, <1>2, PTL DEF Spec

(* Every variable keeps its type; a turn never takes more than             *)
(* chat_tool_call_max_rounds decisions.                                    *)
THEOREM TypeCorrect == Spec => []TypeOK
<1>1. ChatInv => TypeOK
  <2> SUFFICES ASSUME ChatInv PROVE TypeOK
    OBVIOUS
  <2>1. runs \subseteq [id : Ids, turn : 1..MaxTurns]
    <3>1. 1..turn \subseteq 1..MaxTurns
      BY BoundsAssumption DEF ChatInv, Typed, TurnTyped
    <3> QED
      BY <3>1 DEF ChatInv, Typed, DataTyped
  <2> QED
    BY <2>1 DEF ChatInv, Typed, TurnTyped, DataTyped, WorkerTyped, TypeOK,
         Calling, Entries
<1> QED
  BY <1>1, ChatInvariant, PTL

(* _resolve_tools: whenever the model is asked, each assistant turn with n *)
(* tool calls stands before its n results and nothing else, whatever the   *)
(* calls were and however they ended.                                      *)
THEOREM PairsAreKept == Spec => []HistoryIsPaired
<1>1. ChatInv => HistoryIsPaired
  <2> SUFFICES ASSUME ChatInv, pc \in {"decide", "reply"},
                      NEW i \in DOMAIN history, history[i].role = "assistant"
               PROVE  Answered(history, i)
    BY DEF HistoryIsPaired, Answered
  <2> QED
    BY DEF ChatInv, HistoryInv, AllAnswered
<1> QED
  BY <1>1, ChatInvariant, PTL

(* _run_launch: the cards of the assistant message name exactly the runs   *)
(* the turn started, and a turn without a model has started none.          *)
THEOREM CardsAreRuns == Spec => []LaunchesAreShown
<1>1. ChatInv => LaunchesAreShown
  <2> SUFFICES ASSUME ChatInv PROVE LaunchesAreShown
    OBVIOUS
  <2>1. LaunchInv
    BY DEF ChatInv
  <2> QED
    BY <2>1 DEF LaunchInv, LaunchesAreShown, LaunchCards, Launches, TurnRuns
<1> QED
  BY <1>1, ChatInvariant, PTL

(* format_search_result: "nothing" in the history is the answer of the     *)
(* very search it is about, and that search scanned the graph; no late,    *)
(* lost or failed answer is told as one.                                   *)
THEOREM NothingWasSearched == Spec => []NothingMeansSearched
<1>1. ChatInv => NothingMeansSearched
  BY DEF ChatInv, SearchInv
<1> QED
  BY <1>1, ChatInvariant, PTL
=============================================================================
