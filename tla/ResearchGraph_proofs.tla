-------------------------- MODULE ResearchGraph_proofs --------------------------
(***************************************************************************)
(* The safety properties of ResearchGraph for every set of urls and drafts *)
(* and every number of retries.  The invariant has a part per concern:     *)
(* StepsByNode counts, node by node, the supersteps the two retry loops    *)
(* can have spent before it; BranchesSplit follows the documents through   *)
(* the fan-out; VerdictsNoted the verdicts of the critic; EdgesResolve the *)
(* edges from one pruning to the next.                                     *)
(***************************************************************************)
EXTENDS ResearchGraph, TLAPS

\* The supersteps taken when node n is about to run are at most these.
StepsByNode ==
  LET s == SearchRetries
      c == CritiqueRetries
      sa == search_attempts
      ca == critique_attempts
  IN
  /\ node = "plan" => steps <= 0
  /\ node = "survey_graph" => steps <= 1
  /\ node = "search" => steps <= 2 + 2 * sa
  /\ node = "broaden_queries" => steps <= 3 + 2 * sa /\ sa < s
  /\ node = "fetch" => steps <= 3 + 2 * s
  /\ node = "analyze_one" => steps <= 4 + 2 * s
  /\ node = "synthesize" => steps <= 5 + 2 * s
  /\ node = "structure" => steps <= 6 + 2 * s + 2 * ca /\ ca <= c
  /\ node = "critique" => steps <= 7 + 2 * s + 2 * ca /\ ca <= c
  /\ node = "lookup" => steps <= 8 + 2 * s + 2 * c
  /\ node \in Stopped => steps <= 9 + 2 * s + 2 * c

\* Nothing is drafted before the graph drafts.
Researching == {"plan", "survey_graph", "search", "broaden_queries", "fetch",
                "analyze_one", "synthesize"}

EarlyStart == node \in Researching => critique_attempts = 0

\* Every document is in flight, noted or dropped, and only one of them.
BranchesSplit ==
  /\ branches \cap source_notes = {} /\ branches \cap dropped = {}
  /\ source_notes \cap dropped = {}
  /\ branches \cup source_notes \cup dropped = documents
  /\ node \notin {"analyze_one"} \cup Stopped => branches = {}
  /\ node \in Researching \cup {"failed"} => analysis = NULL
  /\ node \in {"plan", "survey_graph", "search", "broaden_queries", "fetch"}
       => documents = {}
  /\ node \in {"plan", "survey_graph", "search"} => search_hits = {}
  /\ node \notin {"plan", "survey_graph", "search", "broaden_queries", "fetch"}
       => \A u \in search_hits : u \in documents \/ Note("fetch", u) \in skipped
  /\ analysis # NULL => analysis = source_notes /\ branches = {}

VerdictsNoted ==
  LET sentBack == \A k \in 1..critique_attempts :
                    Note("critique", k) \in skipped
  IN
  /\ node \in {"structure", "critique"} => sentBack
  /\ RevisionsHonoured

EdgesResolve == DraftResolves

ResearchInv == TypeOK /\ StepsByNode /\ EarlyStart /\ BranchesSplit
                 /\ VerdictsNoted /\ EdgesResolve /\ RetriesUsedUp

-----------------------------------------------------------------------------

\* Pruning leaves typed drafts whose edges run between drafts and known ids:
\* _prune_dangling_edges after _dedupe_against_existing.
LEMMA PruneResolves ==
  ASSUME NEW d \in Drafts
  PROVE  LET p == Prune(Dedupe(d))
         IN  /\ p \in Drafts
             /\ \A edge \in p.edges :
                  /\ edge[1] \in p.entities \cup {Uuid}
                  /\ edge[2] \in p.entities \cup {Uuid}
  BY DEF Drafts, Dedupe, Prune, Refs

\* ResearchInv holds initially.
LEMMA InitInv == Init => ResearchInv
  BY LimitsAssumption
     DEF Init, ResearchInv, TypeOK, StepsByNode, EarlyStart, BranchesSplit,
         VerdictsNoted, RevisionsHonoured, EdgesResolve, DraftResolves,
         RetriesUsedUp, Nodes, Stopped, Researching, Drafts, NoDraft

\* PlanNode preserves ResearchInv, conjunct by conjunct.
LEMMA PlanNodePreserves == ResearchInv /\ PlanNode => ResearchInv'
<1> SUFFICES ASSUME ResearchInv, PlanNode PROVE ResearchInv'
  OBVIOUS
<1> USE LimitsAssumption
    DEF ResearchInv, PlanNode, Goto, searching, analysing, drafting
<1>1. TypeOK'
  BY DEF TypeOK, Nodes, Stopped
<1>2. StepsByNode'
  BY DEF TypeOK, StepsByNode, EarlyStart, Stopped
<1>3. EarlyStart'
  BY DEF EarlyStart, Researching
<1>4. BranchesSplit'
  BY DEF TypeOK, BranchesSplit, Researching, Stopped, Note, Noted
<1>5. VerdictsNoted'
  BY DEF TypeOK, StepsByNode, EarlyStart, VerdictsNoted, RevisionsHonoured,
         Researching, Note, Noted
<1>6. EdgesResolve'
  BY DEF EdgesResolve, DraftResolves
<1>7. RetriesUsedUp'
  BY DEF TypeOK, RetriesUsedUp
<1> QED
  BY <1>1, <1>2, <1>3, <1>4, <1>5, <1>6, <1>7

\* SurveyGraphNode preserves ResearchInv, conjunct by conjunct.
LEMMA SurveyGraphNodePreserves == ResearchInv /\ SurveyGraphNode => ResearchInv'
<1> SUFFICES ASSUME ResearchInv, SurveyGraphNode PROVE ResearchInv'
  OBVIOUS
<1> USE LimitsAssumption
    DEF ResearchInv, SurveyGraphNode, Goto, searching, analysing, drafting
<1>1. TypeOK'
  BY DEF TypeOK, Nodes, Stopped
<1>2. StepsByNode'
  BY DEF TypeOK, StepsByNode, EarlyStart, Stopped
<1>3. EarlyStart'
  BY DEF EarlyStart, Researching
<1>4. BranchesSplit'
  BY DEF TypeOK, BranchesSplit, Researching, Stopped, Note, Noted
<1>5. VerdictsNoted'
  BY DEF TypeOK, StepsByNode, EarlyStart, VerdictsNoted, RevisionsHonoured,
         Researching, Note, Noted
<1>6. EdgesResolve'
  BY DEF EdgesResolve, DraftResolves
<1>7. RetriesUsedUp'
  BY DEF TypeOK, RetriesUsedUp
<1> QED
  BY <1>1, <1>2, <1>3, <1>4, <1>5, <1>6, <1>7

\* SearchNode preserves ResearchInv, conjunct by conjunct.
LEMMA SearchNodePreserves == ResearchInv /\ SearchNode => ResearchInv'
<1> SUFFICES ASSUME ResearchInv, SearchNode PROVE ResearchInv'
  OBVIOUS
<1> USE LimitsAssumption
    DEF ResearchInv, SearchNode, Goto, RouteAfterSearch, analysing, drafting
<1>1. TypeOK'
  BY DEF TypeOK, BranchesSplit, Nodes, Stopped
<1>2. StepsByNode'
  BY DEF TypeOK, StepsByNode, EarlyStart, Stopped
<1>3. EarlyStart'
  BY DEF EarlyStart, Researching
<1>4. BranchesSplit'
  BY DEF TypeOK, BranchesSplit, Researching, Stopped, Note, Noted
<1>5. VerdictsNoted'
  BY DEF TypeOK, StepsByNode, EarlyStart, VerdictsNoted, RevisionsHonoured,
         Researching, Note, Noted
<1>6. EdgesResolve'
  BY DEF EdgesResolve, DraftResolves
<1>7. RetriesUsedUp'
  BY DEF TypeOK, RetriesUsedUp
<1> QED
  BY <1>1, <1>2, <1>3, <1>4, <1>5, <1>6, <1>7

\* BroadenQueriesNode preserves ResearchInv, conjunct by conjunct.
LEMMA BroadenQueriesNodePreserves == ResearchInv /\ BroadenQueriesNode => ResearchInv'
<1> SUFFICES ASSUME ResearchInv, BroadenQueriesNode PROVE ResearchInv'
  OBVIOUS
<1> USE LimitsAssumption
    DEF ResearchInv, BroadenQueriesNode, Goto, analysing, drafting
<1>1. TypeOK'
  BY DEF TypeOK, StepsByNode, Nodes, Stopped
<1>2. StepsByNode'
  BY DEF TypeOK, StepsByNode, EarlyStart, Stopped
<1>3. EarlyStart'
  BY DEF EarlyStart, Researching
<1>4. BranchesSplit'
  BY DEF TypeOK, BranchesSplit, RetriesUsedUp, Researching, Stopped, Note,
         Noted
<1>5. VerdictsNoted'
  BY DEF TypeOK, StepsByNode, EarlyStart, VerdictsNoted, RevisionsHonoured,
         Researching, Note, Noted
<1>6. EdgesResolve'
  BY DEF EdgesResolve, DraftResolves
<1>7. RetriesUsedUp'
  BY DEF TypeOK, RetriesUsedUp
<1> QED
  BY <1>1, <1>2, <1>3, <1>4, <1>5, <1>6, <1>7

\* FetchNode preserves ResearchInv, conjunct by conjunct.
LEMMA FetchNodePreserves == ResearchInv /\ FetchNode => ResearchInv'
<1> SUFFICES ASSUME ResearchInv, FetchNode PROVE ResearchInv'
  OBVIOUS
<1> USE LimitsAssumption DEF ResearchInv, FetchNode, Goto, searching, drafting
<1>1. TypeOK'
  BY DEF TypeOK, BranchesSplit, Nodes, Stopped
<1>2. StepsByNode'
  BY DEF TypeOK, StepsByNode, EarlyStart, Stopped
<1>3. EarlyStart'
  BY DEF EarlyStart, Researching
<1>4. BranchesSplit'
  BY DEF TypeOK, BranchesSplit, Researching, Stopped, Note, Noted
<1>5. VerdictsNoted'
  BY DEF TypeOK, StepsByNode, EarlyStart, VerdictsNoted, RevisionsHonoured,
         Researching, Note, Noted
<1>6. EdgesResolve'
  BY DEF EdgesResolve, DraftResolves
<1>7. RetriesUsedUp'
  BY DEF TypeOK, RetriesUsedUp
<1> QED
  BY <1>1, <1>2, <1>3, <1>4, <1>5, <1>6, <1>7

\* AnalyzeOneNode preserves ResearchInv, conjunct by conjunct.
LEMMA AnalyzeOneNodePreserves ==
  ASSUME ResearchInv, NEW doc \in Urls, AnalyzeOneNode(doc)
  PROVE  ResearchInv'
<1> USE LimitsAssumption
    DEF ResearchInv, AnalyzeOneNode, Goto, searching, drafting
<1>1. TypeOK'
  BY DEF TypeOK, Nodes, Stopped
<1>2. StepsByNode'
  BY DEF TypeOK, StepsByNode, EarlyStart, Stopped
<1>3. EarlyStart'
  BY DEF EarlyStart, Researching
<1>4. BranchesSplit'
  BY DEF TypeOK, BranchesSplit, Researching, Stopped, Note, Noted
<1>5. VerdictsNoted'
  BY DEF TypeOK, StepsByNode, EarlyStart, VerdictsNoted, RevisionsHonoured,
         Researching, Note, Noted
<1>6. EdgesResolve'
  BY DEF EdgesResolve, DraftResolves
<1>7. RetriesUsedUp'
  BY DEF TypeOK, RetriesUsedUp
<1> QED
  BY <1>1, <1>2, <1>3, <1>4, <1>5, <1>6, <1>7

\* SynthesizeNode preserves ResearchInv, conjunct by conjunct.
LEMMA SynthesizeNodePreserves == ResearchInv /\ SynthesizeNode => ResearchInv'
<1> SUFFICES ASSUME ResearchInv, SynthesizeNode PROVE ResearchInv'
  OBVIOUS
<1> USE LimitsAssumption
    DEF ResearchInv, SynthesizeNode, Goto, searching, drafting
<1>1. TypeOK'
  BY DEF TypeOK, Nodes, Stopped
<1>2. StepsByNode'
  BY DEF TypeOK, StepsByNode, EarlyStart, Stopped, Researching
<1>3. EarlyStart'
  BY DEF EarlyStart, Researching
<1>4. BranchesSplit'
  BY DEF TypeOK, BranchesSplit, Researching, Stopped, Note, Noted
<1>5. VerdictsNoted'
  BY DEF TypeOK, StepsByNode, EarlyStart, VerdictsNoted, RevisionsHonoured,
         Researching, Note, Noted
<1>6. EdgesResolve'
  BY DEF EdgesResolve, DraftResolves
<1>7. RetriesUsedUp'
  BY DEF TypeOK, RetriesUsedUp
<1> QED
  BY <1>1, <1>2, <1>3, <1>4, <1>5, <1>6, <1>7

\* StructureNode preserves ResearchInv, conjunct by conjunct.
LEMMA StructureNodePreserves == ResearchInv /\ StructureNode => ResearchInv'
<1> SUFFICES ASSUME ResearchInv, StructureNode PROVE ResearchInv'
  OBVIOUS
<1> USE LimitsAssumption
    DEF ResearchInv, StructureNode, Goto, searching, analysing
<1>0. /\ structured' \in Drafts
      /\ \A edge \in structured'.edges :
           /\ edge[1] \in structured'.entities \cup {Uuid}
           /\ edge[2] \in structured'.entities \cup {Uuid}
  <2>1. CASE structured' = NoDraft
    BY <2>1 DEF NoDraft, Drafts
  <2>2. CASE structured' # NoDraft
    <3>1. PICK es \in SUBSET Temps, edges \in SUBSET ModelEdges :
            \E old \in SUBSET es :
              structured' = Prune(Dedupe([entities |-> es, existing |-> old,
                                          edges |-> edges]))
      BY <2>2
    <3>2. PICK old \in SUBSET es :
            structured' = Prune(Dedupe([entities |-> es, existing |-> old,
                                        edges |-> edges]))
      BY <3>1
    <3>3. [entities |-> es, existing |-> old, edges |-> edges] \in Drafts
      BY RefsAssumption DEF Drafts
    <3> QED
      BY <3>2, <3>3, PruneResolves
  <2> QED
    BY <2>1, <2>2
<1>1. TypeOK'
  BY <1>0 DEF TypeOK, Nodes, Stopped
<1>2. StepsByNode'
  BY DEF TypeOK, StepsByNode, EarlyStart, Stopped
<1>3. EarlyStart'
  BY DEF EarlyStart, Researching
<1>4. BranchesSplit'
  BY DEF TypeOK, BranchesSplit, Researching, Stopped, Note, Noted
<1>5. VerdictsNoted'
  BY DEF TypeOK, StepsByNode, EarlyStart, VerdictsNoted, RevisionsHonoured,
         Researching, Note, Noted
<1>6. EdgesResolve'
  BY <1>0 DEF EdgesResolve, DraftResolves
<1>7. RetriesUsedUp'
  BY DEF TypeOK, RetriesUsedUp
<1> QED
  BY <1>1, <1>2, <1>3, <1>4, <1>5, <1>6, <1>7

\* CritiqueNode preserves ResearchInv, conjunct by conjunct.
LEMMA CritiqueNodePreserves == ResearchInv /\ CritiqueNode => ResearchInv'
<1> SUFFICES ASSUME ResearchInv, CritiqueNode PROVE ResearchInv'
  OBVIOUS
<1> USE LimitsAssumption
    DEF ResearchInv, CritiqueNode, Goto, RouteAfterCritique, searching,
        analysing
<1>1. TypeOK'
  BY DEF TypeOK, Nodes, Stopped
<1>2. StepsByNode'
  BY DEF TypeOK, StepsByNode, EarlyStart, Stopped
<1>3. EarlyStart'
  BY DEF EarlyStart, Researching
<1>4. BranchesSplit'
  BY DEF TypeOK, BranchesSplit, Researching, Stopped, Note, Noted
<1>5. VerdictsNoted'
  BY DEF TypeOK, StepsByNode, EarlyStart, VerdictsNoted, RevisionsHonoured,
         Researching, Note, Noted
<1>6. EdgesResolve'
  BY DEF EdgesResolve, DraftResolves
<1>7. RetriesUsedUp'
  BY DEF TypeOK, RetriesUsedUp
<1> QED
  BY <1>1, <1>2, <1>3, <1>4, <1>5, <1>6, <1>7

\* LookupNode preserves ResearchInv, conjunct by conjunct.
LEMMA LookupNodePreserves == ResearchInv /\ LookupNode => ResearchInv'
<1> SUFFICES ASSUME ResearchInv, LookupNode PROVE ResearchInv'
  OBVIOUS
<1> USE LimitsAssumption
    DEF ResearchInv, LookupNode, Goto, searching, analysing
<1>0. /\ structured' \in Drafts
      /\ \A edge \in structured'.edges :
           /\ edge[1] \in structured'.entities \cup {Uuid}
           /\ edge[2] \in structured'.entities \cup {Uuid}
  <2> USE DEF TypeOK, EdgesResolve, DraftResolves
  <2>1. CASE structured' = structured
    BY <2>1
  <2>2. CASE structured' # structured
    <3>1. PICK extra \in SUBSET (structured.entities \X structured.entities) :
            structured' = [structured EXCEPT !.edges =
                             structured.edges \cup extra]
      BY <2>2
    <3> QED
      BY <3>1 DEF Drafts, Refs
  <2> QED
    BY <2>1, <2>2
<1>1. TypeOK'
  BY <1>0 DEF TypeOK, Nodes, Stopped
<1>2. StepsByNode'
  BY DEF TypeOK, StepsByNode, EarlyStart, Stopped
<1>3. EarlyStart'
  BY DEF EarlyStart, Researching
<1>4. BranchesSplit'
  BY DEF TypeOK, BranchesSplit, Researching, Stopped, Note, Noted
<1>5. VerdictsNoted'
  BY DEF TypeOK, StepsByNode, EarlyStart, VerdictsNoted, RevisionsHonoured,
         Researching, Note, Noted
<1>6. EdgesResolve'
  BY <1>0 DEF EdgesResolve, DraftResolves
<1>7. RetriesUsedUp'
  BY DEF TypeOK, RetriesUsedUp
<1> QED
  BY <1>1, <1>2, <1>3, <1>4, <1>5, <1>6, <1>7

\* NodeRaises preserves ResearchInv, conjunct by conjunct.
LEMMA NodeRaisesPreserves == ResearchInv /\ NodeRaises => ResearchInv'
<1> SUFFICES ASSUME ResearchInv, NodeRaises PROVE ResearchInv'
  OBVIOUS
<1> USE LimitsAssumption
    DEF ResearchInv, NodeRaises, searching, analysing, drafting
<1>1. TypeOK'
  BY DEF TypeOK, Nodes, Stopped
<1>2. StepsByNode'
  BY DEF TypeOK, StepsByNode, EarlyStart, Stopped
<1>3. EarlyStart'
  BY DEF EarlyStart, Researching
<1>4. BranchesSplit'
  BY DEF TypeOK, BranchesSplit, Researching, Stopped, Note, Noted
<1>5. VerdictsNoted'
  BY DEF TypeOK, StepsByNode, EarlyStart, VerdictsNoted, RevisionsHonoured,
         Researching, Note, Noted
<1>6. EdgesResolve'
  BY DEF EdgesResolve, DraftResolves
<1>7. RetriesUsedUp'
  BY DEF TypeOK, RetriesUsedUp
<1> QED
  BY <1>1, <1>2, <1>3, <1>4, <1>5, <1>6, <1>7

-----------------------------------------------------------------------------

\* The invariant holds in every reachable state.
THEOREM ResearchInvariant == Spec => []ResearchInv
<1>1. ResearchInv /\ [Next]_vars => ResearchInv'
  <2> SUFFICES ASSUME ResearchInv, [Next]_vars PROVE ResearchInv'
    OBVIOUS
  <2>1. CASE PlanNode
    BY <2>1, PlanNodePreserves
  <2>2. CASE SurveyGraphNode
    BY <2>2, SurveyGraphNodePreserves
  <2>3. CASE SearchNode
    BY <2>3, SearchNodePreserves
  <2>4. CASE BroadenQueriesNode
    BY <2>4, BroadenQueriesNodePreserves
  <2>5. CASE FetchNode
    BY <2>5, FetchNodePreserves
  <2>6. CASE \E doc \in Urls : AnalyzeOneNode(doc)
    BY <2>6, AnalyzeOneNodePreserves
  <2>7. CASE SynthesizeNode
    BY <2>7, SynthesizeNodePreserves
  <2>8. CASE StructureNode
    BY <2>8, StructureNodePreserves
  <2>9. CASE CritiqueNode
    BY <2>9, CritiqueNodePreserves
  <2>10. CASE LookupNode
    BY <2>10, LookupNodePreserves
  <2>11. CASE NodeRaises
    BY <2>11, NodeRaisesPreserves
  <2>12. CASE UNCHANGED vars
    BY <2>12 DEF vars, searching, analysing, drafting, ResearchInv, TypeOK,
         StepsByNode, EarlyStart, BranchesSplit, VerdictsNoted,
         RevisionsHonoured, EdgesResolve, DraftResolves, RetriesUsedUp
  <2> QED
    BY <2>1, <2>2, <2>3, <2>4, <2>5, <2>6, <2>7, <2>8, <2>9, <2>10, <2>11,
       <2>12 DEF Next, Progress
<1> QED
  BY InitInv, <1>1, PTL DEF Spec

\* Every variable keeps its type.
THEOREM TypesHold == Spec => []TypeOK
  BY ResearchInvariant, PTL DEF ResearchInv

\* However many retries are configured, the two loops of build_graph spend
\* at most two supersteps each per retry, so a run of the graph ends.
THEOREM StepsAreBounded == Spec => []StepsBounded
<1>1. ResearchInv => StepsBounded
  BY LimitsAssumption
     DEF ResearchInv, TypeOK, Nodes, Stopped, StepsByNode, StepsBounded
<1> QED
  BY <1>1, ResearchInvariant, PTL

\* The routes after search: no research without sources before every retry.
THEOREM RetriesAreUsedUp == Spec => []RetriesUsedUp
  BY ResearchInvariant, PTL DEF ResearchInv

\* The fan-out: no fetched document is lost or analysed twice, and every hit
\* is a document or a note.
THEOREM SourcesAreAccounted == Spec => []SourcesAccounted
<1>1. ResearchInv => SourcesAccounted
  BY DEF ResearchInv, BranchesSplit, SourcesAccounted, Researching, Stopped
<1> QED
  BY <1>1, ResearchInvariant, PTL

\* The critic: a refused draft goes on only after the last retry.
THEOREM RevisionsAreHonoured == Spec => []RevisionsHonoured
  BY ResearchInvariant, PTL DEF ResearchInv, VerdictsNoted

\* Whatever edges the model drafts, those handed on have both ends.
THEOREM DraftsResolve == Spec => []DraftResolves
  BY ResearchInvariant, PTL DEF ResearchInv, EdgesResolve

\* No node drops a note: each one extends the list it read.
THEOREM NotesKept == Spec => NotesAreKept
<1>1. [Next]_vars => [skipped \subseteq skipped']_vars
  BY DEF Next, Progress, PlanNode, SurveyGraphNode, SearchNode,
     BroadenQueriesNode, FetchNode, AnalyzeOneNode, SynthesizeNode,
     StructureNode, CritiqueNode, LookupNode, NodeRaises, Noted, vars
<1> QED
  BY <1>1, PTL DEF Spec, NotesAreKept
=============================================================================
