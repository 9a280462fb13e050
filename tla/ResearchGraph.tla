----------------------------- MODULE ResearchGraph -----------------------------
(***************************************************************************)
(* The research phase of a run: the LangGraph state machine of             *)
(* backend/app/agent/graph.py up to lookup, and its nodes under            *)
(* backend/app/agent/nodes/.  A node reads the graph state once, awaits    *)
(* models and tools that see none of it, and returns its update at the     *)
(* end, so a node is one action; the analyze_one branches of a fan-out run *)
(* side by side and are one action each.  The deadline that may cancel any *)
(* node belongs to AgentRun.                                               *)
(***************************************************************************)
EXTENDS Integers, FiniteSets

CONSTANTS
  Urls,             \* what a web search can return
  Temps,            \* temp_ids of draft entities
  Uuid,             \* an edge endpoint that parses as a UUID
  ModelEdges,       \* the edges <<from_ref, to_ref>> the model may draft
  InDigest,         \* the drafts whose name and kind the digest lists
  MaxSources,       \* agent_max_sources
  SearchRetries,    \* agent_search_retries
  CritiqueRetries,  \* agent_critique_retries
  LookupCap,        \* agent_lookup_max_entities
  NULL              \* None

Refs == Temps \cup {Uuid}

ASSUME RefsAssumption == ModelEdges \subseteq Refs \X Refs /\ Uuid \notin Temps
ASSUME LimitsAssumption == /\ SearchRetries \in Nat
                           /\ CritiqueRetries \in Nat
                           /\ MaxSources \in Nat
                           /\ LookupCap \in Nat

VARIABLES
  tools,             \* the MCP servers that answered when the worker started
  node,              \* the node that runs next, "end" or "failed"
  search_hits, search_attempts, documents,
  branches,          \* the documents whose analyze_one has not returned
  source_notes,      \* the documents there is a note of
  dropped,           \* history: the documents whose branch logged a failure
  analysis,          \* the notes synthesize folded, NULL before
  structured,        \* the drafts
  critique, critique_attempts,
  skipped,
  steps              \* history: supersteps of the graph so far

searching == <<tools, search_hits, search_attempts>>
analysing == <<documents, branches, source_notes, dropped, analysis>>
drafting  == <<structured, critique, critique_attempts>>
vars == <<node, searching, analysing, drafting, skipped, steps>>

-----------------------------------------------------------------------------

Nodes == {"plan", "survey_graph", "search", "broaden_queries", "fetch",
          "analyze_one", "synthesize", "structure", "critique", "lookup"}

\* StructuredResult: the drafts by temp_id, those with an existing_id, edges.
NoDraft == [entities |-> {}, existing |-> {}, edges |-> {}]
Drafts == [entities : SUBSET Temps, existing : SUBSET Temps,
           edges : SUBSET (Refs \X Refs)]

\* A note in skipped: the node that wrote it and what it is about.
Note(what, item) == [what |-> what, item |-> item]
Noted(what, items) == {Note(what, i) : i \in items}

Init ==
  /\ tools \in SUBSET {"search", "wikipedia"}
  /\ node = "plan"
  /\ search_hits = {} /\ search_attempts = 0
  /\ documents = {} /\ branches = {} /\ source_notes = {} /\ dropped = {}
  /\ analysis = NULL
  /\ structured = NoDraft /\ critique = NULL /\ critique_attempts = 0
  /\ skipped = {}
  /\ steps = 0

\* One superstep: the graph goes on to node n.
Goto(n) == node' = n /\ steps' = steps + 1

-----------------------------------------------------------------------------
(* Planning and searching.                                                 *)

PlanNode ==
  /\ node = "plan"
  /\ Goto("survey_graph")
  /\ UNCHANGED <<searching, analysing, drafting, skipped>>

\* The digest is capped, by the vector search or by the lexical ranking, and
\* then a note says so.
SurveyGraphNode ==
  /\ node = "survey_graph"
  /\ Goto("search")
  /\ skipped' \in {skipped, skipped \cup {Note("survey", NULL)}}
  /\ UNCHANGED <<searching, analysing, drafting>>

\* Mutant of RouteAfterSearch: the retries are not looked at.
RouteAfterSearchUncounted(hits, attempts) ==
  IF hits # {} THEN "fetch" ELSE "broaden_queries"

\* Mutant of RouteAfterSearch: > as in _route_after_critique.
RouteAfterSearchLate(hits, attempts) ==
  IF hits # {} \/ attempts > SearchRetries THEN "fetch" ELSE "broaden_queries"

\* _route_after_search.
RouteAfterSearch(hits, attempts) ==
  IF hits # {} \/ attempts >= SearchRetries THEN "fetch" ELSE "broaden_queries"

\* search_node: a query that fails and a url that guard_url refuses become
\* notes; without the tool the attempts are set to the limit.
SearchNode ==
  /\ node = "search"
  /\ \E hits \in SUBSET Urls, bad \in SUBSET (Urls \cup {NULL}) :
       /\ hits \cap bad = {} /\ Cardinality(hits) <= MaxSources
       /\ "search" \notin tools => hits = {} /\ bad = {NULL}
       /\ search_hits' = hits
       /\ search_attempts' = IF "search" \in tools THEN search_attempts
                                                  ELSE SearchRetries
       /\ skipped' = skipped \cup Noted("search", bad)
       /\ Goto(RouteAfterSearch(hits, search_attempts'))
  /\ UNCHANGED <<tools, analysing, drafting>>

\* broaden_queries_node: whether the model broadened or not, the attempt
\* counts and a note is written.
BroadenQueriesNode ==
  /\ node = "broaden_queries"
  /\ search_attempts' = search_attempts + 1
  /\ skipped' = skipped \cup {Note("broaden", search_attempts')}
  /\ Goto("search")
  /\ UNCHANGED <<tools, search_hits, analysing, drafting>>

-----------------------------------------------------------------------------
(* Fetching, the fan-out over the documents, and the fan-in.               *)

\* Mutant of FetchNode: with no document nothing is sent on.
FetchNodeNoFallback ==
  /\ node = "fetch"
  /\ documents' \in SUBSET search_hits
  /\ skipped' = skipped \cup Noted("fetch", search_hits \ documents')
  /\ branches' = documents'
  /\ Goto("analyze_one")
  /\ UNCHANGED <<searching, source_notes, dropped, analysis, drafting>>

\* fetch_node and _fan_out_analyze.
FetchNode ==
  /\ node = "fetch"
  /\ documents' \in SUBSET search_hits
  /\ skipped' = skipped \cup Noted("fetch", search_hits \ documents')
  /\ branches' = documents'
  /\ Goto(IF documents' = {} THEN "synthesize" ELSE "analyze_one")
  /\ UNCHANGED <<searching, source_notes, dropped, analysis, drafting>>

\* Mutant of AnalyzeOneNode: synthesize is triggered by the first branch.
AnalyzeOneNodeEager(doc) ==
  /\ node = "analyze_one"
  /\ doc \in branches
  /\ branches' = branches \ {doc}
  /\ \/ source_notes' = source_notes \cup {doc} /\ UNCHANGED dropped
     \/ dropped' = dropped \cup {doc} /\ UNCHANGED source_notes
  /\ Goto("synthesize")
  /\ UNCHANGED <<searching, documents, analysis, drafting, skipped>>

\* One branch returns: its note goes through the operator.add reducer, or it
\* failed and is dropped.  synthesize waits for all branches.
AnalyzeOneNode(doc) ==
  /\ node = "analyze_one"
  /\ doc \in branches
  /\ branches' = branches \ {doc}
  /\ \/ source_notes' = source_notes \cup {doc} /\ UNCHANGED dropped
     \/ dropped' = dropped \cup {doc} /\ UNCHANGED source_notes
  /\ IF branches' = {} THEN Goto("synthesize") ELSE UNCHANGED <<node, steps>>
  /\ UNCHANGED <<searching, documents, analysis, drafting, skipped>>

SynthesizeNode ==
  /\ node = "synthesize"
  /\ analysis' = source_notes
  /\ Goto("structure")
  /\ UNCHANGED <<searching, documents, branches, source_notes, dropped,
                 drafting, skipped>>

-----------------------------------------------------------------------------
(* Drafting: structure and critique, then lookup.                          *)

\* _dedupe_against_existing: a match links the draft to the existing entity.
Dedupe(d) ==
  [d EXCEPT !.existing = d.existing \cup (d.entities \cap InDigest)]

\* _prune_dangling_edges: an existing_id is a UUID, so it is kept as one.
Prune(d) ==
  LET known == d.entities \cup {Uuid}
  IN  [d EXCEPT !.edges = d.edges \cap (known \X known)]

\* Mutant of StructureNode: the edges are not pruned.
StructureNodeUnpruned ==
  /\ node = "structure"
  /\ \E es \in SUBSET Temps, edges \in SUBSET ModelEdges :
       \E old \in SUBSET es :
         structured' = Dedupe([entities |-> es, existing |-> old,
                               edges |-> edges])
  /\ Goto("critique")
  /\ UNCHANGED <<searching, analysing, critique, critique_attempts, skipped>>

\* Mutant of StructureNode: skipped is rebuilt instead of extended.
StructureNodeResets ==
  /\ node = "structure"
  /\ \E es \in SUBSET Temps, edges \in SUBSET ModelEdges :
       \E old \in SUBSET es :
         LET model == [entities |-> es, existing |-> old, edges |-> edges]
         IN  structured' = Prune(Dedupe(model))
  /\ skipped' = IF critique = NULL THEN skipped ELSE {}
  /\ Goto("critique")
  /\ UNCHANGED <<searching, analysing, critique, critique_attempts>>

\* structure_node: the model's drafts, deduped and pruned, or an empty result
\* if it never matched the schema; it replaces any earlier draft.
StructureNode ==
  /\ node = "structure"
  /\ \/ \E es \in SUBSET Temps, edges \in SUBSET ModelEdges :
          \E old \in SUBSET es :
            LET model == [entities |-> es, existing |-> old, edges |-> edges]
            IN /\ structured' = Prune(Dedupe(model))
               /\ skipped' = IF structured'.edges = edges THEN skipped
                             ELSE skipped \cup {Note("prune", NULL)}
     \/ /\ structured' = NoDraft
        /\ skipped' = skipped \cup {Note("structure", NULL)}
  /\ Goto("critique")
  /\ UNCHANGED <<searching, analysing, critique, critique_attempts>>

\* Mutant of RouteAfterCritique: the attempts are counted after the route.
RouteAfterCritiqueEarly(verdict, attempts) ==
  IF verdict = NULL \/ attempts >= CritiqueRetries THEN "lookup"
                                                   ELSE "structure"

\* _route_after_critique.
RouteAfterCritique(verdict, attempts) ==
  IF verdict = NULL \/ attempts > CritiqueRetries THEN "lookup"
                                                  ELSE "structure"

\* critique_node: an empty draft and an unusable answer pass.
CritiqueNode ==
  /\ node = "critique"
  /\ critique_attempts' = critique_attempts + 1
  /\ \/ /\ critique' = NULL
        /\ UNCHANGED skipped
     \/ /\ structured.entities # {}
        /\ critique' = "revise"
        /\ skipped' = skipped \cup {Note("critique", critique_attempts')}
  /\ Goto(RouteAfterCritique(critique', critique_attempts'))
  /\ UNCHANGED <<searching, analysing, structured>>

\* lookup_node: of at most LookupCap drafts, those Wikipedia answers for gain
\* edges to other drafts; the others are noted.
LookupNode ==
  /\ node = "lookup"
  /\ \/ /\ structured.entities = {}
        /\ UNCHANGED <<structured, skipped>>
     \/ /\ structured.entities # {} /\ "wikipedia" \notin tools
        /\ skipped' = skipped \cup {Note("lookup", NULL)}
        /\ UNCHANGED structured
     \/ /\ structured.entities # {} /\ "wikipedia" \in tools
        /\ \E tried \in SUBSET structured.entities :
             /\ Cardinality(tried) <= LookupCap
             /\ tried # structured.entities => Cardinality(tried) = LookupCap
             /\ \E found \in SUBSET tried :
                  LET others == {p \in found \X structured.entities :
                                   p[1] # p[2]}
                      capped == IF tried = structured.entities THEN {}
                                ELSE {Note("lookup", NULL)}
                  IN
                  /\ \E extra \in SUBSET others :
                       structured' = [structured EXCEPT !.edges =
                                        structured.edges \cup extra]
                  /\ skipped' = skipped \cup capped
                                  \cup Noted("lookup", tried \ found)
  /\ Goto("end")
  /\ UNCHANGED <<searching, analysing, critique, critique_attempts>>

-----------------------------------------------------------------------------

\* guard_url raises SsrfError for a url it refuses, but lets out the ValueError
\* of urlsplit and getaddrinfo on a malformed one; search_node guards the hits
\* below the limit.
GuardRaises == "search" \in tools /\ MaxSources > 0

\* What a node lets out: the graph stops and the run fails.  plan_node is the
\* one caller of structured that does not catch StructuredOutputError, and
\* search_node catches SsrfError alone.
NodeRaises ==
  /\ \/ node \in {"plan", "survey_graph", "synthesize"}
     \/ node = "search" /\ GuardRaises
  /\ node' = "failed"
  /\ UNCHANGED <<searching, analysing, drafting, skipped, steps>>

Progress ==
  \/ PlanNode \/ SurveyGraphNode \/ SearchNode \/ BroadenQueriesNode
  \/ FetchNode \/ (\E doc \in Urls : AnalyzeOneNode(doc)) \/ SynthesizeNode
  \/ StructureNode \/ CritiqueNode \/ LookupNode

Next == Progress \/ NodeRaises

Spec == Init /\ [][Next]_vars

\* Every model, tool and page request has a timeout (config.py), so a node
\* that runs returns.
FairSpec == Spec /\ WF_vars(Progress)

-----------------------------------------------------------------------------
(* Properties.                                                             *)

Stopped == {"end", "failed"}

\* Every variable keeps its type.
TypeOK ==
  /\ tools \subseteq {"search", "wikipedia"}
  /\ node \in Nodes \cup Stopped
  /\ search_hits \subseteq Urls /\ search_attempts \in 0..SearchRetries
  /\ documents \subseteq search_hits
  /\ branches \subseteq documents
  /\ source_notes \subseteq documents /\ dropped \subseteq documents
  /\ analysis \in (SUBSET Urls) \cup {NULL}
  /\ structured \in Drafts
  /\ critique \in {"revise", NULL} /\ critique_attempts \in Nat
  /\ steps \in Nat

\* _route_after_search and _route_after_critique: both loops are counted, the
\* one before and the other after its increment; together the graph takes at
\* most this many supersteps, whatever the tools and the models answer.
StepsBounded == steps <= 9 + 2 * SearchRetries + 2 * CritiqueRetries

\* The research goes on without sources only after every search retry, and
\* retries only when the round before found nothing.
RetriesUsedUp ==
  /\ node = "fetch" /\ search_hits = {} => search_attempts = SearchRetries
  /\ node = "broaden_queries" => search_hits = {}

\* fetch_node and the fan-out: once synthesize has run, every hit was fetched
\* or noted, every document went through its own branch exactly once, and the
\* analysis holds the note of every branch that did not fail.
SourcesAccounted ==
  analysis # NULL =>
    /\ \A u \in search_hits : u \in documents \/ Note("fetch", u) \in skipped
    /\ branches = {}
    /\ source_notes \cap dropped = {}
    /\ source_notes \cup dropped = documents
    /\ analysis = source_notes

\* A draft the critic sent back goes on to lookup only when it has been sent
\* back CritiqueRetries times already; every verdict is on record.
RevisionsHonoured ==
  node \in {"lookup", "end"} /\ critique # NULL =>
    /\ critique_attempts = CritiqueRetries + 1
    /\ \A k \in 1..critique_attempts : Note("critique", k) \in skipped

\* _prune_dangling_edges and lookup_node: whatever the model drafted, every
\* edge handed to review or commit runs between drafts or known ids.
DraftResolves ==
  node \in {"critique", "lookup", "end"} =>
    \A edge \in structured.edges :
      /\ edge[1] \in structured.entities \cup {Uuid}
      /\ edge[2] \in structured.entities \cup {Uuid}

\* skipped has no reducer: each node writes back the list it read with its own
\* notes added, so no note of an earlier node is ever lost.
NotesAreKept == [][skipped \subseteq skipped']_vars

\* The graph comes to an end.
GraphEnds == <>(node \in Stopped)

=============================================================================
