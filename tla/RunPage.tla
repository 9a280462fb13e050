-------------------------------- MODULE RunPage --------------------------------
(***************************************************************************)
(* A browser showing one run of AgentRun: the poll loop of stream_run in   *)
(* the gateway (backend/app/agent/service.py), the event stream between    *)
(* the two, and RunDetailView (frontend/src/app/runs/[id]) with its        *)
(* subscription and its review buttons.  The page decides reviews of its   *)
(* run, so AgentRun's requests for that run are the clicks on it.  Crashes *)
(* and failing calls are AgentRun's subject; here only the stream fails.   *)
(***************************************************************************)
EXTENDS AgentRun

CONSTANTS
  Viewed,   \* the run the page shows
  WireCap,  \* events under way at a time, a bound of the model
  Breaks    \* the connection of the stream may fail

ASSUME PageAssumption == /\ Viewed \in Runs
                         /\ WireCap \in Nat \ {0}
                         /\ Breaks \in BOOLEAN
                         /\ Faults = FALSE /\ NULL \notin Rows

VARIABLES
  shown,    \* the run state of the component, NULL until the page is loaded
  stream,   \* the generator behind the current subscription
  sent,     \* the row its last event carried (last_updated_at), or NULL
  wire,     \* the events on their way to the page
  answer,   \* the row a decided review returns to the page, or NULL
  lost      \* the subscription failed and nothing has replaced it

streamVars == <<stream, sent, wire>>
pageVars == <<shown, stream, sent, wire, answer, lost>>
allVars == <<vars, pageVars>>

PageInit ==
  /\ Init
  /\ shown = NULL /\ stream = "none" /\ sent = NULL /\ wire = <<>>
  /\ answer = NULL /\ lost = FALSE

-----------------------------------------------------------------------------
(* The gateway's side of the stream.                                       *)

\* _STREAM_TERMINAL_STATUSES.
StreamTerminal == Terminal \cup {"awaiting_review"}

\* Mutant of Poll: queued counts as a status in which nothing happens.
PollStopsAtQueued ==
  /\ stream = "open"
  /\ Len(wire) < WireCap
  /\ LET run == row[Viewed] IN
     /\ \/ run # sent /\ sent' = run /\ wire' = Append(wire, run)
        \/ run = sent /\ run.status = "queued" /\ UNCHANGED <<sent, wire>>
     /\ stream' = IF run.status \in StreamTerminal \cup {"queued"}
                    THEN "ended" ELSE "open"
  /\ UNCHANGED <<vars, shown, answer, lost>>

\* One turn of stream_run's loop: get_run, an event if the row was updated
\* since the last one, and the end of the stream at a status in which no
\* worker moves the run.  Every statement that updates a row sets updated_at,
\* so a change of updated_at is a change of the row.
Poll ==
  /\ stream = "open"
  /\ Len(wire) < WireCap
  /\ LET run == row[Viewed] IN
     /\ \/ run # sent /\ sent' = run /\ wire' = Append(wire, run)
        \/ run = sent /\ run.status \in StreamTerminal /\ UNCHANGED <<sent, wire>>
     /\ stream' = IF run.status \in StreamTerminal THEN "ended" ELSE "open"
  /\ UNCHANGED <<vars, shown, answer, lost>>

\* The gateway restarts, a query of the loop raises or the network drops: the
\* reader throws, or, where the request itself is refused, finds no event.
StreamBreaks ==
  /\ Breaks
  /\ stream \in {"connecting", "open"} \/ wire # <<>>
  /\ stream' = "none" /\ wire' = <<>> /\ lost' = TRUE
  /\ UNCHANGED <<vars, shown, sent, answer>>

-----------------------------------------------------------------------------
(* The page.                                                               *)

\* page.tsx renders with the row of the moment; the effect subscribes.
LoadPage ==
  /\ shown = NULL
  /\ row[Viewed].status # "none"
  /\ shown' = row[Viewed]
  /\ stream' = "connecting"
  /\ UNCHANGED <<vars, sent, wire, answer, lost>>

\* The route's own get_run, then the generator starts afresh.
StreamOpens ==
  /\ stream = "connecting"
  /\ stream' = "open" /\ sent' = NULL
  /\ UNCHANGED <<vars, shown, wire, answer, lost>>

\* setRun on a status event.
ReceiveEvent ==
  /\ wire # <<>>
  /\ shown' = Head(wire) /\ wire' = Tail(wire)
  /\ UNCHANGED <<vars, stream, sent, answer, lost>>

\* The ReviewCard is there, and its buttons are not loading.
ReviewCard ==
  /\ shown # NULL /\ shown.status = "awaiting_review" /\ shown.pending # NULL
  /\ answer = NULL
  /\ \A q \in Requests : req[q].run = Viewed => req[q].pc = "done"

\* onReview: the request is sent.
Click(q) ==
  /\ ReadForReview(q)
  /\ req'[q].run = Viewed => ReviewCard
  /\ UNCHANGED pageVars

\* The statement of the review returns the row it wrote.
Decide(q) ==
  /\ MarkCancelled(q) \/ ApproveReview(q)
  /\ answer' = IF req[q].run = Viewed THEN row'[Viewed] ELSE answer
  /\ UNCHANGED <<shown, streamVars, lost>>

\* Mutant of ReviewAnswered: the answer is shown, the effect is not run again.
ReviewAnsweredOnly ==
  /\ answer # NULL
  /\ \A q \in Requests : req[q].run = Viewed => req[q].pc = "done"
  /\ shown' = answer /\ answer' = NULL
  /\ UNCHANGED <<vars, stream, sent, wire, lost>>

\* onSuccess: setRun(data) and a new subscription, both in one render; the
\* cleanup sets cancelled, so what the old subscription still gets is dropped.
ReviewAnswered ==
  /\ answer # NULL
  /\ \A q \in Requests : req[q].run = Viewed => req[q].pc = "done"
  /\ shown' = answer /\ answer' = NULL
  /\ stream' = "connecting" /\ wire' = <<>> /\ lost' = FALSE
  /\ UNCHANGED <<vars, sent>>

-----------------------------------------------------------------------------

ReviewOfPage(q) == Click(q) \/ Decide(q)
                     \/ (EnqueueCommit(q) /\ UNCHANGED pageVars)

Elsewhere == /\ \/ \E r \in Runs : GatewayStep(r)
                \/ \E w \in Slots : WorkerStep(w)
             /\ UNCHANGED pageVars

PageStep == \/ LoadPage \/ StreamOpens \/ Poll \/ ReceiveEvent
            \/ ReviewAnswered \/ StreamBreaks

PageNext == Elsewhere \/ (\E q \in Requests : ReviewOfPage(q)) \/ PageStep

PageSpec == PageInit /\ [][PageNext]_allVars

\* AgentRun's fairness; the poll loop wakes after its sleep, the browser runs
\* its callbacks.  Nobody has to load the page or to click.
FairPageSpec ==
  /\ PageSpec
  /\ \A r \in Runs : WF_allVars(EnqueueRun(r) /\ UNCHANGED pageVars)
  /\ \A q \in Requests :
       WF_allVars(Decide(q) \/ (EnqueueCommit(q) /\ UNCHANGED pageVars))
  /\ \A w \in Slots : WF_allVars(WorkerProgress(w) /\ UNCHANGED pageVars)
  /\ WF_allVars(StreamOpens) /\ WF_allVars(Poll)
  /\ WF_allVars(ReceiveEvent) /\ WF_allVars(ReviewAnswered)

-----------------------------------------------------------------------------
(* Properties.                                                             *)

\* _STREAM_TERMINAL_STATUSES: the gateway ends a stream only where no worker
\* moves the run any more, so the last event it sent stays true until a review
\* of the run is decided, and the page hears of that by its own answer.
EndedStreamIsCurrent ==
  stream = "ended" => \/ sent = row[Viewed]
                      \/ answer # NULL
                      \/ \E q \in Requests : /\ req[q].run = Viewed
                                             /\ req[q].pc = "approved"

\* run-detail-view.tsx, "an approval needs a fresh subscription to keep
\* watching": a page that lags behind its run catches up, across a review and
\* the end of a stream, unless the connection failed.
PageCatchesUp ==
  (shown # NULL /\ shown # row[Viewed]) ~> (shown = row[Viewed] \/ lost)
=============================================================================
