-------------------------- MODULE WorkflowMonitor --------------------------
(***************************************************************************)
(* The page that watches one workflow (frontend useWorkflowMonitor,        *)
(* monitoringSocket, usePolling, the reducer of state/appState and         *)
(* utils/workflowStatus), with the server of WorkflowEvents behind it.     *)
(*                                                                         *)
(* The page learns the state of the workflow on three ways that overtake   *)
(* each other: two GET requests read separately (a "sync"), the frames of  *)
(* the WebSocket, which carry new events only, and a poll that stops when  *)
(* the page shows a finished workflow.                                     *)
(*                                                                         *)
(* Left out: the queue of a connection the browser has given up, which     *)
(* nobody reads; the rejection of a socket (codes 4401 to 4404) and the    *)
(* cap on the events a page keeps (2000).                                  *)
(***************************************************************************)
EXTENDS WorkflowEvents, Ranking

CONSTANT MaxDelay   \* bound on the age of an answer

VARIABLES
  page,     \* what the page shows: a view of the workflow or None, the events
            \* it has, and whether the last sync failed
  call,     \* the latest sync: what its two requests have read
  sock      \* "off", "connecting", "subscribed" (accepted by the server), "open"

monitorVars == <<page, call, sock>>

vars == <<eventVars, monitorVars>>

\* GET /workflows/{id}
View == [status |-> ApiStatus(row.status), stage |-> StageName(row.status),
         completed |-> row.completed, at |-> saved]

NoCall == [busy |-> FALSE, workflow |-> None, events |-> None, read |-> 0]

NewCall == [NoCall EXCEPT !.busy = TRUE]

\* The first of the two answers is at most MaxDelay commits old when the page
\* has both.
InTime == call # NoCall /\ call # NewCall => clock' <= call.read + MaxDelay

\* The page is opened on a new workflow, or it has followed the run that fails.
MonitorInit ==
  /\ EventsInit
  /\ \/ /\ New
        /\ page = [workflow |-> None, events |-> {}, error |-> FALSE]
        /\ call = NewCall      \* the effect that runs when the page is mounted
        /\ sock = "off" /\ queue = None
     \/ /\ JustFailed
        /\ page = [workflow |-> [status |-> "RUNNING", stage |-> "ANALYZING_RPS",
                                 completed |-> 0, at |-> 3],
                   events |-> {1, 2}, error |-> FALSE]
        /\ call = NoCall
        /\ sock = "open" /\ queue = <<>>

Finished(workflow) == workflow # None /\ workflow.status = "FAILED"

-----------------------------------------------------------------------------
(* The reducer.                                                            *)

\* Mutated: an old event is applied to a newer snapshot.
ApplyAnyEvent(v, k) ==
  LET e == history[k].event
      next == [v EXCEPT !.completed = e.completed, !.at = history[k].at] IN
  CASE e.event \in {"WORKFLOW_STARTED", "WORKFLOW_STAGE_COMPLETED"} ->
         [next EXCEPT !.status = "RUNNING"]
    [] e.event \in {"WORKFLOW_STAGE_STARTED", "WORKFLOW_STAGE_PROGRESS"} ->
         [next EXCEPT !.status = "RUNNING", !.stage = e.stage]
    [] e.event = "WORKFLOW_RETRY" -> [next EXCEPT !.status = "RUNNING", !.stage = "RETRYING"]
    [] e.event = "WORKFLOW_FAILED" -> [next EXCEPT !.status = "FAILED", !.stage = None]
    [] OTHER -> v

\* applyWorkflowEvent: what is older than the snapshot is in it already; the
\* events the page does not know leave the view alone.
ApplyWorkflowEvent(v, k) ==
  LET e == history[k].event
      next == [v EXCEPT !.completed = e.completed, !.at = history[k].at] IN
  IF history[k].at < v.at THEN v ELSE
  CASE e.event \in {"WORKFLOW_STARTED", "WORKFLOW_STAGE_COMPLETED"} ->
         [next EXCEPT !.status = "RUNNING"]
    [] e.event \in {"WORKFLOW_STAGE_STARTED", "WORKFLOW_STAGE_PROGRESS"} ->
         [next EXCEPT !.status = "RUNNING", !.stage = e.stage]
    [] e.event = "WORKFLOW_RETRY" -> [next EXCEPT !.status = "RUNNING", !.stage = "RETRYING"]
    [] e.event = "WORKFLOW_FAILED" -> [next EXCEPT !.status = "FAILED", !.stage = None]
    [] OTHER -> v

\* mergeEvents: without duplicates, in the order of their time stamps; the sort
\* leaves those of one time in their order.
MergeEvents(events) ==
  LET before(j, k) == history[j].at < history[k].at \/ (history[j].at = history[k].at /\ j <= k) IN
  Ranked(events, before)

\* The reduce over these events, from a view.
Replay(v, events) ==
  LET merged == MergeEvents(events)
      shown[i \in 0 .. Cardinality(events)] ==
        IF i = 0 THEN v ELSE ApplyWorkflowEvent(shown[i - 1], merged[i]) IN
  shown[Cardinality(events)]

\* Mutated: the snapshot replaces what the socket has brought.
LoadedBare(workflow, events) ==
  page' = [workflow |-> workflow, events |-> page.events \cup events, error |-> FALSE]

\* workflow/loaded: the events the page has are applied to the snapshot again.
Loaded(workflow, events) ==
  LET merged == page.events \cup events IN
  page' = [workflow |-> Replay(workflow, merged), events |-> merged, error |-> FALSE]

\* workflow/event
Received(k) ==
  IF k \in page.events THEN UNCHANGED page
  ELSE page' = [page EXCEPT !.workflow = ApplyWorkflowEvent(@, k), !.events = @ \cup {k}]

-----------------------------------------------------------------------------
(* The sync: getWorkflow and getWorkflowEvents, answered in any order.     *)

ReadWorkflow ==
  /\ call.busy /\ call.workflow = None
  /\ call' = [call EXCEPT !.workflow = View, !.read = IF @ = 0 THEN clock ELSE @]
  /\ UNCHANGED <<eventVars, page, sock>>

ReadEvents ==
  /\ call.busy /\ call.events = None
  /\ call' = [call EXCEPT !.events = DOMAIN history, !.read = IF @ = 0 THEN clock ELSE @]
  /\ UNCHANGED <<eventVars, page, sock>>

\* Both answers of the latest call are there.  The socket is opened once a
\* first state is known.
Answered ==
  /\ call.workflow # None /\ call.events # None
  /\ Loaded(call.workflow, call.events)
  /\ call' = NoCall
  /\ sock' = IF sock = "off" THEN "connecting" ELSE sock
  /\ UNCHANGED eventVars

SyncFails ==
  /\ call.busy /\ MayFail
  /\ faults' = faults + 1
  /\ page' = [page EXCEPT !.error = TRUE]
  /\ call' = NoCall
  /\ UNCHANGED <<serverVars, sock>>

\* usePolling: the timer does not wait for the answer of the last poll, whose
\* answer is then discarded.
Poll ==
  /\ ~Finished(page.workflow)
  /\ IF call.busy THEN MayFail /\ call # NewCall /\ faults' = faults + 1
                  ELSE UNCHANGED faults
  /\ call' = NewCall
  /\ UNCHANGED <<serverVars, page, sock>>

-----------------------------------------------------------------------------
(* The socket.                                                             *)

\* stream_workflow_events subscribes before it accepts.
Subscribe ==
  /\ sock = "connecting"
  /\ sock' = "subscribed" /\ queue' = <<>>
  /\ UNCHANGED <<producerVars, missed, faults, page, call>>

\* Mutated: the page does not ask for the state it missed while offline.
OpenQuietly ==
  /\ sock = "subscribed"
  /\ sock' = "open"
  /\ UNCHANGED <<eventVars, page, call>>

\* onopen: CONNECTED, and what happened in between is asked for.
Open ==
  /\ sock = "subscribed"
  /\ sock' = "open" /\ call' = NewCall
  /\ UNCHANGED <<eventVars, page, faults>>

\* onmessage; a final event asks for the final state.
Frame ==
  /\ sock = "open" /\ queue # None /\ queue # <<>>
  /\ Received(Head(queue))
  /\ queue' = Tail(queue)
  /\ call' = IF history[Head(queue)].event.event = "WORKFLOW_FAILED" THEN NewCall ELSE call
  /\ UNCHANGED <<producerVars, missed, faults, sock>>

\* The connection is lost; the channel tries again.
Drop ==
  /\ sock \in {"subscribed", "open"} /\ MayFail
  /\ faults' = faults + 1
  /\ sock' = "connecting" /\ queue' = None
  /\ UNCHANGED <<producerVars, missed, page, call>>

\* The server restarts: its connections and the requests under way are lost.
Crash ==
  /\ ServerCrash
  /\ sock' = IF sock = "off" THEN "off" ELSE "connecting"
  /\ page' = [page EXCEPT !.error = @ \/ call.busy]
  /\ call' = NoCall

Answer == ReadWorkflow \/ ReadEvents \/ Answered

PageStep == Answer \/ SyncFails \/ Poll \/ Subscribe \/ Open \/ Frame \/ Drop

MonitorNext ==
  \/ ServerStep /\ InTime /\ UNCHANGED monitorVars
  \/ PageStep
  \/ Crash

MonitorSpec == MonitorInit /\ [][MonitorNext]_vars

\* The event loop resumes what can go on, the browser's timers fire and the
\* network delivers; whether anything fails is left open.
MonitorFairSpec ==
  /\ MonitorSpec
  /\ WF_vars(RunStep /\ InTime /\ UNCHANGED monitorVars)
  /\ WF_vars(Poll \/ Answer)
  /\ WF_vars(Subscribe \/ Open \/ Frame)

-----------------------------------------------------------------------------
(* Properties.                                                             *)

\* What the page shows never goes back in time, whichever of the answers, polls
\* and frames arrives last - unless the row itself did, saved by a claim whose
\* transaction is older than the previous run's last commit.
NeverBackwards ==
  [][late = 0 /\ page.workflow # None => page'.workflow.at >= page.workflow.at]_vars

\* What the server has to tell: the row, and the events recorded since.
Told == Replay(View, DOMAIN history)

Shown(workflow) == [workflow EXCEPT !.at = 0]

\* The page ends up showing what the row and the history tell: whatever frames
\* a full queue or a lost connection swallowed and whichever answers were
\* overtaken, it shows their status, stage and progress, or an error.  One hole
\* is known and allowed here: a page that shows a failure has stopped polling,
\* so that only a frame or a sync can correct it, and a full queue or an event
\* that was never recorded take those away.
MonitorConverges ==
  <>[](\/ page.error
       \/ page.workflow # None /\ Shown(page.workflow) = Shown(Told)
       \/ Finished(page.workflow) /\ missed + lost > 0)

\* Where the row and the events agree, that is the row: once the runs are over
\* and none of them was cut short, no event outlives the status it told of.
RestIsTold ==
  run.at \in {"idle", "over"} /\ Silent(out) /\ Silent(tail) /\ lost + crashes = 0
  => Shown(Told) = Shown(View)

=============================================================================
