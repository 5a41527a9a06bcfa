----------------------- MODULE WorkflowMonitor_proofs -----------------------
(***************************************************************************)
(* Proofs about the events of a workflow and the page that watches it.     *)
(*                                                                         *)
(* The history is sorted by the time at which the transaction of an event  *)
(* began, which is not the order of the commits: the last event of a run   *)
(* may be committed after the first ones of the next run.  What makes the  *)
(* order right is that each run reads the clock anew with every save       *)
(* (TimesInv), so that whatever a finished run has told last is younger    *)
(* than all the rest (OverInv).                                            *)
(*                                                                         *)
(* Once a run is over, every event but its last is older than the row, and *)
(* the last one tells a page no more than the row does (RowInv): replaying *)
(* the history on the row changes nothing.  While it is not over, the row  *)
(* is never ahead of the run's next save.  So a page does not go back:     *)
(* what it shows is as old as a row already saved or as an event it has    *)
(* itself, and neither the row that is read next nor the one an answer     *)
(* brings, with these events on top, can be behind (PageInv).              *)
(***************************************************************************)
EXTENDS WorkflowMonitor, WorkflowRecord_proofs, Ranking_proofs

Places == {"idle", "claimed", "between", "working", "calling", "worked", "failing", "over"}

Run == [at : Places, stages : Seq(Stages), stage : Nat, attempt : Nat, emitted : BOOLEAN]

Session == [owed : Payload \cup {None}, began : Nat]

Entry == [event : Payload, at : Nat]

InStage(r) ==
  r.at \in {"working", "calling", "worked", "failing"} => r.stage \in DOMAIN r.stages

EventTypes ==
  /\ row \in WorkflowRow /\ history \in Seq(Entry)
  /\ run \in Run /\ out \in Session /\ tail \in Session
  /\ clock \in Nat /\ runs \in Nat /\ lost \in Nat /\ crashes \in Nat
  /\ run.at # "idle" => Len(run.stages) \in 1 .. MaxStages
  /\ InStage(run)

\* All that has been recorded is older.
Older(t) == \A k \in DOMAIN history : history[k].at < t

Started(r) == r.at \notin {"idle", "claimed"}

TimesInv ==
  /\ out.began <= clock /\ tail.began <= clock /\ Older(clock)
  /\ Started(run) => Older(out.began) /\ (~Silent(tail) => tail.began < out.began)

\* The last word of the run is of this name: still owed, or recorded and later
\* than everything else, what the previous run still owes included.
LastWord(name) ==
  IF Silent(out)
  THEN \E k \in DOMAIN history :
         /\ history[k].event.event = name
         /\ \A j \in DOMAIN history \ {k} : history[j].at < history[k].at
         /\ ~Silent(tail) => tail.began < history[k].at
  ELSE out.owed.event = name

Explained == \E name \in Events : Explains(name, row.status) /\ LastWord(name)

OverInv ==
  lost = 0 /\ crashes = 0 =>
    /\ run.at = "idle" => runs = 0
    /\ run.at = "over" => Explained
    /\ run.at = "failing" /\ run.emitted => LastWord("WORKFLOW_FAILED")

Tally(condition) == IF condition THEN 1 ELSE 0

OwesReport(session) == ~Silent(session) /\ session.owed.event = "WORKFLOW_FAILED"

\* The run may still report its failure.
MayReport(r) == r.at \notin {"idle", "over"} /\ ~r.emitted

ReportsInv ==
  /\ run.emitted => run.at \in {"failing", "over"}
  /\ IsFiniteSet(Reports)
  /\ Cardinality(Reports) + Tally(OwesReport(out)) + Tally(OwesReport(tail)) + Tally(MayReport(run))
       <= runs

EventsInv == EventTypes /\ TimesInv /\ OverInv /\ ReportsInv

-----------------------------------------------------------------------------
(* The operators.                                                          *)

LEMMA EventIsPayload ==
  ASSUME NEW w \in WorkflowRow, NEW name \in Events,
         NEW stage \in Stages \cup {None, "WAITING_FOR_REVIEW"}
  PROVE  Event(name, stage, w) \in Payload /\ Event(name, stage, w) # None
         /\ Event(name, stage, w).event = name
BY EventsAssumption DEF Event, Payload, WorkflowRow

LEMMA QuietIs ==
  ASSUME NEW t \in Nat
  PROVE  Quiet(t) \in Session /\ Silent(Quiet(t)) /\ Quiet(t).began = t
BY DEF Quiet, Session, Silent

LEMMA NoRunIs == NoRun \in Run /\ NoRun.at = "idle" /\ ~NoRun.emitted
BY DEF NoRun, Run, Places

LEMMA EntriesAre ==
  ASSUME EventsInv
  PROVE  \A k \in DOMAIN history : history[k] \in Entry /\ history[k].at \in Nat
<1>1. history \in Seq(Entry)
  BY DEF EventsInv, EventTypes
<1>2. \A k \in DOMAIN history : history[k] \in Entry
  BY <1>1
<1> QED
  BY <1>2 DEF Entry

-----------------------------------------------------------------------------
(* A run saves the row, or records an event without a save.                *)

\* What comes of an event that the session of the run now owes: saved with the
\* row, in a transaction of its own, or in the transaction the session is in.
LEMMA OwingKeeps ==
  ASSUME EventsInv, NEW event \in Payload \cup {None},
         Silent(out), out' \in Session, out'.owed = event,
         UNCHANGED <<history, tail, runs, lost, crashes>>,
         row' \in WorkflowRow,
         \/ clock' = clock + 1 /\ out'.began = clock + 1
         \/ clock' = clock /\ out'.began = out.began /\ Started(run),
         run' \in Run, Started(run'), Len(run'.stages) \in 1 .. MaxStages,
         InStage(run'), run'.emitted => run'.at \in {"failing", "over"},
         \* each report uses up the right to it
         Tally(OwesReport(out')) + Tally(MayReport(run')) <= Tally(MayReport(run)),
         run'.at = "over" =>
           \/ event # None /\ Explains(event.event, row'.status)
           \/ event = None /\ run.at = "failing" /\ run.emitted /\ row'.status = "FAILED",
         run'.at = "failing" /\ run'.emitted => event # None /\ event.event = "WORKFLOW_FAILED"
  PROVE  EventsInv'
<1>1. EventTypes'
  BY DEF EventsInv, EventTypes, Started
<1>2. TimesInv'
  <2>1. out.began \in Nat /\ out'.began \in Nat /\ tail.began \in Nat /\ clock \in Nat
    BY DEF EventsInv, EventTypes, Session
  <2>2. \A k \in DOMAIN history : history[k].at \in Nat
    BY EntriesAre
  <2>3. Older(clock) /\ out.began <= clock /\ tail.began <= clock
    BY DEF EventsInv, TimesInv
  <2>4. CASE clock' = clock + 1 /\ out'.began = clock + 1
    BY <2>1, <2>2, <2>3, <2>4 DEF TimesInv, Older, Silent
  <2>5. CASE clock' = clock /\ out'.began = out.began /\ Started(run)
    BY <2>1, <2>2, <2>3, <2>5 DEF EventsInv, TimesInv, Older, Silent
  <2> QED
    BY <2>4, <2>5
<1>3. OverInv'
  <2> SUFFICES ASSUME lost = 0, crashes = 0
               PROVE  /\ run'.at = "over" => Explained'
                      /\ run'.at = "failing" /\ run'.emitted => LastWord("WORKFLOW_FAILED")'
    BY DEF OverInv, Started
  <2>1. event # None => \A name \in Events : LastWord(name)' <=> event.event = name
    BY DEF LastWord, Silent
  <2>2. ASSUME run'.at = "over", event # None
        PROVE  Explained'
    <3>1. event.event \in Events /\ Explains(event.event, row'.status)
      BY <2>2 DEF Payload
    <3> QED
      BY <2>1, <2>2, <3>1 DEF Explained, Explains
  <2>3. ASSUME run'.at = "over", event = None
        PROVE  Explained'
    <3>1. LastWord("WORKFLOW_FAILED")
      BY <2>3 DEF EventsInv, OverInv
    <3>2. LastWord("WORKFLOW_FAILED")'
      BY <2>3, <3>1 DEF LastWord, Silent
    <3>3. Explains("WORKFLOW_FAILED", row'.status)
      BY <2>3 DEF Explains
    <3> QED
      BY <3>2, <3>3 DEF Explained, Explains, Events
  <2> QED
    BY <2>1, <2>2, <2>3 DEF Events
<1>4. ReportsInv'
  <2>1. Reports' = Reports
    BY DEF Reports
  <2>2. Cardinality(Reports) \in Nat /\ runs \in Nat
    BY FS_CardinalityType DEF EventsInv, ReportsInv, EventTypes
  <2>3. OwesReport(tail)' = OwesReport(tail)
    BY DEF OwesReport, Silent
  <2>4. Tally(OwesReport(out')) \in Nat /\ Tally(MayReport(run')) \in Nat
        /\ Tally(OwesReport(out)) \in Nat /\ Tally(OwesReport(tail)) \in Nat
        /\ Tally(MayReport(run)) \in Nat /\ Tally(OwesReport(tail))' = Tally(OwesReport(tail))
    BY <2>3 DEF Tally
  <2>5. Cardinality(Reports) + Tally(OwesReport(out')) + Tally(OwesReport(tail)) + Tally(MayReport(run'))
          <= runs
    BY <2>2, <2>4 DEF EventsInv, ReportsInv
  <2> QED
    BY <2>1, <2>4, <2>5 DEF EventsInv, ReportsInv
<1> QED
  BY <1>1, <1>2, <1>3, <1>4 DEF EventsInv

\* What SaveOwing and record_event leave in the session.
LEMMA SaveOwingIs ==
  ASSUME EventsInv, NEW w, NEW event \in Payload \cup {None}, SaveOwing(w, event)
  PROVE  /\ Silent(out) /\ row' = w /\ clock' = clock + 1
         /\ out' \in Session /\ out'.owed = event /\ out'.began = clock + 1
         /\ UNCHANGED <<history, tail, runs, lost, crashes>>
<1>1. clock \in Nat
  BY DEF EventsInv, EventTypes
<1>2. PICK q : q = Quiet(clock + 1)
  OBVIOUS
<1>3. q = [owed |-> None, began |-> clock + 1]
  BY <1>2 DEF Quiet
<1>4. out' = [q EXCEPT !.owed = event]
  BY <1>2 DEF SaveOwing
<1>5. out' \in Session /\ out'.owed = event /\ out'.began = clock + 1
  BY <1>1, <1>3, <1>4 DEF Session
<1> QED
  BY <1>5 DEF SaveOwing, counters

LEMMA OwingIs ==
  ASSUME EventsInv, NEW event \in Payload \cup {None}, Owing(event)
  PROVE  /\ Silent(out) /\ row' = row /\ clock' = clock
         /\ out' \in Session /\ out'.owed = event /\ out'.began = out.began
         /\ UNCHANGED <<history, tail, runs, lost, crashes>>
<1>1. out \in Session
  BY DEF EventsInv, EventTypes
<1>2. out' = [out EXCEPT !.owed = event]
  BY DEF Owing
<1>3. out' \in Session /\ out'.owed = event /\ out'.began = out.began
  BY <1>1, <1>2 DEF Session
<1> QED
  BY <1>3 DEF Owing, counters

\* A run at work is in one of its stages.
LEMMA StageIs ==
  ASSUME EventsInv, run.at \in {"working", "calling", "worked", "failing"}
  PROVE  Stage \in Stages /\ run.stages \in Seq(Stages)
         /\ Len(run.stages) \in 1 .. MaxStages
<1>1. run.stages \in Seq(Stages) /\ run.stage \in DOMAIN run.stages
      /\ Len(run.stages) \in 1 .. MaxStages
  BY DEF EventsInv, EventTypes, Run, InStage
<1> QED
  BY <1>1 DEF Stage

\* A milestone of a run that goes on.
LEMMA MilestoneKeeps ==
  ASSUME EventsInv, NEW name \in Events \ {"WORKFLOW_FAILED"},
         NEW stage \in Stages \cup {None, "WAITING_FOR_REVIEW"}, NEW w \in WorkflowRow,
         \/ SaveOwing(w, Event(name, stage, w))
         \/ Owing(Event(name, stage, w)) /\ Started(run),
         run.at \notin {"idle", "over", "failing"},
         run' \in Run, Started(run'), run'.at \notin {"over", "failing"},
         run'.stages = run.stages, ~run'.emitted, InStage(run')
  PROVE  EventsInv'
<1>1. PICK event : event = Event(name, stage, w)
  OBVIOUS
<1>2. event \in Payload /\ event # None /\ event.event = name
  BY <1>1, EventIsPayload
<1>0. row \in WorkflowRow
  BY DEF EventsInv, EventTypes
<1>3. /\ Silent(out) /\ row' \in WorkflowRow
      /\ \/ clock' = clock + 1 /\ out'.began = clock + 1
         \/ clock' = clock /\ out'.began = out.began /\ Started(run)
      /\ out' \in Session /\ out'.owed = event
      /\ UNCHANGED <<history, tail, runs, lost, crashes>>
  BY <1>0, <1>1, <1>2, SaveOwingIs, OwingIs
<1>4. Tally(OwesReport(out')) + Tally(MayReport(run')) <= Tally(MayReport(run))
  <2>1. ~OwesReport(out')
    BY <1>2, <1>3 DEF OwesReport
  <2>2. MayReport(run)
    BY DEF MayReport, EventsInv, ReportsInv
  <2> QED
    BY <2>1, <2>2 DEF Tally
<1>5. Len(run'.stages) \in 1 .. MaxStages
  BY DEF EventsInv, EventTypes
<1> QED
  BY <1>2, <1>3, <1>4, <1>5, OwingKeeps

LEMMA BeginKeeps == ASSUME EventsInv, Begin PROVE EventsInv'
<1>1. row \in WorkflowRow /\ run \in Run /\ Len(run.stages) \in 1 .. MaxStages /\ ~run.emitted
  BY DEF EventsInv, EventTypes, ReportsInv, Begin
<1>2. PICK w : w = BeginRun(row, Len(run.stages))
  OBVIOUS
<1>3. w \in WorkflowRow
  BY <1>1, <1>2, RowOperations
<1>4. SaveOwing(w, Event("WORKFLOW_STARTED", None, w))
  BY <1>2 DEF Begin
<1>5. /\ run' \in Run /\ run'.at = "between" /\ run'.stages = run.stages /\ ~run'.emitted
      /\ run.at = "claimed"
  BY <1>1 DEF Begin, Run, Places
<1> QED
  BY <1>3, <1>4, <1>5, MilestoneKeeps DEF Started, InStage, Events

LEMMA BeginStageKeeps == ASSUME EventsInv, BeginStage PROVE EventsInv'
<1>1. row \in WorkflowRow /\ run \in Run /\ ~run.emitted /\ run.at = "between"
  BY DEF EventsInv, EventTypes, ReportsInv, BeginStage
<1>2. run.stages \in Seq(Stages) /\ run.stage \in Nat /\ run.stage < Len(run.stages)
  BY <1>1 DEF Run, BeginStage
<1>3. PICK next : next = run.stages[run.stage + 1]
  OBVIOUS
<1>4. next \in Stages /\ run.stage + 1 \in DOMAIN run.stages
  BY <1>2, <1>3
<1>5. PICK w : w = EnterStage(row, next)
  OBVIOUS
<1>6. w \in WorkflowRow
  BY <1>1, <1>4, <1>5, RowOperations
<1>7. SaveOwing(w, Event("WORKFLOW_STAGE_STARTED", next, w))
  BY <1>3, <1>5 DEF BeginStage
<1>8. /\ run' \in Run /\ run'.at = "working" /\ run'.stages = run.stages /\ ~run'.emitted
      /\ run'.stage = run.stage + 1
  <2>1. PICK r1 : r1 = [run EXCEPT !.at = "working"]
    OBVIOUS
  <2>2. PICK r2 : r2 = [r1 EXCEPT !.stage = @ + 1]
    OBVIOUS
  <2>3. PICK r3 : r3 = [r2 EXCEPT !.attempt = 0]
    OBVIOUS
  <2>4. PICK r4 : r4 = [r3 EXCEPT !.emitted = FALSE]
    OBVIOUS
  <2>5. r1 \in Run /\ r1.at = "working" /\ r1.stages = run.stages /\ r1.stage = run.stage
    BY <1>1, <2>1 DEF Run, Places
  <2>6. r2 \in Run /\ r2.at = "working" /\ r2.stages = run.stages /\ r2.stage = run.stage + 1
    BY <2>2, <2>5 DEF Run
  <2>7. r3 \in Run /\ r3.at = "working" /\ r3.stages = run.stages /\ r3.stage = run.stage + 1
    BY <2>3, <2>6 DEF Run
  <2>8. /\ r4 \in Run /\ r4.at = "working" /\ r4.stages = run.stages /\ ~r4.emitted
        /\ r4.stage = run.stage + 1
    BY <2>4, <2>7 DEF Run
  <2>9. run' = r4
    BY <2>1, <2>2, <2>3, <2>4 DEF BeginStage
  <2> QED
    BY <2>8, <2>9
<1>9. InStage(run') /\ Started(run')
  BY <1>4, <1>8 DEF InStage, Started
<1> QED
  BY <1>1, <1>4, <1>6, <1>7, <1>8, <1>9, MilestoneKeeps DEF Events

LEMMA CallKeeps == ASSUME EventsInv, Call PROVE EventsInv'
<1>1. row \in WorkflowRow /\ run \in Run /\ ~run.emitted /\ run.at = "working"
      /\ InStage(run)
  BY DEF EventsInv, EventTypes, ReportsInv, Call
<1>2. Stage \in Stages
  BY <1>1, StageIs
<1>3. PICK w : w = ResumeStage(row, Stage)
  OBVIOUS
<1>4. w \in WorkflowRow
  BY <1>1, <1>2, <1>3, RowOperations
<1>5. /\ run' \in Run /\ run'.at = "calling" /\ run'.stages = run.stages /\ ~run'.emitted
      /\ run'.stage = run.stage
  <2>1. PICK r : r = [run EXCEPT !.at = "calling"]
    OBVIOUS
  <2>2. /\ r \in Run /\ r.at = "calling" /\ r.stages = run.stages /\ ~r.emitted
        /\ r.stage = run.stage
    BY <1>1, <2>1 DEF Run, Places
  <2>3. run' = [r EXCEPT !.attempt = @ + 1]
    BY <2>1 DEF Call
  <2> QED
    BY <2>2, <2>3 DEF Run
<1>6. InStage(run') /\ Started(run') /\ Started(run)
  BY <1>1, <1>5 DEF InStage, Started
<1>7. CASE SaveOwing(w, Event("WORKFLOW_STAGE_PROGRESS", Stage, w))
  BY <1>1, <1>2, <1>4, <1>5, <1>6, <1>7, MilestoneKeeps DEF Events
<1>8. CASE run.attempt = 0 /\ Owing(Event("WORKFLOW_STAGE_PROGRESS", Stage, w))
  BY <1>1, <1>2, <1>4, <1>5, <1>6, <1>8, MilestoneKeeps DEF Events
<1> QED
  BY <1>1, <1>3, <1>7, <1>8 DEF Call, Run

LEMMA RetryKeeps == ASSUME EventsInv, Retry PROVE EventsInv'
<1>1. row \in WorkflowRow /\ run \in Run /\ ~run.emitted /\ run.at = "calling"
      /\ InStage(run)
  BY DEF EventsInv, EventTypes, ReportsInv, Retry
<1>2. Stage \in Stages
  BY <1>1, StageIs
<1>3. PICK w : w = MarkRetrying(row)
  OBVIOUS
<1>4. w \in WorkflowRow
  BY <1>1, <1>3, RowOperations
<1>5. SaveOwing(w, Event("WORKFLOW_RETRY", Stage, w))
  BY <1>3 DEF Retry
<1>6. /\ run' \in Run /\ run'.at = "working" /\ run'.stages = run.stages /\ ~run'.emitted
      /\ InStage(run') /\ Started(run')
  BY <1>1 DEF Retry, Run, Places, InStage, Started
<1> QED
  BY <1>1, <1>2, <1>4, <1>5, <1>6, MilestoneKeeps DEF Events

LEMMA EndStageKeeps == ASSUME EventsInv, EndStage PROVE EventsInv'
<1>1. row \in WorkflowRow /\ run \in Run /\ ~run.emitted /\ run.at = "worked"
  BY DEF EventsInv, EventTypes, ReportsInv, EndStage
<1>2. Stage \in Stages
  BY <1>1, StageIs
<1>3. PICK w : w = CompleteStage(row)
  OBVIOUS
<1>4. w \in WorkflowRow
  BY <1>1, <1>3, RowOperations
<1>5. SaveOwing(w, Event("WORKFLOW_STAGE_COMPLETED", Stage, w))
  BY <1>3 DEF EndStage
<1>6. /\ run' \in Run /\ run'.at = "between" /\ run'.stages = run.stages /\ ~run'.emitted
      /\ InStage(run') /\ Started(run')
  BY <1>1 DEF EndStage, Run, Places, InStage, Started
<1> QED
  BY <1>1, <1>2, <1>4, <1>5, <1>6, MilestoneKeeps DEF Events

\* The run goes on, or fails, without a word.
LEMMA SilentlyKeeps ==
  ASSUME EventsInv, Silent(out), UNCHANGED otherVars, run.at \in {"working", "calling"},
         NEW at \in {"worked", "failing"}, run' = [run EXCEPT !.at = at]
  PROVE  EventsInv'
<1>1. row \in WorkflowRow /\ run \in Run /\ ~run.emitted /\ InStage(run) /\ out \in Session
      /\ Len(run.stages) \in 1 .. MaxStages
  BY DEF EventsInv, EventTypes, ReportsInv
<1>2. /\ run' \in Run /\ run'.at = at /\ run'.stages = run.stages /\ ~run'.emitted
      /\ InStage(run') /\ Started(run') /\ Started(run)
  BY <1>1 DEF Run, Places, InStage, Started
<1>3. out' = out /\ row' = row /\ clock' = clock /\ out.owed = None
      /\ UNCHANGED <<history, tail, runs, lost, crashes>>
  BY DEF otherVars, counters, Silent
<1>4. Tally(OwesReport(out')) + Tally(MayReport(run')) <= Tally(MayReport(run))
  <2>1. ~OwesReport(out') /\ MayReport(run)
    BY <1>1, <1>3 DEF OwesReport, MayReport, Silent
  <2> QED
    BY <2>1 DEF Tally
<1> QED
  BY <1>1, <1>2, <1>3, <1>4, OwingKeeps

LEMMA ProduceKeeps == ASSUME EventsInv, Produce PROVE EventsInv'
<1>1. CASE run.at = "calling" /\ Silent(out) /\ UNCHANGED otherVars
           /\ run' = [run EXCEPT !.at = "worked"]
  BY <1>1, SilentlyKeeps
<1>2. CASE /\ run.at = "working" /\ run' = [run EXCEPT !.at = "worked"]
           /\ Owing(Event("COURSE_PLAN_GENERATED", Stage, row))
  <2>1. row \in WorkflowRow /\ run \in Run /\ ~run.emitted /\ InStage(run)
    BY <1>2 DEF EventsInv, EventTypes, ReportsInv
  <2>2. Stage \in Stages
    BY <1>2, StageIs
  <2>3. /\ run' \in Run /\ run'.at = "worked" /\ run'.stages = run.stages /\ ~run'.emitted
        /\ InStage(run') /\ Started(run') /\ Started(run)
    BY <1>2, <2>1 DEF Run, Places, InStage, Started
  <2> QED
    BY <1>2, <2>1, <2>2, <2>3, MilestoneKeeps DEF Events
<1> QED
  BY <1>1, <1>2 DEF Produce

LEMMA BreakKeeps == ASSUME EventsInv, Break PROVE EventsInv'
BY SilentlyKeeps DEF Break

LEMMA ReportFailureKeeps == ASSUME EventsInv, ReportFailure PROVE EventsInv'
<1>1. row \in WorkflowRow /\ run \in Run /\ ~run.emitted /\ run.at = "calling"
      /\ InStage(run)
  BY DEF EventsInv, EventTypes, ReportsInv, ReportFailure
<1>2. Stage \in Stages /\ Len(run.stages) \in 1 .. MaxStages
  BY <1>1, StageIs
<1>3. PICK event : event = Event("WORKFLOW_FAILED", Stage, row)
  OBVIOUS
<1>4. event \in Payload /\ event # None /\ event.event = "WORKFLOW_FAILED"
  BY <1>1, <1>2, <1>3, EventIsPayload DEF Events
<1>5. Owing(event) /\ run' = [run EXCEPT !.at = "failing", !.emitted = TRUE]
  BY <1>3 DEF ReportFailure
<1>6. /\ run' \in Run /\ run'.at = "failing" /\ run'.stages = run.stages /\ run'.emitted
      /\ run'.stage = run.stage
  <2>1. PICK r : r = [run EXCEPT !.at = "failing"]
    OBVIOUS
  <2>2. r \in Run /\ r.at = "failing" /\ r.stages = run.stages /\ r.stage = run.stage
    BY <1>1, <2>1 DEF Run, Places
  <2>3. run' = [r EXCEPT !.emitted = TRUE]
    BY <1>5, <2>1
  <2> QED
    BY <2>2, <2>3 DEF Run
<1>7. InStage(run') /\ Started(run') /\ Started(run)
  BY <1>1, <1>6 DEF InStage, Started
<1>8. Tally(OwesReport(out')) + Tally(MayReport(run')) <= Tally(MayReport(run))
  <2>1. ~MayReport(run') /\ MayReport(run)
    BY <1>1, <1>6 DEF MayReport
  <2> QED
    BY <2>1 DEF Tally
<1>9. /\ Silent(out) /\ row' = row /\ clock' = clock
      /\ out' \in Session /\ out'.owed = event /\ out'.began = out.began
      /\ UNCHANGED <<history, tail, runs, lost, crashes>>
  BY <1>4, <1>5, OwingIs
<1> QED
  BY <1>1, <1>2, <1>4, <1>6, <1>7, <1>8, <1>9, OwingKeeps

\* A run that ends with its row and its last event.
LEMMA EndKeeps ==
  ASSUME EventsInv, NEW w \in WorkflowRow, NEW event \in Payload \cup {None},
         SaveOwing(w, event), run' = [run EXCEPT !.at = "over"], run.at # "idle", run.at # "over",
         \/ event # None /\ Explains(event.event, w.status)
         \/ event = None /\ run.at = "failing" /\ run.emitted /\ w.status = "FAILED",
         event # None /\ event.event = "WORKFLOW_FAILED" => ~run.emitted
  PROVE  EventsInv'
<1>1. run \in Run /\ Len(run.stages) \in 1 .. MaxStages
  BY DEF EventsInv, EventTypes
<1>2. run' \in Run /\ run'.at = "over" /\ run'.stages = run.stages
  BY <1>1 DEF Run, Places
<1>3. InStage(run') /\ Started(run')
  BY <1>2 DEF InStage, Started
<1>4. /\ Silent(out) /\ row' = w /\ clock' = clock + 1
      /\ out' \in Session /\ out'.owed = event /\ out'.began = clock + 1
      /\ UNCHANGED <<history, tail, runs, lost, crashes>>
  BY SaveOwingIs
<1>5. Tally(OwesReport(out')) + Tally(MayReport(run')) <= Tally(MayReport(run))
  <2>1. ~MayReport(run')
    BY <1>2 DEF MayReport
  <2>2. OwesReport(out') => MayReport(run)
    BY <1>4 DEF MayReport, OwesReport, Silent
  <2> QED
    BY <2>1, <2>2 DEF Tally
<1> QED
  BY <1>1, <1>2, <1>3, <1>4, <1>5, OwingKeeps

LEMMA FailedIs ==
  ASSUME NEW w \in WorkflowRow
  PROVE  FailRun(w) \in WorkflowRow /\ FailRun(w).status = "FAILED"
<1>1. FailRun(w) \in WorkflowRow
  BY RowOperations
<1> QED
  BY <1>1 DEF FailRun, WorkflowRow

LEMMA FailKeeps == ASSUME EventsInv, Fail PROVE EventsInv'
<1>1. row \in WorkflowRow /\ run.at = "failing"
  BY DEF EventsInv, EventTypes, Fail
<1>2. Stage \in Stages
  BY <1>1, StageIs
<1>3. PICK report : report = Event("WORKFLOW_FAILED", Stage, row)
  OBVIOUS
<1>4. report \in Payload /\ report # None /\ report.event = "WORKFLOW_FAILED"
  BY <1>1, <1>2, <1>3, EventIsPayload DEF Events
<1>5. PICK w : w = FailRun(row)
  OBVIOUS
<1>6. w \in WorkflowRow /\ w.status = "FAILED"
  BY <1>1, <1>5, FailedIs
<1>7. SaveOwing(w, IF run.emitted THEN None ELSE report) /\ run' = [run EXCEPT !.at = "over"]
  BY <1>3, <1>5 DEF Fail
<1>8. CASE run.emitted
  BY <1>1, <1>6, <1>7, <1>8, EndKeeps
<1>9. CASE ~run.emitted
  BY <1>1, <1>4, <1>6, <1>7, <1>9, EndKeeps DEF Explains
<1> QED
  BY <1>8, <1>9

LEMMA FailUnpreparedKeeps == ASSUME EventsInv, FailUnprepared PROVE EventsInv'
<1>1. row \in WorkflowRow /\ run.at = "claimed" /\ ~run.emitted
  BY DEF EventsInv, EventTypes, ReportsInv, FailUnprepared
<1>2. PICK event : event = Event("WORKFLOW_FAILED", "PLANNING_COURSE", row)
  OBVIOUS
<1>3. event \in Payload /\ event # None /\ event.event = "WORKFLOW_FAILED"
  BY <1>1, <1>2, EventIsPayload DEF Events, Stages
<1>4. PICK w : w = FailRun(row)
  OBVIOUS
<1>5. w \in WorkflowRow /\ w.status = "FAILED"
  BY <1>1, <1>4, FailedIs
<1>6. SaveOwing(w, event) /\ run' = [run EXCEPT !.at = "over"]
  BY <1>2, <1>4 DEF FailUnprepared
<1> QED
  BY <1>1, <1>3, <1>5, <1>6, EndKeeps DEF Explains

LEMMA WaitKeeps == ASSUME EventsInv, Wait PROVE EventsInv'
<1>1. row \in WorkflowRow /\ run.at = "between" /\ ~run.emitted
  BY DEF EventsInv, EventTypes, ReportsInv, Wait
<1>2. PICK w : w = WaitForReview(row)
  OBVIOUS
<1>3. w \in WorkflowRow /\ w.status = "WAITING_FOR_REVIEW"
  <2>1. w \in WorkflowRow
    BY <1>1, <1>2, RowOperations
  <2> QED
    BY <1>1, <1>2, <2>1 DEF WaitForReview, WorkflowRow
<1>4. PICK event : event = Event("WORKFLOW_WAITING_FOR_REVIEW", "WAITING_FOR_REVIEW", w)
  OBVIOUS
<1>5. event \in Payload /\ event # None /\ event.event = "WORKFLOW_WAITING_FOR_REVIEW"
  BY <1>3, <1>4, EventIsPayload DEF Events
<1>6. SaveOwing(w, event) /\ run' = [run EXCEPT !.at = "over"]
  BY <1>2, <1>4 DEF Wait
<1> QED
  BY <1>1, <1>3, <1>5, <1>6, EndKeeps DEF Explains

-----------------------------------------------------------------------------
(* A session records the event it owes.                                    *)

LEMMA RecordedIs ==
  ASSUME EventsInv, NEW session \in Session, session.began <= clock, Recorded(session)
  PROVE  /\ ~Silent(session) /\ clock' = clock + 1 /\ clock \in Nat
         /\ history' \in Seq(Entry)
         /\ Len(history) + 1 \notin DOMAIN history
         /\ DOMAIN history' = DOMAIN history \cup {Len(history) + 1}
         /\ \A k \in DOMAIN history : history'[k] = history[k]
         /\ history'[Len(history) + 1].at = session.began
         /\ history'[Len(history) + 1].event = session.owed
         /\ Older(clock)'
<1>1. history \in Seq(Entry) /\ clock \in Nat
  BY DEF EventsInv, EventTypes
<1>2. ~Silent(session) /\ clock' = clock + 1
  BY DEF Recorded
<1>3. PICK entry : entry = [event |-> session.owed, at |-> session.began]
  OBVIOUS
<1>4. entry \in Entry /\ entry.at = session.began /\ entry.event = session.owed
  BY <1>2, <1>3 DEF Entry, Session, Silent
<1>5. history' = Append(history, entry)
  BY <1>3 DEF Recorded
<1>6. /\ history' \in Seq(Entry)
      /\ DOMAIN history' = DOMAIN history \cup {Len(history) + 1}
      /\ Len(history) + 1 \notin DOMAIN history
      /\ \A k \in DOMAIN history : history'[k] = history[k]
      /\ history'[Len(history) + 1] = entry
  BY <1>1, <1>4, <1>5
<1>7. Older(clock)'
  <2>1. Older(clock)
    BY DEF EventsInv, TimesInv
  <2>2. \A k \in DOMAIN history : history[k].at \in Nat
    BY EntriesAre
  <2>3. session.began \in Nat
    BY DEF Session
  <2> SUFFICES ASSUME NEW k \in DOMAIN history'
               PROVE  history'[k].at < clock'
    BY DEF Older
  <2>4. CASE k \in DOMAIN history
    BY <1>1, <1>2, <1>6, <2>1, <2>2, <2>4 DEF Older
  <2>5. CASE k = Len(history) + 1
    BY <1>1, <1>2, <1>4, <1>6, <2>3, <2>5
  <2> QED
    BY <1>6, <2>4, <2>5
<1> QED
  BY <1>1, <1>2, <1>4, <1>6, <1>7

\* A recorded report is one report more.
LEMMA ReportsRecorded ==
  ASSUME EventsInv, NEW session \in Session, session.began <= clock, Recorded(session)
  PROVE  /\ IsFiniteSet(Reports')
         /\ Cardinality(Reports') = Cardinality(Reports) + Tally(OwesReport(session))
         /\ Cardinality(Reports) \in Nat
<1> DEFINE new == Len(history) + 1
<1>1. /\ ~Silent(session)
      /\ new \notin DOMAIN history
      /\ DOMAIN history' = DOMAIN history \cup {new}
      /\ \A k \in DOMAIN history : history'[k] = history[k]
      /\ history'[new].event = session.owed
  BY RecordedIs
<1>2. IsFiniteSet(Reports) /\ Cardinality(Reports) \in Nat /\ new \notin Reports
  BY <1>1, FS_CardinalityType DEF EventsInv, ReportsInv, Reports
<1>3. CASE OwesReport(session)
  <2>1. Reports' = Reports \cup {new}
    BY <1>1, <1>3 DEF Reports, OwesReport
  <2>2. IsFiniteSet(Reports \cup {new}) /\ Cardinality(Reports \cup {new}) = Cardinality(Reports) + 1
    BY <1>2, FS_AddElement
  <2> QED
    BY <1>2, <1>3, <2>1, <2>2 DEF Tally
<1>4. CASE ~OwesReport(session)
  <2>1. Reports' = Reports
    BY <1>1, <1>4 DEF Reports, OwesReport
  <2> QED
    BY <1>2, <1>4, <2>1 DEF Tally
<1> QED
  BY <1>3, <1>4

LEMMA RecordKeeps == ASSUME EventsInv, Record PROVE EventsInv'
<1>1. out \in Session /\ tail \in Session /\ run \in Run /\ out.began <= clock /\ tail.began <= clock
  BY DEF EventsInv, EventTypes, TimesInv
<1>2. /\ Recorded(out) /\ out' = Quiet(clock + 1)
      /\ UNCHANGED <<row, run, tail, runs, lost, crashes>>
  BY DEF Record, counters
<1>3. /\ ~Silent(out) /\ clock' = clock + 1 /\ clock \in Nat
      /\ history' \in Seq(Entry)
      /\ Len(history) + 1 \notin DOMAIN history
      /\ DOMAIN history' = DOMAIN history \cup {Len(history) + 1}
      /\ \A k \in DOMAIN history : history'[k] = history[k]
      /\ history'[Len(history) + 1].at = out.began
      /\ history'[Len(history) + 1].event = out.owed
      /\ Older(clock)'
  BY <1>1, <1>2, RecordedIs
<1>4. out' \in Session /\ Silent(out') /\ out'.began = clock'
  BY <1>2, <1>3, QuietIs
<1>5. EventTypes'
  BY <1>2, <1>3, <1>4 DEF EventsInv, EventTypes, InStage
<1>6. TimesInv'
  <2>1. tail.began \in Nat
    BY <1>1 DEF Session
  <2> QED
    BY <1>1, <1>2, <1>3, <1>4, <2>1 DEF TimesInv, Older
<1>7. ASSUME NEW name, Started(run), LastWord(name)
      PROVE  LastWord(name)'
  <2>1. Older(out.began) /\ (~Silent(tail) => tail.began < out.began)
    BY <1>7 DEF EventsInv, TimesInv
  <2>2. \A j \in DOMAIN history' \ {Len(history) + 1} : history'[j].at < out.began
    BY <1>3, <2>1 DEF Older
  <2>3. history'[Len(history) + 1].event.event = name
    BY <1>3, <1>7 DEF LastWord
  <2>4. ~Silent(tail') => tail'.began < history'[Len(history) + 1].at
    BY <1>2, <1>3, <2>1
  <2> QED
    BY <1>3, <1>4, <2>2, <2>3, <2>4 DEF LastWord
<1>8. OverInv'
  <2>1. Started(run) /\ Explained => Explained'
    BY <1>2, <1>7 DEF Explained
  <2> QED
    BY <1>2, <1>7, <2>1 DEF EventsInv, OverInv, Started
<1>9. ReportsInv'
  <2>1. /\ IsFiniteSet(Reports') /\ Cardinality(Reports) \in Nat
        /\ Cardinality(Reports') = Cardinality(Reports) + Tally(OwesReport(out))
    BY <1>1, <1>2, ReportsRecorded
  <2>2. Tally(OwesReport(out')) = 0
    BY <1>4 DEF Tally, OwesReport
  <2>3. /\ Tally(OwesReport(tail))' = Tally(OwesReport(tail)) /\ Tally(OwesReport(tail)) \in Nat
        /\ Tally(MayReport(run))' = Tally(MayReport(run)) /\ Tally(MayReport(run)) \in Nat
        /\ Tally(OwesReport(out)) \in Nat
    BY <1>2 DEF Tally, OwesReport, MayReport, Silent
  <2>4. runs \in Nat /\ runs' = runs
    BY <1>2 DEF EventsInv, EventTypes
  <2> QED
    BY <1>2, <2>1, <2>2, <2>3, <2>4 DEF EventsInv, ReportsInv
<1> QED
  BY <1>5, <1>6, <1>8, <1>9 DEF EventsInv

LEMMA TailRecordKeeps == ASSUME EventsInv, TailRecord PROVE EventsInv'
<1>1. out \in Session /\ tail \in Session /\ run \in Run /\ out.began <= clock /\ tail.began <= clock
  BY DEF EventsInv, EventTypes, TimesInv
<1>2. /\ Recorded(tail) /\ tail' = Quiet(0)
      /\ UNCHANGED <<row, run, out, runs, lost, crashes>>
  BY DEF TailRecord, counters
<1>3. /\ ~Silent(tail) /\ clock' = clock + 1 /\ clock \in Nat
      /\ history' \in Seq(Entry)
      /\ Len(history) + 1 \notin DOMAIN history
      /\ DOMAIN history' = DOMAIN history \cup {Len(history) + 1}
      /\ \A k \in DOMAIN history : history'[k] = history[k]
      /\ history'[Len(history) + 1].at = tail.began
      /\ Older(clock)'
  BY <1>1, <1>2, RecordedIs
<1>4. tail' \in Session /\ Silent(tail') /\ tail'.began = 0 /\ tail.began \in Nat /\ out.began \in Nat
  BY <1>1, <1>2, QuietIs DEF Session
<1>5. EventTypes'
  BY <1>2, <1>3, <1>4 DEF EventsInv, EventTypes, InStage
<1>6. TimesInv'
  <2>1. Started(run) => Older(out.began) /\ tail.began < out.began
    BY <1>3 DEF EventsInv, TimesInv
  <2>2. Started(run) => Older(out.began)'
    BY <1>2, <1>3, <2>1 DEF Older
  <2> QED
    BY <1>1, <1>2, <1>3, <1>4, <2>2 DEF TimesInv
<1>7. ASSUME NEW name, LastWord(name)
      PROVE  LastWord(name)'
  <2>1. CASE Silent(out)
    <3>1. PICK k \in DOMAIN history :
            /\ history[k].event.event = name
            /\ \A j \in DOMAIN history \ {k} : history[j].at < history[k].at
            /\ tail.began < history[k].at
      BY <1>3, <1>7, <2>1 DEF LastWord
    <3>2. k \in DOMAIN history' /\ history'[k] = history[k]
      BY <1>3
    <3>3. \A j \in DOMAIN history' \ {k} : history'[j].at < history'[k].at
      BY <1>3, <3>1, <3>2
    <3> QED
      BY <1>2, <1>4, <2>1, <3>1, <3>2, <3>3 DEF LastWord
  <2>2. CASE ~Silent(out)
    BY <1>2, <1>7, <2>2 DEF LastWord
  <2> QED
    BY <2>1, <2>2
<1>8. OverInv'
  <2>1. Explained => Explained'
    BY <1>2, <1>7 DEF Explained
  <2> QED
    BY <1>2, <1>7, <2>1 DEF EventsInv, OverInv
<1>9. ReportsInv'
  <2>1. /\ IsFiniteSet(Reports') /\ Cardinality(Reports) \in Nat
        /\ Cardinality(Reports') = Cardinality(Reports) + Tally(OwesReport(tail))
    BY <1>1, <1>2, ReportsRecorded
  <2>2. Tally(OwesReport(tail')) = 0
    BY <1>4 DEF Tally, OwesReport
  <2>3. /\ Tally(OwesReport(out))' = Tally(OwesReport(out)) /\ Tally(OwesReport(out)) \in Nat
        /\ Tally(MayReport(run))' = Tally(MayReport(run)) /\ Tally(MayReport(run)) \in Nat
        /\ Tally(OwesReport(tail)) \in Nat
    BY <1>2 DEF Tally, OwesReport, MayReport, Silent
  <2>4. runs \in Nat /\ runs' = runs
    BY <1>2 DEF EventsInv, EventTypes
  <2> QED
    BY <1>2, <2>1, <2>2, <2>3, <2>4 DEF EventsInv, ReportsInv
<1> QED
  BY <1>5, <1>6, <1>8, <1>9 DEF EventsInv

-----------------------------------------------------------------------------
(* The next run, and what goes wrong.                                      *)

\* A run of known stages takes over, and the session of the last one goes on.
LEMMA NextRunKeeps ==
  ASSUME EventsInv, NEW stages \in Kinds, NextRun(stages, "claimed"),
         row' \in WorkflowRow, NEW t \in Nat, out' = Quiet(t), clock' = t,
         clock' = clock \/ clock' = clock + 1,
         UNCHANGED <<history, lost, crashes>>
  PROVE  EventsInv'
<1>1. /\ out \in Session /\ tail \in Session /\ clock \in Nat /\ runs \in Nat
      /\ Older(clock) /\ out.began <= clock /\ history \in Seq(Entry)
      /\ lost \in Nat /\ crashes \in Nat
  BY DEF EventsInv, EventTypes, TimesInv
<1>2. out' \in Session /\ Silent(out') /\ out'.began = clock'
  BY QuietIs
<1>3. tail' \in Session /\ tail'.began <= clock /\ (OwesReport(tail') <=> OwesReport(out))
  <2>1. CASE Silent(out)
    <3>1. tail' = Quiet(0)
      BY <2>1 DEF NextRun
    <3>2. tail' \in Session /\ Silent(tail') /\ tail'.began = 0
      BY <3>1, QuietIs
    <3> QED
      BY <1>1, <2>1, <3>2 DEF OwesReport
  <2>2. CASE ~Silent(out)
    <3>1. tail' = out
      BY <2>2 DEF NextRun
    <3> QED
      BY <1>1, <3>1
  <2> QED
    BY <2>1, <2>2
<1>4. /\ run' \in Run /\ run'.at = "claimed" /\ run'.stages = stages /\ ~run'.emitted
  <2>1. PICK r : r = [NoRun EXCEPT !.at = "claimed"]
    OBVIOUS
  <2>2. r \in Run /\ r.at = "claimed" /\ ~r.emitted
    BY <2>1, NoRunIs DEF Run, Places
  <2>3. run' = [r EXCEPT !.stages = stages]
    BY <2>1 DEF NextRun
  <2>4. stages \in Seq(Stages)
    BY EventsAssumption
  <2> QED
    BY <2>2, <2>3, <2>4 DEF Run
<1>5. EventTypes'
  BY <1>1, <1>2, <1>3, <1>4, EventsAssumption DEF EventTypes, InStage, NextRun
<1>6. TimesInv'
  <2>1. \A k \in DOMAIN history : history[k].at \in Nat
    BY EntriesAre
  <2>2. Older(clock)'
    BY <1>1, <2>1 DEF Older
  <2>3. tail'.began <= clock'
    BY <1>1, <1>3 DEF Session
  <2> QED
    BY <1>2, <1>4, <2>2, <2>3 DEF TimesInv, Started
<1>7. OverInv'
  BY <1>4 DEF OverInv
<1>8. ReportsInv'
  <2>1. Reports' = Reports
    BY DEF Reports
  <2>2. Cardinality(Reports) \in Nat
    BY FS_CardinalityType DEF EventsInv, ReportsInv
  <2>3. Tally(OwesReport(out')) = 0 /\ Tally(OwesReport(tail)) = 0
    BY <1>2 DEF Tally, OwesReport, NextRun
  <2>4. Tally(MayReport(run)) = 0 /\ Tally(MayReport(run')) = 1
    BY <1>4 DEF Tally, MayReport, NextRun
  <2>5. Tally(OwesReport(tail')) = Tally(OwesReport(out)) /\ Tally(OwesReport(out)) \in Nat
    BY <1>3 DEF Tally
  <2>6. runs' = runs + 1
    BY DEF NextRun
  <2>7. Cardinality(Reports) + Tally(OwesReport(out)) <= runs
    BY <2>2, <2>3, <2>4, <2>5 DEF EventsInv, ReportsInv
  <2>8. Cardinality(Reports) + Tally(OwesReport(out')) + Tally(OwesReport(tail')) + Tally(MayReport(run'))
          <= runs'
    BY <1>1, <2>2, <2>3, <2>4, <2>5, <2>6, <2>7
  <2> QED
    BY <1>4, <2>1, <2>8 DEF EventsInv, ReportsInv
<1> QED
  BY <1>5, <1>6, <1>7, <1>8 DEF EventsInv

LEMMA ClaimKeeps == ASSUME EventsInv, NEW stages \in Kinds, Claim(stages) PROVE EventsInv'
<1>1. clock \in Nat /\ row \in WorkflowRow
  BY DEF EventsInv, EventTypes
<1>2. row' \in WorkflowRow
  BY <1>1, RowOperations DEF Claim, Stages
<1>3. /\ NextRun(stages, "claimed") /\ clock' = clock + 1 /\ out' = Quiet(clock + 1)
      /\ UNCHANGED <<history, lost, crashes>>
  BY DEF Claim
<1> QED
  BY <1>1, <1>2, <1>3, NextRunKeeps

LEMMA StartAnalysisKeeps ==
  ASSUME EventsInv, NEW stages \in Kinds, StartAnalysis(stages) PROVE EventsInv'
<1>1. clock \in Nat /\ row \in WorkflowRow
  BY DEF EventsInv, EventTypes
<1>2. /\ NextRun(stages, "claimed") /\ clock' = clock /\ out' = Quiet(clock)
      /\ UNCHANGED <<row, history, lost, crashes>>
  BY DEF StartAnalysis
<1> QED
  BY <1>1, <1>2, NextRunKeeps

\* A run is cut short: it owes nothing any more.
LEMMA CutKeeps ==
  ASSUME EventsInv, run' = NoRun, out' = Quiet(0), tail' = tail \/ tail' = Quiet(0),
         UNCHANGED <<row, history, clock, runs>>,
         lost' \in Nat, crashes' \in Nat, lost' # 0 \/ crashes' # 0
  PROVE  EventsInv'
<1>1. run' \in Run /\ run'.at = "idle" /\ ~run'.emitted
  BY NoRunIs
<1>2. out' \in Session /\ Silent(out') /\ out'.began = 0
  BY QuietIs
<1>3. /\ tail' \in Session /\ tail'.began <= clock /\ (OwesReport(tail') => OwesReport(tail))
      /\ clock \in Nat
  <2>1. tail \in Session /\ tail.began <= clock /\ clock \in Nat
    BY DEF EventsInv, EventTypes, TimesInv
  <2>2. CASE tail' = Quiet(0)
    <3>1. tail' \in Session /\ Silent(tail') /\ tail'.began = 0
      BY <2>2, QuietIs
    <3> QED
      BY <2>1, <3>1 DEF OwesReport
  <2> QED
    BY <2>1, <2>2
<1>4. EventTypes'
  BY <1>1, <1>2, <1>3 DEF EventsInv, EventTypes, InStage
<1>5. TimesInv'
  BY <1>1, <1>2, <1>3 DEF EventsInv, TimesInv, Older, Started
<1>6. OverInv'
  BY DEF OverInv
<1>7. ReportsInv'
  <2>1. Reports' = Reports
    BY DEF Reports
  <2>2. Cardinality(Reports) \in Nat /\ runs \in Nat
    BY FS_CardinalityType DEF EventsInv, ReportsInv, EventTypes
  <2>3. Tally(OwesReport(out')) = 0 /\ Tally(MayReport(run')) = 0
    BY <1>1, <1>2 DEF Tally, OwesReport, MayReport
  <2>4. /\ Tally(OwesReport(tail')) \in Nat /\ Tally(OwesReport(tail)) \in Nat
        /\ Tally(OwesReport(out)) \in Nat /\ Tally(MayReport(run)) \in Nat
        /\ Tally(OwesReport(tail')) <= Tally(OwesReport(tail))
    BY <1>3 DEF Tally
  <2>5. Cardinality(Reports) + Tally(OwesReport(out')) + Tally(OwesReport(tail')) + Tally(MayReport(run'))
          <= runs
    BY <2>2, <2>3, <2>4 DEF EventsInv, ReportsInv
  <2> QED
    BY <1>1, <2>1, <2>5 DEF EventsInv, ReportsInv
<1> QED
  BY <1>4, <1>5, <1>6, <1>7 DEF EventsInv

LEMMA CrashKeeps == ASSUME EventsInv, ServerCrash PROVE EventsInv'
<1>1. lost \in Nat /\ crashes \in Nat
  BY DEF EventsInv, EventTypes
<1> QED
  BY <1>1, CutKeeps DEF ServerCrash

LEMMA RecordFailsKeeps == ASSUME EventsInv, RecordFails PROVE EventsInv'
<1>1. lost \in Nat /\ crashes \in Nat /\ out \in Session /\ run \in Run /\ InStage(run)
  BY DEF EventsInv, EventTypes
<1>2. lost' = lost + 1 /\ UNCHANGED <<row, history, clock, tail, runs, crashes>>
  BY DEF RecordFails
<1>3. CASE run' = NoRun /\ out' = Quiet(0)
  BY <1>1, <1>2, <1>3, CutKeeps
<1>4. CASE run' = AfterLoss /\ out' = [out EXCEPT !.owed = None]
  <2>1. out' \in Session /\ Silent(out') /\ out'.began = out.began
    BY <1>1, <1>4 DEF Session, Silent
  <2>2. \/ run' = run
        \/ run.at = "worked" /\ run' = [run EXCEPT !.at = "failing"]
    BY <1>4 DEF AfterLoss
  <2>3. /\ run' \in Run /\ run'.stages = run.stages /\ run'.emitted = run.emitted
        /\ InStage(run') /\ (Started(run') <=> Started(run)) /\ (run'.at # "idle" => run.at # "idle")
        /\ (MayReport(run') <=> MayReport(run))
        /\ (run.at = "failing" => run'.at = "failing") /\ (run.at = "over" => run'.at = "over")
    BY <1>1, <2>2 DEF Run, Places, InStage, Started, MayReport
  <2>4. EventTypes'
    BY <1>1, <1>2, <2>1, <2>3 DEF EventsInv, EventTypes
  <2>5. TimesInv'
    BY <1>2, <2>1, <2>3 DEF EventsInv, TimesInv, Older, Silent
  <2>6. OverInv'
    BY <1>1, <1>2 DEF OverInv
  <2>7. ReportsInv'
    <3>1. Reports' = Reports
      BY <1>2 DEF Reports
    <3>2. Cardinality(Reports) \in Nat /\ runs \in Nat
      BY FS_CardinalityType DEF EventsInv, ReportsInv, EventTypes
    <3>3. Tally(OwesReport(out')) = 0
      BY <2>1 DEF Tally, OwesReport
    <3>4. /\ Tally(OwesReport(tail))' = Tally(OwesReport(tail)) /\ Tally(OwesReport(tail)) \in Nat
          /\ Tally(MayReport(run')) = Tally(MayReport(run)) /\ Tally(MayReport(run)) \in Nat
          /\ Tally(OwesReport(out)) \in Nat
      BY <1>2, <2>3 DEF Tally, OwesReport, Silent
    <3>5. Cardinality(Reports) + Tally(OwesReport(out')) + Tally(OwesReport(tail)) + Tally(MayReport(run'))
            <= runs
      BY <3>2, <3>3, <3>4 DEF EventsInv, ReportsInv
    <3> QED
      BY <1>2, <2>3, <3>1, <3>4, <3>5 DEF EventsInv, ReportsInv
  <2> QED
    BY <2>4, <2>5, <2>6, <2>7 DEF EventsInv
<1> QED
  BY <1>3, <1>4 DEF RecordFails

-----------------------------------------------------------------------------
(* The theorem.                                                            *)

LEMMA NewInit == ASSUME New, tail = Quiet(0), lost = 0, crashes = 0 PROVE EventsInv
<1>1. row \in WorkflowRow
  BY CreateRow DEF New, MaxStages
<1>2. out \in Session /\ tail \in Session /\ Silent(out) /\ Silent(tail) /\ out.began = 0 /\ tail.began = 0
  BY QuietIs DEF New
<1>3. run \in Run /\ run.at = "idle" /\ ~run.emitted
  BY NoRunIs DEF New
<1>4. history = <<>> /\ clock = 0 /\ runs = 0
  BY DEF New
<1>5. EventTypes
  BY <1>1, <1>2, <1>3, <1>4 DEF EventTypes, InStage
<1>6. TimesInv
  BY <1>2, <1>3, <1>4 DEF TimesInv, Older, Started
<1>7. OverInv
  BY <1>3, <1>4 DEF OverInv
<1>8. ReportsInv
  <2>1. Reports = {}
    BY <1>4 DEF Reports
  <2>2. IsFiniteSet(Reports) /\ Cardinality(Reports) = 0
    BY <2>1, FS_EmptySet
  <2>3. Tally(OwesReport(out)) = 0 /\ Tally(OwesReport(tail)) = 0 /\ Tally(MayReport(run)) = 0
    BY <1>2, <1>3 DEF Tally, OwesReport, MayReport
  <2> QED
    BY <1>3, <1>4, <2>2, <2>3 DEF ReportsInv
<1> QED
  BY <1>5, <1>6, <1>7, <1>8 DEF EventsInv

LEMMA JustFailedInit ==
  ASSUME JustFailed, tail = Quiet(0), lost = 0, crashes = 0 PROVE EventsInv
<1>1. PICK w : w = EnterStage(Create(1), "ANALYZING_RPS")
  OBVIOUS
<1>2. w \in WorkflowRow
  BY <1>1, CreateRow, RowOperations DEF MaxStages, Stages
<1>3. row \in WorkflowRow /\ row.status = "FAILED"
  BY <1>1, <1>2, FailedIs DEF JustFailed
<1>4. PICK e1 : e1 = Event("WORKFLOW_STARTED", None, w)
  OBVIOUS
<1>5. PICK e2 : e2 = Event("WORKFLOW_STAGE_STARTED", "ANALYZING_RPS", w)
  OBVIOUS
<1>6. PICK e3 : e3 = Event("WORKFLOW_FAILED", "ANALYZING_RPS", w)
  OBVIOUS
<1>7. /\ e1 \in Payload /\ e1.event = "WORKFLOW_STARTED"
      /\ e2 \in Payload /\ e2.event = "WORKFLOW_STAGE_STARTED"
      /\ e3 \in Payload /\ e3.event = "WORKFLOW_FAILED" /\ e3 # None
  BY <1>2, <1>4, <1>5, <1>6, EventIsPayload DEF Events, Stages
<1>8. history = << [event |-> e1, at |-> 1], [event |-> e2, at |-> 3] >>
  BY <1>1, <1>4, <1>5 DEF JustFailed
<1>9. /\ history \in Seq(Entry) /\ DOMAIN history = {1, 2}
      /\ history[1].event = e1 /\ history[1].at = 1
      /\ history[2].event = e2 /\ history[2].at = 3
  BY <1>7, <1>8 DEF Entry
<1>10. out \in Session /\ ~Silent(out) /\ out.began = 5 /\ out.owed = e3
  <2>1. PICK q : q = Quiet(5)
    OBVIOUS
  <2>2. q = [owed |-> None, began |-> 5]
    BY <2>1 DEF Quiet
  <2>3. out = [q EXCEPT !.owed = e3]
    BY <1>1, <1>6, <2>1 DEF JustFailed
  <2>4. out = [owed |-> e3, began |-> 5]
    BY <2>2, <2>3
  <2> QED
    BY <1>7, <2>4 DEF Session, Silent
<1>11. tail \in Session /\ Silent(tail) /\ tail.began = 0
  BY QuietIs
<1>12. /\ run \in Run /\ run.at = "over" /\ Len(run.stages) = 1 /\ ~run.emitted
  <2>1. PICK r1 : r1 = [NoRun EXCEPT !.at = "over"]
    OBVIOUS
  <2>2. r1 \in Run /\ r1.at = "over" /\ ~r1.emitted
    BY <2>1, NoRunIs DEF Run, Places
  <2>3. PICK stages : stages = <<"ANALYZING_RPS">>
    OBVIOUS
  <2>4. stages \in Seq(Stages) /\ Len(stages) = 1
    BY <2>3 DEF Stages
  <2>5. PICK r2 : r2 = [r1 EXCEPT !.stages = stages]
    OBVIOUS
  <2>6. r2 \in Run /\ r2.at = "over" /\ r2.stages = stages /\ ~r2.emitted
    BY <2>2, <2>4, <2>5 DEF Run
  <2>7. run = [r2 EXCEPT !.stage = 1]
    BY <2>1, <2>3, <2>5 DEF JustFailed
  <2> QED
    BY <2>4, <2>6, <2>7 DEF Run
<1>13. clock = 5 /\ runs = 1
  BY DEF JustFailed
<1>14. EventTypes
  BY <1>3, <1>9, <1>10, <1>11, <1>12, <1>13 DEF EventTypes, InStage, MaxStages
<1>15. TimesInv
  BY <1>9, <1>10, <1>11, <1>13 DEF TimesInv, Older
<1>16. OverInv
  <2>1. LastWord("WORKFLOW_FAILED") /\ Explains("WORKFLOW_FAILED", row.status)
    BY <1>3, <1>7, <1>10 DEF LastWord, Explains
  <2> QED
    BY <1>12, <2>1 DEF OverInv, Explained, Events
<1>17. ReportsInv
  <2>1. Reports = {}
    BY <1>7, <1>9 DEF Reports
  <2>2. IsFiniteSet(Reports) /\ Cardinality(Reports) = 0
    BY <2>1, FS_EmptySet
  <2>3. Tally(OwesReport(out)) <= 1 /\ Tally(OwesReport(out)) \in Nat
        /\ Tally(OwesReport(tail)) = 0 /\ Tally(MayReport(run)) = 0
    BY <1>11, <1>12 DEF Tally, OwesReport, MayReport
  <2> QED
    BY <1>12, <1>13, <2>2, <2>3 DEF ReportsInv
<1> QED
  BY <1>14, <1>15, <1>16, <1>17 DEF EventsInv

\* A step that leaves the producer alone.
LEMMA WatchingKeeps == ASSUME EventsInv, UNCHANGED producerVars PROVE EventsInv'
BY DEF EventsInv, EventTypes, TimesInv, Older, OverInv, Explained, Explains, LastWord, Silent,
       ReportsInv, Reports, Tally, OwesReport, producerVars, InStage, Started

LEMMA EventsNext == ASSUME EventsInv, [MonitorNext]_vars PROVE EventsInv'
<1>1. CASE ServerStep
  <2>1. ASSUME NEW stages \in Kinds, Claim(stages) \/ StartAnalysis(stages) PROVE EventsInv'
    BY <2>1, ClaimKeeps, StartAnalysisKeeps
  <2>2. CASE RunStep
    BY <2>2, BeginKeeps, BeginStageKeeps, CallKeeps, RetryKeeps, ProduceKeeps, ReportFailureKeeps,
       BreakKeeps, FailKeeps, FailUnpreparedKeeps, EndStageKeeps, WaitKeeps, RecordKeeps,
       TailRecordKeeps DEF RunStep
  <2>3. CASE RecordFails
    BY <2>3, RecordFailsKeeps
  <2> QED
    BY <1>1, <2>1, <2>2, <2>3 DEF ServerStep
<1>2. CASE PageStep
  <2>1. UNCHANGED producerVars
    BY <1>2 DEF PageStep, Answer, ReadWorkflow, ReadEvents, Answered, SyncFails, Poll, Subscribe,
       Open, Frame, Drop, eventVars, serverVars
  <2> QED
    BY <2>1, WatchingKeeps
<1>3. CASE Crash
  BY <1>3, CrashKeeps DEF Crash
<1>4. CASE UNCHANGED vars
  BY <1>4, WatchingKeeps DEF vars, eventVars, serverVars
<1> QED
  BY <1>1, <1>2, <1>3, <1>4 DEF MonitorNext

\* The last word, where a run is over and nothing is owed, is what the clients'
\* order lists last.
LEMMA LatestIs ==
  ASSUME EventsInv, NEW k \in DOMAIN history,
         \A j \in DOMAIN history \ {k} : history[j].at < history[k].at
  PROVE  Latest = k
<1>1. \A j \in DOMAIN history : history[j].at \in Nat
  BY EntriesAre
<1>2. \A j \in DOMAIN history : history[j].at <= history[k].at
  BY <1>1
<1>3. ASSUME NEW m \in DOMAIN history, \A j \in DOMAIN history : history[j].at <= history[m].at
      PROVE  m = k
  <2>1. history[k].at <= history[m].at
    BY <1>3
  <2> QED
    BY <1>1, <2>1
<1> QED
  BY <1>2, <1>3 DEF Latest

LEMMA EventsTell == ASSUME EventsInv PROVE HistoryTells
<1>1. ASSUME run.at \in {"idle", "over"}, Silent(out), Silent(tail), runs > 0, lost = 0, crashes = 0
      PROVE  Explains(history[Latest].event.event, row.status)
  <2>1. run.at = "over"
    BY <1>1 DEF EventsInv, OverInv, EventTypes
  <2>2. PICK name \in Events : Explains(name, row.status) /\ LastWord(name)
    BY <1>1, <2>1 DEF EventsInv, OverInv, Explained
  <2>3. PICK k \in DOMAIN history :
          /\ history[k].event.event = name
          /\ \A j \in DOMAIN history \ {k} : history[j].at < history[k].at
    BY <1>1, <2>2 DEF LastWord
  <2>4. Latest = k
    BY <2>3, LatestIs
  <2> QED
    BY <2>2, <2>3, <2>4
<1>2. Cardinality(Reports) <= runs
  <2>1. Cardinality(Reports) \in Nat /\ runs \in Nat
    BY FS_CardinalityType DEF EventsInv, ReportsInv, EventTypes
  <2>2. Tally(OwesReport(out)) \in Nat /\ Tally(OwesReport(tail)) \in Nat /\ Tally(MayReport(run)) \in Nat
    BY DEF Tally
  <2> QED
    BY <2>1, <2>2 DEF EventsInv, ReportsInv
<1> QED
  BY <1>1, <1>2 DEF HistoryTells

\* When the runs of a workflow are over and nothing went wrong outside them, the
\* event listed last explains the status, and no failure is reported twice -
\* whatever the runs, their number and the moments at which they overlap.
THEOREM TheHistoryTells == MonitorSpec => []HistoryTells
<1>1. MonitorInit => EventsInv
  BY NewInit, JustFailedInit DEF MonitorInit, EventsInit
<1>2. EventsInv /\ [MonitorNext]_vars => EventsInv'
  BY EventsNext
<1>3. EventsInv => HistoryTells
  BY EventsTell
<1> QED
  BY <1>1, <1>2, <1>3, PTL DEF MonitorSpec

-----------------------------------------------------------------------------
(* What a page learns.                                                     *)

\* A run that has entered a stage, or was claimed with the status of its first.
Entered(r) ==
  /\ r.at \notin {"idle", "over"}
  /\ r.stage >= 1 \/ r.stages[1] = "PLANNING_COURSE"

\* The time stamp of the row is never ahead of the run that saves it next.
SavedInv ==
  /\ saved \in Nat /\ late \in Nat /\ saved <= clock
  /\ run.at \notin {"idle", "over"} => saved <= out.began

\* A run that has entered a stage shows it in the row, and all that is told
\* already is older than its next save.
EnteredInv ==
  Entered(run) => /\ row.status \in Running
                  /\ Older(out.began)
                  /\ ~Silent(tail) => tail.began < out.began

\* An event that tells a page of no more than the row does.
Harmless(event) ==
  \/ event.event = "WORKFLOW_WAITING_FOR_REVIEW"
  \/ event.event = "WORKFLOW_FAILED" /\ row.status = "FAILED" /\ event.completed = row.completed

\* When a run is over, all but its last event is older than the row.
ToldInv ==
  lost = 0 /\ crashes = 0 =>
    /\ run.at = "idle" => history = <<>> /\ Silent(out) /\ Silent(tail)
    /\ run.at = "over" =>
         /\ \A k \in DOMAIN history : history[k].at < saved \/ Harmless(history[k].event)
         /\ ~Silent(out) => Harmless(out.owed)
         /\ ~Silent(tail) => tail.began < saved

RowInv == SavedInv /\ EnteredInv /\ ToldInv

\* What a page can hold.
Views == [status : {"QUEUED", "FAILED", "RUNNING"}, stage : WorkflowStatus \cup {None},
          completed : 0 .. MaxStages, at : Nat]

Pages == [workflow : Views \cup {None}, events : SUBSET Nat, error : BOOLEAN]

Calls == [busy : BOOLEAN, workflow : Views \cup {None}, events : (SUBSET Nat) \cup {None}, read : Nat]

PageTypes ==
  /\ page \in Pages /\ call \in Calls
  /\ page.events \subseteq DOMAIN history
  /\ call.events # None => call.events \subseteq DOMAIN history
  /\ queue # None => queue \in Seq(DOMAIN history)
  /\ sock # "off" => page.workflow \in Views

\* The events applyWorkflowEvent knows.
Known(k) ==
  history[k].event.event \in {"WORKFLOW_STARTED", "WORKFLOW_STAGE_COMPLETED",
    "WORKFLOW_STAGE_STARTED", "WORKFLOW_STAGE_PROGRESS", "WORKFLOW_RETRY", "WORKFLOW_FAILED"}

\* A snapshot of this time, with the events of the page, is not behind the page.
Covered(t) ==
  \/ page.workflow.at <= t
  \/ \E k \in page.events : Known(k) /\ page.workflow.at <= history[k].at

\* What the page shows, the next answer will not be behind.
AgeInv ==
  late = 0 =>
    /\ call.workflow # None => call.workflow.at <= saved
    /\ page.workflow # None => /\ Covered(saved)
                               /\ call.workflow # None => Covered(call.workflow.at)

PageInv == PageTypes /\ AgeInv

\* The reduce is well-defined: each view comes of the one before.
LEMMA ReplayIs ==
  ASSUME NEW v, NEW events, Cardinality(events) \in Nat
  PROVE  \E shown : /\ Replay(v, events) = shown[Cardinality(events)]
                    /\ shown[0] = v
                    /\ \A i \in 1 .. Cardinality(events) :
                         shown[i] = ApplyWorkflowEvent(shown[i - 1], MergeEvents(events)[i])
<1> DEFINE n == Cardinality(events)
           Step(f, i) == IF i = 0 THEN v ELSE ApplyWorkflowEvent(f[i - 1], MergeEvents(events)[i])
           Shows(f, m) == f = [i \in 0 .. m |-> Step(f, i)]
           S == {m \in 0 .. n : \E f : Shows(f, m)}
<1>1. n \in S
  <2>1. 0 \in S
    <3>1. PICK f : f = [i \in 0 .. 0 |-> v]
      OBVIOUS
    <3>2. Shows(f, 0)
      BY <3>1
    <3> QED
      BY <3>2
  <2>2. ASSUME NEW m \in S, m < n PROVE m + 1 \in S
    <3>1. PICK f : Shows(f, m)
      OBVIOUS
    <3>2. PICK g : g = [i \in 0 .. m + 1 |-> IF i = m + 1 THEN Step(f, i) ELSE f[i]]
      OBVIOUS
    <3>3. ASSUME NEW i \in 0 .. m + 1 PROVE g[i] = Step(g, i)
      <4>1. CASE i = 0
        BY <3>1, <3>2, <4>1
      <4>2. CASE i # 0 /\ i # m + 1
        <5>1. i \in 0 .. m /\ i - 1 \in 0 .. m
          BY <4>2
        <5>2. g[i] = f[i] /\ g[i - 1] = f[i - 1]
          BY <3>2, <4>2, <5>1
        <5>3. f[i] = Step(f, i)
          BY <3>1, <5>1
        <5> QED
          BY <4>2, <5>2, <5>3
      <4>3. CASE i = m + 1
        <5>1. g[i] = Step(f, i) /\ g[i - 1] = f[i - 1]
          BY <3>2, <4>3
        <5> QED
          BY <4>3, <5>1
      <4> QED
        BY <4>1, <4>2, <4>3
    <3>4. Shows(g, m + 1)
      BY <3>2, <3>3
    <3> QED
      BY <2>2, <3>4
  <2>3. S \in SUBSET Nat /\ \A m \in S : m < n => m + 1 \in S
    BY <2>2
  <2> HIDE DEF S
  <2> QED
    BY <2>1, <2>3, CountingUp
<1>2. PICK f : Shows(f, n)
  BY <1>1
<1>3. PICK shown : shown = CHOOSE g : Shows(g, n)
  OBVIOUS
<1>4. Shows(shown, n)
  BY <1>2, <1>3
<1>5. Replay(v, events) = shown[n]
  BY <1>3 DEF Replay
<1>6. shown[0] = v /\ \A i \in 1 .. n : shown[i] = Step(shown, i)
  BY <1>4
<1> QED
  BY <1>5, <1>6

-----------------------------------------------------------------------------
(* The row is not behind what has been told.                               *)

LEMMA SavingIs ==
  ASSUME EventsInv, NEW w, NEW event, SaveOwing(w, event)
  PROVE  /\ row' = w /\ saved' = IF Touches(w) THEN out.began ELSE saved
         /\ clock' = clock + 1 /\ out'.began = clock + 1 /\ out'.owed = event
         /\ UNCHANGED <<history, tail, lost, crashes, late>>
<1>1. PICK q : q = Quiet(clock + 1)
  OBVIOUS
<1>2. q = [owed |-> None, began |-> clock + 1]
  BY <1>1 DEF Quiet
<1>3. out' = [q EXCEPT !.owed = event]
  BY <1>1 DEF SaveOwing
<1>4. out'.owed = event /\ out'.began = clock + 1
  BY <1>2, <1>3
<1> QED
  BY <1>4 DEF SaveOwing, counters

\* A run that goes on: the row is saved in the transaction it is in, or not.
LEMMA GoesOn ==
  ASSUME EventsInv, EventsInv', RowInv,
         run.at \notin {"idle", "over"}, run'.at \notin {"idle", "over"}, Started(run'),
         saved' \in {saved, out.began}, out'.began \in {out.began, clock + 1},
         clock' \in {clock, clock + 1}, out'.began <= clock', late' = late,
         Entered(run') => row'.status \in Running
  PROVE  RowInv' /\ saved' >= saved
<1>1. out.began \in Nat /\ clock \in Nat /\ out.began <= clock
  BY DEF EventsInv, EventTypes, TimesInv, Session
<1>2. saved \in Nat /\ late \in Nat /\ saved <= out.began
  BY DEF RowInv, SavedInv
<1>3. saved' >= saved /\ SavedInv'
  BY <1>1, <1>2 DEF SavedInv
<1>4. EnteredInv'
  BY DEF EnteredInv, EventsInv, TimesInv
<1>5. ToldInv'
  BY DEF ToldInv
<1> QED
  BY <1>3, <1>4, <1>5 DEF RowInv

\* The same for a milestone: the row it saves, or no row.
LEMMA MilestoneGoesOn ==
  ASSUME EventsInv, EventsInv', RowInv, NEW w, NEW event,
         \/ SaveOwing(w, event)
         \/ Owing(event) /\ w = row,
         run.at \notin {"idle", "over"}, run'.at \notin {"idle", "over"}, Started(run'),
         Entered(run') => w.status \in Running
  PROVE  RowInv' /\ saved' >= saved
<1>1. out \in Session /\ out.began \in Nat /\ clock \in Nat /\ out.began <= clock
  BY DEF EventsInv, EventTypes, TimesInv, Session
<1>2. CASE SaveOwing(w, event)
  <2>1. /\ row' = w /\ saved' \in {saved, out.began} /\ clock' = clock + 1
        /\ out'.began = clock + 1 /\ late' = late
    BY <1>2, SavingIs
  <2> QED
    BY <1>1, <2>1, GoesOn
<1>3. CASE Owing(event) /\ w = row
  <2>1. out' = [out EXCEPT !.owed = event]
    BY <1>3 DEF Owing
  <2>2. out'.began = out.began
    BY <1>1, <2>1 DEF Session
  <2>3. row' = w /\ saved' = saved /\ clock' = clock /\ late' = late
    BY <1>3 DEF Owing, counters
  <2> QED
    BY <1>1, <2>2, <2>3, GoesOn
<1> QED
  BY <1>2, <1>3

\* A run that is in a stage has entered it.
LEMMA InStageEntered ==
  ASSUME EventsInv, run.at \in {"working", "calling", "worked", "failing"}
  PROVE  Entered(run)
<1>1. run.stage \in DOMAIN run.stages /\ run.stages \in Seq(Stages)
  BY DEF EventsInv, EventTypes, InStage, Run
<1> QED
  BY <1>1 DEF Entered

LEMMA BeginTells == ASSUME EventsInv, EventsInv', RowInv, Begin PROVE RowInv' /\ saved' >= saved
<1>1. PICK w : w = BeginRun(row, Len(run.stages))
  OBVIOUS
<1>2. SaveOwing(w, Event("WORKFLOW_STARTED", None, w)) /\ run.at = "claimed"
      /\ run' = [run EXCEPT !.at = "between"]
  BY <1>1 DEF Begin
<1>3. row \in WorkflowRow /\ run \in Run
  BY DEF EventsInv, EventTypes
<1>4. run'.at = "between" /\ run'.stages = run.stages /\ run'.stage = run.stage
  BY <1>2, <1>3 DEF Run
<1>5. w.status = row.status
  BY <1>1, <1>3 DEF BeginRun, WorkflowRow
<1>6. Entered(run') => w.status \in Running
  BY <1>2, <1>4, <1>5 DEF Entered, RowInv, EnteredInv
<1> QED
  BY <1>2, <1>4, <1>6, MilestoneGoesOn DEF Started

LEMMA BeginStageTells ==
  ASSUME EventsInv, EventsInv', RowInv, BeginStage PROVE RowInv' /\ saved' >= saved
<1>1. PICK next : next = run.stages[run.stage + 1]
  OBVIOUS
<1>2. PICK w : w = EnterStage(row, next)
  OBVIOUS
<1>3. row \in WorkflowRow /\ run \in Run /\ run.at = "between" /\ run.stage < Len(run.stages)
  BY DEF EventsInv, EventTypes, BeginStage
<1>4. next \in Stages
  BY <1>1, <1>3 DEF Run
<1>5. w.status \in Running
  BY <1>2, <1>3, <1>4 DEF EnterStage, WorkflowRow, Running
<1>6. SaveOwing(w, Event("WORKFLOW_STAGE_STARTED", next, w))
  BY <1>1, <1>2 DEF BeginStage
<1>7. run'.at = "working"
  BY <1>3 DEF BeginStage, Run
<1> QED
  BY <1>3, <1>5, <1>6, <1>7, MilestoneGoesOn DEF Started

LEMMA CallTells == ASSUME EventsInv, EventsInv', RowInv, Call PROVE RowInv' /\ saved' >= saved
<1>1. PICK w : w = ResumeStage(row, Stage)
  OBVIOUS
<1>2. row \in WorkflowRow /\ run \in Run /\ run.at = "working"
  BY DEF EventsInv, EventTypes, Call
<1>3. Stage \in Stages /\ row.status \in Running
  BY <1>2, StageIs, InStageEntered DEF RowInv, EnteredInv
<1>4. w.status \in Running
  BY <1>1, <1>2, <1>3 DEF ResumeStage, EnterStage, WorkflowRow, Running
<1>5. run'.at = "calling"
  BY <1>2 DEF Call, Run
<1>6. CASE SaveOwing(w, Event("WORKFLOW_STAGE_PROGRESS", Stage, w))
  BY <1>2, <1>4, <1>5, <1>6, MilestoneGoesOn DEF Started
<1>7. CASE Owing(Event("WORKFLOW_STAGE_PROGRESS", Stage, w))
  BY <1>2, <1>3, <1>5, <1>7, MilestoneGoesOn DEF Started
<1> QED
  BY <1>1, <1>6, <1>7 DEF Call

LEMMA RetryTells == ASSUME EventsInv, EventsInv', RowInv, Retry PROVE RowInv' /\ saved' >= saved
<1>1. PICK w : w = MarkRetrying(row)
  OBVIOUS
<1>2. row \in WorkflowRow /\ run \in Run /\ run.at = "calling"
  BY DEF EventsInv, EventTypes, Retry
<1>3. w.status \in Running
  BY <1>1, <1>2 DEF MarkRetrying, WorkflowRow, Running
<1>4. run'.at = "working" /\ SaveOwing(w, Event("WORKFLOW_RETRY", Stage, w))
  BY <1>1, <1>2 DEF Retry, Run
<1> QED
  BY <1>2, <1>3, <1>4, MilestoneGoesOn DEF Started

LEMMA EndStageTells ==
  ASSUME EventsInv, EventsInv', RowInv, EndStage PROVE RowInv' /\ saved' >= saved
<1>1. PICK w : w = CompleteStage(row)
  OBVIOUS
<1>2. row \in WorkflowRow /\ run \in Run /\ run.at = "worked"
  BY DEF EventsInv, EventTypes, EndStage
<1>3. row.status \in Running
  BY <1>2, InStageEntered DEF RowInv, EnteredInv
<1>4. w.status \in Running
  BY <1>1, <1>2, <1>3 DEF CompleteStage, WorkflowRow
<1>5. run'.at = "between" /\ SaveOwing(w, Event("WORKFLOW_STAGE_COMPLETED", Stage, w))
  BY <1>1, <1>2 DEF EndStage, Run
<1> QED
  BY <1>2, <1>4, <1>5, MilestoneGoesOn DEF Started

\* A step of the stage that saves nothing.
LEMMA StageTells ==
  ASSUME EventsInv, EventsInv', RowInv, Produce \/ Break \/ ReportFailure
  PROVE  RowInv' /\ saved' >= saved
<1>1. run \in Run /\ run.at \in {"working", "calling"} /\ out \in Session
  BY DEF EventsInv, EventTypes, Produce, Break, ReportFailure
<1>2. row.status \in Running
  BY <1>1, InStageEntered DEF RowInv, EnteredInv
<1>3. run'.at \in {"worked", "failing"}
  BY <1>1 DEF Produce, Break, ReportFailure, Run
<1>4. CASE UNCHANGED otherVars
  <2>1. UNCHANGED <<row, saved, clock, out, late>>
    BY <1>4 DEF otherVars, counters
  <2>2. out.began \in Nat /\ clock \in Nat /\ out.began <= clock
    BY DEF EventsInv, EventTypes, TimesInv, Session
  <2> QED
    BY <1>1, <1>2, <1>3, <2>1, <2>2, GoesOn DEF Started
<1>5. ASSUME NEW event, Owing(event) PROVE RowInv' /\ saved' >= saved
  BY <1>1, <1>2, <1>3, <1>5, MilestoneGoesOn DEF Started
<1> QED
  BY <1>4, <1>5 DEF Produce, Break, ReportFailure

\* A run ends with its row: the status changes, so that the row is as young as the
\* transaction, and all that has been told is older.
LEMMA EndTells ==
  ASSUME EventsInv, EventsInv', RowInv, Entered(run), NEW w, NEW event, SaveOwing(w, event),
         w.status # row.status, run'.at = "over",
         event # None =>
           \/ event.event = "WORKFLOW_WAITING_FOR_REVIEW"
           \/ event.event = "WORKFLOW_FAILED" /\ w.status = "FAILED" /\ event.completed = w.completed
  PROVE  RowInv' /\ saved' >= saved
<1>1. out.began \in Nat /\ clock \in Nat /\ out.began <= clock
  BY DEF EventsInv, EventTypes, TimesInv, Session
<1>2. /\ row' = w /\ saved' = out.began /\ clock' = clock + 1
      /\ out'.began = clock + 1 /\ out'.owed = event
      /\ UNCHANGED <<history, tail, lost, crashes, late>>
  BY SavingIs DEF Touches
<1>3. saved \in Nat /\ late \in Nat /\ saved <= out.began
  BY DEF RowInv, SavedInv, Entered
<1>4. SavedInv'
  BY <1>1, <1>2, <1>3 DEF SavedInv
<1>5. EnteredInv'
  BY DEF EnteredInv, Entered
<1>6. ToldInv'
  <2>1. \A k \in DOMAIN history' : history'[k].at < saved'
    BY <1>2 DEF RowInv, EnteredInv, Older
  <2>2. ~Silent(tail') => tail'.began < saved'
    BY <1>2 DEF RowInv, EnteredInv, Silent
  <2>3. ~Silent(out') => Harmless(out.owed)'
    BY <1>2 DEF Harmless, Silent
  <2> QED
    BY <2>1, <2>2, <2>3 DEF ToldInv
<1> QED
  BY <1>1, <1>2, <1>3, <1>4, <1>5, <1>6 DEF RowInv

\* The row of a run that has entered a stage is not the row of its end.
LEMMA EndsAreNew ==
  ASSUME EventsInv, RowInv, Entered(run)
  PROVE  /\ FailRun(row).status = "FAILED" /\ FailRun(row).completed = row.completed
         /\ WaitForReview(row).status = "WAITING_FOR_REVIEW"
         /\ row.status \notin {"FAILED", "WAITING_FOR_REVIEW"}
<1>1. row \in WorkflowRow /\ row.status \in Running
  BY DEF EventsInv, EventTypes, RowInv, EnteredInv
<1> QED
  BY <1>1 DEF FailRun, WaitForReview, WorkflowRow, Running, Stages

LEMMA ReportIs ==
  ASSUME NEW name, NEW stage, NEW w
  PROVE  Event(name, stage, w).event = name /\ Event(name, stage, w).completed = w.completed
BY DEF Event

LEMMA FailTells ==
  ASSUME EventsInv, EventsInv', RowInv, Fail \/ FailUnprepared
  PROVE  RowInv' /\ saved' >= saved
<1>1. run \in Run
  BY DEF EventsInv, EventTypes
<1>2. Entered(run)
  BY InStageEntered DEF Fail, FailUnprepared, Entered
<1>3. run'.at = "over"
  BY <1>1 DEF Fail, FailUnprepared, Run
<1>4. PICK w : w = FailRun(row)
  OBVIOUS
<1>5. w.status = "FAILED" /\ w.completed = row.completed /\ row.status # "FAILED"
  BY <1>2, <1>4, EndsAreNew
<1>6. \E event : /\ SaveOwing(w, event)
                 /\ event # None => event.event = "WORKFLOW_FAILED" /\ event.completed = row.completed
  <2>1. CASE Fail
    BY <1>4, <2>1, ReportIs DEF Fail
  <2>2. CASE FailUnprepared
    BY <1>4, <2>2, ReportIs DEF FailUnprepared
  <2> QED
    BY <2>1, <2>2
<1>7. PICK event : /\ SaveOwing(w, event)
                   /\ event # None => event.event = "WORKFLOW_FAILED" /\ event.completed = row.completed
  BY <1>6
<1> QED
  BY <1>2, <1>3, <1>5, <1>7, EndTells

LEMMA WaitTells == ASSUME EventsInv, EventsInv', RowInv, Wait PROVE RowInv' /\ saved' >= saved
<1>1. run \in Run /\ Len(run.stages) >= 1
  BY DEF EventsInv, EventTypes, Wait
<1>2. Entered(run)
  BY <1>1 DEF Wait, Entered
<1>3. run'.at = "over"
  BY <1>1 DEF Wait, Run
<1>4. PICK w : w = WaitForReview(row)
  OBVIOUS
<1>5. w.status = "WAITING_FOR_REVIEW" /\ row.status # "WAITING_FOR_REVIEW"
  BY <1>2, <1>4, EndsAreNew
<1>6. PICK event : event = Event("WORKFLOW_WAITING_FOR_REVIEW", "WAITING_FOR_REVIEW", w)
  OBVIOUS
<1>7. SaveOwing(w, event) /\ event.event = "WORKFLOW_WAITING_FOR_REVIEW"
  BY <1>4, <1>6, ReportIs DEF Wait
<1> QED
  BY <1>2, <1>3, <1>5, <1>7, EndTells

LEMMA RecordTells == ASSUME EventsInv, EventsInv', RowInv, Record PROVE RowInv' /\ saved' >= saved
<1>1. out \in Session /\ tail \in Session /\ out.began <= clock /\ tail.began <= clock
  BY DEF EventsInv, EventTypes, TimesInv
<1>2. /\ Recorded(out) /\ out' = Quiet(clock + 1)
      /\ UNCHANGED <<row, saved, run, tail, lost, crashes, late>>
  BY DEF Record, counters
<1>3. /\ ~Silent(out) /\ clock' = clock + 1 /\ clock \in Nat
      /\ DOMAIN history' = DOMAIN history \cup {Len(history) + 1}
      /\ \A k \in DOMAIN history : history'[k] = history[k]
      /\ history'[Len(history) + 1].event = out.owed
      /\ Older(clock)'
  BY <1>1, <1>2, RecordedIs
<1>4. out'.began = clock' /\ Silent(out') /\ tail.began \in Nat
  BY <1>1, <1>2, <1>3, QuietIs DEF Session
<1>5. saved \in Nat /\ saved <= clock
  BY DEF RowInv, SavedInv
<1>6. SavedInv'
  BY <1>2, <1>3, <1>4, <1>5 DEF RowInv, SavedInv
<1>7. EnteredInv'
  BY <1>1, <1>2, <1>3, <1>4 DEF RowInv, EnteredInv, Entered, Older, Silent
<1>8. ToldInv'
  <2> SUFFICES ASSUME lost = 0, crashes = 0
               PROVE  /\ run.at # "idle"
                      /\ run.at = "over" =>
                           /\ \A k \in DOMAIN history' :
                                history'[k].at < saved \/ Harmless(history[k].event)'
                           /\ ~Silent(tail) => tail.began < saved
    BY <1>2, <1>4 DEF ToldInv, Silent
  <2>1. run.at # "idle"
    BY <1>3 DEF RowInv, ToldInv
  <2>2. ASSUME run.at = "over", NEW k \in DOMAIN history'
        PROVE  history'[k].at < saved \/ Harmless(history[k].event)'
    <3>1. CASE k \in DOMAIN history
      BY <1>2, <1>3, <2>2, <3>1 DEF RowInv, ToldInv, Harmless
    <3>2. CASE k = Len(history) + 1
      BY <1>2, <1>3, <2>2, <3>2 DEF RowInv, ToldInv, Harmless
    <3> QED
      BY <1>3, <3>1, <3>2
  <2> QED
    BY <2>1, <2>2 DEF RowInv, ToldInv
<1> QED
  BY <1>2, <1>5, <1>6, <1>7, <1>8 DEF RowInv

LEMMA TailRecordTells ==
  ASSUME EventsInv, EventsInv', RowInv, TailRecord PROVE RowInv' /\ saved' >= saved
<1>1. tail \in Session /\ tail.began <= clock
  BY DEF EventsInv, EventTypes, TimesInv
<1>2. /\ Recorded(tail) /\ tail' = Quiet(0)
      /\ UNCHANGED <<row, saved, run, out, lost, crashes, late>>
  BY DEF TailRecord, counters
<1>3. /\ ~Silent(tail) /\ clock' = clock + 1 /\ clock \in Nat
      /\ DOMAIN history' = DOMAIN history \cup {Len(history) + 1}
      /\ \A k \in DOMAIN history : history'[k] = history[k]
      /\ history'[Len(history) + 1].at = tail.began
  BY <1>1, <1>2, RecordedIs
<1>4. Silent(tail')
  BY <1>2, QuietIs
<1>5. saved \in Nat /\ saved <= clock
  BY DEF RowInv, SavedInv
<1>6. SavedInv'
  BY <1>2, <1>3, <1>5 DEF RowInv, SavedInv
<1>7. EnteredInv'
  BY <1>2, <1>3, <1>4 DEF RowInv, EnteredInv, Entered, Older, Silent
<1>8. ToldInv'
  <2> SUFFICES ASSUME lost = 0, crashes = 0
               PROVE  /\ run.at # "idle"
                      /\ run.at = "over" =>
                           /\ \A k \in DOMAIN history' :
                                history'[k].at < saved \/ Harmless(history[k].event)'
                           /\ ~Silent(out) => Harmless(out.owed)'
    BY <1>2, <1>4 DEF ToldInv, Silent
  <2>1. run.at # "idle"
    BY <1>3 DEF RowInv, ToldInv
  <2>2. ASSUME run.at = "over", NEW k \in DOMAIN history'
        PROVE  history'[k].at < saved \/ Harmless(history[k].event)'
    <3>1. CASE k \in DOMAIN history
      BY <1>2, <1>3, <2>2, <3>1 DEF RowInv, ToldInv, Harmless
    <3>2. CASE k = Len(history) + 1
      BY <1>2, <1>3, <2>2, <3>2 DEF RowInv, ToldInv
    <3> QED
      BY <1>3, <3>1, <3>2
  <2>3. run.at = "over" /\ ~Silent(out) => Harmless(out.owed)'
    BY <1>2 DEF RowInv, ToldInv, Harmless
  <2> QED
    BY <2>1, <2>2, <2>3
<1> QED
  BY <1>2, <1>5, <1>6, <1>7, <1>8 DEF RowInv

\* The next run.  The row claimed for a planning run is younger than all that has
\* been told, unless the claim was an old transaction's.
LEMMA NextRunTells ==
  ASSUME EventsInv, EventsInv', RowInv, NEW stages \in Kinds, Claim(stages) \/ StartAnalysis(stages)
  PROVE  RowInv' /\ (late' = 0 => saved' >= saved)
<1>1. out \in Session /\ tail \in Session /\ clock \in Nat /\ Older(clock) /\ out.began <= clock
      /\ row \in WorkflowRow
  BY DEF EventsInv, EventTypes, TimesInv
<1>2. saved \in Nat /\ late \in Nat /\ saved <= clock
  BY DEF RowInv, SavedInv
<1>3. run'.at = "claimed" /\ run'.stages = stages /\ run'.stage = 0
  <2>1. run' = [NoRun EXCEPT !.at = "claimed", !.stages = stages]
    BY DEF Claim, StartAnalysis, NextRun
  <2> QED
    BY <2>1 DEF NoRun
<1>4. tail' = Quiet(0) \/ tail' = out
  BY DEF Claim, StartAnalysis, NextRun
<1>5. ~Silent(tail') => tail'.began <= clock
  BY <1>1, <1>4, QuietIs
<1>6. ToldInv'
  BY <1>3 DEF ToldInv
<1>7. CASE Claim(stages)
  <2>1. /\ clock' = clock + 1 /\ out' = Quiet(clock + 1) /\ history' = history
        /\ row' = EnterStage(row, "PLANNING_COURSE")
        /\ \/ saved' = clock /\ late' = late
           \/ clock > 0 /\ saved' = clock - 1 /\ late' = late + 1
    BY <1>7 DEF Claim
  <2>2. out'.began = clock + 1
    BY <2>1 DEF Quiet
  <2>3. row'.status \in Running
    BY <1>1, <2>1 DEF EnterStage, WorkflowRow, Running, Stages
  <2>4. SavedInv'
    BY <1>1, <1>2, <2>1, <2>2 DEF SavedInv
  <2>5. Older(out.began)'
    <3>1. \A k \in DOMAIN history : history[k].at \in Nat
      BY EntriesAre
    <3> QED
      BY <1>1, <2>1, <2>2, <3>1 DEF Older
  <2>6. ~Silent(tail') => tail'.began < out'.began
    BY <1>1, <1>4, <1>5, <2>2, QuietIs DEF Session
  <2>7. EnteredInv'
    BY <2>3, <2>5, <2>6 DEF EnteredInv
  <2> QED
    BY <1>1, <1>2, <1>6, <2>1, <2>4, <2>7 DEF RowInv
<1>8. CASE StartAnalysis(stages)
  <2>1. clock' = clock /\ out' = Quiet(clock) /\ saved' = saved /\ late' = late
        /\ stages[1] # "PLANNING_COURSE"
    BY <1>8 DEF StartAnalysis
  <2>2. out'.began = clock
    BY <2>1 DEF Quiet
  <2>3. SavedInv'
    BY <1>1, <1>2, <2>1, <2>2 DEF SavedInv
  <2>4. EnteredInv'
    BY <1>3, <2>1 DEF EnteredInv, Entered
  <2> QED
    BY <1>2, <1>6, <2>1, <2>3, <2>4 DEF RowInv
<1> QED
  BY <1>7, <1>8

\* An event lost, or a crash.
LEMMA CutTells ==
  ASSUME EventsInv, EventsInv', RowInv, RecordFails \/ ServerCrash
  PROVE  RowInv' /\ saved' >= saved
<1>1. lost \in Nat /\ crashes \in Nat /\ out \in Session /\ run \in Run
  BY DEF EventsInv, EventTypes
<1>2. /\ UNCHANGED <<row, saved, history, clock, late>>
      /\ tail' = tail \/ tail' = Quiet(0)
      /\ (lost' = lost + 1 /\ crashes' = crashes) \/ (crashes' = crashes + 1 /\ lost' = lost)
  BY DEF RecordFails, ServerCrash
<1>3. \/ run'.at = "idle"
      \/ /\ out'.began = out.began
         /\ run'.at \notin {"idle", "over"} => run.at \notin {"idle", "over"}
         /\ Entered(run') => Entered(run)
  <2>1. CASE run' = NoRun
    BY <2>1 DEF NoRun
  <2>2. CASE run' = AfterLoss /\ out' = [out EXCEPT !.owed = None]
    <3>1. out'.began = out.began
      BY <1>1, <2>2 DEF Session
    <3>2. \/ run' = run
          \/ run.at = "worked" /\ run' = [run EXCEPT !.at = "failing"]
      BY <2>2 DEF AfterLoss
    <3>3. /\ run'.stages = run.stages /\ run'.stage = run.stage
          /\ run'.at = run.at \/ run.at = "worked"
      BY <1>1, <3>2 DEF Run
    <3> QED
      BY <3>1, <3>3 DEF Entered
  <2> QED
    BY <2>1, <2>2 DEF RecordFails, ServerCrash
<1>4. saved \in Nat
  BY DEF RowInv, SavedInv
<1>5. SavedInv'
  BY <1>2, <1>3 DEF RowInv, SavedInv
<1>6. EnteredInv'
  <2>1. ASSUME Entered(run') PROVE /\ row'.status \in Running
                                   /\ Older(out.began)'
                                   /\ ~Silent(tail') => tail'.began < out'.began
    <3>1. out'.began = out.began /\ Entered(run)
      BY <1>3, <2>1 DEF Entered
    <3>2. Older(out.began)'
      BY <1>2, <3>1 DEF RowInv, EnteredInv, Older
    <3>3. ~Silent(tail') => tail' = tail
      BY <1>2, QuietIs
    <3> QED
      BY <1>2, <3>1, <3>2, <3>3 DEF RowInv, EnteredInv
  <2> QED
    BY <2>1 DEF EnteredInv
<1>7. ToldInv'
  BY <1>1, <1>2 DEF ToldInv
<1> QED
  BY <1>2, <1>4, <1>5, <1>6, <1>7 DEF RowInv

\* Whatever happens, the row does not get older, unless a claim is late.
LEMMA RowNext ==
  ASSUME EventsInv, RowInv, [MonitorNext]_vars
  PROVE  RowInv' /\ (late' = 0 => saved' >= saved)
<1>1. EventsInv'
  BY EventsNext
<1>2. CASE ServerStep
  BY <1>1, <1>2, NextRunTells, BeginTells, BeginStageTells, CallTells, RetryTells, EndStageTells,
     StageTells, FailTells, WaitTells, RecordTells, TailRecordTells, CutTells DEF ServerStep, RunStep
<1>3. CASE UNCHANGED producerVars
  <2>1. saved \in Nat
    BY DEF RowInv, SavedInv
  <2> QED
    BY <1>3, <2>1 DEF RowInv, SavedInv, EnteredInv, Entered, Older, Silent, ToldInv, Harmless, producerVars
<1>4. CASE PageStep
  BY <1>3, <1>4 DEF PageStep, Answer, ReadWorkflow, ReadEvents, Answered, SyncFails, Poll, Subscribe,
     Open, Frame, Drop, eventVars, serverVars
<1>5. CASE Crash
  BY <1>1, <1>5, CutTells DEF Crash
<1>6. CASE UNCHANGED vars
  BY <1>3, <1>6 DEF vars, eventVars, serverVars
<1> QED
  BY <1>2, <1>4, <1>5, <1>6 DEF MonitorNext

LEMMA RowInit == ASSUME MonitorInit PROVE RowInv
<1>0. EventsInv
  BY NewInit, JustFailedInit DEF MonitorInit, EventsInit
<1>1. late = 0 /\ Silent(tail)
  BY QuietIs DEF MonitorInit, EventsInit
<1>2. CASE New
  <2>1. saved = 0 /\ clock = 0 /\ history = <<>> /\ run.at = "idle" /\ Silent(out)
    BY <1>2, NoRunIs, QuietIs DEF New
  <2> QED
    BY <1>1, <2>1 DEF RowInv, SavedInv, EnteredInv, Entered, ToldInv
<1>3. CASE JustFailed
  <2>1. PICK w : w = EnterStage(Create(1), "ANALYZING_RPS")
    OBVIOUS
  <2>2. w \in WorkflowRow
    BY <2>1, CreateRow, RowOperations DEF MaxStages, Stages
  <2>3. row.status = "FAILED" /\ row.completed = w.completed
    BY <2>1, <1>3, <2>2 DEF JustFailed, FailRun, WorkflowRow
  <2>4. PICK report : report = Event("WORKFLOW_FAILED", "ANALYZING_RPS", w)
    OBVIOUS
  <2>5. out = [Quiet(5) EXCEPT !.owed = report]
    BY <2>1, <2>4, <1>3 DEF JustFailed
  <2>6. out.owed = report
    BY <2>5 DEF Quiet
  <2>7. Harmless(out.owed)
    BY <2>3, <2>4, <2>6, ReportIs DEF Harmless
  <2>8. run.at = "over"
    <3>1. run = [NoRun EXCEPT !.at = "over", !.stages = <<"ANALYZING_RPS">>, !.stage = 1]
      BY <1>3 DEF JustFailed
    <3> QED
      BY <3>1 DEF NoRun
  <2>9. saved = 4 /\ clock = 5 /\ DOMAIN history = {1, 2} /\ history[1].at = 1 /\ history[2].at = 3
    BY <1>3 DEF JustFailed
  <2> QED
    BY <1>1, <2>7, <2>8, <2>9 DEF RowInv, SavedInv, EnteredInv, Entered, ToldInv
<1> QED
  BY <1>2, <1>3 DEF MonitorInit

-----------------------------------------------------------------------------
(* The reduce over the merged events.                                      *)

\* Some events of the history, merged: all of them, and nothing else.
LEMMA MergeEventsIs ==
  ASSUME EventsInv, NEW events \in SUBSET DOMAIN history
  PROVE  /\ Cardinality(events) \in Nat
         /\ \A i \in 1 .. Cardinality(events) : MergeEvents(events)[i] \in events
         /\ \A k \in events : \E i \in 1 .. Cardinality(events) : MergeEvents(events)[i] = k
<1>1. IsFiniteSet(events) /\ Cardinality(events) \in Nat /\ events \in SUBSET Nat
  <2>1. history \in Seq(Entry)
    BY DEF EventsInv, EventTypes
  <2>2. PICK n \in Nat : n = Len(history)
    BY <2>1
  <2>3. events \subseteq 1 .. n
    BY <2>1, <2>2
  <2>4. IsFiniteSet(1 .. n)
    BY FS_Interval
  <2>5. IsFiniteSet(events)
    BY <2>3, <2>4, FS_Subset
  <2> QED
    BY <2>3, <2>5, FS_CardinalityType
<1>2. \A k \in events : history[k].at \in Nat
  BY EntriesAre
<1> DEFINE B(j, k) == history[j].at < history[k].at \/ (history[j].at = history[k].at /\ j <= k)
<1>3. PICK before : before = {p \in events \X events : B(p[1], p[2])}
  OBVIOUS
<1>4. \A j, k \in events : <<j, k>> \in before <=> B(j, k)
  BY <1>3
<1>5. OrdersTotally(before, events)
  BY <1>1, <1>2, <1>4 DEF OrdersTotally
<1>6. \A i \in 1 .. Cardinality(events) : \E k \in events : Rank(events, before, k) = i
  BY <1>1, <1>5, RanksAreTaken
<1>7. PICK list : list = MergeEvents(events)
  OBVIOUS
<1>8. list = [i \in 1 .. Cardinality(events) |->
                CHOOSE k \in events : Cardinality({j \in events : B(j, k)}) = i]
  BY <1>7 DEF MergeEvents, Ranked
<1>9. \A k \in events : Cardinality({j \in events : B(j, k)}) = Rank(events, before, k)
  <2> SUFFICES ASSUME NEW k \in events
               PROVE  Cardinality({j \in events : B(j, k)}) = Rank(events, before, k)
    OBVIOUS
  <2>1. {j \in events : B(j, k)} = {j \in events : <<j, k>> \in before}
    BY <1>4
  <2> QED
    BY <2>1 DEF Rank
<1> HIDE DEF B
<1>10. ASSUME NEW i \in 1 .. Cardinality(events)
       PROVE  list[i] \in events /\ Rank(events, before, list[i]) = i
  <2>1. \E k \in events : Cardinality({j \in events : B(j, k)}) = i
    BY <1>6, <1>9
  <2>2. list[i] = CHOOSE k \in events : Cardinality({j \in events : B(j, k)}) = i
    BY <1>8
  <2>3. list[i] \in events /\ Cardinality({j \in events : B(j, list[i])}) = i
    BY <2>1, <2>2, Zenon
  <2> QED
    BY <1>9, <2>3
<1>11. InTheirPlaces(list, events, before)
  BY <1>8, <1>10 DEF InTheirPlaces
<1>12. \A k \in events : \E i \in 1 .. Cardinality(events) : list[i] = k
  BY <1>1, <1>5, <1>11, InPlace
<1> QED
  BY <1>1, <1>7, <1>10, <1>12

\* What no event takes away, the reduce does not take away.
LEMMA ReplayKeeps ==
  ASSUME EventsInv, NEW events \in SUBSET DOMAIN history, NEW Good, NEW v \in Good,
         \A u \in Good : \A k \in events : ApplyWorkflowEvent(u, k) \in Good
  PROVE  Replay(v, events) \in Good
<1>1. PICK n \in Nat : n = Cardinality(events)
  BY MergeEventsIs
<1>2. PICK list : list = MergeEvents(events)
  OBVIOUS
<1>3. \A i \in 1 .. n : list[i] \in events
  BY <1>1, <1>2, MergeEventsIs
<1>4. PICK shown : /\ Replay(v, events) = shown[n] /\ shown[0] = v
                   /\ \A i \in 1 .. n : shown[i] = ApplyWorkflowEvent(shown[i - 1], list[i])
  BY <1>1, <1>2, ReplayIs
<1> DEFINE S == {i \in 0 .. n : shown[i] \in Good}
<1>5. S \in SUBSET Nat /\ 0 \in S
  BY <1>4
<1>6. ASSUME NEW i \in S, i < n PROVE i + 1 \in S
  <2>1. i + 1 \in 1 .. n /\ shown[i + 1] = ApplyWorkflowEvent(shown[i], list[i + 1])
    BY <1>4, <1>6
  <2> QED
    BY <1>3, <2>1
<1>7. \A i \in S : i < n => i + 1 \in S
  BY <1>6
<1>8. n \in S
  <2> HIDE DEF S
  <2> QED
    BY <1>5, <1>7, CountingUp
<1> QED
  BY <1>4, <1>8

\* What one of the events brings about and no event takes away, holds in the end.
LEMMA ReplaySees ==
  ASSUME EventsInv, NEW events \in SUBSET DOMAIN history, NEW Good, NEW v \in Good,
         \A u \in Good : \A k \in events : ApplyWorkflowEvent(u, k) \in Good,
         NEW Seen \in SUBSET Good,
         \A u \in Seen : \A k \in events : ApplyWorkflowEvent(u, k) \in Seen,
         NEW e \in events, \A u \in Good : ApplyWorkflowEvent(u, e) \in Seen
  PROVE  Replay(v, events) \in Seen
<1>1. PICK n \in Nat : n = Cardinality(events)
  BY MergeEventsIs
<1>2. PICK list : list = MergeEvents(events)
  OBVIOUS
<1>3. (\A i \in 1 .. n : list[i] \in events) /\ \E i \in 1 .. n : list[i] = e
  BY <1>1, <1>2, MergeEventsIs
<1>4. PICK shown : /\ Replay(v, events) = shown[n] /\ shown[0] = v
                   /\ \A i \in 1 .. n : shown[i] = ApplyWorkflowEvent(shown[i - 1], list[i])
  BY <1>1, <1>2, ReplayIs
<1>5. PICK m \in 1 .. n : list[m] = e
  BY <1>3
<1> DEFINE S == {i \in 0 .. n : shown[i] \in Good /\ (i >= m => shown[i] \in Seen)}
<1>6. S \in SUBSET Nat /\ 0 \in S
  BY <1>4
<1>7. ASSUME NEW i \in S, i < n PROVE i + 1 \in S
  <2>1. i + 1 \in 1 .. n /\ shown[i + 1] = ApplyWorkflowEvent(shown[i], list[i + 1])
    BY <1>4, <1>7
  <2>2. shown[i] \in Good /\ list[i + 1] \in events
    BY <1>3, <2>1
  <2>3. shown[i + 1] \in Good
    BY <2>1, <2>2
  <2>4. CASE i + 1 = m
    BY <1>5, <2>1, <2>2, <2>3, <2>4
  <2>5. CASE i + 1 > m
    BY <2>1, <2>2, <2>3, <2>5
  <2>6. CASE i + 1 < m
    BY <2>1, <2>3, <2>6
  <2> QED
    BY <2>4, <2>5, <2>6
<1>8. \A i \in S : i < n => i + 1 \in S
  BY <1>7
<1>9. n \in S
  <2> HIDE DEF S
  <2> QED
    BY <1>6, <1>8, CountingUp
<1> QED
  BY <1>4, <1>9

\* An event applied: the view keeps its time, or takes that of the event, and does
\* not fall behind an event it knows.
LEMMA ApplyIs ==
  ASSUME EventsInv, NEW v \in Views, NEW k \in DOMAIN history
  PROVE  /\ ApplyWorkflowEvent(v, k) \in Views
         /\ ApplyWorkflowEvent(v, k).at >= v.at
         /\ Known(k) => ApplyWorkflowEvent(v, k).at >= history[k].at
         /\ \/ ApplyWorkflowEvent(v, k) = v
            \/ Known(k) /\ ApplyWorkflowEvent(v, k).at = history[k].at
<1>1. PICK e \in Payload : e = history[k].event
  BY EntriesAre DEF Entry
<1>2. PICK t \in Nat : t = history[k].at
  BY EntriesAre
<1>3. PICK next : next = [v EXCEPT !.completed = e.completed, !.at = t]
  OBVIOUS
<1>4. next = [status |-> v.status, stage |-> v.stage, completed |-> e.completed, at |-> t]
  BY <1>3 DEF Views
<1>5. e.completed \in 0 .. MaxStages /\ e.stage \in WorkflowStatus \cup {None}
  BY <1>1 DEF Payload, WorkflowStatus, Running
<1>6. next \in Views /\ next.at = t
  BY <1>4, <1>5 DEF Views
<1>7. v.at \in Nat
  BY DEF Views
<1>8. PICK running : running = [next EXCEPT !.status = "RUNNING"]
  OBVIOUS
<1>9. running \in Views /\ running.at = t
  BY <1>6, <1>8 DEF Views
<1>10. \A stage \in WorkflowStatus \cup {None} :
         [running EXCEPT !.stage = stage] \in Views /\ [running EXCEPT !.stage = stage].at = t
  BY <1>9 DEF Views
<1>11. PICK failed : failed = [next EXCEPT !.status = "FAILED", !.stage = None]
  OBVIOUS
<1>12. failed \in Views /\ failed.at = t
  <2>1. failed = [status |-> "FAILED", stage |-> None, completed |-> e.completed, at |-> t]
    BY <1>4, <1>11
  <2> QED
    BY <1>5, <2>1 DEF Views
<1>13. PICK u : u = ApplyWorkflowEvent(v, k)
  OBVIOUS
<1>14. CASE t < v.at
  <2>1. u = v
    BY <1>2, <1>13, <1>14 DEF ApplyWorkflowEvent
  <2>2. u \in Views /\ u.at >= v.at /\ u.at >= t
    BY <1>2, <1>7, <1>14, <2>1
  <2> QED
    BY <1>2, <1>13, <2>1, <2>2
<1>15. CASE ~(t < v.at)
  <2>1. \/ Known(k) /\ u = running
        \/ Known(k) /\ u = [running EXCEPT !.stage = e.stage]
        \/ Known(k) /\ u = [running EXCEPT !.stage = "RETRYING"]
        \/ Known(k) /\ u = failed
        \/ ~Known(k) /\ u = v
    <3>1. CASE e.event \in {"WORKFLOW_STARTED", "WORKFLOW_STAGE_COMPLETED"}
      <4>1. u = [next EXCEPT !.status = "RUNNING"]
        BY <1>1, <1>2, <1>3, <1>13, <1>15, <3>1 DEF ApplyWorkflowEvent
      <4> QED
        BY <1>1, <1>8, <3>1, <4>1 DEF Known
    <3>2. CASE e.event \in {"WORKFLOW_STAGE_STARTED", "WORKFLOW_STAGE_PROGRESS"}
      <4>1. u = [next EXCEPT !.status = "RUNNING", !.stage = e.stage]
        BY <1>1, <1>2, <1>3, <1>13, <1>15, <3>2 DEF ApplyWorkflowEvent
      <4> QED
        BY <1>1, <1>8, <3>2, <4>1 DEF Known
    <3>3. CASE e.event = "WORKFLOW_RETRY"
      <4>1. u = [next EXCEPT !.status = "RUNNING", !.stage = "RETRYING"]
        BY <1>1, <1>2, <1>3, <1>13, <1>15, <3>3 DEF ApplyWorkflowEvent
      <4> QED
        BY <1>1, <1>8, <3>3, <4>1 DEF Known
    <3>4. CASE e.event = "WORKFLOW_FAILED"
      BY <1>1, <1>2, <1>3, <1>11, <1>13, <1>15, <3>4 DEF ApplyWorkflowEvent, Known
    <3>5. CASE ~Known(k)
      BY <1>1, <1>2, <1>13, <1>15, <3>5 DEF ApplyWorkflowEvent, Known
    <3> QED
      BY <1>1, <3>1, <3>2, <3>3, <3>4, <3>5 DEF Known
  <2>2. "RETRYING" \in WorkflowStatus
    BY DEF WorkflowStatus, Running
  <2>3. \/ Known(k) /\ u \in Views /\ u.at = t
        \/ ~Known(k) /\ u = v
    BY <1>5, <1>9, <1>10, <1>12, <2>1, <2>2
  <2>4. u \in Views /\ u.at >= v.at /\ (Known(k) => u.at >= t)
        /\ (u = v \/ (Known(k) /\ u.at = t))
    BY <1>2, <1>7, <1>15, <2>3
  <2> QED
    BY <1>2, <1>13, <2>4
<1> QED
  BY <1>14, <1>15

\* What the row tells.
LEMMA ViewIs ==
  ASSUME EventsInv, RowInv
  PROVE  /\ View \in Views /\ View.at = saved
         /\ row.status = "FAILED" => View.status = "FAILED" /\ View.stage = None
         /\ View.completed = row.completed
<1>1. row \in WorkflowRow /\ saved \in Nat
  BY DEF EventsInv, EventTypes, RowInv, SavedInv
<1>2. /\ row.status \in WorkflowStatus /\ row.completed \in 0 .. MaxStages
  BY <1>1 DEF WorkflowRow
<1> QED
  BY <1>1, <1>2 DEF View, Views, ApiStatus, StageName

LEMMA ShownIs ==
  ASSUME NEW v \in Views, NEW u \in Views
  PROVE  Shown(v) = Shown(u) <=> v.status = u.status /\ v.stage = u.stage /\ v.completed = u.completed
<1>1. Shown(v) = [status |-> v.status, stage |-> v.stage, completed |-> v.completed, at |-> 0]
  BY DEF Shown, Views
<1>2. Shown(u) = [status |-> u.status, stage |-> u.stage, completed |-> u.completed, at |-> 0]
  BY DEF Shown, Views
<1> QED
  BY <1>1, <1>2

\* An older or a harmless event does not change what the page shows of the row.
LEMMA HarmlessIs ==
  ASSUME EventsInv, RowInv, NEW v \in Views, Shown(v) = Shown(View), v.at >= saved,
         NEW k \in DOMAIN history, history[k].at < saved \/ Harmless(history[k].event)
  PROVE  Shown(ApplyWorkflowEvent(v, k)) = Shown(View)
<1>1. PICK e \in Payload : e = history[k].event
  BY EntriesAre DEF Entry
<1>2. PICK t \in Nat : t = history[k].at
  BY EntriesAre
<1>3. v.at \in Nat /\ saved \in Nat
  BY DEF Views, RowInv, SavedInv
<1>4. PICK u : u = ApplyWorkflowEvent(v, k)
  OBVIOUS
<1>5. u \in Views
  BY <1>4, ApplyIs
<1>6. CASE t < v.at
  <2>1. u = v
    BY <1>2, <1>4, <1>6 DEF ApplyWorkflowEvent
  <2> QED
    BY <1>4, <2>1
<1>7. CASE ~(t < v.at) /\ e.event = "WORKFLOW_WAITING_FOR_REVIEW"
  <2>1. u = v
    BY <1>1, <1>2, <1>4, <1>7 DEF ApplyWorkflowEvent
  <2> QED
    BY <1>4, <2>1
<1>8. CASE ~(t < v.at) /\ e.event = "WORKFLOW_FAILED" /\ row.status = "FAILED" /\ e.completed = row.completed
  <2>1. PICK next : next = [v EXCEPT !.completed = e.completed, !.at = t]
    OBVIOUS
  <2>2. u = [next EXCEPT !.status = "FAILED", !.stage = None]
    BY <1>1, <1>2, <1>4, <1>8, <2>1 DEF ApplyWorkflowEvent
  <2>3. next = [status |-> v.status, stage |-> v.stage, completed |-> e.completed, at |-> t]
    BY <2>1 DEF Views
  <2>4. u = [status |-> "FAILED", stage |-> None, completed |-> e.completed, at |-> t]
    BY <2>2, <2>3
  <2>5. View \in Views /\ View.status = "FAILED" /\ View.stage = None /\ View.completed = e.completed
    BY <1>8, ViewIs
  <2>6. PICK w \in Views : w = View
    BY <2>5
  <2>7. Shown(u) = Shown(w)
    BY <1>5, <2>4, <2>5, <2>6, ShownIs
  <2> QED
    BY <1>4, <2>6, <2>7
<1> QED
  BY <1>1, <1>2, <1>3, <1>6, <1>7, <1>8 DEF Harmless

\* Once the runs are over and none of them was cut short, the events tell of
\* nothing but the row: a page that replays the whole history over the row shows
\* the row.  For every sequence of runs and whichever of them overlap.
LEMMA RestTold == ASSUME EventsInv, RowInv PROVE RestIsTold
<1> SUFFICES ASSUME run.at \in {"idle", "over"}, Silent(out), Silent(tail), lost + crashes = 0
             PROVE  Shown(Told) = Shown(View)
  BY DEF RestIsTold
<1>1. lost = 0 /\ crashes = 0
  BY DEF EventsInv, EventTypes
<1>2. PICK events : events = DOMAIN history
  OBVIOUS
<1>3. PICK view \in Views : view = View
  BY ViewIs
<1>4. view.at = saved /\ saved \in Nat
  BY <1>3, ViewIs DEF RowInv, SavedInv
<1>5. \A k \in events : history[k].at < saved \/ Harmless(history[k].event)
  BY <1>1, <1>2 DEF RowInv, ToldInv
<1>6. PICK Good : Good = {u \in Views : Shown(u) = Shown(View) /\ u.at >= saved}
  OBVIOUS
<1>7. view \in Good
  BY <1>3, <1>4, <1>6
<1>8. ASSUME NEW u \in Good, NEW k \in events PROVE ApplyWorkflowEvent(u, k) \in Good
  <2>1. u \in Views /\ Shown(u) = Shown(View) /\ u.at >= saved /\ k \in DOMAIN history /\ u.at \in Nat
    BY <1>2, <1>6 DEF Views
  <2>2. ApplyWorkflowEvent(u, k) \in Views /\ ApplyWorkflowEvent(u, k).at >= u.at
    BY <2>1, ApplyIs
  <2>3. Shown(ApplyWorkflowEvent(u, k)) = Shown(View)
    BY <1>5, <2>1, HarmlessIs
  <2>4. ApplyWorkflowEvent(u, k).at \in Nat
    BY <2>2 DEF Views
  <2> QED
    BY <1>4, <1>6, <2>1, <2>2, <2>3, <2>4
<1>9. Replay(view, events) \in Good
  BY <1>2, <1>7, <1>8, ReplayKeeps
<1> QED
  BY <1>2, <1>3, <1>6, <1>9 DEF Told

-----------------------------------------------------------------------------
(* What the page shows.                                                    *)

\* A snapshot and some events: as young as the snapshot and as each of the events.
LEMMA LoadingIs ==
  ASSUME EventsInv, NEW v \in Views, NEW events \in SUBSET DOMAIN history
  PROVE  /\ Replay(v, events) \in Views
         /\ Replay(v, events).at >= v.at
         /\ \A k \in events : Known(k) => Replay(v, events).at >= history[k].at
         /\ \/ Replay(v, events).at = v.at
            \/ \E k \in events : Known(k) /\ Replay(v, events).at = history[k].at
<1>1. v.at \in Nat /\ \A k \in events : history[k].at \in Nat
  BY EntriesAre DEF Views
<1>2. PICK Good : Good = {u \in Views : /\ u.at >= v.at
                                       /\ \/ u.at = v.at
                                          \/ \E k \in events : Known(k) /\ u.at = history[k].at}
  OBVIOUS
<1>3. v \in Good
  BY <1>1, <1>2
<1>4. ASSUME NEW u \in Good, NEW k \in events PROVE ApplyWorkflowEvent(u, k) \in Good
  <2>1. u \in Views /\ u.at \in Nat /\ u.at >= v.at /\ k \in DOMAIN history
        /\ (u.at = v.at \/ \E j \in events : Known(j) /\ u.at = history[j].at)
    BY <1>2 DEF Views
  <2>2. PICK w : w = ApplyWorkflowEvent(u, k)
    OBVIOUS
  <2>3. w \in Views /\ w.at >= u.at /\ (w.at = u.at \/ (Known(k) /\ w.at = history[k].at)) /\ w.at \in Nat
    BY <2>1, <2>2, ApplyIs DEF Views
  <2>4. w \in Good
    BY <1>1, <1>2, <2>1, <2>3
  <2> QED
    BY <2>2, <2>4
<1>5. Replay(v, events) \in Good
  BY <1>3, <1>4, ReplayKeeps
<1>6. ASSUME NEW e \in events, Known(e) PROVE Replay(v, events).at >= history[e].at
  <2>1. PICK Seen : Seen = {u \in Good : u.at >= history[e].at}
    OBVIOUS
  <2>2. ASSUME NEW u \in Good PROVE ApplyWorkflowEvent(u, e) \in Seen
    <3>1. u \in Views
      BY <1>2
    <3> QED
      BY <1>4, <1>6, <2>1, <3>1, ApplyIs
  <2>3. ASSUME NEW u \in Seen, NEW k \in events PROVE ApplyWorkflowEvent(u, k) \in Seen
    <3>1. u \in Good /\ u \in Views /\ u.at \in Nat /\ u.at >= history[e].at
      BY <1>2, <2>1 DEF Views
    <3>2. PICK w : w = ApplyWorkflowEvent(u, k)
      OBVIOUS
    <3>3. w \in Good /\ w.at >= u.at /\ w.at \in Nat
      BY <1>2, <1>4, <3>1, <3>2, ApplyIs DEF Views
    <3>4. w \in Seen
      BY <1>1, <2>1, <3>1, <3>3
    <3> QED
      BY <3>2, <3>4
  <2>4. Seen \in SUBSET Good
    BY <2>1
  <2>5. Replay(v, events) \in Seen
    BY <1>3, <1>4, <2>2, <2>3, <2>4, ReplaySees
  <2> QED
    BY <2>1, <2>5
<1> QED
  BY <1>2, <1>5, <1>6

\* Events are recorded, never changed.
HistoryGrows ==
  /\ DOMAIN history \subseteq DOMAIN history'
  /\ \A k \in DOMAIN history : history'[k] = history[k]

LEMMA QueueGrows ==
  ASSUME EventsInv, HistoryGrows, queue # None => queue \in Seq(DOMAIN history),
         queue' # None => queue' = queue \/ \E k \in DOMAIN history' : queue' = Append(queue, k) /\ queue # None
  PROVE  queue' # None => queue' \in Seq(DOMAIN history')
<1> SUFFICES ASSUME queue' # None PROVE queue' \in Seq(DOMAIN history')
  OBVIOUS
<1>1. queue # None
  OBVIOUS
<1>2. queue \in Seq(DOMAIN history')
  BY <1>1 DEF HistoryGrows
<1> QED
  BY <1>2

\* What the server does, seen from the page.
LEMMA ServerSeen ==
  ASSUME EventsInv, RowInv, PageInv, ServerStep
  PROVE  /\ HistoryGrows
         /\ late' = 0 => late = 0
         /\ queue' # None => queue' \in Seq(DOMAIN history')
<1>1. late \in Nat /\ (late' = late \/ late' = late + 1)
  BY DEF RowInv, SavedInv, ServerStep, Claim, StartAnalysis, RunStep, Begin, BeginStage, Call, Retry,
         Produce, ReportFailure, Break, Fail, FailUnprepared, EndStage, Wait, Record, TailRecord,
         RecordFails, SaveOwing, Owing, otherVars, counters
<1>2. late' = 0 => late = 0
  BY <1>1
<1>3. \/ UNCHANGED <<history, queue>>
      \/ \E session \in {out, tail} : Recorded(session)
  BY DEF ServerStep, Claim, StartAnalysis, RunStep, Begin, BeginStage, Call, Retry,
         Produce, ReportFailure, Break, Fail, FailUnprepared, EndStage, Wait, Record, TailRecord,
         RecordFails, SaveOwing, Owing, otherVars
<1>4. CASE UNCHANGED <<history, queue>>
  BY <1>2, <1>4 DEF HistoryGrows, PageInv, PageTypes
<1>5. ASSUME NEW session \in {out, tail}, Recorded(session)
      PROVE  HistoryGrows /\ (queue' # None => queue' \in Seq(DOMAIN history'))
  <2>1. session \in Session /\ session.began <= clock
    BY DEF EventsInv, EventTypes, TimesInv
  <2>2. HistoryGrows /\ Len(history) + 1 \in DOMAIN history'
    BY <1>5, <2>1, RecordedIs DEF HistoryGrows
  <2>3. queue' # None => queue' = queue \/ (queue' = Append(queue, Len(history) + 1) /\ queue # None)
    BY <1>5 DEF Recorded, Broadcast
  <2> QED
    BY <2>2, <2>3, QueueGrows DEF PageInv, PageTypes
<1> QED
  BY <1>2, <1>3, <1>4, <1>5

\* The step NeverBackwards is about.
NotBack == late = 0 /\ page.workflow # None => page'.workflow.at >= page.workflow.at

\* What covers the page, still covers it.
LEMMA StaysCovered ==
  ASSUME PageInv, HistoryGrows, page'.workflow = page.workflow, page.events \subseteq page'.events,
         NEW t, Covered(t)
  PROVE  Covered(t)'
<1>1. page.events \subseteq DOMAIN history
  BY DEF PageInv, PageTypes
<1> QED
  BY <1>1 DEF Covered, Known, HistoryGrows

\* A step that leaves alone what the page shows.
LEMMA LooksSame ==
  ASSUME PageInv, RowInv, RowInv', HistoryGrows, page'.workflow = page.workflow, page'.events = page.events,
         late' = 0 => late = 0 /\ saved' >= saved,
         call'.workflow \in {None, call.workflow}
  PROVE  AgeInv' /\ NotBack
<1>1. page.workflow # None => page.workflow.at \in Nat
  BY DEF PageInv, PageTypes, Pages, Views
<1>2. saved \in Nat /\ saved' \in Nat
  BY DEF RowInv, SavedInv
<1>3. call.workflow # None => call.workflow \in Views /\ call.workflow.at \in Nat
  BY DEF PageInv, PageTypes, Calls, Views
<1>4. NotBack
  BY <1>1 DEF NotBack
<1>5. AgeInv'
  <2> SUFFICES ASSUME late' = 0
               PROVE  /\ call'.workflow # None => call'.workflow.at <= saved'
                      /\ page'.workflow # None => /\ Covered(saved)'
                                                  /\ call'.workflow # None => Covered(call.workflow.at)'
    BY DEF AgeInv
  <2>1. late = 0 /\ saved' >= saved
    OBVIOUS
  <2>2. call'.workflow # None => call'.workflow = call.workflow /\ call.workflow # None
    OBVIOUS
  <2>3. call'.workflow # None => call'.workflow.at <= saved'
    BY <1>2, <1>3, <2>1, <2>2 DEF PageInv, AgeInv
  <2>4. ASSUME page'.workflow # None PROVE Covered(saved)'
    <3>1. PICK t : t = saved
      OBVIOUS
    <3>2. Covered(t)
      BY <2>1, <2>4, <3>1 DEF PageInv, AgeInv
    <3>3. Covered(t)'
      BY <3>2, StaysCovered
    <3> QED
      BY <1>1, <1>2, <2>1, <2>4, <3>1, <3>3 DEF Covered
  <2>5. ASSUME page'.workflow # None, call'.workflow # None PROVE Covered(call.workflow.at)'
    <3>1. PICK t : t = call.workflow.at
      OBVIOUS
    <3>2. Covered(t)
      BY <2>1, <2>2, <2>5, <3>1 DEF PageInv, AgeInv
    <3>3. Covered(t)'
      BY <3>2, StaysCovered
    <3> QED
      BY <2>2, <2>5, <3>1, <3>3 DEF Covered
  <2> QED
    BY <2>3, <2>4, <2>5
<1> QED
  BY <1>4, <1>5

LEMMA CallsAre ==
  /\ NoCall \in Calls /\ NoCall.workflow = None /\ NoCall.events = None
  /\ NewCall \in Calls /\ NewCall.workflow = None /\ NewCall.events = None
<1>1. NoCall \in Calls /\ NoCall.workflow = None /\ NoCall.events = None
  BY DEF NoCall, Calls
<1>2. PICK c : c = NoCall
  OBVIOUS
<1>3. NewCall = [c EXCEPT !.busy = TRUE]
  BY <1>2 DEF NewCall
<1> QED
  BY <1>1, <1>2, <1>3 DEF Calls

\* A page step leaves the row and the history alone.
LEMMA PageStepIs ==
  ASSUME RowInv, UNCHANGED producerVars
  PROVE  HistoryGrows /\ late' = late /\ saved' = saved /\ clock' = clock /\ saved' >= saved /\ history' = history
<1>1. saved \in Nat
  BY DEF RowInv, SavedInv
<1> QED
  BY <1>1 DEF producerVars, HistoryGrows

LEMMA ReadWorkflowShows ==
  ASSUME EventsInv, RowInv, PageInv, ReadWorkflow PROVE PageInv' /\ NotBack
<1>1. /\ UNCHANGED <<row, saved, history, clock, late, queue, page, sock>>
  BY DEF ReadWorkflow, eventVars, serverVars, producerVars
<1>2. call \in Calls /\ clock \in Nat /\ saved \in Nat
  BY DEF EventsInv, EventTypes, PageInv, PageTypes, RowInv, SavedInv
<1>3. PICK view \in Views : view = View /\ view.at = saved
  BY ViewIs
<1>4. PICK c : c = [call EXCEPT !.workflow = view]
  OBVIOUS
<1>5. c \in Calls /\ c.workflow = view /\ c.events = call.events /\ c.read = call.read
  BY <1>2, <1>4 DEF Calls
<1>6. PICK t \in Nat : t = IF call.read = 0 THEN clock ELSE call.read
  BY <1>2 DEF Calls
<1>7. call' = [c EXCEPT !.read = t]
  BY <1>3, <1>4, <1>5, <1>6 DEF ReadWorkflow
<1>8. call' \in Calls /\ call'.workflow = view /\ call'.events = call.events
  BY <1>5, <1>7 DEF Calls
<1>9. PageTypes'
  BY <1>1, <1>8 DEF PageInv, PageTypes
<1>10. AgeInv'
  BY <1>1, <1>2, <1>3, <1>8 DEF PageInv, AgeInv, Covered, Known
<1>11. NotBack
  BY <1>1 DEF NotBack, PageInv, PageTypes, Pages, Views
<1> QED
  BY <1>9, <1>10, <1>11 DEF PageInv

LEMMA ReadEventsShows ==
  ASSUME EventsInv, RowInv, RowInv', PageInv, ReadEvents PROVE PageInv' /\ NotBack
<1>1. /\ UNCHANGED <<row, saved, history, clock, late, queue, page, sock>>
  BY DEF ReadEvents, eventVars, serverVars, producerVars
<1>2. call \in Calls /\ clock \in Nat /\ history \in Seq(Entry)
  BY DEF EventsInv, EventTypes, PageInv, PageTypes
<1>3. PICK events : events = DOMAIN history
  OBVIOUS
<1>4. events \in SUBSET Nat
  BY <1>2, <1>3
<1>5. PICK c : c = [call EXCEPT !.events = events]
  OBVIOUS
<1>6. c \in Calls /\ c.workflow = call.workflow /\ c.events = events /\ c.read = call.read
  BY <1>2, <1>4, <1>5 DEF Calls
<1>7. PICK t \in Nat : t = IF call.read = 0 THEN clock ELSE call.read
  BY <1>2 DEF Calls
<1>8. call' = [c EXCEPT !.read = t]
  BY <1>3, <1>5, <1>6, <1>7 DEF ReadEvents
<1>9. call' \in Calls /\ call'.workflow = call.workflow /\ call'.events = events
  BY <1>6, <1>8 DEF Calls
<1>10. PageTypes'
  BY <1>1, <1>3, <1>9 DEF PageInv, PageTypes
<1>11. AgeInv' /\ NotBack
  <2>1. saved \in Nat
    BY DEF RowInv, SavedInv
  <2> QED
    BY <1>1, <1>9, <2>1, LooksSame DEF HistoryGrows
<1> QED
  BY <1>10, <1>11 DEF PageInv

\* The page shows no less than it did: the snapshot, or one of its own events, is
\* as young as what it showed.
LEMMA AnsweredShows ==
  ASSUME EventsInv, RowInv, PageInv, Answered PROVE PageInv' /\ NotBack
<1>1. /\ UNCHANGED <<row, saved, history, clock, late, queue>>
      /\ call' = NoCall /\ (sock' # "off" => TRUE)
  BY DEF Answered, eventVars, serverVars, producerVars
<1>2. call \in Calls /\ page \in Pages /\ saved \in Nat /\ history \in Seq(Entry)
  BY DEF EventsInv, EventTypes, PageInv, PageTypes, RowInv, SavedInv
<1>3. PICK v : v = call.workflow
  OBVIOUS
<1>4. v \in Views
  BY <1>2, <1>3 DEF Answered, Calls
<1>5. PICK events : events = page.events \cup call.events
  OBVIOUS
<1>6. events \in SUBSET DOMAIN history
  BY <1>2, <1>5 DEF PageInv, PageTypes, Answered
<1>7. PICK w : w = Replay(v, events)
  OBVIOUS
<1>8. /\ w \in Views /\ w.at >= v.at /\ w.at \in Nat /\ v.at \in Nat
      /\ \A k \in events : Known(k) => w.at >= history[k].at
      /\ w.at = v.at \/ \E k \in events : Known(k) /\ w.at = history[k].at
  BY <1>4, <1>6, <1>7, LoadingIs DEF Views
<1>9. page' = [workflow |-> w, events |-> events, error |-> FALSE]
  BY <1>3, <1>5, <1>7 DEF Answered, Loaded
<1>10. page' \in Pages /\ page'.workflow = w /\ page'.events = events
  BY <1>2, <1>6, <1>8, <1>9 DEF Pages
<1>11. PageTypes'
  BY <1>1, <1>6, <1>8, <1>10, CallsAre DEF PageInv, PageTypes
<1>12. AgeInv'
  <2>1. late = 0 => v.at <= saved
    BY <1>3 DEF PageInv, AgeInv, Answered
  <2>2. late = 0 => Covered(saved)'
    BY <1>1, <1>2, <1>8, <1>10, <2>1 DEF Covered, Known
  <2> QED
    BY <1>1, <2>2, CallsAre DEF AgeInv
<1>13. NotBack
  <2> SUFFICES ASSUME late = 0, page.workflow # None
               PROVE  w.at >= page.workflow.at
    BY <1>10 DEF NotBack
  <2>1. page.workflow.at \in Nat
    BY <1>2 DEF Pages, Views
  <2>2. Covered(v.at)
    BY <1>3 DEF PageInv, AgeInv, Answered
  <2>3. CASE page.workflow.at <= v.at
    BY <1>8, <2>1, <2>3
  <2>4. ASSUME NEW k \in page.events, Known(k), page.workflow.at <= history[k].at
        PROVE  w.at >= page.workflow.at
    <3>1. k \in events /\ history[k].at \in Nat
      BY <1>5, <1>6, EntriesAre
    <3> QED
      BY <1>8, <2>1, <2>4, <3>1
  <2> QED
    BY <2>2, <2>3, <2>4 DEF Covered
<1> QED
  BY <1>11, <1>12, <1>13 DEF PageInv


\* One frame: the event is as young as the page, or it changes nothing.
LEMMA FrameShows ==
  ASSUME EventsInv, RowInv, RowInv', PageInv, Frame PROVE PageInv' /\ NotBack
<1>1. UNCHANGED <<row, saved, history, clock, late, sock>>
  BY DEF Frame, producerVars
<1>2. call \in Calls /\ page \in Pages /\ saved \in Nat /\ history \in Seq(Entry)
  BY DEF EventsInv, EventTypes, PageInv, PageTypes, RowInv, SavedInv
<1>3. queue \in Seq(DOMAIN history) /\ queue # <<>> /\ queue' = Tail(queue)
  BY DEF Frame, PageInv, PageTypes
<1>4. PICK k : k = Head(queue)
  OBVIOUS
<1>5. k \in DOMAIN history /\ k \in Nat /\ queue' \in Seq(DOMAIN history)
  BY <1>2, <1>3, <1>4
<1>6. call' = NewCall \/ call' = call
  BY DEF Frame
<1>7. /\ call' \in Calls /\ call'.workflow \in {None, call.workflow}
      /\ call'.events # None => call'.events = call.events /\ call.events # None
  BY <1>2, <1>6, CallsAre
<1>8. CASE k \in page.events
  <2>1. page' = page
    BY <1>4, <1>8 DEF Frame, Received
  <2>2. PageTypes'
    BY <1>1, <1>3, <1>5, <1>7, <2>1 DEF PageInv, PageTypes
  <2>3. AgeInv' /\ NotBack
    BY <1>1, <1>2, <1>7, <2>1, LooksSame DEF HistoryGrows
  <2> QED
    BY <2>2, <2>3 DEF PageInv
<1>9. CASE k \notin page.events
  <2>1. PICK v \in Views : v = page.workflow
    BY DEF Frame, PageInv, PageTypes
  <2>2. PICK w : w = ApplyWorkflowEvent(v, k)
    OBVIOUS
  <2>3. /\ w \in Views /\ w.at >= v.at /\ v.at \in Nat /\ w.at \in Nat
        /\ w = v \/ (Known(k) /\ w.at = history[k].at)
    BY <1>5, <2>2, ApplyIs DEF Views
  <2>4. PICK events : events = page.events \cup {k}
    OBVIOUS
  <2>5. events \in SUBSET Nat /\ events \subseteq DOMAIN history
    BY <1>2, <1>5, <2>4 DEF Pages, PageInv, PageTypes
  <2>6. page' = [page EXCEPT !.workflow = w, !.events = events]
    BY <1>4, <1>9, <2>1, <2>2, <2>4 DEF Frame, Received
  <2>7. page' = [workflow |-> w, events |-> events, error |-> page.error]
    BY <1>2, <2>6 DEF Pages
  <2>8. page' \in Pages /\ page'.workflow = w /\ page'.events = events
    BY <1>2, <2>3, <2>5, <2>7 DEF Pages
  <2>9. PageTypes'
    BY <1>1, <1>3, <1>5, <1>7, <2>3, <2>5, <2>8 DEF PageInv, PageTypes
  <2>10. NotBack
    BY <2>1, <2>3, <2>8 DEF NotBack
  <2>11. CASE w = v
    <3>1. ASSUME NEW t \in Int, Covered(t) PROVE Covered(t)'
      BY <1>1, <2>1, <2>4, <2>8, <2>11, <3>1 DEF Covered, Known
    <3>2. call.workflow # None => call.workflow \in Views /\ call.workflow.at \in Int
      BY <1>2 DEF Calls, Views
    <3>3. ASSUME page.workflow # None, late = 0
          PROVE  /\ Covered(saved)'
                 /\ call'.workflow # None => Covered(call.workflow.at)'
      <4>1. PICK t \in Int : t = saved
        BY <1>2
      <4>2. Covered(t)
        BY <3>3, <4>1 DEF PageInv, AgeInv
      <4>3. Covered(t)'
        BY <3>1, <4>2
      <4>4. Covered(saved)'
        BY <1>1, <4>1, <4>3 DEF Covered
      <4>5. ASSUME call'.workflow # None PROVE Covered(call.workflow.at)'
        <5>1. call'.workflow = call.workflow /\ call.workflow # None
          BY <1>7, <4>5
        <5>2. PICK s \in Int : s = call.workflow.at
          BY <3>2, <5>1
        <5>3. Covered(s)
          BY <3>3, <5>1, <5>2 DEF PageInv, AgeInv
        <5>4. Covered(s)'
          BY <3>1, <5>3
        <5> QED
          BY <5>1, <5>2, <5>4 DEF Covered
      <4> QED
        BY <4>4, <4>5
    <3>4. late = 0 /\ call'.workflow # None => call'.workflow.at <= saved
      BY <1>7 DEF PageInv, AgeInv
    <3>5. AgeInv'
      <4> SUFFICES ASSUME late' = 0
                   PROVE  /\ call'.workflow # None => call'.workflow.at <= saved'
                          /\ page'.workflow # None => /\ Covered(saved)'
                                                      /\ call'.workflow # None => Covered(call.workflow.at)'
        BY DEF AgeInv
      <4>1. late = 0 /\ saved' = saved /\ (page'.workflow # None => page.workflow # None)
        BY <1>1, <2>1, <2>8, <2>11
      <4> QED
        BY <3>3, <3>4, <4>1
    <3> QED
      BY <2>9, <2>10, <3>5 DEF PageInv
  <2>12. CASE Known(k) /\ w.at = history[k].at
    <3>1. k \in page'.events /\ Known(k)' /\ page'.workflow.at <= history'[k].at
      BY <1>1, <2>3, <2>4, <2>8, <2>12 DEF Known
    <3>2. late = 0 /\ call'.workflow # None => call'.workflow.at <= saved
      BY <1>7 DEF PageInv, AgeInv
    <3>3. AgeInv'
      BY <1>1, <3>1, <3>2 DEF AgeInv, Covered
    <3> QED
      BY <2>9, <2>10, <3>3 DEF PageInv
  <2> QED
    BY <2>3, <2>11, <2>12
<1> QED
  BY <1>8, <1>9

\* The steps of the page that show nothing new.
LEMMA OtherwiseShows ==
  ASSUME EventsInv, RowInv, RowInv', PageInv, SyncFails \/ Poll \/ Subscribe \/ Open \/ Drop
  PROVE  PageInv' /\ NotBack
<1>1. UNCHANGED <<row, saved, history, clock, late>>
  BY DEF SyncFails, Poll, Subscribe, Open, Drop, eventVars, serverVars, producerVars
<1>2. call \in Calls /\ page \in Pages /\ saved \in Nat
  BY DEF PageInv, PageTypes, RowInv, SavedInv
<1>3. /\ call' \in Calls /\ call'.workflow \in {None, call.workflow}
      /\ call'.events # None => call'.events = call.events /\ call.events # None
  BY <1>2, CallsAre DEF SyncFails, Poll, Subscribe, Open, Drop
<1>4. page' \in Pages /\ page'.workflow = page.workflow /\ page'.events = page.events
  <2>1. page' = page \/ page' = [page EXCEPT !.error = TRUE]
    BY DEF SyncFails, Poll, Subscribe, Open, Drop
  <2> QED
    BY <1>2, <2>1 DEF Pages
<1>5. queue' # None => queue' \in Seq(DOMAIN history)
  <2>1. queue' \in {queue, None, <<>>}
    BY DEF SyncFails, Poll, Subscribe, Open, Drop, serverVars, eventVars
  <2>2. <<>> \in Seq(DOMAIN history)
    OBVIOUS
  <2>3. queue # None => queue \in Seq(DOMAIN history)
    BY DEF PageInv, PageTypes
  <2> QED
    BY <2>1, <2>2, <2>3
<1>6. sock' # "off" => sock # "off"
  BY DEF SyncFails, Poll, Subscribe, Open, Drop
<1>7. PageTypes'
  BY <1>1, <1>3, <1>4, <1>5, <1>6 DEF PageInv, PageTypes
<1>8. AgeInv' /\ NotBack
  BY <1>1, <1>2, <1>3, <1>4, LooksSame DEF HistoryGrows
<1> QED
  BY <1>7, <1>8 DEF PageInv

LEMMA CrashShows ==
  ASSUME EventsInv, RowInv, RowInv', PageInv, Crash PROVE PageInv' /\ NotBack
<1>1. UNCHANGED <<row, saved, history, clock, late>> /\ queue' = None
  BY DEF Crash, ServerCrash
<1>2. call \in Calls /\ page \in Pages /\ saved \in Nat
  BY DEF PageInv, PageTypes, RowInv, SavedInv
<1>3. call' \in Calls /\ call'.workflow = None /\ call'.events = None
  BY CallsAre DEF Crash
<1>4. PICK error \in BOOLEAN : error = (page.error \/ call.busy)
  BY <1>2 DEF Pages, Calls
<1>5. page' = [page EXCEPT !.error = error]
  BY <1>4 DEF Crash
<1>6. page' \in Pages /\ page'.workflow = page.workflow /\ page'.events = page.events
  BY <1>2, <1>5 DEF Pages
<1>7. sock' # "off" => sock # "off"
  BY DEF Crash
<1>8. PageTypes'
  BY <1>1, <1>3, <1>6, <1>7 DEF PageInv, PageTypes
<1>9. AgeInv' /\ NotBack
  BY <1>1, <1>2, <1>3, <1>6, LooksSame DEF HistoryGrows
<1> QED
  BY <1>8, <1>9 DEF PageInv

LEMMA PageNext ==
  ASSUME EventsInv, RowInv, PageInv, [MonitorNext]_vars PROVE PageInv' /\ NotBack
<1>1. RowInv' /\ (late' = 0 => saved' >= saved)
  BY RowNext
<1>2. CASE ServerStep /\ UNCHANGED monitorVars
  <2>1. page' = page /\ call' = call /\ sock' = sock
    BY <1>2 DEF monitorVars
  <2>2. HistoryGrows /\ (late' = 0 => late = 0) /\ (queue' # None => queue' \in Seq(DOMAIN history'))
    BY <1>2, ServerSeen
  <2>3. PageTypes'
    BY <2>1, <2>2 DEF PageInv, PageTypes, HistoryGrows
  <2>4. AgeInv' /\ NotBack
    BY <1>1, <2>1, <2>2, LooksSame
  <2> QED
    BY <2>3, <2>4 DEF PageInv
<1>3. CASE PageStep
  BY <1>1, <1>3, ReadWorkflowShows, ReadEventsShows, AnsweredShows, FrameShows, OtherwiseShows
  DEF PageStep, Answer
<1>4. CASE Crash
  BY <1>1, <1>4, CrashShows
<1>5. CASE UNCHANGED vars
  <2>1. UNCHANGED <<row, saved, history, clock, late, queue, page, call, sock>>
    BY <1>5 DEF vars, eventVars, serverVars, producerVars, monitorVars
  <2> QED
    BY <2>1 DEF PageInv, PageTypes, AgeInv, Covered, Known, NotBack, Pages, Views
<1> QED
  BY <1>2, <1>3, <1>4, <1>5 DEF MonitorNext

LEMMA PageInit == ASSUME MonitorInit PROVE PageInv
<1>1. CASE New /\ page = [workflow |-> None, events |-> {}, error |-> FALSE] /\ call = NewCall
           /\ sock = "off" /\ queue = None
  <2>1. page \in Pages /\ page.workflow = None /\ page.events = {}
    BY <1>1 DEF Pages
  <2> QED
    BY <1>1, <2>1, CallsAre DEF PageInv, PageTypes, AgeInv
<1>2. CASE /\ JustFailed
           /\ page = [workflow |-> [status |-> "RUNNING", stage |-> "ANALYZING_RPS",
                                    completed |-> 0, at |-> 3],
                      events |-> {1, 2}, error |-> FALSE]
           /\ call = NoCall /\ queue = <<>>
  <2>1. PICK v : v = [status |-> "RUNNING", stage |-> "ANALYZING_RPS", completed |-> 0, at |-> 3]
    OBVIOUS
  <2>2. v \in Views /\ v.at = 3
    BY <2>1 DEF Views, WorkflowStatus, Running, Stages, MaxStages
  <2>3. page = [workflow |-> v, events |-> {1, 2}, error |-> FALSE]
    BY <1>2, <2>1
  <2>4. page \in Pages /\ page.workflow = v /\ page.events = {1, 2}
    BY <2>2, <2>3 DEF Pages
  <2>5. DOMAIN history = {1, 2} /\ saved = 4
    BY <1>2 DEF JustFailed
  <2>6. queue \in Seq(DOMAIN history)
    BY <1>2
  <2> QED
    BY <1>2, <2>2, <2>4, <2>5, <2>6, CallsAre DEF PageInv, PageTypes, AgeInv, Covered
<1> QED
  BY <1>1, <1>2 DEF MonitorInit

\* The monitoring page (useWorkflowMonitor) does not go back in time, whichever
\* of its two answers, its polls and its frames comes last and whatever a full
\* queue, a lost connection or a crash has taken - as long as no claim has put
\* the row itself back.
THEOREM ThePageKeepsUp == MonitorSpec => NeverBackwards
<1>1. MonitorInit => EventsInv /\ RowInv /\ PageInv
  BY NewInit, JustFailedInit, RowInit, PageInit DEF MonitorInit, EventsInit
<1>2. EventsInv /\ RowInv /\ PageInv /\ [MonitorNext]_vars => (EventsInv /\ RowInv /\ PageInv)'
  BY EventsNext, RowNext, PageNext
<1>3. EventsInv /\ RowInv /\ PageInv /\ [MonitorNext]_vars
      => [late = 0 /\ page.workflow # None => page'.workflow.at >= page.workflow.at]_vars
  BY PageNext DEF NotBack
<1> QED
  BY <1>1, <1>2, <1>3, PTL DEF MonitorSpec, NeverBackwards

\* Once every run of a workflow is over and nothing went wrong outside them,
\* the events that _emit and the orchestrator have left in the table agree with
\* the row: a page that replays all of them on it, in the order of their time
\* stamps, shows what the row says.
THEOREM RestTells == MonitorSpec => []RestIsTold
<1>1. MonitorInit => EventsInv /\ RowInv
  BY NewInit, JustFailedInit, RowInit DEF MonitorInit, EventsInit
<1>2. EventsInv /\ RowInv /\ [MonitorNext]_vars => (EventsInv /\ RowInv)'
  BY EventsNext, RowNext
<1>3. EventsInv /\ RowInv => RestIsTold
  BY RestTold
<1> QED
  BY <1>1, <1>2, <1>3, PTL DEF MonitorSpec
=============================================================================
