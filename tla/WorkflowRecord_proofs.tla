----------------------- MODULE WorkflowRecord_proofs -----------------------
(***************************************************************************)
(* Lemmas about the row of the table workflows.                            *)
(***************************************************************************)
EXTENDS WorkflowRecord, TLAPS

\* Every transition of the domain class takes a row to a row.
LEMMA RowOperations ==
  ASSUME NEW row \in WorkflowRow
  PROVE  /\ \A n \in 1 .. MaxStages : BeginRun(row, n) \in WorkflowRow
         /\ \A stage \in Stages : EnterStage(row, stage) \in WorkflowRow
         /\ CompleteStage(row) \in WorkflowRow
         /\ WaitForReview(row) \in WorkflowRow
         /\ MarkRetrying(row) \in WorkflowRow
         /\ \A stage \in Stages : ResumeStage(row, stage) \in WorkflowRow
         /\ FailRun(row) \in WorkflowRow
         /\ \A t \in Targets \cup {NoTarget} : SetMoodleCourse(row, t) \in WorkflowRow
<1> USE DEF WorkflowRow, WorkflowStatus, Running, Stages, TerminalStatuses, MaxStages
<1>1. ASSUME NEW n \in 1 .. MaxStages PROVE BeginRun(row, n) \in WorkflowRow
  <2>1. 0 \in 0 .. MaxStages
    OBVIOUS
  <2>2. [row EXCEPT !.total = n] \in WorkflowRow
    BY <1>1
  <2>3. BeginRun(row, n) = [[row EXCEPT !.total = n] EXCEPT !.completed = 0]
    BY DEF BeginRun
  <2> QED
    BY <2>1, <2>2, <2>3
<1>2. \A stage \in Stages : EnterStage(row, stage) \in WorkflowRow
  BY DEF EnterStage
<1>3. CompleteStage(row) \in WorkflowRow
  BY DEF CompleteStage
<1>4. WaitForReview(row) \in WorkflowRow /\ MarkRetrying(row) \in WorkflowRow
  BY DEF WaitForReview, MarkRetrying
<1>5. \A stage \in Stages : ResumeStage(row, stage) \in WorkflowRow
  BY <1>2 DEF ResumeStage
<1>6. FailRun(row) \in WorkflowRow
  BY DEF FailRun
<1>7. \A t \in Targets \cup {NoTarget} : SetMoodleCourse(row, t) \in WorkflowRow
  BY DEF SetMoodleCourse
<1> QED
  BY <1>1, <1>2, <1>3, <1>4, <1>5, <1>6, <1>7

\* A new workflow, of at least one stage, is a row.
LEMMA CreateRow ==
  ASSUME NEW n \in 1 .. MaxStages
  PROVE  Create(n) \in WorkflowRow
BY DEF Create, WorkflowRow, WorkflowStatus, Running, Stages, MaxStages

=============================================================================
