------------------------ MODULE RpsPipeline_proofs ------------------------
(***************************************************************************)
(* Theorems about RpsPipeline, for any number of requests, schemas,        *)
(* attempts, leases that run out and crashes.                              *)
(***************************************************************************)
EXTENDS RpsPipeline, WorkflowRecord_proofs, TLAPS

PCs == {"idle", "ended"} \cup Answering \cup Connecting \cup InStages

-----------------------------------------------------------------------------
(* The state machine of the document.                                      *)

LEMMA UploadedDocument == Uploaded \in Document
BY IdentifiersAssumption DEF Uploaded, Document, RPSStatus

\* Every transition of the domain class takes a document to a document.
LEMMA DocumentOperations ==
  ASSUME NEW d \in Document
  PROVE  /\ \A schema \in Schemas : StartProcessing(d, schema) \in Document
         /\ \A q \in Requests : CompleteProcessing(d, q) \in Document
         /\ FailProcessing(d) \in Document
         /\ \A q \in Requests : LinkWorkflow(d, q) \in Document
         /\ \A w \in Ids \cup {None} : StartAnalysis(d, w) \in Document
         /\ CompleteAnalysis(d) \in Document
         /\ FailAnalysis(d) \in Document
<1> USE DEF Document, RPSStatus, Ids
<1>1. ASSUME NEW status \in RPSStatus PROVE [d EXCEPT !.status = status] \in Document
  OBVIOUS
<1>2. ASSUME NEW schema \in Schemas PROVE StartProcessing(d, schema) \in Document
  <2>1. StartProcessing(d, schema) = [[d EXCEPT !.status = "PROCESSING"] EXCEPT !.schema = schema]
    BY DEF StartProcessing
  <2> QED
    BY <1>1, <1>2, <2>1
<1>3. ASSUME NEW q \in Requests PROVE CompleteProcessing(d, q) \in Document
  <2>1. CompleteProcessing(d, q) = [[d EXCEPT !.status = "PROCESSED"] EXCEPT !.source = q]
    BY DEF CompleteProcessing
  <2> QED
    BY <1>1, <1>3, <2>1
<1>4. ASSUME NEW q \in Requests PROVE LinkWorkflow(d, q) \in Document
  BY <1>4 DEF LinkWorkflow
<1>5. ASSUME NEW w \in Ids \cup {None} PROVE StartAnalysis(d, w) \in Document
  <2>1. StartAnalysis(d, w) = [[d EXCEPT !.status = "ANALYZING"] EXCEPT !.workflow = w]
    BY DEF StartAnalysis
  <2> QED
    BY <1>1, <1>5, <2>1
<1>6. CompleteAnalysis(d) \in Document
  <2>1. CompleteAnalysis(d) = [[d EXCEPT !.status = "ANALYZED"] EXCEPT !.structured = d.source]
    BY DEF CompleteAnalysis
  <2> QED
    BY <1>1, <2>1
<1>7. FailProcessing(d) \in Document /\ FailAnalysis(d) \in Document
  BY <1>1 DEF FailProcessing, FailAnalysis
<1> QED
  BY <1>2, <1>3, <1>4, <1>5, <1>6, <1>7

-----------------------------------------------------------------------------
(* Types.                                                                  *)

LEMMA BlankType ==
  ASSUME NEW pc \in PCs
  PROVE  Blank(pc) \in RequestState
<1>1. Create(2) \in WorkflowRow
  BY CreateRow DEF MaxStages
<1> QED
  BY <1>1, UploadedDocument DEF Blank, RequestState, PCs

LEMMA TypeInit == Init => TypeOK
<1> SUFFICES ASSUME Init PROVE TypeOK
  OBVIOUS
<1>1. PICK row \in WorkflowRow :
        workflows = [i \in Ids |-> IF i = Earlier THEN row ELSE Create(2)]
  BY DEF Init
<1>2. Create(2) \in WorkflowRow
  BY CreateRow DEF MaxStages
<1>3. workflows \in [Ids -> WorkflowRow]
  BY <1>1, <1>2
<1>4. created \subseteq Ids
  BY DEF Init, Ids
<1>5. request \in [Requests -> RequestState]
  BY BlankType DEF Init, PCs
<1> QED
  BY <1>3, <1>4, <1>5 DEF TypeOK, Init

\* The shapes most steps have.
LEMMA GoType ==
  ASSUME TypeOK, NEW q \in Requests, NEW from, NEW to \in PCs, Go(q, from, to)
  PROVE  request' \in [Requests -> RequestState]
<1>1. request[q] \in RequestState
  BY DEF TypeOK
<1>2. [request[q] EXCEPT !.copy = Uploaded] \in RequestState
  BY <1>1, UploadedDocument DEF RequestState
<1>3. [[request[q] EXCEPT !.copy = Uploaded] EXCEPT !.pc = to] \in RequestState
  BY <1>2 DEF RequestState, PCs
<1>4. [request[q] EXCEPT !.pc = to, !.copy = Uploaded]
        = [[request[q] EXCEPT !.copy = Uploaded] EXCEPT !.pc = to]
  BY <1>1 DEF RequestState
<1>5. Blank("ended") \in RequestState
  BY BlankType DEF PCs
<1> QED
  BY <1>3, <1>4, <1>5 DEF Go, TypeOK

LEMMA HoldType ==
  ASSUME TypeOK, NEW q \in Requests, NEW from, NEW to \in PCs, NEW d \in Document,
         Hold(q, from, to, d)
  PROVE  request' \in [Requests -> RequestState]
<1>1. request[q] \in RequestState
  BY DEF TypeOK
<1>2. [request[q] EXCEPT !.pc = to, !.copy = d] \in RequestState
  BY <1>1 DEF RequestState, PCs
<1> QED
  BY <1>2 DEF Hold, TypeOK

LEMMA SaveRunType ==
  ASSUME TypeOK, NEW q \in Requests, NEW from, NEW to \in PCs, NEW row \in WorkflowRow,
         SaveRun(q, from, to, row)
  PROVE  TypeOK'
<1>1. request[q] \in RequestState
  BY DEF TypeOK
<1>2. [request[q] EXCEPT !.pc = to, !.ctx = row] \in RequestState
  BY <1>1 DEF RequestState, PCs
<1>3. Blank("ended") \in RequestState
  BY BlankType DEF PCs
<1>4. request' \in [Requests -> RequestState]
  BY <1>2, <1>3 DEF SaveRun, TypeOK
<1>5. workflows' \in [Ids -> WorkflowRow]
  BY DEF SaveRun, TypeOK
<1> QED
  BY <1>4, <1>5 DEF SaveRun, TypeOK, KeepDocument, KeepBounds

LEMMA StillType ==
  ASSUME TypeOK, request' \in [Requests -> RequestState],
         KeepDocument, KeepWorkflows, KeepBounds
  PROVE  TypeOK'
BY DEF TypeOK, KeepDocument, KeepWorkflows, KeepBounds

LEMMA SavedType ==
  ASSUME TypeOK, request' \in [Requests -> RequestState],
         NEW d \in Document, SaveDocument(d), KeepWorkflows, KeepBounds
  PROVE  TypeOK'
BY DEF TypeOK, SaveDocument, KeepWorkflows, KeepBounds

LEMMA SaveCopyType ==
  ASSUME TypeOK, NEW q \in Requests, NEW from, NEW to \in PCs, SaveCopy(q, from, to)
  PROVE  TypeOK'
<1>1. request[q].copy \in Document
  BY DEF TypeOK, RequestState
<1> QED
  BY <1>1, GoType, SavedType DEF SaveCopy

LEMMA MarkType ==
  ASSUME TypeOK, NEW q \in Requests, NEW from, NEW to \in PCs, NEW schema \in Schemas,
         Mark(q, from, to, schema)
  PROVE  TypeOK'
<1>1. StartProcessing(document, schema) \in Document
  BY DocumentOperations DEF TypeOK
<1> QED
  BY <1>1, HoldType, StillType DEF Mark

LEMMA ReuseType ==
  ASSUME TypeOK, NEW q \in Requests, NEW from, NEW to \in PCs, NEW schema,
         Reuse(q, from, to, schema)
  PROVE  TypeOK'
BY GoType, StillType DEF Reuse

LEMMA ProcessType ==
  ASSUME TypeOK, NEW q \in Requests, ProcessStep(q)
  PROVE  TypeOK'
<1> USE DEF PCs, Answering, Connecting
<1>1. CASE ReuseConversion(q)
  BY <1>1, ReuseType DEF ReuseConversion
<1>2. CASE ReadToProcess(q)
  BY <1>2, MarkType DEF ReadToProcess
<1>3. CASE MarkProcessing(q)
  BY <1>3, SaveCopyType DEF MarkProcessing
<1>4. CASE CreateWorkflow(q)
  <2>1. Create(2) \in WorkflowRow
    BY CreateRow DEF MaxStages
  <2>2. request' \in [Requests -> RequestState]
    BY <1>4, GoType DEF CreateWorkflow
  <2> QED
    BY <1>4, <2>1, <2>2 DEF CreateWorkflow, TypeOK, KeepDocument, KeepBounds, Ids
<1>5. CASE ReadToAttach(q)
  <2>1. LinkWorkflow(document, q) \in Document
    BY DocumentOperations DEF TypeOK
  <2> QED
    BY <1>5, <2>1, HoldType, StillType DEF ReadToAttach
<1>6. CASE AttachWorkflow(q)
  BY <1>6, SaveCopyType DEF AttachWorkflow
<1> QED
  BY <1>1, <1>2, <1>3, <1>4, <1>5, <1>6 DEF ProcessStep

LEMMA ReanalyzeType ==
  ASSUME TypeOK, NEW q \in Requests, ReanalyzeStep(q)
  PROVE  TypeOK'
<1> USE DEF PCs, Answering, Connecting
<1>0. request[q] \in RequestState /\ document \in Document
  BY DEF TypeOK
<1>1. CASE ReadTarget(q)
  <2> DEFINE target == IF document.workflow = None THEN q ELSE document.workflow
  <2>1. target \in Ids \cup {None}
    BY <1>0 DEF Document, Ids
  <2>2. [request[q] EXCEPT !.pc = "targeted", !.workflow = target] \in RequestState
    BY <1>0, <2>1 DEF RequestState
  <2>3. request' = [request EXCEPT
                      ![q] = [request[q] EXCEPT !.pc = "targeted", !.workflow = target]]
    BY <1>1 DEF ReadTarget
  <2>4. request' \in [Requests -> RequestState]
    BY <2>2, <2>3 DEF TypeOK
  <2> QED
    BY <1>1, <2>4, StillType DEF ReadTarget
<1>2. CASE ReadToReanalyze(q)
  <2>1. StartAnalysis(document, request[q].workflow) \in Document
    BY <1>0, DocumentOperations DEF RequestState
  <2> QED
    BY <1>2, <2>1, HoldType, StillType DEF ReadToReanalyze
<1>3. CASE ReanalysisRefused(q) \/ FindTarget(q) \/ CreateRefused(q)
  BY <1>3, GoType, StillType DEF ReanalysisRefused, FindTarget, CreateRefused
<1>4. CASE MarkReanalyzing(q)
  BY <1>4, SaveCopyType DEF MarkReanalyzing
<1>5. CASE CreateTarget(q)
  <2>1. Create(1) \in WorkflowRow
    BY CreateRow DEF MaxStages
  <2>2. request' \in [Requests -> RequestState]
    BY <1>5, GoType DEF CreateTarget
  <2>3. workflows' \in [Ids -> WorkflowRow]
    BY <1>5, <2>1 DEF CreateTarget, TypeOK
  <2> QED
    BY <1>5, <2>2, <2>3 DEF CreateTarget, TypeOK, KeepDocument, KeepBounds
<1> QED
  BY <1>1, <1>2, <1>3, <1>4, <1>5 DEF ReanalyzeStep

LEMMA StartType ==
  ASSUME TypeOK, NEW q \in Requests,
         \/ FindWorkflow(q) \/ LoadWorkflow(q) \/ NoWorkflow(q)
         \/ BeginRpsRun(q) \/ FailStage(q)
  PROVE  TypeOK'
<1> USE DEF PCs, Connecting, InStages
<1>0. /\ request[q] \in RequestState /\ request[q].ctx \in WorkflowRow
      /\ document \in Document
  BY DEF TypeOK, RequestState
<1>1. CASE FindWorkflow(q)
  <2>1. document.workflow \in Ids \cup {None}
    BY <1>0 DEF Document
  <2>2. [request[q] EXCEPT !.pc = "linked", !.workflow = document.workflow] \in RequestState
    BY <1>0, <2>1 DEF RequestState
  <2>3. request' = [request EXCEPT
                      ![q] = [request[q] EXCEPT !.pc = "linked",
                                                !.workflow = document.workflow]]
    BY <1>1 DEF FindWorkflow
  <2>4. request' \in [Requests -> RequestState]
    BY <2>2, <2>3 DEF TypeOK
  <2> QED
    BY <1>1, <2>4, StillType DEF FindWorkflow
<1>2. CASE LoadWorkflow(q)
  <2> DEFINE row == workflows[request[q].workflow]
  <2>1. row \in WorkflowRow
    BY <1>2 DEF LoadWorkflow, TypeOK
  <2>2. [request[q] EXCEPT !.pc = "loaded", !.ctx = row] \in RequestState
    BY <1>0, <2>1 DEF RequestState
  <2>3. request' = [request EXCEPT
                      ![q] = [request[q] EXCEPT !.pc = "loaded", !.ctx = row]]
    BY <1>2 DEF LoadWorkflow
  <2>4. request' \in [Requests -> RequestState]
    BY <2>2, <2>3 DEF TypeOK
  <2> QED
    BY <1>2, <2>4, StillType DEF LoadWorkflow
<1>3. CASE NoWorkflow(q)
  BY <1>3, GoType, StillType DEF NoWorkflow
<1>4. CASE BeginRpsRun(q)
  <2>1. BeginRun(request[q].ctx, StagesOf(q)) \in WorkflowRow
    BY <1>0, RowOperations DEF StagesOf, MaxStages
  <2> QED
    BY <1>4, <2>1, SaveRunType DEF BeginRpsRun
<1>5. CASE FailStage(q)
  BY <1>0, <1>5, RowOperations, SaveRunType DEF FailStage
<1> QED
  BY <1>1, <1>2, <1>3, <1>4, <1>5

LEMMA ProcessingType ==
  ASSUME TypeOK, NEW q \in Requests, ProcessingStage(q)
  PROVE  TypeOK'
<1> USE DEF PCs, InStages
<1>0. /\ request[q].ctx \in WorkflowRow /\ request[q].copy \in Document
      /\ document \in Document /\ document.schema \in Schemas
  BY DEF TypeOK, RequestState, Document
<1>1. CASE EnterProcessing(q)
  BY <1>0, <1>1, RowOperations, SaveRunType DEF EnterProcessing, Stages
<1>2. CASE CheckProcessing(q)
  BY <1>2, GoType, StillType DEF CheckProcessing
<1>3. CASE ReuseInRun(q)
  BY <1>3, ReuseType DEF ReuseInRun
<1>4. CASE MarkInRun(q)
  BY <1>0, <1>4, MarkType DEF MarkInRun
<1>5. CASE MarkRefused(q) \/ ConversionRefused(q)
  BY <1>5, GoType, StillType DEF MarkRefused, ConversionRefused
<1>6. CASE MarkProcessingInRun(q)
  BY <1>6, SaveCopyType DEF MarkProcessingInRun
<1>7. CASE StartConversion(q)
  BY <1>0, <1>7, HoldType, StillType DEF StartConversion
<1>8. CASE Convert(q)
  <2>1. CompleteProcessing(request[q].copy, q) \in Document
    BY <1>0, DocumentOperations
  <2> QED
    BY <1>8, <2>1, GoType, SavedType DEF Convert
<1>9. CASE ConversionFails(q)
  <2>1. FailProcessing(request[q].copy) \in Document
    BY <1>0, DocumentOperations
  <2> QED
    BY <1>9, <2>1, GoType, SavedType DEF ConversionFails
<1>10. CASE FinishProcessing(q)
  BY <1>0, <1>10, RowOperations, SaveRunType DEF FinishProcessing
<1> QED
  BY <1>1, <1>2, <1>3, <1>4, <1>5, <1>6, <1>7, <1>8, <1>9, <1>10 DEF ProcessingStage

LEMMA AnalysisType ==
  ASSUME TypeOK, NEW q \in Requests, AnalysisStage(q)
  PROVE  TypeOK'
<1> USE DEF PCs, InStages
<1>0. /\ request[q] \in RequestState
      /\ request[q].ctx \in WorkflowRow /\ request[q].copy \in Document
      /\ request[q].workflow \in Ids \cup {None}
      /\ document \in Document
  BY DEF TypeOK, RequestState
<1>1. CASE EnterAnalyzing(q)
  BY <1>0, <1>1, RowOperations, SaveRunType DEF EnterAnalyzing, Stages
<1>2. CASE CheckAnalyzing(q)
  BY <1>2, GoType, StillType DEF CheckAnalyzing
<1>3. CASE ReuseAnalysis(q)
  BY <1>3, GoType, StillType DEF ReuseAnalysis
<1>4. CASE ReadToAnalyze(q)
  <2>1. StartAnalysis(document, request[q].workflow) \in Document
    BY <1>0, DocumentOperations
  <2> QED
    BY <1>4, <2>1, HoldType, StillType DEF ReadToAnalyze
<1>5. CASE AnalysisRefused(q)
  BY <1>5, GoType, StillType DEF AnalysisRefused
<1>6. CASE MarkAnalyzing(q)
  BY <1>6, SaveCopyType DEF MarkAnalyzing
<1>7. CASE StartAnalyzing(q)
  BY <1>0, <1>7, HoldType, StillType DEF StartAnalyzing
<1>8. CASE RetryFix(q)
  BY <1>0, <1>8, RowOperations, SaveRunType DEF RetryFix
<1>9. CASE NextAttempt(q)
  <2> DEFINE row == ResumeStage(request[q].ctx, "ANALYZING_RPS")
             resumed == [request[q] EXCEPT !.pc = "calling", !.ctx = row]
  <2>1. row \in WorkflowRow
    BY <1>0, RowOperations DEF Stages
  <2>2. resumed \in RequestState
    BY <1>0, <2>1 DEF RequestState
  <2>3. [resumed EXCEPT !.attempt = @ + 1] \in RequestState
    <3> HIDE DEF resumed
    <3> QED
      BY <2>2 DEF RequestState
  <2>4. [request[q] EXCEPT !.pc = "calling", !.ctx = row, !.attempt = @ + 1]
          = [resumed EXCEPT !.attempt = @ + 1]
    BY <1>0 DEF RequestState
  <2>5. request' = [request EXCEPT ![q] =
                      [request[q] EXCEPT !.pc = "calling", !.ctx = row, !.attempt = @ + 1]]
    BY <1>9 DEF NextAttempt
  <2>6. request' \in [Requests -> RequestState]
    BY <2>3, <2>4, <2>5 DEF TypeOK
  <2>7. workflows' \in [Ids -> WorkflowRow]
    BY <1>9, <2>1 DEF NextAttempt, TypeOK
  <2> QED
    BY <1>9, <2>6, <2>7 DEF NextAttempt, TypeOK, KeepDocument, KeepBounds
<1>10. CASE Analyze(q)
  <2>1. CompleteAnalysis(request[q].copy) \in Document
    BY <1>0, DocumentOperations
  <2> QED
    BY <1>10, <2>1, GoType, SavedType DEF Analyze
<1>11. CASE AnalysisFails(q)
  <2>1. FailAnalysis(request[q].copy) \in Document
    BY <1>0, DocumentOperations
  <2> QED
    BY <1>11, <2>1, GoType, SavedType DEF AnalysisFails
<1>12. CASE FinishAnalyzing(q)
  BY <1>0, <1>12, RowOperations, SaveRunType DEF FinishAnalyzing
<1>13. CASE AwaitReview(q)
  BY <1>0, <1>13, RowOperations, SaveRunType DEF AwaitReview
<1> QED
  BY <1>1, <1>2, <1>3, <1>4, <1>5, <1>6, <1>7, <1>8, <1>9, <1>10, <1>11, <1>12, <1>13
     DEF AnalysisStage

LEMMA TypeNext == TypeOK /\ [Next]_vars => TypeOK'
<1> SUFFICES ASSUME TypeOK, [Next]_vars PROVE TypeOK'
  OBVIOUS
<1>1. ASSUME NEW q \in Requests, RequestStep(q) PROVE TypeOK'
  BY <1>1, ProcessType, ReanalyzeType DEF RequestStep
<1>2. ASSUME NEW q \in Requests, RunStep(q) PROVE TypeOK'
  BY <1>2, StartType, ProcessingType, AnalysisType DEF RunStep
<1>3. CASE LeaseExpires
  <2>1. fresh' \in BOOLEAN
    BY <1>3, Zenon DEF LeaseExpires
  <2>2. expiries' \in Nat /\ crashes' \in Nat
    <3>1. expiries' = expiries + 1 /\ crashes' = crashes
      BY <1>3 DEF LeaseExpires
    <3> QED
      BY <3>1 DEF TypeOK
  <2>3. UNCHANGED <<document, workflows, created, request>>
    BY <1>3 DEF LeaseExpires, KeepWorkflows
  <2> QED
    BY <2>1, <2>2, <2>3 DEF TypeOK
<1>4. CASE Crash
  BY <1>4, BlankType DEF Crash, TypeOK, KeepDocument, KeepWorkflows, PCs
<1>5. CASE UNCHANGED vars
  BY <1>5 DEF TypeOK, vars
<1> QED
  BY <1>1, <1>2, <1>3, <1>4, <1>5 DEF Next

\* Every row and every request has the shape the code gives it.
THEOREM TypeCorrect == Spec => []TypeOK
<1>1. Init => TypeOK
  BY TypeInit
<1>2. TypeOK /\ [Next]_vars => TypeOK'
  BY TypeNext
<1> QED
  BY <1>1, <1>2, PTL DEF Spec

-----------------------------------------------------------------------------
(* The results of a document.  Every copy that a request will save is as   *)
(* good as the row itself, so it does not matter how old it is.            *)

ResultsInv == Backed(document) /\ \A q \in Requests : Backed(request[q].copy)

LEMMA BackedOperations ==
  ASSUME NEW d \in Document, Backed(d)
  PROVE  /\ \A schema \in Schemas : Backed(StartProcessing(d, schema))
         /\ \A q \in Requests : Backed(CompleteProcessing(d, q))
         /\ Backed(FailProcessing(d))
         /\ \A q \in Requests : Backed(LinkWorkflow(d, q))
         /\ \A w \in Ids \cup {None} : d.source # None => Backed(StartAnalysis(d, w))
         /\ d.source # None => Backed(CompleteAnalysis(d))
         /\ Backed(FailAnalysis(d))
BY IdentifiersAssumption
   DEF Backed, Document, StartProcessing, CompleteProcessing, FailProcessing,
       LinkWorkflow, StartAnalysis, CompleteAnalysis, FailAnalysis

LEMMA BackedUploaded == Backed(Uploaded)
BY DEF Backed, Uploaded

LEMMA ResultsInit == Init => ResultsInv
<1> SUFFICES ASSUME Init PROVE ResultsInv
  OBVIOUS
<1>1. Backed(document)
  BY IdentifiersAssumption DEF Init, AtRest, Backed
<1>2. \A q \in Requests : request[q].copy = Uploaded
  BY DEF Init, Blank
<1> QED
  BY <1>1, <1>2, BackedUploaded DEF ResultsInv

LEMMA GoBacked ==
  ASSUME TypeOK, ResultsInv, NEW q \in Requests, NEW from, NEW to, Go(q, from, to)
  PROVE  \A r \in Requests : Backed(request'[r].copy)
<1>1. request[q] \in RequestState
  BY DEF TypeOK
<1>2. [request[q] EXCEPT !.pc = to, !.copy = Uploaded].copy = Uploaded
  BY <1>1 DEF RequestState
<1>3. Blank("ended").copy = Uploaded
  BY DEF Blank
<1>4. request'[q].copy = Uploaded
  BY <1>2, <1>3 DEF Go, TypeOK
<1>5. \A r \in Requests \ {q} : request'[r] = request[r]
  BY DEF Go, TypeOK
<1> QED
  BY <1>4, <1>5, BackedUploaded DEF ResultsInv

LEMMA HoldBacked ==
  ASSUME TypeOK, ResultsInv, NEW q \in Requests, NEW from, NEW to, NEW d, Backed(d),
         Hold(q, from, to, d)
  PROVE  \A r \in Requests : Backed(request'[r].copy)
<1>1. request[q] \in RequestState
  BY DEF TypeOK
<1>2. request'[q].copy = d
  BY <1>1 DEF Hold, TypeOK, RequestState
<1>3. \A r \in Requests \ {q} : request'[r] = request[r]
  BY DEF Hold, TypeOK
<1> QED
  BY <1>2, <1>3 DEF ResultsInv

LEMMA SaveRunBacked ==
  ASSUME TypeOK, ResultsInv, NEW q \in Requests, NEW from, NEW to, NEW row,
         SaveRun(q, from, to, row)
  PROVE  ResultsInv'
<1>1. request[q] \in RequestState
  BY DEF TypeOK
<1>2. [request[q] EXCEPT !.pc = to, !.ctx = row].copy = request[q].copy
  BY <1>1 DEF RequestState
<1>3. Blank("ended").copy = Uploaded
  BY DEF Blank
<1>4. request'[q].copy \in {Uploaded, request[q].copy}
  BY <1>2, <1>3 DEF SaveRun, TypeOK
<1>5. \A r \in Requests \ {q} : request'[r] = request[r]
  BY DEF SaveRun, TypeOK
<1>6. document' = document
  BY DEF SaveRun, KeepDocument
<1> QED
  BY <1>4, <1>5, <1>6, BackedUploaded DEF ResultsInv

\* A step that leaves the document alone, and one that saves a copy.
LEMMA SameBacked ==
  ASSUME ResultsInv, KeepDocument, \A r \in Requests : Backed(request'[r].copy)
  PROVE  ResultsInv'
BY DEF ResultsInv, KeepDocument

LEMMA SavedBacked ==
  ASSUME ResultsInv, NEW d, Backed(d), SaveDocument(d),
         \A r \in Requests : Backed(request'[r].copy)
  PROVE  ResultsInv'
BY DEF ResultsInv, SaveDocument

LEMMA SaveCopyBacked ==
  ASSUME TypeOK, ResultsInv, NEW q \in Requests, NEW from, NEW to, SaveCopy(q, from, to)
  PROVE  ResultsInv'
BY GoBacked, SavedBacked DEF SaveCopy, ResultsInv

LEMMA MarkBacked ==
  ASSUME TypeOK, ResultsInv, NEW q \in Requests, NEW from, NEW to,
         NEW schema \in Schemas, Mark(q, from, to, schema)
  PROVE  ResultsInv'
<1>1. Backed(StartProcessing(document, schema))
  BY BackedOperations DEF TypeOK, ResultsInv
<1> QED
  BY <1>1, HoldBacked, SameBacked DEF Mark

LEMMA RequestBacked ==
  ASSUME TypeOK, ResultsInv, NEW q \in Requests, RequestStep(q)
  PROVE  ResultsInv'
<1>0. document \in Document /\ Backed(document) /\ request[q] \in RequestState
  BY DEF TypeOK, ResultsInv
<1>1. CASE ReuseConversion(q)
  BY <1>1, GoBacked, SameBacked DEF ReuseConversion, Reuse
<1>2. CASE ReadToProcess(q)
  BY <1>2, MarkBacked DEF ReadToProcess
<1>3. CASE MarkProcessing(q) \/ AttachWorkflow(q) \/ MarkReanalyzing(q)
  BY <1>3, SaveCopyBacked DEF MarkProcessing, AttachWorkflow, MarkReanalyzing
<1>4. CASE \/ CreateWorkflow(q) \/ CreateTarget(q)
          \/ ReanalysisRefused(q) \/ FindTarget(q) \/ CreateRefused(q)
  BY <1>4, GoBacked, SameBacked DEF CreateWorkflow, CreateTarget, ReanalysisRefused, FindTarget, CreateRefused
<1>5. CASE ReadToAttach(q)
  <2>1. Backed(LinkWorkflow(document, q))
    BY <1>0, BackedOperations
  <2> QED
    BY <1>5, <2>1, HoldBacked, SameBacked DEF ReadToAttach
<1>6. CASE ReadTarget(q)
  <2>1. request'[q].copy = request[q].copy
    BY <1>0, <1>6 DEF ReadTarget, TypeOK, RequestState
  <2>2. \A r \in Requests \ {q} : request'[r] = request[r]
    BY <1>6 DEF ReadTarget, TypeOK
  <2> QED
    BY <1>6, <2>1, <2>2, SameBacked DEF ReadTarget, ResultsInv
<1>7. CASE ReadToReanalyze(q)
  <2>1. request[q].workflow \in Ids \cup {None}
    BY <1>0 DEF RequestState
  <2>2. Backed(StartAnalysis(document, request[q].workflow))
    BY <1>0, <1>7, <2>1, BackedOperations DEF ReadToReanalyze, MayStartAnalysis
  <2> QED
    BY <1>7, <2>2, HoldBacked, SameBacked DEF ReadToReanalyze
<1> QED
  BY <1>1, <1>2, <1>3, <1>4, <1>5, <1>6, <1>7 DEF RequestStep, ProcessStep, ReanalyzeStep

LEMMA RunBacked ==
  ASSUME TypeOK, ResultsInv, NEW q \in Requests, RunStep(q)
  PROVE  ResultsInv'
<1>0. /\ document \in Document /\ Backed(document) /\ request[q] \in RequestState
      /\ request[q].copy \in Document /\ Backed(request[q].copy)
      /\ request[q].workflow \in Ids \cup {None} /\ document.schema \in Schemas
  BY DEF TypeOK, ResultsInv, RequestState, Document
<1>1. CASE FindWorkflow(q) \/ LoadWorkflow(q) \/ NextAttempt(q)
  <2>1. request'[q].copy = request[q].copy
    BY <1>0, <1>1 DEF FindWorkflow, LoadWorkflow, NextAttempt, TypeOK, RequestState
  <2>2. \A r \in Requests \ {q} : request'[r] = request[r]
    BY <1>1 DEF FindWorkflow, LoadWorkflow, NextAttempt, TypeOK
  <2>3. KeepDocument
    BY <1>1 DEF FindWorkflow, LoadWorkflow, NextAttempt
  <2> QED
    BY <2>1, <2>2, <2>3, SameBacked DEF ResultsInv
<1>2. CASE NoWorkflow(q) \/ CheckProcessing(q) \/ MarkRefused(q) \/ ConversionRefused(q)
           \/ CheckAnalyzing(q) \/ ReuseAnalysis(q) \/ AnalysisRefused(q)
  BY <1>2, GoBacked, SameBacked
     DEF NoWorkflow, CheckProcessing, MarkRefused, ConversionRefused,
         CheckAnalyzing, ReuseAnalysis, AnalysisRefused
<1>3. CASE BeginRpsRun(q) \/ FailStage(q) \/ EnterProcessing(q) \/ FinishProcessing(q)
           \/ EnterAnalyzing(q) \/ RetryFix(q) \/ FinishAnalyzing(q) \/ AwaitReview(q)
  BY <1>3, SaveRunBacked
     DEF BeginRpsRun, FailStage, EnterProcessing, FinishProcessing,
         EnterAnalyzing, RetryFix, FinishAnalyzing, AwaitReview
<1>4. CASE ReuseInRun(q)
  BY <1>4, GoBacked, SameBacked DEF ReuseInRun, Reuse
<1>5. CASE MarkInRun(q)
  BY <1>0, <1>5, MarkBacked DEF MarkInRun
<1>6. CASE MarkProcessingInRun(q) \/ MarkAnalyzing(q)
  BY <1>6, SaveCopyBacked DEF MarkProcessingInRun, MarkAnalyzing
<1>7. CASE StartConversion(q) \/ StartAnalyzing(q)
  BY <1>0, <1>7, HoldBacked, SameBacked DEF StartConversion, StartAnalyzing
<1>8. CASE Convert(q)
  <2>1. Backed(CompleteProcessing(request[q].copy, q))
    BY <1>0, BackedOperations
  <2> QED
    BY <1>8, <2>1, GoBacked, SavedBacked DEF Convert
<1>9. CASE ConversionFails(q) \/ AnalysisFails(q)
  <2>1. Backed(FailProcessing(request[q].copy)) /\ Backed(FailAnalysis(request[q].copy))
    BY <1>0, BackedOperations
  <2> QED
    BY <1>9, <2>1, GoBacked, SavedBacked DEF ConversionFails, AnalysisFails
<1>10. CASE ReadToAnalyze(q)
  <2>1. Backed(StartAnalysis(document, request[q].workflow))
    BY <1>0, <1>10, BackedOperations DEF ReadToAnalyze, MayStartAnalysis
  <2> QED
    BY <1>10, <2>1, HoldBacked, SameBacked DEF ReadToAnalyze
<1>11. CASE Analyze(q)
  <2>1. Backed(CompleteAnalysis(request[q].copy))
    BY <1>0, <1>11, BackedOperations DEF Analyze
  <2> QED
    BY <1>11, <2>1, GoBacked, SavedBacked DEF Analyze
<1> QED
  BY <1>1, <1>2, <1>3, <1>4, <1>5, <1>6, <1>7, <1>8, <1>9, <1>10, <1>11
     DEF RunStep, ProcessingStage, AnalysisStage

LEMMA ResultsNext == TypeOK /\ ResultsInv /\ [Next]_vars => ResultsInv'
<1> SUFFICES ASSUME TypeOK, ResultsInv, [Next]_vars PROVE ResultsInv'
  OBVIOUS
<1>1. CASE LeaseExpires \/ UNCHANGED vars
  BY <1>1 DEF LeaseExpires, vars, ResultsInv
<1>2. CASE Crash
  <2>1. \A q \in Requests : request'[q].copy \in {Uploaded, request[q].copy}
    BY <1>2 DEF Crash, Blank
  <2> QED
    BY <1>2, <2>1, BackedUploaded, SameBacked DEF Crash, ResultsInv
<1> QED
  BY <1>1, <1>2, RequestBacked, RunBacked DEF Next

\* Whatever copies of the document are saved, however late, a document that says
\* it is converted has a conversion and one that says it is analyzed has the
\* analysis of the very conversion that is stored with it.
THEOREM ResultsAreBacked == Spec => []ResultsMatchStatus
<1>1. Init => TypeOK /\ ResultsInv
  BY TypeInit, ResultsInit
<1>2. (TypeOK /\ ResultsInv) /\ [Next]_vars => (TypeOK /\ ResultsInv)'
  BY TypeNext, ResultsNext
<1>3. TypeOK /\ ResultsInv => ResultsMatchStatus
  BY DEF ResultsInv, ResultsMatchStatus
<1> QED
  BY <1>1, <1>2, <1>3, PTL DEF Spec

-----------------------------------------------------------------------------
(* The progress of the workflows.  A run counts the stages of its own copy *)
(* of the row, so the row it leaves is complete whatever other runs wrote. *)

Unconverted == {"toProcess", "processing", "claiming", "claimed", "toConvert",
                "converting", "processed"}

Unanalyzed == {"toAnalyze", "analyzing", "claimingAnalysis", "analysisClaimed", "ready",
               "calling", "retrying", "analyzed"}

Counted(r) ==
  /\ r.pc \in Unconverted => r.ctx.completed = 0 /\ r.ctx.total = 2
  /\ r.pc \in Unanalyzed => r.ctx.completed = r.ctx.total - 1
  /\ r.pc = "finished" => r.ctx.completed = r.ctx.total

Rested(row) ==
  /\ row.status \notin Running
  /\ row.status = "WAITING_FOR_REVIEW" => row.completed = row.total

RestInv == RestingMeansDone /\ \A q \in Requests : Counted(request[q])

LEMMA RestInit == Init => RestInv
<1> SUFFICES ASSUME Init PROVE RestInv
  OBVIOUS
<1>1. \A q \in Requests : Counted(request[q])
  BY DEF Init, Blank, Counted, Unconverted, Unanalyzed
<1>2. PICK row \in WorkflowRow :
        /\ AtRest(document, row)
        /\ workflows = [i \in Ids |-> IF i = Earlier THEN row ELSE Create(2)]
  BY DEF Init
<1>3. \A w \in created : workflows[w] = row
  BY <1>2 DEF Init, Ids
<1>4. Rested(row)
  BY <1>2 DEF AtRest, Rested, Running, Stages
<1> QED
  BY <1>1, <1>3, <1>4 DEF RestInv, RestingMeansDone, Rested

\* What a step of a request may do to a row: leave it alone and work for it as
\* before, or keep working for it, or leave it at rest.
RowEffect(q) ==
  /\ Counted(request'[q])
  /\ \A w \in Ids :
       \/ /\ workflows'[w] = workflows[w]
          /\ w \in created' => w \in created
          /\ Works(q, w) => Works(q, w)'
       \/ Works(q, w)'
       \/ Rested(workflows'[w])

\* A step that leaves the workflows alone.
LEMMA MoveEffect ==
  ASSUME TypeOK, NEW q \in Requests,
         Counted(request'[q]),
         request[q].pc \in InStages =>
           /\ request'[q].pc \in InStages
           /\ request'[q].workflow = request[q].workflow,
         UNCHANGED <<workflows, created>>
  PROVE  RowEffect(q)
BY DEF RowEffect, Works

\* A step that saves the row of the run.
LEMMA SaveEffect ==
  ASSUME TypeOK, NEW q \in Requests, NEW from \in InStages, NEW to \in PCs,
         NEW row \in WorkflowRow, SaveRun(q, from, to, row),
         to = "ended" => Rested(row),
         to # "ended" => to \in InStages,
         to \in Unconverted => row.completed = 0 /\ row.total = 2,
         to \in Unanalyzed => row.completed = row.total - 1,
         to = "finished" => row.completed = row.total
  PROVE  RowEffect(q)
<1> PICK v : v = request[q].workflow
  OBVIOUS
<1>0. request[q] \in RequestState
  BY DEF TypeOK
<1>1. created' = created
  BY DEF SaveRun
<1>2. \A w \in Ids : workflows'[w] = IF w = v THEN row ELSE workflows[w]
  BY DEF SaveRun, TypeOK
<1>3. \A w \in Ids : w # v => ~Works(q, w)
  BY DEF Works
<1>4. CASE to = "ended"
  <2>1. request'[q] = Blank("ended")
    BY <1>4 DEF SaveRun, TypeOK
  <2>2. Counted(request'[q])
    BY <2>1 DEF Counted, Blank, Unconverted, Unanalyzed
  <2> QED
    BY <1>1, <1>2, <1>3, <1>4, <2>2 DEF RowEffect
<1>5. CASE to # "ended"
  <2>1. request'[q] = [request[q] EXCEPT !.pc = to, !.ctx = row]
    BY <1>5 DEF SaveRun, TypeOK
  <2>2. /\ request'[q].pc = to /\ request'[q].ctx = row
        /\ request'[q].workflow = v
    BY <1>0, <2>1 DEF RequestState
  <2>3. Counted(request'[q])
    BY <2>2 DEF Counted
  <2>4. Works(q, v)'
    BY <1>5, <2>2 DEF Works
  <2> QED
    BY <1>1, <1>2, <1>3, <2>3, <2>4 DEF RowEffect
<1> QED
  BY <1>4, <1>5

LEMMA GoTo ==
  ASSUME TypeOK, NEW q \in Requests, NEW from, NEW to, Go(q, from, to)
  PROVE  /\ request[q].pc = from /\ request'[q].pc = to
         /\ to # "ended" => /\ request'[q].ctx = request[q].ctx
                            /\ request'[q].workflow = request[q].workflow
<1>1. request[q] \in RequestState
  BY DEF TypeOK
<1>2. CASE to = "ended"
  BY <1>2 DEF Go, TypeOK, Blank
<1>3. CASE to # "ended"
  BY <1>1, <1>3 DEF Go, TypeOK, RequestState
<1> QED
  BY <1>2, <1>3

LEMMA HoldTo ==
  ASSUME TypeOK, NEW q \in Requests, NEW from, NEW to, NEW d, Hold(q, from, to, d)
  PROVE  /\ request[q].pc = from /\ request'[q].pc = to
         /\ request'[q].ctx = request[q].ctx
         /\ request'[q].workflow = request[q].workflow
BY DEF Hold, TypeOK, RequestState

LEMMA RequestEffect ==
  ASSUME TypeOK, NEW q \in Requests, Counted(request[q]), RequestStep(q)
  PROVE  RowEffect(q)
<1> USE DEF Answering
<1>0. request[q] \in RequestState
  BY DEF TypeOK
<1>1. /\ request[q].pc \in Answering \cup {"idle"}
      /\ request'[q].pc \in Answering \cup {"scheduled", "ended"}
  <2>1. CASE ReuseConversion(q)
    BY <2>1, GoTo DEF ReuseConversion, Reuse
  <2>2. CASE ReadToProcess(q)
    BY <2>2, HoldTo DEF ReadToProcess, Mark
  <2>3. CASE MarkProcessing(q) \/ AttachWorkflow(q) \/ MarkReanalyzing(q)
    BY <2>3, GoTo DEF MarkProcessing, AttachWorkflow, MarkReanalyzing, SaveCopy
  <2>4. CASE \/ CreateWorkflow(q) \/ CreateTarget(q)
          \/ ReanalysisRefused(q) \/ FindTarget(q) \/ CreateRefused(q)
    BY <2>4, GoTo DEF CreateWorkflow, CreateTarget, ReanalysisRefused, FindTarget, CreateRefused
  <2>5. CASE ReadToAttach(q) \/ ReadToReanalyze(q)
    BY <2>5, HoldTo DEF ReadToAttach, ReadToReanalyze
  <2>6. CASE ReadTarget(q)
    BY <1>0, <2>6 DEF ReadTarget, TypeOK, RequestState
  <2> QED
    BY <2>1, <2>2, <2>3, <2>4, <2>5, <2>6 DEF RequestStep, ProcessStep, ReanalyzeStep
<1>2. request[q].pc \notin InStages
  BY <1>1 DEF InStages
<1>3. Counted(request'[q])
  BY <1>1 DEF Counted, Unconverted, Unanalyzed
<1>4. CASE CreateWorkflow(q) \/ CreateTarget(q)
  <2>1. PICK v \in Ids \cup {None}, n \in {1, 2} :
          /\ workflows' = [workflows EXCEPT ![v] = Create(n)]
          /\ created' = created \cup {v}
    BY <1>0, <1>4 DEF CreateWorkflow, CreateTarget, Ids, RequestState
  <2>2. Rested(Create(n))
    BY DEF Rested, Create, Running, Stages
  <2>3. \A w \in Ids : ~Works(q, w)
    BY <1>2 DEF Works
  <2>4. \A w \in Ids : \/ Rested(workflows'[w])
                       \/ workflows'[w] = workflows[w] /\ (w \in created' => w \in created)
    BY <2>1, <2>2 DEF TypeOK
  <2> QED
    BY <1>3, <2>3, <2>4 DEF RowEffect, Works
<1>5. CASE UNCHANGED <<workflows, created>>
  BY <1>2, <1>3, <1>5, MoveEffect
<1>6. CreateWorkflow(q) \/ CreateTarget(q) \/ UNCHANGED <<workflows, created>>
  BY DEF RequestStep, ProcessStep, ReanalyzeStep, ReuseConversion, ReadToProcess,
         MarkProcessing, ReadToAttach, AttachWorkflow, ReadTarget,
         ReadToReanalyze, ReanalysisRefused, MarkReanalyzing, FindTarget, CreateRefused,
         Reuse, Mark, SaveCopy, KeepWorkflows
<1> QED
  BY <1>4, <1>5, <1>6

\* Steps within a stage, on the document only.
LEMMA WithinEffect ==
  ASSUME TypeOK, NEW q \in Requests, Counted(request[q]), NEW from \in InStages, NEW to \in InStages,
         Go(q, from, to) \/ \E d \in Document : Hold(q, from, to, d),
         to \in Unconverted => from \in Unconverted,
         to \in Unanalyzed => from \in Unanalyzed,
         to # "finished",
         UNCHANGED <<workflows, created>>
  PROVE  RowEffect(q)
<1>1. /\ request[q].pc = from /\ request'[q].pc = to
      /\ request'[q].ctx = request[q].ctx
      /\ request'[q].workflow = request[q].workflow
  <2>1. to # "ended"
    BY DEF InStages
  <2> QED
    BY <2>1, GoTo, HoldTo
<1>2. Counted(request'[q])
  BY <1>1 DEF Counted
<1> QED
  BY <1>1, <1>2, MoveEffect

LEMMA StartEffect ==
  ASSUME TypeOK, NEW q \in Requests, Counted(request[q]),
         FindWorkflow(q) \/ LoadWorkflow(q) \/ NoWorkflow(q)
  PROVE  RowEffect(q)
<1>0. request[q] \in RequestState
  BY DEF TypeOK
<1>2. /\ request[q].pc \in Connecting
      /\ request'[q].pc \in {"linked", "loaded", "ended"}
  <2>1. CASE FindWorkflow(q) \/ LoadWorkflow(q)
    BY <1>0, <2>1 DEF FindWorkflow, LoadWorkflow, TypeOK, RequestState, Connecting
  <2>2. CASE NoWorkflow(q)
    BY <2>2, GoTo DEF NoWorkflow, Connecting
  <2> QED
    BY <2>1, <2>2
<1>3. request[q].pc \notin InStages
  BY <1>2 DEF Connecting, InStages
<1>4. Counted(request'[q])
  BY <1>2 DEF Counted, Unconverted, Unanalyzed
<1>5. UNCHANGED <<workflows, created>>
  BY DEF FindWorkflow, LoadWorkflow, NoWorkflow, KeepWorkflows
<1> QED
  BY <1>3, <1>4, <1>5, MoveEffect

\* What the stages make of the progress.
LEMMA CountedOperations ==
  ASSUME NEW row \in WorkflowRow
  PROVE  /\ \A n \in 1 .. MaxStages : /\ BeginRun(row, n).completed = 0
                                      /\ BeginRun(row, n).total = n
         /\ row.completed = row.total - 1 =>
              CompleteStage(row).completed = CompleteStage(row).total
         /\ row.completed = 0 /\ row.total = 2 =>
              CompleteStage(row).completed = CompleteStage(row).total - 1
         /\ \A stage \in Stages :
              /\ EnterStage(row, stage).completed = row.completed
              /\ EnterStage(row, stage).total = row.total
              /\ ResumeStage(row, stage).completed = row.completed
              /\ ResumeStage(row, stage).total = row.total
         /\ MarkRetrying(row).completed = row.completed
         /\ MarkRetrying(row).total = row.total
         /\ row.completed = row.total => Rested(WaitForReview(row))
         /\ Rested(FailRun(row))
BY DEF WorkflowRow, MaxStages, BeginRun, CompleteStage, EnterStage, ResumeStage,
       MarkRetrying, WaitForReview, FailRun, Rested, Running, Stages

LEMMA SavingEffect ==
  ASSUME TypeOK, NEW q \in Requests, Counted(request[q]),
         \/ BeginRpsRun(q) \/ FailStage(q) \/ EnterProcessing(q) \/ FinishProcessing(q)
         \/ EnterAnalyzing(q) \/ RetryFix(q) \/ FinishAnalyzing(q) \/ AwaitReview(q)
  PROVE  RowEffect(q)
<1> DEFINE ctx == request[q].ctx
<1> USE DEF PCs, InStages, Unconverted, Unanalyzed
<1>0. ctx \in WorkflowRow /\ Counted(request[q])
  BY DEF TypeOK, RequestState
<1>1. CASE BeginRpsRun(q)
  <2>1. StagesOf(q) \in 1 .. MaxStages
    BY DEF StagesOf, MaxStages
  <2>2. BeginRun(ctx, StagesOf(q)) \in WorkflowRow
    BY <1>0, <2>1, RowOperations
  <2>3. /\ BeginRun(ctx, StagesOf(q)).completed = 0
        /\ BeginRun(ctx, StagesOf(q)).total = StagesOf(q)
    BY <1>0, <2>1, CountedOperations
  <2> HIDE DEF ctx
  <2>4. CASE q \in Processes
    BY <1>1, <2>2, <2>3, <2>4, SaveEffect DEF BeginRpsRun, StagesOf, ctx
  <2>5. CASE q \notin Processes
    BY <1>1, <2>2, <2>3, <2>5, SaveEffect DEF BeginRpsRun, StagesOf, ctx
  <2> QED
    BY <2>4, <2>5
<1>2. CASE FailStage(q)
  <2>1. FailRun(ctx) \in WorkflowRow /\ Rested(FailRun(ctx))
    BY <1>0, RowOperations, CountedOperations
  <2> QED
    BY <1>2, <2>1, SaveEffect DEF FailStage
<1>3. CASE EnterProcessing(q)
  <2>1. ctx.completed = 0 /\ ctx.total = 2
    BY <1>0, <1>3 DEF EnterProcessing, SaveRun, Counted
  <2>2. /\ EnterStage(ctx, "PROCESSING_RPS") \in WorkflowRow
        /\ EnterStage(ctx, "PROCESSING_RPS").completed = 0
        /\ EnterStage(ctx, "PROCESSING_RPS").total = 2
    BY <1>0, <2>1, RowOperations, CountedOperations DEF Stages
  <2> QED
    BY <1>3, <2>2, SaveEffect DEF EnterProcessing
<1>4. CASE FinishProcessing(q)
  <2>1. ctx.completed = 0 /\ ctx.total = 2
    BY <1>0, <1>4 DEF FinishProcessing, SaveRun, Counted
  <2>2. /\ CompleteStage(ctx) \in WorkflowRow
        /\ CompleteStage(ctx).completed = CompleteStage(ctx).total - 1
    BY <1>0, <2>1, RowOperations, CountedOperations
  <2> QED
    BY <1>4, <2>2, SaveEffect DEF FinishProcessing
<1>5. CASE EnterAnalyzing(q)
  <2>1. ctx.completed = ctx.total - 1
    BY <1>0, <1>5 DEF EnterAnalyzing, SaveRun, Counted
  <2>2. /\ EnterStage(ctx, "ANALYZING_RPS") \in WorkflowRow
        /\ EnterStage(ctx, "ANALYZING_RPS").completed
             = EnterStage(ctx, "ANALYZING_RPS").total - 1
    BY <1>0, <2>1, RowOperations, CountedOperations DEF Stages
  <2> QED
    BY <1>5, <2>2, SaveEffect DEF EnterAnalyzing
<1>6. CASE RetryFix(q)
  <2>1. ctx.completed = ctx.total - 1
    BY <1>0, <1>6 DEF RetryFix, SaveRun, Counted
  <2>2. /\ MarkRetrying(ctx) \in WorkflowRow
        /\ MarkRetrying(ctx).completed = MarkRetrying(ctx).total - 1
    BY <1>0, <2>1, RowOperations, CountedOperations
  <2> QED
    BY <1>6, <2>2, SaveEffect DEF RetryFix
<1>7. CASE FinishAnalyzing(q)
  <2>1. ctx.completed = ctx.total - 1
    BY <1>0, <1>7 DEF FinishAnalyzing, SaveRun, Counted
  <2>2. /\ CompleteStage(ctx) \in WorkflowRow
        /\ CompleteStage(ctx).completed = CompleteStage(ctx).total
    BY <1>0, <2>1, RowOperations, CountedOperations
  <2> QED
    BY <1>7, <2>2, SaveEffect DEF FinishAnalyzing
<1>8. CASE AwaitReview(q)
  <2>1. ctx.completed = ctx.total
    BY <1>0, <1>8 DEF AwaitReview, SaveRun, Counted
  <2>2. WaitForReview(ctx) \in WorkflowRow /\ Rested(WaitForReview(ctx))
    BY <1>0, <2>1, RowOperations, CountedOperations
  <2> QED
    BY <1>8, <2>2, SaveEffect DEF AwaitReview
<1> QED
  BY <1>1, <1>2, <1>3, <1>4, <1>5, <1>6, <1>7, <1>8

LEMMA NextAttemptEffect ==
  ASSUME TypeOK, NEW q \in Requests, Counted(request[q]), NextAttempt(q)
  PROVE  RowEffect(q)
<1> DEFINE row == ResumeStage(request[q].ctx, "ANALYZING_RPS")
<1> PICK v : v = request[q].workflow
  OBVIOUS
<1>0. request[q] \in RequestState /\ request[q].ctx \in WorkflowRow
  BY DEF TypeOK, RequestState
<1>1. request[q].ctx.completed = request[q].ctx.total - 1
  BY DEF NextAttempt, Counted, Unanalyzed
<1>2. row.completed = row.total - 1
  BY <1>0, <1>1, CountedOperations DEF Stages
<1> HIDE DEF row
<1>3. /\ request'[q].pc = "calling" /\ request'[q].ctx = row
      /\ request'[q].workflow = v
  BY <1>0 DEF NextAttempt, TypeOK, RequestState, row
<1>4. Counted(request'[q])
  BY <1>2, <1>3 DEF Counted, Unconverted
<1>5. \A w \in Ids : w # v => workflows'[w] = workflows[w] /\ ~Works(q, w)
  BY DEF NextAttempt, TypeOK, Works
<1>6. Works(q, v)' /\ created' = created
  BY <1>3 DEF NextAttempt, Works, InStages
<1> QED
  BY <1>4, <1>5, <1>6 DEF RowEffect

LEMMA RunEffect ==
  ASSUME TypeOK, NEW q \in Requests, Counted(request[q]), RunStep(q)
  PROVE  RowEffect(q)
<1> USE DEF InStages, Unconverted, Unanalyzed, KeepWorkflows, KeepBounds
<1>0. /\ document \in Document /\ request[q].copy \in Document
      /\ request[q].workflow \in Ids \cup {None} /\ document.schema \in Schemas
  BY DEF TypeOK, RequestState, Document
<1>1. CASE CheckProcessing(q)
  BY <1>1, WithinEffect DEF CheckProcessing
<1>2. CASE ReuseInRun(q)
  BY <1>2, WithinEffect DEF ReuseInRun, Reuse
<1>3. CASE MarkInRun(q)
  <2>1. StartProcessing(document, document.schema) \in Document
    BY <1>0, DocumentOperations
  <2> QED
    BY <1>3, <2>1, WithinEffect DEF MarkInRun, Mark
<1>4. CASE MarkRefused(q) \/ ConversionRefused(q)
  BY <1>4, WithinEffect DEF MarkRefused, ConversionRefused
<1>5. CASE MarkProcessingInRun(q) \/ MarkAnalyzing(q)
  BY <1>5, WithinEffect DEF MarkProcessingInRun, MarkAnalyzing, SaveCopy
<1>6. CASE StartConversion(q) \/ StartAnalyzing(q)
  BY <1>0, <1>6, WithinEffect DEF StartConversion, StartAnalyzing
<1>7. CASE Convert(q) \/ ConversionFails(q)
  BY <1>7, WithinEffect DEF Convert, ConversionFails
<1>8. CASE CheckAnalyzing(q)
  BY <1>8, WithinEffect DEF CheckAnalyzing
<1>9. CASE ReuseAnalysis(q) \/ AnalysisRefused(q)
  BY <1>9, WithinEffect DEF ReuseAnalysis, AnalysisRefused
<1>10. CASE ReadToAnalyze(q)
  <2>1. StartAnalysis(document, request[q].workflow) \in Document
    BY <1>0, DocumentOperations
  <2> QED
    BY <1>10, <2>1, WithinEffect DEF ReadToAnalyze
<1>11. CASE Analyze(q) \/ AnalysisFails(q)
  BY <1>11, WithinEffect DEF Analyze, AnalysisFails
<1> QED
  BY <1>1, <1>2, <1>3, <1>4, <1>5, <1>6, <1>7, <1>8, <1>9, <1>10, <1>11,
     StartEffect, SavingEffect, NextAttemptEffect
     DEF RunStep, ProcessingStage, AnalysisStage

\* Every step of a request is its own, and workflows only appear.
LEMMA OwnStep ==
  ASSUME TypeOK, NEW q \in Requests, RequestStep(q) \/ RunStep(q)
  PROVE  /\ \A r \in Requests \ {q} : request'[r] = request[r]
         /\ created \subseteq created' /\ crashes' = crashes
<1>1. CASE RequestStep(q)
  BY <1>1 DEF RequestStep, ProcessStep, ReanalyzeStep, ReuseConversion, ReadToProcess,
         MarkProcessing, CreateWorkflow, ReadToAttach, AttachWorkflow, ReadTarget,
         ReadToReanalyze, ReanalysisRefused, MarkReanalyzing, FindTarget, CreateTarget,
         CreateRefused, Reuse, Mark, SaveCopy, Go, Hold, TypeOK, KeepWorkflows, KeepBounds
<1>2. CASE FindWorkflow(q) \/ LoadWorkflow(q) \/ NoWorkflow(q) \/ BeginRpsRun(q) \/ FailStage(q)
  BY <1>2 DEF FindWorkflow, LoadWorkflow, NoWorkflow, BeginRpsRun, FailStage,
         SaveRun, Go, TypeOK, KeepWorkflows, KeepBounds
<1>3. CASE ProcessingStage(q)
  BY <1>3 DEF ProcessingStage, EnterProcessing, CheckProcessing, ReuseInRun, MarkInRun,
         MarkRefused, MarkProcessingInRun, StartConversion, ConversionRefused, Convert,
         ConversionFails, FinishProcessing,
         Reuse, Mark, SaveCopy, SaveRun, Go, Hold, TypeOK, KeepWorkflows, KeepBounds
<1>4. CASE AnalysisStage(q)
  BY <1>4 DEF AnalysisStage, EnterAnalyzing, CheckAnalyzing, ReuseAnalysis, ReadToAnalyze,
         AnalysisRefused, MarkAnalyzing, StartAnalyzing, RetryFix, NextAttempt, Analyze,
         AnalysisFails, FinishAnalyzing, AwaitReview,
         Reuse, Mark, SaveCopy, SaveRun, Go, Hold, TypeOK, KeepWorkflows, KeepBounds
<1> QED
  BY <1>1, <1>2, <1>3, <1>4 DEF RunStep

LEMMA CrashCounted ==
  ASSUME NEW q \in Requests, Counted(request[q]), Crash
  PROVE  Counted(request'[q])
<1>1. CASE request[q].pc = "idle"
  BY <1>1 DEF Crash
<1>2. CASE request[q].pc # "idle"
  BY <1>2 DEF Crash, Blank, Counted, Unconverted, Unanalyzed
<1> QED
  BY <1>1, <1>2

LEMMA RestNext == TypeOK /\ TypeOK' /\ RestInv /\ [Next]_vars => RestInv'
<1> SUFFICES ASSUME TypeOK, TypeOK', RestInv, [Next]_vars PROVE RestInv'
  OBVIOUS
<1>1. CASE LeaseExpires \/ UNCHANGED vars
  BY <1>1 DEF LeaseExpires, KeepWorkflows, vars, RestInv, RestingMeansDone, Works, Counted
<1>2. CASE Crash
  <2>1. crashes' # 0
    BY <1>2 DEF Crash, TypeOK
  <2>2. \A q \in Requests : Counted(request'[q])
    BY <1>2, CrashCounted DEF RestInv
  <2> QED
    BY <2>1, <2>2 DEF RestInv, RestingMeansDone
<1>3. ASSUME NEW q \in Requests, RequestStep(q) \/ RunStep(q) PROVE RestInv'
  <2>1. RowEffect(q)
    BY <1>3, RequestEffect, RunEffect DEF RestInv
  <2>2. (\A r \in Requests \ {q} : request'[r] = request[r]) /\ crashes' = crashes
    BY <1>3, OwnStep
  <2>3. \A r \in Requests : Counted(request'[r])
    BY <2>1, <2>2 DEF RowEffect, RestInv
  <2>4. SUFFICES ASSUME NEW w \in created', crashes = 0, \A r \in Requests : ~Works(r, w)'
                 PROVE  Rested(workflows'[w])
    BY <2>2, <2>3, <2>4 DEF RestInv, RestingMeansDone, Rested
  <2>5. w \in Ids
    BY DEF TypeOK
  <2>6. \A r \in Requests \ {q} : ~Works(r, w)
    BY <2>2, <2>4 DEF Works
  <2> QED
    BY <2>1, <2>4, <2>5, <2>6 DEF RowEffect, RestInv, RestingMeansDone, Rested
<1> QED
  BY <1>1, <1>2, <1>3 DEF Next

\* A workflow nobody works on shows no stage at work, and if it waits for its
\* instructor all the stages of its last run are completed, however many runs of
\* one and of two stages wrote its row over one another.
THEOREM RestingIsDone == Spec => []RestingMeansDone
<1>1. Init => TypeOK /\ RestInv
  BY TypeInit, RestInit
<1>2. (TypeOK /\ RestInv) /\ [Next]_vars => (TypeOK /\ RestInv)'
  BY TypeNext, RestNext
<1>3. RestInv => RestingMeansDone
  BY DEF RestInv
<1> QED
  BY <1>1, <1>2, <1>3, PTL DEF Spec

-----------------------------------------------------------------------------
(* Who serves a marked document.  Minds says that a request will settle    *)
(* the mark of d with the steps it has left, whatever the others do, and   *)
(* depends on how far it is: some places lead to a settling save whichever *)
(* of the two marks the document has, some only with one of them, and the  *)
(* way from the answer to the run leads through the workflow the document  *)
(* names.  Whoever saves a mark minds the document after that, so it need  *)
(* not matter who minded it before.                                        *)

Marked(d) == d.status \in {"PROCESSING", "ANALYZING"}

Minds(q, r, d, exist) ==
  \/ r.pc \in {"starting", "begun", "created", "attaching", "restarting",
               "toProcess", "processing", "claimed", "converting",
               "analysisClaimed", "calling", "retrying"}
  \/ d.status = "PROCESSING" /\ r.pc = "toConvert"
  \/ d.status = "ANALYZING" /\ r.pc \in {"claiming", "processed", "toAnalyze",
                                         "analyzing", "ready"}
  \/ /\ d.status = "PROCESSING" => q \in Processes
     /\ \/ r.pc = "scheduled" /\ d.workflow \in exist
        \/ r.pc = "linked" /\ r.workflow \in exist
        \/ r.pc = "loaded"
  \/ /\ d.status = "ANALYZING" /\ d.workflow = r.workflow
     /\ \/ r.pc = "ensuring"
        \/ r.pc = "creating" /\ r.workflow \notin exist

\* What a request is about to save.
Copied(q, r, exist) ==
  /\ r.pc \in {"starting", "claimed"} => r.copy.status = "PROCESSING"
  /\ r.pc \in {"restarting", "analysisClaimed"} => r.copy.status = "ANALYZING"
  /\ r.pc = "restarting" => r.copy.workflow = r.workflow
  /\ r.pc = "attaching" => r.copy.workflow = q
  /\ r.pc \in {"created", "attaching"} => q \in exist

ServedInv ==
  /\ \A q \in Requests : Copied(q, request[q], created)
  /\ Marked(document) /\ crashes = 0 =>
       \E q \in Requests : Minds(q, request[q], document, created)

LEMMA ServedInit == Init => ServedInv
<1> SUFFICES ASSUME Init PROVE ServedInv
  OBVIOUS
<1>1. ~Marked(document)
  BY DEF Init, AtRest, Marked
<1>2. \A q \in Requests : Copied(q, request[q], created)
  BY DEF Init, Blank, Copied
<1> QED
  BY <1>1, <1>2 DEF ServedInv

\* New workflows take the document from nobody but a request that is about to
\* insert the very workflow.
LEMMA StillMinds ==
  ASSUME NEW q, NEW r, NEW d, NEW exist, NEW more, exist \subseteq more,
         Minds(q, r, d, exist),
         d.status = "ANALYZING" => d.workflow \notin more \ exist
  PROVE  Minds(q, r, d, more)
BY DEF Minds

\* A step of q after which it minds the document, if it did so before or has
\* changed what the others rely on.
LEMMA HandOver ==
  ASSUME ServedInv, NEW q \in Requests,
         \A r \in Requests \ {q} : request'[r] = request[r],
         created \subseteq created', crashes' = crashes,
         Copied(q, request'[q], created'),
         /\ Marked(document')
         /\ \/ document' # document
            \/ document.status = "ANALYZING" /\ document.workflow \in created' \ created
            \/ Minds(q, request[q], document, created)
         => Minds(q, request'[q], document', created')
  PROVE  ServedInv'
<1>1. \A r \in Requests : Copied(r, request'[r], created')
  <2> SUFFICES ASSUME NEW r \in Requests, r # q
               PROVE  Copied(r, request'[r], created')
    OBVIOUS
  <2>1. request'[r] = request[r] /\ Copied(r, request[r], created)
    BY DEF ServedInv
  <2> QED
    BY <2>1 DEF Copied
<1>2. ASSUME Marked(document'), crashes' = 0
      PROVE  \E r \in Requests : Minds(r, request'[r], document', created')
  <2>1. CASE Minds(q, request'[q], document', created')
    BY <2>1
  <2>2. CASE ~Minds(q, request'[q], document', created')
    <3>1. /\ document' = document
          /\ document.status = "ANALYZING" => document.workflow \notin created' \ created
          /\ ~Minds(q, request[q], document, created)
      BY <1>2, <2>2
    <3>2. PICK r \in Requests : Minds(r, request[r], document, created)
      BY <1>2, <3>1 DEF ServedInv
    <3>3. request'[r] = request[r]
      BY <3>1, <3>2
    <3>4. Minds(r, request[r], document, created')
      BY <3>1, <3>2, StillMinds
    <3> QED
      BY <3>1, <3>3, <3>4
  <2> QED
    BY <2>1, <2>2
<1> QED
  BY <1>1, <1>2 DEF ServedInv

LEMMA HoldCopy ==
  ASSUME TypeOK, NEW q \in Requests, NEW from, NEW to, NEW d, Hold(q, from, to, d)
  PROVE  request'[q].copy = d
BY DEF Hold, TypeOK, RequestState

LEMMA SaveRunTo ==
  ASSUME TypeOK, NEW q \in Requests, NEW from, NEW to, NEW row, SaveRun(q, from, to, row)
  PROVE  /\ request[q].pc = from /\ request'[q].pc = to
         /\ to # "ended" => request'[q].workflow = request[q].workflow
         /\ UNCHANGED <<document, created, crashes>>
<1>1. request[q] \in RequestState
  BY DEF TypeOK
<1>2. CASE to = "ended"
  BY <1>2 DEF SaveRun, TypeOK, Blank, KeepDocument, KeepBounds
<1>3. CASE to # "ended"
  BY <1>1, <1>3 DEF SaveRun, TypeOK, RequestState, KeepDocument, KeepBounds
<1> QED
  BY <1>2, <1>3

LEMMA ProcessServed ==
  ASSUME TypeOK, ServedInv, NEW q \in Processes, ProcessStep(q)
  PROVE  ServedInv'
<1> USE DEF Minds, Copied
<1>0. /\ q \in Requests /\ q \in Ids /\ document \in Document
      /\ request[q].copy \in Document
      /\ Copied(q, request[q], created)
  BY DEF Processes, Ids, TypeOK, RequestState, ServedInv
<1>00. /\ \A r \in Requests \ {q} : request'[r] = request[r]
       /\ created \subseteq created' /\ crashes' = crashes
  BY <1>0, OwnStep DEF RequestStep
<1>1. CASE ReuseConversion(q)
  <2>1. request[q].pc = "idle" /\ request'[q].pc = "begun"
    BY <1>0, <1>1, GoTo DEF ReuseConversion, Reuse
  <2> QED
    BY <1>0, <1>00, <2>1, HandOver
<1>2. CASE ReadToProcess(q)
  <2>1. PICK schema \in Schemas : Mark(q, "idle", "starting", schema)
    BY <1>2 DEF ReadToProcess
  <2>2. request[q].pc = "idle" /\ request'[q].pc = "starting"
    BY <1>0, <2>1, HoldTo DEF Mark
  <2>3. request'[q].copy.status = "PROCESSING"
    BY <1>0, <2>1, HoldCopy DEF Mark, StartProcessing, Document
  <2> QED
    BY <1>0, <1>00, <2>2, <2>3, HandOver
<1>3. CASE MarkProcessing(q)
  <2>1. request[q].pc = "starting" /\ request'[q].pc = "begun"
    BY <1>0, <1>3, GoTo DEF MarkProcessing, SaveCopy
  <2> QED
    BY <1>0, <1>00, <2>1, HandOver
<1>4. CASE CreateWorkflow(q)
  <2>1. request[q].pc = "begun" /\ request'[q].pc = "created" /\ q \in created'
    BY <1>0, <1>4, GoTo DEF CreateWorkflow
  <2> QED
    BY <1>0, <1>00, <2>1, HandOver
<1>5. CASE ReadToAttach(q)
  <2>1. request[q].pc = "created" /\ request'[q].pc = "attaching"
    BY <1>0, <1>5, HoldTo DEF ReadToAttach
  <2>2. request'[q].copy.workflow = q
    BY <1>0, <1>5, HoldCopy DEF ReadToAttach, LinkWorkflow, Document
  <2> QED
    BY <1>0, <1>00, <2>1, <2>2, HandOver
<1>6. CASE AttachWorkflow(q)
  <2>1. request[q].pc = "attaching" /\ request'[q].pc = "scheduled"
    BY <1>0, <1>6, GoTo DEF AttachWorkflow, SaveCopy
  <2>2. document'.workflow = q
    BY <1>0, <1>6, <2>1 DEF AttachWorkflow, SaveCopy, SaveDocument
  <2>3. q \in created'
    BY <1>0, <1>00, <2>1
  <2> QED
    BY <1>0, <1>00, <2>1, <2>2, <2>3, HandOver
<1> QED
  BY <1>1, <1>2, <1>3, <1>4, <1>5, <1>6 DEF ProcessStep

LEMMA ReanalyzeServed ==
  ASSUME TypeOK, ServedInv, NEW q \in Requests, q \notin Processes, ReanalyzeStep(q)
  PROVE  ServedInv'
<1> USE DEF Minds, Copied
<1>0. /\ document \in Document /\ request[q] \in RequestState
      /\ request[q].copy \in Document
      /\ Copied(q, request[q], created)
  BY DEF TypeOK, RequestState, ServedInv
<1>00. /\ \A r \in Requests \ {q} : request'[r] = request[r]
       /\ created \subseteq created' /\ crashes' = crashes
  BY OwnStep DEF RequestStep
<1>1. CASE ReadTarget(q)
  <2>1. /\ request[q].pc = "idle" /\ request'[q].pc = "targeted"
        /\ UNCHANGED <<document, created>>
    BY <1>0, <1>1 DEF ReadTarget, TypeOK, RequestState, KeepDocument, KeepWorkflows
  <2> QED
    BY <1>00, <2>1, HandOver
<1>2. CASE ReadToReanalyze(q)
  <2>1. /\ request[q].pc = "targeted" /\ request'[q].pc = "restarting"
        /\ request'[q].workflow = request[q].workflow
    BY <1>2, HoldTo DEF ReadToReanalyze
  <2>2. request'[q].copy = StartAnalysis(document, request[q].workflow)
    BY <1>2, HoldCopy DEF ReadToReanalyze
  <2>3. request'[q].copy.status = "ANALYZING" /\ request'[q].copy.workflow = request'[q].workflow
    BY <1>0, <2>1, <2>2 DEF StartAnalysis, Document
  <2> QED
    BY <1>00, <2>1, <2>3, HandOver
<1>3. CASE ReanalysisRefused(q)
  <2>1. /\ request[q].pc = "targeted" /\ request'[q].pc = "ended"
        /\ UNCHANGED <<document, created>>
    BY <1>3, GoTo DEF ReanalysisRefused, KeepDocument, KeepWorkflows
  <2> QED
    BY <1>00, <2>1, HandOver
<1>4. CASE MarkReanalyzing(q)
  <2>1. /\ request[q].pc = "restarting" /\ request'[q].pc = "ensuring"
        /\ request'[q].workflow = request[q].workflow
    BY <1>4, GoTo DEF MarkReanalyzing, SaveCopy
  <2>2. document'.status = "ANALYZING" /\ document'.workflow = request[q].workflow
    BY <1>0, <1>4, <2>1 DEF MarkReanalyzing, SaveCopy, SaveDocument
  <2> QED
    BY <1>00, <2>1, <2>2, HandOver
<1>5. CASE FindTarget(q)
  <2>1. /\ request[q].pc = "ensuring"
        /\ request'[q].pc = IF request[q].workflow \in created THEN "scheduled" ELSE "creating"
        /\ request'[q].workflow = request[q].workflow
        /\ UNCHANGED <<document, created>>
    BY <1>5, GoTo DEF FindTarget, KeepDocument, KeepWorkflows
  <2> QED
    BY <1>00, <2>1, HandOver
<1>6. CASE CreateTarget(q)
  <2>1. /\ request[q].pc = "creating" /\ request'[q].pc = "scheduled"
        /\ document' = document
        /\ created' = created \cup {request[q].workflow}
    BY <1>6, GoTo DEF CreateTarget, KeepDocument
  <2> QED
    BY <1>00, <2>1, HandOver
<1>7. CASE CreateRefused(q)
  <2>1. /\ request[q].pc = "creating" /\ request'[q].pc = "ended"
        /\ request[q].workflow \in created
        /\ UNCHANGED <<document, created>>
    BY <1>7, GoTo DEF CreateRefused, KeepDocument, KeepWorkflows
  <2> QED
    BY <1>00, <2>1, HandOver
<1> QED
  BY <1>1, <1>2, <1>3, <1>4, <1>5, <1>6, <1>7 DEF ReanalyzeStep

LEMMA StartServed ==
  ASSUME TypeOK, ServedInv, NEW q \in Requests,
         FindWorkflow(q) \/ LoadWorkflow(q) \/ NoWorkflow(q) \/ BeginRpsRun(q) \/ FailStage(q)
  PROVE  ServedInv'
<1> USE DEF Minds, Copied
<1>0. request[q] \in RequestState
  BY DEF TypeOK
<1>00. /\ \A r \in Requests \ {q} : request'[r] = request[r]
       /\ created \subseteq created' /\ crashes' = crashes
  BY OwnStep DEF RunStep
<1>000. UNCHANGED <<document, created>>
  BY DEF FindWorkflow, LoadWorkflow, NoWorkflow, BeginRpsRun, FailStage, SaveRun,
         KeepDocument, KeepWorkflows
<1>1. CASE FindWorkflow(q)
  <2>1. /\ request[q].pc = "scheduled" /\ request'[q].pc = "linked"
        /\ request'[q].workflow = document.workflow
    BY <1>0, <1>1 DEF FindWorkflow, TypeOK, RequestState
  <2> QED
    BY <1>00, <1>000, <2>1, HandOver
<1>2. CASE LoadWorkflow(q)
  <2>1. request[q].pc = "linked" /\ request'[q].pc = "loaded"
    BY <1>0, <1>2 DEF LoadWorkflow, TypeOK, RequestState
  <2> QED
    BY <1>00, <1>000, <2>1, HandOver
<1>3. CASE NoWorkflow(q)
  <2>1. /\ request'[q].pc = "ended"
        /\ \/ request[q].pc = "scheduled" /\ document.workflow = None
           \/ request[q].pc = "linked" /\ request[q].workflow \notin created
    BY <1>3, GoTo DEF NoWorkflow
  <2>2. None \notin created
    BY IdentifiersAssumption DEF TypeOK, Ids
  <2> QED
    BY <1>00, <1>000, <2>1, <2>2, HandOver
<1>4. CASE BeginRpsRun(q)
  <2>1. /\ request[q].pc = "loaded"
        /\ request'[q].pc = IF q \in Processes THEN "toProcess" ELSE "toAnalyze"
    BY <1>4, SaveRunTo DEF BeginRpsRun
  <2> QED
    BY <1>00, <1>000, <2>1, HandOver DEF Marked
<1>5. CASE FailStage(q)
  <2>1. request[q].pc = "failing" /\ request'[q].pc = "ended"
    BY <1>5, SaveRunTo DEF FailStage
  <2> QED
    BY <1>00, <1>000, <2>1, HandOver
<1> QED
  BY <1>1, <1>2, <1>3, <1>4, <1>5

LEMMA ProcessingServed ==
  ASSUME TypeOK, ServedInv, NEW q \in Requests, ProcessingStage(q)
  PROVE  ServedInv'
<1> USE DEF Minds, Copied
<1>0. /\ document \in Document /\ request[q].copy \in Document
      /\ Copied(q, request[q], created)
  BY DEF TypeOK, RequestState, ServedInv
<1>00. /\ \A r \in Requests \ {q} : request'[r] = request[r]
       /\ created \subseteq created' /\ crashes' = crashes
  BY OwnStep DEF RunStep
<1>000. created' = created
  BY DEF ProcessingStage, EnterProcessing, CheckProcessing, ReuseInRun, MarkInRun,
         MarkRefused, MarkProcessingInRun, StartConversion, ConversionRefused, Convert,
         ConversionFails, FinishProcessing, Reuse, Mark, SaveCopy, SaveRun, KeepWorkflows
<1>1. CASE EnterProcessing(q)
  <2>1. request[q].pc = "toProcess" /\ request'[q].pc = "processing"
    BY <1>1, SaveRunTo DEF EnterProcessing
  <2> QED
    BY <1>00, <2>1, HandOver
<1>2. CASE CheckProcessing(q)
  <2>1. /\ request[q].pc = "processing"
        /\ request'[q].pc = IF document.status = "PROCESSING" THEN "toConvert" ELSE "claiming"
        /\ document' = document
    BY <1>2, GoTo DEF CheckProcessing, KeepDocument
  <2> QED
    BY <1>00, <2>1, HandOver DEF Marked
<1>3. CASE ReuseInRun(q)
  <2>1. request[q].pc = "claiming" /\ request'[q].pc = "processed" /\ document' = document
    BY <1>3, GoTo DEF ReuseInRun, Reuse, KeepDocument
  <2>2. ~Marked(document)
    BY <1>3 DEF ReuseInRun, Reuse, AlreadyProcessedAs, Marked
  <2> QED
    BY <1>00, <2>1, <2>2, HandOver
<1>4. CASE MarkInRun(q)
  <2>1. request[q].pc = "claiming" /\ request'[q].pc = "claimed"
    BY <1>4, HoldTo DEF MarkInRun, Mark
  <2>2. request'[q].copy.status = "PROCESSING"
    BY <1>0, <1>4, HoldCopy DEF MarkInRun, Mark, StartProcessing, Document
  <2> QED
    BY <1>00, <2>1, <2>2, HandOver
<1>5. CASE MarkRefused(q)
  <2>1. request[q].pc = "claiming" /\ request'[q].pc = "failing" /\ document' = document
    BY <1>5, GoTo DEF MarkRefused, KeepDocument
  <2>2. document.status = "PROCESSING"
    BY <1>5 DEF MarkRefused, MayStartProcessing
  <2> QED
    BY <1>00, <1>000, <2>1, <2>2, HandOver
<1>6. CASE MarkProcessingInRun(q)
  <2>1. /\ request[q].pc = "claimed" /\ request'[q].pc = "toConvert"
        /\ document' = request[q].copy
    BY <1>6, GoTo DEF MarkProcessingInRun, SaveCopy, SaveDocument
  <2> QED
    BY <1>0, <1>00, <2>1, HandOver
<1>7. CASE StartConversion(q)
  <2>1. request[q].pc = "toConvert" /\ request'[q].pc = "converting"
    BY <1>7, HoldTo DEF StartConversion
  <2> QED
    BY <1>00, <2>1, HandOver
<1>8. CASE ConversionRefused(q)
  <2>1. /\ request[q].pc = "toConvert" /\ request'[q].pc = "failing"
        /\ document' = document /\ document.status # "PROCESSING"
    BY <1>8, GoTo DEF ConversionRefused, KeepDocument
  <2> QED
    BY <1>00, <1>000, <2>1, HandOver
<1>9. CASE Convert(q) \/ ConversionFails(q)
  <2>1. request[q].pc = "converting" /\ request'[q].pc \in {"processed", "failing"}
    BY <1>9, GoTo DEF Convert, ConversionFails
  <2>2. document'.status \in {"PROCESSED", "FAILED"}
    BY <1>0, <1>9 DEF Convert, ConversionFails, SaveDocument, CompleteProcessing,
                      FailProcessing, Document
  <2>3. ~Marked(document')
    BY <2>2 DEF Marked
  <2> QED
    BY <1>00, <2>1, <2>3, HandOver
<1>10. CASE FinishProcessing(q)
  <2>1. /\ request[q].pc = "processed" /\ request'[q].pc = "toAnalyze"
        /\ document' = document
    BY <1>10, SaveRunTo DEF FinishProcessing
  <2> QED
    BY <1>00, <1>000, <2>1, HandOver
<1> QED
  BY <1>1, <1>2, <1>3, <1>4, <1>5, <1>6, <1>7, <1>8, <1>9, <1>10 DEF ProcessingStage

LEMMA AnalysisServed ==
  ASSUME TypeOK, ServedInv, NEW q \in Requests, AnalysisStage(q)
  PROVE  ServedInv'
<1> USE DEF Minds, Copied
<1>0. /\ document \in Document /\ request[q].copy \in Document
      /\ request[q] \in RequestState
      /\ Copied(q, request[q], created)
  BY DEF TypeOK, RequestState, ServedInv
<1>00. /\ \A r \in Requests \ {q} : request'[r] = request[r]
       /\ created \subseteq created' /\ crashes' = crashes
  BY OwnStep DEF RunStep
<1>000. created' = created
  BY DEF AnalysisStage, EnterAnalyzing, CheckAnalyzing, ReuseAnalysis, ReadToAnalyze,
         AnalysisRefused, MarkAnalyzing, StartAnalyzing, RetryFix, NextAttempt, Analyze,
         AnalysisFails, FinishAnalyzing, AwaitReview, SaveCopy, SaveRun, KeepWorkflows
<1>1. CASE EnterAnalyzing(q)
  <2>1. /\ request[q].pc = "toAnalyze" /\ request'[q].pc = "analyzing"
        /\ document' = document
    BY <1>1, SaveRunTo DEF EnterAnalyzing
  <2> QED
    BY <1>00, <1>000, <2>1, HandOver
<1>2. CASE CheckAnalyzing(q)
  <2>1. /\ request[q].pc = "analyzing"
        /\ request'[q].pc = IF document.status = "ANALYZING" THEN "ready" ELSE "claimingAnalysis"
        /\ document' = document
    BY <1>2, GoTo DEF CheckAnalyzing, KeepDocument
  <2> QED
    BY <1>00, <1>000, <2>1, HandOver
<1>3. CASE ReuseAnalysis(q) \/ AnalysisRefused(q)
  <2>1. /\ \/ request[q].pc = "claimingAnalysis"
           \/ request[q].pc = "ready" /\ document.status # "ANALYZING"
        /\ request'[q].pc \in {"failing", "analyzed"}
        /\ document' = document
    BY <1>3, GoTo DEF ReuseAnalysis, AnalysisRefused, KeepDocument
  <2> QED
    BY <1>00, <1>000, <2>1, HandOver
<1>4. CASE ReadToAnalyze(q)
  <2>1. request[q].pc = "claimingAnalysis" /\ request'[q].pc = "analysisClaimed"
    BY <1>4, HoldTo DEF ReadToAnalyze
  <2>2. request'[q].copy.status = "ANALYZING"
    <3>1. request'[q].copy = StartAnalysis(document, request[q].workflow)
      BY <1>4, HoldCopy DEF ReadToAnalyze
    <3> QED
      BY <1>0, <3>1 DEF StartAnalysis, Document
  <2> QED
    BY <1>00, <2>1, <2>2, HandOver
<1>5. CASE MarkAnalyzing(q)
  <2>1. /\ request[q].pc = "analysisClaimed" /\ request'[q].pc = "ready"
        /\ document' = request[q].copy
    BY <1>5, GoTo DEF MarkAnalyzing, SaveCopy, SaveDocument
  <2> QED
    BY <1>0, <1>00, <2>1, HandOver
<1>6. CASE StartAnalyzing(q)
  <2>1. request[q].pc = "ready" /\ request'[q].pc = "calling"
    BY <1>6, HoldTo DEF StartAnalyzing
  <2> QED
    BY <1>00, <2>1, HandOver
<1>7. CASE RetryFix(q)
  <2>1. request[q].pc = "calling" /\ request'[q].pc = "retrying"
    BY <1>7, SaveRunTo DEF RetryFix
  <2> QED
    BY <1>00, <2>1, HandOver
<1>8. CASE NextAttempt(q)
  <2>1. request[q].pc = "retrying" /\ request'[q].pc = "calling"
    BY <1>0, <1>8 DEF NextAttempt, TypeOK, RequestState
  <2> QED
    BY <1>00, <2>1, HandOver
<1>9. CASE Analyze(q) \/ AnalysisFails(q)
  <2>1. request[q].pc = "calling" /\ request'[q].pc \in {"analyzed", "failing"}
    BY <1>9, GoTo DEF Analyze, AnalysisFails
  <2>2. document'.status \in {"ANALYZED", "FAILED"}
    BY <1>0, <1>9 DEF Analyze, AnalysisFails, SaveDocument, CompleteAnalysis,
                      FailAnalysis, Document
  <2>3. ~Marked(document')
    BY <2>2 DEF Marked
  <2> QED
    BY <1>00, <2>1, <2>3, HandOver
<1>10. CASE FinishAnalyzing(q) \/ AwaitReview(q)
  <2>1. /\ request[q].pc \in {"analyzed", "finished"}
        /\ request'[q].pc \in {"finished", "ended"}
        /\ document' = document
    BY <1>10, SaveRunTo DEF FinishAnalyzing, AwaitReview
  <2> QED
    BY <1>00, <1>000, <2>1, HandOver
<1> QED
  BY <1>1, <1>2, <1>3, <1>4, <1>5, <1>6, <1>7, <1>8, <1>9, <1>10 DEF AnalysisStage

LEMMA ServedNext == TypeOK /\ ServedInv /\ [Next]_vars => ServedInv'
<1> SUFFICES ASSUME TypeOK, ServedInv, [Next]_vars PROVE ServedInv'
  OBVIOUS
<1>1. ASSUME NEW q \in Requests, RequestStep(q) PROVE ServedInv'
  BY <1>1, ProcessServed, ReanalyzeServed DEF RequestStep
<1>2. ASSUME NEW q \in Requests, RunStep(q) PROVE ServedInv'
  BY <1>2, StartServed, ProcessingServed, AnalysisServed DEF RunStep
<1>3. CASE LeaseExpires \/ UNCHANGED vars
  <2>1. UNCHANGED <<document, created, request, crashes>>
    BY <1>3 DEF LeaseExpires, KeepWorkflows, vars
  <2> QED
    BY <2>1 DEF ServedInv
<1>4. CASE Crash
  <2>1. crashes' # 0
    BY <1>4 DEF Crash, TypeOK
  <2>2. ASSUME NEW q \in Requests PROVE request'[q].pc \in {"idle", "ended"}
    <3>1. Blank("ended").pc = "ended"
      BY DEF Blank
    <3> QED
      BY <1>4, <3>1 DEF Crash
  <2> QED
    BY <2>1, <2>2 DEF ServedInv, Copied
<1> QED
  BY <1>1, <1>2, <1>3, <1>4 DEF Next

\* As long as the backend is up a document that is marked as being worked on
\* belongs to a request that is still under way, however many requests mark,
\* convert, analyze and link it at the same time.
THEOREM MarkedIsServed == Spec => []MarkedMeansServed
<1>1. Init => TypeOK /\ ServedInv
  BY TypeInit, ServedInit
<1>2. (TypeOK /\ ServedInv) /\ [Next]_vars => (TypeOK /\ ServedInv)'
  BY TypeNext, ServedNext
<1>3. ServedInv => MarkedMeansServed
  BY DEF ServedInv, MarkedMeansServed, Marked, Minds
<1> QED
  BY <1>1, <1>2, <1>3, PTL DEF Spec

=============================================================================
