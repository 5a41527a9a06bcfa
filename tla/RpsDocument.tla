---------------------------- MODULE RpsDocument ----------------------------
(***************************************************************************)
(* The row of the table "rps" and its state machine (services/rps/         *)
(* domain.py).  As in WorkflowRecord, an operator takes the record a       *)
(* caller holds to the record it will save, and a guard says when the      *)
(* method raises no error.                                                 *)
(*                                                                         *)
(* A conversion result is named by the request whose run made it, and an   *)
(* analysis result by the conversion it was made from.  File, owner and    *)
(* error texts are left out.  Whether the row was written recently, which  *)
(* the code reads off updated_at, is an argument here: fresh.              *)
(***************************************************************************)

CONSTANTS
  Requests,     \* requests to process or to analyze the document
  Earlier,      \* the request that left the document as it is at the start
  None,         \* no result, no workflow (NULL)
  Schemas       \* versions of the schema a request may ask for

ASSUME IdentifiersAssumption ==
  /\ Earlier \notin Requests
  /\ None \notin Requests \cup {Earlier}
  /\ Schemas # {}

\* A workflow has the name of the request that created it.
Ids == Requests \cup {Earlier}

RPSStatus == {"UPLOADED", "PROCESSING", "PROCESSED", "ANALYZING", "ANALYZED", "FAILED"}

Document ==
  [status : RPSStatus,
   schema : Schemas,
   source : Ids \cup {None},
   structured : Ids \cup {None},
   workflow : Ids \cup {None}]

Uploaded ==
  [status |-> "UPLOADED", schema |-> CHOOSE schema \in Schemas : TRUE,
   source |-> None, structured |-> None, workflow |-> None]

IsAnalyzed(d) == d.status = "ANALYZED" /\ d.structured # None

AlreadyProcessedAs(d, schema) ==
  d.status = "PROCESSED" /\ d.source # None /\ d.schema = schema

\* retarget_schema_version and start_processing.
MayStartProcessing(d, fresh) == d.status = "PROCESSING" => ~fresh

StartProcessing(d, schema) == [d EXCEPT !.status = "PROCESSING", !.schema = schema]

\* A caller may do it only when d.status = "PROCESSING".
CompleteProcessing(d, source) == [d EXCEPT !.status = "PROCESSED", !.source = source]

FailProcessing(d) == [d EXCEPT !.status = "FAILED"]

LinkWorkflow(d, workflow) == [d EXCEPT !.workflow = workflow]

\* Mutated: the document need not be converted.
MayStartAnalysisAnyway(d, fresh, allowReanalysis) ==
  /\ d.status # "PROCESSING"
  /\ d.status = "ANALYZING" => ~fresh
  /\ IsAnalyzed(d) => allowReanalysis

MayStartAnalysis(d, fresh, allowReanalysis) ==
  /\ d.status # "PROCESSING"
  /\ d.source # None
  /\ d.status = "ANALYZING" => ~fresh
  /\ IsAnalyzed(d) => allowReanalysis

StartAnalysis(d, workflow) == [d EXCEPT !.status = "ANALYZING", !.workflow = workflow]

\* Mutated: the result of the first analysis is kept.
CompleteAnalysisOnce(d) ==
  [d EXCEPT !.status = "ANALYZED", !.structured = IF @ = None THEN d.source ELSE @]

\* A caller may do it only when d.status = "ANALYZING".
CompleteAnalysis(d) == [d EXCEPT !.status = "ANALYZED", !.structured = d.source]

\* Mutated: the error is recorded but not the status.
FailAnalysisMarked(d) == d

\* The result of an earlier analysis is kept.
FailAnalysis(d) == [d EXCEPT !.status = "FAILED"]

=============================================================================
