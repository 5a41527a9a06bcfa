------------------------- MODULE MCWorkflowMonitor -------------------------
(* A small instance of WorkflowMonitor: a first analysis or another one,    *)
(* and the planning run that may follow it.                                 *)
EXTENDS WorkflowMonitor

Analysis == <<"ANALYZING_RPS">>
Planning == <<"PLANNING_COURSE", "VALIDATING">>

AnalysisOnly == {Analysis}
AnalysisAndPlanning == {Analysis, Planning}
=============================================================================
