------------------------ MODULE CoursePlanning_ledger ------------------------
(***************************************************************************)
(* CoursePlanning implements PlanLedger, as long as no request changes the *)
(* Moodle target: the holders of a workflow are the runs between claim and *)
(* end, and the ledger is the table course_plans in the order of its       *)
(* versions.                                                               *)
(***************************************************************************)
EXTENDS CoursePlanning

HoldersOf(w) == {p \in Planners : Holds(p, w)}

EntryOf(rows, v) ==
  LET plan == CHOOSE plan \in rows : plan.version = v
  IN  [status |-> plan.status, passed |-> plan.passed]

LedgerOf(rows) == [v \in 1 .. Cardinality(rows) |-> EntryOf(rows, v)]

Ledger == INSTANCE PlanLedger WITH
  holders <- [w \in Workflows |-> HoldersOf(w)],
  ledger <- [w \in Workflows |-> LedgerOf(plans[w])]

\* The planning keeps its promise: whatever requests, runs, reviews and crashes
\* interleave, there is one holder at a time, only the holder adds a version,
\* a version is added at the end of the ledger and stays there, and the holder
\* gives the workflow back (claim_planning, create_version, set_status).
ImplementsLedger == Ledger!LedgerFairSpec

=============================================================================
