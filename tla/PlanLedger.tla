----------------------------- MODULE PlanLedger -----------------------------
(***************************************************************************)
(* What the planning promises of a workflow, without rows, stages, copies  *)
(* or retries (class CoursePlanService, table course_plans).               *)
(*                                                                         *)
(*  - A workflow has at most one holder, a planning request whose run is   *)
(*    under way, and only the holder adds to its plans.                    *)
(*  - The plans are a ledger: version n is the n-th entry and stays where  *)
(*    it is.  What the validation said of it never changes; what the       *)
(*    instructor decided may, but no decision makes it a draft again, and  *)
(*    at most one version is approved, which passed the validation.        *)
(***************************************************************************)
EXTENDS Integers, Sequences

CONSTANTS
  Workflows,    \* workflows that may be planned
  Planners      \* planning requests

VARIABLES
  holders,      \* for each workflow, the requests that hold it
  ledger        \* for each workflow, its versions

ledgerVars == <<holders, ledger>>

Entry == [status : {"DRAFT", "APPROVED", "REJECTED"}, passed : BOOLEAN]

LedgerInit ==
  /\ holders = [w \in Workflows |-> {}]
  /\ ledger = [w \in Workflows |-> <<>>]

Claim(p, w) ==
  /\ holders[w] = {}
  /\ holders' = [holders EXCEPT ![w] = {p}]
  /\ UNCHANGED ledger

Release(w) ==
  /\ holders[w] # {}
  /\ holders' = [holders EXCEPT ![w] = {}]
  /\ UNCHANGED ledger

\* The backend dies.
ReleaseAll ==
  /\ holders' = [w \in Workflows |-> {}]
  /\ UNCHANGED ledger

AddVersion(w) ==
  /\ holders[w] # {}
  /\ \E passed \in BOOLEAN :
       ledger' = [ledger EXCEPT ![w] = Append(@, [status |-> "DRAFT", passed |-> passed])]
  /\ UNCHANGED holders

MayApprove(w, v) ==
  /\ ledger[w][v].passed
  /\ \A other \in DOMAIN ledger[w] : ledger[w][other].status = "APPROVED" => other = v

DecideVersion(w, v) ==
  /\ \E decision \in {"APPROVED", "REJECTED"} :
       /\ decision = "APPROVED" => MayApprove(w, v)
       /\ ledger' = [ledger EXCEPT ![w][v].status = decision]
  /\ UNCHANGED holders

LedgerNext ==
  \/ \E w \in Workflows :
       \/ \E p \in Planners : Claim(p, w)
       \/ Release(w) \/ AddVersion(w)
       \/ \E v \in DOMAIN ledger[w] : DecideVersion(w, v)
  \/ ReleaseAll

LedgerSpec == LedgerInit /\ [][LedgerNext]_ledgerVars

\* A holder does not keep its workflow for ever.
LedgerFairSpec == LedgerSpec /\ \A w \in Workflows : WF_ledgerVars(Release(w))

=============================================================================
