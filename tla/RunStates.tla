------------------------------ MODULE RunStates ------------------------------
(***************************************************************************)
(* The vocabulary every module about an AuditRun shares: the run states,   *)
(* the transition table of app/domain/workflow.py, the approval gates and  *)
(* the role rules of app/domain/permissions.py.                            *)
(***************************************************************************)
EXTENDS Naturals

RunState ==
    {"DRAFT", "COLLECTING", "AUDITING", "GATE_1_REVIEW", "PLANNING",
     "GENERATING", "GATE_2_REVIEW", "FINAL_QA", "PACKAGED", "APPROVED",
     "REVISION_REQUESTED", "FAILED", "CANCELLED"}

\* ALLOWED_TRANSITIONS: what a person may ask transition_run for.
Allowed ==
    [DRAFT              |-> {"COLLECTING", "CANCELLED"},
     COLLECTING         |-> {"AUDITING", "FAILED", "CANCELLED"},
     AUDITING           |-> {"GATE_1_REVIEW", "FAILED", "CANCELLED"},
     GATE_1_REVIEW      |-> {"PLANNING", "REVISION_REQUESTED", "CANCELLED"},
     PLANNING           |-> {"GENERATING", "FAILED", "CANCELLED"},
     GENERATING         |-> {"GATE_2_REVIEW", "FAILED", "CANCELLED"},
     GATE_2_REVIEW      |-> {"FINAL_QA", "REVISION_REQUESTED", "CANCELLED"},
     FINAL_QA           |-> {"PACKAGED", "REVISION_REQUESTED", "FAILED", "CANCELLED"},
     PACKAGED           |-> {"APPROVED", "REVISION_REQUESTED"},
     REVISION_REQUESTED |-> {"PLANNING", "GENERATING", "FINAL_QA", "CANCELLED"},
     FAILED             |-> {"COLLECTING", "AUDITING", "PLANNING", "GENERATING",
                             "FINAL_QA", "CANCELLED"},
     APPROVED           |-> {},
     CANCELLED          |-> {}]

Terminal == {"APPROVED", "CANCELLED"}

Gate == {"gate_1", "gate_2", "high_risk", "package"}
Decision == {"pending", "approved", "revision_requested", "rejected"}
Review == {"draft", "approved", "revision_requested"}

-----------------------------------------------------------------------------
(* Who may do what.  A person is a record: a role, and the role of the     *)
(* active membership that covers the project ("none" without one).         *)
Role == {"agency_admin", "analyst", "client_reviewer"}
Person == [role : Role, member : {"none", "analyst", "client_reviewer"}]

IsAdmin(p) == p.role = "agency_admin"
CanAccess(p) == IsAdmin(p) \/ p.member # "none"
CanManage(p) == IsAdmin(p) \/ (p.role = "analyst" /\ p.member = "analyst")
CanReview(p) == CanAccess(p) /\ p.role \in Role
\* Mutant of CanApproveGate: risky artifacts are no exception.
CanApproveAnyGate(p, gate) == CanReview(p) /\ p.role \in {"agency_admin", "client_reviewer"}

CanApproveGate(p, gate) ==
    /\ CanReview(p)
    /\ p.role \in IF gate = "high_risk" THEN {"agency_admin"}
                                        ELSE {"agency_admin", "client_reviewer"}

\* The permission transition_run asks for, by target state.
MayMove(p, to) ==
    CASE to = "REVISION_REQUESTED" -> CanReview(p)
      [] to = "APPROVED"           -> CanApproveGate(p, "package")
      [] OTHER                     -> CanManage(p)
=============================================================================
