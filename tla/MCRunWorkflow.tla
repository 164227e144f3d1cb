---------------------------- MODULE MCRunWorkflow ----------------------------
(* Small instances of RunWorkflow for TLC.                                 *)
EXTENDS RunWorkflow, TLC

\* An administrator, an analyst who manages the project, a client reviewer.
MCWho ==
    [u \in User |->
        CASE u = "admin" -> [role |-> "agency_admin", member |-> "none"]
          [] u = "ana"   -> [role |-> "analyst", member |-> "analyst"]
          [] u = "rev"   -> [role |-> "client_reviewer", member |-> "client_reviewer"]]

\* One row per gate and a risky artifact with its own approval.
MCGateOf == [g1 |-> "gate_1", g2 |-> "gate_2", risk |-> "high_risk", pack |-> "package"]
MCTarget == [g1 |-> "none", g2 |-> "none", risk |-> "redirects", pack |-> "none"]

\* A gate's rows are requested while the run is under that gate's review;
\* risky artifacts are reviewed from final QA on.
MCOpensIn ==
    [gate_1 |-> {"GATE_1_REVIEW"}, gate_2 |-> {"GATE_2_REVIEW"},
     high_risk |-> {"FINAL_QA", "PACKAGED"}, package |-> {"PACKAGED"}]
=============================================================================
