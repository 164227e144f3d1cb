-------------------------- MODULE RunWorkflow_proofs --------------------------
(***************************************************************************)
(* Theorems about RunWorkflow, for any people, rows, artifacts and bound.  *)
(***************************************************************************)
EXTENDS RunWorkflow, TLAPS

\* Every request and every external write keeps the variables in their types.
LEMMA TypeStep == TypeOK /\ [Next]_vars => TypeOK'
<1> SUFFICES ASSUME TypeOK, [Next]_vars PROVE TypeOK'
    OBVIOUS
<1> USE WorkflowAssumption DEF TypeOK
<1>1. ASSUME NEW u \in User, Open(u) PROVE TypeOK'
    BY <1>1 DEF Open
<1>2. ASSUME NEW u \in User, Refused(u) PROVE TypeOK'
    BY <1>2 DEF Refused, Answered
<1>3. ASSUME NEW u \in User, NEW to \in RunState, Transition(u, to) PROVE TypeOK'
    <2>1. version' \in 1 .. MaxVersion
        BY <1>3 DEF Transition
    <2>2. token' \in [User -> 0 .. MaxVersion]
        BY <1>3 DEF Transition, Answered
    <2> QED BY <1>3, <2>1, <2>2 DEF Transition
<1>4. ASSUME NEW u \in User, NEW a \in Approval, NEW d \in Decision, Decide(u, a, d)
      PROVE  TypeOK'
    <2>1. version' \in 1 .. MaxVersion
        BY <1>4 DEF Decide
    <2>2. review' \in [Artifact -> Review \cup {"none"}]
        BY <1>4 DEF Decide, Review
    <2>3. token' \in [User -> 0 .. MaxVersion]
        BY <1>4 DEF Decide, Answered
    <2> QED BY <1>4, <2>1, <2>2, <2>3 DEF Decide
<1>5. ASSUME NEW a \in Approval, RequestApproval(a) PROVE TypeOK'
    BY <1>5 DEF RequestApproval, Decision
<1>6. ASSUME NEW x \in Artifact, RegisterArtifact(x) PROVE TypeOK'
    BY <1>6 DEF RegisterArtifact, Review
<1>7. CASE RecordQA
    BY <1>7 DEF RecordQA
<1>8. CASE UNCHANGED vars
    BY <1>8 DEF vars
<1> QED BY <1>1, <1>2, <1>3, <1>4, <1>5, <1>6, <1>7, <1>8 DEF Next, External, Request

\* A draft run is well typed.
LEMMA TypeInit == Init => TypeOK
<1> SUFFICES ASSUME Init PROVE TypeOK
    OBVIOUS
<1>1. state \in RunState
    BY DEF Init, RunState
<1>2. version \in 1 .. MaxVersion /\ token \in [User -> 0 .. MaxVersion]
    BY WorkflowAssumption DEF Init
<1> QED BY <1>1, <1>2 DEF Init, TypeOK

\* The variables of RunWorkflow always have their types.
THEOREM TypeCorrect == Spec => []TypeOK
BY TypeInit, TypeStep, PTL DEF Spec

-----------------------------------------------------------------------------
\* A decided row stays as it was decided: decide_approval takes pending rows
\* only, and nothing else writes a decision.
LEMMA DecidedStays ==
    ASSUME TypeOK, [Next]_vars, NEW a \in Approval, a \in Decided
    PROVE  a \in Decided' /\ decision'[a] = decision[a] /\ reviewer'[a] = reviewer[a]
<1> USE DEF TypeOK, Decided
<1>1. ASSUME NEW u \in User, Request(u) PROVE decision'[a] = decision[a] /\ reviewer'[a] = reviewer[a]
    BY <1>1 DEF Request, Open, Refused, Transition, Decide
<1>2. CASE External
    BY <1>2 DEF External, RequestApproval, RegisterArtifact, RecordQA
<1>3. CASE UNCHANGED vars
    BY <1>3 DEF vars
<1> QED BY <1>1, <1>2, <1>3 DEF Next

\* Two reviewers of one approval row: the first decision is final.
THEOREM DecisionsFinal == Spec => DecisionsAreFinal
<1>1. TypeOK /\ [Next]_vars =>
        [\A a \in Approval : a \in Decided =>
            decision'[a] = decision[a] /\ reviewer'[a] = reviewer[a]]_vars
    BY DecidedStays
<1> QED BY <1>1, TypeCorrect, PTL DEF Spec, DecisionsAreFinal

\* An approval of a gate is never lost.
LEMMA ApprovalStays ==
    ASSUME TypeOK, [Next]_vars, NEW gate, HasApproval(gate)
    PROVE  HasApproval(gate)'
<1>1. PICK a \in Approval : GateOf[a] = gate /\ decision[a] = "approved"
    BY DEF HasApproval
<1>2. decision'[a] = "approved"
    BY <1>1, DecidedStays DEF Decided
<1> QED BY <1>1, <1>2 DEF HasApproval

-----------------------------------------------------------------------------
\* What a transition changes, for the lemmas about the other variables.
LEMMA MoveOrNot ==
    ASSUME TypeOK, [Next]_vars
    PROVE  \/ state' = state /\ visited' = visited
           \/ /\ \E u \in User, to \in RunState : Transition(u, to)
              /\ state' \in Allowed[state]
              /\ Guard(state')
              /\ visited' = visited \cup {state'}
              /\ UNCHANGED <<decision, reviewer, review>>
<1>1. ASSUME NEW u \in User, Request(u)
      PROVE  \/ state' = state /\ visited' = visited
             \/ \E to \in RunState : Transition(u, to)
    BY <1>1 DEF Request, Open, Refused, Decide
<1>2. ASSUME NEW u \in User, NEW to \in RunState, Transition(u, to)
      PROVE  /\ state' \in Allowed[state]
             /\ Guard(state')
             /\ visited' = visited \cup {state'}
             /\ UNCHANGED <<decision, reviewer, review>>
    BY <1>2 DEF Transition
<1>3. CASE External \/ UNCHANGED vars
    BY <1>3 DEF External, RequestApproval, RegisterArtifact, RecordQA, vars
<1> QED BY <1>1, <1>2, <1>3 DEF Next

\* A decided row's reviewer had the authority for its gate.
LEMMA AuthorityStep == IInv /\ [Next]_vars => Authority'
<1> SUFFICES ASSUME IInv, [Next]_vars, NEW b \in Approval, b \in Decided'
             PROVE  reviewer'[b] # Nobody /\ CanApproveGate(Who[reviewer'[b]], GateOf[b])
    BY DEF Authority, Decided
<1> USE DEF IInv
<1>1. CASE b \in Decided
    BY <1>1, DecidedStays DEF Authority
<1>2. CASE b \notin Decided
    <2>1. PICK u \in User, d \in Decision : Decide(u, b, d)
        BY <1>2 DEF Next, Request, External, Open, Refused, Transition, Decide, Decided, TypeOK,
                     RequestApproval, RegisterArtifact, RecordQA, vars
    <2>2. reviewer'[b] = u
        BY <2>1 DEF Decide, TypeOK
    <2> QED BY <2>1, <2>2, WorkflowAssumption DEF Decide
<1> QED BY <1>1, <1>2

\* The audit trail names the state the run is in and the ones it came by.
LEMMA TrailStep == IInv /\ [Next]_vars => Trail'
<1> SUFFICES ASSUME IInv, [Next]_vars PROVE Trail'
    OBVIOUS
<1> USE DEF IInv, Trail, TypeOK
<1>1. CASE state' = state /\ visited' = visited
    BY <1>1
<1>2. CASE state' \in Allowed[state] /\ visited' = visited \cup {state'}
    <2>1. state' = "APPROVED" => state = "PACKAGED"
        BY <1>2 DEF Allowed, RunState
    <2>2. state' = "PACKAGED" => state = "FINAL_QA"
        BY <1>2 DEF Allowed, RunState
    <2> QED BY <1>2, <2>1, <2>2
<1> QED BY <1>1, <1>2, MoveOrNot

\* A run comes to APPROVED with a package approval, and keeps it.
LEMMA SignOffStep == IInv /\ [Next]_vars => SignOffStands'
<1> SUFFICES ASSUME IInv, [Next]_vars, state' = "APPROVED"
             PROVE  \E a \in Approval :
                        /\ GateOf[a] = "package" /\ decision'[a] = "approved"
                        /\ reviewer'[a] # Nobody
                        /\ CanApproveGate(Who[reviewer'[a]], "package")
    BY DEF SignOffStands
<1>1. HasApproval("package")'
    <2>1. CASE state = "APPROVED"
        BY <2>1, ApprovalStays DEF IInv, Safety, SignOffStands, HasApproval
    <2>2. CASE state # "APPROVED"
        <3>1. /\ state' \in Allowed[state]
              /\ Guard(state')
            BY <2>2, MoveOrNot DEF IInv
        <3>2. state = "PACKAGED"
            BY <3>1 DEF Allowed, RunState, IInv, TypeOK
        <3>3. HasApproval("package")
            BY <3>1, <3>2 DEF Guard
        <3> QED BY <3>3, ApprovalStays DEF IInv
    <2> QED BY <2>1, <2>2
<1> QED BY <1>1, AuthorityStep DEF HasApproval, Authority, Decided

\* A risky artifact is approved by its own row, and that row by an administrator.
LEMMA RiskStep == IInv /\ [Next]_vars => RiskApprovedByAdmin'
<1> SUFFICES ASSUME IInv, [Next]_vars, NEW x \in Artifact, review'[x] = "approved"
             PROVE  \E a \in Approval :
                        /\ Target[a] = x /\ decision'[a] = "approved"
                        /\ reviewer'[a] # Nobody /\ IsAdmin(Who[reviewer'[a]])
    BY DEF RiskApprovedByAdmin
<1>1. ASSUME NEW a \in Approval, Target[a] = x, decision'[a] = "approved"
      PROVE  reviewer'[a] # Nobody /\ IsAdmin(Who[reviewer'[a]])
    <2>1. GateOf[a] = "high_risk"
        BY <1>1, WorkflowAssumption
    <2>2. a \in Decided'
        BY <1>1 DEF Decided
    <2> QED BY <2>1, <2>2, AuthorityStep DEF Authority, CanApproveGate, IsAdmin
<1>2. CASE review[x] = "approved"
    <2>1. PICK a \in Approval : Target[a] = x /\ decision[a] = "approved"
        BY <1>2 DEF IInv, Safety, RiskApprovedByAdmin
    <2>2. decision'[a] = "approved"
        BY <2>1, DecidedStays DEF Decided, IInv
    <2> QED BY <1>1, <2>1, <2>2
<1>3. CASE review[x] # "approved"
    <2>1. PICK u \in User, a \in Approval, d \in Decision : Decide(u, a, d)
        BY <1>3 DEF Next, Request, External, Open, Refused, Transition, IInv, TypeOK,
                     RequestApproval, RegisterArtifact, RecordQA, vars
    <2>2. x = Target[a] /\ d = "approved"
        BY <1>3, <2>1 DEF Decide
    <2>3. decision'[a] = "approved"
        BY <2>1, <2>2 DEF Decide, IInv, TypeOK
    <2> QED BY <1>1, <2>2, <2>3
<1> QED BY <1>2, <1>3

\* Without a detour the only ways past a gate are through its guard.
LEMMA GatedStep == IInv /\ [Next]_vars => StraightRunIsGated'
<1> SUFFICES ASSUME IInv, [Next]_vars, ~Detoured'
             PROVE  /\ state' \in PastGate1 => HasApproval("gate_1")'
                    /\ state' \in PastGate2 => HasApproval("gate_2")'
    BY DEF StraightRunIsGated
<1> USE DEF IInv
<1>1. ~Detoured
    BY MoveOrNot DEF Detoured
<1>2. state \in PastGate1 => HasApproval("gate_1")'
    BY <1>1, ApprovalStays DEF Safety, StraightRunIsGated
<1>3. state \in PastGate2 => HasApproval("gate_2")'
    BY <1>1, ApprovalStays DEF Safety, StraightRunIsGated
<1>4. CASE state' = state
    BY <1>2, <1>3, <1>4
<1>5. CASE state' \in Allowed[state] /\ Guard(state')
    <2>1. state \notin {"FAILED", "REVISION_REQUESTED"}
        BY <1>1 DEF Trail, Detoured
    <2>2. state' \in PastGate1 => state \in PastGate1 \cup {"GATE_1_REVIEW"}
        BY <1>5, <2>1 DEF Allowed, RunState, PastGate1, TypeOK
    <2>3. state = "GATE_1_REVIEW" /\ state' \in PastGate1 => state' = "PLANNING"
        BY <1>5 DEF Allowed, PastGate1
    <2>4. state' \in PastGate2 => state \in PastGate2 \cup {"GATE_2_REVIEW"}
        BY <1>5, <2>1 DEF Allowed, RunState, PastGate2, TypeOK
    <2>5. state = "GATE_2_REVIEW" /\ state' \in PastGate2 => state' = "FINAL_QA"
        BY <1>5 DEF Allowed, PastGate2
    <2>6. state = "GATE_1_REVIEW" /\ state' = "PLANNING" => HasApproval("gate_1")'
        BY <1>5, ApprovalStays DEF Guard
    <2>7. state = "GATE_2_REVIEW" /\ state' = "FINAL_QA" => HasApproval("gate_2")'
        BY <1>5, ApprovalStays DEF Guard
    <2> QED BY <1>2, <1>3, <2>2, <2>3, <2>4, <2>5, <2>6, <2>7
<1> QED BY <1>4, <1>5, MoveOrNot

\* The inductive invariant: types, authority, the trail, and the four
\* safety properties.
THEOREM Inductive == Spec => []IInv
<1>1. Init => IInv
    <2> SUFFICES ASSUME Init PROVE IInv
        OBVIOUS
    <2>1. TypeOK
        BY TypeInit
    <2> QED BY <2>1 DEF Init, IInv, Authority, Trail, Safety, Decided, SignOffStands,
                        RiskApprovedByAdmin, StraightRunIsGated, QaNeverBypassed,
                        PastGate1, PastGate2
<1>2. IInv /\ [Next]_vars => IInv'
    <2>1. IInv /\ [Next]_vars => TypeOK'
        BY TypeStep DEF IInv
    <2>2. IInv /\ [Next]_vars => QaNeverBypassed'
        BY TrailStep DEF QaNeverBypassed, Trail
    <2> QED BY <2>1, <2>2, AuthorityStep, TrailStep, SignOffStep, RiskStep, GatedStep
            DEF IInv, Safety
<1> QED BY <1>1, <1>2, PTL DEF Spec

\* A run in APPROVED always has a package approval from somebody entitled to it.
THEOREM SignOff == Spec => []SignOffStands
BY Inductive, PTL DEF IInv, Safety

\* An approved risky artifact always has an administrator's approval.
THEOREM RiskApproved == Spec => []RiskApprovedByAdmin
BY Inductive, PTL DEF IInv, Safety

\* A run that never failed and was never sent back is past no gate unapproved.
THEOREM StraightGates == Spec => []StraightRunIsGated
BY Inductive, PTL DEF IInv, Safety

\* Final QA comes before every package, and a package before every approval.
THEOREM QaFirst == Spec => []QaNeverBypassed
BY Inductive, PTL DEF IInv, Safety

-----------------------------------------------------------------------------
(* RunWorkflow implements VersionedRow.                                    *)

\* Every step is a step of the versioned row, or leaves all of it alone.
LEMMA RowStep == TypeOK /\ [Next]_vars => [Row!VNext]_(Row!vvars)
<1> SUFFICES ASSUME TypeOK, [Next]_vars PROVE [Row!VNext]_(Row!vvars)
    OBVIOUS
<1> DEFINE rows == [a \in Decided |-> <<decision[a], reviewer[a]>>]
<1>1. ASSUME NEW u \in User, Open(u) PROVE Row!Load(u)
    BY <1>1 DEF Open, Row!Load, Decided
<1>2. ASSUME NEW u \in User, Refused(u) PROVE Row!Drop(u)
    BY <1>2 DEF Refused, Answered, Row!Drop, Decided
<1>3. ASSUME NEW u \in User, NEW to \in RunState, Transition(u, to) PROVE Row!Commit(u)
    BY <1>3 DEF Transition, Current, Answered, Row!Commit
<1>4. ASSUME NEW u \in User, NEW a \in Approval, NEW d \in Decision, Decide(u, a, d)
      PROVE  Row!Commit(u)
    BY <1>4 DEF Decide, Current, Answered, Row!Commit
<1>5. CASE External
    <2>1. UNCHANGED <<state, version, token>>
        BY <1>5 DEF External, RequestApproval, RegisterArtifact, RecordQA
    <2>2. Decided' = Decided
        BY <1>5 DEF External, RequestApproval, RegisterArtifact, RecordQA, Decided, TypeOK
    <2>3. \A a \in Decided : decision'[a] = decision[a] /\ reviewer'[a] = reviewer[a]
        BY DecidedStays DEF Decided
    <2>4. rows' = rows
        BY <2>2, <2>3
    <2> QED BY <2>1, <2>4 DEF Row!vvars
<1>6. CASE UNCHANGED vars
    BY <1>6 DEF vars, Row!vvars, Decided
<1> QED BY <1>1, <1>2, <1>3, <1>4, <1>5, <1>6 DEF Next, Request, Row!VNext

\* The two services are version-checked writes to one row: at most one request
\* takes effect from any version of the run.
THEOREM Refines == Spec => VersionChecked
<1>1. Init => Row!VInit
    BY DEF Init, Row!VInit
<1> QED BY <1>1, RowStep, TypeCorrect, PTL DEF Spec, VersionChecked, Row!VSpec
=============================================================================
