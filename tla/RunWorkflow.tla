----------------------------- MODULE RunWorkflow -----------------------------
(***************************************************************************)
(* One AuditRun as people drive it: transition_run and decide_approval of  *)
(* app/domain/workflow.py, called by the studio's views and by the API.    *)
(*                                                                         *)
(* Both services are one database transaction that holds the run's row     *)
(* lock, so each is one action.  What interleaves is the requests: a       *)
(* person reads the run, thinks, and sends back the version that was read  *)
(* (expected_version), while others do the same.                           *)
(*                                                                         *)
(* Approval rows, approval-required artifacts and QA rows are written by   *)
(* code outside src/ (fixtures, operators, an importer); the three         *)
(* external actions at the end say what the services rely on.              *)
(***************************************************************************)
EXTENDS RunStates, FiniteSets

CONSTANTS
    User,         \* the people who use the studio
    Who,          \* [User -> Person]: their role and membership
    Approval,     \* identities of the approval rows that may be requested
    GateOf,       \* [Approval -> Gate]
    OpensIn,      \* [Gate -> SUBSET RunState]: when a gate's rows are requested
    Artifact,     \* the approval-required artifacts of the run
    Target,       \* [Approval -> Artifact \cup {NoArtifact}]: the row's artifact
    NoArtifact,   \* an approval row without an artifact
    Nobody,       \* reviewed_by of an undecided row
    MaxVersion    \* bound on the run's version

ASSUME WorkflowAssumption ==
    /\ Who \in [User -> Person]
    /\ GateOf \in [Approval -> Gate]
    /\ OpensIn \in [Gate -> SUBSET RunState]
    /\ Target \in [Approval -> Artifact \cup {NoArtifact}]
    /\ \A a \in Approval : Target[a] # NoArtifact => GateOf[a] = "high_risk"
    /\ NoArtifact \notin Artifact
    /\ Nobody \notin User
    /\ MaxVersion \in Nat \ {0}

VARIABLES
    state,      \* AuditRun.state
    version,    \* AuditRun.version
    decision,   \* [Approval -> ...]: Approval.decision, "none" before the row exists
    reviewer,   \* [Approval -> ...]: Approval.reviewed_by
    review,     \* [Artifact -> ...]: Artifact.review_status, "none" before the row exists
    blocking,   \* is there a failed critical or high QA row?
    token,      \* [User -> Nat]: expected_version of the person's request, 0 for none
    visited     \* to_state of every run.transitioned audit event so far

vars ==
    <<state, version, decision, reviewer, review, blocking, token, visited>>

TypeOK ==
    /\ state \in RunState
    /\ version \in 1 .. MaxVersion
    /\ decision \in [Approval -> Decision \cup {"none"}]
    /\ reviewer \in [Approval -> User \cup {Nobody}]
    /\ review \in [Artifact -> Review \cup {"none"}]
    /\ blocking \in BOOLEAN
    /\ token \in [User -> 0 .. MaxVersion]
    /\ visited \subseteq RunState

Init ==
    /\ state = "DRAFT"
    /\ version = 1
    /\ decision = [a \in Approval |-> "none"]
    /\ reviewer = [a \in Approval |-> Nobody]
    /\ review = [x \in Artifact |-> "none"]
    /\ blocking = FALSE
    /\ token = [u \in User |-> 0]
    /\ visited = {}

-----------------------------------------------------------------------------
Decided == {a \in Approval : decision[a] \notin {"none", "pending"}}

\* Mutant of HasApproval: a row of the gate exists, decided or not.
HasRow(gate) == \E a \in Approval : GateOf[a] = gate /\ decision[a] # "none"

\* _has_approval: any approved row of the gate, whenever it was decided.
HasApproval(gate) == \E a \in Approval : GateOf[a] = gate /\ decision[a] = "approved"

\* Mutant of Guard: the second gate looks at the first one's rows.
GuardGate1Twice(to) ==
    /\ state = "GATE_1_REVIEW" /\ to = "PLANNING" => HasApproval("gate_1")
    /\ state = "GATE_2_REVIEW" /\ to = "FINAL_QA" => HasApproval("gate_1")
    /\ state = "PACKAGED" /\ to = "APPROVED" => HasApproval("package")

\* _guard_transition.
Guard(to) ==
    /\ state = "GATE_1_REVIEW" /\ to = "PLANNING" => HasApproval("gate_1")
    /\ state = "GATE_2_REVIEW" /\ to = "FINAL_QA" => HasApproval("gate_2")
    /\ state = "FINAL_QA" /\ to = "PACKAGED" =>
          /\ ~blocking
          /\ \A x \in Artifact : review[x] \in {"none", "approved"}
    /\ state = "PACKAGED" /\ to = "APPROVED" => HasApproval("package")

-----------------------------------------------------------------------------
(* Requests.                                                               *)

\* The person opens the run, and keeps the version for a later request.
Open(u) ==
    /\ token[u] = 0
    /\ token' = [token EXCEPT ![u] = version]
    /\ UNCHANGED <<state, version, decision, reviewer, review, blocking, visited>>

\* Whatever the answer, the request is over.
Answered(u) == token' = [token EXCEPT ![u] = 0]

\* Every error path of the two services: nothing is written.
Refused(u) ==
    /\ token[u] # 0
    /\ Answered(u)
    /\ UNCHANGED <<state, version, decision, reviewer, review, blocking, visited>>

\* Mutant of Current: any version the run has had will do.
NotFromTheFuture(u) == token[u] <= version

\* The version check both services make under the row lock.
Current(u) == token[u] = version

\* Mutant of Transition: the table is not consulted.
TransitionUnlisted(u, to) ==
    /\ token[u] # 0
    /\ Current(u)
    /\ state \notin Terminal
    /\ to # state
    /\ MayMove(Who[u], to)
    /\ Guard(to)
    /\ version < MaxVersion
    /\ state' = to
    /\ version' = version + 1
    /\ visited' = visited \cup {to}
    /\ Answered(u)
    /\ UNCHANGED <<decision, reviewer, review, blocking>>

\* transition_run.
Transition(u, to) ==
    /\ token[u] # 0
    /\ Current(u)
    /\ to \in Allowed[state]
    /\ MayMove(Who[u], to)
    /\ Guard(to)
    /\ version < MaxVersion
    /\ state' = to
    /\ version' = version + 1
    /\ visited' = visited \cup {to}
    /\ Answered(u)
    /\ UNCHANGED <<decision, reviewer, review, blocking>>

\* decide_approval, for a decision other than "pending".
Decide(u, a, d) ==
    /\ token[u] # 0
    /\ Current(u)
    /\ decision[a] = "pending"
    /\ d \in Decision \ {"pending"}
    /\ CanApproveGate(Who[u], GateOf[a])
    /\ version < MaxVersion
    /\ decision' = [decision EXCEPT ![a] = d]
    /\ reviewer' = [reviewer EXCEPT ![a] = u]
    /\ review' = [x \in Artifact |->
                     IF x # Target[a] THEN review[x]
                     ELSE IF d = "approved" THEN "approved" ELSE "revision_requested"]
    /\ version' = version + 1
    /\ Answered(u)
    /\ UNCHANGED <<state, blocking, visited>>

-----------------------------------------------------------------------------
(* External: rows other code writes, without touching the run row.         *)

\* A pending row.  It may name an artifact only once that artifact exists.
RequestApproval(a) ==
    /\ decision[a] = "none"
    /\ state \in OpensIn[GateOf[a]]
    /\ Target[a] # NoArtifact => review[Target[a]] # "none"
    /\ decision' = [decision EXCEPT ![a] = "pending"]
    /\ UNCHANGED <<state, version, reviewer, review, blocking, token, visited>>

\* An approval-required artifact is registered as a draft.
RegisterArtifact(x) ==
    /\ review[x] = "none"
    /\ review' = [review EXCEPT ![x] = "draft"]
    /\ UNCHANGED <<state, version, decision, reviewer, blocking, token, visited>>

\* A QA pass leaves, or clears, a critical or high failure.
RecordQA ==
    /\ blocking' = ~blocking
    /\ UNCHANGED <<state, version, decision, reviewer, review, token, visited>>

-----------------------------------------------------------------------------
Request(u) ==
    \/ Open(u)
    \/ Refused(u)
    \/ \E to \in RunState : Transition(u, to)
    \/ \E a \in Approval, d \in Decision : Decide(u, a, d)

External ==
    \/ \E a \in Approval : RequestApproval(a)
    \/ \E x \in Artifact : RegisterArtifact(x)
    \/ RecordQA

Next == External \/ \E u \in User : Request(u)

Spec == Init /\ [][Next]_vars

-----------------------------------------------------------------------------
(* Properties.                                                             *)

PastGate1 == {"PLANNING", "GENERATING", "GATE_2_REVIEW", "FINAL_QA", "PACKAGED", "APPROVED"}
PastGate2 == {"FINAL_QA", "PACKAGED", "APPROVED"}
Detoured == visited \cap {"FAILED", "REVISION_REQUESTED"} # {}

\* A run in APPROVED has, and keeps, a package approval decided by somebody
\* with the authority to give it: decide_approval may still be called on the
\* run's other rows after the run is finished.
SignOffStands ==
    state = "APPROVED" =>
        \E a \in Approval :
            /\ GateOf[a] = "package"
            /\ decision[a] = "approved"
            /\ reviewer[a] # Nobody
            /\ CanApproveGate(Who[reviewer[a]], "package")

\* A risky artifact that counts as approved was approved by an administrator,
\* and by an approval row that is about that very artifact.
RiskApprovedByAdmin ==
    \A x \in Artifact : review[x] = "approved" =>
        \E a \in Approval :
            /\ Target[a] = x
            /\ decision[a] = "approved"
            /\ reviewer[a] # Nobody
            /\ IsAdmin(Who[reviewer[a]])

\* As long as a run never failed and was never sent back, it is past a gate
\* only with that gate's approval on record.
StraightRunIsGated ==
    ~Detoured =>
        /\ state \in PastGate1 => HasApproval("gate_1")
        /\ state \in PastGate2 => HasApproval("gate_2")

\* Nobody reaches a package or its approval around final QA, whatever detours
\* the run took.
QaNeverBypassed ==
    /\ state \in {"PACKAGED", "APPROVED"} => "FINAL_QA" \in visited
    /\ state = "APPROVED" => "PACKAGED" \in visited

Safety == SignOffStands /\ RiskApprovedByAdmin /\ StraightRunIsGated /\ QaNeverBypassed

\* What makes Safety inductive: every decided row names a reviewer with the
\* authority for its gate, and the audit trail knows how the run got here.
Authority ==
    \A a \in Decided :
        /\ reviewer[a] # Nobody
        /\ CanApproveGate(Who[reviewer[a]], GateOf[a])
Trail ==
    /\ state # "DRAFT" => state \in visited
    /\ state = "APPROVED" => "PACKAGED" \in visited
    /\ "PACKAGED" \in visited => "FINAL_QA" \in visited
IInv == TypeOK /\ Authority /\ Trail /\ Safety

\* Two reviewers of one row: the first decision and its author are final.
DecisionsAreFinal ==
    [][\A a \in Approval : a \in Decided =>
          decision'[a] = decision[a] /\ reviewer'[a] = reviewer[a]]_vars

\* The services implement optimistic concurrency: what they write (the state
\* and the decided rows) changes only by commits against the current version.
Row == INSTANCE VersionedRow WITH
           Client <- User, version <- version, token <- token,
           row <- <<state, [a \in Decided |-> <<decision[a], reviewer[a]>>]>>
VersionChecked == Row!VSpec
=============================================================================
