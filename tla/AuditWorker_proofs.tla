-------------------------- MODULE AuditWorker_proofs --------------------------
(***************************************************************************)
(* Theorems about AuditWorker: for any number of workers and any bounds.   *)
(***************************************************************************)
EXTENDS AuditWorker, TLAPS

\* A new claim leaves the variables in their types.
LEMMA TypeClaim == ASSUME TypeOK, NEW w \in Worker, Claim(w) PROVE TypeOK'
<1> USE DEF TypeOK
<1>1. claims' \in Nat /\ pages' \subseteq 1 .. claims' /\ findings' \subseteq 1 .. claims'
    <2>1. claims' \in Nat /\ 1 .. claims \subseteq 1 .. claims'
        BY DEF Claim
    <2>2. pages' \subseteq pages /\ findings' \subseteq findings
        BY DEF Claim
    <2> QED BY <2>1, <2>2
<1>2. att' \in [Worker -> Nat] /\ mine' \in [Worker -> Nat]
    BY DEF Claim
<1>3. queue' \in [Task -> Nat]
    BY DEF Claim, Take, Task
<1>4. state' \in RunState /\ pc' \in [Worker -> {"idle"} \cup AuditStep \cup Follow]
    BY DEF Claim, Go, RunState, AuditStep
<1> QED BY <1>1, <1>2, <1>3, <1>4 DEF Claim, stages

\* Every step of the audit task keeps the variables in their types.  The claims
\* that have rows are claims that were made: the worker's own is one of them.
Claimed == \A w \in Worker : Auditing(w) => att[w] \in 1 .. claims
TInv == TypeOK /\ Claimed

LEMMA TypeAudit == ASSUME TInv, NEW w \in Worker, Audit(w) PROVE TypeOK'
<1> USE DEF TInv, TypeOK, row, stages, job, evidence
<1>1. CASE Claim(w)
    BY <1>1, TypeClaim
<1>2. CASE Ignore(w)
    BY <1>2 DEF Ignore, Take, Task
<1>3. CASE StartCollecting(w)
    BY <1>3 DEF StartCollecting, SetStage, Go, Stage, Status, AuditStep
<1>4. CASE InsertPages(w)
    <2>1. att[w] \in 1 .. claims
        BY <1>4 DEF InsertPages, Claimed, Auditing, AuditStep
    <2> QED BY <1>4, <2>1 DEF InsertPages, Go, AuditStep
<1>5. CASE FinishCollecting(w)
    BY <1>5 DEF FinishCollecting, SetStage, Go, Stage, Status, AuditStep
<1>6. CASE AdvanceAuditing(w)
    BY <1>6 DEF AdvanceAuditing, Done, Go, RunState, AuditStep
<1>7. CASE StartAuditing(w)
    BY <1>7 DEF StartAuditing, SetStage, Go, Stage, Status, AuditStep
<1>8. CASE InsertFindings(w)
    <2>1. att[w] \in 1 .. claims
        BY <1>8 DEF InsertFindings, Claimed, Auditing, AuditStep
    <2> QED BY <1>8, <2>1 DEF InsertFindings, Go, AuditStep
<1>9. CASE AdvanceGate(w)
    BY <1>9 DEF AdvanceGate, Done, Go, RunState, AuditStep
<1>10. CASE FinishAuditing(w)
    BY <1>10 DEF FinishAuditing, SetStage, Go, Stage, Status, AuditStep
<1>11. CASE Handover(w)
    <2>1. stage' \in [Stage -> Status]
        BY <1>11 DEF Handover, Status
    <2>2. queue' \in [Task -> Nat]
        BY <1>11 DEF Handover
    <2> QED BY <1>11, <2>1, <2>2 DEF Handover, Done, Go
<1>12. CASE Raise(w)
    BY <1>12 DEF Raise, Go, AuditStep
<1>13. CASE FailStage(w)
    BY <1>13 DEF FailStage, SetStage, Go, Status, AuditStep
<1>14. CASE FailRun(w)
    BY <1>14 DEF FailRun, Done, Go, RunState
<1> QED BY <1>1, <1>2, <1>3, <1>4, <1>5, <1>6, <1>7, <1>8, <1>9, <1>10, <1>11, <1>12,
           <1>13, <1>14 DEF Audit

\* So do the follow-up tasks and lost workers.
LEMMA TypeWorker ==
    ASSUME TypeOK, NEW w \in Worker, FollowUp(w) \/ Crash(w) PROVE TypeOK'
<1> USE AuditWorkerAssumption DEF TypeOK, row, stages, job, evidence
<1>1. ASSUME NEW t \in Follow, StartFollow(w, t) PROVE TypeOK'
    <2>1. t \in Stage /\ t \in Task
        BY DEF Stage, Task
    <2>2. queue' \in [Task -> Nat]
        BY <1>1, <2>1 DEF StartFollow, Take
    <2>3. stage' \in [Stage -> Status] /\ expired' \subseteq Stage
        BY <1>1, <2>1 DEF StartFollow, SetStage, Status
    <2> QED BY <1>1, <2>2, <2>3 DEF StartFollow, Go
<1>2. ASSUME NEW t \in Follow, SkipFollow(w, t) PROVE TypeOK'
    <2>1. t \in Stage /\ t \in Task
        BY DEF Stage, Task
    <2>2. queue' \in [Task -> Nat]
        BY <1>2, <2>1 DEF SkipFollow, Take
    <2>3. stage' \in [Stage -> Status] /\ expired' \subseteq Stage
        BY <1>2, <2>1 DEF SkipFollow, SetStage, Status
    <2> QED BY <1>2, <2>2, <2>3 DEF SkipFollow
<1>3. ASSUME NEW t \in Follow, EndFollow(w, t) PROVE TypeOK'
    <2>1. t \in Stage
        BY DEF Stage
    <2> QED BY <1>3, <2>1 DEF EndFollow, SetStage, Go, Status
<1>4. CASE Crash(w)
    <2>1. (IF pc[w] \in Follow THEN pc[w] ELSE "audit") \in Task
        BY DEF Task
    <2> QED BY <1>4, <2>1 DEF Crash, Send, Done, Go
<1> QED BY <1>1, <1>2, <1>3, <1>4 DEF FollowUp

\* And so do the scan and the people.
LEMMA TypeOthers == ASSUME TypeOK, Heartbeat \/ People PROVE TypeOK'
<1> USE DEF TypeOK, row, stages, job, evidence
<1>1. ASSUME NEW s \in Stage, Expire(s) PROVE TypeOK'
    BY <1>1 DEF Expire
<1>2. ASSUME NEW s \in Stage, Scan(s) PROVE TypeOK'
    <2>1. stage' \in [Stage -> Status] /\ expired' \subseteq Stage
        BY <1>2 DEF Scan, SetStage, Status
    <2>2. state' \in RunState /\ version' \in Nat
        BY <1>2 DEF Scan, RunState
    <2> QED BY <1>2, <2>1, <2>2 DEF Scan
<1>3. CASE Publish \/ PublishRaises \/ GiveUp
    <2>1. "audit" \in Task /\ "FAILED" \in RunState
        BY DEF Task, RunState
    <2>2. CASE Publish
        BY <2>1, <2>2 DEF Publish, Send
    <2>3. CASE PublishRaises
        BY <2>1, <2>3 DEF PublishRaises, Send
    <2>4. CASE GiveUp
        BY <2>1, <2>4 DEF GiveUp
    <2> QED BY <1>3, <2>2, <2>3, <2>4
<1>4. CASE Kick
    BY <1>4 DEF Kick, Send, Task
<1>5. CASE Redispatch
    BY <1>5 DEF Redispatch, Send, Task, Stage, Status
<1>6. CASE Decide
    BY <1>6 DEF Decide
<1>7. CASE Resume
    <2>1. state' = state \/ state' \in Allowed[state] \/ state' = "PLANNING"
        BY <1>7 DEF Resume
    <2>2. state' \in RunState
        BY <2>1 DEF Allowed, RunState
    <2>3. version' \in Nat /\ queue' \in [Task -> Nat]
        BY <1>7 DEF Resume, Send, Task
    <2> QED BY <1>7, <2>2, <2>3 DEF Resume
<1>8. ASSUME NEW to \in RunState, Move(to) PROVE TypeOK'
    BY <1>8 DEF Move
<1> QED BY <1>1, <1>2, <1>3, <1>4, <1>5, <1>6, <1>7, <1>8 DEF Heartbeat, People

-----------------------------------------------------------------------------
\* Nobody is allowed back to DRAFT.
LEMMA AllowedRuns == ASSUME NEW s \in RunState PROVE Allowed[s] \subseteq RunState \ {"DRAFT"}
BY DEF Allowed, RunState

(* Who changes what.                                                       *)

\* A worker's step is nothing to the other workers.
LEMMA WorkerFrame ==
    ASSUME TypeOK, NEW w \in Worker, Audit(w) \/ FollowUp(w) \/ Crash(w),
           NEW v \in Worker, v # w
    PROVE  pc'[v] = pc[v] /\ att'[v] = att[v] /\ mine'[v] = mine[v]
<1> USE DEF TypeOK, job, Go, Done
<1>1. CASE Claim(w) \/ Ignore(w) \/ StartCollecting(w) \/ InsertPages(w) \/ FinishCollecting(w)
    BY <1>1 DEF Claim, Ignore, StartCollecting, InsertPages, FinishCollecting
<1>2. CASE AdvanceAuditing(w) \/ StartAuditing(w) \/ InsertFindings(w) \/ AdvanceGate(w)
    BY <1>2 DEF AdvanceAuditing, StartAuditing, InsertFindings, AdvanceGate
<1>3. CASE FinishAuditing(w) \/ Handover(w) \/ Raise(w) \/ FailStage(w) \/ FailRun(w)
    BY <1>3 DEF FinishAuditing, Handover, Raise, FailStage, FailRun
<1>4. CASE FollowUp(w) \/ Crash(w)
    BY <1>4 DEF FollowUp, StartFollow, SkipFollow, EndFollow, Crash
<1> QED BY <1>1, <1>2, <1>3, <1>4 DEF Audit

\* The scan, the people and the passing of time do not touch workers or evidence.
LEMMA OthersFrame ==
    ASSUME Heartbeat \/ People \/ UNCHANGED vars
    PROVE  UNCHANGED <<pc, att, mine, claims, pages, findings>>
<1> USE DEF job, evidence
<1>1. CASE Heartbeat
    BY <1>1 DEF Heartbeat, Expire, Scan
<1>2. CASE People
    BY <1>2 DEF People, Publish, PublishRaises, GiveUp, Kick, Redispatch, Decide, Resume, Move
<1>3. CASE UNCHANGED vars
    BY <1>3 DEF vars
<1> QED BY <1>1, <1>2, <1>3

\* A worker that is in the audit task after its step has just claimed the run,
\* or was in the task before, with the same claim.
LEMMA AttemptStep ==
    ASSUME TypeOK, NEW w \in Worker, Audit(w) \/ FollowUp(w) \/ Crash(w), ~Claim(w)
    PROVE  claims' = claims /\ (Auditing(w)' => Auditing(w) /\ att'[w] = att[w])
<1> USE AuditWorkerAssumption DEF TypeOK, job, Go, Done, Auditing, AuditStep
<1>1. CASE Ignore(w) \/ StartCollecting(w) \/ InsertPages(w) \/ FinishCollecting(w)
    BY <1>1 DEF Ignore, StartCollecting, InsertPages, FinishCollecting
<1>2. CASE AdvanceAuditing(w) \/ StartAuditing(w) \/ InsertFindings(w) \/ AdvanceGate(w)
    BY <1>2 DEF AdvanceAuditing, StartAuditing, InsertFindings, AdvanceGate
<1>3. CASE FinishAuditing(w) \/ Handover(w) \/ Raise(w) \/ FailStage(w) \/ FailRun(w)
    BY <1>3 DEF FinishAuditing, Handover, Raise, FailStage, FailRun
<1>4. CASE FollowUp(w)
    <2>1. "idle" \notin AuditStep /\ Follow \cap AuditStep = {}
        OBVIOUS
    <2> QED BY <1>4, <2>1 DEF FollowUp, StartFollow, SkipFollow, EndFollow
<1>5. CASE Crash(w)
    BY <1>5 DEF Crash
<1> QED BY <1>1, <1>2, <1>3, <1>4, <1>5 DEF Audit

-----------------------------------------------------------------------------
\* A worker in the audit task has made one of the claims counted.
LEMMA ClaimedStep == ASSUME TInv, [Next]_vars PROVE Claimed'
<1> SUFFICES ASSUME NEW v \in Worker, Auditing(v)' PROVE att'[v] \in 1 .. claims'
    BY DEF Claimed
<1> USE DEF TInv, TypeOK, Claimed
<1>1. ASSUME NEW w \in Worker, Audit(w) \/ FollowUp(w) \/ Crash(w)
      PROVE  att'[v] \in 1 .. claims'
    <2>1. CASE Claim(w)
        <3>1. claims' = claims + 1 /\ att' = [att EXCEPT ![w] = claims + 1]
            BY <2>1 DEF Claim
        <3>2. CASE v = w
            BY <3>1, <3>2
        <3>3. CASE v # w
            BY <1>1, <3>1, <3>3, WorkerFrame DEF Auditing
        <3> QED BY <3>2, <3>3
    <2>2. CASE ~Claim(w)
        <3>1. claims' = claims
            BY <1>1, <2>2, AttemptStep
        <3>2. CASE v = w
            BY <1>1, <2>2, <3>1, <3>2, AttemptStep
        <3>3. CASE v # w
            BY <1>1, <3>1, <3>3, WorkerFrame DEF Auditing
        <3> QED BY <3>2, <3>3
    <2> QED BY <2>1, <2>2
<1>2. CASE Heartbeat \/ People \/ UNCHANGED vars
    BY <1>2, OthersFrame DEF Auditing
<1> QED BY <1>1, <1>2 DEF Next

\* The variables of AuditWorker always have their types.
LEMMA TypeInductive == Spec => []TInv
<1>1. Init => TInv
    <2>1. ASSUME Init PROVE TypeOK
        BY <2>1 DEF Init, TypeOK, RunState, Status
    <2>2. ASSUME Init PROVE Claimed
        BY <2>2 DEF Init, Claimed, Auditing, AuditStep
    <2> QED BY <2>1, <2>2 DEF TInv
<1>2. TInv /\ [Next]_vars => TInv'
    <2> SUFFICES ASSUME TInv, [Next]_vars PROVE TInv'
        OBVIOUS
    <2>1. Claimed'
        BY ClaimedStep
    <2>2. TypeOK'
        <3>1. CASE UNCHANGED vars
            BY <3>1 DEF TInv, TypeOK, vars, row, stages, job, evidence
        <3>2. CASE Next
            BY <3>2, TypeAudit, TypeWorker, TypeOthers DEF Next, TInv
        <3> QED BY <3>1, <3>2
    <2> QED BY <2>1, <2>2 DEF TInv
<1> QED BY <1>1, <1>2, PTL DEF Spec

THEOREM TypeCorrect == Spec => []TypeOK
BY TypeInductive, PTL DEF TInv

-----------------------------------------------------------------------------
(* Cancellation.                                                           *)

\* No worker's step leaves CANCELLED: the claim takes draft and failed runs, and
\* _advance_run excludes the state.
LEMMA WorkersRespectCancel ==
    ASSUME state = "CANCELLED", NEW w \in Worker, Audit(w) \/ FollowUp(w) \/ Crash(w)
    PROVE  state' = state
<1> USE DEF row
<1>1. CASE Claim(w) \/ Ignore(w) \/ StartCollecting(w) \/ InsertPages(w) \/ FinishCollecting(w)
    BY <1>1 DEF Claim, Claimable, Ignore, StartCollecting, InsertPages, FinishCollecting
<1>2. CASE AdvanceAuditing(w) \/ StartAuditing(w) \/ InsertFindings(w) \/ AdvanceGate(w)
    BY <1>2 DEF AdvanceAuditing, StartAuditing, InsertFindings, AdvanceGate
<1>3. CASE FinishAuditing(w) \/ Handover(w) \/ Raise(w) \/ FailStage(w) \/ FailRun(w)
    BY <1>3 DEF FinishAuditing, Handover, Raise, FailStage, FailRun
<1>4. CASE FollowUp(w) \/ Crash(w)
    BY <1>4 DEF FollowUp, StartFollow, SkipFollow, EndFollow, Crash
<1> QED BY <1>1, <1>2, <1>3, <1>4 DEF Audit

\* A user's cancel wins against the workers, the scan and other people.
THEOREM CancelHolds == Spec => CancelWins
<1>1. [Next]_vars =>
        [state = "CANCELLED" /\ state' # "CANCELLED" =>
            creator = "giving_up" /\ creator' = "done"]_vars
    <2> SUFFICES ASSUME [Next]_vars, state = "CANCELLED", state' # "CANCELLED"
                 PROVE  creator = "giving_up" /\ creator' = "done"
        OBVIOUS
    <2> USE DEF row
    <2>1. ASSUME NEW w \in Worker, Audit(w) \/ FollowUp(w) \/ Crash(w) PROVE FALSE
        BY <2>1, WorkersRespectCancel
    <2>2. CASE Heartbeat
        BY <2>2 DEF Heartbeat, Expire, Scan, Terminal
    <2>3. CASE People
        <3>1. CASE GiveUp
            BY <3>1 DEF GiveUp
        <3>2. CASE Publish \/ PublishRaises \/ Kick \/ Redispatch \/ Decide \/ Resume
            BY <3>2 DEF Publish, PublishRaises, Kick, Redispatch, Decide, Resume
        <3>3. ASSUME NEW to \in RunState, Move(to) PROVE FALSE
            BY <3>3 DEF Move, Allowed
        <3> QED BY <2>3, <3>1, <3>2, <3>3 DEF People
    <2>4. CASE UNCHANGED vars
        BY <2>4 DEF vars
    <2> QED BY <2>1, <2>2, <2>3, <2>4 DEF Next
<1> QED BY <1>1, PTL DEF Spec, CancelWins

-----------------------------------------------------------------------------
(* The clean slate.                                                        *)

\* A draft run was never claimed.
Fresh == state = "DRAFT" => claims = 0

LEMMA FreshStep == ASSUME TInv, Fresh, [Next]_vars PROVE Fresh'
<1> USE DEF row, Fresh
<1>1. ASSUME NEW w \in Worker, Audit(w) \/ FollowUp(w) \/ Crash(w) PROVE Fresh'
    <2>1. CASE Claim(w)
        BY <2>1 DEF Claim
    <2>2. CASE ~Claim(w)
        <3>1. claims' = claims
            BY <1>1, <2>2, AttemptStep DEF TInv
        <3>2. state' = state \/ state' \in {"AUDITING", "GATE_1_REVIEW", "FAILED"}
            <4>1. CASE Ignore(w) \/ StartCollecting(w) \/ InsertPages(w) \/ FinishCollecting(w)
                BY <4>1 DEF Ignore, StartCollecting, InsertPages, FinishCollecting
            <4>2. CASE AdvanceAuditing(w) \/ StartAuditing(w) \/ InsertFindings(w)
                    \/ AdvanceGate(w)
                BY <4>2 DEF AdvanceAuditing, StartAuditing, InsertFindings, AdvanceGate
            <4>3. CASE FinishAuditing(w) \/ Handover(w) \/ Raise(w) \/ FailStage(w) \/ FailRun(w)
                BY <4>3 DEF FinishAuditing, Handover, Raise, FailStage, FailRun
            <4>4. CASE FollowUp(w) \/ Crash(w)
                BY <4>4 DEF FollowUp, StartFollow, SkipFollow, EndFollow, Crash
            <4> QED BY <1>1, <2>2, <4>1, <4>2, <4>3, <4>4 DEF Audit
        <3> QED BY <3>1, <3>2
    <2> QED BY <2>1, <2>2
<1>2. ASSUME Heartbeat \/ People \/ UNCHANGED vars PROVE Fresh'
    <2>1. claims' = claims
        BY <1>2, OthersFrame
    <2>2. state' = "DRAFT" => state = "DRAFT"
        <3>1. CASE Heartbeat \/ UNCHANGED vars
            BY <3>1 DEF Heartbeat, Expire, Scan, vars
        <3>2. CASE Publish \/ PublishRaises \/ GiveUp \/ Kick \/ Redispatch \/ Decide
            BY <3>2 DEF Publish, PublishRaises, GiveUp, Kick, Redispatch, Decide
        <3>3. CASE Resume
            BY <3>3, AllowedRuns DEF Resume, TInv, TypeOK
        <3>4. ASSUME NEW to \in RunState, Move(to) PROVE state' # "DRAFT"
            BY <3>4, AllowedRuns DEF Move, TInv, TypeOK
        <3> QED BY <1>2, <3>1, <3>2, <3>3, <3>4 DEF People
    <2> QED BY <2>1, <2>2
<1> QED BY <1>1, <1>2 DEF Next

LEMMA FreshAlways == Spec => []Fresh
<1>1. Init => Fresh
    BY DEF Init, Fresh
<1> QED BY <1>1, FreshStep, TypeInductive, PTL DEF Spec

\* Whenever a worker claims the run, no page and no finding is left.
THEOREM SlateIsClean == Spec => CleanSlate
<1>1. TInv /\ Fresh /\ [Next]_vars => [claims' > claims => pages' = {} /\ findings' = {}]_vars
    <2> SUFFICES ASSUME TInv, Fresh, [Next]_vars, claims' > claims
                 PROVE  pages' = {} /\ findings' = {}
        OBVIOUS
    <2> USE DEF TInv, TypeOK
    <2>1. PICK w \in Worker : Claim(w)
        <3>1. ASSUME NEW w \in Worker, Audit(w) \/ FollowUp(w) \/ Crash(w), ~Claim(w) PROVE FALSE
            BY <3>1, AttemptStep
        <3>2. ASSUME Heartbeat \/ People \/ UNCHANGED vars PROVE FALSE
            BY <3>2, OthersFrame
        <3> QED BY <3>1, <3>2 DEF Next
    <2>2. CASE state = "FAILED"
        BY <2>1, <2>2 DEF Claim
    <2>3. CASE state = "DRAFT"
        <3>1. pages = {} /\ findings = {}
            BY <2>3 DEF Fresh
        <3> QED BY <2>1, <2>3, <3>1 DEF Claim
    <2> QED BY <2>1, <2>2, <2>3 DEF Claim, Claimable
<1> QED BY <1>1, TypeInductive, FreshAlways, PTL DEF Spec, CleanSlate
-----------------------------------------------------------------------------
(* One audit at a time.                                                    *)

\* The stages in RUNNING, and those a healthy worker has running at a step.
Running == {s \in Stage : stage[s] = "running"}
At(step) ==
    CASE step \in {"crawling", "inserting"} -> {"collecting"}
      [] step \in {"auditing", "scored", "reviewable"} -> {"auditing"}
      [] OTHER -> {}
Lone == {{}, {"collecting"}, {"auditing"}}

\* The rows a worker relies on at a step: those of its own claim, and no other.
Rows(step) ==
    /\ step \in {"claimed", "crawling"} => pages = {} /\ findings = {}
    /\ step \in {"inserting", "collected", "advanced"} => pages = {claims} /\ findings = {}
    /\ step \in {"auditing", "scored", "reviewable", "handover"} =>
          pages = {claims} /\ findings \subseteq {claims}

\* What a worker in the audit task may rely on: the run is not claimable, its
\* own claim is the last, its stage is the only one running and is not overdue.
Holds(w) ==
    Auditing(w) =>
        /\ state \notin {"DRAFT", "FAILED"}
        /\ att[w] = claims
        /\ Running \cap expired = {}
        /\ pc[w] # "failing" => Running = At(pc[w])
        /\ Rows(pc[w])

\* What holds with or without a worker: at most one stage was left running, and
\* none by the time the run can be claimed again.
Left ==
    /\ Running \in Lone
    /\ state \in {"DRAFT", "FAILED"} => Running = {}
    /\ creator # "giving_up"

QInv == OneAudit /\ (\A w \in Worker : Holds(w)) /\ Left /\ GateEvidence
Facts == TInv /\ Fresh /\ QInv

\* While one worker is in the audit task no other is, and none enters it; if the
\* run can be claimed, none is in it at all.
LEMMA Alone ==
    ASSUME Facts, NEW w \in Worker, Audit(w), ~Ignore(w), NEW v \in Worker, v # w
    PROVE  ~Auditing(v) /\ ~Auditing(v)'
<1> USE DEF Facts, QInv, TInv, TypeOK
<1>1. ~Auditing(v)
    <2>1. CASE Claim(w)
        BY <2>1 DEF Claim, Claimable, Holds
    <2>2. CASE ~Claim(w)
        <3>1. Auditing(w)
            BY <2>2 DEF Audit, StartCollecting, InsertPages, FinishCollecting, AdvanceAuditing,
               StartAuditing, InsertFindings, AdvanceGate, FinishAuditing, Handover, Raise,
               FailStage, FailRun, Auditing, AuditStep
        <3> QED BY <3>1 DEF OneAudit
    <2> QED BY <2>1, <2>2
<1>2. pc'[v] = pc[v]
    BY WorkerFrame
<1> QED BY <1>1, <1>2 DEF Auditing

\* So it is enough to look at the worker that made the step.
LEMMA AloneIsEnough ==
    ASSUME Facts, NEW w \in Worker, Audit(w), ~Ignore(w), Holds(w)', Left', GateEvidence'
    PROVE  QInv'
<1>1. \A v \in Worker : v # w => ~Auditing(v)'
    BY Alone
<1>2. OneAudit'
    BY <1>1 DEF OneAudit
<1>3. ASSUME NEW v \in Worker PROVE Holds(v)'
    BY <1>1 DEF Holds
<1> QED BY <1>2, <1>3 DEF QInv

\* What SetStage does to the running stages.
LEMMA SetStageRuns ==
    ASSUME TypeOK, NEW s \in Stage, NEW status \in Status, SetStage(s, status)
    PROVE  /\ Running' = IF status = "running" THEN Running \cup {s} ELSE Running \ {s}
           /\ expired' = expired \ {s}
BY DEF SetStage, Running, TypeOK

\* The steps that only insert rows or move on.
LEMMA QuietRows ==
    ASSUME Facts, NEW w \in Worker, InsertPages(w) \/ InsertFindings(w) \/ Raise(w)
    PROVE  QInv'
<1> USE DEF Facts, TInv, TypeOK, QInv, row, stages, job, evidence
<1>1. Audit(w) /\ ~Ignore(w)
    BY DEF Audit, Ignore, InsertPages, InsertFindings, Raise, AuditStep
<1>2. UNCHANGED <<state, stage, expired, att, claims, creator>>
    BY DEF InsertPages, InsertFindings, Raise
<1>3. Running' = Running
    BY <1>2 DEF Running
<1>4. Left'
    BY <1>2, <1>3 DEF Left
<1>5. CASE InsertPages(w)
    <2>1. pc[w] = "crawling" /\ Auditing(w)
        BY <1>5 DEF InsertPages, Auditing, AuditStep
    <2>2. pages = {} /\ findings = {} /\ att[w] = claims /\ Running = {"collecting"}
        BY <2>1 DEF Holds, Rows, At
    <2>3. pages' = {claims} /\ findings' = {} /\ pc'[w] = "inserting"
        BY <1>5, <2>2 DEF InsertPages, Go
    <2>4. Holds(w)'
        BY <1>2, <1>3, <2>1, <2>2, <2>3 DEF Holds, Rows, At
    <2>5. GateEvidence'
        BY <1>2, <2>3 DEF GateEvidence
    <2> QED BY <1>1, <1>4, <2>4, <2>5, AloneIsEnough
<1>6. CASE InsertFindings(w)
    <2>1. pc[w] = "auditing" /\ Auditing(w)
        BY <1>6 DEF InsertFindings, Auditing, AuditStep
    <2>2. pages = {claims} /\ findings \subseteq {claims} /\ att[w] = claims
          /\ Running = {"auditing"}
        BY <2>1 DEF Holds, Rows, At
    <2>3. pages' = {claims} /\ findings' = {claims} /\ pc'[w] = "scored"
        BY <1>6, <2>2 DEF InsertFindings, Go
    <2>4. Holds(w)'
        BY <1>2, <1>3, <2>1, <2>2, <2>3 DEF Holds, Rows, At
    <2>5. GateEvidence'
        BY <1>2, <2>3 DEF GateEvidence
    <2> QED BY <1>1, <1>4, <2>4, <2>5, AloneIsEnough
<1>7. CASE Raise(w)
    <2>1. Auditing(w) /\ pc'[w] = "failing" /\ UNCHANGED <<pages, findings>>
        BY <1>7 DEF Raise, Go, Auditing
    <2>2. Holds(w)'
        BY <1>2, <1>3, <2>1 DEF Holds, Rows
    <2>3. GateEvidence'
        BY <1>2, <2>1 DEF GateEvidence
    <2> QED BY <1>1, <1>4, <2>2, <2>3, AloneIsEnough
<1> QED BY <1>5, <1>6, <1>7
\* A claim, of a run that has no rows left and nothing running.
LEMMA QuietClaim == ASSUME Facts, NEW w \in Worker, Claim(w) PROVE QInv'
<1> USE DEF Facts, TInv, TypeOK, QInv, row, stages, job, evidence
<1>1. Audit(w) /\ ~Ignore(w)
    BY DEF Audit, Ignore, Claim
<1>2. pages' = {} /\ findings' = {}
    <2>1. CASE state = "FAILED"
        BY <2>1 DEF Claim
    <2>2. CASE state = "DRAFT"
        <3>1. pages = {} /\ findings = {}
            BY <2>2 DEF Fresh
        <3> QED BY <2>2, <3>1 DEF Claim
    <2> QED BY <2>1, <2>2 DEF Claim, Claimable
<1>3. Running = {} /\ Running' = Running /\ expired' = expired /\ creator' = creator
    BY DEF Claim, Claimable, Left, Running
<1>4. state' = "COLLECTING" /\ pc'[w] = "claimed" /\ att'[w] = claims'
    BY DEF Claim, Go
<1>5. Holds(w)'
    BY <1>2, <1>3, <1>4 DEF Holds, Rows, At
<1>6. Left' /\ GateEvidence'
    BY <1>3, <1>4 DEF Left, Lone, GateEvidence
<1> QED BY <1>1, <1>5, <1>6, AloneIsEnough

\* The writes of the stage row.
LEMMA QuietStages ==
    ASSUME Facts, NEW w \in Worker,
           \/ StartCollecting(w) \/ FinishCollecting(w) \/ StartAuditing(w)
           \/ FinishAuditing(w) \/ FailStage(w)
    PROVE  QInv'
<1> USE DEF Facts, TInv, TypeOK, QInv, row, stages, job, evidence
<1>1. Audit(w) /\ ~Ignore(w) /\ Auditing(w)
    BY DEF Audit, Ignore, StartCollecting, FinishCollecting, StartAuditing, FinishAuditing,
       FailStage, Auditing, AuditStep
<1>2. UNCHANGED <<state, att, claims, creator, pages, findings>>
    BY DEF StartCollecting, FinishCollecting, StartAuditing, FinishAuditing, FailStage
<1>3. GateEvidence'
    BY <1>2 DEF GateEvidence
<1>4. Running \cap expired = {} /\ Rows(pc[w]) /\ state \notin {"DRAFT", "FAILED"}
    BY <1>1 DEF Holds
<1>5. {"collecting", "auditing"} \subseteq Stage /\ {"running", "succeeded", "failed"} \subseteq Status
    BY DEF Stage, Status
<1>6. CASE StartCollecting(w)
    <2>1. pc[w] = "claimed" /\ pc'[w] = "crawling" /\ Running = {}
        BY <1>1, <1>6 DEF StartCollecting, Go, Holds, At
    <2>2. Running' = {"collecting"} /\ expired' = expired \ {"collecting"}
        BY <1>5, <1>6, <2>1, SetStageRuns DEF StartCollecting
    <2>3. Holds(w)'
        BY <1>1, <1>2, <1>4, <2>1, <2>2 DEF Holds, Rows, At
    <2> QED BY <1>1, <1>2, <1>3, <1>4, <2>2, <2>3, AloneIsEnough DEF Left, Lone
<1>7. CASE FinishCollecting(w)
    <2>1. pc[w] = "inserting" /\ pc'[w] = "collected" /\ Running = {"collecting"}
        BY <1>1, <1>7 DEF FinishCollecting, Go, Holds, At
    <2>2. Running' = {}
        BY <1>5, <1>7, <2>1, SetStageRuns DEF FinishCollecting
    <2>3. Holds(w)'
        BY <1>1, <1>2, <1>4, <2>1, <2>2 DEF Holds, Rows, At
    <2> QED BY <1>1, <1>2, <1>3, <1>4, <2>2, <2>3, AloneIsEnough DEF Left, Lone
<1>8. CASE StartAuditing(w)
    <2>1. pc[w] = "advanced" /\ pc'[w] = "auditing" /\ Running = {}
        BY <1>1, <1>8 DEF StartAuditing, Go, Holds, At
    <2>2. Running' = {"auditing"} /\ expired' = expired \ {"auditing"}
        BY <1>5, <1>8, <2>1, SetStageRuns DEF StartAuditing
    <2>3. Holds(w)'
        BY <1>1, <1>2, <1>4, <2>1, <2>2 DEF Holds, Rows, At
    <2> QED BY <1>1, <1>2, <1>3, <1>4, <2>2, <2>3, AloneIsEnough DEF Left, Lone
<1>9. CASE FinishAuditing(w)
    <2>1. pc[w] = "reviewable" /\ pc'[w] = "handover" /\ Running = {"auditing"}
        BY <1>1, <1>9 DEF FinishAuditing, Go, Holds, At
    <2>2. Running' = {}
        BY <1>5, <1>9, <2>1, SetStageRuns DEF FinishAuditing
    <2>3. Holds(w)'
        BY <1>1, <1>2, <1>4, <2>1, <2>2 DEF Holds, Rows, At
    <2> QED BY <1>1, <1>2, <1>3, <1>4, <2>2, <2>3, AloneIsEnough DEF Left, Lone
<1>10. CASE FailStage(w)
    <2>1. pc[w] = "failing" /\ pc'[w] = "failed"
        BY <1>10 DEF FailStage, Go
    <2>2. Running' = {}
        <3>1. CASE Running = {}
            BY <1>10, <3>1 DEF FailStage, Running
        <3>2. CASE Running # {}
            <4>1. PICK s \in Running : SetStage(s, "failed")
                BY <1>10, <3>2 DEF FailStage, Running
            <4>2. Running = {s} /\ s \in Stage
                BY <3>2 DEF Left, Lone, Running
            <4> QED BY <1>5, <4>1, <4>2, SetStageRuns
        <3> QED BY <3>1, <3>2
    <2>3. Holds(w)'
        BY <1>1, <1>2, <1>4, <2>1, <2>2 DEF Holds, Rows, At
    <2> QED BY <1>1, <1>2, <1>3, <1>4, <2>2, <2>3, AloneIsEnough DEF Left, Lone
<1> QED BY <1>6, <1>7, <1>8, <1>9, <1>10

\* The writes of the run row, and the end of the task.
LEMMA QuietRuns ==
    ASSUME Facts, Quiet, NEW w \in Worker,
           AdvanceAuditing(w) \/ AdvanceGate(w) \/ Handover(w) \/ FailRun(w)
    PROVE  QInv'
<1> USE DEF Facts, TInv, TypeOK, QInv, row, stages, job, evidence
<1>1. Audit(w) /\ ~Ignore(w) /\ Auditing(w)
    BY DEF Audit, Ignore, AdvanceAuditing, AdvanceGate, Handover, FailRun, Auditing, AuditStep
<1>2. UNCHANGED <<stage, expired, claims, creator, pages, findings>>
    <2>1. CASE Handover(w)
        BY <2>1 DEF Handover, Done, Quiet
    <2> QED BY <2>1 DEF AdvanceAuditing, AdvanceGate, FailRun, Done
<1>3. Running' = Running
    BY <1>2 DEF Running
<1>4. Running \cap expired = {} /\ Rows(pc[w]) /\ state \notin {"DRAFT", "FAILED"}
    BY <1>1 DEF Holds
<1>5. CASE AdvanceAuditing(w)
    <2>1. pc[w] = "collected" /\ Running = {}
        BY <1>1, <1>5 DEF AdvanceAuditing, Holds, At
    <2>2. state' # "GATE_1_REVIEW" /\ state' \notin {"DRAFT", "FAILED"}
        BY <1>4, <1>5 DEF AdvanceAuditing
    <2>3. (pc'[w] = "advanced" /\ att'[w] = att[w]) \/ pc'[w] = "idle"
        BY <1>5 DEF AdvanceAuditing, Go, Done
    <2>4. Holds(w)'
        BY <1>1, <1>2, <1>3, <1>4, <2>1, <2>2, <2>3 DEF Holds, Rows, At, Auditing, AuditStep
    <2> QED BY <1>1, <1>2, <1>3, <1>4, <2>2, <2>4, AloneIsEnough DEF Left, GateEvidence
<1>6. CASE AdvanceGate(w)
    <2>1. Running = {"auditing"} /\ pages = {claims} /\ findings \subseteq {claims}
        BY <1>1, <1>6 DEF AdvanceGate, Holds, At, Rows
    <2>2. state' \notin {"DRAFT", "FAILED"}
        BY <1>4, <1>6 DEF AdvanceGate
    <2>3. (pc'[w] = "reviewable" /\ att'[w] = att[w]) \/ pc'[w] = "idle"
        BY <1>6 DEF AdvanceGate, Go, Done
    <2>4. Holds(w)'
        BY <1>1, <1>2, <1>3, <1>4, <2>1, <2>2, <2>3 DEF Holds, Rows, At, Auditing, AuditStep
    <2> QED BY <1>1, <1>2, <1>3, <1>4, <2>1, <2>2, <2>4, AloneIsEnough DEF Left, GateEvidence
<1>7. CASE Handover(w)
    <2>1. pc'[w] = "idle" /\ state' = state
        BY <1>7 DEF Handover, Go, Done
    <2> QED BY <1>1, <1>2, <1>3, <1>4, <2>1, AloneIsEnough
            DEF Left, GateEvidence, Holds, Auditing, AuditStep
<1>8. CASE FailRun(w)
    <2>1. pc[w] = "failed" /\ Running = {}
        BY <1>1, <1>8 DEF FailRun, Holds, At
    <2>2. pc'[w] = "idle" /\ state' # "GATE_1_REVIEW"
        BY <1>8 DEF FailRun, Go, Done
    <2> QED BY <1>1, <1>2, <1>3, <2>1, <2>2, AloneIsEnough
            DEF Left, GateEvidence, Holds, Auditing, AuditStep
<1> QED BY <1>5, <1>6, <1>7, <1>8
\* A lost worker leaves its stage running, in a run that cannot be claimed.
LEMMA QuietCrash == ASSUME Facts, NEW w \in Worker, Crash(w) PROVE QInv'
<1> USE DEF Facts, TInv, TypeOK, QInv, row, stages, job, evidence
<1>1. UNCHANGED <<state, stage, expired, claims, creator, pages, findings>>
    BY DEF Crash, Done
<1>2. Running' = Running
    BY <1>1 DEF Running
<1>3. pc'[w] = "idle"
    BY DEF Crash, Done, Go
<1>4. ASSUME NEW v \in Worker, v # w PROVE pc'[v] = pc[v] /\ att'[v] = att[v]
    BY <1>4, WorkerFrame
<1>5. ASSUME NEW v \in Worker PROVE Holds(v)'
    <2>1. CASE v = w
        BY <1>3, <2>1 DEF Holds, Auditing, AuditStep
    <2>2. CASE v # w
        <3>1. Holds(v)
            OBVIOUS
        <3> QED BY <1>1, <1>2, <1>4, <2>2, <3>1 DEF Holds, Auditing, Rows, At
    <2> QED BY <2>1, <2>2
<1>6. OneAudit'
    BY <1>3, <1>4 DEF OneAudit, Auditing, AuditStep
<1> QED BY <1>1, <1>2, <1>5, <1>6 DEF Left, GateEvidence

\* With nothing but the workers' own variables, the stages and the evidence kept,
\* a step keeps the invariant if it keeps the run from becoming claimable.
LEMMA QuietFrame ==
    ASSUME Facts, UNCHANGED <<pc, att, claims, stage, expired, pages, findings>>,
           creator' # "giving_up",
           state' = state \/ state' \notin {"DRAFT", "FAILED", "GATE_1_REVIEW"}
    PROVE  QInv'
<1> USE DEF Facts, QInv
<1>1. Running' = Running
    BY DEF Running
<1>2. ASSUME NEW v \in Worker PROVE Holds(v)'
    <2>1. Holds(v)
        OBVIOUS
    <2> QED BY <1>1, <2>1 DEF Holds, Auditing, Rows, At
<1> QED BY <1>1, <1>2 DEF OneAudit, Auditing, Left, GateEvidence

\* The heartbeat of a stage somebody is busy with does not expire, so the scan
\* fails a run only when nobody audits it.
LEMMA QuietHeartbeat ==
    ASSUME Facts, Quiet, NEW s \in Stage, Expire(s) \/ Scan(s) PROVE QInv'
<1> USE DEF Facts, TInv, TypeOK, QInv, row, stages, job, evidence
<1>1. UNCHANGED <<pc, att, claims, creator, pages, findings>>
    BY DEF Expire, Scan
<1>2. s \in Running /\ Running = {s}
    BY DEF Expire, Scan, Running, Left, Lone
<1>3. ASSUME NEW v \in Worker PROVE ~Auditing(v)
    <2> SUFFICES ASSUME Auditing(v) PROVE FALSE
        OBVIOUS
    <2>1. s \notin expired /\ Expire(s)
        BY <1>2 DEF Holds, Scan
    <2>2. pc[v] \notin Busy[s]
        BY <2>1 DEF Expire, Quiet
    <2>3. CASE pc[v] = "failing"
        BY <2>2, <2>3 DEF Busy, Stage
    <2>4. CASE pc[v] # "failing"
        <3>1. s \in At(pc[v])
            BY <1>2, <2>4 DEF Holds
        <3> QED BY <2>2, <3>1 DEF At, Busy, Stage
    <2> QED BY <2>3, <2>4
<1>4. ASSUME NEW v \in Worker PROVE Holds(v)'
    BY <1>1, <1>3 DEF Holds, Auditing
<1>5. OneAudit'
    BY <1>1, <1>3 DEF OneAudit, Auditing
<1>6. CASE Expire(s)
    <2>1. UNCHANGED <<state, stage>>
        BY <1>6 DEF Expire
    <2> QED BY <1>1, <1>4, <1>5, <2>1 DEF Left, GateEvidence, Running
<1>7. CASE Scan(s)
    <2>1. Running' = {}
        BY <1>2, <1>7, SetStageRuns DEF Scan, Status
    <2>2. state' = "FAILED" \/ state' = state
        BY <1>7 DEF Scan
    <2> QED BY <1>1, <1>4, <1>5, <2>1, <2>2 DEF Left, Lone, GateEvidence
<1> QED BY <1>6, <1>7

\* People cancel, review, poll and resume; none of it makes a run claimable.
LEMMA QuietPeople == ASSUME Facts, Quiet, People PROVE QInv'
<1> USE DEF Facts, TInv, TypeOK, QInv, row, stages, job, evidence
<1>1. CASE Publish \/ Kick \/ Decide
    BY <1>1, QuietFrame DEF Publish, Kick, Decide, Left
<1>2. CASE PublishRaises \/ GiveUp \/ Redispatch
    BY <1>2 DEF PublishRaises, GiveUp, Redispatch, Quiet, Left
<1>3. CASE Resume
    <2>1. state' = state \/ state' \in {"PLANNING", "GENERATING", "FINAL_QA", "CANCELLED"}
        BY <1>3 DEF Resume, Allowed
    <2> QED BY <1>3, <2>1, QuietFrame DEF Resume, Left
<1>4. ASSUME NEW to \in RunState, Move(to) PROVE QInv'
    <2>1. to \notin {"DRAFT", "FAILED", "GATE_1_REVIEW"}
        BY <1>4, AllowedRuns DEF Move, Quiet
    <2> QED BY <1>4, <2>1, QuietFrame DEF Move, Left
<1> QED BY <1>1, <1>2, <1>3, <1>4 DEF People

LEMMA QuietStep == ASSUME Facts, Quiet, [Next]_vars PROVE QInv'
<1> USE DEF Facts, row, stages, job, evidence
<1>1. ASSUME NEW w \in Worker, Audit(w) PROVE QInv'
    <2>1. CASE Ignore(w)
        BY <2>1, QuietFrame DEF Ignore, QInv, Left
    <2> QED BY <1>1, <2>1, QuietClaim, QuietRows, QuietStages, QuietRuns DEF Audit
<1>2. ASSUME NEW w \in Worker, FollowUp(w) PROVE QInv'
    BY <1>2 DEF FollowUp, Quiet
<1>3. CASE UNCHANGED vars
    BY <1>3, QuietFrame DEF vars, QInv, Left
<1> QED BY <1>1, <1>2, <1>3, QuietCrash, QuietHeartbeat, QuietPeople DEF Next, Heartbeat

\* Where nobody fails the run of a live audit, the invariant holds.
LEMMA QuietAlways == ASSUME Quiet PROVE Spec => []QInv
<1>1. Init => QInv
    <2> SUFFICES ASSUME Init PROVE QInv
        OBVIOUS
    <2>1. Running = {}
        BY DEF Init, Running
    <2>2. \A w \in Worker : ~Auditing(w)
        BY DEF Init, Auditing, AuditStep
    <2> QED BY <2>1, <2>2 DEF Init, QInv, OneAudit, Holds, Left, Lone, GateEvidence
<1>2. TInv /\ Fresh /\ QInv /\ [Next]_vars => QInv'
    BY QuietStep DEF Facts
<1> QED BY <1>1, <1>2, TypeInductive, FreshAlways, PTL DEF Spec

\* There the claim keeps audits apart, whatever is lost, sent twice or redelivered.
THEOREM AuditsApart == ASSUME Quiet PROVE Spec => []OneAudit
<1>1. QInv => OneAudit
    BY DEF QInv
<1> QED BY <1>1, QuietAlways, PTL

\* And the first gate shows the pages and findings of the latest attempt only.
THEOREM GateShowsOne == ASSUME Quiet PROVE Spec => []GateEvidence
<1>1. QInv => GateEvidence
    BY DEF QInv
<1> QED BY <1>1, QuietAlways, PTL

-----------------------------------------------------------------------------
(* No run is stranded without a lost worker.                               *)

Driving(w) == pc[w] \in AuditStep \ {"reviewable", "handover"}

\* The worker that drives a run goes on driving it, or leaves it in another state.
LEMMA DriverStep ==
    ASSUME TypeOK, NEW w \in Worker, Driving(w), Audit(w), ~Driving(w)'
    PROVE  state' \notin {"COLLECTING", "AUDITING"}
<1> USE DEF TypeOK, Driving, AuditStep, row, Go, Done
<1>1. CASE Claim(w) \/ Ignore(w) \/ StartCollecting(w) \/ InsertPages(w) \/ FinishCollecting(w)
    BY <1>1 DEF Claim, Ignore, StartCollecting, InsertPages, FinishCollecting
<1>2. CASE AdvanceAuditing(w) \/ StartAuditing(w) \/ InsertFindings(w) \/ AdvanceGate(w)
    BY <1>2 DEF AdvanceAuditing, StartAuditing, InsertFindings, AdvanceGate
<1>3. CASE FinishAuditing(w) \/ Handover(w) \/ Raise(w) \/ FailStage(w) \/ FailRun(w)
    BY <1>3 DEF FinishAuditing, Handover, Raise, FailStage, FailRun
<1> QED BY <1>1, <1>2, <1>3 DEF Audit

\* And only a worker that goes on driving it brings a run into these states.
LEMMA NewDriver ==
    ASSUME TypeOK, NEW w \in Worker, Audit(w) \/ FollowUp(w),
           state' \in {"COLLECTING", "AUDITING"}, state' # state
    PROVE  Driving(w)'
<1> USE DEF TypeOK, Driving, AuditStep, row, Go
<1>1. CASE Claim(w) \/ AdvanceAuditing(w)
    BY <1>1 DEF Claim, AdvanceAuditing
<1>2. CASE Ignore(w) \/ StartCollecting(w) \/ InsertPages(w) \/ FinishCollecting(w)
        \/ StartAuditing(w) \/ InsertFindings(w) \/ AdvanceGate(w)
    BY <1>2 DEF Ignore, StartCollecting, InsertPages, FinishCollecting, StartAuditing,
       InsertFindings, AdvanceGate
<1>3. CASE FinishAuditing(w) \/ Handover(w) \/ Raise(w) \/ FailStage(w) \/ FailRun(w)
    BY <1>3 DEF FinishAuditing, Handover, Raise, FailStage, FailRun
<1>4. CASE FollowUp(w)
    BY <1>4 DEF FollowUp, StartFollow, SkipFollow, EndFollow
<1> QED BY <1>1, <1>2, <1>3, <1>4 DEF Audit

LEMMA DrivenStep == ASSUME Steady, TInv, Driven, crashes \in Nat, [Next]_vars PROVE Driven'
<1> SUFFICES ASSUME state' \in {"COLLECTING", "AUDITING"} PROVE \E v \in Worker : Driving(v)'
    BY DEF Driven, Driving
<1> USE DEF TInv, row
<1>1. ASSUME NEW w \in Worker, Audit(w) PROVE \E v \in Worker : Driving(v)'
    <2>1. CASE state' # state
        BY <1>1, <2>1, NewDriver
    <2>2. CASE state' = state
        <3>1. PICK v \in Worker : Driving(v)
            BY <2>2 DEF Driven, Driving
        <3>2. CASE v = w
            BY <1>1, <3>1, <3>2, DriverStep
        <3>3. CASE v # w
            BY <1>1, <3>1, <3>3, WorkerFrame DEF Driving
        <3> QED BY <3>2, <3>3
    <2> QED BY <2>1, <2>2
<1>2. ASSUME NEW w \in Worker, FollowUp(w) PROVE \E v \in Worker : Driving(v)'
    <2>1. state' = state
        BY <1>2 DEF FollowUp, StartFollow, SkipFollow, EndFollow
    <2>2. PICK v \in Worker : Driving(v)
        BY <2>1 DEF Driven, Driving
    <2>3. v # w
        BY <1>2, <2>2, AuditWorkerAssumption
        DEF FollowUp, StartFollow, SkipFollow, EndFollow, Driving, AuditStep
    <2> QED BY <1>2, <2>2, <2>3, WorkerFrame DEF Driving
<1>3. ASSUME NEW w \in Worker, Crash(w) PROVE FALSE
    BY <1>3 DEF Crash, Steady, TypeOK
<1>4. ASSUME Heartbeat \/ People \/ UNCHANGED vars PROVE \E v \in Worker : Driving(v)'
    <2>1. pc' = pc
        BY <1>4, OthersFrame
    <2>2. state' = state
        <3>1. CASE Heartbeat
            BY <3>1 DEF Heartbeat, Expire, Scan
        <3>2. CASE Publish \/ PublishRaises \/ GiveUp \/ Kick \/ Redispatch \/ Decide
            BY <3>2 DEF Publish, PublishRaises, GiveUp, Kick, Redispatch, Decide
        <3>3. CASE Resume
            BY <3>3 DEF Resume
        <3>4. ASSUME NEW to \in RunState, Move(to) PROVE FALSE
            BY <3>4 DEF Move, Steady
        <3>5. CASE UNCHANGED vars
            BY <3>5 DEF vars
        <3> QED BY <1>4, <3>1, <3>2, <3>3, <3>4, <3>5 DEF People
    <2> QED BY <2>1, <2>2 DEF Driven, Driving
<1> QED BY <1>1, <1>2, <1>3, <1>4 DEF Next

\* Nothing but a lost worker, or a hand on the run, leaves a run half-way: not the
\* scan, not duplicates, not two audits of one run at a time.
THEOREM NotStranded == ASSUME Steady PROVE Spec => []Driven
<1>1. Init => Driven
    BY DEF Init, Driven
<1>2. TInv /\ Driven /\ [Next]_vars => Driven'
    BY DrivenStep DEF TInv, TypeOK
<1> QED BY <1>1, <1>2, TypeInductive, PTL DEF Spec
=============================================================================
