----------------------------- MODULE AuditWorker -----------------------------
(***************************************************************************)
(* The life of one AuditRun in the hands of the machines: the Celery task  *)
(* run_website_audit (audit_engine/tasks.py) on several workers, the tasks *)
(* it hands over to, the stale-stage scan of app/domain/tasks.py and the   *)
(* requests that start, resume and move a run (app/views.py).              *)
(*                                                                         *)
(* The claim and the scan hold the run's row lock and are one step each.   *)
(* Everything else the audit task does is a series of autocommitted writes *)
(* from an instance loaded at the claim, so every write is a step of its   *)
(* own, and a worker can fail, or be lost, between any two of them.  A     *)
(* lost worker's message goes back to the queue (reject_on_worker_lost).   *)
(*                                                                         *)
(* The approvals a person's move may need are RunWorkflow's subject; here  *)
(* a person may make any move of the table.                                *)
(***************************************************************************)
EXTENDS RunStates, FiniteSets

CONSTANTS
    Worker,        \* the worker processes
    Follow,        \* the tasks an audit hands over to: "enriching", "packaging"
    Silent,        \* stages a healthy worker may run past the heartbeat timeout
    Moves,         \* the states people ask transition_run for
    BrokerMayFail, \* may publishing the first message raise?
    MaxVersion,    \* bound: people act only below this version
    MaxClaims,     \* bound: people resume only below this number of claims
    MaxMsgs,       \* bound on the copies of one message
    MaxCrashes     \* bound on lost workers

Stage == {"collecting", "auditing", "enriching", "packaging"}

ASSUME AuditWorkerAssumption ==
    /\ Follow \subseteq {"enriching", "packaging"}
    /\ Silent \subseteq Stage
    /\ Moves \subseteq RunState
    /\ BrokerMayFail \in BOOLEAN
    /\ {MaxVersion, MaxClaims, MaxMsgs, MaxCrashes} \subseteq Nat

Packageable == {"GATE_1_REVIEW", "PLANNING", "GENERATING", "GATE_2_REVIEW", "FINAL_QA",
                "PACKAGED", "APPROVED"}

\* How far a worker is in run_website_audit: the write it makes next.
AuditStep == {"claimed", "crawling", "inserting", "collected", "advanced", "auditing",
              "scored", "reviewable", "handover", "failing", "failed"}
Task == {"audit", "enriching", "packaging"}
Status == {"absent", "pending", "running", "succeeded", "failed", "skipped"}

VARIABLES
    state,    \* AuditRun.state
    version,  \* AuditRun.version
    stage,    \* [Stage -> Status]: RunStage.status, "absent" without a row
    expired,  \* the stages whose heartbeat is older than the timeout
    queue,    \* [Task -> Nat]: messages waiting in the broker
    pc,       \* [Worker -> ...]: "idle", a step of the audit, or a follow-up task
    att,      \* [Worker -> Nat]: which claim of the run this worker made, 0 for none
    mine,     \* [Worker -> Nat]: run.version of the worker's own instance
    claims,   \* how many claims there have been
    pages,    \* the claims that have PageSnapshot, Evidence and crawl rows
    findings, \* the claims that have Finding rows
    creator,  \* project_create_view: "publishing", "giving_up" or "done"
    crashes   \* how many workers have been lost

row == <<state, version>>
evidence == <<pages, findings>>
stages == <<stage, expired>>
job == <<att, mine, claims>>
vars == <<row, stages, queue, pc, job, evidence, creator, crashes>>

TypeOK ==
    /\ state \in RunState
    /\ version \in Nat
    /\ stage \in [Stage -> Status]
    /\ expired \subseteq Stage
    /\ queue \in [Task -> Nat]
    /\ pc \in [Worker -> {"idle"} \cup AuditStep \cup Follow]
    /\ att \in [Worker -> Nat]
    /\ mine \in [Worker -> Nat]
    /\ claims \in Nat
    /\ pages \subseteq 1 .. claims
    /\ findings \subseteq 1 .. claims
    /\ creator \in {"publishing", "giving_up", "done"}
    /\ crashes \in Nat

\* create_run_idempotent has just made the run, and the view goes on to publish it.
Init ==
    /\ state = "DRAFT"
    /\ version = 1
    /\ stage = [s \in Stage |-> "absent"]
    /\ expired = {}
    /\ queue = [t \in Task |-> 0]
    /\ pc = [w \in Worker |-> "idle"]
    /\ att = [w \in Worker |-> 0]
    /\ mine = [w \in Worker |-> 0]
    /\ claims = 0
    /\ pages = {}
    /\ findings = {}
    /\ creator = "publishing"
    /\ crashes = 0

-----------------------------------------------------------------------------
Go(w, step) == pc' = [pc EXCEPT ![w] = step]

\* The task is over, and its message acknowledged.
Done(w) ==
    /\ Go(w, "idle")
    /\ att' = [att EXCEPT ![w] = 0]
    /\ mine' = [mine EXCEPT ![w] = 0]
    /\ claims' = claims

Send(t) == queue' = [queue EXCEPT ![t] = @ + 1]
Take(t) == queue[t] > 0 /\ queue' = [queue EXCEPT ![t] = @ - 1]

\* _stage of either task module: the row with this status and a fresh heartbeat.
SetStage(s, status) ==
    /\ stage' = [stage EXCEPT ![s] = status]
    /\ expired' = expired \ {s}

-----------------------------------------------------------------------------
(* run_website_audit.                                                      *)

\* Mutant of Claimable: a redelivered message continues a run it finds collecting.
ClaimableAgain == state \in {"DRAFT", "FAILED", "COLLECTING"}

Claimable == state \in {"DRAFT", "FAILED"}

\* Mutant of Claim: the failed attempt's findings are left.
ClaimClearsPages(w) ==
    /\ pc[w] = "idle"
    /\ Take("audit")
    /\ Claimable
    /\ pages' = IF state = "FAILED" THEN {} ELSE pages
    /\ findings' = findings
    /\ state' = "COLLECTING"
    /\ claims' = claims + 1
    /\ att' = [att EXCEPT ![w] = claims + 1]
    /\ mine' = [mine EXCEPT ![w] = version]
    /\ Go(w, "claimed")
    /\ UNCHANGED <<version, stages, creator, crashes>>

\* The claim, under the row lock.  A failed run's leftovers are cleared first.
\* The version is not touched.
Claim(w) ==
    /\ pc[w] = "idle"
    /\ Take("audit")
    /\ Claimable
    /\ pages' = IF state = "FAILED" THEN {} ELSE pages
    /\ findings' = IF state = "FAILED" THEN {} ELSE findings
    /\ state' = "COLLECTING"
    /\ claims' = claims + 1
    /\ att' = [att EXCEPT ![w] = claims + 1]
    /\ mine' = [mine EXCEPT ![w] = version]
    /\ Go(w, "claimed")
    /\ UNCHANGED <<version, stages, creator, crashes>>

\* A duplicate or redelivered message of a run that is not claimable.
Ignore(w) ==
    /\ pc[w] = "idle"
    /\ Take("audit")
    /\ ~Claimable
    /\ UNCHANGED <<row, stages, pc, job, evidence, creator, crashes>>

StartCollecting(w) ==
    /\ pc[w] = "claimed"
    /\ SetStage("collecting", "running")
    /\ Go(w, "crawling")
    /\ UNCHANGED <<row, queue, job, evidence, creator, crashes>>

\* The crawl is over and _collect inserts page by page.  A page that another
\* attempt already has breaks the unique constraint; it need not be the first.
InsertPages(w) ==
    /\ pc[w] = "crawling"
    /\ \/ /\ pages' = pages \cup {att[w]}
          /\ \/ Go(w, "inserting")
             \/ pages # {} /\ Go(w, "failing")
       \/ /\ pages # {}
          /\ pages' = pages
          /\ Go(w, "failing")
    /\ UNCHANGED <<row, stages, queue, job, findings, creator, crashes>>

\* Its own rows are still there, otherwise the crawl's summary cannot be saved.
FinishCollecting(w) ==
    /\ pc[w] = "inserting"
    /\ att[w] \in pages
    /\ SetStage("collecting", "succeeded")
    /\ Go(w, "collected")
    /\ UNCHANGED <<row, queue, job, evidence, creator, crashes>>

\* _advance_run: the write is made unless the row says CANCELLED.
AdvanceAuditing(w) ==
    /\ pc[w] = "collected"
    /\ \/ /\ state # "CANCELLED"
          /\ state' = "AUDITING"
          /\ Go(w, "advanced")
          /\ UNCHANGED job
       \/ /\ state = "CANCELLED"
          /\ state' = state
          /\ Done(w)
    /\ UNCHANGED <<version, stages, queue, evidence, creator, crashes>>

StartAuditing(w) ==
    /\ pc[w] = "advanced"
    /\ SetStage("auditing", "running")
    /\ Go(w, "auditing")
    /\ UNCHANGED <<row, queue, job, evidence, creator, crashes>>

\* _create_findings inserts a finding, then links it to its evidence rows; a
\* link to a row that is gone raises.
InsertFindings(w) ==
    /\ pc[w] = "auditing"
    /\ findings' = findings \cup {att[w]}
    /\ Go(w, IF att[w] \in pages THEN "scored" ELSE "failing")
    /\ UNCHANGED <<row, stages, queue, job, pages, creator, crashes>>

\* Mutant of AdvanceGate: the run is saved whatever its row says by now.
AdvanceGateAlways(w) ==
    /\ pc[w] \in {"auditing", "scored"}
    /\ state' = "GATE_1_REVIEW"
    /\ version' = mine[w] + 1
    /\ mine' = [mine EXCEPT ![w] = @ + 1]
    /\ Go(w, "reviewable")
    /\ UNCHANGED <<att, claims, stages, queue, evidence, creator, crashes>>

\* Mutant of AdvanceGate: the scores are saved without the state.
AdvanceScores(w) ==
    /\ pc[w] \in {"auditing", "scored"}
    /\ \/ /\ state # "CANCELLED"
          /\ version' = mine[w] + 1
          /\ mine' = [mine EXCEPT ![w] = @ + 1]
          /\ Go(w, "reviewable")
          /\ UNCHANGED <<state, att, claims>>
       \/ /\ state = "CANCELLED"
          /\ UNCHANGED row
          /\ Done(w)
    /\ UNCHANGED <<stages, queue, evidence, creator, crashes>>

\* With findings, or without any: to the first gate, with the version counted
\* from the instance the worker loaded at its claim.
AdvanceGate(w) ==
    /\ pc[w] \in {"auditing", "scored"}
    /\ \/ /\ state # "CANCELLED"
          /\ state' = "GATE_1_REVIEW"
          /\ version' = mine[w] + 1
          /\ mine' = [mine EXCEPT ![w] = @ + 1]
          /\ Go(w, "reviewable")
          /\ UNCHANGED <<att, claims>>
       \/ /\ state = "CANCELLED"
          /\ UNCHANGED row
          /\ Done(w)
    /\ UNCHANGED <<stages, queue, evidence, creator, crashes>>

FinishAuditing(w) ==
    /\ pc[w] = "reviewable"
    /\ SetStage("auditing", "succeeded")
    /\ Go(w, "handover")
    /\ UNCHANGED <<row, queue, job, evidence, creator, crashes>>

\* _dispatch_market_data and the package dispatch: a pending row if there is
\* none, and a message, unless the broker refuses it.
Handover(w) ==
    /\ pc[w] = "handover"
    /\ stage' = [s \in Stage |->
                    IF s \in Follow /\ stage[s] = "absent" THEN "pending" ELSE stage[s]]
    /\ expired' = expired
    /\ \E sent \in SUBSET Follow :
          queue' = [t \in Task |-> IF t \in sent THEN queue[t] + 1 ELSE queue[t]]
    /\ Done(w)
    /\ UNCHANGED <<row, evidence, creator, crashes>>

\* Any statement of the try block may raise: a crawl without pages, a
\* constraint, a lost database connection.
Raise(w) ==
    /\ pc[w] \in AuditStep \ {"failing", "failed"}
    /\ Go(w, "failing")
    /\ UNCHANGED <<row, stages, queue, job, evidence, creator, crashes>>

Sequence == [collecting |-> 10, auditing |-> 20, enriching |-> 25, packaging |-> 30]

\* The handler fails the running stage with the highest sequence, whoever runs it.
FailStage(w) ==
    /\ pc[w] = "failing"
    /\ LET running == {s \in Stage : stage[s] = "running"}
       IN  \/ /\ running = {}
              /\ UNCHANGED stages
           \/ \E s \in running :
                 /\ \A r \in running : Sequence[r] <= Sequence[s]
                 /\ SetStage(s, "failed")
    /\ Go(w, "failed")
    /\ UNCHANGED <<row, queue, job, evidence, creator, crashes>>

\* Mutant of FailRun: the handler records the failed stage only.
FailStageOnly(w) ==
    /\ pc[w] = "failed"
    /\ Done(w)
    /\ UNCHANGED <<row, stages, queue, evidence, creator, crashes>>

\* Then the run, through _advance_run, and the exception ends the task.
FailRun(w) ==
    /\ pc[w] = "failed"
    /\ \/ /\ state # "CANCELLED"
          /\ state' = "FAILED"
          /\ version' = mine[w] + 1
       \/ /\ state = "CANCELLED"
          /\ UNCHANGED row
    /\ Done(w)
    /\ UNCHANGED <<stages, queue, evidence, creator, crashes>>

-----------------------------------------------------------------------------
(* The follow-up tasks, as far as the run sees them: a stage row.          *)

\* collect_market_data and build_audit_package start without looking at the
\* run's state.
StartFollow(w, t) ==
    /\ pc[w] = "idle"
    /\ Take(t)
    /\ SetStage(t, "running")
    /\ Go(w, t)
    /\ UNCHANGED <<row, job, evidence, creator, crashes>>

\* What was asked for exists already: a package returns at once, a snapshot
\* marks the stage succeeded.
SkipFollow(w, t) ==
    /\ pc[w] = "idle"
    /\ Take(t)
    /\ \/ t = "packaging" /\ UNCHANGED stages
       \/ t = "enriching" /\ SetStage(t, "succeeded")
    /\ UNCHANGED <<row, pc, job, evidence, creator, crashes>>

EndFollow(w, t) ==
    /\ pc[w] = t
    /\ \E status \in {"succeeded", IF t = "packaging" THEN "failed" ELSE "skipped"} :
          SetStage(t, status)
    /\ Go(w, "idle")
    /\ UNCHANGED <<row, queue, job, evidence, creator, crashes>>

-----------------------------------------------------------------------------
(* Lost workers, heartbeats and the scan.                                  *)

\* A worker process is lost in the middle of a task: the message is redelivered.
Crash(w) ==
    /\ crashes < MaxCrashes
    /\ pc[w] # "idle"
    /\ crashes' = crashes + 1
    /\ Send(IF pc[w] \in Follow THEN pc[w] ELSE "audit")
    /\ Done(w)
    /\ UNCHANGED <<row, stages, evidence, creator>>

\* The steps during which a worker is busy with a stage.
Busy == [collecting |-> {"crawling", "inserting", "failing"},
         auditing   |-> {"auditing", "scored", "reviewable", "failing"},
         enriching  |-> {"enriching", "failing"},
         packaging  |-> {"packaging", "failing"}]

\* The heartbeat timeout passes: nobody is at work on the stage any more, or
\* somebody is and has been silent for too long.
Expire(s) ==
    /\ stage[s] = "running"
    /\ s \notin expired
    /\ s \in Silent \/ \A w \in Worker : pc[w] \notin Busy[s]
    /\ expired' = expired \cup {s}
    /\ UNCHANGED <<row, stage, queue, pc, job, evidence, creator, crashes>>

\* mark_stale_run_stages, the transaction of one stage.
Scan(s) ==
    /\ stage[s] = "running"
    /\ s \in expired
    /\ SetStage(s, "failed")
    /\ IF state \in Terminal THEN UNCHANGED row
       ELSE state' = "FAILED" /\ version' = version + 1
    /\ UNCHANGED <<queue, pc, job, evidence, creator, crashes>>

-----------------------------------------------------------------------------
(* People.                                                                 *)

\* project_create_view publishes the first message.
Publish ==
    /\ creator = "publishing"
    /\ creator' = "done"
    /\ Send("audit")
    /\ UNCHANGED <<row, stages, pc, job, evidence, crashes>>

\* Publishing raises, with the message in the broker or not.
PublishRaises ==
    /\ BrokerMayFail
    /\ creator = "publishing"
    /\ creator' = "giving_up"
    /\ Send("audit") \/ UNCHANGED queue
    /\ UNCHANGED <<row, stages, pc, job, evidence, crashes>>

\* The view saves its own instance of the run as FAILED.
GiveUp ==
    /\ creator = "giving_up"
    /\ creator' = "done"
    /\ state' = "FAILED"
    /\ UNCHANGED <<version, stages, queue, pc, job, evidence, crashes>>

\* _kick_stalled_queued_run, from a progress page that polls a DRAFT run.
Kick ==
    /\ state = "DRAFT"
    /\ queue["audit"] < MaxMsgs
    /\ Send("audit")
    /\ UNCHANGED <<row, stages, pc, job, evidence, creator, crashes>>

\* _dispatch_package_build, from the same page: a run past its audit whose
\* packaging stage is neither done nor at work gets another message.
Redispatch ==
    /\ "packaging" \in Follow
    /\ state \in Packageable
    /\ stage["packaging"] # "succeeded"
    /\ stage["packaging"] = "running" => "packaging" \in expired
    /\ queue["packaging"] < MaxMsgs
    /\ stage' = [stage EXCEPT !["packaging"] = IF @ = "absent" THEN "pending" ELSE @]
    /\ Send("packaging")
    /\ UNCHANGED <<row, expired, pc, job, evidence, creator, crashes>>

\* transition_run for a person whose expected_version is current.
Move(to) ==
    /\ to \in Moves \cap Allowed[state]
    /\ version < MaxVersion
    /\ state' = to
    /\ version' = version + 1
    /\ UNCHANGED <<stages, queue, pc, job, evidence, creator, crashes>>

\* decide_approval, for a row that is pending in whatever state the run is by now:
\* only the version of the run changes.
Decide ==
    /\ version < MaxVersion
    /\ version' = version + 1
    /\ UNCHANGED <<state, stages, queue, pc, job, evidence, creator, crashes>>

\* What the failed stage with the highest sequence asks for, PLANNING without one.
Preferred ==
    LET failed == {s \in Stage : stage[s] = "failed"}
        last   == CHOOSE s \in failed : \A r \in failed : Sequence[r] <= Sequence[s]
    IN  IF failed = {} THEN "PLANNING"
        ELSE [collecting |-> "COLLECTING", auditing |-> "AUDITING",
              enriching |-> "GATE_1_REVIEW", packaging |-> "FINAL_QA"][last]

\* run_resume_view, behind the button of a FAILED or REVISION_REQUESTED run:
\* the audit is queued again, or the run is moved.
Resume ==
    LET target == IF Preferred \in Allowed[state] THEN Preferred ELSE "PLANNING"
    IN  /\ state \in {"FAILED", "REVISION_REQUESTED"}
        /\ \/ /\ target \in {"COLLECTING", "AUDITING"}
              /\ claims < MaxClaims
              /\ queue["audit"] < MaxMsgs
              /\ Send("audit")
              /\ UNCHANGED row
           \/ /\ target \notin {"COLLECTING", "AUDITING"}
              /\ version < MaxVersion
              /\ state' = target
              /\ version' = version + 1
              /\ UNCHANGED queue
        /\ UNCHANGED <<stages, pc, job, evidence, creator, crashes>>

-----------------------------------------------------------------------------
Audit(w) ==
    \/ Claim(w) \/ Ignore(w)
    \/ StartCollecting(w) \/ InsertPages(w) \/ FinishCollecting(w)
    \/ AdvanceAuditing(w) \/ StartAuditing(w) \/ InsertFindings(w)
    \/ AdvanceGate(w) \/ FinishAuditing(w) \/ Handover(w)
    \/ Raise(w) \/ FailStage(w) \/ FailRun(w)

FollowUp(w) == \E t \in Follow : StartFollow(w, t) \/ SkipFollow(w, t) \/ EndFollow(w, t)

Heartbeat == \E s \in Stage : Expire(s) \/ Scan(s)

People ==
    \/ Publish \/ PublishRaises \/ GiveUp \/ Kick \/ Redispatch \/ Decide \/ Resume
    \/ \E to \in RunState : Move(to)

Next ==
    \/ \E w \in Worker : Audit(w) \/ FollowUp(w) \/ Crash(w)
    \/ Heartbeat
    \/ People

Spec == Init /\ [][Next]_vars

\* A free worker takes a waiting message and a running task runs on; time
\* passes and beat starts the scan; the creating request runs to its end.
\* Nothing is promised of people, and nobody has to be lost.
Fairness ==
    /\ \A w \in Worker : WF_vars(Audit(w)) /\ WF_vars(FollowUp(w))
    /\ WF_vars(Heartbeat)
    /\ WF_vars(Publish \/ PublishRaises \/ GiveUp)

FairSpec == Spec /\ Fairness

-----------------------------------------------------------------------------
(* Properties.                                                             *)

Auditing(w) == pc[w] \in AuditStep

\* A user's cancel wins: whatever the workers, the scan and other requests are
\* in the middle of, a cancelled run stays cancelled.  Only the view that could
\* not publish the first message overwrites it (it saves FAILED unseen).
CancelWins ==
    [][state = "CANCELLED" /\ state' # "CANCELLED" =>
          creator = "giving_up" /\ creator' = "done"]_vars

\* Every attempt starts from a clean slate: at the moment of a claim no page and
\* no finding of an earlier attempt is left, by whichever way the run came back.
CleanSlate == [][claims' > claims => pages' = {} /\ findings' = {}]_vars

\* The claim alone does not keep two audits of a run apart: it needs that nobody
\* marks the run FAILED while an audit is alive.
Quiet ==
    /\ Follow = {}
    /\ Silent = {}
    /\ Moves \cap {"COLLECTING", "AUDITING", "GATE_1_REVIEW", "FAILED"} = {}
    /\ ~BrokerMayFail

\* Then duplicate and redelivered messages, lost workers, the scan and resumes
\* never make two workers audit the run at a time.
OneAudit == \A v, w \in Worker : Auditing(v) /\ Auditing(w) => v = w

\* And what reviewers see at the first gate is the evidence of one attempt, the
\* latest, with findings of no other.
GateEvidence == state = "GATE_1_REVIEW" => pages = {claims} /\ findings \subseteq {claims}

\* What strands a run half-way is a lost worker, and nothing else: without one,
\* and unless people push a run into these states by hand, a run that says it is
\* being collected or audited has a worker that is going to move it on, even
\* when the scan, duplicates and resumes have set several workers on it.
Steady == MaxCrashes = 0 /\ Moves \cap {"COLLECTING", "AUDITING"} = {}
Driven ==
    state \in {"COLLECTING", "AUDITING"} =>
        \E w \in Worker : pc[w] \in AuditStep \ {"reviewable", "handover"}

\* So it does not stay there.
Settles == state \in {"COLLECTING", "AUDITING"} ~> state \notin {"COLLECTING", "AUDITING"}

-----------------------------------------------------------------------------
(* What the repository says and the code does not keep.                    *)

\* audit_engine/tasks.py:457-458: no second concurrent audit.
NoSecondAudit == OneAudit
=============================================================================
