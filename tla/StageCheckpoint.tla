--------------------------- MODULE StageCheckpoint ---------------------------
(***************************************************************************)
(* The worker tasks of app/domain/tasks.py: checkpoint_run_stage and       *)
(* complete_run_stage, called for the stages of one run by attempts that   *)
(* may be late or repeated, next to mark_stale_run_stages.                 *)
(*                                                                         *)
(* A call reads the clock, then locks the run and the stage; the scan      *)
(* reads its cutoff and its candidates, then locks every stage and its     *)
(* run.  (The project row, which both lock after the run, is left out.)    *)
(* What a transaction does with all its locks in hand is one step.         *)
(***************************************************************************)
EXTENDS Naturals, Sequences

CONSTANTS
    Caller,     \* the worker processes
    Token,      \* the idempotency tokens, one per attempt
    Stage,      \* the stages of the run
    None,       \* no token
    Timeout,    \* STAGE_HEARTBEAT_TIMEOUT_SECONDS
    MaxNow,     \* bound on the clock
    MaxCalls,   \* bound on the calls
    MaxMoves    \* bound on what people do

ASSUME CheckpointAssumption ==
    /\ None \notin Token
    /\ Caller \cap {"scan"} = {}
    /\ Stage \cap {"run"} = {}
    /\ Stage # {} /\ Token # {}
    /\ Timeout \in Nat /\ MaxNow \in Nat /\ MaxCalls \in Nat /\ MaxMoves \in Nat

Status == {"pending", "running", "succeeded", "failed", "cancelled"}
Begun == {"running", "succeeded", "failed"}  \* the stage has had an attempt
RunState == {"open", "failed", "terminal"}   \* terminal: APPROVED or CANCELLED

VARIABLES
    now,      \* the clock
    state,    \* AuditRun.state
    version,  \* AuditRun.version
    row,      \* [Stage -> RunStage row]; a row not created yet is a pending one
    call,     \* [Caller -> the call at work]
    scan,     \* the scan at work
    calls,    \* how many calls have started
    moves     \* how often people have moved the run

vars == <<now, state, version, row, call, scan, calls, moves>>

Row == [status : Status, token : Token \cup {None}, beat : Nat, attempts : Nat]
Op == {"idle", "checkpoint", "complete"}
Call == [op : Op, stage : Stage, token : Token, at : Nat, locks : 0 .. 2]
Scan == [at : {"idle", "busy"}, cutoff : Nat, left : SUBSET Stage,
         cur : Stage, locks : 0 .. 2]

Rest == [op |-> "idle", stage |-> CHOOSE s \in Stage : TRUE, token |-> CHOOSE t \in Token : TRUE,
         at |-> 0, locks |-> 0]
ScanRest == [at |-> "idle", cutoff |-> 0, left |-> {}, cur |-> CHOOSE s \in Stage : TRUE,
             locks |-> 0]

TypeOK ==
    /\ now \in Nat /\ version \in Nat /\ calls \in Nat /\ moves \in Nat
    /\ state \in RunState
    /\ row \in [Stage -> Row]
    /\ \A s \in Stage : row[s].status \in Begun => row[s].token \in Token
    /\ call \in [Caller -> Call]
    /\ scan \in Scan

Init ==
    /\ now = 0
    /\ state = "open"
    /\ version = 1
    /\ row = [s \in Stage |-> [status |-> "pending", token |-> None, beat |-> 0, attempts |-> 0]]
    /\ call = [c \in Caller |-> Rest]
    /\ scan = ScanRest
    /\ calls = 0
    /\ moves = 0

-----------------------------------------------------------------------------
(* Row locks.                                                              *)

\* Mutant of LockOrder: the completion takes the stage first, as the scan does.
LockOrderByStage(c) ==
    IF call[c].op = "complete" THEN << call[c].stage, "run" >> ELSE << "run", call[c].stage >>

LockOrder(c) == << "run", call[c].stage >>

ScanOrder == << scan.cur, "run" >>

Order(p) == IF p = "scan" THEN ScanOrder ELSE LockOrder(p)
Locks(p) == IF p = "scan" THEN scan.locks ELSE call[p].locks
Process == Caller \cup {"scan"}
Active(p) == IF p = "scan" THEN scan.at = "busy" /\ scan.cur \in scan.left ELSE call[p].op # "idle"

Holds(p) == {Order(p)[i] : i \in 1 .. Locks(p)}
Waiting(p) == Active(p) /\ Locks(p) < 2
Wanted(p) == Order(p)[Locks(p) + 1]
Free(x) == \A p \in Process : x \notin Holds(p)

\* p waits for q.
WaitsFor(p, q) == Waiting(p) /\ Wanted(p) \in Holds(q)

Acquire(c) ==
    /\ Waiting(c)
    /\ Free(Wanted(c))
    /\ call' = [call EXCEPT ![c].locks = @ + 1]
    /\ UNCHANGED <<now, state, version, row, scan, calls, moves>>

ScanAcquire ==
    /\ Waiting("scan")
    /\ Free(Wanted("scan"))
    /\ scan' = [scan EXCEPT !.locks = @ + 1]
    /\ UNCHANGED <<now, state, version, row, call, calls, moves>>

\* PostgreSQL finds two transactions that wait for each other and ends one of them; its
\* task fails, and what the scan has not looked at yet is left to the next one.
Abort(c) ==
    /\ WaitsFor(c, "scan")
    /\ WaitsFor("scan", c)
    /\ call' = [call EXCEPT ![c] = Rest]
    /\ UNCHANGED <<now, state, version, row, scan, calls, moves>>

ScanAborts ==
    /\ \E c \in Caller : WaitsFor(c, "scan") /\ WaitsFor("scan", c)
    /\ scan' = ScanRest
    /\ UNCHANGED <<now, state, version, row, call, calls, moves>>

-----------------------------------------------------------------------------
(* checkpoint_run_stage and complete_run_stage.                            *)

\* A message is delivered: of any attempt, in any order, and more than once.  The time
\* is read before the locks are taken.
Deliver(c, op, s, t) ==
    /\ call[c].op = "idle"
    /\ calls < MaxCalls
    /\ calls' = calls + 1
    /\ call' = [call EXCEPT ![c] = [op |-> op, stage |-> s, token |-> t, at |-> now, locks |-> 0]]
    /\ UNCHANGED <<now, state, version, row, scan, moves>>

Ready(c, op) == call[c].op = op /\ call[c].locks = 2
Mine(c) == row[call[c].stage].token = call[c].token

\* The call raises or returns without writing.
Nothing(c) == UNCHANGED row

\* Started again, or by another token, it is a new attempt.
Started(c) ==
    LET s == call[c].stage
        new == row[s].status # "running" \/ ~Mine(c)
    IN row' = [row EXCEPT ![s] = [status |-> "running", token |-> call[c].token, beat |-> call[c].at,
                                  attempts |-> IF new THEN @.attempts + 1 ELSE @.attempts]]

Checkpoint(c) ==
    LET s == call[c].stage
    IN /\ Ready(c, "checkpoint")
       /\ \/ row[s].status = "succeeded" /\ Nothing(c)
          \/ /\ row[s].status # "succeeded"
             /\ state = "terminal"
             /\ row' = [row EXCEPT ![s].status = "cancelled", ![s].beat = call[c].at]
          \/ row[s].status # "succeeded" /\ state # "terminal" /\ Started(c)
       /\ call' = [call EXCEPT ![c] = Rest]
       /\ UNCHANGED <<now, state, version, scan, calls, moves>>

\* Mutant of Complete: any attempt that has not been replaced may be completed.
CompleteAny(c) ==
    LET s == call[c].stage
    IN /\ Ready(c, "complete")
       /\ \/ Mine(c) /\ row' = [row EXCEPT ![s].status = "succeeded", ![s].beat = call[c].at]
          \/ ~Mine(c) /\ Nothing(c)
       /\ call' = [call EXCEPT ![c] = Rest]
       /\ UNCHANGED <<now, state, version, scan, calls, moves>>

Complete(c) ==
    LET s == call[c].stage
        running == Mine(c) /\ row[s].status = "running"
    IN /\ Ready(c, "complete")
       /\ \/ running /\ row' = [row EXCEPT ![s].status = "succeeded", ![s].beat = call[c].at]
          \/ ~running /\ Nothing(c)
       /\ call' = [call EXCEPT ![c] = Rest]
       /\ UNCHANGED <<now, state, version, scan, calls, moves>>

-----------------------------------------------------------------------------
(* mark_stale_run_stages.                                                  *)

Overdue(s, cutoff) == row[s].status = "running" /\ row[s].beat < cutoff

\* Mutant of Candidates: only while the run is open.
CandidatesOpen(cutoff) == {s \in Stage : Overdue(s, cutoff) /\ state = "open"}

Candidates(cutoff) == {s \in Stage : Overdue(s, cutoff)}

\* The cutoff and the candidates are read outside of any transaction.
ScanBegin ==
    LET cutoff == IF now < Timeout THEN 0 ELSE now - Timeout
    IN /\ scan.at = "idle"
       /\ Candidates(cutoff) # {}
       /\ \E s \in Candidates(cutoff) :
             scan' = [at |-> "busy", cutoff |-> cutoff, left |-> Candidates(cutoff), cur |-> s,
                      locks |-> 0]
       /\ UNCHANGED <<now, state, version, row, call, calls, moves>>

\* On to the next candidate, or to the end.
ScanNext(left) ==
    IF left = {} THEN scan' = ScanRest
    ELSE \E s \in left :
            scan' = [at |-> "busy", cutoff |-> scan.cutoff, left |-> left, cur |-> s, locks |-> 0]

\* Mutant of ScanFail: a running candidate is failed without another look at its heartbeat.
ScanFailCandidate ==
    LET s == scan.cur
        stale == row[s].status = "running"
    IN /\ scan.at = "busy" /\ scan.locks = 2
       /\ row' = IF stale THEN [row EXCEPT ![s].status = "failed"] ELSE row
       /\ state' = IF stale /\ state # "terminal" THEN "failed" ELSE state
       /\ version' = IF stale /\ state # "terminal" THEN version + 1 ELSE version
       /\ ScanNext(scan.left \ {s})
       /\ UNCHANGED <<now, call, calls, moves>>

\* The stage is looked at again under its lock.
ScanFail ==
    LET s == scan.cur
        stale == Overdue(s, scan.cutoff)
    IN /\ scan.at = "busy" /\ scan.locks = 2
       /\ row' = IF stale THEN [row EXCEPT ![s].status = "failed"] ELSE row
       /\ state' = IF stale /\ state # "terminal" THEN "failed" ELSE state
       /\ version' = IF stale /\ state # "terminal" THEN version + 1 ELSE version
       /\ ScanNext(scan.left \ {s})
       /\ UNCHANGED <<now, call, calls, moves>>

-----------------------------------------------------------------------------
(* People and time.                                                        *)

\* A resume, an approval or a cancel, under the run's lock.
Move(to) ==
    /\ moves < MaxMoves
    /\ Free("run")
    /\ state # "terminal" /\ to # state
    /\ state' = to
    /\ version' = version + 1
    /\ moves' = moves + 1
    /\ UNCHANGED <<now, row, call, scan, calls>>

Tick ==
    /\ now < MaxNow
    /\ now' = now + 1
    /\ UNCHANGED <<state, version, row, call, scan, calls, moves>>

-----------------------------------------------------------------------------
Step(c) == Acquire(c) \/ Abort(c) \/ Checkpoint(c) \/ Complete(c)
ScanStep == ScanBegin \/ ScanAcquire \/ ScanAborts \/ ScanFail

Next ==
    \/ \E c \in Caller :
          \/ Step(c)
          \/ \E op \in {"checkpoint", "complete"}, s \in Stage, t \in Token : Deliver(c, op, s, t)
    \/ ScanStep
    \/ \E to \in RunState : Move(to)
    \/ Tick

Spec == Init /\ [][Next]_vars

\* Locks are granted, deadlocks found, beat starts the scan, and time goes on.
FairSpec ==
    /\ Spec
    /\ \A c \in Caller : WF_vars(Step(c))
    /\ WF_vars(ScanStep)
    /\ WF_vars(Tick)

-----------------------------------------------------------------------------
(* Properties.                                                             *)

\* The calls never wait for each other in a circle: only the scan, which locks in the
\* other order, can meet one in a deadlock.
CallsNeverDeadlock == \A c, d \in Caller : ~(WaitsFor(c, d) /\ WaitsFor(d, c))

\* A stage is failed by the scan only when its heartbeat really is older than the
\* timeout, however old the scan's list of candidates is.
ExpiryIsReal ==
    [][\A s \in Stage :
          row[s].status = "running" /\ row'[s].status = "failed" => row[s].beat + Timeout < now]_vars

\* The stage rows keep the lease: no attempt completes a stage it does not hold, and a
\* completed stage never changes, whatever late or repeated call arrives.
Phase(s) == CASE row[s].status = "running" -> "held"
              [] row[s].status = "succeeded" -> "done"
              [] OTHER -> "free"
Lease == INSTANCE StageLease WITH phase <- [s \in Stage |-> Phase(s)],
                                  owner <- [s \in Stage |-> row[s].token],
                                  Token <- Token \cup {None}
KeepsLease == Lease!Spec

\* An attempt that stops reporting is found out, whatever state its run is in.
CanExpire(s) == row[s].status = "running" /\ row[s].beat + Timeout < MaxNow
Expires == \A s \in Stage : CanExpire(s) ~> ~CanExpire(s)
=============================================================================
