------------------------ MODULE StageCheckpoint_proofs ------------------------
(***************************************************************************)
(* Theorems about StageCheckpoint, for any number of stages, attempts,     *)
(* workers and calls, and for any timeout.                                 *)
(***************************************************************************)
EXTENDS StageCheckpoint, TLAPS

\* What the scan holds against a heartbeat is older than the timeout, then and ever after.
CutoffIsOld == scan.at = "busy" => scan.cutoff + Timeout <= now

IInv == TypeOK /\ CutoffIsOld

(* What a step may do to a stage row.                                      *)
Taken(s) ==
    /\ row[s].status # "succeeded"
    /\ row'[s].status = "running" /\ row'[s].token \in Token
Cancelled(s) ==
    /\ row[s].status # "succeeded"
    /\ row'[s].status = "cancelled" /\ row'[s].token = row[s].token
Done(s) ==
    /\ row[s].status = "running"
    /\ row'[s].status = "succeeded" /\ row'[s].token = row[s].token
Expired(s) ==
    /\ row[s].status = "running" /\ row[s].beat + Timeout < now
    /\ row'[s].status = "failed" /\ row'[s].token = row[s].token

Change(s) ==
    /\ row' \in [Stage -> Row]
    /\ \A x \in Stage \ {s} : row'[x] = row[x]
    /\ Taken(s) \/ Cancelled(s) \/ Done(s) \/ Expired(s)

RowsMove == row' = row \/ \E s \in Stage : Change(s)

-----------------------------------------------------------------------------
LEMMA RestTypes == Rest \in Call /\ ScanRest \in Scan /\ ScanRest.at = "idle"
<1>1. (CHOOSE s \in Stage : TRUE) \in Stage /\ (CHOOSE t \in Token : TRUE) \in Token
    BY CheckpointAssumption
<1> QED BY <1>1 DEF Rest, ScanRest, Call, Scan, Op

LEMMA CallRow ==
    ASSUME TypeOK, NEW c \in Caller, Checkpoint(c) \/ Complete(c)
    PROVE  RowsMove
<1> DEFINE s == call[c].stage
           new == row[s].status # "running" \/ ~Mine(c)
<1>1. s \in Stage /\ call[c].token \in Token /\ call[c].at \in Nat
    BY DEF TypeOK, Call
<1>2. row \in [Stage -> Row] /\ row[s] \in Row
    BY <1>1 DEF TypeOK
<1>3. CASE Checkpoint(c) /\ row' = [row EXCEPT ![s].status = "cancelled", ![s].beat = call[c].at]
                         /\ row[s].status # "succeeded"
    <2>1. row' = [row EXCEPT ![s] = [@ EXCEPT !.status = "cancelled", !.beat = call[c].at]]
        BY <1>2, <1>3
    <2>2. [row[s] EXCEPT !.status = "cancelled", !.beat = call[c].at] \in Row
        BY <1>1, <1>2 DEF Row, Status
    <2>3. Change(s)
        BY <1>1, <1>2, <1>3, <2>1, <2>2 DEF Change, Cancelled, Row
    <2> QED BY <1>1, <2>3 DEF RowsMove
<1>4. CASE Started(c) /\ row[s].status # "succeeded"
    <2> DEFINE r == [status |-> "running", token |-> call[c].token, beat |-> call[c].at,
                     attempts |-> IF new THEN row[s].attempts + 1 ELSE row[s].attempts]
    <2>1. row' = [row EXCEPT ![s] = r]
        BY <1>2, <1>4 DEF Started
    <2>2. r \in Row
        BY <1>1, <1>2 DEF Row, Status
    <2>3. Change(s)
        BY <1>1, <1>2, <1>4, <2>1, <2>2 DEF Change, Taken
    <2> QED BY <1>1, <2>3 DEF RowsMove
<1>5. CASE row[s].status = "running"
           /\ row' = [row EXCEPT ![s].status = "succeeded", ![s].beat = call[c].at]
    <2>1. row' = [row EXCEPT ![s] = [@ EXCEPT !.status = "succeeded", !.beat = call[c].at]]
        BY <1>2, <1>5
    <2>2. [row[s] EXCEPT !.status = "succeeded", !.beat = call[c].at] \in Row
        BY <1>1, <1>2 DEF Row, Status
    <2>3. Change(s)
        BY <1>1, <1>2, <1>5, <2>1, <2>2 DEF Change, Done, Row
    <2> QED BY <1>1, <2>3 DEF RowsMove
<1>6. CASE row' = row
    BY <1>6 DEF RowsMove
<1> QED BY <1>3, <1>4, <1>5, <1>6 DEF Checkpoint, Complete, Nothing

LEMMA ScanRow ==
    ASSUME IInv, ScanFail
    PROVE  RowsMove
<1> DEFINE s == scan.cur
<1>1. s \in Stage /\ scan.cutoff \in Nat /\ scan.cutoff + Timeout <= now
    BY DEF IInv, TypeOK, Scan, CutoffIsOld, ScanFail
<1>2. row \in [Stage -> Row] /\ row[s] \in Row /\ row[s].beat \in Nat
    BY <1>1 DEF IInv, TypeOK, Row
<1>3. CASE Overdue(s, scan.cutoff)
    <2>1. row' = [row EXCEPT ![s].status = "failed"]
        BY <1>3 DEF ScanFail
    <2>2. row' = [row EXCEPT ![s] = [@ EXCEPT !.status = "failed"]]
        BY <1>2, <2>1
    <2>3. [row[s] EXCEPT !.status = "failed"] \in Row
        BY <1>2 DEF Row, Status
    <2>4. row[s].beat + Timeout < now
        BY <1>1, <1>2, <1>3, CheckpointAssumption DEF Overdue, IInv, TypeOK
    <2>5. Change(s)
        BY <1>1, <1>2, <1>3, <2>2, <2>3, <2>4 DEF Change, Expired, Overdue, Row
    <2> QED BY <1>1, <2>5 DEF RowsMove
<1>4. CASE ~Overdue(s, scan.cutoff)
    BY <1>4 DEF ScanFail, RowsMove
<1> QED BY <1>3, <1>4

\* Every step leaves the rows alone or makes one of the four changes.
LEMMA StepRow ==
    ASSUME IInv, [Next]_vars
    PROVE  RowsMove
<1>1. CASE \E c \in Caller : Checkpoint(c) \/ Complete(c)
    BY <1>1, CallRow DEF IInv
<1>2. CASE ScanFail
    BY <1>2, ScanRow
<1>3. CASE row' = row
    BY <1>3 DEF RowsMove
<1> QED
    BY <1>1, <1>2, <1>3
    DEF Next, Step, ScanStep, vars, Acquire, Abort, Deliver, ScanBegin, ScanAcquire, ScanAborts, Move, Tick

-----------------------------------------------------------------------------
LEMMA InitHolds == Init => IInv
<1> SUFFICES ASSUME Init PROVE IInv
    OBVIOUS
<1>1. row \in [Stage -> Row] /\ \A s \in Stage : row[s].status = "pending"
    BY DEF Init, Row, Status
<1>2. call \in [Caller -> Call] /\ scan \in Scan /\ scan.at = "idle"
    BY RestTypes DEF Init
<1> QED BY <1>1, <1>2 DEF Init, IInv, TypeOK, CutoffIsOld, RunState, Begun

LEMMA RowTyped ==
    ASSUME IInv, [Next]_vars
    PROVE  /\ row' \in [Stage -> Row]
           /\ \A s \in Stage : row'[s].status \in Begun => row'[s].token \in Token
<1>1. CASE row' = row
    BY <1>1 DEF IInv, TypeOK
<1>2. ASSUME NEW s \in Stage, Change(s)
      PROVE  \A x \in Stage : row'[x].status \in Begun => row'[x].token \in Token
    BY <1>2 DEF IInv, TypeOK, Change, Taken, Cancelled, Done, Expired, Begun
<1> QED BY <1>1, <1>2, StepRow DEF RowsMove, Change

LEMMA CallTyped ==
    ASSUME IInv, [Next]_vars
    PROVE  call' \in [Caller -> Call]
<1> USE DEF IInv, TypeOK
<1>1. CASE call' = call
    BY <1>1
<1>2. ASSUME NEW c \in Caller, call' = [call EXCEPT ![c] = Rest] PROVE call' \in [Caller -> Call]
    BY <1>2, RestTypes
<1>3. ASSUME NEW c \in Caller, Acquire(c) PROVE call' \in [Caller -> Call]
    <2>1. call[c] \in Call /\ call[c].locks < 2
        BY <1>3, CheckpointAssumption DEF Acquire, Waiting, Locks, Call
    <2>2. [call[c] EXCEPT !.locks = @ + 1] \in Call
        BY <2>1 DEF Call
    <2> QED BY <1>3, <2>2 DEF Acquire
<1>4. ASSUME NEW c \in Caller, NEW op \in {"checkpoint", "complete"}, NEW s \in Stage, NEW t \in Token,
             Deliver(c, op, s, t)
      PROVE  call' \in [Caller -> Call]
    BY <1>4 DEF Deliver, Call, Op
<1> QED
    BY <1>1, <1>2, <1>3, <1>4
    DEF Next, Step, ScanStep, vars, Abort, Checkpoint, Complete,
        ScanBegin, ScanAcquire, ScanAborts, ScanFail, Move, Tick

LEMMA ScanTyped ==
    ASSUME IInv, [Next]_vars
    PROVE  scan' \in Scan /\ CutoffIsOld'
<1> USE DEF IInv, TypeOK
<1>1. CASE scan' = scan /\ now' \in {now, now + 1}
    BY <1>1, CheckpointAssumption DEF CutoffIsOld, Scan
<1>2. CASE scan' = ScanRest
    BY <1>2, RestTypes DEF CutoffIsOld
<1>3. CASE ScanBegin
    <2> DEFINE cutoff == IF now < Timeout THEN 0 ELSE now - Timeout
    <2>1. PICK s \in Candidates(cutoff) :
              scan' = [at |-> "busy", cutoff |-> cutoff, left |-> Candidates(cutoff), cur |-> s, locks |-> 0]
        BY <1>3 DEF ScanBegin
    <2>2. s \in Stage /\ row[s].beat \in Nat /\ row[s].beat < cutoff
        BY <2>1 DEF Candidates, Overdue, Row
    <2>3. cutoff \in Nat /\ cutoff + Timeout <= now
        BY <2>2, CheckpointAssumption
    <2> QED BY <1>3, <2>1, <2>2, <2>3 DEF ScanBegin, Scan, Candidates, CutoffIsOld
<1>4. CASE ScanAcquire
    <2>1. scan.locks \in 0 .. 1
        BY <1>4 DEF ScanAcquire, Waiting, Locks, Scan
    <2> QED BY <1>4, <2>1 DEF ScanAcquire, Scan, CutoffIsOld
<1>5. CASE ScanFail
    <2>1. CASE scan' = ScanRest
        BY <1>2, <2>1
    <2> DEFINE left == scan.left \ {scan.cur}
    <2>2. ASSUME NEW s \in left,
                 scan' = [at |-> "busy", cutoff |-> scan.cutoff, left |-> left, cur |-> s, locks |-> 0]
          PROVE  scan' \in Scan /\ CutoffIsOld'
        <3>1. s \in Stage /\ left \in SUBSET Stage /\ scan.cutoff \in Nat
            BY DEF Scan
        <3>2. scan' \in Scan
            BY <2>2, <3>1 DEF Scan
        <3>3. scan.at = "busy" /\ now' = now
            BY <1>5 DEF ScanFail
        <3> QED BY <2>2, <3>2, <3>3 DEF CutoffIsOld
    <2> QED BY <1>5, <2>1, <2>2 DEF ScanFail, ScanNext
<1> QED
    BY <1>1, <1>2, <1>3, <1>4, <1>5
    DEF Next, Step, ScanStep, vars, Abort, Acquire, Deliver, Checkpoint, Complete, ScanAborts, Move, Tick

LEMMA NumbersTyped ==
    ASSUME IInv, [Next]_vars
    PROVE  now' \in Nat /\ version' \in Nat /\ calls' \in Nat /\ moves' \in Nat /\ state' \in RunState
<1> USE DEF IInv, TypeOK
<1>1. CASE UNCHANGED <<now, version, calls, moves, state>>
    BY <1>1
<1>2. CASE ScanFail
    BY <1>2 DEF ScanFail, RunState
<1>3. CASE \E to \in RunState : Move(to)
    BY <1>3 DEF Move
<1>4. CASE Tick
    BY <1>4 DEF Tick
<1>5. CASE \E c \in Caller, op \in {"checkpoint", "complete"}, s \in Stage, t \in Token :
              Deliver(c, op, s, t)
    BY <1>5 DEF Deliver
<1>6. CASE (\E c \in Caller : Step(c)) \/ ScanStep \/ UNCHANGED vars
    BY <1>1, <1>2, <1>6
    DEF Step, ScanStep, vars, Acquire, Abort, Checkpoint, Complete, ScanBegin, ScanAcquire, ScanAborts
<1> QED
    BY <1>3, <1>4, <1>5, <1>6 DEF Next

LEMMA StepKeeps == IInv /\ [Next]_vars => IInv'
<1> SUFFICES ASSUME IInv, [Next]_vars PROVE IInv'
    OBVIOUS
<1> QED BY RowTyped, CallTyped, ScanTyped, NumbersTyped DEF IInv, TypeOK

LEMMA AlwaysIInv == Spec => []IInv
BY InitHolds, StepKeeps, PTL DEF Spec

\* Every variable keeps its type, and a stage that has begun names the attempt it is of.
THEOREM TypeCorrect == Spec => []TypeOK
<1>1. IInv => TypeOK
    BY DEF IInv
<1> QED BY <1>1, AlwaysIInv, PTL

-----------------------------------------------------------------------------
\* A call that holds something holds the run and waits for its stage, and who waits for
\* the run holds nothing: no two calls of checkpoint_run_stage and complete_run_stage
\* ever wait for each other.
THEOREM CallsKeepOrder == Spec => []CallsNeverDeadlock
<1>1. TypeOK => CallsNeverDeadlock
    <2> SUFFICES ASSUME TypeOK, NEW c \in Caller, NEW d \in Caller, WaitsFor(c, d), WaitsFor(d, c)
                 PROVE  FALSE
        BY DEF CallsNeverDeadlock
    <2>1. c # "scan" /\ d # "scan"
        BY CheckpointAssumption
    <2>2. call[c].locks \in 0 .. 2 /\ call[d].locks \in 0 .. 2 /\ call[c].stage # "run" /\ call[d].stage # "run"
        BY CheckpointAssumption DEF TypeOK, Call
    <2>3. call[c].locks \in 0 .. 1 /\ call[d].locks \in 0 .. 1
        BY <2>1, <2>2 DEF WaitsFor, Waiting, Locks
    <2>4. ASSUME NEW p \in Caller, p # "scan", call[p].locks \in 0 .. 1
          PROVE  /\ call[p].locks = 0 => Holds(p) = {} /\ Wanted(p) = "run"
                 /\ call[p].locks = 1 => Holds(p) = {"run"} /\ Wanted(p) = call[p].stage
        BY <2>4 DEF Holds, Wanted, Order, Locks, LockOrder
    <2> QED BY <2>1, <2>2, <2>3, <2>4 DEF WaitsFor
<1> QED BY <1>1, TypeCorrect, PTL

\* Only a stage whose heartbeat is older than the timeout is failed by the scan, although
\* the list of candidates is read long before the stage is locked.
THEOREM ExpiryHolds == Spec => ExpiryIsReal
<1> DEFINE Real == \A s \in Stage :
              row[s].status = "running" /\ row'[s].status = "failed" => row[s].beat + Timeout < now
<1>1. IInv /\ [Next]_vars => [Real]_vars
    BY StepRow DEF RowsMove, Change, Taken, Cancelled, Done, Expired
<1> QED BY <1>1, AlwaysIInv, PTL DEF Spec, ExpiryIsReal

-----------------------------------------------------------------------------
(* The rows keep the lease.                                                *)
LEMMA LeaseInit == Init => Lease!Init
BY DEF Init, Lease!Init, Phase

LEMMA LeaseStep ==
    ASSUME TypeOK, RowsMove
    PROVE  [Lease!Next]_<<[s \in Stage |-> Phase(s)], [s \in Stage |-> row[s].token]>>
<1> DEFINE phase == [s \in Stage |-> Phase(s)]
           owner == [s \in Stage |-> row[s].token]
<1>1. CASE row' = row
    BY <1>1 DEF Phase
<1>2. ASSUME NEW s \in Stage, Change(s)
      PROVE  [Lease!Next]_<<phase, owner>>
    <2>1. \A x \in Stage \ {s} : phase'[x] = phase[x] /\ owner'[x] = owner[x]
        BY <1>2 DEF Change, Phase
    <2>2. CASE Taken(s)
        <3>1. PICK t \in Token : t = row'[s].token
            BY <2>2 DEF Taken
        <3>2. phase[s] \in {"free", "held"} /\ phase'[s] = "held" /\ owner'[s] = t
            BY <2>2, <3>1 DEF Taken, Phase
        <3>3. phase' = [phase EXCEPT ![s] = "held"] /\ owner' = [owner EXCEPT ![s] = t]
            BY <2>1, <3>2
        <3>4. Lease!Take(s, t)
            BY <3>2, <3>3 DEF Lease!Take
        <3> QED BY <3>4 DEF Lease!Next
    <2>3. CASE Cancelled(s)
        <3>1. phase'[s] = "free" /\ owner'[s] = owner[s] /\ phase[s] \in {"free", "held"}
            BY <2>3 DEF Cancelled, Phase
        <3>2. phase' = [phase EXCEPT ![s] = "free"] /\ owner' = owner
            BY <2>1, <3>1
        <3>3. CASE phase[s] = "free"
            BY <3>2, <3>3
        <3>4. CASE phase[s] = "held"
            BY <3>2, <3>4 DEF Lease!Lapse, Lease!Next
        <3> QED BY <3>1, <3>3, <3>4
    <2>4. CASE Done(s)
        <3>1. phase[s] = "held" /\ phase'[s] = "done" /\ owner'[s] = owner[s]
            BY <2>4 DEF Done, Phase
        <3>2. phase' = [phase EXCEPT ![s] = "done"] /\ owner' = owner
            BY <2>1, <3>1
        <3> QED BY <3>1, <3>2 DEF Lease!Finish, Lease!Next
    <2>5. CASE Expired(s)
        <3>1. phase[s] = "held" /\ phase'[s] = "free" /\ owner'[s] = owner[s]
            BY <2>5 DEF Expired, Phase
        <3>2. phase' = [phase EXCEPT ![s] = "free"] /\ owner' = owner
            BY <2>1, <3>1
        <3> QED BY <3>1, <3>2 DEF Lease!Lapse, Lease!Next
    <2> QED BY <1>2, <2>2, <2>3, <2>4, <2>5 DEF Change
<1> QED BY <1>1, <1>2 DEF RowsMove

\* The calls and the scan together implement StageLease: an attempt finishes only a stage
\* it holds, and a finished stage is left alone, whatever late or repeated call arrives.
THEOREM LeaseHolds == Spec => KeepsLease
<1>1. IInv /\ [Next]_vars => [Lease!Next]_<<[s \in Stage |-> Phase(s)], [s \in Stage |-> row[s].token]>>
    BY StepRow, LeaseStep DEF IInv
<1> QED BY <1>1, LeaseInit, AlwaysIInv, PTL DEF Spec, KeepsLease, Lease!Spec
=============================================================================
