------------------------------ MODULE StageLease ------------------------------
(***************************************************************************)
(* What the stages of a run promise: whoever holds a stage may finish it,  *)
(* a stage that nobody holds is not finished, and a finished one is left   *)
(* alone for good.                                                         *)
(***************************************************************************)
CONSTANTS Stage, Token

VARIABLES phase, owner

Init ==
    /\ phase = [s \in Stage |-> "free"]
    /\ owner \in [Stage -> Token]

Take(s, t) ==
    /\ phase[s] \in {"free", "held"}
    /\ phase' = [phase EXCEPT ![s] = "held"]
    /\ owner' = [owner EXCEPT ![s] = t]

Lapse(s) ==
    /\ phase[s] = "held"
    /\ phase' = [phase EXCEPT ![s] = "free"]
    /\ UNCHANGED owner

Finish(s) ==
    /\ phase[s] = "held"
    /\ phase' = [phase EXCEPT ![s] = "done"]
    /\ UNCHANGED owner

Next == \E s \in Stage : (\E t \in Token : Take(s, t)) \/ Lapse(s) \/ Finish(s)

Spec == Init /\ [][Next]_<<phase, owner>>
=============================================================================
