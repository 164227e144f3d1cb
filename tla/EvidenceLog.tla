------------------------------ MODULE EvidenceLog ------------------------------
(***************************************************************************)
(* What a project's evidence imports promise: every piece of evidence gets *)
(* one verdict, and the verdict stands.                                    *)
(***************************************************************************)
CONSTANTS Evidence

VARIABLES accepted, rejected

Init == accepted = {} /\ rejected = {}

Open(e) == e \notin accepted /\ e \notin rejected

Accept(e) ==
    /\ Open(e)
    /\ accepted' = accepted \cup {e}
    /\ UNCHANGED rejected

Reject(e) ==
    /\ Open(e)
    /\ rejected' = rejected \cup {e}
    /\ UNCHANGED accepted

Next == \E e \in Evidence : Accept(e) \/ Reject(e)

Spec == Init /\ [][Next]_<<accepted, rejected>>
=============================================================================
