---------------------------- MODULE PackageShelf ----------------------------
(***************************************************************************)
(* What the studio promises about finished packages, with the work of      *)
(* building them left out: a shelf that packages are put on and never      *)
(* taken from, and a catalogue that lists, for a version of the run, one   *)
(* package of that version, for good.                                      *)
(***************************************************************************)
VARIABLES
    shelf,     \* the packages that can be downloaded whatever happens
    catalogue  \* of some versions, the bytes listed for them

svars == <<shelf, catalogue>>

SInit == shelf = {} /\ catalogue = [v \in {} |-> 0]

Put ==
    /\ \E p \in shelf' : shelf' = shelf \cup {p}
    /\ UNCHANGED catalogue

List ==
    /\ \E p \in shelf :
          /\ p.version \notin DOMAIN catalogue
          /\ catalogue' = [v \in DOMAIN catalogue \cup {p.version} |->
                              IF v = p.version THEN p.bytes ELSE catalogue[v]]
    /\ UNCHANGED shelf

SSpec == SInit /\ [][Put \/ List]_svars
=============================================================================
