----------------------------- MODULE VersionedRow ----------------------------
(***************************************************************************)
(* The promise of optimistic concurrency, with everything else left out: a *)
(* row, its version, and clients that load the version and later commit    *)
(* against it.  A commit succeeds only from the current version and moves  *)
(* it by one, so at most one client commits from any version.              *)
(***************************************************************************)
EXTENDS Naturals

CONSTANT Client
VARIABLES row, version, token   \* token[c] = 0: client c has nothing in flight

vvars == <<row, version, token>>

VInit == version = 1 /\ token = [c \in Client |-> 0]

Load(c) ==
    /\ token' = [token EXCEPT ![c] = version]
    /\ UNCHANGED <<row, version>>

Drop(c) ==
    /\ token' = [token EXCEPT ![c] = 0]
    /\ UNCHANGED <<row, version>>

\* The only step that may change the row, to anything at all.
Commit(c) ==
    /\ token[c] = version
    /\ version' = version + 1
    /\ token' = [token EXCEPT ![c] = 0]

VNext == \E c \in Client : Load(c) \/ Drop(c) \/ Commit(c)

VSpec == VInit /\ [][VNext]_vvars
=============================================================================
