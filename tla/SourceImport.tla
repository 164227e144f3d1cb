----------------------------- MODULE SourceImport -----------------------------
(***************************************************************************)
(* persist_validated_import of integrations/import_service.py: files that  *)
(* people upload to one project, at the same time and again after an error,*)
(* are validated in quarantine, stored under their SHA-256 and recorded.   *)
(*                                                                         *)
(* A row is found by source and digest; an object by digest and suffix, so *)
(* two sources share it.  Rows are written in a transaction that holds the *)
(* project's row; objects are written in the middle of it and stay when it *)
(* is rolled back.                                                         *)
(***************************************************************************)
EXTENDS UploadRules

CONSTANTS
    Request,    \* the web processes
    None,       \* nobody, nothing
    Offers,     \* the uploads people make: <<source, suffix, payload>>
    Prefix,     \* [oversized payload -> what was read of it, or None]
    MaxUploads, \* bound on the uploads
    MaxFaults   \* bound on lost processes and on what the storage does wrong

Oversized == {x \in Payload : Content[x].size > MaxBytes}

ASSUME ImportAssumption ==
    /\ None \notin Request /\ None \notin Payload
    /\ Payload # {}
    /\ Offers \subseteq Source \X Suffix \X Payload
    /\ Prefix \in [Oversized -> Payload \cup {None}]
    /\ MaxBytes \in Nat /\ MaxUploads \in Nat /\ MaxFaults \in Nat

VARIABLES
    rows,       \* [Source \X Payload -> the SourceImport row]
    objects,    \* [Payload \X Suffix -> what the storage has]
    damaged,    \* the objects that the storage has lost or changed
    holder,     \* the request that holds the project's row
    req,        \* [Request -> the upload at work and its answer]
    uploads,    \* how many uploads have begun
    faults      \* how many faults have happened

vars == <<rows, objects, damaged, holder, req, uploads, faults>>

Step == {"idle", "passed", "refused", "look", "reject", "check", "store", "saving", "saved",
         "stored", "done"}
Answer == {"none", "created", "exists", "invalid", "storage_error", "error"}

Row == [status : {"none", "rejected", "accepted"}, suffix : Suffix]
Req == [at : Step, source : Source, suffix : Suffix, payload : Payload, answer : Answer]

Evidence == Source \X Payload
Key == Payload \X Suffix

TypeOK ==
    /\ rows \in [Evidence -> Row]
    /\ objects \in [Key -> {"none", "part", "whole"}]
    /\ damaged \subseteq Key
    /\ holder \in Request \cup {None}
    /\ req \in [Request -> Req]
    /\ uploads \in Nat /\ faults \in Nat

Init ==
    /\ rows = [e \in Evidence |-> [status |-> "none", suffix |-> ".txt"]]
    /\ objects = [k \in Key |-> "none"]
    /\ damaged = {}
    /\ holder = None
    /\ req = [r \in Request |-> [at |-> "idle", source |-> "ahrefs", suffix |-> ".txt",
                                 payload |-> CHOOSE x \in Payload : TRUE, answer |-> "none"]]
    /\ uploads = 0
    /\ faults = 0

At(r, step) == req[r].at = step
Wanted(r) == <<req[r].source, req[r].payload>>
Found(r) == rows[Wanted(r)]
KeyOf(r) == <<req[r].payload, req[r].suffix>>

\* What is uploaded stays the same on the way.
Moves(r, at, answer) ==
    req' = [req EXCEPT ![r] = [at |-> at, source |-> req[r].source, suffix |-> req[r].suffix,
                               payload |-> req[r].payload, answer |-> answer]]

Go(r, step) == Moves(r, step, req[r].answer)

\* The transaction ends and the request is answered.
Leave(r, answer) ==
    /\ Moves(r, "done", answer)
    /\ holder' = None

-----------------------------------------------------------------------------
(* Quarantine: outside of the transaction.                                 *)

\* What the digest is of: an oversized upload is read no further than the limit.
Seen(x) == IF x \in Oversized THEN Prefix[x] ELSE x

\* A refusal is recorded for what was read; an upload of which nothing was read leaves
\* no row.
Begin(r, source, suffix, x) ==
    LET ok == Passes(source, suffix, x)
        seen == IF Content[x].size = 0 THEN None ELSE Seen(x)
        at == IF ok THEN "passed" ELSE IF seen # None THEN "refused" ELSE "done"
    IN /\ At(r, "idle") \/ At(r, "done")
       /\ uploads < MaxUploads
       /\ uploads' = uploads + 1
       /\ req' = [req EXCEPT ![r] =
                    [at |-> at, source |-> source, suffix |-> suffix,
                     payload |-> IF seen = None THEN x ELSE seen,
                     answer |-> IF at = "done" THEN "invalid" ELSE "none"]]
       /\ UNCHANGED <<rows, objects, damaged, holder, faults>>

-----------------------------------------------------------------------------
(* The transaction.                                                        *)

\* Mutant of Lock: the project's row is read without FOR UPDATE.
LockNothing(r) ==
    /\ At(r, "passed") \/ At(r, "refused")
    /\ Go(r, IF At(r, "passed") THEN "look" ELSE "reject")
    /\ UNCHANGED <<rows, objects, damaged, holder, uploads, faults>>

Lock(r) ==
    /\ At(r, "passed") \/ At(r, "refused")
    /\ holder = None
    /\ holder' = r
    /\ Go(r, IF At(r, "passed") THEN "look" ELSE "reject")
    /\ UNCHANGED <<rows, objects, damaged, uploads, faults>>

\* Mutant of Record: update_or_create.
RecordAnyway(r) ==
    /\ At(r, "reject")
    /\ rows' = [rows EXCEPT ![Wanted(r)] = [status |-> "rejected", suffix |-> req[r].suffix]]
    /\ Leave(r, "invalid")
    /\ UNCHANGED <<objects, damaged, uploads, faults>>

Record(r) ==
    /\ At(r, "reject")
    /\ rows' = IF Found(r).status = "none"
               THEN [rows EXCEPT ![Wanted(r)] = [status |-> "rejected", suffix |-> req[r].suffix]]
               ELSE rows
    /\ Leave(r, "invalid")
    /\ UNCHANGED <<objects, damaged, uploads, faults>>

\* Mutant of Matches: the file name, not its suffix, is compared, and every upload has
\* its own.
MatchesNothing(r) == FALSE

\* The row found is of an accepted upload under the same key.
Matches(r) == Found(r).status = "accepted" /\ Found(r).suffix = req[r].suffix

Look(r) ==
    /\ At(r, "look")
    /\ \/ Found(r).status = "none" /\ Go(r, "store") /\ UNCHANGED holder
       \/ Matches(r) /\ Go(r, "check") /\ UNCHANGED holder
       \/ Found(r).status # "none" /\ ~Matches(r) /\ Leave(r, "storage_error")
    /\ UNCHANGED <<rows, objects, damaged, uploads, faults>>

Intact(r) == objects[KeyOf(r)] = "whole"

Check(r) ==
    /\ At(r, "check")
    /\ Leave(r, IF Intact(r) THEN "exists" ELSE "storage_error")
    /\ UNCHANGED <<rows, objects, damaged, uploads, faults>>

\* Mutant of Store: what is there already is taken for what should be there.
StoreTrusting(r) ==
    /\ At(r, "store")
    /\ Go(r, IF objects[KeyOf(r)] # "none" THEN "stored" ELSE "saving") /\ UNCHANGED holder
    /\ UNCHANGED <<rows, objects, damaged, uploads, faults>>

\* An object left by an upload that never came to its row is used again if it is whole.
Store(r) ==
    /\ At(r, "store")
    /\ \/ objects[KeyOf(r)] = "none" /\ Go(r, "saving") /\ UNCHANGED holder
       \/ Intact(r) /\ Go(r, "stored") /\ UNCHANGED holder
       \/ objects[KeyOf(r)] = "part" /\ Leave(r, "storage_error")
    /\ UNCHANGED <<rows, objects, damaged, uploads, faults>>

\* A file grows in its place; an object store shows it when it is whole.
Save(r) ==
    /\ At(r, "saving")
    /\ \/ objects' = [objects EXCEPT ![KeyOf(r)] = "part"] /\ objects[KeyOf(r)] = "none"
          /\ UNCHANGED req
       \/ objects' = [objects EXCEPT ![KeyOf(r)] = "whole"] /\ Go(r, "saved")
    /\ UNCHANGED <<rows, damaged, holder, uploads, faults>>

\* The storage raises, or keeps the bytes under another name.
SaveFails(r) ==
    /\ At(r, "saving")
    /\ faults < MaxFaults
    /\ faults' = faults + 1
    /\ Leave(r, "storage_error")
    /\ UNCHANGED <<rows, objects, damaged, uploads>>

\* What was saved is read again.
Verify(r) ==
    /\ At(r, "saved")
    /\ IF Intact(r) THEN Go(r, "stored") /\ UNCHANGED holder ELSE Leave(r, "storage_error")
    /\ UNCHANGED <<rows, objects, damaged, uploads, faults>>

Create(r) ==
    /\ At(r, "stored")
    /\ rows' = [rows EXCEPT ![Wanted(r)] = [status |-> "accepted", suffix |-> req[r].suffix]]
    /\ Leave(r, "created")
    /\ UNCHANGED <<objects, damaged, uploads, faults>>

-----------------------------------------------------------------------------
(* Faults.                                                                 *)

Busy(r) == ~At(r, "idle") /\ ~At(r, "done")

\* The process or its database connection is lost: the rows are rolled back and the
\* project's row is free, the objects stay as they are.
Lost(r) ==
    /\ Busy(r)
    /\ faults < MaxFaults
    /\ faults' = faults + 1
    /\ Moves(r, "done", "error")
    /\ holder' = IF holder = r THEN None ELSE holder
    /\ UNCHANGED <<rows, objects, damaged, uploads>>

\* The storage loses or changes an object.
Damage(k) ==
    /\ objects[k] = "whole"
    /\ faults < MaxFaults
    /\ faults' = faults + 1
    /\ \E what \in {"none", "part"} : objects' = [objects EXCEPT ![k] = what]
    /\ damaged' = damaged \cup {k}
    /\ UNCHANGED <<rows, holder, req, uploads>>

-----------------------------------------------------------------------------
Work(r) ==
    Lock(r) \/ Record(r) \/ Look(r) \/ Check(r) \/ Store(r) \/ Save(r) \/ Verify(r) \/ Create(r)

Next ==
    \/ \E r \in Request :
          \/ Work(r) \/ SaveFails(r) \/ Lost(r)
          \/ \E offer \in Offers : Begin(r, offer[1], offer[2], offer[3])
    \/ \E k \in Key : Damage(k)

Spec == Init /\ [][Next]_vars

-----------------------------------------------------------------------------
(* Properties.                                                             *)

Accepted == {e \in Evidence : rows[e].status = "accepted"}
Rejected == {e \in Evidence : rows[e].status = "rejected"}

\* The bytes of an accepted import are stored whole and pass the rules for its source,
\* whatever uploads were lost on the way, unless the storage itself has lost them.
AcceptedIsStored ==
    \A e \in Accepted :
        LET k == <<e[2], rows[e].suffix>>
        IN /\ objects[k] = "whole" \/ k \in damaged
           /\ Passes(e[1], rows[e].suffix, e[2])

\* No upload inserts a row that another one has inserted while it was at work.
NoCollision == \A r \in Request : At(r, "store") \/ At(r, "saving") \/ At(r, "saved") \/ At(r, "stored")
                                      => Found(r).status = "none"

\* The first verdict on a piece of evidence stands.
Log == INSTANCE EvidenceLog WITH accepted <- Accepted, rejected <- Rejected
KeepsLog == Log!Spec

\* Somebody who sends an accepted file again, after a lost answer say, is told that it is
\* there, and never that it cannot be stored, unless the storage has lost it.
Again(r) ==
    Found(r).status = "accepted" /\ Found(r).suffix = req[r].suffix /\ KeyOf(r) \notin damaged
SentAgain ==
    [][\A r \in Request :
          Busy(r) /\ req'[r].answer = "storage_error" => ~Again(r)]_vars
=============================================================================
