-------------------------- MODULE SourceImport_proofs --------------------------
(***************************************************************************)
(* Theorems about SourceImport, for any payloads and rules, any number of  *)
(* requests, uploads and faults.                                           *)
(***************************************************************************)
EXTENDS SourceImport, TLAPS

InTransaction(r) == req[r].at \in {"look", "reject", "check", "store", "saving", "saved", "stored"}
Adding(r) == req[r].at \in {"store", "saving", "saved", "stored"}

Safe(k) == objects[k] = "whole" \/ k \in damaged
Legal(r) == Passes(req[r].source, req[r].suffix, req[r].payload)

Stored(e) == Safe(<<e[2], rows[e].suffix>>) /\ Passes(e[1], rows[e].suffix, e[2])

\* Whoever is in the transaction, and nobody else, holds the project's row; what a request
\* has found holds as long as it is in the transaction.
Good(r) ==
    /\ InTransaction(r) <=> holder = r
    /\ Adding(r) => Found(r).status = "none"
    /\ At(r, "check") => Matches(r)
    /\ Adding(r) \/ At(r, "passed") \/ At(r, "look") \/ At(r, "check") => Legal(r)
    /\ At(r, "stored") => Safe(KeyOf(r))
    /\ Busy(r) => req[r].answer = "none"

IInv == TypeOK /\ (\A r \in Request : Good(r)) /\ AcceptedIsStored

-----------------------------------------------------------------------------
LEMMA InitHolds == Init => IInv
<1> SUFFICES ASSUME Init PROVE IInv
    OBVIOUS
<1>1. (CHOOSE x \in Payload : TRUE) \in Payload
    BY ImportAssumption
<1>2. TypeOK
    BY <1>1, ImportAssumption DEF Init, TypeOK, Row, Req, Step, Answer, Source, Suffix, Evidence, Key
<1>3. \A r \in Request : req[r].at = "idle" /\ holder # r
    BY ImportAssumption DEF Init
<1>4. \A r \in Request : Good(r)
    BY <1>3 DEF Good, InTransaction, Adding, At, Busy
<1>5. AcceptedIsStored
    BY DEF Init, AcceptedIsStored, Accepted
<1> QED BY <1>2, <1>4, <1>5 DEF IInv

\* What a request is about stays what it is.
LEMMA Names ==
    ASSUME TypeOK, NEW r \in Request
    PROVE  /\ req[r] \in Req
           /\ Wanted(r) \in Evidence /\ KeyOf(r) \in Key
           /\ Found(r) \in Row
           /\ Wanted(r)[1] = req[r].source /\ Wanted(r)[2] = req[r].payload
BY DEF TypeOK, Req, Wanted, KeyOf, Found, Evidence, Key

LEMMA MoveTypes ==
    ASSUME TypeOK, NEW r \in Request, NEW to \in Step, NEW answer \in Answer, Moves(r, to, answer)
    PROVE  /\ req' \in [Request -> Req]
           /\ \A q \in Request \ {r} : req'[q] = req[q]
           /\ req'[r].at = to /\ req'[r].answer = answer
           /\ req'[r].source = req[r].source /\ req'[r].suffix = req[r].suffix
           /\ req'[r].payload = req[r].payload
<1>1. req \in [Request -> Req] /\ req[r] \in Req
    BY DEF TypeOK
<1>2. [at |-> to, source |-> req[r].source, suffix |-> req[r].suffix,
       payload |-> req[r].payload, answer |-> answer] \in Req
    BY <1>1 DEF Req
<1> QED BY <1>1, <1>2 DEF Moves

\* What a step of one request must see to: its own part, its types, and that it writes
\* rows only in the transaction and loses no object.
Writes(r) ==
    /\ rows' \in [Evidence -> Row]
    /\ rows' = rows \/ holder = r
    /\ \A e \in Evidence :
          rows'[e].status = "accepted" =>
              \/ rows'[e] = rows[e]
              \/ Stored(e)'

LEMMA OneRequest ==
    ASSUME IInv, NEW r \in Request,
           req' \in [Request -> Req], \A q \in Request \ {r} : req'[q] = req[q],
           holder' \in {holder, r, None}, holder' # holder => holder \in {r, None},
           objects' \in [Key -> {"none", "part", "whole"}], damaged' \subseteq Key,
           uploads' \in Nat, faults' \in Nat,
           \A k \in Key : Safe(k) => Safe(k)',
           Writes(r), Good(r)'
    PROVE  IInv'
<1>1. TypeOK'
    BY DEF IInv, TypeOK, Writes
<1>2. ASSUME NEW q \in Request, q # r PROVE Good(q)'
    <2>1. Good(q) /\ req'[q] = req[q] /\ (holder' = q <=> holder = q) /\ KeyOf(q) \in Key
        BY <1>2, Names, ImportAssumption DEF IInv, TypeOK
    <2>2. InTransaction(q) => rows' = rows
        BY <1>2, <2>1 DEF Good, Writes
    <2>3. /\ InTransaction(q)' = InTransaction(q) /\ Adding(q)' = Adding(q) /\ Busy(q)' = Busy(q)
          /\ \A at \in Step : At(q, at)' = At(q, at)
          /\ KeyOf(q)' = KeyOf(q) /\ Wanted(q)' = Wanted(q) /\ Legal(q)' = Legal(q)
        BY <2>1 DEF InTransaction, Adding, Busy, At, KeyOf, Wanted, Legal
    <2>4. InTransaction(q) => Found(q)' = Found(q) /\ Matches(q)' = Matches(q)
        BY <2>1, <2>2, <2>3 DEF Found, Matches
    <2>5. Adding(q) \/ At(q, "check") => InTransaction(q)
        BY DEF Adding, At, InTransaction
    <2>6. \A at \in {"check", "passed", "look", "stored"} : At(q, at)' = At(q, at)
        BY <2>3 DEF Step
    <2> QED BY <2>1, <2>3, <2>4, <2>5, <2>6 DEF Good
<1>3. AcceptedIsStored'
    <2> SUFFICES ASSUME NEW e \in Evidence, rows'[e].status = "accepted" PROVE Stored(e)'
        BY DEF AcceptedIsStored, Accepted, Safe, Stored
    <2>1. CASE rows'[e] = rows[e]
        <3>1. <<e[2], rows[e].suffix>> \in Key
            BY DEF IInv, TypeOK, Row, Key, Evidence
        <3>2. Stored(e)
            BY <2>1 DEF IInv, AcceptedIsStored, Accepted, Safe, Stored
        <3>3. Safe(<<e[2], rows[e].suffix>>)'
            BY <3>1, <3>2, <2>1 DEF Stored, Safe
        <3> QED BY <2>1, <3>2, <3>3 DEF Stored
    <2> QED BY <2>1 DEF Writes
<1> QED BY <1>1, <1>2, <1>3 DEF IInv

\* A move that writes no row.
LEMMA PlainMove ==
    ASSUME IInv, NEW r \in Request, NEW to \in Step, NEW answer \in Answer, Moves(r, to, answer),
           UNCHANGED rows,
           holder' \in {holder, r, None}, holder' # holder => holder \in {r, None},
           objects' \in [Key -> {"none", "part", "whole"}], damaged' \subseteq Key,
           uploads' \in Nat, faults' \in Nat,
           \A k \in Key : Safe(k) => Safe(k)',
           to \in {"look", "reject", "check", "store", "saving", "saved", "stored"} <=> holder' = r,
           to \in {"store", "saving", "saved", "stored"} => Found(r).status = "none",
           to = "check" => Matches(r),
           to \in {"passed", "look", "check", "store", "saving", "saved", "stored"} => Legal(r),
           to = "stored" => Safe(KeyOf(r))',
           to \notin {"idle", "done"} => answer = "none"
    PROVE  IInv'
<1>1. /\ req' \in [Request -> Req] /\ \A q \in Request \ {r} : req'[q] = req[q]
      /\ req'[r].at = to /\ req'[r].answer = answer
      /\ req'[r].source = req[r].source /\ req'[r].suffix = req[r].suffix
      /\ req'[r].payload = req[r].payload
    BY MoveTypes DEF IInv
<1>2. KeyOf(r)' = KeyOf(r) /\ Wanted(r)' = Wanted(r) /\ Legal(r)' = Legal(r)
    BY <1>1 DEF KeyOf, Wanted, Legal
<1>3. Found(r)' = Found(r) /\ Matches(r)' = Matches(r)
    BY <1>1, <1>2 DEF Found, Matches
<1>4. Good(r)'
    BY <1>1, <1>2, <1>3 DEF Good, InTransaction, Adding, At, Busy
<1>5. Writes(r)
    BY DEF IInv, TypeOK, Writes
<1> QED BY <1>1, <1>4, <1>5, OneRequest

LEMMA NoObjectTouched ==
    ASSUME UNCHANGED <<objects, damaged>>
    PROVE  \A k \in Key : Safe(k)' = Safe(k)
BY DEF Safe

LEMMA Places ==
    /\ {"idle", "passed", "refused", "look", "reject", "check", "store", "saving", "saved",
        "stored", "done"} = Step
    /\ {"none", "created", "exists", "invalid", "storage_error", "error"} = Answer
BY DEF Step, Answer

LEMMA LockKeeps ==
    ASSUME IInv, NEW r \in Request, Lock(r)
    PROVE  IInv'
<1> DEFINE to == IF At(r, "passed") THEN "look" ELSE "reject"
<1>1. to \in Step /\ "none" \in Answer /\ Good(r) /\ TypeOK
    BY Places DEF IInv
<1>2. req[r].answer = "none"
    BY <1>1 DEF Good, Lock, Busy, At
<1>3. Moves(r, to, "none")
    BY <1>2 DEF Lock, Go
<1>4. to = "look" => Legal(r)
    BY <1>1 DEF Good
<1> HIDE DEF to
<1>5. to \in {"look", "reject"}
    BY DEF to
<1> QED
    BY <1>1, <1>3, <1>4, <1>5, PlainMove, NoObjectTouched, ImportAssumption DEF Lock, TypeOK

\* In the transaction: what a request knows there.
LEMMA Inside ==
    ASSUME IInv, NEW r \in Request, InTransaction(r)
    PROVE  /\ holder = r /\ r # None /\ Good(r) /\ TypeOK
           /\ req[r].answer = "none"
           /\ KeyOf(r) \in Key /\ Wanted(r) \in Evidence
<1>1. Good(r) /\ TypeOK
    BY DEF IInv
<1>2. Busy(r)
    BY DEF InTransaction, Busy, At
<1> QED BY <1>1, <1>2, Names, ImportAssumption DEF Good

LEMMA LookKeeps ==
    ASSUME IInv, NEW r \in Request, Look(r)
    PROVE  IInv'
<1>1. /\ holder = r /\ r # None /\ Good(r) /\ TypeOK
      /\ req[r].answer = "none"
    BY Inside DEF Look, At, InTransaction
<1>2. Legal(r)
    BY <1>1 DEF Good, Look
<1>3. CASE Found(r).status = "none" /\ Go(r, "store") /\ UNCHANGED holder
    <2>1. Moves(r, "store", "none")
        BY <1>1, <1>3 DEF Go
    <2> QED BY <1>1, <1>2, <1>3, <2>1, PlainMove, NoObjectTouched, Places DEF Look, TypeOK
<1>4. CASE Matches(r) /\ Go(r, "check") /\ UNCHANGED holder
    <2>1. Moves(r, "check", "none")
        BY <1>1, <1>4 DEF Go
    <2> QED BY <1>1, <1>2, <1>4, <2>1, PlainMove, NoObjectTouched, Places DEF Look, TypeOK
<1>5. CASE Leave(r, "storage_error")
    <2>1. Moves(r, "done", "storage_error") /\ holder' = None
        BY <1>5 DEF Leave
    <2> QED BY <1>1, <2>1, PlainMove, NoObjectTouched, Places DEF Look, TypeOK
<1> QED BY <1>3, <1>4, <1>5 DEF Look

LEMMA CheckKeeps ==
    ASSUME IInv, NEW r \in Request, Check(r)
    PROVE  IInv'
<1>1. holder = r /\ r # None /\ TypeOK
    BY Inside DEF Check, At, InTransaction
<1>2. PICK answer \in {"exists", "storage_error"} : Leave(r, answer)
    BY DEF Check
<1>3. Moves(r, "done", answer) /\ holder' = None
    BY <1>2 DEF Leave
<1> QED BY <1>1, <1>3, PlainMove, NoObjectTouched, Places DEF Check, TypeOK

LEMMA StoreKeeps ==
    ASSUME IInv, NEW r \in Request, Store(r)
    PROVE  IInv'
<1>1. /\ holder = r /\ r # None /\ Good(r) /\ TypeOK
      /\ req[r].answer = "none" /\ KeyOf(r) \in Key
    BY Inside DEF Store, At, InTransaction
<1>2. Legal(r) /\ Found(r).status = "none"
    BY <1>1 DEF Good, Store, Adding, At
<1>3. CASE Go(r, "saving") /\ UNCHANGED holder
    <2>1. Moves(r, "saving", "none")
        BY <1>1, <1>3 DEF Go
    <2> QED BY <1>1, <1>2, <1>3, <2>1, PlainMove, NoObjectTouched, Places DEF Store, TypeOK
<1>4. CASE Intact(r) /\ Go(r, "stored") /\ UNCHANGED holder
    <2>1. Moves(r, "stored", "none")
        BY <1>1, <1>4 DEF Go
    <2>2. KeyOf(r)' = KeyOf(r)
        BY <1>1, <2>1, MoveTypes, Places DEF KeyOf
    <2>3. Safe(KeyOf(r))'
        BY <1>4, <2>2 DEF Intact, Safe, Store
    <2> QED BY <1>1, <1>2, <1>4, <2>1, <2>3, PlainMove, NoObjectTouched, Places DEF Store, TypeOK
<1>5. CASE Leave(r, "storage_error")
    <2>1. Moves(r, "done", "storage_error") /\ holder' = None
        BY <1>5 DEF Leave
    <2> QED BY <1>1, <2>1, PlainMove, NoObjectTouched, Places DEF Store, TypeOK
<1> QED BY <1>3, <1>4, <1>5 DEF Store

LEMMA SaveKeeps ==
    ASSUME IInv, NEW r \in Request, Save(r)
    PROVE  IInv'
<1> DEFINE k == KeyOf(r)
<1>1. /\ holder = r /\ r # None /\ Good(r) /\ TypeOK
      /\ req[r].answer = "none" /\ k \in Key
    BY Inside DEF Save, At, InTransaction
<1>2. Legal(r) /\ Found(r).status = "none"
    BY <1>1 DEF Good, Save, Adding, At
<1>3. ASSUME NEW what \in {"part", "whole"}, objects' = [objects EXCEPT ![k] = what],
             what = "part" => objects[k] = "none"
      PROVE  /\ objects' \in [Key -> {"none", "part", "whole"}]
             /\ \A x \in Key : Safe(x) => Safe(x)'
    <2>1. objects' \in [Key -> {"none", "part", "whole"}]
        BY <1>1, <1>3 DEF TypeOK
    <2>2. ASSUME NEW x \in Key, Safe(x) PROVE Safe(x)'
        BY <1>1, <1>3, <2>2 DEF Safe, Save, TypeOK
    <2> QED BY <2>1, <2>2
<1>4. CASE objects' = [objects EXCEPT ![k] = "part"] /\ objects[k] = "none" /\ UNCHANGED req
    <2>1. Good(r)'
        <3>1. req' = req /\ holder' = holder /\ rows' = rows /\ req[r].at = "saving"
            BY <1>4 DEF Save, At
        <3>2. /\ InTransaction(r)' = InTransaction(r) /\ Adding(r)' = Adding(r) /\ Busy(r)' = Busy(r)
              /\ Found(r)' = Found(r) /\ Legal(r)' = Legal(r)
              /\ ~At(r, "check")' /\ ~At(r, "stored")'
            BY <3>1 DEF InTransaction, Adding, Busy, Found, Wanted, Legal, At
        <3> QED BY <1>1, <1>2, <3>1, <3>2 DEF Good
    <2>2. Writes(r)
        BY <1>1 DEF Save, Writes, TypeOK
    <2>3. /\ req' \in [Request -> Req] /\ \A q \in Request \ {r} : req'[q] = req[q]
          /\ holder' = holder /\ damaged' \subseteq Key /\ uploads' \in Nat /\ faults' \in Nat
        BY <1>1, <1>4 DEF Save, TypeOK
    <2> QED BY <1>3, <1>4, <2>1, <2>2, <2>3, OneRequest
<1>5. CASE objects' = [objects EXCEPT ![k] = "whole"] /\ Go(r, "saved")
    <2>1. Moves(r, "saved", "none")
        BY <1>1, <1>5 DEF Go
    <2> QED BY <1>1, <1>2, <1>3, <1>5, <2>1, PlainMove, Places DEF Save, TypeOK
<1> QED BY <1>4, <1>5 DEF Save

LEMMA SaveFailsKeeps ==
    ASSUME IInv, NEW r \in Request, SaveFails(r)
    PROVE  IInv'
<1>1. holder = r /\ r # None /\ TypeOK
    BY Inside DEF SaveFails, At, InTransaction
<1>2. Moves(r, "done", "storage_error") /\ holder' = None /\ faults' \in Nat
    BY <1>1 DEF SaveFails, Leave, TypeOK
<1> QED BY <1>1, <1>2, PlainMove, NoObjectTouched, Places DEF SaveFails, TypeOK

LEMMA VerifyKeeps ==
    ASSUME IInv, NEW r \in Request, Verify(r)
    PROVE  IInv'
<1>1. /\ holder = r /\ r # None /\ Good(r) /\ TypeOK
      /\ req[r].answer = "none" /\ KeyOf(r) \in Key
    BY Inside DEF Verify, At, InTransaction
<1>2. Legal(r) /\ Found(r).status = "none"
    BY <1>1 DEF Good, Verify, Adding, At
<1>3. CASE Intact(r)
    <2>1. Moves(r, "stored", "none")
        BY <1>1, <1>3 DEF Go, Verify
    <2>2. KeyOf(r)' = KeyOf(r)
        BY <1>1, <2>1, MoveTypes, Places DEF KeyOf
    <2>3. Safe(KeyOf(r))'
        BY <1>3, <2>2 DEF Intact, Safe, Verify
    <2> QED BY <1>1, <1>2, <1>3, <2>1, <2>3, PlainMove, NoObjectTouched, Places DEF Verify, TypeOK
<1>4. CASE ~Intact(r)
    <2>1. Moves(r, "done", "storage_error") /\ holder' = None
        BY <1>4 DEF Leave, Verify
    <2> QED BY <1>1, <2>1, PlainMove, NoObjectTouched, Places DEF Verify, TypeOK
<1> QED BY <1>3, <1>4

LEMMA LostKeeps ==
    ASSUME IInv, NEW r \in Request, Lost(r)
    PROVE  IInv'
<1>1. TypeOK /\ r # None
    BY ImportAssumption DEF IInv
<1>2. Moves(r, "done", "error") /\ faults' \in Nat /\ holder' # r
      /\ holder' \in {holder, None} /\ (holder' # holder => holder = r)
    BY <1>1 DEF Lost, TypeOK
<1> QED BY <1>1, <1>2, PlainMove, NoObjectTouched, Places DEF Lost, TypeOK

\* A verdict is written, and the request is answered.
LEMMA VerdictKeeps ==
    ASSUME IInv, NEW r \in Request, InTransaction(r),
           NEW status \in {"rejected", "accepted"}, NEW answer \in {"invalid", "created"},
           rows' = [rows EXCEPT ![Wanted(r)] = [status |-> status, suffix |-> req[r].suffix]],
           Leave(r, answer), UNCHANGED <<objects, damaged, uploads, faults>>,
           status = "accepted" => Legal(r) /\ Safe(KeyOf(r))
    PROVE  IInv'
<1>1. holder = r /\ r # None /\ TypeOK /\ Wanted(r) \in Evidence
    BY Inside
<1>2. Moves(r, "done", answer) /\ holder' = None
    BY DEF Leave
<1>3. /\ req' \in [Request -> Req] /\ \A q \in Request \ {r} : req'[q] = req[q]
      /\ req'[r].at = "done"
    BY <1>1, <1>2, MoveTypes, Places
<1>4. Good(r)'
    BY <1>1, <1>2, <1>3 DEF Good, InTransaction, Adding, At, Busy
<1>5. [status |-> status, suffix |-> req[r].suffix] \in Row
    BY <1>1 DEF TypeOK, Req, Row
<1>6. rows' \in [Evidence -> Row]
    BY <1>1, <1>5 DEF TypeOK
<1>7. ASSUME NEW e \in Evidence, rows'[e].status = "accepted", rows'[e] # rows[e]
      PROVE  Stored(e)'
    <2>1. e = Wanted(r) /\ rows'[e] = [status |-> status, suffix |-> req[r].suffix]
        BY <1>1, <1>7 DEF TypeOK
    <2>2. Legal(r) /\ Safe(KeyOf(r)) /\ rows'[e].suffix = req[r].suffix
        BY <1>7, <2>1
    <2>3. e[1] = req[r].source /\ e[2] = req[r].payload
        BY <2>1 DEF Wanted
    <2> QED BY <2>2, <2>3 DEF Stored, Legal, Safe, KeyOf
<1>8. Writes(r)
    BY <1>1, <1>6, <1>7 DEF Writes
<1> QED BY <1>1, <1>2, <1>3, <1>4, <1>8, NoObjectTouched, OneRequest DEF TypeOK

LEMMA RecordKeeps ==
    ASSUME IInv, NEW r \in Request, Record(r)
    PROVE  IInv'
<1>1. InTransaction(r)
    BY DEF Record, At, InTransaction
<1>2. CASE Found(r).status = "none"
    BY <1>1, <1>2, VerdictKeeps DEF Record
<1>3. CASE Found(r).status # "none"
    <2>1. holder = r /\ r # None /\ TypeOK
        BY <1>1, Inside
    <2>2. Moves(r, "done", "invalid") /\ holder' = None /\ rows' = rows
        BY <1>3 DEF Record, Leave
    <2> QED BY <2>1, <2>2, PlainMove, NoObjectTouched, Places DEF Record, TypeOK
<1> QED BY <1>2, <1>3

LEMMA CreateKeeps ==
    ASSUME IInv, NEW r \in Request, Create(r)
    PROVE  IInv'
<1>1. InTransaction(r) /\ Adding(r) /\ Good(r)
    BY DEF Create, At, InTransaction, Adding, IInv
<1>2. Legal(r) /\ Safe(KeyOf(r))
    BY <1>1 DEF Good, Create
<1> QED BY <1>1, <1>2, VerdictKeeps DEF Create

LEMMA BeginKeeps ==
    ASSUME IInv, NEW r \in Request, NEW offer \in Offers, Begin(r, offer[1], offer[2], offer[3])
    PROVE  IInv'
<1> DEFINE source == offer[1]
           suffix == offer[2]
           x == offer[3]
           ok == Passes(source, suffix, x)
           seen == IF Content[x].size = 0 THEN None ELSE Seen(x)
           at == IF ok THEN "passed" ELSE IF seen # None THEN "refused" ELSE "done"
           payload == IF seen = None THEN x ELSE seen
           answer == IF at = "done" THEN "invalid" ELSE "none"
<1>1. source \in Source /\ suffix \in Suffix /\ x \in Payload
    BY ImportAssumption
<1>2. payload \in Payload
    BY <1>1, ImportAssumption DEF Seen, Oversized
<1>3. ok => payload = x
    <2> SUFFICES ASSUME ok PROVE payload = x
        OBVIOUS
    <2>1. Content[x].size \in 1 .. MaxBytes
        BY DEF Passes, SizeFits
    <2>2. Content[x].size # 0 /\ x \notin Oversized
        BY <2>1, ImportAssumption DEF Oversized
    <2> QED BY <2>2 DEF Seen
<1>4. at \in {"passed", "refused", "done"} /\ (at = "passed" <=> ok)
      /\ answer \in {"none", "invalid"} /\ (at # "done" => answer = "none")
    OBVIOUS
<1>5. req' = [req EXCEPT ![r] = [at |-> at, source |-> source, suffix |-> suffix,
                                 payload |-> payload, answer |-> answer]]
    BY DEF Begin
<1> HIDE DEF source, suffix, x, ok, seen, at, payload, answer
<1>6. [at |-> at, source |-> source, suffix |-> suffix, payload |-> payload, answer |-> answer] \in Req
    BY <1>1, <1>2, <1>4 DEF Req, Step, Answer
<1>7. TypeOK /\ Good(r) /\ UNCHANGED <<rows, objects, damaged, holder, faults>> /\ uploads' \in Nat
    BY DEF IInv, TypeOK, Begin
<1>8. /\ req' \in [Request -> Req] /\ \A q \in Request \ {r} : req'[q] = req[q]
      /\ req'[r].at = at /\ req'[r].source = source /\ req'[r].suffix = suffix
      /\ req'[r].payload = payload /\ req'[r].answer = answer
    BY <1>5, <1>6, <1>7 DEF TypeOK
<1>9. holder # r
    BY <1>7 DEF Good, InTransaction, Begin, At
<1>10. ok => Legal(r)'
    BY <1>3, <1>8 DEF Legal, ok
<1>11. Good(r)'
    BY <1>4, <1>7, <1>8, <1>9, <1>10 DEF Good, InTransaction, Adding, At, Busy
<1>12. Writes(r)
    BY <1>7 DEF Writes, TypeOK
<1> QED BY <1>7, <1>8, <1>11, <1>12, NoObjectTouched, OneRequest DEF TypeOK

LEMMA DamageKeeps ==
    ASSUME IInv, NEW k \in Key, Damage(k)
    PROVE  IInv'
<1>1. PICK what \in {"none", "part"} : objects' = [objects EXCEPT ![k] = what]
    BY DEF Damage
<1>2. UNCHANGED <<rows, holder, req, uploads>> /\ damaged' = damaged \cup {k} /\ faults' = faults + 1
    BY DEF Damage
<1>3. TypeOK'
    BY <1>1, <1>2 DEF IInv, TypeOK
<1>4. ASSUME NEW x \in Key, Safe(x) PROVE Safe(x)'
    BY <1>1, <1>2, <1>4 DEF Safe, IInv, TypeOK
<1>5. ASSUME NEW r \in Request PROVE Good(r)'
    <2>1. Good(r) /\ KeyOf(r) \in Key
        BY Names DEF IInv
    <2>2. Safe(KeyOf(r)) => Safe(KeyOf(r))'
        BY <1>2, <1>4, <2>1 DEF KeyOf, Safe
    <2> QED BY <1>2, <2>1, <2>2
            DEF Good, InTransaction, Adding, Found, Wanted, At, Matches, Legal, Busy
<1>6. AcceptedIsStored'
    <2> SUFFICES ASSUME NEW e \in Evidence, rows[e].status = "accepted" PROVE Stored(e)'
        BY <1>2 DEF AcceptedIsStored, Accepted, Safe, Stored
    <2>1. <<e[2], rows[e].suffix>> \in Key /\ Stored(e)
        BY DEF IInv, TypeOK, Row, Key, Evidence, AcceptedIsStored, Accepted, Safe, Stored
    <2> QED BY <1>2, <1>4, <2>1 DEF Stored, Safe
<1> QED BY <1>3, <1>5, <1>6 DEF IInv

LEMMA StepKeeps == IInv /\ [Next]_vars => IInv'
<1> SUFFICES ASSUME IInv, [Next]_vars PROVE IInv'
    OBVIOUS
<1>1. CASE UNCHANGED vars
    BY <1>1 DEF vars, IInv, TypeOK, Good, InTransaction, Adding, Found, Wanted, At, Matches, Legal,
                Busy, Safe, KeyOf, AcceptedIsStored, Accepted
<1>2. ASSUME NEW r \in Request, Work(r) PROVE IInv'
    BY <1>2, LockKeeps, RecordKeeps, LookKeeps, CheckKeeps, StoreKeeps, SaveKeeps, VerifyKeeps,
       CreateKeeps DEF Work
<1>3. ASSUME NEW r \in Request, SaveFails(r) \/ Lost(r) PROVE IInv'
    BY <1>3, SaveFailsKeeps, LostKeeps
<1> QED BY <1>1, <1>2, <1>3, BeginKeeps, DamageKeeps DEF Next

LEMMA AlwaysIInv == Spec => []IInv
BY InitHolds, StepKeeps, PTL DEF Spec

-----------------------------------------------------------------------------
\* Every variable keeps its type, and only verdicts are recorded.
THEOREM TypeCorrect == Spec => []TypeOK
<1>1. IInv => TypeOK
    BY DEF IInv
<1> QED BY <1>1, AlwaysIInv, PTL

\* An accepted import is stored whole and passes the rules of its source, whatever
\* processes were lost while it was stored, unless the storage itself has lost it.
THEOREM StoredWhole == Spec => []AcceptedIsStored
<1>1. IInv => AcceptedIsStored
    BY DEF IInv
<1> QED BY <1>1, AlwaysIInv, PTL

\* The project's row keeps two uploads of the same file from inserting the same row.
THEOREM RowsNeverCollide == Spec => []NoCollision
<1>1. IInv => NoCollision
    BY DEF IInv, Good, NoCollision, Adding, At
<1> QED BY <1>1, AlwaysIInv, PTL

\* A file sent again after it was accepted is never refused for its storage, unless the
\* storage has lost it.
THEOREM AgainHolds == Spec => SentAgain
<1> DEFINE A == \A r \in Request : Busy(r) /\ req'[r].answer = "storage_error" => ~Again(r)
<1>1. ASSUME IInv, [Next]_vars, NEW r \in Request, Busy(r), req'[r].answer = "storage_error", Again(r)
      PROVE  FALSE
    <2>1. /\ Good(r) /\ TypeOK /\ req[r].answer = "none"
          /\ Found(r).status = "accepted" /\ Matches(r)
          /\ KeyOf(r) \notin damaged
        BY <1>1 DEF IInv, Good, Again, Matches
    <2>2. Intact(r)
        <3>1. Wanted(r) \in Evidence /\ rows[Wanted(r)] = Found(r)
              /\ <<Wanted(r)[2], Found(r).suffix>> = KeyOf(r)
            BY <2>1, Names DEF Found, Matches, KeyOf
        <3> QED BY <1>1, <2>1, <3>1 DEF IInv, AcceptedIsStored, Accepted, Intact
    <2>3. ~Adding(r)
        BY <2>1 DEF Good
    <2>4. req'[r] # req[r]
        BY <1>1, <2>1
    <2>5. ASSUME NEW q \in Request, NEW to, NEW answer, Moves(q, to, answer), answer # "storage_error"
          PROVE  FALSE
        BY <1>1, <2>1, <2>4, <2>5 DEF Moves, TypeOK
    <2>6. ASSUME NEW q \in Request, Work(q) \/ SaveFails(q) \/ Lost(q)
          PROVE  q = r
        BY <2>1, <2>4, <2>6
        DEF TypeOK, Work, Moves, Go, Leave, Lock, Record, Look, Check, Store, Save, SaveFails, Verify,
            Create, Lost
    <2>7. ASSUME NEW q \in Request, NEW offer \in Offers, Begin(q, offer[1], offer[2], offer[3])
          PROVE  FALSE
        <3>1. q # r
            BY <1>1, <2>7 DEF Begin, Busy
        <3> QED BY <2>1, <2>4, <2>7, <3>1 DEF Begin, TypeOK
    <2>8. Work(r) \/ SaveFails(r) \/ Lost(r)
        BY <1>1, <2>4, <2>6, <2>7 DEF Next, vars, Damage
    <2>9. ASSUME NEW to, NEW answer, Moves(r, to, answer) PROVE answer = "storage_error"
        BY <2>5, <2>9
    <2>10. ~Store(r) /\ ~Save(r) /\ ~SaveFails(r) /\ ~Verify(r) /\ ~Create(r)
        BY <2>3 DEF Adding, Store, Save, SaveFails, Verify, Create, At
    <2>11. ~Lock(r) /\ ~Record(r) /\ ~Lost(r)
        BY <2>1, <2>9 DEF Lock, Record, Lost, Leave, Go
    <2>12. ~Look(r)
        BY <2>1, <2>9 DEF Look, Leave, Go
    <2>13. ~Check(r)
        BY <2>2, <2>9 DEF Check, Leave
    <2> QED BY <2>8, <2>10, <2>11, <2>12, <2>13 DEF Work
<1>2. IInv /\ [Next]_vars => [A]_vars
    BY <1>1
<1> QED BY <1>2, AlwaysIInv, PTL DEF Spec, SentAgain

\* Uploads implement EvidenceLog: a piece of evidence gets one verdict, and it stands.
THEOREM LogHolds == Spec => KeepsLog
<1>1. Init => Log!Init
    BY DEF Init, Log!Init, Accepted, Rejected
<1>2. ASSUME IInv, NEW r \in Request, NEW status \in {"accepted", "rejected"}, Found(r).status = "none",
             rows' = [rows EXCEPT ![Wanted(r)] = [status |-> status, suffix |-> req[r].suffix]]
      PROVE  Log!Next
    <2>1. Wanted(r) \in Evidence /\ rows \in [Evidence -> Row]
        BY <1>2, Names DEF IInv, TypeOK
    <2>2. Log!Open(Wanted(r))
        BY <1>2 DEF Log!Open, Accepted, Rejected, Found
    <2>3. CASE status = "accepted"
        <3>1. Accepted' = Accepted \cup {Wanted(r)} /\ Rejected' = Rejected
            BY <1>2, <2>1, <2>3 DEF Accepted, Rejected, Found
        <3>2. Log!Accept(Wanted(r))
            BY <2>2, <3>1 DEF Log!Accept
        <3> QED BY <2>1, <3>2 DEF Log!Next
    <2>4. CASE status = "rejected"
        <3>1. Rejected' = Rejected \cup {Wanted(r)} /\ Accepted' = Accepted
            BY <1>2, <2>1, <2>4 DEF Accepted, Rejected, Found
        <3>2. Log!Reject(Wanted(r))
            BY <2>2, <3>1 DEF Log!Reject
        <3> QED BY <2>1, <3>2 DEF Log!Next
    <2> QED BY <2>3, <2>4
<1>3. ASSUME IInv, [Next]_vars PROVE [Log!Next]_<<Accepted, Rejected>>
    <2>1. CASE rows' = rows
        BY <2>1 DEF Accepted, Rejected
    <2>2. ASSUME NEW r \in Request, Record(r), rows' # rows PROVE Log!Next
        BY <1>2, <1>3, <2>2 DEF Record
    <2>3. ASSUME NEW r \in Request, Create(r) PROVE Log!Next
        <3>1. Found(r).status = "none"
            BY <1>3, <2>3 DEF IInv, Good, Create, Adding, At
        <3> QED BY <1>2, <1>3, <2>3, <3>1 DEF Create
    <2> QED
        BY <1>3, <2>1, <2>2, <2>3
        DEF Next, Work, vars, Lock, Look, Check, Store, Save, SaveFails, Verify, Lost, Damage, Begin
<1> QED BY <1>1, <1>3, AlwaysIInv, PTL DEF Spec, KeepsLog, Log!Spec
=============================================================================
