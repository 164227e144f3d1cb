-------------------------- MODULE Packaging_proofs --------------------------
(***************************************************************************)
(* Theorems about Packaging, for any number of workers, builds, versions   *)
(* and losses.                                                             *)
(***************************************************************************)
EXTENDS Packaging, SequenceTheorems, FiniteSetTheorems, TLAPS

(* A worker builds bytes of its own, and what follows a write in the task   *)
(* knows that the write was made.                                          *)
Begun == \A w \in Worker : Building(w) => made[w] \in 1 .. builds
Own == \A w, x \in Worker : Building(w) /\ Building(x) /\ made[w] = made[x] => w = x

Unsaved == {"compiling", "rendered"}
Ahead ==
    \A w \in Worker : pc[w] \in Unsaved => \A row \in Rows : row.bytes # made[w]
Behind ==
    \A w \in Worker :
        /\ Building(w) /\ pc[w] \notin Unsaved =>
               [bytes |-> made[w], version |-> ver[w]] \in Rows
        /\ pc[w] \in {"archived", "published"} => made[w] \in archives

\* The rows, the archives and the manifests fit each other.
OneRow == \A r, q \in Rows : r.bytes = q.bytes => r = q
Numbered == \A row \in Rows : row.bytes \in 1 .. builds
Archived == \A b \in archives : \E row \in Rows : row.bytes = b
Listed ==
    \A v \in DOMAIN manifests :
        /\ manifests[v] \in archives
        /\ [bytes |-> manifests[v], version |-> v] \in Rows

Sound ==
    /\ Begun /\ Own /\ Ahead /\ Behind
    /\ OneRow /\ Numbered /\ Archived /\ Listed
    /\ ReadyIsKept

IInv == TypeOK /\ Sound

-----------------------------------------------------------------------------
\* A new row is one row more.
LEMMA OfAppend ==
    ASSUME artifacts \in Seq(Row), NEW r \in Row, artifacts' = Append(artifacts, r)
    PROVE  artifacts' \in Seq(Row) /\ Rows' = Rows \cup {r}
<1>1. /\ artifacts' \in Seq(Row)
      /\ Len(artifacts') = Len(artifacts) + 1
      /\ \A i \in 1 .. Len(artifacts) : artifacts'[i] = artifacts[i]
      /\ artifacts'[Len(artifacts) + 1] = r
    BY AppendProperties
<1>2. Len(artifacts) \in Nat
    OBVIOUS
<1>3. ASSUME NEW i \in 1 .. Len(artifacts') PROVE artifacts'[i] \in Rows \cup {r}
    BY <1>1, <1>2, <1>3 DEF Rows
<1>4. ASSUME NEW i \in 1 .. Len(artifacts) PROVE artifacts[i] \in Rows'
    BY <1>1, <1>2, <1>4 DEF Rows
<1>5. r \in Rows'
    BY <1>1, <1>2 DEF Rows
<1> QED BY <1>1, <1>3, <1>4, <1>5 DEF Rows

LEMMA RowTypes == TypeOK => Rows \subseteq Row
BY DEF TypeOK, Rows

(* Most steps only end work, or move it on without writing.                *)
Calm ==
    /\ UNCHANGED <<builds, artifacts, archives, manifests>>
    /\ objects' \subseteq objects
    /\ \A w \in Worker :
          Building(w)' =>
              /\ made'[w] = made[w] /\ ver'[w] = ver[w]
              /\ pc'[w] = pc[w] \/ (pc[w] = "compiling" /\ pc'[w] = "rendered")
    /\ status' = "succeeded" =>
          status = "succeeded" \/ \E w \in Worker : pc[w] = "published"

(* The type invariant in parts that a step keeps or disturbs as a whole.    *)
RunTypes == state \in RunState /\ version \in Nat /\ losses \in Nat /\ queue \in Nat
StageTypes == status \in Status /\ late \in BOOLEAN
TaskTypes ==
    /\ pc \in [Worker -> {"idle", "due"} \cup BuildStep]
    /\ ver \in [Worker -> Nat]
    /\ made \in [Worker -> 0 .. builds]
    /\ builds \in Nat
FileTypes ==
    /\ objects \subseteq 1 .. builds
    /\ artifacts \in Seq(Row)
    /\ archives \subseteq 1 .. builds
    /\ DOMAIN manifests \subseteq Nat
    /\ manifests \in [DOMAIN manifests -> 1 .. builds]

LEMMA TypeParts == TypeOK <=> RunTypes /\ StageTypes /\ TaskTypes /\ FileTypes
BY DEF TypeOK, RunTypes, StageTypes, TaskTypes, FileTypes

LEMMA TypeInit == Init => TypeOK
<1> SUFFICES ASSUME Init PROVE TypeOK
    OBVIOUS
<1>1. manifests = [v \in {} |-> 0] /\ DOMAIN manifests = {}
    BY DEF Init
<1>2. manifests \in [DOMAIN manifests -> 1 .. builds]
    BY <1>1
<1>3. artifacts \in Seq(Row)
    BY DEF Init
<1>4. FileTypes
    BY <1>1, <1>2, <1>3 DEF Init, FileTypes
<1>5. RunTypes /\ StageTypes
    BY DEF Init, RunTypes, StageTypes, RunState, Status
<1>6. TaskTypes
    BY DEF Init, TaskTypes
<1> QED BY <1>4, <1>5, <1>6, TypeParts

LEMMA NextCases ==
    ASSUME [Next]_vars,
           NEW P,
           UNCHANGED vars => P,
           Dispatch => P,
           \A w \in Worker :
               /\ Look(w) => P
               /\ Begin(w) => P
               /\ Progress(w) => P
               /\ Save(w) => P
               /\ Archive(w) => P
               /\ Publish(w) => P
               /\ Finish(w) => P
               /\ Fail(w) => P
               /\ Abort(w) => P
               /\ Crash(w) => P,
           Redeploy => P, Expire => P, Scan => P, AuditFails => P,
           \A to \in RunState : Move(to) => P
    PROVE  P
BY DEF Next, Work, Heartbeat

LEMMA RunTypeStep == TypeOK /\ [Next]_vars => RunTypes'
<1> SUFFICES ASSUME TypeOK, [Next]_vars PROVE RunTypes'
    OBVIOUS
<1>0. RunTypes
    BY TypeParts
<1> USE <1>0 DEF RunTypes, run
<1>1. CASE Dispatch
    BY <1>1 DEF Dispatch
<1>2. ASSUME NEW w \in Worker, Look(w) PROVE RunTypes'
    BY <1>2 DEF Look
<1>3. ASSUME NEW w \in Worker, Begin(w) PROVE RunTypes'
    BY <1>3 DEF Begin
<1>4. ASSUME NEW w \in Worker, Progress(w) \/ Save(w) \/ Archive(w) \/ Publish(w)
      PROVE  RunTypes'
    BY <1>4 DEF Progress, Save, Archive, Publish, Step
<1>5. ASSUME NEW w \in Worker, Finish(w) \/ Fail(w) \/ Abort(w) PROVE RunTypes'
    BY <1>5 DEF Finish, Fail, Abort, Close
<1>6. ASSUME NEW w \in Worker, Crash(w) PROVE RunTypes'
    BY <1>6 DEF Crash
<1>7. CASE Redeploy
    <2>1. Cardinality({w \in Worker : pc[w] # "idle"}) \in Nat
        BY FS_Subset, FS_CardinalityType, PackagingAssumption
    <2> QED BY <1>7, <2>1 DEF Redeploy
<1>8. CASE Expire
    BY <1>8 DEF Expire
<1>9. CASE Scan
    BY <1>9 DEF Scan, RunState
<1>10. CASE AuditFails
    BY <1>10 DEF AuditFails
<1>11. ASSUME NEW to \in RunState, Move(to) PROVE RunTypes'
    BY <1>11 DEF Move
<1>12. CASE UNCHANGED vars
    BY <1>12 DEF vars
<1> QED BY <1>1, <1>2, <1>3, <1>4, <1>5, <1>6, <1>7, <1>8, <1>9, <1>10, <1>11, <1>12, NextCases

LEMMA StageTypeStep == TypeOK /\ [Next]_vars => StageTypes'
<1> SUFFICES ASSUME TypeOK, [Next]_vars PROVE StageTypes'
    OBVIOUS
<1>0. StageTypes
    BY TypeParts
<1> USE <1>0 DEF StageTypes, Status, stage
<1>1. ASSUME NEW w \in Worker, Look(w) \/ Begin(w) \/ Progress(w) PROVE StageTypes'
    BY <1>1 DEF Look, Begin, Progress
<1>2. ASSUME NEW w \in Worker, Save(w) \/ Archive(w) \/ Publish(w) PROVE StageTypes'
    BY <1>2 DEF Save, Archive, Publish
<1>3. ASSUME NEW w \in Worker, Finish(w) \/ Fail(w) PROVE StageTypes'
    BY <1>3 DEF Finish, Fail, Close
<1>4. ASSUME NEW w \in Worker, Abort(w) \/ Crash(w) PROVE StageTypes'
    BY <1>4 DEF Abort, Crash
<1>5. ASSUME Dispatch \/ Redeploy \/ Expire \/ Scan \/ AuditFails PROVE StageTypes'
    BY <1>5 DEF Dispatch, Redeploy, Expire, Scan, AuditFails
<1>6. ASSUME NEW to \in RunState, Move(to) PROVE StageTypes'
    BY <1>6 DEF Move
<1>7. CASE UNCHANGED vars
    BY <1>7 DEF vars
<1> QED BY <1>1, <1>2, <1>3, <1>4, <1>5, <1>6, <1>7, NextCases

LEMMA TaskTypeStep == TypeOK /\ [Next]_vars => TaskTypes'
<1> SUFFICES ASSUME TypeOK, [Next]_vars PROVE TaskTypes'
    OBVIOUS
<1>0. TaskTypes
    BY TypeParts
<1> USE <1>0 DEF TaskTypes, task, Go, BuildStep
<1>1. ASSUME NEW w \in Worker, Look(w) PROVE TaskTypes'
    BY <1>1 DEF Look, TypeOK
<1>2. ASSUME NEW w \in Worker, Begin(w) PROVE TaskTypes'
    BY <1>2 DEF Begin
<1>3. ASSUME NEW w \in Worker, Progress(w) \/ Save(w) \/ Archive(w) \/ Publish(w)
      PROVE  TaskTypes'
    BY <1>3 DEF Progress, Save, Archive, Publish, Step
<1>4. ASSUME NEW w \in Worker, Done(w) PROVE TaskTypes'
    BY <1>4 DEF Done
<1>5. ASSUME NEW w \in Worker, Finish(w) \/ Fail(w) \/ Abort(w) \/ Crash(w)
      PROVE  TaskTypes'
    BY <1>4, <1>5 DEF Finish, Fail, Close, Abort, Crash
<1>6. ASSUME Dispatch \/ Expire \/ Scan \/ AuditFails PROVE TaskTypes'
    BY <1>6 DEF Dispatch, Expire, Scan, AuditFails
<1>7. CASE Redeploy
    BY <1>7 DEF Redeploy
<1>8. ASSUME NEW to \in RunState, Move(to) PROVE TaskTypes'
    BY <1>8 DEF Move
<1>9. CASE UNCHANGED vars
    BY <1>9 DEF vars
<1> QED BY <1>1, <1>2, <1>3, <1>5, <1>6, <1>7, <1>8, <1>9, NextCases

\* Only four kinds of step are not calm.
LEMMA Calmness ==
    TypeOK /\ [Next]_vars =>
        Calm \/ \E w \in Worker : Begin(w) \/ Save(w) \/ Archive(w) \/ Publish(w)
<1> SUFFICES ASSUME TypeOK, [Next]_vars,
                    ~ \E w \in Worker : Begin(w) \/ Save(w) \/ Archive(w) \/ Publish(w)
             PROVE  Calm
    OBVIOUS
<1>0. TaskTypes
    BY TypeParts
<1> USE <1>0 DEF Calm, TaskTypes, task, files, stage, Go, Building, BuildStep
<1>1. ASSUME NEW w \in Worker, Look(w) PROVE Calm
    BY <1>1 DEF Look
<1>2. ASSUME NEW w \in Worker, Progress(w) PROVE Calm
    BY <1>2 DEF Progress, Step
<1>3. ASSUME NEW w \in Worker, Finish(w) \/ Fail(w) \/ Abort(w) \/ Crash(w) PROVE Calm
    BY <1>3 DEF Finish, Fail, Close, Abort, Crash, Done
<1>4. ASSUME Dispatch \/ Expire \/ Scan \/ AuditFails PROVE Calm
    BY <1>4 DEF Dispatch, Expire, Scan, AuditFails
<1>5. CASE Redeploy
    BY <1>5 DEF Redeploy
<1>6. ASSUME NEW to \in RunState, Move(to) PROVE Calm
    BY <1>6 DEF Move
<1>7. CASE UNCHANGED vars
    BY <1>7 DEF vars
<1> QED BY <1>1, <1>2, <1>3, <1>4, <1>5, <1>6, <1>7, NextCases

LEMMA FileTypeStep == TypeOK /\ Begun /\ [Next]_vars => FileTypes'
<1> SUFFICES ASSUME TypeOK, Begun, [Next]_vars PROVE FileTypes'
    OBVIOUS
<1>0. FileTypes /\ TaskTypes
    BY TypeParts
<1> USE <1>0 DEF FileTypes
<1>1. ASSUME NEW w \in Worker, Begin(w) PROVE FileTypes'
    BY <1>1 DEF Begin, files, TaskTypes
<1>2. ASSUME NEW w \in Worker, Save(w) PROVE FileTypes'
    <2>1. [bytes |-> made[w], version |-> ver[w]] \in Row
        BY DEF TaskTypes, Row
    <2>2. artifacts' \in Seq(Row)
        BY <1>2, <2>1, OfAppend DEF Save
    <2> QED BY <1>2, <2>2 DEF Save, Step, Begun, Building, BuildStep
<1>3. ASSUME NEW w \in Worker, Archive(w) PROVE FileTypes'
    BY <1>3 DEF Archive, Step, Begun, Building, BuildStep
<1>4. ASSUME NEW w \in Worker, Publish(w) PROVE FileTypes'
    <2>1. made[w] \in 1 .. builds /\ ver[w] \in Nat
        BY <1>4 DEF Publish, Step, Begun, Building, BuildStep, TaskTypes
    <2> QED BY <1>4, <2>1 DEF Publish, Step
<1>5. CASE Calm
    BY <1>5 DEF Calm
<1> QED BY <1>1, <1>2, <1>3, <1>4, <1>5, Calmness

LEMMA TypeStep == TypeOK /\ Begun /\ [Next]_vars => TypeOK'
<1>1. TypeOK' <=> RunTypes' /\ StageTypes' /\ TaskTypes' /\ FileTypes'
    BY DEF TypeOK, RunTypes, StageTypes, TaskTypes, FileTypes
<1> QED BY <1>1, RunTypeStep, StageTypeStep, TaskTypeStep, FileTypeStep

-----------------------------------------------------------------------------
LEMMA SoundInit == Init => Sound
<1> SUFFICES ASSUME Init PROVE Sound
    OBVIOUS
<1>1. Rows = {} /\ archives = {} /\ DOMAIN manifests = {}
    BY DEF Init, Rows
<1> QED BY <1>1 DEF Init, Sound, Begun, Own, Ahead, Behind, OneRow, Numbered, Archived,
                    Listed, ReadyIsKept, Building, BuildStep, Unsaved

LEMMA SoundCalm == IInv /\ Calm => Sound'
<1> SUFFICES ASSUME IInv, Calm PROVE Sound'
    OBVIOUS
<1> USE DEF IInv, Sound
<1>0. Rows' = Rows /\ UNCHANGED <<builds, archives, manifests>>
    BY DEF Calm, Rows
<1>1. ASSUME NEW w \in Worker, Building(w)'
      PROVE  /\ Building(w) /\ made'[w] = made[w] /\ ver'[w] = ver[w]
             /\ pc'[w] = pc[w] \/ (pc[w] \in Unsaved /\ pc'[w] \in Unsaved)
    BY <1>1 DEF Calm, Building, BuildStep, Unsaved
<1>2. Begun' /\ Own'
    BY <1>0, <1>1 DEF Begun, Own
<1>3. Ahead'
    BY <1>0, <1>1 DEF Ahead, Building, Unsaved, BuildStep
<1>4. Behind'
    BY <1>0, <1>1 DEF Behind, Building, Unsaved, BuildStep
<1>5. OneRow' /\ Numbered' /\ Archived' /\ Listed'
    BY <1>0 DEF OneRow, Numbered, Archived, Listed
<1>6. ReadyIsKept'
    <2> SUFFICES ASSUME status' = "succeeded" PROVE \E row \in Rows : row.bytes \in archives
        BY <1>0 DEF ReadyIsKept
    <2>1. CASE status = "succeeded"
        BY <2>1 DEF ReadyIsKept
    <2>2. ASSUME NEW w \in Worker, pc[w] = "published"
          PROVE  \E row \in Rows : row.bytes \in archives
        BY <2>2 DEF Behind, Building, Unsaved, BuildStep
    <2> QED BY <2>1, <2>2 DEF Calm
<1> QED BY <1>2, <1>3, <1>4, <1>5, <1>6

\* The next number is nobody's yet.
LEMMA SoundBegin == ASSUME NEW w \in Worker, IInv, Begin(w) PROVE Sound'
<1> USE DEF IInv, Sound
<1>0. /\ Rows' = Rows /\ UNCHANGED <<ver, archives, manifests>>
      /\ builds \in Nat /\ builds' = builds + 1
      /\ status' = "running"
    BY DEF Begin, Rows, files, TypeOK
<1>1. /\ pc'[w] = "compiling" /\ made'[w] = builds + 1
      /\ \A x \in Worker \ {w} : pc'[x] = pc[x] /\ made'[x] = made[x]
    BY DEF Begin, Go, TypeOK
<1>2. Begun'
    BY <1>0, <1>1 DEF Begun, Building
<1>3. Own'
    <2>1. ASSUME NEW x \in Worker \ {w}, Building(x)' PROVE made'[x] \in 1 .. builds
        BY <1>1, <2>1 DEF Begun, Building
    <2>2. ASSUME NEW x \in Worker \ {w}, Building(x)' PROVE Building(x) /\ made'[x] = made[x]
        BY <1>1, <2>2 DEF Building
    <2>3. ASSUME NEW x \in Worker \ {w}, Building(x)' PROVE made'[x] # made'[w]
        BY <1>0, <1>1, <2>1, <2>3
    <2> QED BY <2>2, <2>3 DEF Own
<1>4. Ahead'
    <2>1. \A row \in Rows : row.bytes # made'[w]
        BY <1>0, <1>1 DEF Numbered
    <2> QED BY <1>0, <1>1, <2>1 DEF Ahead
<1>5. Behind'
    BY <1>0, <1>1 DEF Behind, Building, Unsaved
<1>6. OneRow' /\ Numbered' /\ Archived' /\ Listed' /\ ReadyIsKept'
    BY <1>0 DEF OneRow, Numbered, Archived, Listed, ReadyIsKept
<1> QED BY <1>2, <1>3, <1>4, <1>5, <1>6

\* What the writing steps of a build have in common.
LEMMA Steps ==
    ASSUME NEW w \in Worker, NEW from, NEW to \in BuildStep, TypeOK, Step(w, from, to)
    PROVE  /\ pc[w] = from /\ pc'[w] = to
           /\ \A x \in Worker \ {w} : pc'[x] = pc[x]
           /\ UNCHANGED <<ver, made, builds>>
BY DEF Step, Go, TypeOK

LEMMA SoundSave == ASSUME NEW w \in Worker, IInv, Save(w) PROVE Sound'
<1> DEFINE new == [bytes |-> made[w], version |-> ver[w]]
<1> USE DEF IInv, Sound
<1>0. /\ pc[w] = "rendered" /\ pc'[w] = "saved"
      /\ \A x \in Worker \ {w} : pc'[x] = pc[x]
      /\ UNCHANGED <<ver, made, builds, archives, manifests, status>>
    BY Steps DEF Save, BuildStep, stage
<1>1. new \in Row /\ Rows \subseteq Row
    BY RowTypes DEF TypeOK, Row
<1>2. Rows' = Rows \cup {new}
    BY <1>1, OfAppend DEF Save, TypeOK
<1>3. new.bytes = made[w] /\ made[w] \in 1 .. builds /\ Building(w)
    BY <1>0 DEF Begun, Building, BuildStep
<1>4. \A row \in Rows : row.bytes # made[w]
    BY <1>0 DEF Ahead, Unsaved
<1>5. Begun' /\ Own'
    BY <1>0, <1>3 DEF Begun, Own, Building
<1>6. Ahead'
    BY <1>0, <1>2, <1>3 DEF Ahead, Own, Building, Unsaved, BuildStep
<1>7. Behind'
    BY <1>0, <1>2 DEF Behind, Building, Unsaved
<1>8. OneRow' /\ Numbered'
    BY <1>0, <1>2, <1>3, <1>4 DEF OneRow, Numbered
<1>9. Archived' /\ Listed' /\ ReadyIsKept'
    BY <1>0, <1>2 DEF Archived, Listed, ReadyIsKept
<1> QED BY <1>5, <1>6, <1>7, <1>8, <1>9

LEMMA SoundArchive == ASSUME NEW w \in Worker, IInv, Archive(w) PROVE Sound'
<1> USE DEF IInv, Sound
<1>0. /\ pc[w] = "saved" /\ pc'[w] = "archived"
      /\ \A x \in Worker \ {w} : pc'[x] = pc[x]
      /\ UNCHANGED <<ver, made, builds, manifests, status>>
      /\ archives' = archives \cup {made[w]}
    BY Steps DEF Archive, BuildStep, stage
<1>1. Rows' = Rows
    BY DEF Archive, Rows
<1>2. Building(w) /\ [bytes |-> made[w], version |-> ver[w]] \in Rows
    BY <1>0 DEF Behind, Building, BuildStep, Unsaved
<1>3. Begun' /\ Own'
    BY <1>0, <1>2 DEF Begun, Own, Building
<1>4. Ahead' /\ Behind'
    BY <1>0, <1>1, <1>2 DEF Ahead, Behind, Building, Unsaved
<1>5. OneRow' /\ Numbered' /\ Archived' /\ Listed' /\ ReadyIsKept'
    BY <1>0, <1>1, <1>2 DEF OneRow, Numbered, Archived, Listed, ReadyIsKept
<1> QED BY <1>3, <1>4, <1>5

LEMMA SoundPublish == ASSUME NEW w \in Worker, IInv, Publish(w) PROVE Sound'
<1> USE DEF IInv, Sound
<1>0. /\ pc[w] = "archived" /\ pc'[w] = "published"
      /\ \A x \in Worker \ {w} : pc'[x] = pc[x]
      /\ UNCHANGED <<ver, made, builds, archives, status>>
    BY Steps DEF Publish, BuildStep, stage
<1>1. Rows' = Rows
    BY DEF Publish, Rows
<1>2. /\ Building(w) /\ made[w] \in archives
      /\ [bytes |-> made[w], version |-> ver[w]] \in Rows
    BY <1>0 DEF Behind, Building, BuildStep, Unsaved
<1>3. Begun' /\ Own'
    BY <1>0, <1>2 DEF Begun, Own, Building
<1>4. Ahead' /\ Behind'
    BY <1>0, <1>1, <1>2 DEF Ahead, Behind, Building, Unsaved
<1>5. Listed'
    <2>1. \A v \in DOMAIN manifests' :
              \/ v \in DOMAIN manifests /\ manifests'[v] = manifests[v]
              \/ v = ver[w] /\ manifests'[v] = made[w]
        BY DEF Publish
    <2> QED BY <1>0, <1>1, <1>2, <2>1 DEF Listed
<1>6. OneRow' /\ Numbered' /\ Archived' /\ ReadyIsKept'
    BY <1>0, <1>1 DEF OneRow, Numbered, Archived, ReadyIsKept
<1> QED BY <1>3, <1>4, <1>5, <1>6

LEMMA Induction == IInv /\ [Next]_vars => IInv'
<1> SUFFICES ASSUME IInv, [Next]_vars PROVE IInv'
    OBVIOUS
<1>1. TypeOK'
    BY TypeStep DEF IInv, Sound
<1>2. Sound'
    BY Calmness, SoundCalm, SoundBegin, SoundSave, SoundArchive, SoundPublish DEF IInv
<1> QED BY <1>1, <1>2 DEF IInv

LEMMA Invariance == Spec => []IInv
<1>1. Init => IInv
    BY TypeInit, SoundInit DEF IInv
<1> QED BY <1>1, Induction, PTL DEF Spec

\* Every variable keeps its type; that objects, archives and manifests name
\* builds that have begun needs the numbering of the builds.
THEOREM TypeCorrect == Spec => []TypeOK
<1>1. IInv => TypeOK
    BY DEF IInv
<1> QED BY <1>1, Invariance, PTL

\* A stage says "Package ready" only with an archived package behind it, because
\* build_package_for_run archives the bytes before the task saves its stage.
THEOREM ReadyKept == Spec => []ReadyIsKept
<1>1. IInv => ReadyIsKept
    BY DEF IInv, Sound
<1> QED BY <1>1, Invariance, PTL

-----------------------------------------------------------------------------
(* The refinement.                                                         *)
Kept == {row \in Rows : row.bytes \in archives}

LEMMA ShelfInit == Init => Shelf!SInit
BY DEF Init, Shelf!SInit, Rows

LEMMA ShelfStep == IInv /\ [Next]_vars => [Shelf!Put \/ Shelf!List]_(Shelf!svars)
<1> SUFFICES ASSUME IInv, [Next]_vars PROVE [Shelf!Put \/ Shelf!List]_(Shelf!svars)
    OBVIOUS
<1> USE DEF IInv, Sound
<1>1. ASSUME UNCHANGED <<Rows, archives, manifests>> PROVE UNCHANGED Shelf!svars
    BY <1>1 DEF Shelf!svars
<1>2. CASE Calm
    BY <1>1, <1>2 DEF Calm, Rows
<1>3. ASSUME NEW w \in Worker, Begin(w) PROVE UNCHANGED Shelf!svars
    BY <1>1, <1>3 DEF Begin, files, Rows
<1>4. ASSUME NEW w \in Worker, Save(w) PROVE UNCHANGED Shelf!svars
    <2> DEFINE new == [bytes |-> made[w], version |-> ver[w]]
    <2>1. Rows' = Rows \cup {new}
        BY <1>4, OfAppend DEF Save, TypeOK, Row
    <2>2. made[w] \notin archives
        BY <1>4 DEF Save, Step, Ahead, Archived, Unsaved
    <2>3. Kept' = Kept
        BY <1>4, <2>1, <2>2 DEF Kept, Save
    <2> QED BY <1>4, <2>3 DEF Shelf!svars, Kept, Save
<1>5. ASSUME NEW w \in Worker, Archive(w) PROVE Shelf!Put
    <2> DEFINE row == [bytes |-> made[w], version |-> ver[w]]
    <2>1. row \in Rows
        BY <1>5 DEF Archive, Step, Behind, Building, BuildStep, Unsaved
    <2>2. Rows' = Rows /\ manifests' = manifests /\ archives' = archives \cup {row.bytes}
        BY <1>5 DEF Archive, Rows
    <2>3. Kept' = Kept \cup {row}
        BY <2>1, <2>2 DEF Kept, OneRow
    <2>4. row \in Kept'
        BY <2>1, <2>2 DEF Kept
    <2> QED BY <2>2, <2>3, <2>4 DEF Shelf!Put, Kept
<1>6. ASSUME NEW w \in Worker, Publish(w) PROVE Shelf!List \/ UNCHANGED Shelf!svars
    <2> DEFINE row == [bytes |-> made[w], version |-> ver[w]]
    <2>1. row \in Kept
        BY <1>6 DEF Publish, Step, Behind, Building, BuildStep, Unsaved, Kept
    <2>2. Rows' = Rows /\ archives' = archives
        BY <1>6 DEF Publish, Rows
    <2>3. manifests \in [DOMAIN manifests -> 1 .. builds]
        BY DEF TypeOK
    <2>4. CASE ver[w] \in DOMAIN manifests
        <3>1. DOMAIN manifests \cup {ver[w]} = DOMAIN manifests
            BY <2>4
        <3>2. manifests' = [v \in DOMAIN manifests |-> manifests[v]]
            BY <1>6, <3>1 DEF Publish
        <3> QED BY <1>1, <2>2, <2>3, <3>2
    <2>5. CASE ver[w] \notin DOMAIN manifests
        <3>1. manifests' = [v \in DOMAIN manifests \cup {row.version} |->
                               IF v = row.version THEN row.bytes ELSE manifests[v]]
            BY <1>6, <2>5 DEF Publish
        <3> QED BY <2>1, <2>2, <2>5, <3>1 DEF Shelf!List, Kept
    <2> QED BY <2>4, <2>5
<1> QED BY <1>2, <1>3, <1>4, <1>5, <1>6, Calmness

\* Builds that overlap, fail, are lost or are delivered twice take no archived
\* package off the shelf, and a version's manifest names one of its own packages
\* for good.
THEOREM KeepsThem == Spec => KeepsPackages
BY ShelfInit, ShelfStep, Invariance, PTL DEF Spec, KeepsPackages, Shelf!SSpec

-----------------------------------------------------------------------------
\* A build that takes the stage over stamps a heartbeat before its first write,
\* so that the scan does not fail it for the silence of the build before.
THEOREM Stamped == Spec => []NoInheritedSilence
<1>1. Init => NoInheritedSilence
    BY DEF Init, NoInheritedSilence
<1>2. TypeOK /\ NoInheritedSilence /\ [Next]_vars => NoInheritedSilence'
    <2> SUFFICES ASSUME TypeOK, NoInheritedSilence, [Next]_vars PROVE NoInheritedSilence'
        OBVIOUS
    <2> USE DEF NoInheritedSilence, Building, BuildStep, Go, stage, task, TypeOK
    <2>1. ASSUME NEW w \in Worker, Look(w) PROVE NoInheritedSilence'
        BY <2>1 DEF Look
    <2>2. ASSUME NEW w \in Worker, Begin(w) \/ Progress(w) PROVE NoInheritedSilence'
        BY <2>2 DEF Begin, Progress
    <2>3. ASSUME NEW w \in Worker, Save(w) \/ Archive(w) \/ Publish(w)
          PROVE  NoInheritedSilence'
        BY <2>3 DEF Save, Archive, Publish, Step
    <2>4. ASSUME NEW w \in Worker, Finish(w) \/ Fail(w) PROVE NoInheritedSilence'
        BY <2>4 DEF Finish, Fail, Close
    <2>5. ASSUME NEW w \in Worker, Abort(w) \/ Crash(w) PROVE NoInheritedSilence'
        BY <2>5 DEF Abort, Crash, Done
    <2>6. ASSUME Dispatch \/ Expire \/ Scan \/ AuditFails PROVE NoInheritedSilence'
        BY <2>6 DEF Dispatch, Expire, Scan, AuditFails
    <2>7. CASE Redeploy
        BY <2>7 DEF Redeploy
    <2>8. ASSUME NEW to \in RunState, Move(to) PROVE NoInheritedSilence'
        BY <2>8 DEF Move
    <2>9. CASE UNCHANGED vars
        BY <2>9 DEF vars
    <2> QED BY <2>1, <2>2, <2>3, <2>4, <2>5, <2>6, <2>7, <2>8, <2>9, NextCases
<1> QED BY <1>1, <1>2, TypeCorrect, PTL DEF Spec
=============================================================================
