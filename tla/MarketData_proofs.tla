-------------------------- MODULE MarketData_proofs --------------------------
(***************************************************************************)
(* Theorems about MarketData, for any number of workers, runs, deliveries  *)
(* and failures.                                                           *)
(***************************************************************************)
EXTENDS MarketData, TLAPS

-----------------------------------------------------------------------------
(* What the operators on a job return.                                     *)

LEMMA PlanCalls ==
    ASSUME MarketAssumption, NEW j \in Job, j.next <= Len(Plan(j))
    PROVE  Planned(j) \in Calls /\ Planned(j) \in Call
<1> DEFINE t == IF Real(j) THEN Tier ELSE "standard"
<1>0. DOMAIN PLANS = {"lite", "standard", "deep"}
    BY Zenon DEF PLANS
<1>1. t \in {"lite", "standard", "deep"} /\ t \in {Tier, "standard"}
    BY <1>0 DEF MarketAssumption
<1>2. PLANS[t] \in Seq(Call)
  <2> USE DEF PlannedCall, Call, Report
  <2>1. PLANS["lite"] \in Seq(Call)
      BY DEF PLANS
  <2>2. PLANS["standard"] \in Seq(Call)
      BY DEF PLANS
  <2>3. PLANS["deep"] \in Seq(Call)
      BY DEF PLANS
  <2> QED BY <1>1, <2>1, <2>2, <2>3
<1>3. j.next \in DOMAIN PLANS[t]
    BY <1>2 DEF Plan, Job
<1>4. Planned(j) = PLANS[t][j.next]
    BY DEF Planned, Plan
<1>5. Planned(j) \in Call
    BY <1>2, <1>3, <1>4
<1> QED BY <1>1, <1>3, <1>4, <1>5 DEF Calls

LEMMA Costs == ASSUME NEW c \in Call PROVE EstimateUnits(c) \in Nat
<1>1. PerLineUnits[c.report] \in Nat /\ c.lines \in Nat /\ FlatUnits \in Nat
    BY DEF Call, PerLineUnits, Report, FlatUnits
<1> QED BY <1>1 DEF EstimateUnits

LEMMA Bodies == NoBody \notin Body
BY DEF NoBody, Body, Source

LEMMA FreshJob ==
    ASSUME NEW r \in Run, NEW n \in Delivery \cup {0}, NEW k \in BOOLEAN
    PROVE  Fresh(r, n, k) \in Job
<1>1. NoneGot \in [Report -> Body \cup {NoBody}]
    BY DEF NoneGot
<1>2. NewBreaker \in Breaker
    BY DEF NewBreaker, Breaker
<1>3. "collect" \in Step /\ "real" \in Round /\ 0 \in Size /\ 1 \in Nat \ {0}
    BY DEF Step, Round, Size
<1> QED BY <1>1, <1>2, <1>3 DEF Fresh, Job

LEMMA IdleJob == ASSUME MarketAssumption PROVE Idle \in Job /\ Idle.at = "idle" /\ Idle.no = 0
<1>1. (CHOOSE r \in Run : TRUE) \in Run
    BY DEF MarketAssumption
<1>2. Fresh(CHOOSE r \in Run : TRUE, 0, FALSE) \in Job
    BY <1>1, FreshJob
<1> QED BY <1>2 DEF Idle, Job, Step, Fresh

LEMMA PassJob == ASSUME NEW j \in Job PROVE Pass(j) \in Job
<1>1. "collect" \in Step /\ j.next + 1 \in Nat \ {0}
    BY DEF Step, Job
<1> QED BY <1>1 DEF Pass, Job

LEMMA TakeJob ==
    ASSUME NEW j \in Job, Planned(j) \in Call, NEW body \in Body
    PROVE  Take(j, body) \in Job
<1>1. Pass(j) \in Job /\ Planned(j).report \in Report
    BY PassJob DEF Call
<1>2. [Pass(j).got EXCEPT ![Planned(j).report] = body] \in [Report -> Body \cup {NoBody}]
    BY <1>1 DEF Job
<1>3. (GatesOnData(Planned(j)) /\ body.size = 0) \in BOOLEAN
    OBVIOUS
<1> DEFINE k == [Pass(j) EXCEPT !.got = [@ EXCEPT ![Planned(j).report] = body]]
<1>4. k \in Job
    BY <1>1, <1>2 DEF Job
<1>5. Take(j, body) = [k EXCEPT !.skip = GatesOnData(Planned(j)) /\ body.size = 0]
    BY DEF Take
<1> QED BY <1>3, <1>4, <1>5 DEF Job

LEMMA ChargeJob ==
    ASSUME NEW j \in Job, Planned(j) \in Call
    PROVE  /\ Charge(j) \in Job
           /\ Charge(j).spent = j.spent + EstimateUnits(Planned(j))
<1>1. EstimateUnits(Planned(j)) \in Nat
    BY Costs
<1>2. NewBreaker \in Breaker
    BY DEF NewBreaker, Breaker
<1>3. j.spent + EstimateUnits(Planned(j)) \in Nat
    BY <1>1 DEF Job
<1> QED BY <1>2, <1>3 DEF Charge, Job, RecordSuccess

-----------------------------------------------------------------------------
(* Types, and what makes them inductive: a delivery at work has a number,  *)
(* and it asks for a call of its plan and marks a family of the top-ups.   *)

Shaped(j) ==
    /\ j.at # "idle" => j.no \in 1 .. started
    /\ j.at = "asking" => j.next <= Len(Plan(j))
    /\ j.at = "mark" => j.next \in 1 .. 2

Shape == \A w \in Worker : Shaped(job[w])

LEMMA PutShape ==
    ASSUME TypeOK, Shape, NEW w \in Worker, NEW k \in Job, Put(w, k),
           started' \in 0 .. MaxStarts, started <= started',
           k.at # "idle" => k.no \in 1 .. started',
           k.at = "asking" => k.next <= Len(Plan(k)),
           k.at = "mark" => k.next \in 1 .. 2
    PROVE  job' \in [Worker -> Job] /\ Shape'
<1>1. job' = [job EXCEPT ![w] = k] /\ job \in [Worker -> Job]
    BY DEF Put, TypeOK
<1>2. ASSUME NEW v \in Worker PROVE Shaped(job[v])'
  <2>1. CASE v = w
    BY <1>1, <2>1 DEF Shaped, Plan, Real
  <2>2. CASE v # w
    BY <1>1, <2>2 DEF Shape, Shaped, Plan, Real, TypeOK
  <2> QED BY <2>1, <2>2
<1> QED BY <1>1, <1>2 DEF Shape

LEMMA Keep ==
    ASSUME TypeOK, Shape, UNCHANGED <<job, started>>
    PROVE  job' \in [Worker -> Job] /\ Shape'
BY DEF TypeOK, Shape, Shaped, Plan, Real

LEMMA TypeStep ==
    ASSUME MarketAssumption, TypeOK, Shape, [Next]_vars
    PROVE  TypeOK' /\ Shape'
<1> USE DEF settings, broker, stored, ledger, limits
<1>0. /\ job \in [Worker -> Job] /\ started \in 0 .. MaxStarts /\ MaxStarts \in Nat
      /\ \A w \in Worker : Shaped(job[w])
    BY DEF TypeOK, Shape, MarketAssumption
<1>1. CASE UNCHANGED vars
    BY <1>1, Keep DEF vars, TypeOK
<1>2. ASSUME NEW r \in Run, Dispatch(r) PROVE TypeOK' /\ Shape'
    BY <1>2, Keep DEF Dispatch, SetStage, Status, TypeOK
<1>3. ASSUME Rekey \/ GoLive PROVE TypeOK' /\ Shape'
    BY <1>3, Keep DEF Rekey, GoLive, TypeOK
<1>4. ASSUME NEW w \in Worker, NEW r \in Run, Replay(w, r) PROVE TypeOK' /\ Shape'
    BY <1>4, Keep DEF Replay, SetStage, Status, TypeOK
<1>5. ASSUME NEW w \in Worker, NEW r \in Run, Begin(w, r) PROVE TypeOK' /\ Shape'
  <2> DEFINE k == Fresh(r, started + 1, key)
  <2>1. started' = started + 1 /\ started + 1 \in Delivery /\ Put(w, k)
      BY <1>5, <1>0 DEF Begin, Delivery
  <2>2. k \in Job /\ k.at = "collect" /\ k.no = started + 1
      BY <2>1, FreshJob DEF TypeOK, Fresh
  <2>3. job' \in [Worker -> Job] /\ Shape'
      BY <2>1, <2>2, <1>0, PutShape DEF Delivery
  <2> QED BY <1>5, <2>1, <2>3 DEF Begin, SetStage, Status, Delivery, TypeOK
<1>6. ASSUME NEW w \in Worker, Work(w) \/ Trouble(w),
             \A r \in Run : ~Replay(w, r) /\ ~Begin(w, r)
      PROVE  TypeOK' /\ Shape'
  <2> DEFINE j == job[w]
  <2>0. j \in Job /\ Shaped(j)
      BY <1>0, <1>6
  <2>00. \A k \in Job : Put(w, k) /\ started' = started /\ j.at # "idle" /\ k.no = j.no
                        /\ k.at \notin {"asking", "mark"} => job' \in [Worker -> Job] /\ Shape'
      BY <1>0, <2>0, <1>6, PutShape DEF Shaped
  <2>1. CASE Reuse(w)
    <3>1. Planned(j) \in Calls /\ Planned(j) \in Call
        BY <2>0, <2>1, PlanCalls DEF Reuse, Turn, PlanOver, Job
    <3>2. Cached(w) \in Body
        BY <2>1, <3>1 DEF Reuse, Cached, CacheKey, TypeOK
    <3>3. Take(j, Cached(w)) \in Job
        BY <2>0, <3>1, <3>2, TakeJob
    <3>4. j.at # "idle" /\ Take(j, Cached(w)).no = j.no /\ Take(j, Cached(w)).at = "collect"
        BY <2>0, <2>1 DEF Reuse, Turn, Take, Pass, Job
    <3> QED BY <2>1, <2>00, <3>3, <3>4 DEF Reuse, TypeOK
  <2>2. CASE DoWithout(w)
    <3>1. Pass(j) \in Job /\ j.at # "idle" /\ Pass(j).no = j.no /\ Pass(j).at = "collect"
        BY <2>0, <2>2, PassJob DEF DoWithout, Turn, Pass, Job
    <3> QED BY <2>2, <2>00, <3>1 DEF DoWithout, TypeOK
  <2>3. CASE Ask(w)
    <3> DEFINE k == [j EXCEPT !.at = "asking", !.breaker = AfterAllowing(@)]
    <3>1. AfterAllowing(j.breaker) \in Breaker
      <4>1. j.breaker \in Breaker
          BY <2>0 DEF Job
      <4>2. [j.breaker EXCEPT !.state = "half_open"] \in Breaker
          BY <4>1 DEF Breaker
      <4> QED BY <4>1, <4>2 DEF AfterAllowing
    <3>2. k \in Job /\ k.no = j.no /\ k.next = j.next /\ Plan(k) = Plan(j)
        BY <2>0, <3>1 DEF Job, Step, Plan, Real
    <3>3. j.at = "collect" /\ j.next <= Len(Plan(j))
        BY <2>0, <2>3 DEF Ask, Turn, PlanOver, Job
    <3>4. k.at = "asking"
        BY <2>0 DEF Job
    <3>5. job' \in [Worker -> Job] /\ Shape'
      <4>1. Put(w, k) /\ started' = started /\ k.no \in 1 .. started
          BY <2>0, <2>3, <3>2, <3>3 DEF Ask, Shaped
      <4> HIDE DEF k
      <4> QED BY <1>0, <1>6, <3>2, <3>3, <3>4, <4>1, PutShape
    <3> QED BY <2>3, <3>5 DEF Ask, TypeOK
  <2>4. CASE Answer(w)
    <3>1. Planned(j) \in Calls /\ Planned(j) \in Call /\ j.at = "asking" /\ j.no \in Delivery
      <4>1. j.at = "asking"
          BY <2>4 DEF Answer, Receive, Refuse, Fail
      <4>2. j.next <= Len(Plan(j)) /\ j.no \in 1 .. started
          BY <2>0, <4>1 DEF Shaped
      <4> QED BY <1>0, <2>0, <4>1, <4>2, PlanCalls DEF Delivery
    <3>2. EstimateUnits(Planned(j)) \in Nat
        BY <3>1, Costs
    <3>3. Charge(j) \in Job /\ Charge(j).no = j.no /\ Planned(Charge(j)) = Planned(j)
        BY <2>0, <3>1, ChargeJob DEF Charge, Job, Planned, Plan, Real
    <3>4. ASSUME Charged(w) PROVE bill' \in [Delivery -> Nat]
      <4>1. CASE Real(j)
        <5>1. bill[j.no] + EstimateUnits(Planned(j)) \in Nat
            BY <3>1, <3>2 DEF TypeOK
        <5>2. bill' = [bill EXCEPT ![j.no] = bill[j.no] + EstimateUnits(Planned(j))]
            BY <3>4, <4>1 DEF Charged
        <5> QED BY <5>1, <5>2 DEF TypeOK
      <4>2. CASE ~Real(j)
          BY <3>4, <4>2 DEF Charged, TypeOK
      <4> QED BY <4>1, <4>2
    <3>5. ASSUME NEW body \in Body, Receive(w, body) PROVE TypeOK' /\ Shape'
      <4>1. Take(Charge(j), body) \in Job
          BY <3>1, <3>3, <3>5, TakeJob
      <4>2. Take(Charge(j), body).no = j.no /\ Take(Charge(j), body).at = "collect"
          BY <3>3 DEF Take, Pass, Job
      <4>3. cache' \in [Calls -> Body \cup {NoBody}]
          BY <3>1, <3>5 DEF Receive, CacheKey, TypeOK
      <4>4. job' \in [Worker -> Job] /\ Shape'
          BY <3>1, <3>5, <2>00, <4>1, <4>2 DEF Receive
      <4> QED BY <3>5, <3>4, <4>3, <4>4 DEF Receive, TypeOK
    <3>6. ASSUME NEW b \in BOOLEAN, Refuse(w, b) PROVE TypeOK' /\ Shape'
      <4> DEFINE k == [Pass(Charge(j)) EXCEPT !.halted = b]
      <4>1. Pass(Charge(j)) \in Job
          BY <3>3, PassJob
      <4>2. k \in Job /\ k.no = j.no /\ k.at = "collect"
          BY <3>3, <3>6, <4>1 DEF Pass, Job
      <4>4. job' \in [Worker -> Job] /\ Shape'
          BY <3>1, <3>6, <2>00, <4>2 DEF Refuse
      <4> QED BY <3>6, <3>4, <4>4 DEF Refuse, TypeOK
    <3>7. ASSUME Fail(w) PROVE TypeOK' /\ Shape'
      <4> DEFINE k == [Pass(j) EXCEPT !.breaker = RecordFailure(@)]
      <4>1. Pass(j) \in Job /\ RecordFailure(Pass(j).breaker) \in Breaker
          BY <2>0, PassJob DEF RecordFailure, Breaker, Job
      <4>2. k \in Job /\ k.no = j.no /\ k.at = "collect"
          BY <2>0, <4>1 DEF Pass, Job
      <4>4. job' \in [Worker -> Job] /\ Shape'
          BY <3>1, <3>7, <2>00, <4>2 DEF Fail
      <4> QED BY <3>7, <4>4 DEF Fail, TypeOK
    <3>8. Simulated(Planned(j)) \in Body
        BY DEF Simulated, Body, Source, Size, MarketAssumption
    <3>9. \A a \in Replies : a.kind = "body" => [src |-> "provider", size |-> a.size] \in Body
        BY DEF MarketAssumption, Reply, Body, Source
    <3> QED BY <2>4, <3>5, <3>6, <3>7, <3>8, <3>9 DEF Answer
  <2>5. CASE Persist(w)
    <3> DEFINE found == Filled(j) # {}
               x == [id |-> made + 1, no |-> j.no, available |-> found, units |-> j.spent,
                     flags |-> {}, srcs |-> {j.got[r].src : r \in Filled(j)}]
               k == [j EXCEPT !.available = found, !.snap = made + 1, !.keywords = 0]
               z == IF found THEN "rows" ELSE AfterCollect(k)
    <3>1. j.at \in {"persist", "collect"} /\ j.no \in Delivery /\ made + 1 \in Nat
        BY <1>0, <2>0, <2>5 DEF Persist, Finished, Shaped, Delivery, TypeOK
    <3>2. {j.got[r].src : r \in Filled(j)} \subseteq Source
        BY <2>0 DEF Filled, Job, Body, NoBody
    <3>3. x \in Snapshot
        BY <2>0, <3>1, <3>2 DEF Snapshot, Job
    <3>4. k \in Job /\ k.no = j.no
      <4>1. found \in BOOLEAN /\ 0 \in Size
          BY DEF Size
      <4> HIDE DEF found
      <4> QED BY <2>0, <3>1, <4>1 DEF Job
    <3>5. z \in Step /\ z \notin {"asking", "mark"}
        BY DEF AfterCollect, Step
    <3>6. [k EXCEPT !.at = z] \in Job /\ [k EXCEPT !.at = z].no = j.no /\ [k EXCEPT !.at = z].at = z
        BY <3>4, <3>5 DEF Job
    <3>7. Put(w, [k EXCEPT !.at = z]) /\ started' = started
        BY <2>5 DEF Persist
    <3>8. job' \in [Worker -> Job] /\ Shape'
        BY <2>00, <3>1, <3>5, <3>6, <3>7
    <3>9. snaps' = [snaps EXCEPT ![j.run] = @ \cup {x}] /\ made' = made + 1
        BY <2>5 DEF Persist
    <3>10. snaps' \in [Run -> SUBSET Snapshot]
        BY <3>3, <3>9 DEF TypeOK
    <3> QED BY <2>5, <3>1, <3>8, <3>9, <3>10 DEF Persist, TypeOK
  <2>6. CASE PersistFails(w)
    <3> DEFINE k == [j EXCEPT !.available = Filled(j) # {}, !.snap = 0, !.keywords = 0,
                              !.got = NoneGot]
               z == AfterCollect(k)
    <3>1. j.at \in {"persist", "collect"}
        BY <2>6 DEF PersistFails, Finished
    <3>2. NoneGot \in [Report -> Body \cup {NoBody}]
        BY DEF NoneGot
    <3>3. k \in Job /\ k.no = j.no
      <4>1. 0 \in Size /\ 0 \in Nat /\ (Filled(j) # {}) \in BOOLEAN
          BY DEF Size
      <4> QED BY <2>0, <3>2, <4>1 DEF Job
    <3>4. z \in Step /\ z \notin {"asking", "mark"}
        BY DEF AfterCollect, Step
    <3>5. [k EXCEPT !.at = z] \in Job /\ [k EXCEPT !.at = z].no = j.no /\ [k EXCEPT !.at = z].at = z
        BY <3>3, <3>4 DEF Job
    <3>6. job' \in [Worker -> Job] /\ Shape'
        BY <2>00, <2>6, <3>1, <3>4, <3>5 DEF PersistFails
    <3> QED BY <2>6, <3>6 DEF PersistFails, TypeOK
  <2>7. Found(j) \subseteq Family \X Source
    <3>1. \A r \in Filled(j) : FamilyOf[r] \in Family /\ j.got[r].src \in Source
        BY <2>0 DEF Filled, Job, Body, NoBody, FamilyOf, Family, Report
    <3> QED BY <3>1 DEF Found
  <2>8. CASE Write(w)
    <3> DEFINE k == [j EXCEPT !.keywords = j.got["domain_organic"].size]
               z == AfterCollect(k)
    <3>1. j.got["domain_organic"].size \in Size
      <4>1. j.got["domain_organic"] \in Body \cup {NoBody}
          BY <2>0 DEF Job, Report
      <4> QED BY <4>1 DEF Body, NoBody, Size
    <3>2. k \in Job /\ k.no = j.no
        BY <2>0, <3>1 DEF Job
    <3>3. z \in Step /\ z \notin {"asking", "mark"}
        BY DEF AfterCollect, Step
    <3>4. [k EXCEPT !.at = z] \in Job /\ [k EXCEPT !.at = z].no = j.no /\ [k EXCEPT !.at = z].at = z
        BY <3>2, <3>3 DEF Job
    <3>5. job' \in [Worker -> Job] /\ Shape'
        BY <2>00, <2>8, <3>3, <3>4 DEF Write
    <3>6. rows' \in [Run -> SUBSET (Family \X Source)]
        BY <2>7, <2>8 DEF Write, TypeOK
    <3> QED BY <2>8, <3>5, <3>6 DEF Write, TypeOK
  <2>9. CASE Raise(w)
    <3> DEFINE k == [j EXCEPT !.at = "persist", !.got = NoneGot,
                              !.spent = IF j.at = "rows" THEN @ ELSE 0]
    <3>1. NoneGot \in [Report -> Body \cup {NoBody}] /\ "persist" \in Step
        BY DEF NoneGot, Step
    <3>2. k \in Job /\ k.no = j.no /\ k.at = "persist"
        BY <2>0, <3>1 DEF Job
    <3>3. job' \in [Worker -> Job] /\ Shape'
        BY <2>00, <2>9, <3>2 DEF Raise
    <3>4. rows' \in [Run -> SUBSET (Family \X Source)]
      <4>1. PICK part \in SUBSET Found(j) :
               rows' = [rows EXCEPT ![j.run] = IF j.at = "rows" THEN @ \cup part ELSE @]
          BY <2>9 DEF Raise
      <4> QED BY <2>7, <4>1 DEF TypeOK
    <3> QED BY <2>9, <3>3, <3>4 DEF Raise, TypeOK
  <2>10. ASSUME NEW z \in Step \ {"asking", "mark"}, NEW b \in BOOLEAN
         PROVE  LET k == [j EXCEPT !.at = z, !.available = b]
                IN k \in Job /\ k.no = j.no /\ k.at = z
    BY <2>0 DEF Job
  <2>11. CASE FlagIt(w)
    <3>1. j.at = "flag" /\ j = [j EXCEPT !.available = j.available] /\ j.available \in BOOLEAN
        BY <2>0, <2>11 DEF FlagIt, Job
    <3>2. \A s \in Snapshot : [s EXCEPT !.units = 0, !.flags = @ \cup {"simulated"}] \in Snapshot
        BY DEF Snapshot, Flag
    <3>3. snaps' \in [Run -> SUBSET Snapshot]
      <4> DEFINE T == {IF s \in Named(j) THEN [s EXCEPT !.units = 0, !.flags = @ \cup {"simulated"}]
                       ELSE s : s \in snaps[j.run]}
      <4>1. snaps' = snaps \/ snaps' = [snaps EXCEPT ![j.run] = T]
          BY <2>11 DEF FlagIt
      <4>2. T \in SUBSET Snapshot
        <5>1. \A s \in snaps[j.run] : s \in Snapshot
            BY <2>0 DEF Job, TypeOK
        <5> QED BY <3>2, <5>1
      <4> QED BY <4>1, <4>2 DEF TypeOK
    <3>4. \E z \in {"conclude", "purge"}, b \in BOOLEAN :
             Put(w, [j EXCEPT !.at = z, !.available = b])
      <4>1. CASE Named(j) = {}
          BY <2>11, <4>1 DEF FlagIt
      <4>2. CASE Named(j) # {}
        <5>1. [j EXCEPT !.at = "purge"] = [j EXCEPT !.at = "purge", !.available = j.available]
            BY <2>0 DEF Job
        <5> QED BY <2>11, <3>1, <4>2, <5>1 DEF FlagIt
      <4> QED BY <4>1, <4>2
    <3>5. job' \in [Worker -> Job] /\ Shape'
        BY <2>00, <2>10, <2>11, <3>1, <3>4 DEF FlagIt, Step
    <3> QED BY <2>11, <3>3, <3>5 DEF FlagIt, TypeOK
  <2>12. \A has \in SUBSET (Family \X Source) : Augmented(has) \in SUBSET (Family \X Source)
    BY DEF Augmented, Family, Source
  <2>13. CASE Purge(w)
    <3>1. [j EXCEPT !.at = "settle"] \in Job /\ [j EXCEPT !.at = "settle"].no = j.no
          /\ [j EXCEPT !.at = "settle"].at = "settle"
        BY <2>0 DEF Job, Step
    <3>2. job' \in [Worker -> Job] /\ Shape'
        BY <2>00, <2>13, <3>1 DEF Purge
    <3>3. rows' \in [Run -> SUBSET (Family \X Source)]
        BY <2>12, <2>13 DEF Purge, TypeOK
    <3>4. snaps' \in [Run -> SUBSET Snapshot]
      <4>1. Named(j) \subseteq Snapshot
          BY <2>0 DEF Named, Job, TypeOK
      <4> QED BY <2>13, <4>1 DEF Purge, TypeOK
    <3> QED BY <2>13, <3>2, <3>3, <3>4 DEF Purge, TypeOK
  <2>14. CASE Settle(w)
    <3>1. \A q \in Round : LET k == Simulate(j, q)
                           IN k \in Job /\ k.no = j.no /\ k.at = "collect"
      <4>1. Fresh(j.run, j.no, TRUE) \in Job
          BY <2>0, FreshJob DEF Job
      <4> QED BY <4>1 DEF Simulate, Fresh, Job
    <3>2. \A z \in {"topup", "conclude"} : LET k == [j EXCEPT !.at = z]
                                           IN k \in Job /\ k.no = j.no /\ k.at = z
        BY <2>0 DEF Job, Step
    <3>3. LET k == [j EXCEPT !.at = "topup", !.next = 1]
          IN k \in Job /\ k.no = j.no /\ k.at = "topup"
      <4>1. "topup" \in Step /\ 1 \in Nat \ {0}
          BY DEF Step
      <4> QED BY <2>0, <4>1 DEF Job
    <3>4. job' \in [Worker -> Job] /\ Shape'
        BY <2>00, <2>14, <3>1, <3>2, <3>3 DEF Settle, Round
    <3> QED BY <2>14, <3>4 DEF Settle, TypeOK
  <2>15. CASE TopUp(w)
    <3>1. j.next \in 1 .. 2 /\ Len(TopUps) = 2
      <4>1. Len(TopUps) = 2
          BY DEF TopUps
      <4>2. j.next \in Nat \ {0} /\ j.next <= Len(TopUps)
          BY <2>0, <2>15 DEF TopUp, Job
      <4> QED BY <4>1, <4>2
    <3>2. TopUps[j.next].family \in Family
        BY <3>1 DEF TopUps, Family
    <3>3. rows' \in [Run -> SUBSET (Family \X Source)]
      <4>1. <<TopUps[j.next].family, "simulation">> \in Family \X Source
          BY <3>2 DEF Source
      <4>2. rows' = rows \/ rows' = [rows EXCEPT ![j.run] = @ \cup {<<TopUps[j.next].family, "simulation">>}]
          BY <2>15 DEF TopUp
      <4> QED BY <4>1, <4>2 DEF TypeOK
    <3>4. \A s \in Latest(snaps[j.run]) : LET k == [j EXCEPT !.at = "mark", !.snap = s.id]
              IN k \in Job /\ k.no = j.no /\ k.at = "mark" /\ k.next = j.next
      <4>1. \A s \in Latest(snaps[j.run]) : s.id \in Nat
          BY <2>0 DEF Latest, Snapshot, Job, TypeOK
      <4> QED BY <2>0, <4>1 DEF Job, Step
    <3>5. LET k == [j EXCEPT !.next = @ + 1] IN k \in Job /\ k.no = j.no /\ k.at = "topup"
      <4>1. j.next + 1 \in Nat \ {0} /\ j.at = "topup"
        <5>1. j.next + 1 \in Nat \ {0}
            BY <2>0 DEF Job
        <5> QED BY <2>15, <5>1 DEF TopUp
      <4> QED BY <2>0, <4>1 DEF Job
    <3>6. job' \in [Worker -> Job] /\ Shape'
      <4>1. CASE Wanting(j)
        <5>1. PICK s \in Latest(snaps[j.run]) : Put(w, [j EXCEPT !.at = "mark", !.snap = s.id])
            BY <2>15, <4>1 DEF TopUp
        <5> DEFINE k == [j EXCEPT !.at = "mark", !.snap = s.id]
        <5>2. k \in Job /\ k.no = j.no /\ k.at = "mark" /\ k.next \in 1 .. 2 /\ Put(w, k)
            BY <3>1, <3>4, <5>1
        <5>3. started' = started /\ k.no \in 1 .. started
            BY <2>0, <2>15, <5>2 DEF TopUp, Shaped
        <5> HIDE DEF k
        <5> QED BY <1>0, <1>6, <5>2, <5>3, PutShape
      <4>2. CASE ~Wanting(j)
          BY <2>00, <2>15, <3>5, <4>2 DEF TopUp
      <4> QED BY <4>1, <4>2
    <3> QED BY <2>15, <3>3, <3>6 DEF TopUp, TypeOK
  <2>16. CASE Mark(w)
    <3>1. j.next \in 1 .. 2 /\ TopUps[j.next].flag \in Flag
        BY <2>0, <2>16 DEF Mark, Shaped, TopUps, Flag
    <3>2. \A s \in Snapshot : [s EXCEPT !.flags = @ \cup {TopUps[j.next].flag}] \in Snapshot
        BY <3>1 DEF Snapshot
    <3>3. snaps' \in [Run -> SUBSET Snapshot]
      <4> DEFINE T == {IF s \in Named(j) THEN [s EXCEPT !.flags = @ \cup {TopUps[j.next].flag}]
                       ELSE s : s \in snaps[j.run]}
      <4>1. snaps' = [snaps EXCEPT ![j.run] = T]
          BY <2>16 DEF Mark
      <4>2. T \in SUBSET Snapshot
        <5>1. \A s \in snaps[j.run] : s \in Snapshot
            BY <2>0 DEF Job, TypeOK
        <5> QED BY <3>2, <5>1
      <4> QED BY <4>1, <4>2 DEF TypeOK
    <3>4. rows' \in [Run -> SUBSET (Family \X Source)]
        BY <2>12, <2>16 DEF Mark, TypeOK
    <3>5. LET k == [j EXCEPT !.at = "conclude"] IN k \in Job /\ k.no = j.no /\ k.at = "conclude"
        BY <2>0 DEF Job, Step
    <3>6. LET k == [j EXCEPT !.at = "topup", !.next = @ + 1]
          IN k \in Job /\ k.no = j.no /\ k.at = "topup"
      <4>1. "topup" \in Step /\ j.next + 1 \in Nat \ {0}
          BY <2>0 DEF Step, Job
      <4> QED BY <2>0, <4>1 DEF Job
    <3>7. job' \in [Worker -> Job] /\ Shape'
        BY <2>00, <2>16, <3>5, <3>6 DEF Mark
    <3> QED BY <2>16, <3>3, <3>4, <3>7 DEF Mark, TypeOK
  <2>17. CASE Conclude(w)
    <3>1. job' \in [Worker -> Job] /\ Shape'
        BY <1>0, <1>6, <2>17, IdleJob, PutShape DEF Conclude
    <3> QED BY <2>17, <3>1 DEF Conclude, SetStage, Status, TypeOK
  <2>18. CASE Crash(w)
    <3>1. job' \in [Worker -> Job] /\ Shape'
        BY <1>0, <1>6, <2>18, IdleJob, PutShape DEF Crash
    <3>2. rows' \in [Run -> SUBSET (Family \X Source)]
      <4>1. PICK part \in SUBSET Found(j) :
               rows' = [rows EXCEPT ![j.run] = IF j.at = "rows" THEN @ \cup part ELSE @]
          BY <2>18 DEF Crash
      <4> QED BY <2>7, <4>1 DEF TypeOK
    <3>3. lost' \subseteq Delivery
      <4>1. j.no \in Delivery
          BY <1>0, <2>0, <2>18 DEF Crash, Shaped, Delivery
      <4> QED BY <2>18, <4>1 DEF Crash, TypeOK
    <3> QED BY <2>18, <3>1, <3>2, <3>3 DEF Crash, TypeOK
  <2> QED BY <1>6, <2>1, <2>2, <2>3, <2>4, <2>5, <2>6, <2>8, <2>9, <2>11, <2>13, <2>14, <2>15,
             <2>16, <2>17, <2>18 DEF Work, Trouble
<1> QED BY <1>1, <1>2, <1>3, <1>4, <1>5, <1>6 DEF Next, Work

LEMMA Shapely == Spec => [](TypeOK /\ Shape)
<1>1. Init => TypeOK /\ Shape
  <2> SUFFICES ASSUME Init PROVE TypeOK /\ Shape
      OBVIOUS
  <2>1. Idle \in Job /\ Idle.at = "idle"
      BY MarketAssumption, IdleJob
  <2>2. job \in [Worker -> Job] /\ \A w \in Worker : job[w] = Idle
      BY <2>1 DEF Init
  <2>3. Shape
      BY <2>1, <2>2 DEF Shape, Shaped
  <2>4. 0 \in 0 .. MaxStarts
      BY MarketAssumption DEF MarketAssumption
  <2> QED BY <2>2, <2>3, <2>4 DEF Init, TypeOK, Status, Delivery
<1>2. TypeOK /\ Shape /\ [Next]_vars => TypeOK' /\ Shape'
    BY MarketAssumption, TypeStep
<1> QED BY <1>1, <1>2, PTL DEF Spec

\* Every variable keeps its type.
THEOREM TypeCorrect == Spec => []TypeOK
BY Shapely, PTL

-----------------------------------------------------------------------------
(* Account: a collection with the run's own key has in memory what has     *)
(* been charged to its delivery, asks only for what is left of the budget, *)
(* and shares its number with nobody.                                      *)

Counted(j) == Real(j) /\ j.at \in {"collect", "asking"}

Sound(j) ==
    /\ Counted(j) => bill[j.no] = j.spent
    /\ j.at = "asking" => EstimateUnits(Planned(j)) <= Limit(j) - j.spent

Account ==
    /\ \A n \in Delivery : bill[n] <= Budget /\ (n > started => bill[n] = 0)
    /\ \A w \in Worker : Sound(job[w])
    /\ \A v, w \in Worker :
          v # w /\ job[v].at # "idle" /\ job[w].at # "idle" => job[v].no # job[w].no

LEMMA PutAccount ==
    ASSUME TypeOK, Account, NEW w \in Worker, NEW k \in Job, Put(w, k),
           UNCHANGED <<bill, started>>, job[w].at # "idle",
           k.at # "idle" => k.no = job[w].no,
           Counted(k) => Counted(job[w]) /\ k.spent = job[w].spent,
           k.at = "asking" => EstimateUnits(Planned(k)) <= Limit(k) - k.spent
    PROVE  Account'
<1>1. job' = [job EXCEPT ![w] = k] /\ job \in [Worker -> Job]
    BY DEF Put, TypeOK
<1>2. ASSUME NEW v \in Worker PROVE Sound(job[v])'
  <2>1. CASE v = w
    <3>1. Counted(k) => bill[k.no] = k.spent
        BY DEF Account, Sound, Counted
    <3>2. job'[v] = k
        BY <1>1, <2>1
    <3> QED BY <3>1, <3>2 DEF Sound, Counted, Real, Planned, Plan, Limit
  <2>2. CASE v # w
    <3>1. job'[v] = job[v]
        BY <1>1, <2>2
    <3> QED BY <3>1 DEF Account, Sound, Counted, Real, Planned, Plan, Limit
  <2> QED BY <2>1, <2>2
<1>3. \A u, v \in Worker : u # v /\ job'[u].at # "idle" /\ job'[v].at # "idle"
                           => job'[u].no # job'[v].no
    BY <1>1 DEF Account
<1> QED BY <1>2, <1>3 DEF Account

LEMMA AccountStep ==
    ASSUME MarketAssumption, TypeOK, Shape, TypeOK', Account, [Next]_vars
    PROVE  Account'
<1> USE DEF settings, broker, stored, ledger, limits
<1>0. job \in [Worker -> Job] /\ \A w \in Worker : job[w] \in Job /\ Shaped(job[w])
    BY DEF TypeOK, Shape
<1>1. ASSUME UNCHANGED <<job, bill, started>> PROVE Account'
    BY <1>1 DEF Account, Sound, Counted, Real, Planned, Plan, Limit
<1>2. ASSUME NEW w \in Worker, NEW r \in Run, Begin(w, r) PROVE Account'
  <2> DEFINE k == Fresh(r, started + 1, key)
  <2>1. started' = started + 1 /\ bill' = bill /\ job' = [job EXCEPT ![w] = k]
      BY <1>2 DEF Begin, Put
  <2>2. started + 1 \in Delivery /\ k.no = started + 1 /\ k.at = "collect" /\ k.spent = 0
      BY <1>2 DEF Begin, Fresh, Delivery, TypeOK
  <2>3. bill[started + 1] = 0
      BY <2>2 DEF Account, TypeOK, Delivery
  <2>4. ASSUME NEW v \in Worker PROVE Sound(job[v])'
    <3>1. CASE v = w
      <4>1. job'[v] = k
          BY <1>0, <2>1, <3>1
      <4> QED BY <2>1, <2>2, <2>3, <4>1 DEF Sound
    <3>2. CASE v # w
      <4>1. job'[v] = job[v]
          BY <1>0, <2>1, <3>2
      <4> QED BY <2>1, <4>1 DEF Account, Sound, Counted, Real, Planned, Plan, Limit
    <3> QED BY <3>1, <3>2
  <2>5. \A v \in Worker : job[v].at # "idle" => job[v].no \in Nat /\ job[v].no <= started
      BY <1>0 DEF Shaped, TypeOK
  <2>6. \A u, v \in Worker : u # v /\ job'[u].at # "idle" /\ job'[v].at # "idle"
                             => job'[u].no # job'[v].no
    <3> HIDE DEF k
    <3> QED BY <1>0, <2>1, <2>2, <2>5 DEF Account, TypeOK
  <2>7. \A n \in Delivery : bill'[n] <= Budget /\ (n > started' => bill'[n] = 0)
      BY <2>1 DEF Account, TypeOK, Delivery
  <2> QED BY <2>4, <2>6, <2>7 DEF Account
<1>3. ASSUME NEW w \in Worker, Work(w) \/ Trouble(w),
             \A r \in Run : ~Replay(w, r) /\ ~Begin(w, r)
      PROVE  Account'
  <2> DEFINE j == job[w]
  <2>0. j \in Job /\ Shaped(j) /\ Sound(j)
      BY <1>0, <1>3 DEF Account
  <2>00. \A k \in Job : /\ Put(w, k) /\ UNCHANGED <<bill, started>> /\ j.at # "idle"
                        /\ k.at = "idle" \/ (k.no = j.no /\ k.at # "asking")
                        /\ Counted(k) => Counted(j) /\ k.spent = j.spent
                        => Account'
      BY <1>3, PutAccount
  <2>01. \A k : Put(w, k) => k \in Job
    <3> SUFFICES ASSUME NEW k, Put(w, k) PROVE k \in Job
        OBVIOUS
    <3>1. job'[w] = k
        BY <1>0 DEF Put
    <3> QED BY <3>1, <1>3 DEF TypeOK
  <2>1. CASE Reuse(w)
    <3> DEFINE k == Take(j, Cached(w))
    <3>1. Put(w, k) /\ UNCHANGED <<bill, started>> /\ j.at = "collect"
        BY <2>1 DEF Reuse, Turn
    <3>2. k.no = j.no /\ k.at = "collect" /\ k.spent = j.spent /\ k.round = j.round
        BY <2>0 DEF Take, Pass, Job
    <3> QED BY <2>00, <2>01, <3>1, <3>2 DEF Counted, Real
  <2>2. CASE DoWithout(w)
    <3>1. Pass(j).no = j.no /\ Pass(j).at = "collect" /\ Pass(j).spent = j.spent /\ Pass(j).round = j.round
        BY <2>0 DEF Pass, Job
    <3> QED BY <2>00, <2>01, <2>2, <3>1 DEF DoWithout, Turn, Counted, Real
  <2>3. CASE Ask(w)
    <3> DEFINE k == [j EXCEPT !.at = "asking", !.breaker = AfterAllowing(@)]
    <3>1. Put(w, k) /\ UNCHANGED <<bill, started>> /\ j.at = "collect" /\ Affordable(j)
        BY <2>3 DEF Ask, Turn
    <3>2. /\ k.no = j.no /\ k.at = "asking" /\ k.spent = j.spent /\ k.round = j.round
          /\ k.next = j.next
        BY <2>0 DEF Job
    <3>3. EstimateUnits(Planned(k)) <= Limit(k) - k.spent
        BY <3>1, <3>2 DEF Affordable, Planned, Plan, Limit, Real
    <3>4. k \in Job
        BY <2>01, <3>1
    <3> HIDE DEF k
    <3> QED BY <1>3, <3>1, <3>2, <3>3, <3>4, PutAccount DEF Counted, Real
  <2>4. CASE Answer(w)
    <3>1. j.at = "asking"
        BY <2>4 DEF Answer, Receive, Refuse, Fail
    <3>2. Planned(j) \in Call /\ j.no \in Delivery /\ EstimateUnits(Planned(j)) \in Nat
      <4>1. j.next <= Len(Plan(j)) /\ j.no \in 1 .. started
          BY <2>0, <3>1 DEF Shaped
      <4>2. Planned(j) \in Call
          BY <2>0, <4>1, PlanCalls
      <4> QED BY <4>1, <4>2, Costs DEF Delivery, TypeOK
    <3>3. /\ Charge(j).no = j.no /\ Charge(j).round = j.round
          /\ Charge(j).spent = j.spent + EstimateUnits(Planned(j))
          /\ Charge(j) \in Job
        BY <2>0, <3>2, ChargeJob DEF Charge, Job
    <3>4. ASSUME NEW k \in Job, Put(w, k), Charged(w), started' = started, k.no = j.no,
                 k.round = j.round, k.at = "collect", k.spent = Charge(j).spent
          PROVE  Account'
      <4>1. CASE ~Real(j)
          BY <2>00, <3>1, <3>4, <4>1 DEF Charged, Counted, Real
      <4>2. CASE Real(j)
        <5> DEFINE e == EstimateUnits(Planned(j))
        <5>1. bill' = [bill EXCEPT ![j.no] = bill[j.no] + e] /\ job' = [job EXCEPT ![w] = k]
            BY <3>4, <4>2 DEF Charged, Put
        <5>2. bill[j.no] = j.spent /\ e <= Budget - j.spent
            BY <2>0, <3>1, <4>2 DEF Sound, Counted, Limit
        <5>3. bill \in [Delivery -> Nat] /\ e \in Nat /\ j.spent \in Nat /\ Budget \in Nat
            BY <2>0, <3>2 DEF TypeOK, Job, MarketAssumption
        <5> HIDE DEF e
        <5>4. \A n \in Delivery : bill'[n] <= Budget
            BY <3>2, <5>1, <5>2, <5>3 DEF Account
        <5>5. \A n \in Delivery : n > started' => bill'[n] = 0
          <6>1. j.no <= started /\ j.no \in Nat /\ started \in Nat
              BY <2>0, <3>1 DEF Shaped, TypeOK
          <6> QED BY <3>4, <5>1, <5>3, <6>1 DEF Account, Delivery
        <5>6. ASSUME NEW v \in Worker PROVE Sound(job[v])'
          <6>1. CASE v = w
            <7>1. job'[v] = k /\ bill'[k.no] = k.spent
                BY <1>0, <3>2, <3>3, <3>4, <5>1, <5>2, <5>3, <6>1 DEF e
            <7> QED BY <3>4, <7>1 DEF Sound
          <6>2. CASE v # w
            <7>1. job'[v] = job[v]
                BY <1>0, <5>1, <6>2
            <7>2. job[v].at # "idle" => bill'[job[v].no] = bill[job[v].no]
              <8>1. job[v].at # "idle" => job[v].no # j.no
                  BY <1>3, <3>1, <6>2 DEF Account
              <8> QED BY <5>1, <5>3, <8>1
            <7> QED BY <7>1, <7>2 DEF Account, Sound, Counted, Real, Planned, Plan, Limit
          <6> QED BY <6>1, <6>2
        <5>7. \A u, v \in Worker : u # v /\ job'[u].at # "idle" /\ job'[v].at # "idle"
                                   => job'[u].no # job'[v].no
            BY <1>0, <3>1, <3>4, <5>1 DEF Account
        <5> QED BY <5>4, <5>5, <5>6, <5>7 DEF Account
      <4> QED BY <4>1, <4>2
    <3>5. ASSUME NEW body, Receive(w, body) PROVE Account'
      <4>1. /\ Take(Charge(j), body).no = j.no /\ Take(Charge(j), body).at = "collect"
            /\ Take(Charge(j), body).round = j.round
            /\ Take(Charge(j), body).spent = Charge(j).spent
          BY <3>3 DEF Take, Pass, Job
      <4> QED BY <2>01, <3>4, <3>5, <4>1 DEF Receive
    <3>6. ASSUME NEW b, Refuse(w, b) PROVE Account'
      <4> DEFINE k == [Pass(Charge(j)) EXCEPT !.halted = b]
      <4>1. k.no = j.no /\ k.at = "collect" /\ k.round = j.round /\ k.spent = Charge(j).spent
          BY <3>3 DEF Pass, Job
      <4>2. Put(w, k) /\ Charged(w) /\ started' = started
          BY <3>6 DEF Refuse
      <4> HIDE DEF k
      <4> QED BY <2>01, <3>4, <4>1, <4>2
    <3>7. ASSUME Fail(w) PROVE Account'
      <4> DEFINE k == [Pass(j) EXCEPT !.breaker = RecordFailure(@)]
      <4>1. k.no = j.no /\ k.at = "collect" /\ k.round = j.round /\ k.spent = j.spent
          BY <2>0 DEF Pass, Job
      <4>2. Put(w, k) /\ UNCHANGED <<bill, started>>
          BY <3>7 DEF Fail
      <4> HIDE DEF k
      <4> QED BY <2>00, <2>01, <3>1, <4>1, <4>2 DEF Counted, Real
    <3> QED BY <2>4, <3>5, <3>6, <3>7 DEF Answer
  <2>5. ASSUME NEW k, Put(w, k), UNCHANGED <<bill, started>>, j.at # "idle",
               k.at = "idle" \/ k.no = j.no, k.at \notin {"asking", "collect"} \/ (k.at = "collect" /\ ~Real(k))
        PROVE  Account'
      BY <2>00, <2>01, <2>5 DEF Counted
  <2>6. CASE Persist(w)
    <3> DEFINE found == Filled(j) # {}
               k == [j EXCEPT !.available = found, !.snap = made + 1, !.keywords = 0]
               z == IF found THEN "rows" ELSE AfterCollect(k)
    <3>1. j.at # "idle" /\ Put(w, [k EXCEPT !.at = z]) /\ UNCHANGED <<bill, started>>
        BY <2>6 DEF Persist, Finished
    <3>2. z \notin {"asking", "collect"}
        BY DEF AfterCollect
    <3>3. [k EXCEPT !.at = z].no = j.no /\ [k EXCEPT !.at = z].at = z
        BY <2>0 DEF Job
    <3> QED BY <2>5, <3>1, <3>2, <3>3
  <2>7. CASE PersistFails(w)
    <3> DEFINE k == [j EXCEPT !.available = Filled(j) # {}, !.snap = 0, !.keywords = 0,
                              !.got = NoneGot]
               z == AfterCollect(k)
    <3>1. j.at # "idle" /\ Put(w, [k EXCEPT !.at = z]) /\ UNCHANGED <<bill, started>>
        BY <2>7 DEF PersistFails, Finished
    <3>2. z \notin {"asking", "collect"}
        BY DEF AfterCollect
    <3>3. [k EXCEPT !.at = z].no = j.no /\ [k EXCEPT !.at = z].at = z
        BY <2>0 DEF Job
    <3> QED BY <2>5, <3>1, <3>2, <3>3
  <2>8. CASE Write(w)
    <3> DEFINE k == [j EXCEPT !.keywords = j.got["domain_organic"].size]
               z == AfterCollect(k)
    <3>1. j.at # "idle" /\ Put(w, [k EXCEPT !.at = z]) /\ UNCHANGED <<bill, started>>
        BY <2>8 DEF Write
    <3>2. z \notin {"asking", "collect"}
        BY DEF AfterCollect
    <3>3. [k EXCEPT !.at = z].no = j.no /\ [k EXCEPT !.at = z].at = z
        BY <2>0 DEF Job
    <3> QED BY <2>5, <3>1, <3>2, <3>3
  <2>9. CASE Raise(w)
    <3> DEFINE k == [j EXCEPT !.at = "persist", !.got = NoneGot,
                              !.spent = IF j.at = "rows" THEN @ ELSE 0]
    <3>1. j.at # "idle" /\ Put(w, k) /\ UNCHANGED <<bill, started>>
        BY <2>9 DEF Raise
    <3>2. k.no = j.no /\ k.at = "persist"
        BY <2>0 DEF Job
    <3> QED BY <2>5, <3>1, <3>2
  <2>10. \A z : [j EXCEPT !.at = z].at = z /\ [j EXCEPT !.at = z].no = j.no
      BY <2>0 DEF Job
  <2>11. CASE FlagIt(w)
    <3>1. LET k == [j EXCEPT !.at = "conclude", !.available = j.round = "replace"]
          IN k.at = "conclude" /\ k.no = j.no
        BY <2>0 DEF Job
    <3> QED BY <2>5, <2>10, <2>11, <3>1 DEF FlagIt
  <2>12. CASE Purge(w)
      BY <2>5, <2>10, <2>12 DEF Purge
  <2>13. CASE Settle(w)
    <3>1. \A q \in {"fallback", "replace"} : LET k == Simulate(j, q)
             IN k.no = j.no /\ k.at = "collect" /\ ~Real(k)
        BY DEF Simulate, Fresh, Real
    <3>2. LET k == [j EXCEPT !.at = "topup", !.next = 1] IN k.no = j.no /\ k.at = "topup"
        BY <2>0 DEF Job
    <3> QED BY <2>5, <2>10, <2>13, <3>1, <3>2 DEF Settle
  <2>14. CASE TopUp(w)
    <3>1. \A n : LET k == [j EXCEPT !.at = "mark", !.snap = n] IN k.no = j.no /\ k.at = "mark"
        BY <2>0 DEF Job
    <3>2. LET k == [j EXCEPT !.next = @ + 1] IN k.no = j.no /\ k.at = j.at
        BY <2>0 DEF Job
    <3> QED BY <2>5, <2>14, <3>1, <3>2 DEF TopUp
  <2>15. CASE Mark(w)
    <3>1. LET k == [j EXCEPT !.at = "topup", !.next = @ + 1] IN k.no = j.no /\ k.at = "topup"
        BY <2>0 DEF Job
    <3> QED BY <2>5, <2>10, <2>15, <3>1 DEF Mark
  <2>16. CASE Conclude(w)
      BY <2>5, <2>16, IdleJob DEF Conclude
  <2>17. CASE Crash(w)
      BY <2>5, <2>17, IdleJob DEF Crash
  <2> QED BY <1>3, <2>1, <2>2, <2>3, <2>4, <2>6, <2>7, <2>8, <2>9, <2>11, <2>12, <2>13, <2>14,
             <2>15, <2>16, <2>17 DEF Work, Trouble
<1>4. ASSUME NEW w \in Worker, NEW r \in Run, Replay(w, r) PROVE Account'
    BY <1>1, <1>4 DEF Replay
<1>5. ASSUME NEW r \in Run, Dispatch(r) PROVE Account'
    BY <1>1, <1>5 DEF Dispatch
<1> QED BY <1>1, <1>2, <1>3, <1>4, <1>5 DEF Next, Work, Rekey, GoLive, vars

LEMMA Accounting == Spec => []Account
<1>1. Init => Account
  <2> SUFFICES ASSUME Init PROVE Account
      OBVIOUS
  <2>1. Idle.at = "idle" /\ Budget \in Nat
      BY MarketAssumption, IdleJob DEF MarketAssumption
  <2>2. \A w \in Worker : job[w] = Idle
      BY DEF Init
  <2> QED BY <2>1, <2>2 DEF Init, Account, Sound, Counted
<1>2. TypeOK /\ Shape /\ TypeOK' /\ Account /\ [Next]_vars => Account'
    BY MarketAssumption, AccountStep
<1> QED BY <1>1, <1>2, Shapely, PTL DEF Spec

\* No delivery is ever charged more than the budget.
THEOREM CeilingHolds == Spec => []Ceiling
<1>1. Account => Ceiling
    BY DEF Account, Ceiling
<1> QED BY <1>1, Accounting, PTL

-----------------------------------------------------------------------------
(* Clean: while demo mode has never been on, every collection has the run's *)
(* own key and every body, in a cache or in a memory, is the provider's.   *)

Provided(b) == b = NoBody \/ b.src = "provider"
Backed(r) == \E s \in snaps[r] : s.available

CleanJob(j) ==
    /\ Real(j)
    /\ j.at \notin {"flag", "purge", "topup", "mark"}
    /\ \A r \in Report : Provided(j.got[r])
    /\ j.at = "rows" => Backed(j.run)

CleanRows(r) == rows[r] # {} => rows[r] \subseteq Family \X {"provider"} /\ Backed(r)

Clean ==
    ~demoed =>
        /\ ~demo
        /\ \A c \in Calls : Provided(cache[c])
        /\ \A w \in Worker : CleanJob(job[w])
        /\ \A r \in Run : CleanRows(r)

LEMMA PutClean ==
    ASSUME TypeOK, Clean, ~demoed, NEW w \in Worker, NEW k \in Job, Put(w, k),
           UNCHANGED settings,
           \A c \in Calls : Provided(cache'[c]),
           \A r \in Run : snaps[r] \subseteq snaps'[r],
           \A r \in Run : rows'[r] = rows[r] \/ CleanRows(r)',
           Real(k), k.at \notin {"flag", "purge", "topup", "mark"},
           \A r \in Report : Provided(k.got[r]),
           k.at = "rows" => \E s \in snaps'[k.run] : s.available
    PROVE  Clean'
<1>1. job' = [job EXCEPT ![w] = k] /\ job \in [Worker -> Job]
    BY DEF Put, TypeOK
<1>2. \A v \in Worker : job[v] \in Job /\ job[v].run \in Run
    BY <1>1 DEF Job
<1>3. \A r \in Run : Backed(r) => Backed(r)'
    BY DEF Backed
<1>4. ASSUME NEW v \in Worker PROVE CleanJob(job[v])'
  <2>1. CASE v = w
    <3>1. job'[v] = k
        BY <1>1, <2>1
    <3> QED BY <3>1 DEF CleanJob, Backed, Real, Provided
  <2>2. CASE v # w
    <3>1. job'[v] = job[v] /\ CleanJob(job[v])
        BY <1>1, <2>2 DEF Clean
    <3> QED BY <1>2, <1>3, <3>1 DEF CleanJob, Real, Provided
  <2> QED BY <2>1, <2>2
<1>5. \A r \in Run : CleanRows(r)'
    BY <1>3 DEF Clean, CleanRows
<1> QED BY <1>4, <1>5 DEF Clean, settings, Provided

LEMMA CleanStep ==
    ASSUME MarketAssumption, TypeOK, Shape, TypeOK', Clean, [Next]_vars
    PROVE  Clean'
<1> USE DEF broker, stored, ledger, limits
<1>0. job \in [Worker -> Job] /\ \A w \in Worker : job[w] \in Job /\ Shaped(job[w])
    BY DEF TypeOK, Shape
<1>1. ASSUME UNCHANGED <<job, cache, stored, demoed>>, demo' = demo \/ ~demo'
      PROVE Clean'
    BY <1>1 DEF Clean, CleanJob, CleanRows, Backed, Provided, Real
<1>2. CASE demoed
  <2>1. demoed' = demoed
      BY <1>2 DEF Next, Work, Trouble, Answer, vars, settings, Dispatch, Replay, Begin, Reuse,
         DoWithout, Ask, Receive, Refuse, Fail, Persist, PersistFails, Write, Raise, FlagIt,
         Purge, Settle, TopUp, Mark, Conclude, Crash, Rekey, GoLive
  <2> QED BY <1>2, <2>1 DEF Clean
<1>3. ASSUME NEW w \in Worker, Work(w) \/ Trouble(w), ~demoed,
             \A r \in Run : ~Replay(w, r)
      PROVE  Clean'
  <2> DEFINE j == job[w]
  <2>0. j \in Job /\ Shaped(j) /\ CleanJob(j) /\ Real(j) /\ ~demo
      BY <1>0, <1>3 DEF Clean, CleanJob
  <2>00. \A k : Put(w, k) => k \in Job
    <3> SUFFICES ASSUME NEW k, Put(w, k) PROVE k \in Job
        OBVIOUS
    <3>1. job'[w] = k
        BY <1>0 DEF Put
    <3> QED BY <3>1, <1>3 DEF TypeOK
  <2>a. ASSUME NEW k, Put(w, k), UNCHANGED <<settings, cache, snaps, rows>>, Real(k),
               k.at \notin {"flag", "purge", "topup", "mark", "rows"},
               \A r \in Report : Provided(k.got[r])
        PROVE  Clean'
    <3>1. k \in Job
        BY <2>00, <2>a
    <3>2. \A c \in Calls : Provided(cache'[c])
        BY <1>3, <2>a DEF Clean
    <3> QED BY <1>3, <2>a, <3>1, <3>2, PutClean
  <2>b. \A r \in Report : Provided(j.got[r])
      BY <2>0 DEF CleanJob
  <2>1. ASSUME NEW r \in Run, Begin(w, r) PROVE Clean'
    <3> DEFINE k == Fresh(r, started + 1, key)
    <3>1. Real(k) /\ k.at = "collect" /\ \A q \in Report : k.got[q] = NoBody
        BY DEF Fresh, Real, NoneGot
    <3>2. Put(w, k) /\ UNCHANGED <<settings, cache, snaps, rows>>
        BY <2>1 DEF Begin
    <3> HIDE DEF k
    <3> QED BY <2>a, <3>1, <3>2 DEF Provided
  <2>2. ASSUME NEW i \in Job, NEW body, Provided(body), i.got = j.got, i.round = j.round,
               Planned(i) \in Call
        PROVE  LET k == Take(i, body)
               IN Real(k) /\ k.at = "collect" /\ \A r \in Report : Provided(k.got[r])
    <3> DEFINE g == [i.got EXCEPT ![Planned(i).report] = body]
    <3>1. Take(i, body).got = g /\ Take(i, body).at = "collect" /\ Take(i, body).round = i.round
        BY <2>2 DEF Take, Pass, Job
    <3>2. \A r \in Report : Provided(g[r])
        BY <2>2, <2>b DEF Job
    <3> HIDE DEF g
    <3> QED BY <2>0, <2>2, <3>1, <3>2 DEF Real
  <2>3. CASE Reuse(w)
    <3>1. Planned(j) \in Calls /\ Planned(j) \in Call
        BY <2>0, <2>3, PlanCalls DEF Reuse, Turn, PlanOver, Job
    <3>2. Provided(Cached(w))
        BY <1>3, <3>1 DEF Clean, Cached, CacheKey
    <3> QED BY <2>0, <2>2, <2>3, <2>a, <3>1, <3>2 DEF Reuse
  <2>4. CASE DoWithout(w)
    <3>1. Real(Pass(j)) /\ Pass(j).at = "collect" /\ Pass(j).got = j.got
        BY <2>0 DEF Pass, Job, Real
    <3> QED BY <2>4, <2>a, <2>b, <3>1 DEF DoWithout
  <2>5. CASE Ask(w)
    <3> DEFINE k == [j EXCEPT !.at = "asking", !.breaker = AfterAllowing(@)]
    <3>1. Real(k) /\ k.at = "asking" /\ k.got = j.got
        BY <2>0 DEF Job, Real
    <3>2. Put(w, k) /\ UNCHANGED <<settings, cache, snaps, rows>>
        BY <2>5 DEF Ask
    <3> HIDE DEF k
    <3> QED BY <2>a, <2>b, <3>1, <3>2
  <2>6. CASE Answer(w)
    <3>1. j.at = "asking"
        BY <2>6 DEF Answer, Receive, Refuse, Fail
    <3>2. Planned(j) \in Call
      <4>1. j.next <= Len(Plan(j))
          BY <2>0, <3>1 DEF Shaped
      <4> QED BY <2>0, <4>1, PlanCalls
    <3>3. /\ Charge(j) \in Job /\ Charge(j).got = j.got /\ Charge(j).round = j.round
          /\ Planned(Charge(j)) = Planned(j)
        BY <2>0, <3>2, ChargeJob DEF Charge, Job, Planned, Plan, Real
    <3>4. ASSUME NEW body, body.src = "provider", Receive(w, body) PROVE Clean'
      <4> DEFINE k == Take(Charge(j), body)
      <4>1. Real(k) /\ k.at = "collect" /\ \A r \in Report : Provided(k.got[r])
          BY <2>2, <3>2, <3>3, <3>4 DEF Provided
      <4>2. Put(w, k) /\ UNCHANGED <<settings, snaps, rows>>
          BY <3>4 DEF Receive
      <4>3. \A c \in Calls : Provided(cache'[c])
          BY <1>3, <3>4 DEF Receive, Clean, Provided, TypeOK
      <4>4. k \in Job
          BY <2>00, <4>2
      <4> HIDE DEF k
      <4> QED BY <1>3, <4>1, <4>2, <4>3, <4>4, PutClean
    <3>5. ASSUME NEW b, Refuse(w, b) PROVE Clean'
      <4> DEFINE k == [Pass(Charge(j)) EXCEPT !.halted = b]
      <4>1. Real(k) /\ k.at = "collect" /\ k.got = j.got
          BY <2>0, <3>3 DEF Pass, Job, Real
      <4>2. Put(w, k) /\ UNCHANGED <<settings, cache, snaps, rows>>
          BY <3>5 DEF Refuse
      <4> HIDE DEF k
      <4> QED BY <2>a, <2>b, <4>1, <4>2
    <3>6. ASSUME Fail(w) PROVE Clean'
      <4> DEFINE k == [Pass(j) EXCEPT !.breaker = RecordFailure(@)]
      <4>1. Real(k) /\ k.at = "collect" /\ k.got = j.got
          BY <2>0 DEF Pass, Job, Real
      <4>2. Put(w, k) /\ UNCHANGED <<settings, cache, snaps, rows>>
          BY <3>6 DEF Fail
      <4> HIDE DEF k
      <4> QED BY <2>a, <2>b, <4>1, <4>2
    <3>7. ASSUME NEW a, Receive(w, [src |-> "provider", size |-> a.size]) PROVE Clean'
        BY <3>4, <3>7
    <3> QED BY <2>0, <2>6, <3>5, <3>6, <3>7 DEF Answer
  <2>7. CASE Persist(w)
    <3> DEFINE found == Filled(j) # {}
               x == [id |-> made + 1, no |-> j.no, available |-> found, units |-> j.spent,
                     flags |-> {}, srcs |-> {j.got[r].src : r \in Filled(j)}]
               k == [j EXCEPT !.available = found, !.snap = made + 1, !.keywords = 0]
               z == IF found THEN "rows" ELSE "settle"
               l == [k EXCEPT !.at = z]
    <3>1. AfterCollect(k) = "settle"
        BY <2>0 DEF AfterCollect, Real, Job
    <3>2. Put(w, l) /\ UNCHANGED <<settings, cache, rows>>
        BY <2>7, <3>1 DEF Persist
    <3>3. Real(l) /\ l.at = z /\ l.got = j.got /\ l.run = j.run
        BY <2>0 DEF Job, Real
    <3>4. snaps' = [snaps EXCEPT ![j.run] = @ \cup {x}] /\ j.run \in Run
        BY <2>0, <2>7 DEF Persist, Job
    <3>5. z = "rows" => \E s \in snaps'[j.run] : s.available
      <4>1. x \in snaps'[j.run]
          BY <3>4 DEF TypeOK
      <4>2. z = "rows" => x.available
          OBVIOUS
      <4> QED BY <4>1, <4>2
    <3>6. \A r \in Run : snaps[r] \subseteq snaps'[r]
        BY <3>4 DEF TypeOK
    <3>7. \A c \in Calls : Provided(cache'[c])
        BY <1>3, <3>2 DEF Clean
    <3>8. l \in Job
        BY <2>00, <3>2
    <3>9. z \notin {"flag", "purge", "topup", "mark"}
        OBVIOUS
    <3> HIDE DEF z, l, x
    <3> QED BY <1>3, <2>b, <3>2, <3>3, <3>5, <3>6, <3>7, <3>8, <3>9, PutClean
  <2>8. CASE PersistFails(w)
    <3> DEFINE k == [j EXCEPT !.available = Filled(j) # {}, !.snap = 0, !.keywords = 0,
                              !.got = NoneGot]
               l == [k EXCEPT !.at = "settle"]
    <3>1. AfterCollect(k) = "settle"
        BY <2>0 DEF AfterCollect, Real, Job
    <3>2. Put(w, l) /\ UNCHANGED <<settings, cache, snaps, rows>>
        BY <2>8, <3>1 DEF PersistFails
    <3>3. Real(l) /\ l.at = "settle" /\ l.got = NoneGot
        BY <2>0 DEF Job, Real
    <3> HIDE DEF l
    <3> QED BY <2>a, <3>2, <3>3 DEF NoneGot, Provided
  <2>9. Found(j) \subseteq Family \X {"provider"}
    <3>1. \A r \in Filled(j) : FamilyOf[r] \in Family /\ j.got[r].src = "provider"
        BY <2>b DEF Filled, Provided, NoBody, FamilyOf, Family, Report
    <3> QED BY <3>1 DEF Found
  <2>10. ASSUME NEW part \in SUBSET Found(j), j.at = "rows", UNCHANGED snaps,
                rows' = [rows EXCEPT ![j.run] = @ \cup part]
         PROVE  \A r \in Run : rows'[r] = rows[r] \/ CleanRows(r)'
    <3>1. j.run \in Run /\ Backed(j.run) /\ CleanRows(j.run)
        BY <1>3, <2>0, <2>10 DEF Clean, CleanJob, Job
    <3>2. rows'[j.run] = rows[j.run] \cup part /\ \A r \in Run : r # j.run => rows'[r] = rows[r]
        BY <2>10, <3>1 DEF TypeOK
    <3>3. rows'[j.run] \subseteq Family \X {"provider"}
        BY <2>9, <3>1, <3>2 DEF CleanRows
    <3>4. \A r \in Run : r = j.run => CleanRows(r)'
        BY <2>10, <3>1, <3>3 DEF CleanRows, Backed
    <3> QED BY <3>2, <3>4
  <2>c. ASSUME NEW k, Put(w, k), UNCHANGED <<settings, cache, snaps>>, Real(k),
               k.at \notin {"flag", "purge", "topup", "mark", "rows"},
               \A r \in Report : Provided(k.got[r]),
               \E part \in SUBSET Found(j) :
                  rows' = [rows EXCEPT ![j.run] = IF j.at = "rows" THEN @ \cup part ELSE @]
        PROVE  Clean'
    <3>1. k \in Job
        BY <2>00, <2>c
    <3>2. \A c \in Calls : Provided(cache'[c])
        BY <1>3, <2>c DEF Clean
    <3>3. \A r \in Run : rows'[r] = rows[r] \/ CleanRows(r)'
      <4>1. CASE j.at = "rows"
          BY <2>10, <2>c, <4>1
      <4>2. CASE j.at # "rows"
          BY <2>c, <4>2 DEF TypeOK
      <4> QED BY <4>1, <4>2
    <3> QED BY <1>3, <2>c, <3>1, <3>2, <3>3, PutClean
  <2>11. CASE Write(w)
    <3> DEFINE k == [j EXCEPT !.keywords = j.got["domain_organic"].size]
               l == [k EXCEPT !.at = "settle"]
    <3>1. AfterCollect(k) = "settle"
        BY <2>0 DEF AfterCollect, Real, Job
    <3>2. Put(w, l) /\ UNCHANGED <<settings, cache, snaps>>
        BY <2>11, <3>1 DEF Write
    <3>3. Real(l) /\ l.at = "settle" /\ l.got = j.got
        BY <2>0 DEF Job, Real
    <3>4. rows' = [rows EXCEPT ![j.run] = IF j.at = "rows" THEN @ \cup Found(j) ELSE @]
        BY <2>11 DEF Write
    <3>5. Found(j) \in SUBSET Found(j)
        OBVIOUS
    <3> HIDE DEF l
    <3> QED BY <2>b, <2>c, <3>2, <3>3, <3>4, <3>5
  <2>12. CASE Raise(w)
    <3> DEFINE k == [j EXCEPT !.at = "persist", !.got = NoneGot,
                              !.spent = IF j.at = "rows" THEN @ ELSE 0]
    <3>1. Real(k) /\ k.at = "persist" /\ k.got = NoneGot
        BY <2>0 DEF Job, Real
    <3>2. Put(w, k) /\ UNCHANGED <<settings, cache, snaps>>
        BY <2>12 DEF Raise
    <3>3. \E part \in SUBSET Found(j) :
             rows' = [rows EXCEPT ![j.run] = IF j.at = "rows" THEN @ \cup part ELSE @]
        BY <2>12 DEF Raise
    <3> HIDE DEF k
    <3> QED BY <2>c, <3>1, <3>2, <3>3 DEF NoneGot, Provided
  <2>13. CASE Settle(w)
    <3> DEFINE k == [j EXCEPT !.at = "conclude"]
    <3>1. Real(k) /\ k.at = "conclude" /\ k.got = j.got
        BY <2>0 DEF Job, Real
    <3>2. Put(w, k) /\ UNCHANGED <<settings, cache, snaps, rows>>
        BY <2>0, <2>13 DEF Settle
    <3> HIDE DEF k
    <3> QED BY <2>a, <2>b, <3>1, <3>2
  <2>14. Real(Idle) /\ Idle.at = "idle" /\ \A r \in Report : Provided(Idle.got[r])
      BY DEF Idle, Fresh, Real, NoneGot, Provided
  <2>15. CASE Conclude(w)
      BY <2>14, <2>15, <2>a DEF Conclude
  <2>16. CASE Crash(w)
      BY <2>14, <2>16, <2>c DEF Crash, settings
  <2>17. ~FlagIt(w) /\ ~Purge(w) /\ ~TopUp(w) /\ ~Mark(w)
      BY <2>0 DEF CleanJob, FlagIt, Purge, TopUp, Mark
  <2> QED BY <1>3, <2>1, <2>3, <2>4, <2>5, <2>6, <2>7, <2>8, <2>11, <2>12, <2>13, <2>15, <2>16,
             <2>17 DEF Work, Trouble
<1>4. ASSUME NEW w \in Worker, NEW r \in Run, Replay(w, r) PROVE Clean'
    BY <1>1, <1>4 DEF Replay, settings
<1>5. ASSUME NEW r \in Run, Dispatch(r) PROVE Clean'
    BY <1>1, <1>5 DEF Dispatch, settings
<1>6. CASE Rekey \/ GoLive \/ UNCHANGED vars
    BY <1>1, <1>6 DEF Rekey, GoLive, vars, settings
<1> QED BY <1>2, <1>3, <1>4, <1>5, <1>6 DEF Next

LEMMA Cleanly == Spec => []Clean
<1>1. Init => Clean
  <2> SUFFICES ASSUME Init PROVE Clean
      OBVIOUS
  <2>1. CleanJob(Idle)
      BY DEF CleanJob, Idle, Fresh, Real, NoneGot, Provided
  <2> QED BY <2>1 DEF Init, Clean, CleanRows, Provided
<1>2. TypeOK /\ Shape /\ TypeOK' /\ Clean /\ [Next]_vars => Clean'
    BY MarketAssumption, CleanStep
<1> QED BY <1>1, <1>2, Shapely, PTL DEF Spec

\* Without demo mode every row of a run is the provider's, and has a snapshot behind it.
THEOREM NothingIsInvented == Spec => []NothingInvented
<1>1. Clean => NothingInvented
    BY DEF Clean, CleanRows, Backed, NothingInvented
<1> QED BY <1>1, Cleanly, PTL

-----------------------------------------------------------------------------
(* Booked: what Ledger says, and that nothing has raised.                  *)

Recorded(n) == \E r \in Run : \E s \in snaps[r] : s.no = n /\ s.units = bill[n]

Booked ==
    ~demoed /\ faults = 0 =>
        /\ \A w \in Worker : job[w].at # "persist"
        /\ \A n \in 1 .. started : Open(n) \/ n \in lost \/ Recorded(n)

LEMMA PutBooked ==
    ASSUME MarketAssumption, TypeOK, Booked, ~demoed, faults = 0, NEW w \in Worker, NEW k, Put(w, k),
           UNCHANGED started, k.at # "persist",
           \A r \in Run : snaps[r] \subseteq snaps'[r],
           lost \subseteq lost',
           Collecting(job[w]) => \/ k.no = job[w].no /\ Collecting(k)
                                 \/ job[w].no \in lost'
                                 \/ \E r \in Run : \E s \in snaps'[r] :
                                       s.no = job[w].no /\ s.units = bill'[job[w].no],
           \A n \in Delivery : bill'[n] = bill[n] \/ (n = job[w].no /\ Collecting(job[w]))
    PROVE  Booked'
<1>1. job' = [job EXCEPT ![w] = k] /\ job \in [Worker -> Job]
    BY DEF Put, TypeOK
<1>2. \A v \in Worker : job'[v].at # "persist"
    BY <1>1 DEF Booked
<1>3. ASSUME NEW n \in 1 .. started PROVE Open(n)' \/ n \in lost' \/ Recorded(n)'
  <2>0. n \in Delivery
      BY DEF TypeOK, Delivery, MarketAssumption
  <2>1. CASE n = job[w].no /\ Collecting(job[w])
    <3>1. CASE k.no = job[w].no /\ Collecting(k)
        BY <1>1, <2>1, <3>1 DEF Open, Collecting, Real
    <3>2. CASE n \in lost'
        BY <3>2
    <3>3. CASE \E r \in Run : \E s \in snaps'[r] : s.no = n /\ s.units = bill'[n]
        BY <3>3 DEF Recorded
    <3> QED BY <2>1, <3>1, <3>2, <3>3
  <2>2. CASE ~(n = job[w].no /\ Collecting(job[w]))
    <3>1. bill'[n] = bill[n]
        BY <2>0, <2>2
    <3>2. Recorded(n) => Recorded(n)'
        BY <3>1 DEF Recorded
    <3>3. ASSUME NEW v \in Worker, job[v].no = n, Collecting(job[v]) PROVE Open(n)'
      <4>1. v # w
          BY <2>2, <3>3
      <4>2. job'[v] = job[v]
          BY <1>1, <4>1
      <4> QED BY <3>3, <4>2 DEF Open, Collecting, Real
    <3> QED BY <3>2, <3>3 DEF Booked, Open
  <2> QED BY <2>1, <2>2
<1> QED BY <1>2, <1>3 DEF Booked

LEMMA BookedStep ==
    ASSUME MarketAssumption, TypeOK, Shape, Account, Clean, Booked, [Next]_vars
    PROVE  Booked'
<1> USE DEF settings, broker, stored, ledger, limits
<1>0. job \in [Worker -> Job] /\ \A w \in Worker : job[w] \in Job /\ Shaped(job[w])
    BY DEF TypeOK, Shape
<1>1. ASSUME UNCHANGED <<job, snaps, ledger, demoed, faults>> PROVE Booked'
    BY <1>1 DEF Booked, Open, Collecting, Real, Recorded
<1>2. ASSUME NEW w \in Worker, NEW r \in Run, Begin(w, r), ~demoed, faults = 0 PROVE Booked'
  <2> DEFINE k == Fresh(r, started + 1, key)
  <2>1. /\ started' = started + 1 /\ job' = [job EXCEPT ![w] = k]
        /\ UNCHANGED <<snaps, bill, lost>> /\ job[w].at = "idle"
      BY <1>2 DEF Begin, Put
  <2>2. k.no = started + 1 /\ Collecting(k) /\ k.at # "persist"
      BY DEF Fresh, Collecting, Real
  <2>3. \A n : n = started + 1 => Open(n)'
      BY <1>0, <2>1, <2>2 DEF Open, Collecting, Real
  <2>4. ASSUME NEW n \in 1 .. started, Open(n) PROVE Open(n)'
    <3>1. PICK v \in Worker : job[v].no = n /\ Collecting(job[v])
        BY <2>4 DEF Open
    <3>2. v # w
        BY <2>1, <3>1 DEF Collecting
    <3>3. job'[v] = job[v]
        BY <1>0, <2>1, <3>2
    <3> QED BY <3>1, <3>3 DEF Open, Collecting, Real
  <2>5. \A n \in 1 .. started : Recorded(n) => Recorded(n)'
      BY <2>1 DEF Recorded
  <2>6. \A n \in 1 .. started' : n \in 1 .. started \/ n = started + 1
      BY <2>1 DEF TypeOK
  <2>7. \A v \in Worker : job'[v].at # "persist"
    <3>1. \A v \in Worker : job[v].at # "persist"
        BY <1>2 DEF Booked
    <3>2. k.at # "persist"
        BY <2>2
    <3> HIDE DEF k
    <3> QED BY <1>0, <2>1, <3>1, <3>2
  <2> QED BY <1>2, <2>1, <2>3, <2>4, <2>5, <2>6, <2>7 DEF Booked
<1>3. ASSUME NEW w \in Worker, Work(w) \/ Trouble(w), ~demoed, faults = 0,
             \A r \in Run : ~Replay(w, r) /\ ~Begin(w, r)
      PROVE  Booked'
  <2> DEFINE j == job[w]
  <2>0. j \in Job /\ Shaped(j) /\ CleanJob(j) /\ Real(j) /\ ~demo /\ j.at # "persist"
      BY <1>0, <1>3 DEF Clean, CleanJob, Booked
  <2>a. ASSUME NEW k, Put(w, k), UNCHANGED <<snaps, started, lost>>, k.at # "persist",
               Collecting(j) => k.no = j.no /\ Collecting(k),
               bill' = bill \/ (Charged(w) /\ Collecting(j))
        PROVE  Booked'
    <3>1. \A n \in Delivery : bill'[n] = bill[n] \/ (n = j.no /\ Collecting(j))
        BY <2>a DEF Charged, TypeOK
    <3> QED BY <1>3, <2>a, <3>1, PutBooked
  <2>1. CASE Reuse(w)
    <3>1. Real(Take(j, Cached(w))) /\ Take(j, Cached(w)).no = j.no /\ Take(j, Cached(w)).at = "collect"
        BY <2>0 DEF Take, Pass, Job, Real
    <3> QED BY <2>a, <2>1, <3>1 DEF Reuse, Collecting
  <2>2. CASE DoWithout(w)
    <3>1. Real(Pass(j)) /\ Pass(j).no = j.no /\ Pass(j).at = "collect"
        BY <2>0 DEF Pass, Job, Real
    <3> QED BY <2>a, <2>2, <3>1 DEF DoWithout, Collecting
  <2>3. CASE Ask(w)
    <3> DEFINE k == [j EXCEPT !.at = "asking", !.breaker = AfterAllowing(@)]
    <3>1. Real(k) /\ k.no = j.no /\ k.at = "asking"
        BY <2>0 DEF Job, Real
    <3>2. Put(w, k) /\ UNCHANGED <<snaps, ledger>>
        BY <2>3 DEF Ask
    <3> HIDE DEF k
    <3> QED BY <2>a, <3>1, <3>2 DEF Collecting
  <2>4. CASE Answer(w)
    <3>1. j.at = "asking" /\ Collecting(j)
        BY <2>0, <2>4 DEF Answer, Receive, Refuse, Fail, Collecting
    <3>2. Planned(j) \in Call
      <4>1. j.next <= Len(Plan(j))
          BY <2>0, <3>1 DEF Shaped
      <4> QED BY <2>0, <4>1, PlanCalls
    <3>3. Charge(j) \in Job /\ Charge(j).no = j.no /\ Charge(j).round = j.round
        BY <2>0, <3>2, ChargeJob DEF Charge, Job
    <3>4. ASSUME NEW body, Receive(w, body) PROVE Booked'
      <4> DEFINE k == Take(Charge(j), body)
      <4>1. Real(k) /\ k.no = j.no /\ k.at = "collect"
          BY <2>0, <3>3 DEF Take, Pass, Job, Real
      <4>2. Put(w, k) /\ Charged(w) /\ UNCHANGED <<snaps, started, lost>>
          BY <3>4 DEF Receive
      <4> HIDE DEF k
      <4> QED BY <2>a, <3>1, <4>1, <4>2 DEF Collecting
    <3>5. ASSUME NEW b, Refuse(w, b) PROVE Booked'
      <4> DEFINE k == [Pass(Charge(j)) EXCEPT !.halted = b]
      <4>1. Real(k) /\ k.no = j.no /\ k.at = "collect"
          BY <2>0, <3>3 DEF Pass, Job, Real
      <4>2. Put(w, k) /\ Charged(w) /\ UNCHANGED <<snaps, started, lost>>
          BY <3>5 DEF Refuse
      <4> HIDE DEF k
      <4> QED BY <2>a, <3>1, <4>1, <4>2 DEF Collecting
    <3>6. ASSUME Fail(w) PROVE Booked'
      <4> DEFINE k == [Pass(j) EXCEPT !.breaker = RecordFailure(@)]
      <4>1. Real(k) /\ k.no = j.no /\ k.at = "collect"
          BY <2>0 DEF Pass, Job, Real
      <4>2. Put(w, k) /\ UNCHANGED <<snaps, ledger>>
          BY <3>6 DEF Fail
      <4> HIDE DEF k
      <4> QED BY <2>a, <4>1, <4>2 DEF Collecting
    <3> QED BY <2>4, <3>4, <3>5, <3>6 DEF Answer
  <2>5. CASE Persist(w)
    <3> DEFINE found == Filled(j) # {}
               x == [id |-> made + 1, no |-> j.no, available |-> found, units |-> j.spent,
                     flags |-> {}, srcs |-> {j.got[r].src : r \in Filled(j)}]
               i == [j EXCEPT !.available = found, !.snap = made + 1, !.keywords = 0]
               z == IF found THEN "rows" ELSE "settle"
               k == [i EXCEPT !.at = z]
    <3>1. AfterCollect(i) = "settle"
        BY <2>0 DEF AfterCollect, Real, Job
    <3>2. Put(w, k) /\ UNCHANGED ledger /\ j.at = "collect"
        BY <2>0, <2>5, <3>1 DEF Persist, Finished
    <3>3. k.at # "persist"
        BY <2>0 DEF Job
    <3>4. snaps' = [snaps EXCEPT ![j.run] = @ \cup {x}] /\ j.run \in Run
        BY <2>0, <2>5 DEF Persist, Job
    <3>5. bill[j.no] = j.spent
        BY <1>3, <2>0, <3>2 DEF Account, Sound, Counted
    <3>6. x \in snaps'[j.run] /\ x.no = j.no /\ x.units = bill'[j.no]
        BY <3>2, <3>4, <3>5 DEF TypeOK
    <3>7. \A r \in Run : snaps[r] \subseteq snaps'[r]
        BY <3>4 DEF TypeOK
    <3> HIDE DEF k, x
    <3> QED BY <1>3, <3>2, <3>3, <3>4, <3>6, <3>7, PutBooked
  <2>6. CASE PersistFails(w) \/ Raise(w)
    <3>1. faults' = 1
        BY <1>3, <2>6 DEF PersistFails, Raise
    <3> QED BY <3>1 DEF Booked
  <2>7. CASE Write(w)
    <3> DEFINE i == [j EXCEPT !.keywords = j.got["domain_organic"].size]
               k == [i EXCEPT !.at = "settle"]
    <3>1. AfterCollect(i) = "settle"
        BY <2>0 DEF AfterCollect, Real, Job
    <3>2. Put(w, k) /\ UNCHANGED <<snaps, ledger>> /\ ~Collecting(j)
        BY <2>7, <3>1 DEF Write, Collecting
    <3>3. k.at = "settle"
        BY <2>0 DEF Job
    <3> HIDE DEF k
    <3> QED BY <2>a, <3>2, <3>3
  <2>8. CASE Settle(w)
    <3> DEFINE k == [j EXCEPT !.at = "conclude"]
    <3>1. k.at = "conclude"
        BY <2>0 DEF Job
    <3>2. Put(w, k) /\ UNCHANGED <<snaps, ledger>> /\ ~Collecting(j)
        BY <2>0, <2>8 DEF Settle, Collecting
    <3> HIDE DEF k
    <3> QED BY <2>a, <3>1, <3>2
  <2>9. Idle.at = "idle"
      BY DEF Idle, Fresh
  <2>10. CASE Conclude(w)
    <3>1. ~Collecting(j)
        BY <2>10 DEF Conclude, Collecting
    <3> QED BY <2>9, <2>10, <2>a, <3>1 DEF Conclude
  <2>11. CASE Crash(w)
    <3>1. Put(w, Idle) /\ UNCHANGED <<snaps, started, bill>> /\ lost \subseteq lost'
        BY <2>11 DEF Crash
    <3>2. Collecting(j) => j.no \in lost'
        BY <2>11 DEF Crash, Collecting
    <3> QED BY <1>3, <2>9, <3>1, <3>2, PutBooked
  <2>12. ~FlagIt(w) /\ ~Purge(w) /\ ~TopUp(w) /\ ~Mark(w)
      BY <2>0 DEF CleanJob, FlagIt, Purge, TopUp, Mark
  <2> QED BY <1>3, <2>1, <2>2, <2>3, <2>4, <2>5, <2>6, <2>7, <2>8, <2>10, <2>11, <2>12
          DEF Work, Trouble
<1>4. CASE demoed \/ faults # 0
  <2>1. demoed' = demoed /\ (faults' = faults \/ faults' = faults + 1)
      BY DEF Next, Work, Trouble, Answer, vars, Dispatch, Replay, Begin, Reuse,
         DoWithout, Ask, Receive, Refuse, Fail, Persist, PersistFails, Write, Raise, FlagIt,
         Purge, Settle, TopUp, Mark, Conclude, Crash, Rekey, GoLive
  <2> QED BY <1>4, <2>1 DEF Booked, TypeOK
<1>5. ASSUME NEW w \in Worker, NEW r \in Run, Replay(w, r) PROVE Booked'
    BY <1>1, <1>5 DEF Replay
<1>6. ASSUME NEW r \in Run, Dispatch(r) PROVE Booked'
    BY <1>1, <1>6 DEF Dispatch
<1>7. CASE Rekey \/ GoLive \/ UNCHANGED vars
    BY <1>1, <1>7 DEF Rekey, GoLive, vars
<1> QED BY <1>2, <1>3, <1>4, <1>5, <1>6, <1>7 DEF Next, Work

\* Without demo mode and failed writes every charged unit is in a snapshot, under way or lost.
THEOREM LedgerHolds == Spec => []Ledger
<1>1. Init => Booked
    BY DEF Init, Booked, Idle, Fresh
<1>2. TypeOK /\ Shape /\ Account /\ Clean /\ Booked /\ [Next]_vars => Booked'
    BY MarketAssumption, BookedStep
<1>3. Booked => Ledger
    BY DEF Booked, Ledger, Recorded
<1> QED BY <1>1, <1>2, <1>3, Shapely, Accounting, Cleanly, PTL DEF Spec

-----------------------------------------------------------------------------
\* A run with a snapshot and no worker at it is left alone by every step.
THEOREM SettledStays == Spec => StaysSettled
<1> DEFINE Left(r) == Settled(r) => /\ snaps'[r] = snaps[r]
                                    /\ rows'[r] = rows[r]
                                    /\ \A w \in Worker : job'[w].at = "idle" \/ job'[w].run # r
<1>1. ASSUME TypeOK, Next, NEW r \in Run PROVE Left(r)
  <2> USE DEF settings, broker, stored, ledger, limits
  <2> SUFFICES ASSUME Settled(r) PROVE Left(r)
      OBVIOUS
  <2>0. /\ job \in [Worker -> Job]
        /\ \A w \in Worker : job[w] \in Job /\ (job[w].at = "idle" \/ job[w].run # r)
      BY <1>1 DEF TypeOK, Settled
  <2>1. ASSUME UNCHANGED <<job, snaps, rows>> PROVE Left(r)
      BY <2>0, <2>1
  <2>2. ASSUME NEW w \in Worker, NEW q \in Run, Begin(w, q) PROVE Left(r)
    <3>1. q # r
        BY <2>2 DEF Begin, HasFreshSnapshot, Settled
    <3>2. Fresh(q, started + 1, key).run = q
        BY DEF Fresh
    <3> QED BY <2>0, <2>2, <3>1, <3>2 DEF Begin, Put
  <2>3. ASSUME NEW w \in Worker, Work(w) \/ Trouble(w),
               \A q \in Run : ~Replay(w, q) /\ ~Begin(w, q)
        PROVE  Left(r)
    <3> DEFINE j == job[w]
    <3>0. j \in Job /\ (j.at = "idle" \/ j.run # r)
        BY <2>0, <2>3
    <3>1. j.at # "idle"
        BY <2>3 DEF Work, Trouble, Answer, Reuse, DoWithout, Ask, Receive, Refuse, Fail, Turn,
           Persist, PersistFails, Finished, Write, Raise, FlagIt, Purge, Settle, TopUp, Mark,
           Conclude, Crash
    <3>2. /\ snaps' = snaps \/ \E T : snaps' = [snaps EXCEPT ![j.run] = T]
          /\ rows' = rows \/ \E T : rows' = [rows EXCEPT ![j.run] = T]
      <4>1. CASE Reuse(w) \/ DoWithout(w) \/ Ask(w) \/ Settle(w) \/ Conclude(w) \/ PersistFails(w)
          BY <4>1 DEF Reuse, DoWithout, Ask, Settle, Conclude, PersistFails
      <4>2. CASE Answer(w)
          BY <4>2 DEF Answer, Receive, Refuse, Fail
      <4>3. CASE Persist(w)
          BY <4>3 DEF Persist
      <4>4. CASE Write(w)
          BY <4>4 DEF Write
      <4>5. CASE Raise(w)
          BY <4>5 DEF Raise
      <4>6. CASE Crash(w)
          BY <4>6 DEF Crash
      <4>7. CASE FlagIt(w)
          BY <4>7 DEF FlagIt
      <4>8. CASE Purge(w)
          BY <4>8 DEF Purge
      <4>9. CASE TopUp(w)
          BY <4>9 DEF TopUp
      <4>10. CASE Mark(w)
          BY <4>10 DEF Mark
      <4> QED BY <2>3, <4>1, <4>2, <4>3, <4>4, <4>5, <4>6, <4>7, <4>8, <4>9, <4>10 DEF Work, Trouble
    <3>3. \E k : Put(w, k) /\ (k.at = "idle" \/ k.run = j.run)
      <4>a. \A z : [j EXCEPT !.at = z].run = j.run
          BY <3>0 DEF Job
      <4>1. CASE Reuse(w)
        <5>1. Take(j, Cached(w)).run = j.run
            BY <3>0 DEF Take, Pass, Job
        <5> QED BY <4>1, <5>1 DEF Reuse
      <4>2. CASE DoWithout(w)
        <5>1. Pass(j).run = j.run
            BY <3>0 DEF Pass, Job
        <5> QED BY <4>2, <5>1 DEF DoWithout
      <4>3. CASE Ask(w)
        <5>1. [j EXCEPT !.at = "asking", !.breaker = AfterAllowing(@)].run = j.run
            BY <3>0 DEF Job
        <5> QED BY <4>3, <5>1 DEF Ask
      <4>4. CASE Answer(w)
        <5>1. \A body : Take(Charge(j), body).run = j.run
            BY <3>0 DEF Take, Pass, Charge, Job
        <5>2. \A b : [Pass(Charge(j)) EXCEPT !.halted = b].run = j.run
            BY <3>0 DEF Pass, Charge, Job
        <5>3. [Pass(j) EXCEPT !.breaker = RecordFailure(@)].run = j.run
            BY <3>0 DEF Pass, Job
        <5> QED BY <4>4, <5>1, <5>2, <5>3 DEF Answer, Receive, Refuse, Fail
      <4>5. CASE Persist(w)
        <5> DEFINE k == [j EXCEPT !.available = Filled(j) # {}, !.snap = made + 1, !.keywords = 0]
                   l == [k EXCEPT !.at = IF Filled(j) # {} THEN "rows" ELSE AfterCollect(k)]
        <5>1. Put(w, l)
            BY <4>5 DEF Persist
        <5>2. l.run = j.run
            BY <3>0 DEF Job
        <5> HIDE DEF l
        <5> QED BY <5>1, <5>2
      <4>6. CASE PersistFails(w)
        <5>1. \A b, z : LET k == [j EXCEPT !.available = b, !.snap = 0, !.keywords = 0,
                                           !.got = NoneGot]
                        IN [k EXCEPT !.at = z].run = j.run
            BY <3>0 DEF Job
        <5> QED BY <4>6, <5>1 DEF PersistFails
      <4>7. CASE Write(w)
        <5>1. \A n, z : LET k == [j EXCEPT !.keywords = n] IN [k EXCEPT !.at = z].run = j.run
            BY <3>0 DEF Job
        <5> QED BY <4>7, <5>1 DEF Write
      <4>8. CASE Raise(w)
        <5>1. [j EXCEPT !.at = "persist", !.got = NoneGot,
                        !.spent = IF j.at = "rows" THEN @ ELSE 0].run = j.run
            BY <3>0 DEF Job
        <5> QED BY <4>8, <5>1 DEF Raise
      <4>9. CASE FlagIt(w)
        <5>1. [j EXCEPT !.at = "conclude", !.available = j.round = "replace"].run = j.run
            BY <3>0 DEF Job
        <5> QED BY <4>9, <4>a, <5>1 DEF FlagIt
      <4>10. CASE Purge(w)
          BY <4>10, <4>a DEF Purge
      <4>11. CASE Settle(w)
        <5>1. \A q : Simulate(j, q).run = j.run
            BY DEF Simulate, Fresh
        <5>2. [j EXCEPT !.at = "topup", !.next = 1].run = j.run
            BY <3>0 DEF Job
        <5> QED BY <4>11, <4>a, <5>1, <5>2 DEF Settle
      <4>12. CASE TopUp(w)
        <5>1. \A n : [j EXCEPT !.at = "mark", !.snap = n].run = j.run
            BY <3>0 DEF Job
        <5>2. [j EXCEPT !.next = @ + 1].run = j.run
            BY <3>0 DEF Job
        <5> QED BY <4>12, <5>1, <5>2 DEF TopUp
      <4>13. CASE Mark(w)
        <5>1. [j EXCEPT !.at = "topup", !.next = @ + 1].run = j.run
            BY <3>0 DEF Job
        <5> QED BY <4>13, <4>a, <5>1 DEF Mark
      <4>14. CASE Conclude(w) \/ Crash(w)
        <5>1. Idle.at = "idle"
            BY DEF Idle, Fresh
        <5> QED BY <4>14, <5>1 DEF Conclude, Crash
      <4> QED BY <2>3, <4>1, <4>2, <4>3, <4>4, <4>5, <4>6, <4>7, <4>8, <4>9, <4>10, <4>11, <4>12,
                 <4>13, <4>14 DEF Work, Trouble
    <3>4. j.run # r
        BY <3>0, <3>1
    <3>5. snaps'[r] = snaps[r] /\ rows'[r] = rows[r]
        BY <1>1, <3>2, <3>4 DEF TypeOK
    <3>6. \A v \in Worker : job'[v].at = "idle" \/ job'[v].run # r
        BY <2>0, <3>3, <3>4 DEF Put
    <3> QED BY <3>5, <3>6
  <2>4. ASSUME NEW w \in Worker, NEW q \in Run, Replay(w, q) PROVE Left(r)
      BY <2>1, <2>4 DEF Replay
  <2>5. ASSUME NEW q \in Run, Dispatch(q) PROVE Left(r)
      BY <2>1, <2>5 DEF Dispatch
  <2>6. CASE Rekey \/ GoLive
      BY <2>1, <2>6 DEF Rekey, GoLive
  <2> QED BY <1>1, <2>2, <2>3, <2>4, <2>5, <2>6 DEF Next, Work
<1>2. TypeOK /\ [Next]_vars => [\A r \in Run : Left(r)]_vars
    BY <1>1
<1> QED BY <1>2, TypeCorrect, PTL DEF Spec, StaysSettled
=============================================================================
