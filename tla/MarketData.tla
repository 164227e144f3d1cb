------------------------------ MODULE MarketData ------------------------------
(***************************************************************************)
(* Market data for the runs of one domain: the Celery task                 *)
(* collect_market_data (integrations/tasks.py), MarketDataService          *)
(* (integrations/market_data.py) and the simulated provider of demo mode   *)
(* (integrations/demo_market.py).                                          *)
(*                                                                         *)
(* A delivery of the task asks the provider for one planned report after   *)
(* another.  What it has spent is in its memory; what it was told is in a  *)
(* cache that every run, every worker and the simulation share; what it    *)
(* found is written in autocommitted steps at the end.  A worker may be    *)
(* lost between any two steps, a write may fail, the API key comes and     *)
(* goes, and a redeploy turns demo mode off.                               *)
(***************************************************************************)
EXTENDS MarketReports, FiniteSets

CONSTANTS
    Worker,      \* the worker processes
    Run,         \* the audit runs of the domain
    Tier,        \* SEMRUSH_PLAN_TIER
    Budget,      \* SEMRUSH_UNIT_BUDGET
    Replies,     \* what the provider may answer
    Phrases,     \* the size of the simulated keyword report: the site's own phrases
    MaxSends,    \* bound on the messages of one run
    MaxStarts,   \* bound on the deliveries that start to collect
    MaxTroubles  \* bound on lost workers and failed reads and writes together

ASSUME MarketAssumption ==
    /\ Run # {}
    /\ Tier \in DOMAIN PLANS
    /\ Replies \subseteq Reply
    /\ Phrases \in Size
    /\ {Budget, MaxSends, MaxStarts, MaxTroubles} \subseteq Nat

DemoBudget == 100000
Floor == 2    \* DEMO_MIN_KEYWORD_ROWS: a body of size 2 has that many rows
Status == {"absent", "pending", "running", "succeeded", "skipped"}
Delivery == 1 .. MaxStarts

\* The collection under way in a delivery: with the run's own key, or the simulation
\* because that one came to nothing, or because it had too few keywords.
Round == {"real", "fallback", "replace"}
Step == {"idle", "collect", "asking", "persist", "rows", "flag", "purge", "settle",
         "topup", "mark", "conclude"}
Flag == {"simulated", "competitors_simulated", "refdomains_simulated"}
Family == {"totals", "keywords", "competitors", "authority", "refdomains"}

VARIABLES
    key,     \* does an API key resolve?
    demo,    \* MARKET_DATA_DEMO_MODE
    cache,   \* [Call -> Body or NoBody], for the calls of some plan
    queue,   \* [Run -> Nat]: messages waiting in the broker
    sent,    \* [Run -> Nat]: messages sent so far
    stage,   \* [Run -> Status]: the enriching RunStage
    snaps,   \* [Run -> set of SourceSnapshot rows]
    rows,    \* [Run -> SUBSET (Family \X Source)]: metrics, keywords and backlinks
    job,     \* [Worker -> Job]: the delivery at work
    made,    \* how many snapshots have been created
    started, \* how many deliveries have started to collect
    bill,    \* [Delivery -> Nat]: the provider's units charged to a delivery
    lost,    \* the deliveries that went with their worker
    demoed,  \* has demo mode ever been on?
    crashes, \* how many workers have been lost
    faults   \* how many reads and writes have failed

settings == <<key, demo, demoed>>
broker == <<queue, sent>>
stored == <<snaps, rows, made>>
ledger == <<started, bill, lost>>
limits == <<crashes, faults>>
vars == <<settings, cache, broker, stage, stored, job, ledger, limits>>

Calls == UNION {{PLANS[t][i] : i \in DOMAIN PLANS[t]} : t \in {Tier, "standard"}}

Snapshot == [id : Nat, no : Delivery, available : BOOLEAN, units : Nat,
             flags : SUBSET Flag, srcs : SUBSET Source]
Job == [at : Step, run : Run, no : Delivery \cup {0}, round : Round, keyed : BOOLEAN,
        next : Nat \ {0}, spent : Nat, halted : BOOLEAN, skip : BOOLEAN, breaker : Breaker,
        got : [Report -> Body \cup {NoBody}], available : BOOLEAN, keywords : Size,
        snap : Nat]

NoneGot == [r \in Report |-> NoBody]
Fresh(r, n, keyed) ==
    [at |-> "collect", run |-> r, no |-> n, round |-> "real", keyed |-> keyed, next |-> 1,
     spent |-> 0, halted |-> FALSE, skip |-> FALSE, breaker |-> NewBreaker,
     got |-> NoneGot, available |-> FALSE, keywords |-> 0, snap |-> 0]
Idle == [Fresh(CHOOSE r \in Run : TRUE, 0, FALSE) EXCEPT !.at = "idle"]

TypeOK ==
    /\ {key, demo, demoed} \subseteq BOOLEAN
    /\ cache \in [Calls -> Body \cup {NoBody}]
    /\ queue \in [Run -> Nat]
    /\ sent \in [Run -> Nat]
    /\ stage \in [Run -> Status]
    /\ snaps \in [Run -> SUBSET Snapshot]
    /\ rows \in [Run -> SUBSET (Family \X Source)]
    /\ job \in [Worker -> Job]
    /\ made \in Nat
    /\ started \in 0 .. MaxStarts
    /\ bill \in [Delivery -> Nat]
    /\ lost \subseteq Delivery
    /\ {crashes, faults} \subseteq Nat

Init ==
    /\ key \in BOOLEAN
    /\ demo \in BOOLEAN
    /\ demoed = demo
    /\ cache = [c \in Calls |-> NoBody]
    /\ queue = [r \in Run |-> 0]
    /\ sent = [r \in Run |-> 0]
    /\ stage = [r \in Run |-> "absent"]
    /\ snaps = [r \in Run |-> {}]
    /\ rows = [r \in Run |-> {}]
    /\ job = [w \in Worker |-> Idle]
    /\ made = 0
    /\ started = 0
    /\ bill = [n \in Delivery |-> 0]
    /\ lost = {}
    /\ crashes = 0
    /\ faults = 0

-----------------------------------------------------------------------------
(* Sending and taking messages.                                            *)

Put(w, j) == job' = [job EXCEPT ![w] = j]
SetStage(r, s) == stage' = [stage EXCEPT ![r] = s]

\* _dispatch_market_data, at the end of an audit.  (A message the broker refuses leaves
\* a pending stage and nothing else.)
Dispatch(r) ==
    /\ sent[r] < MaxSends
    /\ key \/ demo
    /\ sent' = [sent EXCEPT ![r] = @ + 1]
    /\ SetStage(r, IF stage[r] = "absent" THEN "pending" ELSE stage[r])
    /\ queue' = [queue EXCEPT ![r] = @ + 1]
    /\ UNCHANGED <<settings, cache, stored, job, ledger, limits>>

HasFreshSnapshot(r) == snaps[r] # {}

\* Mutant of Replay: only a snapshot with data counts as fresh.
ReplayAvailable(w, r) ==
    /\ job[w].at = "idle"
    /\ queue[r] > 0
    /\ \E s \in snaps[r] : s.available
    /\ queue' = [queue EXCEPT ![r] = @ - 1]
    /\ SetStage(r, "succeeded")
    /\ UNCHANGED <<settings, cache, sent, stored, job, ledger, limits>>

\* A run that has a snapshot is not collected again.
Replay(w, r) ==
    /\ job[w].at = "idle"
    /\ queue[r] > 0
    /\ HasFreshSnapshot(r)
    /\ queue' = [queue EXCEPT ![r] = @ - 1]
    /\ SetStage(r, "succeeded")
    /\ UNCHANGED <<settings, cache, sent, stored, job, ledger, limits>>

\* Mutant of Begin: the snapshot is not looked for.
BeginAnyway(w, r) ==
    /\ job[w].at = "idle"
    /\ queue[r] > 0
    /\ started < MaxStarts
    /\ queue' = [queue EXCEPT ![r] = @ - 1]
    /\ SetStage(r, "running")
    /\ started' = started + 1
    /\ Put(w, Fresh(r, started + 1, key))
    /\ UNCHANGED <<settings, cache, sent, stored, bill, lost, limits>>

\* The service is made with the key that resolves now, and an empty account.
Begin(w, r) ==
    /\ job[w].at = "idle"
    /\ queue[r] > 0
    /\ ~HasFreshSnapshot(r)
    /\ started < MaxStarts
    /\ queue' = [queue EXCEPT ![r] = @ - 1]
    /\ SetStage(r, "running")
    /\ started' = started + 1
    /\ Put(w, Fresh(r, started + 1, key))
    /\ UNCHANGED <<settings, cache, sent, stored, bill, lost, limits>>

-----------------------------------------------------------------------------
(* MarketDataService._collect: the plan, one call after the other.         *)

Real(j) == j.round = "real"
Plan(j) == PLANS[IF Real(j) THEN Tier ELSE "standard"]
Planned(j) == Plan(j)[j.next]
Limit(j) == IF Real(j) THEN Budget ELSE DemoBudget

\* Every planned call is answered or ruled out, or there is no key to ask with.
PlanOver(j) ==
    \/ j.halted \/ j.skip \/ (Real(j) /\ ~j.keyed)
    \/ j.next > Len(Plan(j))

Turn(w) == job[w].at = "collect" /\ ~PlanOver(job[w])
Pass(j) == [j EXCEPT !.at = "collect", !.next = @ + 1]

\* A parsed report, whichever body it came from.
Take(j, body) ==
    [Pass(j) EXCEPT !.got[Planned(j).report] = body,
                    !.skip = GatesOnData(Planned(j)) /\ body.size = 0]

Cached(w) == cache[CacheKey(Planned(job[w]))]

\* A cached body costs nothing, and no budget is asked for it.
Reuse(w) ==
    /\ Turn(w)
    /\ Cached(w) # NoBody
    /\ Put(w, Take(job[w], Cached(w)))
    /\ UNCHANGED <<settings, cache, broker, stage, stored, ledger, limits>>

\* Mutant of Affordable: the call itself is left out of the sum.
AffordableYet(j) == j.spent <= Limit(j)

Affordable(j) == EstimateUnits(Planned(j)) <= Limit(j) - j.spent

\* Too expensive, or refused by the open breaker: the call is not made.
DoWithout(w) ==
    /\ Turn(w)
    /\ Cached(w) = NoBody
    /\ \/ ~Affordable(job[w])
       \/ ~AllowsCall(job[w].breaker, FALSE)
    /\ Put(w, Pass(job[w]))
    /\ UNCHANGED <<settings, cache, broker, stage, stored, ledger, limits>>

Ask(w) ==
    /\ Turn(w)
    /\ Cached(w) = NoBody
    /\ Affordable(job[w])
    /\ AllowsCall(job[w].breaker, TRUE)
    /\ Put(w, [job[w] EXCEPT !.at = "asking", !.breaker = AfterAllowing(@)])
    /\ UNCHANGED <<settings, cache, broker, stage, stored, ledger, limits>>

\* What DemoSemrushTransport answers: always rows, of keywords as many as there are
\* phrases on the site.
Simulated(c) == [src |-> "simulation", size |-> IF c.report = "domain_organic" THEN Phrases ELSE 2]

Charge(j) == [j EXCEPT !.spent = @ + EstimateUnits(Planned(j)), !.breaker = RecordSuccess(@)]
Charged(w) == bill' = IF Real(job[w])
                      THEN [bill EXCEPT ![job[w].no] = @ + EstimateUnits(Planned(job[w]))]
                      ELSE bill

\* Mutant of Receive: only what could be parsed is charged.
ReceiveParsed(w, body) ==
    /\ job[w].at = "asking"
    /\ Charged(w)
    /\ Put(w, Take([job[w] EXCEPT !.breaker = RecordSuccess(@)], body))
    /\ cache' = [cache EXCEPT ![CacheKey(Planned(job[w]))] = body]
    /\ UNCHANGED <<settings, broker, stage, stored, started, lost, limits>>

\* A body that can be parsed is charged, and kept for whoever asks next, also when it
\* says that there is nothing.
Receive(w, body) ==
    /\ job[w].at = "asking"
    /\ Charged(w)
    /\ Put(w, Take(Charge(job[w]), body))
    /\ cache' = [cache EXCEPT ![CacheKey(Planned(job[w]))] = body]
    /\ UNCHANGED <<settings, broker, stage, stored, started, lost, limits>>

\* An API error is charged too, and not kept; some stop the rest of the plan.
Refuse(w, breaks) ==
    /\ job[w].at = "asking"
    /\ Charged(w)
    /\ Put(w, [Pass(Charge(job[w])) EXCEPT !.halted = breaks])
    /\ UNCHANGED <<settings, cache, broker, stage, stored, started, lost, limits>>

\* No answer to any attempt: one failure for the breaker, and no charge.
Fail(w) ==
    /\ job[w].at = "asking"
    /\ Put(w, [Pass(job[w]) EXCEPT !.breaker = RecordFailure(@)])
    /\ UNCHANGED <<settings, cache, broker, stage, stored, ledger, limits>>

Answer(w) ==
    \/ /\ ~Real(job[w])
       /\ Receive(w, Simulated(Planned(job[w])))
    \/ /\ Real(job[w])
       /\ \E a \in Replies :
             \/ a.kind = "body" /\ Receive(w, [src |-> "provider", size |-> a.size])
             \/ a.kind \in {"error", "breaks"} /\ Refuse(w, a.kind = "breaks")
             \/ a.kind = "down" /\ Fail(w)

-----------------------------------------------------------------------------
(* What a collection leaves behind.                                        *)

Filled(j) == {r \in Report : j.got[r].size > 0}

\* The real service's caller looks at its result, the simulation's marks it first.
AfterCollect(j) == IF Real(j) THEN "settle" ELSE IF j.snap # 0 THEN "flag" ELSE "purge"

Finished(j) == j.at = "persist" \/ (j.at = "collect" /\ PlanOver(j))

\* _persist_snapshot: the row says what was spent and whether anything was found.
Persist(w) ==
    LET j == job[w]
        found == Filled(j) # {}
        s == [id |-> made + 1, no |-> j.no, available |-> found, units |-> j.spent,
              flags |-> {}, srcs |-> {j.got[r].src : r \in Filled(j)}]
        k == [j EXCEPT !.available = found, !.snap = made + 1, !.keywords = 0]
    IN /\ Finished(j)
       /\ snaps' = [snaps EXCEPT ![j.run] = @ \cup {s}]
       /\ made' = made + 1
       /\ Put(w, [k EXCEPT !.at = IF found THEN "rows" ELSE AfterCollect(k)])
       /\ UNCHANGED <<settings, cache, broker, stage, rows, ledger, limits>>

\* The row cannot be written: logged, and the result stands without it.
PersistFails(w) ==
    LET j == job[w]
        k == [j EXCEPT !.available = Filled(j) # {}, !.snap = 0, !.keywords = 0, !.got = NoneGot]
    IN /\ Finished(j)
       /\ crashes + faults < MaxTroubles
       /\ faults' = faults + 1
       /\ Put(w, [k EXCEPT !.at = AfterCollect(k)])
       /\ UNCHANGED <<settings, cache, broker, stage, stored, ledger, crashes>>

FamilyOf == [domain_ranks |-> "totals", domain_organic |-> "keywords",
             domain_organic_organic |-> "competitors", backlinks_overview |-> "totals",
             backlinks_refdomains |-> "refdomains"]

Found(j) == {<<FamilyOf[r], j.got[r].src>> : r \in Filled(j)}

\* _persist_rows.
Write(w) ==
    LET j == job[w]
        k == [j EXCEPT !.keywords = j.got["domain_organic"].size]
    IN /\ j.at = "rows"
       /\ rows' = [rows EXCEPT ![j.run] = @ \cup Found(j)]
       /\ Put(w, [k EXCEPT !.at = AfterCollect(k)])
       /\ UNCHANGED <<settings, cache, broker, stage, snaps, made, ledger, limits>>

\* Whatever raises inside _collect: collect() persists an unavailable result.  What the
\* calls have cost is noted in the result only when the plan is over.
Raise(w) ==
    LET j == job[w]
    IN /\ crashes + faults < MaxTroubles
       /\ faults' = faults + 1
       /\ j.at \in {"collect", "asking", "rows"}
       /\ Put(w, [j EXCEPT !.at = "persist", !.got = NoneGot,
                           !.spent = IF j.at = "rows" THEN @ ELSE 0])
       /\ \E part \in SUBSET Found(j) :
             rows' = [rows EXCEPT ![j.run] = IF j.at = "rows" THEN @ \cup part ELSE @]
       /\ UNCHANGED <<settings, cache, broker, stage, snaps, made, ledger, crashes>>

-----------------------------------------------------------------------------
(* collect_demo_market_data, around the same service.                      *)

Simulate(j, round) == [Fresh(j.run, j.no, TRUE) EXCEPT !.round = round]

Named(j) == {s \in snaps[j.run] : s.id = j.snap}

\* The snapshot is flagged; another delivery may have deleted it, and the update raises.
FlagIt(w) ==
    LET j == job[w]
    IN /\ j.at = "flag"
       /\ IF Named(j) = {}
          THEN /\ Put(w, [j EXCEPT !.at = "conclude", !.available = j.round = "replace"])
               /\ UNCHANGED snaps
          ELSE /\ Put(w, [j EXCEPT !.at = "purge"])
               /\ snaps' = [snaps EXCEPT ![j.run] =
                    {IF s \in Named(j)
                     THEN [s EXCEPT !.units = 0, !.flags = @ \cup {"simulated"}] ELSE s : s \in @}]
       /\ UNCHANGED <<settings, cache, broker, stage, rows, made, ledger, limits>>

\* _augment_demo_competitors: every competitor row gets the columns it lacks.
Augmented(has) ==
    IF \E src \in Source : <<"competitors", src>> \in has
    THEN has \cup {<<"authority", "simulation">>} ELSE has

\* Every other snapshot of the run is dropped; the rows they belong to stay.
Purge(w) ==
    LET j == job[w]
    IN /\ j.at = "purge"
       /\ rows' = [rows EXCEPT ![j.run] = Augmented(@)]
       /\ snaps' = [snaps EXCEPT ![j.run] = IF j.available /\ j.snap # 0 THEN Named(j) ELSE @]
       /\ Put(w, [j EXCEPT !.at = "settle"])
       /\ UNCHANGED <<settings, cache, broker, stage, made, ledger, limits>>

-----------------------------------------------------------------------------
(* The task, when a collection has returned.                               *)

\* Mutant of Settle: the simulation does not wait for demo mode.
SettleSimulated(w) ==
    LET j == job[w]
    IN /\ j.at = "settle"
       /\ Put(w, IF Real(j) /\ ~j.available
                 THEN Simulate(j, "fallback")
                 ELSE [j EXCEPT !.at = "conclude"])
       /\ UNCHANGED <<settings, cache, broker, stage, stored, ledger, limits>>

Settle(w) ==
    LET j == job[w]
    IN /\ j.at = "settle"
       /\ Put(w, CASE demo /\ Real(j) /\ ~j.available -> Simulate(j, "fallback")
                   [] demo /\ j.available /\ j.round # "replace" /\ j.keywords < Floor
                        -> Simulate(j, "replace")
                   [] demo /\ j.available /\ j.round # "replace" /\ j.keywords >= Floor
                        -> [j EXCEPT !.at = "topup", !.next = 1]
                   [] OTHER -> [j EXCEPT !.at = "conclude"])
       /\ UNCHANGED <<settings, cache, broker, stage, stored, ledger, limits>>

\* The families a working key may leave empty, in the order they are topped up.
TopUps == << [report |-> "domain_organic_organic", family |-> "competitors",
              flag |-> "competitors_simulated"],
             [report |-> "backlinks_refdomains", family |-> "refdomains",
              flag |-> "refdomains_simulated"] >>

Latest(S) == {s \in S : s.available /\ \A t \in S : t.available => t.id <= s.id}
Wanting(j) ==
    /\ j.got[TopUps[j.next].report].size = 0
    /\ \A src \in Source : <<TopUps[j.next].family, src>> \notin rows[j.run]
    /\ Latest(snaps[j.run]) # {}

\* Simulated rows against the latest snapshot with data, which is flagged next.
TopUp(w) ==
    LET j == job[w]
        new == <<TopUps[j.next].family, "simulation">>
    IN /\ j.at = "topup"
       /\ j.next <= Len(TopUps)
       /\ IF Wanting(j)
          THEN /\ rows' = [rows EXCEPT ![j.run] = @ \cup {new}]
               /\ \E s \in Latest(snaps[j.run]) : Put(w, [j EXCEPT !.at = "mark", !.snap = s.id])
          ELSE /\ Put(w, [j EXCEPT !.next = @ + 1])
               /\ UNCHANGED rows
       /\ UNCHANGED <<settings, cache, broker, stage, snaps, made, ledger, limits>>

\* Saving a snapshot another delivery has deleted raises, which ends the topping up.
Mark(w) ==
    LET j == job[w]
    IN /\ j.at = "mark"
       /\ snaps' = [snaps EXCEPT ![j.run] =
             {IF s \in Named(j) THEN [s EXCEPT !.flags = @ \cup {TopUps[j.next].flag}] ELSE s : s \in @}]
       /\ rows' = [rows EXCEPT ![j.run] =
             IF Named(j) # {} /\ j.next = 1 THEN Augmented(@) ELSE @]
       /\ Put(w, IF Named(j) = {} THEN [j EXCEPT !.at = "conclude"]
                 ELSE [j EXCEPT !.at = "topup", !.next = @ + 1])
       /\ UNCHANGED <<settings, cache, broker, stage, made, ledger, limits>>

\* The stage says how it went, and the message is acknowledged.
Conclude(w) ==
    LET j == job[w]
    IN /\ j.at = "conclude" \/ (j.at = "topup" /\ j.next > Len(TopUps))
       /\ SetStage(j.run, IF j.available THEN "succeeded" ELSE "skipped")
       /\ Put(w, Idle)
       /\ UNCHANGED <<settings, cache, broker, stored, ledger, limits>>

-----------------------------------------------------------------------------
(* The world around the task.                                              *)

\* The worker is lost and its message delivered again.
Crash(w) ==
    LET j == job[w]
    IN /\ j.at # "idle"
       /\ crashes + faults < MaxTroubles
       /\ crashes' = crashes + 1
       /\ queue' = [queue EXCEPT ![j.run] = @ + 1]
       /\ \E part \in SUBSET Found(j) :
             rows' = [rows EXCEPT ![j.run] = IF j.at = "rows" THEN @ \cup part ELSE @]
       /\ lost' = IF Real(j) /\ j.at \in {"collect", "asking", "persist"}
                  THEN lost \cup {j.no} ELSE lost
       /\ Put(w, Idle)
       /\ UNCHANGED <<settings, cache, sent, stage, snaps, made, started, bill, faults>>

\* The Credentials page saves or removes the key.
Rekey ==
    /\ key' = ~key
    /\ UNCHANGED <<demo, demoed, cache, broker, stage, stored, job, ledger, limits>>

\* The redeploy that turns demo mode off before anything goes to a client.
GoLive ==
    /\ demo
    /\ \A w \in Worker : job[w].at = "idle"
    /\ demo' = FALSE
    /\ UNCHANGED <<key, demoed, cache, broker, stage, stored, job, ledger, limits>>

-----------------------------------------------------------------------------
Work(w) ==
    \/ \E r \in Run : Replay(w, r) \/ Begin(w, r)
    \/ Reuse(w) \/ DoWithout(w) \/ Ask(w) \/ Answer(w)
    \/ Persist(w) \/ Write(w) \/ FlagIt(w) \/ Purge(w)
    \/ Settle(w) \/ TopUp(w) \/ Mark(w) \/ Conclude(w)

Trouble(w) == PersistFails(w) \/ Raise(w) \/ Crash(w)

Next ==
    \/ \E r \in Run : Dispatch(r)
    \/ \E w \in Worker : Work(w) \/ Trouble(w)
    \/ Rekey
    \/ GoLive

Spec == Init /\ [][Next]_vars

\* A worker goes on with its message; the provider answers or times out.
FairSpec == Spec /\ \A w \in Worker : WF_vars(Work(w))

-----------------------------------------------------------------------------
(* Properties.                                                             *)

Collecting(j) == Real(j) /\ j.at \in {"collect", "asking", "persist"}
Open(n) == \E w \in Worker : job[w].no = n /\ Collecting(job[w])

\* The unit ceiling holds for every delivery of the task, whatever the cache, the
\* errors and the simulation do to it.  (It starts again with a redelivered message.)
Ceiling == \A n \in Delivery : bill[n] <= Budget

\* studio_units_spent adds up the snapshots: without demo mode and without a failed
\* write, every unit charged is in one of them, unless it went with a lost worker or
\* is still in the memory of a collection under way.
Ledger ==
    ~demoed /\ faults = 0 =>
        \A n \in 1 .. started :
            \/ Open(n)
            \/ n \in lost
            \/ \E r \in Run : \E s \in snaps[r] : s.no = n /\ s.units = bill[n]

\* A run that has a snapshot, and no worker at it, is left alone by every further
\* message: nothing is charged to it and no row of it changes.
Settled(r) == snaps[r] # {} /\ \A w \in Worker : job[w].at = "idle" \/ job[w].run # r
StaysSettled ==
    [][\A r \in Run : Settled(r) =>
          /\ snaps'[r] = snaps[r]
          /\ rows'[r] = rows[r]
          /\ \A w \in Worker : job'[w].at = "idle" \/ job'[w].run # r]_vars

\* While demo mode has never been on, what a run shows comes from the provider, and a
\* run that shows anything has a snapshot with data.
NothingInvented ==
    ~demoed => \A r \in Run : rows[r] # {} =>
        /\ rows[r] \subseteq Family \X {"provider"}
        /\ \E s \in snaps[r] : s.available

\* Market data never keeps a run waiting: a message ends in a stage that is over.
Concludes == \A r \in Run : queue[r] > 0 ~> stage[r] \in {"succeeded", "skipped"}
=============================================================================
