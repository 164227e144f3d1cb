---------------------------- MODULE MarketReports ----------------------------
(***************************************************************************)
(* The reports a market-data plan asks for, what they cost and how they    *)
(* are cached (integrations/semrush_reports.py, integrations/market_data.py), *)
(* and the circuit breaker of integrations/base.py.                        *)
(*                                                                         *)
(* A report's body is where it came from and how many rows it holds: none  *)
(* ("ERROR 50 :: NOTHING FOUND"), fewer than the demo's floor, or enough.  *)
(***************************************************************************)
EXTENDS Naturals, Sequences

Report == {"domain_ranks", "domain_organic", "domain_organic_organic",
           "backlinks_overview", "backlinks_refdomains"}

\* PlannedCall, as far as cost and cache key depend on it; 0 lines is no display_limit.
Call == [report : Report, lines : Nat]

PlannedCall(r, n) == [report |-> r, lines |-> n]

PLANS ==
    [lite     |-> << PlannedCall("domain_ranks", 1), PlannedCall("domain_organic", 50),
                     PlannedCall("domain_organic_organic", 3),
                     PlannedCall("backlinks_overview", 0) >>,
     standard |-> << PlannedCall("domain_ranks", 1), PlannedCall("domain_organic", 100),
                     PlannedCall("domain_organic_organic", 5),
                     PlannedCall("backlinks_overview", 0),
                     PlannedCall("backlinks_refdomains", 10) >>,
     deep     |-> << PlannedCall("domain_ranks", 1), PlannedCall("domain_organic", 200),
                     PlannedCall("domain_organic_organic", 5),
                     PlannedCall("backlinks_overview", 0),
                     PlannedCall("backlinks_refdomains", 5) >>]

\* Without rows of this report the rest of the plan is not requested.
GatesOnData(c) == c.report = "domain_ranks"

FlatUnits == 40
PerLineUnits == [domain_ranks |-> 10, domain_organic |-> 10, domain_organic_organic |-> 40,
                 backlinks_overview |-> 0, backlinks_refdomains |-> 40]

EstimateUnits(c) ==
    IF c.report = "backlinks_overview" THEN FlatUnits ELSE PerLineUnits[c.report] * c.lines

Source == {"provider", "simulation"}
Size == 0 .. 2
Body == [src : Source, size : Size]
NoBody == [src |-> "none", size |-> 0]

\* What the transport and parse_response make of one request: rows, an API error that
\* spoils this report or every further one, or no answer after the last retry.
Reply == [kind : {"body"}, size : Size] \cup
         [kind : {"error", "breaks", "down"}, size : {0}]

\* The cache key is the request without the API key; all runs here are of one domain
\* and one database, so report and display limit are what is left of it.
CacheKey(c) == c

-----------------------------------------------------------------------------
(* CircuitBreaker.  Whether the reset timeout has passed since it opened is *)
(* the caller's choice.                                                    *)
Breaker == [state : {"closed", "open", "half_open"}, failures : Nat]
FailureThreshold == 3

NewBreaker == [state |-> "closed", failures |-> 0]

\* allow_call: an open breaker lets one probe through once the timeout has passed.
AllowsCall(b, cooled) == b.state = "closed" \/ (b.state = "open" /\ cooled)
AfterAllowing(b) == IF b.state = "open" THEN [b EXCEPT !.state = "half_open"] ELSE b

RecordFailure(b) ==
    LET n == b.failures + 1
    IN [state |-> IF b.state = "half_open" \/ n >= FailureThreshold THEN "open" ELSE b.state,
        failures |-> n]

RecordSuccess(b) == NewBreaker
=============================================================================
