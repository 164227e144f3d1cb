------------------------------ MODULE SiteAudit ------------------------------
(***************************************************************************)
(* What one audit leaves in the database: the writes of run_website_audit  *)
(* (audit_engine/tasks.py) from the crawl's result to the scorecard, and   *)
(* the retry of an audit that failed between any two of them.  A site     *)
(* may have changed by the next attempt.  AuditWorker has the same task    *)
(* without its data, and says when it is claimed, cancelled and lost; here *)
(* one worker runs it.                                                     *)
(***************************************************************************)
EXTENDS SiteRules

CONSTANTS
    Crawls,              \* the results a crawl may have, by attempt
    Profiles,            \* the business types the project may have
    QUARANTINE_URL_CAP,  \* at most so many quarantined URLs are listed
    MaxAttempts,         \* bound: the audit is claimed at most so often
    None

\* What the crawler returns for a page: the facts that the thresholds are about; -1 is no number.  A body
\* has at most five million bytes (CrawlConfig) and the audit's task three hours (settings.py), so the
\* last bands of the workbooks, which end at 10**9, leave no page out.
PageFacts == {"url", "at", "challenge", "status", "title", "meta", "h1s", "words", "unlabelled", "canonical", "robots",
              "chain", "ms", "hash", "tracked", "schema"}
Endless == 1000000000
Crawled(p) ==
    /\ PageFacts \subseteq DOMAIN p
    /\ p.url \in URL /\ p.challenge \in BOOLEAN /\ p.tracked \in BOOLEAN
    /\ {p.status, p.title.length, p.meta.length, p.h1s, p.chain} \subseteq Nat
    /\ {p.words, p.ms} \subseteq -1 .. Endless

\* A result is a sequence of pages; `challenge` marks a bot challenge or a rate limit.
ASSUME SiteAuditAssumption ==
    /\ \A n \in 1 .. MaxAttempts : \A c \in Crawls[n] : c \in Seq(Range(c)) /\ \A p \in Range(c) : Crawled(p)
    /\ QUARANTINE_URL_CAP \in Nat \ {0} /\ MaxAttempts \in Nat

VARIABLES
    state,           \* AuditRun.state
    attempt,         \* how often the audit was claimed
    profile,         \* the project's business type, as read at the claim
    pc,              \* the write the task makes next; "idle" without a task
    result,          \* what the crawler returned
    todo,            \* the items or the rule codes that are left to it
    seen,            \* _collect: the URLs it has a row for
    quarantined,     \* _collect: the challenged ones, in order
    rows,            \* PageSnapshot: [url -> page], `challenge` tells the quarantined
    evidence,        \* Evidence: the URLs with an observation or a challenge response
    integrity,       \* SourceSnapshot.metadata: None before _collect is done
    hits,            \* what run_rules returned
    findings,        \* Finding: [code -> finding]
    recommendations, \* Recommendation: the codes of their findings
    actions,         \* ActionItem: of an attempt, linked to a recommendation or not
    scorecard        \* the checkpoint of the stage "auditing"

vars == <<state, attempt, profile, pc, result, todo, seen, quarantined, rows, evidence, integrity, hits,
          findings, recommendations, actions, scorecard>>

memory == <<profile, result, todo, seen, quarantined, hits>>
plan == <<findings, recommendations, actions>>

Empties == [x \in {} |-> None]
With(f, x, value) == [y \in {x} \cup DOMAIN f |-> IF y = x THEN value ELSE f[y]]

Init ==
    /\ state = "DRAFT" /\ attempt = 0 /\ profile \in Profiles /\ pc = "idle" /\ result = <<>> /\ todo = <<>>
    /\ seen = {} /\ quarantined = <<>> /\ rows = Empties /\ evidence = {}
    /\ integrity = None /\ hits = {}
    /\ findings = Empties /\ recommendations = {} /\ actions = {} /\ scorecard = None

-----------------------------------------------------------------------------
(* The claim.                                                              *)

\* Mutant of Clear: the rows of the pages are forgotten.
ClearFindings ==
    /\ findings' = Empties /\ recommendations' = {}
    /\ actions' = {[a EXCEPT !.linked = FALSE] : a \in actions}
    /\ UNCHANGED <<rows, evidence, integrity>>

\* _clear_prior_attempt.  A finding takes its recommendations along; an action loses its
\* link to one (SET_NULL) and stays.
Clear ==
    /\ rows' = Empties /\ evidence' = {} /\ integrity' = None
    /\ findings' = Empties /\ recommendations' = {}
    /\ actions' = {[a EXCEPT !.linked = FALSE] : a \in actions}

Claim ==
    /\ pc = "idle" /\ state \in {"DRAFT", "FAILED"}
    /\ attempt < MaxAttempts
    /\ attempt' = attempt + 1 /\ profile' \in Profiles
    /\ state' = "COLLECTING" /\ pc' = "crawl"
    /\ result' = <<>> /\ todo' = <<>> /\ seen' = {} /\ quarantined' = <<>> /\ hits' = {}
    /\ IF state = "FAILED" THEN Clear ELSE UNCHANGED <<rows, evidence, integrity, plan>>
    /\ UNCHANGED scorecard

-----------------------------------------------------------------------------
(* _collect: the challenged items first, then the fetched ones.            *)

Challenged(items) == Only(items, {i \in DOMAIN items : items[i].challenge})
Fetched(items) == Only(items, {i \in DOMAIN items : ~items[i].challenge})

\* Mutant of Order: the items as the crawler has them.
OrderOfCrawl(items) == items
Order(items) == Challenged(items) \o Fetched(items)

Crawl ==
    /\ pc = "crawl"
    /\ \E c \in Crawls[attempt] : result' = [i \in DOMAIN c |-> [c[i] EXCEPT !.at = i]]
    /\ todo' = Order(result')
    /\ pc' = "page"
    /\ UNCHANGED <<state, attempt, profile, seen, quarantined, rows, evidence, integrity, hits, plan, scorecard>>

\* Another item came to the same page by a redirect.
Skip ==
    /\ pc = "page" /\ todo # <<>> /\ Head(todo).url \in seen
    /\ todo' = Tail(todo)
    /\ UNCHANGED <<state, attempt, profile, pc, result, seen, quarantined, rows, evidence, integrity, hits, plan, scorecard>>

\* A second row of one URL would break a unique constraint.
Page ==
    /\ pc = "page" /\ todo # <<>>
    /\ LET p == Head(todo) IN
          /\ p.url \notin seen /\ p.url \notin DOMAIN rows
          /\ seen' = seen \cup {p.url}
          /\ quarantined' = IF p.challenge THEN Append(quarantined, p.url) ELSE quarantined
          /\ rows' = With(rows, p.url, p)
    /\ pc' = "evidence"
    /\ UNCHANGED <<state, attempt, profile, result, todo, evidence, integrity, hits, plan, scorecard>>

Observe ==
    /\ pc = "evidence"
    /\ evidence' = evidence \cup {Head(todo).url}
    /\ todo' = Tail(todo) /\ pc' = "page"
    /\ UNCHANGED <<state, attempt, profile, result, seen, quarantined, rows, integrity, hits, plan, scorecard>>

\* The pages handed to the rules.
Read == {rows[u] : u \in seen \ Range(quarantined)}

Listed == SubSeq(quarantined, 1, Least(Len(quarantined), QUARANTINE_URL_CAP))
Integrity ==
    [fetched |-> Cardinality(Read), challenged |-> Len(quarantined), quarantined |-> Listed]

\* The snapshot's metadata, and the stage and the state that follow; without a page to
\* read the task raises.
Collected ==
    /\ pc = "page" /\ todo = <<>>
    /\ integrity' = Integrity
    /\ IF Read = {} THEN pc' = "failing" /\ UNCHANGED state
       ELSE pc' = "rules" /\ state' = "AUDITING"
    /\ UNCHANGED <<attempt, profile, result, todo, seen, quarantined, rows, evidence, hits, plan, scorecard>>

-----------------------------------------------------------------------------
(* _create_findings: one group of hits per rule code, in the order of the  *)
(* codes, and three rows and a link for each group.                        *)

\* The rule codes, sorted.
RuleIds ==
    <<"analytics.tracking_missing", "analytics.tracking_partial", "ecommerce.product_schema_missing",
      "geo_aeo.html_lang_missing", "geo_aeo.organization_schema_missing",
      "geo_aeo.structured_data_missing", "keyword_architecture.generic_title",
      "keyword_architecture.title_cannibalization", "local.localbusiness_schema_missing",
      "on_page.h1", "on_page.h1_duplicate", "on_page.h2_missing", "on_page.image_alt_missing",
      "on_page.meta_description", "on_page.meta_description_duplicate", "on_page.thin_content",
      "on_page.title", "on_page.title_duplicate", "on_page.title_short", "performance.heavy_page",
      "performance.slow_response", "technical.broken_internal_link", "technical.canonical_boundary",
      "technical.canonical_missing", "technical.crawl_degraded", "technical.deep_page",
      "technical.duplicate_content", "technical.http_status", "technical.insecure_internal_links",
      "technical.orphan_page", "technical.redirect_chain_length", "technical.robots_directive",
      "technical.url_hygiene">>

Evaluate ==
    /\ pc = "rules"
    /\ hits' = RunRules(Read, integrity, profile)
    /\ todo' = Only(RuleIds, {i \in DOMAIN RuleIds : \E h \in hits' : h.rule = RuleIds[i]})
    /\ pc' = "finding"
    /\ UNCHANGED <<state, attempt, profile, result, seen, quarantined, rows, evidence, integrity, plan, scorecard>>

Group(code) == {h \in hits : h.rule = code}
Worst(H) == CHOOSE h \in H : \A i \in H : Rank[h.severity] <= Rank[i.severity]
GroupUrls(H) == UNION {h.urls : h \in H}

\* The first page the group names, the caveat's being a quarantined one.
FirstUrl(H) == CHOOSE u \in {h.lead : h \in H} : \A h \in H : rows[u].at <= rows[h.lead].at

\* Python's round: a half goes to the even number.
Round(a, b) ==
    LET q == a \div b
        r == 2 * (a % b)
    IN  IF r > b \/ (r = b /\ q % 2 = 1) THEN q + 1 ELSE q

\* The hits of one code share one denominator.
FindingOf(H) ==
    LET den == Worst(H).den
        num == Least(den, MapThenSumSet(LAMBDA h : h.num, H))
        total == Most(1, Cardinality(Read))
    IN  [severity |-> Worst(H).severity, category |-> Worst(H).category, risk |-> Worst(H).risk,
         num |-> num, den |-> den, page |-> FirstUrl(H), evidence |-> {},
         count |-> Most(1, Most(Cardinality(GroupUrls(H)), Round(num * total, den)))]

Find ==
    /\ pc = "finding" /\ todo # <<>>
    /\ findings' = With(findings, Head(todo), FindingOf(Group(Head(todo))))
    /\ pc' = "link"
    /\ UNCHANGED <<state, attempt, memory, rows, evidence, integrity, recommendations, actions, scorecard>>

\* The observations of pages handed to the rules; the caveat cites none.
Cite ==
    /\ pc = "link"
    /\ findings' = [findings EXCEPT ![Head(todo)].evidence =
                       IF Head(todo) = "technical.crawl_degraded" THEN {} ELSE GroupUrls(Group(Head(todo)))]
    /\ pc' = "recommendation"
    /\ UNCHANGED <<state, attempt, memory, rows, evidence, integrity, recommendations, actions, scorecard>>

Recommend ==
    /\ pc = "recommendation"
    /\ recommendations' = recommendations \cup {Head(todo)}
    /\ pc' = "action"
    /\ UNCHANGED <<state, attempt, memory, rows, evidence, integrity, findings, actions, scorecard>>

\* How many codes of a severity came before, in this attempt.
Earlier(severities) ==
    Cardinality({c \in recommendations \ {Head(todo)} : findings[c].severity \in severities})

\* Mutant of Week: the index of the medium findings is not counted on.
WeekAtOnce(severity) ==
    CASE severity \in {"critical", "high"} -> 1
      [] severity = "medium" -> 2
      [] OTHER -> 5 + (Earlier({"low", "info"}) % 4)

Week(severity) ==
    CASE severity \in {"critical", "high"} -> 1
      [] severity = "medium" -> 2 + (Earlier({"medium"}) % 3)
      [] OTHER -> 5 + (Earlier({"low", "info"}) % 4)

\* The priority score, in hundredths: .42 impact, 35 for the confidence, 15 for the share.
Impact == [critical |-> 95, high |-> 80, medium |-> 60, low |-> 35, info |-> 15]
Tier(f) ==
    LET Above(bound) == (42 * Impact[f.severity] + 3500) * f.den + 1500 * f.num > bound * f.den
    IN  CASE Above(7450) -> "P1" [] Above(5450) -> "P2" [] Above(3450) -> "P3" [] OTHER -> "P4"

Act ==
    /\ pc = "action"
    /\ LET code == Head(todo)
           f == findings[code]
       IN  actions' = actions \cup {[code |-> code, attempt |-> attempt, linked |-> TRUE,
                                     week |-> Week(f.severity), tier |-> Tier(f)]}
    /\ todo' = Tail(todo) /\ pc' = "finding"
    /\ UNCHANGED <<state, attempt, profile, result, seen, quarantined, rows, evidence, integrity, hits, findings,
                   recommendations, scorecard>>

-----------------------------------------------------------------------------
(* The end of the task.                                                    *)

Review ==
    /\ pc = "finding" /\ todo = <<>>
    /\ state' = "GATE_1_REVIEW" /\ pc' = "score"
    /\ UNCHANGED <<attempt, memory, rows, evidence, integrity, plan, scorecard>>

\* Mutant of Checkpoint: what the checkpoint holds already wins.
CheckpointKept(data) == IF scorecard = None THEN data ELSE scorecard
Checkpoint(data) == data

Score ==
    /\ pc = "score"
    /\ scorecard' = Checkpoint(Scorecard(hits, profile, Most(1, Cardinality(Read))) ++ [found |-> Cardinality(DOMAIN findings)])
    /\ pc' = "idle"
    /\ UNCHANGED <<state, attempt, memory, rows, evidence, integrity, plan>>

\* A write raises, or the worker is lost and the scan of the stages fails the run.
Fail ==
    /\ pc # "idle"
    /\ state' = "FAILED" /\ pc' = "idle"
    /\ UNCHANGED <<attempt, memory, rows, evidence, integrity, plan, scorecard>>

\* A later stage fails the run, and a person resumes it from the start.
FailLater ==
    /\ pc = "idle" /\ state = "GATE_1_REVIEW"
    /\ state' = "FAILED"
    /\ UNCHANGED <<attempt, pc, memory, rows, evidence, integrity, plan, scorecard>>

Next ==
    \/ Claim \/ Crawl \/ Skip \/ Page \/ Observe \/ Collected
    \/ Evaluate \/ Find \/ Cite \/ Recommend \/ Act
    \/ Review \/ Score \/ Fail \/ FailLater

Spec == Init /\ [][Next]_vars

-----------------------------------------------------------------------------
(* Properties.                                                             *)

PcStep == {"idle", "crawl", "page", "evidence", "failing", "rules", "finding", "link",
           "recommendation", "action", "score"}

\* The type invariant; evidence refers to rows that are there, recommendations to findings.
TypeOK ==
    /\ state \in {"DRAFT", "COLLECTING", "AUDITING", "GATE_1_REVIEW", "FAILED"}
    /\ attempt \in 0 .. MaxAttempts /\ profile \in Profiles /\ pc \in PcStep
    /\ evidence \subseteq DOMAIN rows
    /\ recommendations \subseteq DOMAIN findings

\* A retry collects into an empty run: the row of a page it has not seen is not there yet, so
\* the unique constraint on (run, normalized_url) never stops a retry (tasks.py:441).
RetryCollects ==
    pc = "page" => \A i \in DOMAIN todo : todo[i].url \in seen \/ todo[i].url \notin DOMAIN rows

\* A URL that any item of the crawl found behind a bot challenge is silent: apart from the
\* caveat about the crawl no finding counts it, shows it or cites what was answered there
\* (rules.py:45), though only the first QUARANTINE_URL_CAP of them are listed.
Walled == {p.url : p \in {result[i] : i \in {i \in DOMAIN result : result[i].challenge}}}
QuarantineIsSilent ==
    pc # "idle" =>
        \A code \in DOMAIN findings \ {"technical.crawl_degraded"} :
            LET f == findings[code] IN
                /\ f.count <= Cardinality(Urls(Range(result)) \ Walled)
                /\ ({f.page} \cup f.evidence) \cap Walled = {}

\* An audit that reached the review has a recommendation and a linked action of this very
\* attempt for each of its findings, and none for anything else.
LinkedActions == {a \in actions : a.linked}
PlanIsComplete ==
    state = "GATE_1_REVIEW" =>
        /\ recommendations = DOMAIN findings
        /\ \A code \in DOMAIN findings : \E a \in LinkedActions : a.code = code
        /\ \A a \in LinkedActions : a.attempt = attempt /\ a.code \in DOMAIN findings

\* It has one for each, and has staged them: what is critical or high in the first week, the
\* others spread evenly over weeks 2 to 4 and 5 to 8 (tasks.py:370).
PlanIsStaged ==
    /\ PlanIsComplete
    /\ state = "GATE_1_REVIEW" =>
        /\ Cardinality(LinkedActions) = Cardinality(DOMAIN findings)
        /\ \A a \in LinkedActions : findings[a.code].severity \in {"critical", "high"} <=> a.week = 1
        /\ \A span \in {2..4, 5..8} : \A v, w \in span :
              LET Load(x) == Cardinality({a \in LinkedActions : a.week = x})
              IN  v < w => Load(v) - Load(w) \in {0, 1}
=============================================================================
