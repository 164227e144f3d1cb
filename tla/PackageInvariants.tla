--------------------------- MODULE PackageInvariants ---------------------------
(***************************************************************************)
(* What holds of an audit, of what a package reads of it and compiles from *)
(* it, and of the folder: the inductive invariants that the proofs of      *)
(* PackageTree_proofs are about, each built from named parts, with what    *)
(* the parts say.                                                          *)
(***************************************************************************)
EXTENDS PackageTree

\* What a sequence holds, and that it does so once.
Holds(s, x) == \E i \in 1 .. Len(s) : s[i] = x
Differ(s, places) == \A i, j \in places : s[i] = s[j] => i = j

-----------------------------------------------------------------------------
(* The task of the audit (SiteAudit).                                      *)

\* What the task has done so far, by where it is.  The rows are those of the pages it has
\* seen; a run that was never claimed, or is claimed and not yet crawled, has none.
Collecting == pc \in {"page", "evidence"}
RowsAreSeen ==
    /\ state = "DRAFT" \/ pc = "crawl" => rows = Empties
    /\ Collecting => DOMAIN rows \subseteq seen
    /\ pc = "evidence" => Head(todo).url \in DOMAIN rows

\* Every finding but the one in hand has its recommendation and its linked action.
Writing == pc \in {"finding", "link", "recommendation", "action"}
InHand == IF pc \in {"link", "recommendation", "action"} THEN {Head(todo)} ELSE {}
Served(code) == \E a \in LinkedActions : a.code = code
PlanKeepsUp ==
    /\ Writing \/ pc = "score" \/ (pc = "idle" /\ state = "GATE_1_REVIEW") =>
        /\ \A code \in DOMAIN findings \ InHand : Served(code)
        /\ IF pc \in {"link", "recommendation"} THEN recommendations \cup InHand = DOMAIN findings
           ELSE recommendations = DOMAIN findings
    /\ pc \in {"crawl", "page", "evidence", "failing", "rules"} => findings = Empties /\ recommendations = {} /\ LinkedActions = {}
    /\ InHand \subseteq DOMAIN findings
    /\ pc # "idle" \/ state = "GATE_1_REVIEW" =>
        \A a \in LinkedActions : a.attempt = attempt /\ a.code \in DOMAIN findings
    /\ state = "DRAFT" => pc = "idle" /\ findings = Empties /\ recommendations = {} /\ actions = {}
    /\ state = "GATE_1_REVIEW" => pc \in {"score", "idle"}
    /\ pc = "failing" \/ pc = "idle" \/ state \in {"COLLECTING", "AUDITING", "GATE_1_REVIEW"}

\* An action is a record of these fields.
ActionsAreRows ==
    \A a \in actions :
        a = [code |-> a.code, attempt |-> a.attempt, linked |-> a.linked, week |-> a.week, tier |-> a.tier]

\* What is inductive of the task alone.
IInv == TypeOK /\ RowsAreSeen /\ PlanKeepsUp /\ ActionsAreRows

-----------------------------------------------------------------------------
(* Its pages, its hits and its findings.                                   *)

\* The pages of a crawl are of the site.
PagesTyped ==
    \A p \in Range(result) : Crawled(p) /\ p.url \in URL /\ p.challenge \in BOOLEAN /\ p.at \in Nat

\* Of the URLs seen, exactly those are quarantined that some item found challenged.
SeenPages ==
    /\ seen \subseteq DOMAIN rows
    /\ \A u \in seen : rows[u] \in Range(result) /\ rows[u].url = u
    /\ quarantined \in Seq(URL) /\ Range(quarantined) = seen \cap Walled

\* The challenged items come first, so a URL is seen as challenged if any item of it is.
ChallengesFirst ==
    /\ todo \in Seq(Range(result))
    /\ \A i, j \in DOMAIN todo : i < j /\ todo[j].challenge => todo[i].challenge
    /\ \A p \in Range(result) : p.challenge => p.url \in seen \/ \E i \in DOMAIN todo : todo[i] = p

\* The pages that the task has collected, by where it is.
Collects ==
    /\ pc # "idle" => attempt \in 1 .. MaxAttempts
    /\ pc = "crawl" => seen = {} /\ quarantined = <<>>
    /\ pc \notin {"idle", "crawl"} => result \in Seq(Range(result)) /\ PagesTyped /\ SeenPages
    /\ Collecting => ChallengesFirst
    /\ pc = "evidence" => todo # <<>> /\ Head(todo).url \in seen
    /\ Writing \/ pc \in {"rules", "score"} => Read # {}

\* Pages of the site.
Site(pages) == IsFiniteSet(pages) /\ \A p \in pages : p.url \in URL /\ p.at \in Nat

\* The rules of each category; there is no other rule.
TechnicalRules ==
    {"technical.http_status", "technical.canonical_boundary", "technical.robots_directive",
     "technical.redirect_chain_length", "technical.canonical_missing", "technical.duplicate_content",
     "technical.insecure_internal_links", "technical.broken_internal_link", "technical.url_hygiene",
     "technical.deep_page", "technical.orphan_page", "technical.crawl_degraded"}
OnPageRules ==
    {"on_page.title", "on_page.meta_description", "on_page.h1", "on_page.title_duplicate",
     "on_page.meta_description_duplicate", "on_page.h1_duplicate", "on_page.title_short", "on_page.thin_content",
     "on_page.image_alt_missing", "on_page.h2_missing"}
PerformanceRules ==
    {"performance.slow_response", "performance.heavy_page"}
AnalyticsRules ==
    {"analytics.tracking_missing", "analytics.tracking_partial"}
GeoAeoRules ==
    {"geo_aeo.structured_data_missing", "geo_aeo.organization_schema_missing", "geo_aeo.html_lang_missing"}
ArchitectureRules ==
    {"keyword_architecture.title_cannibalization", "keyword_architecture.generic_title"}
EcommerceRules ==
    {"ecommerce.product_schema_missing"}
LocalRules ==
    {"local.localbusiness_schema_missing"}
CategoryOf(rule) ==
    CASE rule \in TechnicalRules -> "technical" [] rule \in OnPageRules -> "on_page" [] rule \in PerformanceRules -> "performance"
      [] rule \in AnalyticsRules -> "analytics" [] rule \in GeoAeoRules -> "geo_aeo" [] rule \in ArchitectureRules -> "keyword_architecture"
      [] rule \in EcommerceRules -> "ecommerce" [] OTHER -> "local"
Filed(rule, category) == rule \in Range(RuleIds) /\ category = CategoryOf(rule)

\* A hit has a severity, a share that is not empty, and the category of its rule; it is about some of
\* the pages, its lead one of them.
Measured(h) == h.severity \in Severity /\ h.num \in Nat \ {0} /\ h.den \in Nat \ {0} /\ Filed(h.rule, h.category)
About(h, pages) == h.urls \subseteq Urls(pages) /\ h.urls # {} /\ h.lead \in Urls(pages)
Fine(H, pages) == IsFiniteSet(H) /\ \A h \in H : Measured(h) /\ About(h, pages)

\* The hits of the attempt, once the rules ran: all about pages that were read, but for the caveat.
HitsSound ==
    /\ pc = "rules" => integrity = Integrity
    /\ Writing \/ pc = "score" =>
        /\ IsFiniteSet(hits)
        /\ \A h \in hits : Measured(h) /\ (h.rule # "technical.crawl_degraded" => About(h, Read))

\* The codes that are left: each once, each with a hit, none with a finding but that in hand.
TodoHasHits ==
    Writing =>
        /\ todo \in Seq(Range(RuleIds)) /\ Differ(todo, 1 .. Len(todo))
        /\ \A i \in 1 .. Len(todo) : /\ \E h \in hits : h.rule = todo[i]
                                     /\ todo[i] \notin DOMAIN findings \ InHand
        /\ pc # "finding" => todo # <<>>

\* The fields of a finding; what a finding says is of pages that were read.
Fields == {"severity", "category", "risk", "num", "den", "page", "evidence", "count"}
FindingsTyped == \A code \in DOMAIN findings : findings[code].severity \in Severity /\ DOMAIN findings[code] = Fields
Silent(code) ==
    /\ findings[code].count <= Cardinality(Urls(Range(result)) \ Walled)
    /\ ({findings[code].page} \cup findings[code].evidence) \cap Walled = {}
FindingsSilent ==
    /\ FindingsTyped
    /\ Writing \/ pc = "score" => \A code \in DOMAIN findings \ {"technical.crawl_degraded"} : Silent(code)

\* The linked actions of a week, and the served findings of some severities.
Load(x) == {a \in LinkedActions : a.week = x}
DealtWith(severities) == {code \in DOMAIN findings \ InHand : findings[code].severity \in severities}

\* Every finding but the one in hand has one linked action, and the weeks are dealt out in turn.
Dealt ==
    Writing \/ pc = "score" \/ (pc = "idle" /\ state = "GATE_1_REVIEW") =>
        /\ IsFiniteSet(DOMAIN findings) /\ IsFiniteSet(LinkedActions)
        /\ Cardinality(LinkedActions) = Cardinality(DOMAIN findings \ InHand)
        /\ \A a \in LinkedActions : /\ a.code \in DOMAIN findings \ InHand
                                    /\ findings[a.code].severity \in {"critical", "high"} <=> a.week = 1
        /\ \A v \in 2 .. 4 : Cardinality(Load(v)) = (Cardinality(DealtWith({"medium"})) + 4 - v) \div 3
        /\ \A v \in 5 .. 8 : Cardinality(Load(v)) = (Cardinality(DealtWith({"low", "info"})) + 8 - v) \div 4
Planning == IInv /\ Collects /\ HitsSound /\ TodoHasHits /\ FindingsSilent /\ Dealt

-----------------------------------------------------------------------------
(* What a package reads of the audit (PackageRows).                        *)

\* A row is that of its URL, whoever left it; there are finitely many findings.
RowsTell ==
    /\ \A u \in DOMAIN rows : u \in URL /\ rows[u].url = u /\ rows[u].challenge \in BOOLEAN /\ Crawled(rows[u])
    /\ IsFiniteSet(DOMAIN findings)

\* What holds of the audit while a package reads it.
AuditInv == Planning /\ RowsTell

\* A list of pages: each has its number, and one URL has one status.
PagesGood(pages) ==
    /\ pages \in Seq(Range(pages)) /\ pages # <<>>
    /\ \A i \in DOMAIN pages : pages[i].id = PageId(i) /\ pages[i].url \in URL
    /\ \A p, q \in Range(pages) : p.url = q.url => p.status = q.status

\* What it cites is there.
CitesBook(r) == Cites(r.evidence, EvidenceRows(book))

\* The build has begun, and is beyond these queries.
Later(steps) == step \notin {"off", "raised"} \cup steps

\* As far as the build has come: there are pages, and the findings and the actions cite them.
Booked ==
    /\ Later({"evidence", "pages"}) => PagesGood(book.pages)
    /\ Later({"evidence", "pages", "sources", "findings"}) => \A f \in Range(book.findings) : CitesBook(f)
    /\ Later({"evidence", "pages", "sources", "findings", "scorecard", "actions"}) => \A a \in book.actions : CitesBook(a)

\* What a build has read so far.
Sourced == DOMAIN book = DOMAIN Blank /\ Booked

\* The audit and the part of a build that reads it.
RowsInv == AuditInv /\ Sourced

-----------------------------------------------------------------------------
(* What it compiles from that (PackageContents).                           *)

\* The seeds of clusters: each has a keyword.
SeedsOf(T, K) == [tokens : SUBSET T, members : Seq(K) \ {<<>>}]

\* The URLs that answer.
UpAt(pages) == {p.url : p \in {p \in Range(pages) : p.status = 200}}

\* The evidence of the pages.
PageIds(pages) == {PageId(i) : i \in DOMAIN pages}

\* All that is compiled cites what is known; what the lists lead to answers, what they redirect does not.
Kept(pages, known, c) ==
    /\ c.keywords \in Seq(Range(c.keywords)) /\ c.clusters \in Seq(Range(c.clusters)) /\ c.assets \in Seq(Range(c.assets))
    /\ \A k \in Range(c.clusters) : k.url \in UpAt(pages) \cup {0} /\ Cites(k.evidence, known)
    /\ \A r \in Range(c.proposals) : r.url \in UpAt(pages) /\ Cites(r.evidence, known)
    /\ \A a \in Range(c.assets) : a.url \in UpAt(pages) /\ a.targets \subseteq UpAt(pages) /\ Cites(a.claims, known)
    /\ \A o \in Range(c.opportunities) : Cites(o.evidence, known)
    /\ \A r \in c.redirects : r.target \in UpAt(pages) \cup {0} /\ \E p \in Range(pages) : p.url = r.source /\ p.status # 200
    /\ \A l \in c.links : l.kind = "authority" => l.source \in UpAt(pages) /\ l.target \in UpAt(pages)

\* The steps after the market.
ContentSteps == {"proposals", "outlines", "assets", "enrich", "written"}

\* From then on the content is whole and cites what is known.
Contained ==
    /\ DOMAIN content = DOMAIN Unwritten
    /\ step \in ContentSteps => Kept(book.pages, Evidence(book, content), content)

\* The row of a page cites the page, and a keyword of the package if it has one.
RowSet(pages, c) ==
    [url : {p.url : p \in pages}, changes : SUBSET {"title", "meta", "h1"}, source : {"deterministic"},
     keywords : SUBSET {k.phrase : k \in Range(c.keywords)},
     evidence : SUBSET ({p.id : p \in pages} \cup {k.evidence : k \in Range(c.keywords)})]

\* There is one row for each chosen page, and it cites the page.
RowsFor(rows_, chosen, c) ==
    /\ rows_ \in Seq(RowSet(Range(chosen), c)) /\ \A r \in Range(rows_) : r.evidence # {}

\* What does not touch the rows keeps them.
Rowed == {"keywords", "clusters", "competitors", "backlinks", "status", "proposals", "assets", "opportunities", "redirects", "links"}

\* The rows and the content of a package, and the audit it is about.
PackageInv == RowsInv /\ Contained

-----------------------------------------------------------------------------
(* The ledger of what the language model was asked.                        *)

\* The rows of a task.
RowsOf(ledger, task) == {i \in DOMAIN ledger : ledger[i].task = task}

\* What the task's answer wrote may be used.
Clean(ledger, task) == \A i \in RowsOf(ledger, task) : ledger[i].status = "available" /\ ~ledger[i].reason

\* There is exactly one.
One(S) == \E i : S = {i}

\* The ledger `more` is `ledger` with one more row.
Gains(more, ledger, row) == more = Append(ledger, row) /\ ledger \in Seq(Range(ledger))

\* There is a page to write a brief for.
Briefed == UpTo(Candidates(book.pages), CONTENT_ASSET_CAP) # <<>>

\* Bound: a call is made out of the budget, the one for the summary is not.
Budgeted(c) ==
    /\ c.setting.calls \in Int /\ c.calls \in Nat /\ c.budget \in Nat
    /\ IF step = "written" THEN c.calls <= Most(1, c.setting.calls) ELSE c.calls + c.budget <= Most(0, c.setting.calls - 1)

\* One row for each task that is done and had something to do, and what it wrote.
Noted(c) ==
    /\ c.ledger \in Seq(Range(c.ledger))
    /\ IF step = "written" THEN One(RowsOf(c.ledger, "summary")) ELSE RowsOf(c.ledger, "summary") = {}
    /\ IF c.proposals # <<>> THEN One(RowsOf(c.ledger, "proposals")) ELSE RowsOf(c.ledger, "proposals") = {}
    /\ IF step \notin {"proposals", "outlines"} /\ Briefed THEN One(RowsOf(c.ledger, "outlines")) ELSE RowsOf(c.ledger, "outlines") = {}
    /\ step = "proposals" => c.proposals = <<>>
    /\ step \in {"proposals", "outlines"} => DOMAIN c.outlines = {}
    /\ (\E r \in Range(c.proposals) : r.source = "llm") => Clean(c.ledger, "proposals")
    /\ DOMAIN c.outlines # {} => Clean(c.ledger, "outlines")
    /\ IF step \in {"enrich", "written"}
       THEN (c.assets = <<>> <=> ~Briefed) /\ \A a \in Range(c.assets) : a.source = "llm" => DOMAIN c.outlines # {}
       ELSE c.assets = <<>>

\* From the market on the ledger and the budget are right.
Told == step \in ContentSteps => Budgeted(content) /\ Noted(content)

\* The content has all its fields.
Filled == DOMAIN content = DOMAIN Unwritten

\* The whole of it: the rows, what they cite, and the ledger.
LedgerInv == PackageInv /\ Told

-----------------------------------------------------------------------------
(* The scores, and what they are made of.                                  *)

\* While a task has pages, they are what it saw, and those it quarantined are the challenged ones.
RowsMarked ==
    pc \notin {"idle", "crawl"} =>
        /\ DOMAIN rows = seen
        /\ Range(quarantined) = {u \in seen : rows[u].challenge}

\* A finding has the severity and the category of the gravest of its hits.
Graded(code) ==
    /\ Group(code) # {}
    /\ findings[code].severity = Worst(Group(code)).severity
    /\ findings[code].category = Worst(Group(code)).category

\* Every hit has a finding by now, or its code is left to the task.
FindingsGraded ==
    Writing \/ pc = "score" =>
        /\ \A h \in hits : h.rule \in DOMAIN findings \/ (Writing /\ \E i \in 1 .. Len(todo) : todo[i] = h.rule)
        /\ \A code \in DOMAIN findings : Graded(code)

\* What the scorecard was made of is still there: the hits, their findings and the pages.
ScoresMade ==
    /\ IsFiniteSet(hits) /\ \A h \in hits : Measured(h)
    /\ DOMAIN findings = {h.rule : h \in hits}
    /\ \A code \in DOMAIN findings : Graded(code)
    /\ Read = {rows[u] : u \in {u \in DOMAIN rows : ~rows[u].challenge}}
    /\ scorecard.categories = [c \in DOMAIN Weights(profile) |-> CategoryScore(hits, c, Most(1, Cardinality(Read)))]

\* So it is at the review, once the task is over.
Scored == pc = "idle" /\ state = "GATE_1_REVIEW" => ScoresMade
ScoreInv == AuditInv /\ RowsMarked /\ FindingsGraded /\ Scored
Penalty(h) == SeverityPenalties[h.severity] * h.num

\* A build that began after the task, and that no other audit has met.
Undisturbed == step \notin {"off", "raised"} /\ book.calm /\ book.attempt = attempt

\* As far as the build has come: the pages that were read, the findings, and the scores published.
PagesMatch == Cardinality({p \in Range(book.pages) : ~p.wall}) = Cardinality(Read)
Shows(f, code) == f.severity = findings[code].severity /\ f.category = findings[code].category
FindingsMatch ==
    /\ \A f \in Range(book.findings) : \E code \in DOMAIN findings : Shows(f, code)
    /\ \A code \in DOMAIN findings : \E f \in Range(book.findings) : Shows(f, code)
ScoreAgrees(c) == book.categories[c].published => book.categories[c].score = scorecard.categories[c]
CategoriesMatch == \A c \in DOMAIN book.categories : c \in DOMAIN Weights(profile) /\ ScoreAgrees(c)
Matches ==
    Undisturbed =>
        /\ pc = "idle" /\ ScoresMade /\ book.profile = profile
        /\ Later({"evidence", "pages"}) => PagesMatch
        /\ Later({"evidence", "pages", "sources", "findings"}) => FindingsMatch
        /\ Later({"evidence", "pages", "sources", "findings", "scorecard"}) => CategoriesMatch

\* No build is of an attempt still to come.
Begun == book.attempt \in Nat /\ book.attempt <= attempt

\* The audit, what a build reads of it, and what its scores are made of.
MatchInv == ScoreInv /\ Sourced /\ Begun /\ Matches

-----------------------------------------------------------------------------
(* What a finding says of a page.                                          *)

\* What a rule of the crawl's pages says of one of them; nothing is asked of the rules that have no
\* sheet of their own.
Faulty(rule, p, pages) ==
    /\ rule = "technical.http_status" => p.status >= 500 \/ p.status \in 400..499
    /\ rule = "technical.redirect_chain_length" => p.chain > 2
    /\ rule = "technical.robots_directive" => Blocked(p)
    /\ rule = "technical.duplicate_content" => p.hash # 0 /\ \E q \in pages : q.url # p.url /\ q.hash = p.hash
    /\ rule = "technical.canonical_boundary" => p.canonical = "outside"
    /\ rule = "technical.canonical_missing" => p.canonical = "none"
    /\ rule = "on_page.title" => Empty(p.title) \/ p.title.length > 65
    /\ rule = "on_page.title_short" => p.title.length \in 1 .. 14
    /\ rule = "on_page.title_duplicate" => ~Empty(p.title) /\ \E q \in pages : q.url # p.url /\ q.title = p.title
    /\ rule = "on_page.meta_description" => Empty(p.meta)
    /\ rule = "on_page.h1" => p.h1s = 0 \/ p.h1s > 1
    /\ rule = "on_page.image_alt_missing" => p.unlabelled > 0
    /\ rule = "on_page.thin_content" => p.words \in 0 .. 199
    /\ rule = "geo_aeo.structured_data_missing" => p.schema = {}
    /\ rule \in {"analytics.tracking_missing", "analytics.tracking_partial"} => ~p.tracked

\* The rules that nothing is asked of.
Unsheeted ==
    {"technical.insecure_internal_links", "technical.broken_internal_link", "technical.url_hygiene", "technical.deep_page",
     "technical.orphan_page", "technical.crawl_degraded", "on_page.meta_description_duplicate", "on_page.h1_duplicate",
     "on_page.h2_missing", "performance.slow_response", "performance.heavy_page", "geo_aeo.organization_schema_missing",
     "geo_aeo.html_lang_missing", "keyword_architecture.title_cannibalization", "keyword_architecture.generic_title",
     "ecommerce.product_schema_missing", "local.localbusiness_schema_missing"}

\* A hit tells: all of its URLs are those of pages that its rule is about, its first one among them.
Telling(h, pages) == h.lead \in h.urls /\ \A u \in h.urls : \E p \in pages : p.url = u /\ Faulty(h.rule, p, pages)
AllTell(H, pages) == \A h \in H : Telling(h, pages)

\* A hit is of a category that the profile enables; but for the caveat, it tells of what was read.
Fitting(h) == h.category \in EnabledModules(profile) /\ (h.rule # "technical.crawl_degraded" => Telling(h, Read))
HitsFit == Writing \/ pc = "score" => \A h \in hits : Fitting(h)

\* The URLs that a finding has from its hits are those of faulty pages.
Pointing(code) == {findings[code].page} \cup findings[code].evidence
Apt(code) ==
    /\ code = "ecommerce.product_schema_missing" => profile \in {"ecommerce", "hybrid"}
    /\ code # "technical.crawl_degraded" => \A u \in Pointing(code) : \E p \in Read : p.url = u /\ Faulty(code, p, Read)

\* The findings and the actions stand until the next claim, or until a later stage fails.
PlanStands == Writing \/ pc = "score" \/ (pc = "idle" /\ state = "GATE_1_REVIEW")
FindingsApt == PlanStands => \A code \in DOMAIN findings : Apt(code)

\* There are finitely many actions, in eight weeks.
ActionsTimed == IsFiniteSet(actions) /\ \A a \in actions : a.week \in 1 .. 8

\* All of this, of the audit.
AptInv == ScoreInv /\ HitsFit /\ FindingsApt /\ ActionsTimed

-----------------------------------------------------------------------------
(* What a package shows of a page, of an action and of the market.         *)

\* A page of a package shows a row: some of its facts always, the others unless it is challenged.
Always == {"url", "status", "title", "meta", "h1s", "canonical", "hash"}
Open == {"unlabelled", "robots", "chain", "ms", "schema", "tracked"}
ShowsRow(q, u) ==
    /\ q.url = u /\ q.key = Key(u) /\ \A x \in Always : q[x] = rows[u][x]
    /\ ~rows[u].challenge => (\A x \in Open : q[x] = rows[u][x]) /\ q.words = Most(0, rows[u].words)
    /\ rows[u].challenge => q.words = -1 /\ q.ms = -1 /\ q.chain = 0 /\ q.tracked \in BOOLEAN
PagesShow(pages) ==
    /\ \A q \in Range(pages) : \E u \in DOMAIN rows : ShowsRow(q, u)
    /\ \A u \in DOMAIN rows : \E q \in Range(pages) : ShowsRow(q, u)

\* The numbers of a page, and whether it is tracked.
Sized(q) ==
    /\ {q.status, q.title.length, q.meta.length, q.h1s, q.chain} \subseteq Nat
    /\ {q.words, q.ms} \subseteq -1 .. Endless
    /\ q.tracked \in BOOLEAN

\* The steps of a build up to some query.
Evidenced == {"evidence", "pages"}
ToFindings == Evidenced \cup {"sources", "findings"}
ToScores == ToFindings \cup {"scorecard"}
ToActions == ToScores \cup {"actions"}

\* The numbers of the pages, the scores that are published, and the weeks of the plan.
Graver(b, c) == b.categories[c].published => Coverage[c] >= 70
Timed(a) == a.week \in 1 .. 8 /\ a.phase = Phase(a.week)
InBounds ==
    /\ Later(Evidenced) => \A q \in Range(book.pages) : Sized(q)
    /\ Later(ToScores) => \A c \in DOMAIN book.categories : Graver(book, c)
    /\ Later(ToActions) => IsFiniteSet(book.actions) /\ \A a \in book.actions : Timed(a)

\* What an undisturbed build has read is true: its pages show the rows, its findings tell of faulty
\* pages, and its plan fits the business.
Faults(b) == \A f \in Range(b.findings), p \in Range(b.pages) : p.id \in f.evidence => Faulty(f.code, p, Range(b.pages))
Fits(b) == \A a \in b.actions : a.rule = "ecommerce.product_schema_missing" => b.profile \in {"ecommerce", "hybrid"}
AllApt == (\A code \in DOMAIN findings : Apt(code)) /\ \A a \in LinkedActions : a.code \in DOMAIN findings
Truthful ==
    Undisturbed =>
        /\ AllApt
        /\ Later(Evidenced) => PagesShow(book.pages)
        /\ Later(ToFindings) => Faults(book)
        /\ Later(ToActions) => Fits(book)

\* The market's stages and scores are in bounds; the lists are those of the pages, the briefs in order.
Stages == {"TOFU", "MOFU", "BOFU", "unlabelled"}
Marketed(c) ==
    /\ \A k \in Range(c.keywords) : k.stage \in Stages
    /\ c.backlinks \in Seq(Range(c.backlinks)) /\ \A r \in Range(c.backlinks) : r.score \in -1 .. 100
ListsMade(pages, c) ==
    /\ c.redirects = Redirects(pages) /\ c.canonicals = Canonicals(pages)
    /\ \A n \in DOMAIN c.assets : c.assets[n].n = n
Furnished ==
    step \in ContentSteps => Undisturbed /\ Marketed(content) /\ (step \in {"enrich", "written"} => ListsMade(book.pages, content))

\* All that is known of the audit, the book and the content while the content is compiled.
WholeInv == MatchInv /\ AptInv /\ InBounds /\ Truthful /\ Contained /\ Furnished

-----------------------------------------------------------------------------
(* The folder (PackageTree).                                               *)

\* A folder of files shows what it should; all files are of some folders and formats, and finitely many.
Has(files, name, suffix, shows) ==
    \A stem \in DOMAIN shows :
        <<name, stem, suffix>> \in DOMAIN files /\ files[<<name, stem, suffix>>] = shows[stem]
Within(files, names, suffixes) ==
    IsFiniteSet(DOMAIN files) /\ \A f \in DOMAIN files : f[1] \in names /\ f[3] \in suffixes

\* The names of the files, those of the briefs aside.
Stems ==
    <<"AUDIT_RESULTS", "Technical", "Content", "Backlink", "Competitor", "GEO_AEO", "CRO_UX", "Tracking", "Baseline",
      "Ecommerce", "GBP_Local", "Keyword_Universe", "Content_Gap", "Content_Strategy", "URL_Architecture", "Cannibalization",
      "Action_Plan", "Title_Tag", "Meta_Description", "H1_Tags", "Internal_Link_Map", "Redirect_Map", "Canonical_Fixes",
      "QC_Report", "Referring_Domains", "Link_Gap", "Enterprise_SEO", "SEO_Strategy", "Executive_Deck", "availability_matrix",
      "generation_ledger", "evidence_index", "issue_register", "source_coverage", "change_log", "Robots_txt", "Organization",
      "LocalBusiness", "Product", "QA_Report">>

\* The files after each rendering.
Files1(b, c) == Folder("root", "md", [AUDIT_RESULTS |-> Summary(b, c)]) ++ Empties
Files2(b, c) == Workbooks(b, c) ++ Files1(b, c)
Files3(b, c) == (Documents(b, c) ++ BriefFiles(b, c)) ++ Files2(b, c)
Files4(b, c) == DeckFiles(b, c) ++ Files3(b, c)
DataFiles(b, c) == CsvFiles(b, c) ++ Folder("fixes", "txt", [Robots_txt |-> Indexability(b)]) ++ SchemaFiles(b.profile)
Files5(b, c) == DataFiles(b, c) ++ Files4(b, c)

\* The four folders of workbooks whose sheets are told of.
HasWorkbooks(files, b, c) ==
    /\ Has(files, "audit", "xlsx", AuditWorkbooks(b, c)) /\ Has(files, "strategy", "xlsx", StrategyWorkbooks(b, c))
    /\ Has(files, "onpage", "xlsx", OnPageWorkbooks(c)) /\ Has(files, "fixes", "xlsx", FixWorkbooks(b, c))
FolderNames == {"root", "audit", "strategy", "plan", "onpage", "fixes", "qa", "links"}

\* The numbers of the briefs.
Numbered(c) == {a.n : a \in Range(c.assets)}

\* A presentation has its PDF.
Presented(files) == \A f \in DOMAIN files : f[3] = "pptx" => <<f[1], f[2], "pdf">> \in DOMAIN files

\* The rows of the CSV files, and the schemas of the business.
QaRows(b, c) ==
    [availability_matrix |-> Len(b.sources), generation_ledger |-> Len(c.ledger),
     evidence_index |-> Cardinality(Evidence(b, c)), issue_register |-> Len(b.findings),
     source_coverage |-> Cardinality(DOMAIN b.categories), change_log |-> 1]
SchemasOf(business) == {t \in DOMAIN Types(business) : Types(business)[t]}
HasData(files, b, c) ==
    /\ Has(files, "plan", "csv", [Action_Plan |-> Cardinality(b.actions)])
    /\ Has(files, "fixes", "csv", [Redirect_Map |-> Cardinality(c.redirects)])
    /\ Has(files, "qa", "csv", QaRows(b, c))
    /\ Has(files, "schema", "json", [t \in SchemasOf(b.profile) |-> t])

\* All of the folder: the files that the plan may promise, and what the checks look at.
Complete(files, b, c) ==
    /\ IsFiniteSet(DOMAIN files) /\ HasWorkbooks(files, b, c) /\ HasData(files, b, c) /\ Presented(files)
    /\ {f \in DOMAIN files : f[1] = "content"} = {<<"content", n, "docx">> : n \in Numbered(c)}

\* What the files are made from: all that is known when the content is written.
Right(b, c) ==
    /\ PagesGood(b.pages) /\ \A q \in Range(b.pages) : Sized(q)
    /\ Faults(b) /\ Fits(b)
    /\ \A k \in DOMAIN b.categories : Graver(b, k)
    /\ IsFiniteSet(b.actions) /\ \A a \in b.actions : Timed(a)
    /\ Marketed(c) /\ ListsMade(b.pages, c)
    /\ c.keywords \in Seq(Range(c.keywords)) /\ c.assets \in Seq(Range(c.assets))

\* What a deliverable may be; the template of a product is that of one rule.
PromisedFiles ==
    {<<"onpage", "Title_Tag", "xlsx">>, <<"onpage", "Meta_Description", "xlsx">>, <<"onpage", "H1_Tags", "xlsx">>,
     <<"onpage", "Internal_Link_Map", "xlsx">>, Technical, <<"audit", "Content", "xlsx">>, <<"audit", "Tracking", "xlsx">>,
     <<"audit", "Baseline", "xlsx">>, <<"fixes", "Canonical_Fixes", "xlsx">>, <<"strategy", "Keyword_Universe", "xlsx">>, RedirectCsv}
ProductTemplate == <<"schema", "Product", "json">>

\* The steps of a build that has its content: to each of the first five its files, to the others all of
\* them.
Checked == {"prune", "verify", "manifest", "archive", "sealed"}
TreeSteps == {"workbooks", "documents", "deck", "data", "reconcile"} \cup Checked
StepFiles(files, b, c) ==
    /\ step = "workbooks" => files = Files1(b, c)
    /\ step = "documents" => files = Files2(b, c)
    /\ step = "deck" => files = Files3(b, c)
    /\ step = "data" => files = Files4(b, c)
    /\ step = "reconcile" => files = Files5(b, c)
    /\ step \in Checked => Complete(files, b, c)

\* What the manifest lists, and what the archive packs.
Manifested == step \in {"archive", "sealed"} => folder.manifest = Entries(Files)
Packed == step = "sealed" => folder.archive = Files \cup ControlFiles

\* Until the content is written there is no folder; after that it has the files of its step, and no check
\* has failed.
TreeInv ==
    /\ DOMAIN folder = DOMAIN NoFolder /\ folder.failures = {} /\ step # "refused"
    /\ step \notin TreeSteps => WholeInv /\ folder = NoFolder
    /\ step \in TreeSteps => Right(book, content) /\ StepFiles(folder.files, book, content)
    /\ Manifested /\ Packed

-----------------------------------------------------------------------------
(* The sheets of the workbooks.                                            *)

\* The pages of which some lines say this, and the sheets by their names.
Said(lines, what) == {l.url : l \in {l \in lines : l.says = what}}
Audited(files, stem) == files[<<"audit", stem, "xlsx">>]
Tech(files) == Audited(files, "Technical")
Thin(files) == Audited(files, "Content").thin
Twinned(P, p) == Cardinality({q \in P : q.hash = p.hash})
Fixed(files, stem) == files[<<"fixes", stem, "xlsx">>]
FixUrls(files) == {f.url : f \in Fixed(files, "Canonical_Fixes").fixes}

\* The sheets of a code, by the code.
SheetsGiven(files) ==
    /\ SheetsOf("technical.http_status", files) = {Urls(Tech(files).errors), {r.source : r \in Fixed(files, "Redirect_Map").map}}
    /\ SheetsOf("technical.redirect_chain_length", files) = {Urls(Tech(files).redirects), Urls(Fixed(files, "Redirect_Map").chains)}
    /\ SheetsOf("technical.robots_directive", files) = {Urls(Tech(files).indexability)}
    /\ SheetsOf("technical.duplicate_content", files) = {Urls(Tech(files).duplicates)}
    /\ SheetsOf("technical.canonical_boundary", files) = {Said(Tech(files).canonicals, "Mismatch"), FixUrls(files)}
    /\ SheetsOf("technical.canonical_missing", files) = {Said(Tech(files).canonicals, "Missing"), FixUrls(files)}
    /\ SheetsOf("on_page.title", files) = {Urls(Tech(files).titles)}
    /\ SheetsOf("on_page.title_short", files) = {Said(Tech(files).titles, "Too short")}
    /\ SheetsOf("on_page.title_duplicate", files) = {Said(Thin(files), "Duplicate title")}
    /\ SheetsOf("on_page.meta_description", files) = {Said(Tech(files).metas, "Missing")}
    /\ SheetsOf("on_page.h1", files) = {Urls(Tech(files).headings)}
    /\ SheetsOf("on_page.image_alt_missing", files) = {Urls(Tech(files).images)}
    /\ SheetsOf("on_page.thin_content", files) = {Urls(Thin(files))}
    /\ SheetsOf("geo_aeo.structured_data_missing", files) = {Said(Tech(files).schema, "none")}
    /\ SheetsOf("analytics.tracking_missing", files) = {Said(Audited(files, "Tracking").coverage, FALSE)}
    /\ SheetsOf("analytics.tracking_partial", files) = {Said(Audited(files, "Tracking").coverage, FALSE)}

\* The codes that have a sheet.
Sheeted ==
    {"technical.http_status", "technical.redirect_chain_length", "technical.robots_directive", "technical.duplicate_content",
     "technical.canonical_boundary", "technical.canonical_missing", "on_page.title", "on_page.title_short",
     "on_page.title_duplicate", "on_page.meta_description", "on_page.h1", "on_page.image_alt_missing",
     "on_page.thin_content", "geo_aeo.structured_data_missing", "analytics.tracking_missing", "analytics.tracking_partial"}

\* What the sheets of the workbooks say.
SheetsTold(files, b, c) ==
    LET P == Range(b.pages)
    IN  /\ Tech(files).errors = {Line(p, p.status) : p \in {p \in P : p.status >= 400}}
        /\ Tech(files).redirects = {Line(p, 2) : p \in {p \in P : p.chain > 1}}
        /\ Tech(files).canonicals = {Line(p, CanonicalState(p)) : p \in {p \in P : CanonicalState(p) # "Match"}}
        /\ Tech(files).duplicates = {Line(p, Twinned(P, p)) : p \in {p \in P : p.hash # 0 /\ Twinned(P, p) > 1}}
        /\ Tech(files).indexability = {Line(p, "Noindex observed") : p \in {p \in P : Blocked(p)}}
        /\ Tech(files).titles = {Line(p, TitleIssue(p)) : p \in {p \in P : TitleIssue(p) # "OK"}}
        /\ Tech(files).metas = {Line(p, MetaIssue(p)) : p \in {p \in P : MetaIssue(p) # "OK"}}
        /\ Tech(files).headings = {Line(p, H1Issue(p)) : p \in {p \in P : H1Issue(p) # "OK"}}
        /\ Tech(files).images = {Line(p, p.unlabelled) : p \in {p \in P : p.unlabelled > 0}}
        /\ Tech(files).schema = {Line(p, SchemaGap(p)) : p \in P}
        /\ Thin(files) =
              {Line(p, IF Money(p) THEN "Money page" ELSE "Supporting") : p \in {p \in P : p.words \in 0 .. 249}}
              \cup {Line(p, "Duplicate title") :
                       p \in {p \in P : ~Empty(p.title) /\ \E q \in P \ {p} : q.title.text = p.title.text}}
        /\ Audited(files, "Tracking").coverage = {Line(p, p.tracked) : p \in P}
        /\ Fixed(files, "Redirect_Map") = RedirectMap(b, c) /\ Fixed(files, "Canonical_Fixes") = CanonicalFixes(b, c)
=============================================================================
