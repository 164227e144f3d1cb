---------------------------- MODULE PackageReports ----------------------------
(***************************************************************************)
(* The documents of a package, as operators of the compiled book and       *)
(* content: the summary (exporters/markdown_summary.py), the PDF and DOCX  *)
(* reports, the briefs, and the deck with its PDF and HTML siblings.  A    *)
(* document is a record of the numbers it states and the rows it lists.    *)
(*                                                                         *)
(* Left out: texts and layout, and rows about fields the model does not    *)
(* have.                                                                   *)
(***************************************************************************)
EXTENDS PackageWorkbooks

OfCategory(b, c) == Where(b.findings, LAMBDA f : f.category = c)
Urgent(b) == Where(b.findings, LAMBDA f : f.tier = "P1")
Successful(b) == Where(b.pages, LAMBDA p : p.status = 200)

\* The categories of a profile, in the order of its weights.
CategoryOrder == <<"technical", "on_page", "performance", "analytics", "keyword_architecture", "authority", "cro",
                   "local", "ecommerce", "geo_aeo">>
Categories(b) == Where(CategoryOrder, LAMBDA c : c \in DOMAIN b.categories)

\* A score, or no number where it is withheld.
Shown(b, c) == IF b.categories[c].published THEN b.categories[c].score ELSE NotGiven

Scores(b, categories) == [c \in Range(categories) |-> Shown(b, c)]

SeverityMix(b) ==
    [s \in {f.severity : f \in Range(b.findings)} |-> Len(Where(b.findings, LAMBDA f : f.severity = s))]

-----------------------------------------------------------------------------
(* What compile_run_data adds for the documents.                           *)

\* A private source that is there tells of a baseline; the last measure is always promised none.
MeasurementPlan(b) ==
    LET available == {s.kind : s \in {s \in Range(b.sources) : s.available}}
    IN  << <<"clicks", "gsc" \in available>>, <<"conversions", "ga4" \in available>>,
           <<"inventory", Len(b.pages)>>, <<"findings", Len(b.findings)>>, <<"qa_failures", 0>> >>

Gaps(c) == Where(c.clusters, LAMBDA k : k.coverage = "gap")
StrategySections(b, c) ==
    [market |-> IF c.keywords = <<>> THEN <<>> ELSE <<Len(c.keywords), Len(c.clusters), Len(Gaps(c))>>,
     posture |-> <<Len(b.pages), Len(Successful(b)), Len(b.findings), Len(Urgent(b))>>,
     technical |-> <<Len(OfCategory(b, "technical")), Cardinality(c.redirects)>>,
     content |-> <<Len(OfCategory(b, "on_page")), Cardinality(c.metadata), Len(c.assets)>>,
     kpis |-> Len(MeasurementPlan(b))]

\* The overall score is withheld for every profile (SiteRules), which is a limitation too.
Limitations(b, c) ==
    {<<"source", i>> : i \in {i \in DOMAIN b.sources : ~b.sources[i].available /\ b.sources[i].kind \in Range(PrivateSources)}}
    \cup {<<l, 0>> : l \in {"score"} \cup (IF c.keywords = <<>> THEN {"keywords"} ELSE {})
                           \cup (IF c.competitors = <<>> THEN {"competitors"} ELSE {})
                           \cup (IF BacklinksAvailable(c) THEN {} ELSE {"backlinks"})
                           \cup (IF b.integrity = "clean" THEN {} ELSE {"integrity"})
                           \cup {"forecast", "advisory", "external"}}

ExecutiveSummary(b, c) ==
    [pages |-> Len(b.pages), findings |-> Len(b.findings), urgent |-> Len(Urgent(b)),
     actions |-> Cardinality(b.actions), briefs |-> Len(c.assets)]

Failures(c) == {gate \in DOMAIN c.qa : c.qa[gate] = "FAIL"}
Release(c) == [status |-> IF Failures(c) = {} THEN "PASS_FOR_REVIEW" ELSE "REVIEW_REQUIRED", critical |-> Cardinality(Failures(c))]

-----------------------------------------------------------------------------
(* The briefs.                                                             *)

\* What a brief says of its page, before and after the outline; an outline's section takes the
\* matched phrases in turn.
Brief(b, c, a) ==
    LET p == CHOOSE p \in Range(b.pages) : p.url = a.url
        n == Len(a.keywords)
    IN  [observed |-> [status |-> p.status, title |-> p.title.length, h1 |-> p.h1s > 0, meta |-> p.meta.length, words |-> p.words,
                       links |-> Cardinality(p.links), schema |-> p.schema, unlabelled |-> p.unlabelled,
                       canonical |-> CanonicalState(p), blocked |-> Blocked(p)],
         strongest |-> IF n = 0 THEN <<>> ELSE <<Head(a.keywords).phrase>>,
         alignment |-> [i \in 1 .. n |-> <<a.keywords[i].phrase, a.keywords[i].volume, a.keywords[i].position>>],
         outline |-> [i \in DOMAIN a.headings |->
                         <<a.headings[i], IF n = 0 THEN 0 ELSE a.keywords[((i - 1) % n) + 1].phrase>>],
         links |-> {<<u, u \in p.links>> : u \in a.targets},
         traced |-> {p.id} \cup {k.evidence : k \in Range(UpTo(a.keywords, 4))}]

\* The source ledger takes the sources whose own name a claim gives for its evidence, which is none.
BriefDocument(b, c, a) ==
    [brief |-> Brief(b, c, a), claims |-> a.claims, sources |-> {s \in Range(b.sources) : s.base \in a.claims}]

\* The keys of the sentences of a brief that earlier briefs have used too; each of them gets the
\* path of its page, which makes it a new one unless that was used before as well.
RewriteDuplicates(briefs) ==
    LET Say(acc, sentence) ==
            LET said == IF <<sentence, "">> \in acc.used THEN <<sentence, acc.path>> ELSE <<sentence, "">>
            IN  [acc EXCEPT !.used = @ \cup {said}, !.text = Append(@, said),
                            !.rewrites = @ + (IF said[2] = "" THEN 0 ELSE 1)]
        Write(acc, brief) ==
            LET done == FoldLeft(Say, [used |-> acc.used, path |-> brief.path, text |-> <<>>, rewrites |-> acc.rewrites], brief.text)
            IN  [used |-> done.used, rewrites |-> done.rewrites, briefs |-> Append(acc.briefs, done.text)]
    IN  FoldLeft(Write, [used |-> {}, rewrites |-> 0, briefs |-> <<>>], briefs)

-----------------------------------------------------------------------------
(* The deck: compiled slides, which three renderers show.                  *)

\* A point is <<label, text>>.
Slide(kind, points) == [kind |-> kind, points |-> points]
Highlights(listed) == [i \in DOMAIN UpTo(listed, 4) |-> <<listed[i].tier, listed[i].code>>]
ScoreOf(b, categories) == [i \in DOMAIN categories |-> <<categories[i], Shown(b, categories[i])>>]

SEVERITY_ORDER == <<"critical", "high", "medium", "low", "info">>
SeverityOf(b, s) == Len(Where(b.findings, LAMBDA f : f.severity = s))

PERFORMANCE_METRICS == <<"organic_keywords", "organic_traffic", "authority_score", "referring_domains", "common_keywords">>
Benchmarks(c) == [i \in DOMAIN PERFORMANCE_METRICS |-> <<PERFORMANCE_METRICS[i], c.benchmark[PERFORMANCE_METRICS[i]]>>]

Deck(b, c) ==
    <<Slide("cover", <<>>), Slide("score", ScoreOf(b, UpTo(Categories(b), 6))),
      Slide("generic", << <<"pages", Len(b.pages)>>, <<"successful", Len(Successful(b))>>, <<"findings", Len(b.findings)>>,
                          <<"actions", Cardinality(b.actions)>> >>),
      Slide("generic", [i \in 1 .. 5 |-> <<SEVERITY_ORDER[i], SeverityOf(b, SEVERITY_ORDER[i])>>]),
      Slide("generic", Highlights(OfCategory(b, "technical"))), Slide("generic", Highlights(OfCategory(b, "on_page")))>>
    \o (IF c.competitors = <<>> THEN <<>> ELSE <<Slide("comparison", Benchmarks(c))>>)
    \o <<Slide("timeline", <<>>), Slide("generic", UpTo(MeasurementPlan(b), 4)),
         Slide("generic", << <<"gate_1", "required">>, <<"gate_2", "required">>, <<"qa", Release(c)>> >>)>>

\* A layout for each slide, never the one before it.
GENERIC_LAYOUTS == <<"statement", "stat_rail", "chart", "two_column", "table">>
Fallback == [cover |-> "statement", score |-> "stat_rail", timeline |-> "table", comparison |-> "two_column"]
Layouts(slides) ==
    LET Assign(acc, slide) ==
            LET semantic == slide.kind # "generic"
                layout == IF semantic THEN slide.kind ELSE GENERIC_LAYOUTS[(acc.rotation % 5) + 1]
                turn == acc.rotation + (IF semantic THEN 0 ELSE 1)
                last == IF acc.list = <<>> THEN "" ELSE Last(acc.list)
            IN  IF layout # last THEN [list |-> Append(acc.list, layout), rotation |-> turn]
                ELSE IF semantic THEN [list |-> Append(acc.list, Fallback[layout]), rotation |-> turn]
                ELSE [list |-> Append(acc.list, Head(Where(GENERIC_LAYOUTS, LAMBDA l : l # last))), rotation |-> turn + 1]
    IN  FoldLeft(Assign, [list |-> <<>>, rotation |-> 0], slides).list

\* Of the first eight categories, those with a score and those without.
ScoredCategories(b) == Where(ScoreOf(b, UpTo(Categories(b), 8)), LAMBDA p : p[2] # NotGiven)
WithheldCategories(b) == Where(ScoreOf(b, UpTo(Categories(b), 8)), LAMBDA p : p[2] = NotGiven)

\* The severities that occur.
Mix(b) ==
    LET occurring == Where(SEVERITY_ORDER, LAMBDA s : SeverityOf(b, s) > 0)
    IN  [i \in DOMAIN occurring |-> <<occurring[i], SeverityOf(b, occurring[i])>>]

\* The weeks of a phase and its actions; the timeline has the first five phases, the plan four.
PhaseSummary(b) ==
    [phase \in {a.phase : a \in b.actions} |->
        LET own == {a \in b.actions : a.phase = phase}
            weeks == {a.week : a \in own}
        IN  [from |-> CHOOSE w \in weeks : \A v \in weeks : w <= v, to |-> CHOOSE w \in weeks : \A v \in weeks : w >= v,
             actions |-> Cardinality(own)]]

\* What each layout puts on the slide; the score has its categories, not its points.
RenderScore(b) == [chart |-> ScoredCategories(b), chips |-> WithheldCategories(b)]
RenderStatRail(b, points) == [cards |-> UpTo(UpTo(ScoredCategories(b), 4) \o WithheldCategories(b) \o points, 4)]
RenderChart(b, points) == [chart |-> Mix(b), cards |-> UpTo(Mix(b), 4) \o UpTo(points, 2)]
RenderTwoColumn(points) ==
    LET split == (Len(points) + 1) \div 2
    IN  [left |-> UpTo(points, Least(split, 4)), right |-> UpTo(SubSeq(points, split + 1, Len(points)), 4)]
RenderTable(b, points) ==
    [rows |-> IF points # <<>> THEN UpTo(points, 6)
              ELSE [i \in DOMAIN UpTo(b.findings, 6) |-> <<b.findings[i].tier, b.findings[i].code>>]]
RenderStatement(points) == [cards |-> UpTo(points, 3)]

\* A bar stays within the sixteen weeks.
RenderTimeline(b) ==
    [f \in DOMAIN PhaseSummary(b) |->
        LET first == Most(1, Least(16, PhaseSummary(b)[f].from))
        IN  [from |-> first, to |-> Most(first, Least(16, PhaseSummary(b)[f].to)), actions |-> PhaseSummary(b)[f].actions]]

\* The chart has the metrics measured on both sides, the list the first four.
RenderComparison(c, points) ==
    [chart |-> Where(Benchmarks(c), LAMBDA m : m[2] # "unknown"), list |-> UpTo(Benchmarks(c), 4), points |-> UpTo(points, 2)]

SlideOf(b, c, layout, points) ==
    CASE layout = "cover" -> Empties
      [] layout = "score" -> RenderScore(b)
      [] layout = "stat_rail" -> RenderStatRail(b, points)
      [] layout = "chart" -> RenderChart(b, points)
      [] layout = "two_column" -> RenderTwoColumn(points)
      [] layout = "table" -> RenderTable(b, points)
      [] layout = "timeline" -> RenderTimeline(b)
      [] layout = "comparison" -> RenderComparison(c, points)
      [] OTHER -> RenderStatement(points)
RenderDeck(b, c) ==
    LET slides == Deck(b, c)
        layouts == Layouts(slides)
    IN  [i \in DOMAIN slides |-> SlideOf(b, c, layouts[i], slides[i].points)]

\* The sibling draws fewer layouts, and four points under each.
RenderDeckPdf(b, c) ==
    LET slides == Deck(b, c)
        layouts == Layouts(slides)
        Drawn(layout) ==
            CASE layout \in {"score", "stat_rail"} -> RenderScore(b)
              [] layout = "timeline" -> PhaseSummary(b)
              [] layout = "chart" -> Mix(b)
              [] layout = "comparison" -> Benchmarks(c)
              [] OTHER -> Empties
    IN  [i \in DOMAIN slides |-> [drawn |-> Drawn(layouts[i]), points |-> UpTo(slides[i].points, 4)]]

-----------------------------------------------------------------------------
(* The reports.                                                            *)

\* The most searched of the keywords with a volume.
MostSearched(c, n) == UpTo(Where(c.keywords, LAMBDA k : k.volume # NotGiven), n)
MarketTables(c, n) ==
    [market |-> IF c.status = "available" THEN <<c.domain>> ELSE <<>>,
     measured |-> Len(c.keywords), volume |-> Volume(c.keywords), unmapped |-> Len(Homeless(c)), top |-> MostSearched(c, n),
     competitors |-> UpTo(c.competitors, 10), benchmark |-> c.benchmark]

ExecutiveReport(b, c) ==
    [summary |-> ExecutiveSummary(b, c), scores |-> Scores(b, Categories(b)), market |-> MarketTables(c, 8),
     withheld |-> {k \in DOMAIN b.categories : Shown(b, k) = NotGiven}, findings |-> UpTo(b.findings, 10),
     month |-> {a \in b.actions : a.week <= 4}, limitations |-> Limitations(b, c), sources |-> b.sources]

StrategyReport(b, c) ==
    [sections |-> StrategySections(b, c), opportunities |-> c.opportunities, measurement |-> MeasurementPlan(b)]
StrategyDocument(b, c) ==
    StrategyReport(b, c) ++ [summary |-> ExecutiveSummary(b, c), sources |-> b.sources, limitations |-> Limitations(b, c)]

\* The document shows 40 clusters and keywords, the report 30.
ContentStrategyOf(c, n) ==
    [demand |-> IF c.status = "available" THEN <<Len(c.keywords), c.domain>> ELSE <<>>,
     clusters |-> UpTo(c.clusters, n), keywords |-> UpTo(c.keywords, n), assets |-> c.assets]
ContentStrategyReport(c) == ContentStrategyOf(c, 30)
ContentStrategyDocument(b, c) == ContentStrategyOf(c, 40) ++ [limitations |-> Limitations(b, c)]

ActionPlanReport(b) == {[code |-> a.code, attempt |-> a.attempt, week |-> a.week, tier |-> a.tier] : a \in b.actions}

\* The summary, whose top findings are those of the highest tiers; silence about the crawl means clean.
Summary(b, c) ==
    LET Of(key) == Len(OfCategory(b, key))
        OfTier(t) == Where(b.findings, LAMBDA f : f.tier = t)
    IN  [executive |-> ExecutiveSummary(b, c), pages |-> Len(b.pages), severities |-> SeverityMix(b),
         actions |-> Cardinality(b.actions),
         categories |-> [k \in DOMAIN b.categories |-> <<Shown(b, k), Of(k)>>],
         market |-> MarketTables(c, 15),
         integrity |-> IF b.integrity = "clean" THEN <<>> ELSE <<b.integrity>>,
         top |-> UpTo(OfTier("P1") \o OfTier("P2") \o OfTier("P3") \o OfTier("P4"), 10),
         phases |-> [f \in DOMAIN PhaseSummary(b) |->
                       LET all == PhaseSummary(b)[f].actions IN <<Least(3, all), Most(0, all - 3)>>],
         sources |-> b.sources, limitations |-> Limitations(b, c)]
=============================================================================
