--------------------------- MODULE PackageWorkbooks ---------------------------
(***************************************************************************)
(* The workbooks of a package (exporters/xlsx_workbooks.py), as operators  *)
(* of the book and the content that PackageContents has compiled.  A       *)
(* workbook is a record of its sheets, a sheet the set or, where its order *)
(* is computed from, the sequence of its rows.  A row about a page is its  *)
(* URL, what the sheet says of it, and the evidence it cites.              *)
(*                                                                         *)
(* Left out: texts, the columns that copy a field nothing is computed      *)
(* from, layout, and the caps on the samples in a cell (6 URLs, 8          *)
(* phrases).  An empty sheet has one row with a message instead.           *)
(***************************************************************************)
EXTENDS PackageContents

CONSTANT SIGNAL_AGGREGATE_THRESHOLD  \* 8

ASSUME WorkbooksAssumption == SIGNAL_AGGREGATE_THRESHOLD \in Nat \ {0}

Line(p, says) == [url |-> p.url, says |-> says, evidence |-> {p.id}]

\* How many of the values fall into each band.
Spread(values, bands) ==
    [i \in DOMAIN bands |-> Cardinality({j \in DOMAIN values : bands[i][1] <= values[j] /\ values[j] <= bands[i][2]})]

\* The pages of which a number is known, by the number, the largest last.
ByNumber(b, field) ==
    Sorted({p \in Range(b.pages) : p[field] # NotGiven},
                 LAMBDA p, q : p[field] < q[field] \/ (p[field] = q[field] /\ p.url < q.url))
Numbers(b, field) == LET sorted == ByNumber(b, field) IN [i \in DOMAIN sorted |-> sorted[i][field]]
Middle(sorted) == sorted[Len(sorted) \div 2 + 1]

Total(numbers) ==
    LET known == Where(numbers, LAMBDA n : n # NotGiven)
    IN  IF known = <<>> THEN NotGiven ELSE FoldLeft(+, 0, known)

Register(b, categories) == {f \in Range(b.findings) : f.category \in categories}

\* Which of the two conditional groups of workbooks the package has.
LOCAL_SCHEMA == {"localbusiness", "postaladdress", "place", "organization", "store"}
IsEcommerce(b) ==
    b.profile \in {"ecommerce", "hybrid"} \/ \E p \in Range(b.pages) : PageType(p.url) \in {"Product", "Collection"}
IsLocal(b) ==
    b.profile \in {"local", "hybrid", "service_saas"} \/ \E p \in Range(b.pages) : p.schema \cap LOCAL_SCHEMA # {}
BacklinksAvailable(c) == c.backlinks # <<>>

-----------------------------------------------------------------------------
(* What a sheet says of a page.                                            *)

CanonicalState(p) == CASE p.canonical = "none" -> "Missing" [] p.canonical = "self" -> "Match" [] OTHER -> "Mismatch"

\* Mutant of TitleIssue: the limit of the meta description.
TitleIssueLoose(p) == IF Empty(p.title) THEN "Missing" ELSE IF p.title.length > 160 THEN "Too long"
                      ELSE IF p.title.length < 30 THEN "Too short" ELSE "OK"

TitleIssue(p) == IF Empty(p.title) THEN "Missing" ELSE IF p.title.length > 60 THEN "Too long"
                 ELSE IF p.title.length < 30 THEN "Too short" ELSE "OK"

MetaIssue(p) == IF Empty(p.meta) THEN "Missing" ELSE IF p.meta.length > 160 THEN "Too long"
                ELSE IF p.meta.length < 70 THEN "Too short" ELSE "OK"
H1Issue(p) == IF p.h1s = 0 THEN "Missing" ELSE IF p.h1s > 1 THEN "Multiple captured" ELSE "OK"
Blocked(p) == p.robots \cap {"noindex", "none"} # {}

ExpectedSchema(p) ==
    CASE PageType(p.url) = "Homepage" -> {"organization", "website"}
      [] PageType(p.url) = "Product" -> {"product"}
      [] PageType(p.url) = "Collection" -> {"itemlist", "collectionpage"}
      [] PageType(p.url) = "Editorial" -> {"article", "blogposting"}
      [] OTHER -> {"webpage"}
SchemaGap(p) ==
    IF p.schema = {} THEN "none" ELSE IF p.schema \cap ExpectedSchema(p) # {} THEN "present" ELSE "other"

AnswerSchema(p) == p.schema \cap {"faqpage", "qapage", "howto", "question", "answer"} # {}
AnswerReady(p) ==
    LET Points(holds, points) == IF holds THEN points ELSE 0
    IN  Points(p.schema # {}, 30) + Points(AnswerSchema(p), 20) + Points(p.h1s = 1, 20)
        + Points(p.words >= 300, 15) + Points(~Empty(p.meta), 15)

Money(p) == PageType(p.url) \in {"Homepage", "Product", "Collection"}

-----------------------------------------------------------------------------
(* The audit workbooks.                                                    *)

InventoryRow(p) ==
    [status |-> p.status, title |-> TitleIssue(p), meta |-> MetaIssue(p), h1 |-> H1Issue(p),
     canonical |-> CanonicalState(p), words |-> p.words, depth |-> Depth[p.url], type |-> PageType(p.url)]

TechnicalPages(b) ==
    LET P == Range(b.pages)
        Twins(p) == Cardinality({q \in P : q.hash = p.hash})
    IN  [inventory |-> {Line(p, InventoryRow(p)) : p \in P},
         errors |-> {Line(p, p.status) : p \in {p \in P : p.status >= 400}},
         redirects |-> {Line(p, 2) : p \in {p \in P : p.chain > 1}},
         canonicals |-> {Line(p, CanonicalState(p)) : p \in {p \in P : CanonicalState(p) # "Match"}},
         duplicates |-> {Line(p, Twins(p)) : p \in {p \in P : p.hash # 0 /\ Twins(p) > 1}},
         indexability |-> {Line(p, "Noindex observed") : p \in {p \in P : Blocked(p)}}]

TechnicalIssues(b) ==
    LET P == Range(b.pages)
    IN  [titles |-> {Line(p, TitleIssue(p)) : p \in {p \in P : TitleIssue(p) # "OK"}},
         metas |-> {Line(p, MetaIssue(p)) : p \in {p \in P : MetaIssue(p) # "OK"}},
         headings |-> {Line(p, H1Issue(p)) : p \in {p \in P : H1Issue(p) # "OK"}},
         images |-> {Line(p, p.unlabelled) : p \in {p \in P : p.unlabelled > 0}},
         schema |-> {Line(p, SchemaGap(p)) : p \in P},
         findings |-> Register(b, {"technical", "on_page"})]

\* The keywords that land on a page.
KeywordCoverage(c, u) == Where(c.keywords, LAMBDA k : k.landing = u)
Homeless(c) == Where(c.keywords, LAMBDA k : k.landing = 0)
Volume(keywords) == Total([i \in DOMAIN keywords |-> keywords[i].volume])
BestPosition(keywords) ==
    LET positions == {k.position : k \in Range(keywords)} \ {NotGiven}
    IN  IF positions = {} THEN NotGiven ELSE CHOOSE n \in positions : \A m \in positions : n <= m

\* A title on two pages, and a phrase with two landing pages.
CannibalisationRows(b, c) ==
    LET Titled(t) == {p \in Range(b.pages) : p.title.text = t}
        titles == {p.title.text : p \in {p \in Range(b.pages) : ~Empty(p.title)}}
        Landing(phrase) == {k \in Range(c.keywords) : k.phrase = phrase /\ k.landing # 0}
    IN  {[signal |-> "Duplicate title", urls |-> Urls(Titled(t)), evidence |-> {p.id : p \in Titled(t)}] :
            t \in {t \in titles : Cardinality(Titled(t)) > 1}}
        \cup {[signal |-> "Multiple URLs for one keyword", urls |-> {k.landing : k \in Landing(f)},
               evidence |-> {k.evidence : k \in Landing(f)}] :
            f \in {f \in {k.phrase : k \in Range(c.keywords)} : Cardinality({k.landing : k \in Landing(f)}) > 1}}

\* Mutant of DepthBands: a page of 250 words is in none.
DepthBandsGap == <<<<0, 249>>, <<251, 599>>, <<600, 1199>>, <<1200, 2399>>, <<2400, Endless>>>>
DepthBands == <<<<0, 249>>, <<250, 599>>, <<600, 1199>>, <<1200, 2399>>, <<2400, Endless>>>>

ContentAudit(b, c) ==
    LET P == Range(b.pages)
        words == Numbers(b, "words")
        Mapped(p) == KeywordCoverage(c, p.url)
    IN  [inventory |-> {Line(p, Len(Mapped(p))) : p \in P},
         gap |-> Homeless(c),
         coverage |-> {Line(p, <<Len(Mapped(p)), Volume(Mapped(p)), BestPosition(Mapped(p))>>) :
                          p \in {p \in P : Mapped(p) # <<>>}},
         thin |-> {Line(p, IF Money(p) THEN "Money page" ELSE "Supporting") : p \in {p \in P : p.words \in 0 .. 249}}
                  \cup {Line(p, "Duplicate title") :
                           p \in {p \in P : ~Empty(p.title) /\ \E q \in P \ {p} : q.title.text = p.title.text}},
         depth |-> Spread(words, DepthBands),
         extremes |-> IF words = <<>> THEN <<>> ELSE <<Middle(words), Head(words), Last(words)>>,
         unmeasured |-> Len(b.pages) - Len(words),
         cannibalisation |-> CannibalisationRows(b, c)]

AuthorityBands == <<<<0, 19>>, <<20, 39>>, <<40, 59>>, <<60, 79>>, <<80, 100>>>>

AuthorityDistribution(c) ==
    [bands |-> Spread([i \in DOMAIN c.backlinks |-> c.backlinks[i].score], AuthorityBands),
     unscored |-> Len(Where(c.backlinks, LAMBDA r : r.score = NotGiven))]

LinkGap(c) == IF BacklinksAvailable(c) THEN Range(c.competitors) ELSE {}

\* Two totals that the provider has not given are counted from the rows.
Overview(c) ==
    LET Or(n, counted) == IF n = NotGiven THEN counted ELSE n
    IN  [c.domain EXCEPT
            !.referring_domains = Or(@, Len(c.backlinks)),
            !.backlinks_total = Or(@, FoldLeft(LAMBDA n, r : n + r.links, 0, c.backlinks))]

\* The client leads the comparison.
BacklinkAudit(c) ==
    [overview |-> IF BacklinksAvailable(c) THEN {Overview(c)} ELSE {},
     domains |-> c.backlinks,
     authority |-> AuthorityDistribution(c),
     gap |-> LinkGap(c),
     comparison |-> IF BacklinksAvailable(c) THEN <<Overview(c)>> \o c.competitors ELSE <<>>]

CompetitorLandscape(c) ==
    [comparison |-> IF c.competitors = <<>> THEN <<>> ELSE <<c.domain>> \o c.competitors,
     overlap |-> Range(c.competitors),
     gap |-> {r \in Range(c.competitors) : r.gap_keywords # NotGiven},
     performance |-> c.benchmark]

\* How many pages pass, of how many.
Passing(pages, good) == <<Cardinality(pages \cap good), Cardinality(pages)>>

EcommerceAudit(b) ==
    LET Of(type) == {p \in Range(b.pages) : PageType(p.url) = type}
        products == Of("Product")
        collections == Of("Collection")
        titles == {p.title.text : p \in {p \in products : ~Empty(p.title)}}
    IN  [products |-> {Line(p, "product" \in p.schema) : p \in products},
         collections |-> {Line(p, Blocked(p)) : p \in collections},
         schema |-> {Line(p, "product" \in p.schema) : p \in products}
                    \cup {Line(p, "itemlist" \in p.schema) : p \in collections},
         checklist |-> [schema |-> Passing(products, {p \in products : "product" \in p.schema}),
                        titles |-> <<Cardinality(titles), Cardinality(products)>>,
                        metas |-> Passing(products, {p \in products : ~Empty(p.meta)}),
                        headings |-> Passing(collections, {p \in collections : p.h1s = 1}),
                        indexable |-> Passing(collections, {p \in collections : ~Blocked(p)}),
                        images |-> Passing(products, {p \in products : p.unlabelled <= 0})]]

\* The number of pages each recommendation is about; with none it is not made.
GeoRecommendations(b) ==
    LET P == Range(b.pages)
        about == [schema |-> {p \in P : p.schema = {}}, answers |-> {p \in P : ~AnswerSchema(p)},
                  headings |-> {p \in P : p.h1s # 1}, thin |-> {p \in P : p.words \in 0 .. 299},
                  metas |-> {p \in P : Empty(p.meta)}]
    IN  [r \in {r \in DOMAIN about : about[r] # {}} |-> Cardinality(about[r])]

ReadinessBands == <<<<80, 100>>, <<60, 79>>, <<40, 59>>, <<0, 39>>>>
GeoAeo(b) ==
    LET Ready(i) == AnswerReady(b.pages[i])
        order == Sorted(DOMAIN b.pages, LAMBDA i, j : Ready(i) < Ready(j) \/ (Ready(i) = Ready(j) /\ i < j))
        scores == [n \in DOMAIN order |-> Ready(order[n])]
    IN  [pages |-> {Line(p, AnswerReady(p)) : p \in Range(b.pages)},
         summary |-> Spread(scores, ReadinessBands),
         median |-> IF scores = <<>> THEN NotGiven ELSE Middle(scores),
         answers |-> Cardinality({p \in Range(b.pages) : AnswerSchema(p)}),
         recommendations |-> GeoRecommendations(b)]

\* _cro_findings: a signal, the pages that give it, and those of them where it is severe.
CroSignals(b) ==
    LET P == Range(b.pages)
        floor(p) == IF PageType(p.url) \in {"Product", "Collection"} THEN 120 ELSE 200
        thin == {p \in P : Money(p) /\ p.words # NotGiven /\ p.words < floor(p)}
        money == {p \in P : Money(p)}
        Signal(pages, high) == [pages |-> pages, high |-> pages \cap high]
    IN  [h1 |-> Signal({p \in P : p.h1s = 0}, money),
         thin |-> Signal(thin, {p \in P : p.words < 60 \/ p.h1s = 0}),
         slow |-> Signal({p \in P : p.ms >= 1500}, money),
         alt |-> Signal({p \in P : p.unlabelled > 0}, {}),
         meta |-> Signal({p \in P : Empty(p.meta)}, {})]

\* The rows of a signal, or one for all of them that cites the first page.  The sixth signal, a page
\* without a viewport, is read from a fact that the audit writes under another name: it has no rows.
AggregateSignals(b) ==
    LET signals == CroSignals(b)
        Lines(s) ==
            LET pages == signals[s].pages
                first == CHOOSE p \in pages : \A q \in pages : p.url <= q.url
            IN  IF Cardinality(pages) <= SIGNAL_AGGREGATE_THRESHOLD
                THEN {Line(p, [signal |-> s, high |-> p \in signals[s].high, pages |-> 1]) : p \in pages}
                ELSE {[Line(first, [signal |-> s, high |-> signals[s].high # {}, pages |-> Cardinality(pages)])
                          EXCEPT !.url = 0]}
    IN  UNION {Lines(s) : s \in DOMAIN signals}

CroUx(b) ==
    [findings |-> AggregateSignals(b),
     wins |-> [s \in {s \in DOMAIN CroSignals(b) : CroSignals(b)[s].pages # {}} |-> Cardinality(CroSignals(b)[s].pages)]]

TrackingAudit(b) ==
    LET detected == {p \in Range(b.pages) : p.tracked}
    IN  [coverage |-> {Line(p, p.tracked) : p \in Range(b.pages)},
         summary |-> <<Len(b.pages), Cardinality(detected), Len(b.pages) - Cardinality(detected)>>,
         findings |-> Register(b, {"analytics"})]

GbpLocal(b) ==
    LET P == Range(b.pages)
        Declares(type) == \E p \in P : type \in p.schema
    IN  [signals |-> {Line(p, "postaladdress" \in p.schema) :
                         p \in {p \in P : p.schema \cap LOCAL_SCHEMA # {} \/ "contact" \in Traits[p.url]}},
         name |-> Declares("organization"), address |-> Declares("postaladdress")]

ResponseBands == <<<<0, 199>>, <<200, 499>>, <<500, 999>>, <<1000, 1499>>, <<1500, Endless>>>>
BaselinePerformance(b, c) ==
    LET times == Numbers(b, "ms")
        weights == Numbers(b, "bytes")
        Ends(sorted) == IF sorted = <<>> THEN <<>> ELSE <<Middle(sorted), Last(sorted)>>
    IN  [times |-> Reverse(ByNumber(b, "ms")), weights |-> Reverse(ByNumber(b, "bytes")),
         distribution |-> IF times = <<>> THEN <<>> ELSE Spread(times, ResponseBands),
         slowest |-> Ends(times), heaviest |-> Ends(weights),
         market |-> IF c.status = "available" THEN {c.domain} ELSE {}]

-----------------------------------------------------------------------------
(* The strategy workbooks.                                                 *)

Stage(k) == IF k.stage = "unlabelled" THEN "Unclassified" ELSE k.stage

KeywordUniverse(b, c) ==
    LET K == Range(c.keywords)
        Staged(s) == Where(c.keywords, LAMBDA k : Stage(k) = s)
    IN  [summary |-> [all |-> Len(c.keywords), volume |-> Volume(c.keywords),
                      ranked |-> Cardinality({k \in K : k.position # NotGiven}),
                      mapped |-> Len(c.keywords) - Len(Homeless(c)), unmapped |-> Len(Homeless(c)),
                      clusters |-> Len(c.clusters)],
         keywords |-> K,
         clusters |-> Range(c.clusters),
         urls |-> [u \in {k.landing : k \in K} \ {0} |->
                      <<Len(KeywordCoverage(c, u)), Volume(KeywordCoverage(c, u)), BestPosition(KeywordCoverage(c, u))>>],
         funnel |-> [s \in {"TOFU", "MOFU", "BOFU"} \cup {Stage(k) : k \in {k \in K : Stage(k) = "Unclassified"}} |->
                        <<Len(Staged(s)), Volume(Staged(s)), Cardinality({k \in Range(Staged(s)) : k.landing # 0})>>]]

ContentGapAnalysis(c) ==
    [keywords |-> Homeless(c),
     coverage |-> Range(c.clusters),
     recommendations |-> {[cluster |-> k.id, create |-> k.coverage = "gap", target |-> k.url, evidence |-> k.evidence] :
                             k \in {k \in Range(c.clusters) : k.coverage # "covered"}}]

ContentStrategy(c) ==
    [plan |-> Range(c.assets),
     roadmap |-> {[cluster |-> k.id, url |-> k.url,
                   move |-> CASE k.coverage = "covered" -> "maintain" [] k.coverage = "partial" -> "expand"
                              [] k.coverage = "gap" -> "commission"] : k \in Range(c.clusters)}]

\* The average, rounded to a tenth.
Average(numbers) ==
    IF numbers = <<>> THEN NotGiven ELSE Round(10 * FoldLeft(+, 0, numbers), Len(numbers))

UrlArchitecture(b) ==
    LET P == Range(b.pages)
        Of(type) == Where(b.pages, LAMBDA p : PageType(p.url) = type)
        Depths(pages) == [i \in DOMAIN pages |-> Depth[pages[i].url]]
        Lengths(pages) == LET known == Where(pages, LAMBDA p : p.words # NotGiven)
                          IN  [i \in DOMAIN known |-> known[i].words]
    IN  [urls |-> {Line(p, <<PageType(p.url), Depth[p.url]>>) : p \in P},
         sections |-> [type \in {PageType(p.url) : p \in P} |->
                          [pages |-> Len(Of(type)), depth |-> Average(Depths(Of(type))), words |-> Average(Lengths(Of(type)))]],
         depths |-> [d \in {Depth[p.url] : p \in P} |-> Cardinality({p \in P : Depth[p.url] = d})]]

CannibalizationPlan(b, c) ==
    [signals |-> CannibalisationRows(b, c), resolutions |-> CannibalisationRows(b, c),
     findings |-> Register(b, {"keyword_architecture"})]

-----------------------------------------------------------------------------
(* The plan and the deployment workbooks.                                  *)

\* "Pages/Items" is the count of the first finding that cites the action's first evidence that any
\* finding cites, which need not be the action's own; the weeks of the chart are 1 to 16.
PagesOrItems(b, marks) ==
    LET Citing(e) == Where(b.findings, LAMBDA f : e \in f.evidence)
        cited == {e \in marks : Citing(e) # <<>>}
        first == CHOOSE e \in cited : \A d \in cited : e[2] <= d[2]
    IN  IF cited = {} THEN NotGiven ELSE Head(Citing(first)).count
ActionPlan(b) ==
    [plan |-> {a ++ [items |-> PagesOrItems(b, a.evidence)] : a \in b.actions},
     gantt |-> [a \in b.actions |-> Most(1, Least(16, a.week))]]

\* The titles, the descriptions or the headings of the reviewed pages.
OnPage(c, field) ==
    LET changed == {r \in Range(c.proposals) : field \in r.changes}
    IN  [rows |-> {[url |-> r.url, says |-> IF r \in changed THEN "Proposed" ELSE "No change required",
                    evidence |-> r.evidence] : r \in Range(c.proposals)},
         changed |-> Cardinality(changed), same |-> Len(c.proposals) - Cardinality(changed)]

InternalLinkMap(c) ==
    [links |-> c.links,
     concentration |-> [u \in {l.target : l \in c.links} |-> Cardinality({l \in c.links : l.target = u})]]

\* A page that fails and is no candidate is added without a target; a URL is in the map once.
RedirectMap(b, c) ==
    LET listed == {r.source : r \in c.redirects}
        failing == {p \in Range(b.pages) : p.status >= 400 /\ p.url \notin listed}
    IN  [map |-> c.redirects \cup {[source |-> p.url, target |-> 0] : p \in failing},
         chains |-> {Line(p, 2) : p \in {p \in Range(b.pages) : p.chain > 1}}]

CanonicalCoverage(b) ==
    [s \in {CanonicalState(p) : p \in Range(b.pages)} |-> Cardinality({p \in Range(b.pages) : CanonicalState(p) = s})]

\* Every page that does not name itself: the candidates, and with them the pages that fail.
CanonicalFixes(b, c) ==
    [fixes |-> {[url |-> u, source |-> "candidate"] : u \in c.canonicals}
               \cup {[url |-> p.url, source |-> "crawl"] :
                        p \in {p \in Range(b.pages) : CanonicalState(p) # "Match" /\ p.url \notin c.canonicals}},
     coverage |-> CanonicalCoverage(b)]

QcReport(b, c) ==
    [gates |-> c.qa, sources |-> b.sources, integrity |-> b.integrity]
=============================================================================
