------------------------------ MODULE SiteRules ------------------------------
(***************************************************************************)
(* The rules of audit_engine/rules.py as operators: what each of them      *)
(* makes of a set of crawled pages, and what scoring.py makes of that.     *)
(*                                                                         *)
(* A page is a record of the facts the rules look at; lengths, counts and  *)
(* times are numbers, -1 (a hash: 0) where there is none, so that thresholds  *)
(* are the code's own.  A title is a record of its text, length, number of *)
(* words and keywords; an empty text is a record of length 0.  `at` is the *)
(* page's place in the crawl.                                              *)
(* A hit (class Finding of the engine) is a record: `lead` is the first of *)
(* its URLs, num / den its affected_share.  Texts, confidence (always 1)   *)
(* and the cap of 50 URLs on a hit are left out.                           *)
(***************************************************************************)
EXTENDS Lists, Integers, FiniteSets, FiniteSetsExt, Functions, Sequences, TLC

CONSTANTS
    URL,      \* the normalized URLs of the site, numbered: 1, 2, ...
    Home,     \* the URL with an empty path
    Depth,    \* [URL -> Nat]: path segments
    Utility,  \* URLs with a segment of _UTILITY_SEGMENTS
    Product,  \* URLs with "/product" in their path
    Untidy,   \* paths with upper case, an underscore, or longer than 115
    Plain     \* URLs with the http:// scheme

ASSUME SiteAssumption ==
    /\ URL \subseteq Nat \ {0} /\ IsFiniteSet(URL)
    /\ Home \in URL /\ Depth \in [URL -> Nat]
    /\ Utility \cup Product \cup Untidy \cup Plain \subseteq URL

Severity == {"critical", "high", "medium", "low", "info"}
Rank == [critical |-> 0, high |-> 1, medium |-> 2, low |-> 3, info |-> 4]
SeverityPenalties == [critical |-> 30, high |-> 18, medium |-> 8, low |-> 3, info |-> 0]

Hit(rule, category, severity, risk, lead, urls, num, den) ==
    [rule |-> rule, category |-> category, severity |-> severity, risk |-> risk,
     lead |-> lead, urls |-> urls, num |-> num, den |-> den]

Least(a, b) == IF a <= b THEN a ELSE b
Most(a, b) == IF a >= b THEN a ELSE b
Urls(P) == {p.url : p \in P}

Earliest(P) == CHOOSE p \in P : \A q \in P : p.at <= q.at

\* One hit for every page of P, and one hit for all of them together.
EachPage(pages, P, rule, category, severity, risk) ==
    {Hit(rule, category, severity, risk, p.url, {p.url}, 1, Most(1, Cardinality(pages))) : p \in P}
Together(pages, P, count, rule, category, severity) ==
    IF P = {} THEN {}
    ELSE LET total == Most(1, Cardinality(pages))
         IN {Hit(rule, category, severity, "low", Earliest(P).url, Urls(P), Least(count, total), total)}

Success(p) == p.status \in 200..299
SuccessHtml(p) == Success(p) /\ p.html
Empty(text) == text.length = 0

\* Pages that share the value of a field with another page.
Shared(P, field) == {p \in P : \E q \in P : q.url # p.url /\ q[field] = p[field]}

-----------------------------------------------------------------------------
(* The rules, in the order of DEFAULT_RULES.                               *)

HttpHits(pages) ==
    EachPage(pages, {p \in pages : p.status >= 500}, "technical.http_status", "technical", "critical", "low")
    \cup EachPage(pages, {p \in pages : p.status \in 400..499}, "technical.http_status", "technical", "high", "low")

TitleHits(pages) ==
    EachPage(pages, {p \in pages : Success(p) /\ Empty(p.title)}, "on_page.title", "on_page", "high", "low")
    \cup EachPage(pages, {p \in pages : Success(p) /\ p.title.length > 65}, "on_page.title", "on_page", "low", "low")

MetaHits(pages) ==
    EachPage(pages, {p \in pages : Success(p) /\ Empty(p.meta)}, "on_page.meta_description", "on_page", "medium", "low")

H1Hits(pages) ==
    EachPage(pages, {p \in pages : Success(p) /\ p.h1s = 0}, "on_page.h1", "on_page", "high", "low")
    \cup EachPage(pages, {p \in pages : Success(p) /\ p.h1s > 1}, "on_page.h1", "on_page", "medium", "low")

\* CanonicalBoundaryRule to CanonicalMissingRule.
DirectiveHits(pages) ==
    EachPage(pages, {p \in pages : p.canonical = "outside"},
             "technical.canonical_boundary", "technical", "high", "high")
    \cup EachPage(pages, {p \in pages : p.robots \cap {"noindex", "none"} # {}},
                  "technical.robots_directive", "technical", "low", "moderate")
    \cup EachPage(pages, {p \in pages : p.chain > 2}, "technical.redirect_chain_length", "technical", "medium", "low")
    \cup EachPage(pages, {p \in pages : SuccessHtml(p) /\ p.canonical = "none"},
                  "technical.canonical_missing", "technical", "low", "low")

\* One hit for all the pages of P that share a value.
SharedHit(pages, P, field, rule, category, severity) ==
    LET S == Shared(P, field) IN Together(pages, S, Cardinality(S), rule, category, severity)

BodyHits(pages) ==
    SharedHit(pages, {p \in pages : Success(p) /\ p.hash # 0}, "hash",
              "technical.duplicate_content", "technical", "medium")

InsecureHits(pages) ==
    EachPage(pages, {p \in pages : p.links \cap Plain # {}},
             "technical.insecure_internal_links", "technical", "medium", "low")

\* The pages at either end of a broken link; the share counts the targets only.
BrokenLinkHits(pages) ==
    LET targets == {t \in pages : t.status >= 400 /\ \E p \in pages : t.url \in p.links}
        sources == {p \in pages : \E t \in targets : t.url \in p.links}
    IN  {[h EXCEPT !.lead = Earliest(sources).url] :
            h \in Together(pages, sources \cup targets, Cardinality(targets),
                           "technical.broken_internal_link", "technical", "high")}

\* URLHygieneRule and DeepPageRule.
PathHits(pages) ==
    EachPage(pages, {p \in pages : p.url \in Untidy}, "technical.url_hygiene", "technical", "low", "low")
    \cup EachPage(pages, {p \in pages : Depth[p.url] > 4}, "technical.deep_page", "technical", "low", "low")

OrphanHits(pages) ==
    LET linked == UNION {p.links \ {p.url} : p \in pages}
        S == {p \in pages : SuccessHtml(p) /\ p.url # Home /\ p.url \notin linked}
    IN  Together(pages, S, Cardinality(S), "technical.orphan_page", "technical", "medium")

\* _DuplicateFieldRule and its three subclasses.
FieldHits(pages) ==
    LET ok == {p \in pages : Success(p)}
    IN  SharedHit(pages, {p \in ok : ~Empty(p.title)}, "title",
                  "on_page.title_duplicate", "on_page", "medium")
        \cup SharedHit(pages, {p \in ok : ~Empty(p.meta)}, "meta",
                       "on_page.meta_description_duplicate", "on_page", "medium")
        \cup SharedHit(pages, {p \in ok : p.h1s > 0}, "h1", "on_page.h1_duplicate", "on_page", "low")

\* TitleShortRule to H2MissingRule.
DocumentHits(pages) ==
    EachPage(pages, {p \in pages : Success(p) /\ p.title.length \in 1..14},
             "on_page.title_short", "on_page", "low", "low")
    \cup EachPage(pages, {p \in pages : SuccessHtml(p) /\ p.url \notin Utility /\ p.words \in 0..199},
                  "on_page.thin_content", "on_page", "medium", "low")
    \cup EachPage(pages, {p \in pages : SuccessHtml(p) /\ p.unlabelled > 0},
                  "on_page.image_alt_missing", "on_page", "low", "low")
    \cup EachPage(pages, {p \in pages : SuccessHtml(p) /\ p.words > 600 /\ ~p.h2},
                  "on_page.h2_missing", "on_page", "low", "low")

\* SlowResponseRule and HeavyPageRule.
SpeedHits(pages) ==
    EachPage(pages, {p \in pages : p.ms > 2500}, "performance.slow_response", "performance", "high", "low")
    \cup EachPage(pages, {p \in pages : p.ms \in 1201..2500}, "performance.slow_response", "performance", "medium", "low")
    \cup EachPage(pages, {p \in pages : p.bytes > 1500000}, "performance.heavy_page", "performance", "low", "low")

Html(pages) == {p \in pages : SuccessHtml(p)}

TrackingHits(pages) ==
    LET S == {p \in Html(pages) : ~p.tracked}
        s == 10 * Cardinality(S)
        n == Cardinality(Html(pages))
    IN  IF s >= 8 * n
        THEN Together(pages, S, Cardinality(S), "analytics.tracking_missing", "analytics", "high")
        ELSE IF s >= 2 * n
        THEN Together(pages, S, Cardinality(S), "analytics.tracking_partial", "analytics", "medium")
        ELSE {}

\* A hit for the pages of S, if they are half of P or more.
HalfHit(pages, P, S, rule, category, severity) ==
    IF 2 * Cardinality(S) >= Cardinality(P) THEN Together(pages, S, Cardinality(S), rule, category, severity) ELSE {}

\* The page that stands for the whole site: the shallowest, then the first by name.
First(P) ==
    CHOOSE p \in P : \A q \in P :
        Depth[p.url] < Depth[q.url] \/ (Depth[p.url] = Depth[q.url] /\ p.url <= q.url)

\* One hit for a site none of whose pages declares one of the types.
NoneDeclares(pages, types, rule, category) ==
    IF Html(pages) = {} \/ \E p \in Html(pages) : p.schema \cap types # {} THEN {}
    ELSE Together(pages, {First(Html(pages))}, 1, rule, category, "medium")

\* StructuredDataMissingRule to HTMLLangMissingRule.
StructuredHits(pages) ==
    LET mute == {p \in Html(pages) : ~p.lang}
    IN  HalfHit(pages, Html(pages), {p \in Html(pages) : p.schema = {}},
                "geo_aeo.structured_data_missing", "geo_aeo", "medium")
        \cup NoneDeclares(pages, {"organization", "localbusiness", "website"},
                          "geo_aeo.organization_schema_missing", "geo_aeo")
        \cup Together(pages, mute, Cardinality(mute), "geo_aeo.html_lang_missing", "geo_aeo", "low")

\* Jaccard >= 0.8 on the keywords.  The rule joins pages by union-find; a page is in a
\* cluster of two or more exactly if one other page is like it.
Alike(p, q) ==
    5 * Cardinality(p.title.tokens \cap q.title.tokens)
        >= 4 * Cardinality(p.title.tokens \cup q.title.tokens)
CannibalHits(pages) ==
    LET C == {p \in pages : Success(p) /\ p.title.tokens # {}}
        S == {p \in C : \E q \in C : q.url # p.url /\ Alike(p, q)}
    IN  Together(pages, S, Cardinality(S), "keyword_architecture.title_cannibalization",
                 "keyword_architecture", "medium")

GenericHits(pages) ==
    EachPage(pages, {p \in pages : Success(p) /\ p.title.words \in 1..2},
             "keyword_architecture.generic_title", "keyword_architecture", "low", "low")

ProductHits(pages) ==
    LET goods == {p \in Html(pages) : p.url \in Product}
    IN  HalfHit(pages, goods, {p \in goods : "product" \notin p.schema},
                "ecommerce.product_schema_missing", "ecommerce", "high")

LocalHits(pages) == NoneDeclares(pages, {"localbusiness"}, "local.localbusiness_schema_missing", "local")

(* The crawl's own trouble, as a caveat: no evidence, severity info. *)
CrawlStatus(fetched, challenged) ==
    LET total == fetched + challenged
    IN  IF 100 * challenged > 30 * total THEN "blocked"
        ELSE IF 100 * challenged > 5 * total THEN "degraded"
        ELSE "clean"

DegradedHits(integrity) ==
    IF CrawlStatus(integrity.fetched, integrity.challenged) = "clean" THEN {}
    ELSE {Hit("technical.crawl_degraded", "technical", "info", "low", Head(integrity.quarantined),
              Range(integrity.quarantined), integrity.challenged, integrity.fetched + integrity.challenged)}

EnabledModules(profile) ==
    {"technical", "on_page", "performance", "analytics", "keyword_architecture", "authority", "cro", "geo_aeo"}
    \cup (CASE profile = "local" -> {"local"}
            [] profile = "ecommerce" -> {"ecommerce"}
            [] profile = "hybrid" -> {"local", "ecommerce"}
            [] OTHER -> {})

\* run_rules: quarantined URLs are removed once, before every rule.
EvaluablePages(pages, integrity) == {p \in pages : p.url \notin Range(integrity.quarantined)}
PageHits(pages) ==
    UNION {HttpHits(pages), TitleHits(pages), MetaHits(pages), H1Hits(pages), DirectiveHits(pages),
           BodyHits(pages), InsecureHits(pages), BrokenLinkHits(pages), PathHits(pages),
           OrphanHits(pages), FieldHits(pages), DocumentHits(pages), SpeedHits(pages),
           TrackingHits(pages), StructuredHits(pages), CannibalHits(pages), GenericHits(pages),
           ProductHits(pages), LocalHits(pages)}
RunRules(pages, integrity, profile) ==
    {h \in PageHits(EvaluablePages(pages, integrity)) \cup DegradedHits(integrity) :
        h.category \in EnabledModules(profile)}

-----------------------------------------------------------------------------
(* Scores.  Every share is a multiple of 1 / total, so a score is counted  *)
(* in units of 1 / total of a point; rounding to two places is left out.   *)

\* CATEGORY_WEIGHTS, in tenths of a per cent.
Weights(profile) ==
    LET base == [technical |-> 200, on_page |-> 150, performance |-> 100, analytics |-> 100,
                 keyword_architecture |-> 100, authority |-> 100, cro |-> 100, geo_aeo |-> 50]
    IN  CASE profile = "local" -> [base EXCEPT !.cro = 50] ++ [local |-> 150]
          [] profile = "ecommerce" -> base ++ [ecommerce |-> 100]
          [] profile = "hybrid" -> [base EXCEPT !.technical = 150] ++ [local |-> 75, ecommerce |-> 75]
          [] OTHER -> [base EXCEPT !.technical = 250, !.on_page = 200, !.cro = 50,
                                   !.keyword_architecture = 150]

\* CATEGORY_COVERAGE, in per cent: what a crawl alone can see of a category.
Coverage ==
    [technical |-> 100, on_page |-> 100, performance |-> 50, analytics |-> 70, geo_aeo |-> 80,
     keyword_architecture |-> 50, ecommerce |-> 70, local |-> 60, cro |-> 0, authority |-> 0]

CategoryScore(hits, category, total) ==
    LET selected == {h \in hits : h.category = category}
        penalty == MapThenSumSet(LAMBDA h : SeverityPenalties[h.severity] * h.num, selected)
    IN  Most(0, 100 * total - penalty)

WeightedCoverage(profile) ==
    MapThenSumSet(LAMBDA c : Weights(profile)[c] * Coverage[c], DOMAIN Weights(profile))

\* The overall score is withheld below the publication threshold of 70 per cent.
Scorecard(hits, profile, total) ==
    LET w == Weights(profile)
        scores == [c \in DOMAIN w |-> CategoryScore(hits, c, total)]
    IN  [categories |-> scores,
         overall |-> IF WeightedCoverage(profile) >= 70000
                     THEN MapThenSumSet(LAMBDA c : w[c] * scores[c], DOMAIN w) ELSE -1]
=============================================================================
