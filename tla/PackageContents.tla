--------------------------- MODULE PackageContents ---------------------------
(***************************************************************************)
(* The rest of compile_run_data (exporters/run_data.py): the market rows   *)
(* that a package shows next to the audit, the changes it proposes, the    *)
(* briefs, the opportunities, the deployment lists, and what of all this a *)
(* language model may write.                                               *)
(*                                                                         *)
(* Left out: texts, the columns nothing is computed from, and the caps     *)
(* that no small instance reaches (300 keywords, 12 keywords of a page, 10 *)
(* or 20 references, 250 links).  Two pages have different paths.          *)
(***************************************************************************)
EXTENDS PackageRows, PackageMarket, Generation

CONSTANTS
    Traits,             \* [URL -> SUBSET STRING]: what _page_type looks for in a path
    PathTokens,         \* [URL -> SUBSET token]
    HeadTokens,         \* [H1 -> SUBSET token]
    Parent,             \* [URL -> URL or 0]: a product's collection, an article's hub
    Ancestors,          \* [URL -> SUBSET URL]: the pages whose path is a prefix
    Standard,           \* titles and descriptions that read as the templates would
    Markets,            \* what the provider may have left
    Settings,           \* PACKAGE_AI_MAX_CALLS and PACKAGE_AI_ENRICHMENT_ENABLED
    ProposalReplies,    \* what the model may answer to the first task
    OutlineReplies,     \* to the second
    SummaryReplies,     \* and to the third
    CONTENT_ASSET_CAP,
    PROPOSAL_CAP,       \* 25
    LINK_TARGETS        \* 6

\* Authority scores are on the scale of Backlink.authority_score, 0 to 100; -1 is none.
ASSUME ContentsAssumption ==
    /\ Traits \in [URL -> SUBSET STRING] /\ Ancestors \in [URL -> SUBSET URL] /\ Parent \in [URL -> URL \cup {0}]
    /\ \A m \in Markets :
          /\ IsFiniteSet(m.keywords)
          /\ m.backlinks \in Seq(Range(m.backlinks)) /\ \A r \in Range(m.backlinks) : r.score \in -1 .. 100
    /\ Settings \subseteq [calls : Int, on : BOOLEAN]
    /\ {CONTENT_ASSET_CAP, PROPOSAL_CAP, LINK_TARGETS} \subseteq Nat

VARIABLE content  \* what this part has compiled

cvars == <<vars, pvars, content>>

Unwritten == [setting |-> [calls |-> 0, on |-> FALSE], keywords |-> <<>>, clusters |-> <<>>, competitors |-> <<>>,
          backlinks |-> <<>>, domain |-> Empties, benchmark |-> Empties, status |-> "unavailable", budget |-> 0, calls |-> 0,
          proposals |-> <<>>, outlines |-> Empties, ledger |-> <<>>, assets |-> <<>>, opportunities |-> <<>>,
          redirects |-> {}, canonicals |-> {}, metadata |-> {}, links |-> {}, qa |-> Empties]

InitContents == InitRows /\ content = Unwritten

-----------------------------------------------------------------------------
(* Pages.                                                                  *)

\* _page_type: the first kind in this order whose mark is in the path.
Kinds == <<<<"product", "Product">>, <<"listing", "Collection">>, <<"article", "Editorial">>,
           <<"about", "Information">>, <<"service", "Utility">>>>
PageType(u) ==
    LET found == Where(Kinds, LAMBDA k : k[1] \in Traits[u])
    IN  IF u = Home THEN "Homepage" ELSE IF found = <<>> THEN "Other" ELSE Head(found)[2]

TypePlace == [Homepage |-> 0, Collection |-> 1, Product |-> 2, Editorial |-> 3, Information |-> 4, Other |-> 5, Utility |-> 5]

\* A page the content may speak of.
Live(p) == p.status = 200 /\ PageType(p.url) # "Utility"

NameTokens(p) == IF ~Empty(p.title) THEN p.title.tokens ELSE IF p.h1s > 0 THEN HeadTokens[p.h1] ELSE {}
LabelTokens(p) == IF Empty(p.title) /\ p.h1s = 0 THEN PathTokens[p.url] ELSE NameTokens(p)
Likeness(tokens, p, ofPath, ofName) == Overlap(tokens, PathTokens[p.url], ofPath, NameTokens(p), ofName)
Akin(p, q) == Rounded(Common(LabelTokens(p), LabelTokens(q)), AllOf(LabelTokens(p), LabelTokens(q)))

\* The first of the pages that are most like the tokens.
BestPage(tokens, pages) ==
    LET fit == [i \in DOMAIN pages |-> IF Live(pages[i]) THEN Likeness(tokens, pages[i], 60, 40) ELSE 0]
        best == {i \in DOMAIN pages :
                    fit[i] > 0 /\ \A j \in DOMAIN pages : fit[j] < fit[i] \/ (fit[j] = fit[i] /\ i <= j)}
        first == CHOOSE i \in best : TRUE
    IN  IF best = {} THEN [score |-> 0, url |-> 0, evidence |-> <<"page", 0>>]
        ELSE [score |-> fit[first], url |-> pages[first].url, evidence |-> pages[first].id]

\* _content_candidates, by type, links and URL.
Candidates(pages) ==
    LET Ahead(p, q) ==
            LET a == TypePlace[PageType(p.url)]
                b == TypePlace[PageType(q.url)]
                m == Cardinality(p.links)
                n == Cardinality(q.links)
            IN  a < b \/ (a = b /\ (m > n \/ (m = n /\ p.url < q.url)))
    IN  Sorted({p \in Range(pages) : Live(p) /\ p.html}, Ahead)

UpTo(seq, n) == SubSeq(seq, 1, Least(n, Len(seq)))

-----------------------------------------------------------------------------
(* The market.                                                             *)

\* Bound: only a build that began after the audit's task, and that no other audit met, goes on.
CompileMarket ==
    /\ Turn("compiled", "proposals") /\ book.calm /\ book.attempt = attempt
    /\ \E m \in Markets, s \in Settings :
          LET keywords == KeywordRows(m.keywords, {p.url : p \in Range(book.pages)})
              Row(seed, n) == ClusterRow(seed, n, BestPage(seed.tokens, book.pages))
              seeds == Seeds(keywords)
              competitors == CompetitorRows(m.competitors)
          IN  content' = [Unwritten EXCEPT
                  !.setting = [s EXCEPT !.on = s.on /\ Keyed], !.budget = Most(0, s.calls - 1),
                  !.keywords = keywords, !.clusters = [n \in DOMAIN seeds |-> Row(seeds[n], n)],
                  !.competitors = competitors, !.backlinks = BacklinkRows(m.backlinks),
                  !.domain = m.domain, !.benchmark = Benchmark(m.domain, competitors), !.status = MarketStatus(m)]

Evidence(b, c) == EvidenceRows(b) \cup ProviderEvidence(c.keywords, c.competitors, c.backlinks, c.status)

\* The keywords whose landing page or whose cluster's page it is.
AssetKeywords(p, c) ==
    LET clustered == UNION {k.phrases : k \in {k \in Range(c.clusters) : k.url = p.url}}
    IN  Where(c.keywords, LAMBDA k : k.landing = p.url \/ k.phrase \in clustered)

-----------------------------------------------------------------------------
(* The proposals for titles, descriptions and headings.                    *)

\* The best one that is not assigned yet, else the best.
KeywordFor(matched, used) ==
    LET free == Where(matched, LAMBDA k : k.phrase \notin used)
    IN  IF free = <<>> THEN Head(matched) ELSE Head(free)

\* The fields for which the template's text is not the page's own.
TemplateChanges(p) ==
    {f \in {"title", "meta", "h1"} :
        CASE f = "title" -> p.title \notin Standard [] f = "meta" -> p.meta \notin Standard [] OTHER -> p.h1s # 1}

\* The row of a page after those before it.
ProposalRow(p, earlier, c) ==
    LET matched == AssetKeywords(p, c)
        used == UNION {r.keywords : r \in Range(earlier)}
        keys == IF matched = <<>> THEN {} ELSE {KeywordFor(matched, used)}
    IN  [url |-> p.url, changes |-> TemplateChanges(p), source |-> "deterministic",
         keywords |-> {k.phrase : k \in keys}, evidence |-> {p.id} \cup {k.evidence : k \in keys}]

Proposals(pages, c) ==
    LET chosen == UpTo(Candidates(pages), PROPOSAL_CAP)
        drafts[n \in 0 .. Len(chosen)] ==
            IF n = 0 THEN <<>> ELSE LET earlier == drafts[n - 1] IN Append(earlier, ProposalRow(chosen[n], earlier, c))
    IN  drafts[Len(chosen)]

\* An item of the answer replaces the three texts of its page's row, by what of it is of a fit
\* length and new; with nothing of the kind it is passed over.  The last one for a page counts.
Revised(row, items) ==
    LET taken == {i \in DOMAIN items : items[i].url = row.url /\ items[i].fit # {}}
        last == CHOOSE i \in taken : \A j \in taken : j <= i
    IN  IF taken = {} THEN row ELSE [row EXCEPT !.changes = items[last].fit, !.source = "llm"]

Statuses == [u \in {p.url : p \in Range(book.pages)} |-> (CHOOSE p \in Range(book.pages) : p.url = u).status]

\* A task: nothing at all for no pages, a row "unavailable" if it is off or beyond the budget.
Skipped(task) == LedgerRow(task, "unavailable", TRUE)
MayCall(c) == c.setting.on /\ c.budget > 0
Called(c, answer) == [c EXCEPT !.budget = @ - 1, !.calls = @ + 1, !.ledger = Append(@, answer.row)]

CompileProposals ==
    /\ Turn("proposals", "outlines")
    /\ LET list == Proposals(book.pages, content)
       IN  IF list = <<>> THEN content' = content
           ELSE IF ~MayCall(content)
           THEN content' = [content EXCEPT !.proposals = list, !.ledger = Append(@, Skipped("proposals"))]
           ELSE \E reply \in ProposalReplies :
                   LET answer == GuardedCall("proposals", reply, {<<"page_facts", p.url>> : p \in Range(list)}, Statuses)
                   IN  content' = [Called(content, answer) EXCEPT
                                      !.proposals = [i \in DOMAIN list |-> Revised(list[i], answer.items)]]

-----------------------------------------------------------------------------
(* The outlines of the briefs.                                             *)

\* A heading is used once; an outline needs three of them.  Those of an outline that falls
\* short stay used.
Outlines(count, items) ==
    LET Section(acc, s) == IF ~s.guided \/ s.heading \in acc.used THEN acc
                           ELSE [used |-> acc.used \cup {s.heading}, kept |-> Append(acc.kept, s.heading)]
        Add(acc, item) ==
            IF item.asset \notin 1 .. count \/ item.asset \in DOMAIN acc.outlines THEN acc
            ELSE LET got == FoldLeft(Section, [used |-> acc.used, kept |-> <<>>], item.sections)
                 IN  [used |-> got.used,
                      outlines |-> IF Len(got.kept) < 3 THEN acc.outlines
                                   ELSE With(acc.outlines, item.asset, got.kept)]
        done[n \in 0 .. Len(items)] == IF n = 0 THEN [used |-> {}, outlines |-> Empties] ELSE Add(done[n - 1], items[n])
    IN  done[Len(items)].outlines

CompileOutlines ==
    /\ Turn("outlines", "assets")
    /\ LET pages == UpTo(Candidates(book.pages), CONTENT_ASSET_CAP)
       IN  IF pages = <<>> THEN content' = content
           ELSE IF ~MayCall(content) THEN content' = [content EXCEPT !.ledger = Append(@, Skipped("outlines"))]
           ELSE \E reply \in OutlineReplies :
                   LET answer == GuardedCall("outlines", reply, {<<"content_asset", n>> : n \in DOMAIN pages}, Statuses)
                   IN  content' = [Called(content, answer) EXCEPT !.outlines = Outlines(Len(pages), answer.items)]

-----------------------------------------------------------------------------
(* The briefs and the opportunities.                                       *)

\* Mutant of LinkTargets: an observed link is taken whatever it leads to.
LinkTargetsObserved(p, pages) == Where(pages, LAMBDA q : q.url # p.url /\ q.url \in p.links)

\* The pages it links to, in order, and after them those most like it.
LinkTargets(p, pages) ==
    LET observed == UpTo(Where(pages, LAMBDA q : q.url # p.url /\ q.url \in p.links /\ Live(q)), LINK_TARGETS)
        others == {q \in Range(pages) \ Range(observed) : q.url # p.url /\ Live(q) /\ Akin(p, q) > 0}
        Nearer(q, r) == Akin(p, q) > Akin(p, r) \/ (Akin(p, q) = Akin(p, r) /\ q.url < r.url)
    IN  observed \o UpTo(Sorted(others, Nearer), LINK_TARGETS - Len(observed))

\* Three claims from the page's row, and one from its best keyword.
AssetRow(n, p, pages, c) ==
    LET matched == AssetKeywords(p, c)
    IN  [n |-> n, url |-> p.url, keywords |-> matched, source |-> IF n \in DOMAIN c.outlines THEN "llm" ELSE "deterministic",
         headings |-> IF n \in DOMAIN c.outlines THEN c.outlines[n] ELSE <<PageType(p.url)>>,
         targets |-> {q.url : q \in Range(LinkTargets(p, pages))},
         claims |-> {p.id} \cup (IF matched = <<>> THEN {} ELSE {Head(matched).evidence}),
         evidence |-> {p.id} \cup {k.evidence : k \in Range(matched)}]

Assets(pages, c) ==
    LET chosen == UpTo(Candidates(pages), CONTENT_ASSET_CAP)
    IN  [n \in DOMAIN chosen |-> AssetRow(n, chosen[n], pages, c)]

\* The clusters, the largest first, and the briefs whose page is none of theirs.
Opportunities(assets, c) ==
    LET Larger(k, l) == OrZero(k.volume) > OrZero(l.volume) \/ (OrZero(k.volume) = OrZero(l.volume) /\ k.id < l.id)
        measured == Sorted(Range(c.clusters), Larger)
        covered == {k.url : k \in Range(c.clusters)} \ {0}
        unmeasured == Where(assets, LAMBDA a : a.url \notin covered)
    IN  [i \in DOMAIN measured |->
            [cluster |-> measured[i].id, url |-> measured[i].url, coverage |-> measured[i].coverage,
             evidence |-> measured[i].evidence]]
        \o [i \in DOMAIN unmeasured |->
            [cluster |-> 0, url |-> unmeasured[i].url, evidence |-> unmeasured[i].evidence,
             coverage |-> IF unmeasured[i].keywords = <<>> THEN "unmeasured" ELSE "partial"]]

-----------------------------------------------------------------------------
(* The deployment lists.                                                   *)

\* The best match of a URL that fails, in ten thousandths, and 0 below the floor.
RedirectTarget(p, pages) ==
    LET Match(q) == Likeness(PathTokens[p.url], q, 55, 35) + (IF q.url \in Ancestors[p.url] THEN 1000 ELSE 0)
        live == {q \in Range(pages) : Live(q)}
        best == Sorted(live, LAMBDA q, r : Match(q) > Match(r) \/ (Match(q) = Match(r) /\ q.url < r.url))[1]
    IN  IF live = {} THEN 0 ELSE IF Match(best) < 3500 THEN 0 ELSE best.url

Redirects(pages) ==
    {[source |-> p.url, target |-> RedirectTarget(p, pages)] : p \in {p \in Range(pages) : p.status \notin {200, 301, 302}}}

Canonicals(pages) == {p.url : p \in {p \in Range(pages) : p.status = 200 /\ p.canonical # "self"}}

\* The pages whose texts are reviewed, with the changes proposed for each.
MetadataReview(pages, proposals) ==
    {[url |-> p.url,
      changes |-> UNION {r.changes : r \in {r \in Range(proposals) : r.url = p.url}}] : p \in {p \in Range(pages) : Live(p)}}

Inbound(u, pages) == Cardinality({p \in Range(pages) : p.url # u /\ u \in p.links})

\* A parent whatever its status; then up to three live pages for each live page of a selling
\* kind that at most one page links to.
InternalLinks(pages) ==
    LET at == {p.url : p \in Range(pages)}
        structural == {[kind |-> "parent", source |-> u, target |-> Parent[u]] :
                          u \in {u \in at : Parent[u] \in at \ {u}}}
        money == {p \in Range(pages) : p.status = 200 /\ Inbound(p.url, pages) <= 1
                                       /\ PageType(p.url) \in {"Homepage", "Collection", "Product"}}
        Stronger(p, q) == Inbound(p.url, pages) > Inbound(q.url, pages)
                          \/ (Inbound(p.url, pages) = Inbound(q.url, pages) /\ p.url < q.url)
        authorities == Sorted({p \in Range(pages) : Live(p)}, Stronger)
        Fits(p, t) == /\ p.url # t.url /\ Parent[p.url] # t.url /\ t.url \notin p.links
                      /\ Inbound(p.url, pages) > 0 \/ Akin(p, t) > 0
    IN  structural \cup UNION {
            {[kind |-> "authority", source |-> p.url, target |-> t.url] :
                p \in Range(UpTo(Where(authorities, LAMBDA p : Fits(p, t)), 3))} : t \in money}

-----------------------------------------------------------------------------
(* The package's own gates.                                                *)

Cites(cited, known) == cited # {} /\ cited \subseteq known
Lineage(b, c) ==
    {r.evidence : r \in Range(b.findings) \cup b.actions \cup Range(c.clusters) \cup Range(c.proposals) \cup Range(c.opportunities)}
    \cup {{r.evidence} : r \in Range(c.keywords) \cup Range(c.competitors)}

Verdict(holds) == IF holds THEN "PASS" ELSE "FAIL"
Available(holds) == IF holds THEN "PASS" ELSE "UNAVAILABLE"

\* QA-02, QA-05 and QA-06 hold by construction, QA-08 is never run.
CompileQa(b, c) ==
    [boundary |-> Verdict(\A p \in Range(b.pages) : p.canonical # "outside"),
     lineage |-> Verdict(\A s \in Lineage(b, c) : Cites(s, Evidence(b, c))),
     claims |-> Verdict(\A a \in Range(c.assets) : Cites(a.claims, Evidence(b, c))),
     private |-> Available(\E s \in Range(b.sources) : s.available /\ s.kind \in Range(PrivateSources)),
     volume |-> Available(c.keywords # <<>> /\ 2 * Cardinality({k \in Range(c.keywords) : k.volume # NotGiven}) >= Len(c.keywords)),
     integrity |-> CASE b.integrity = "clean" -> "PASS" [] b.integrity = "degraded" -> "UNAVAILABLE" [] OTHER -> "FAIL",
     proposals |-> Available(c.metadata # {} /\ 2 * Cardinality({r \in c.metadata : r.changes # {}}) >= Cardinality(c.metadata)),
     competitors |-> Available(c.competitors # <<>>)]

CompileAssets ==
    /\ Turn("assets", "enrich")
    /\ LET assets == Assets(book.pages, content)
           c == [content EXCEPT !.assets = assets, !.opportunities = Opportunities(assets, content),
                                !.redirects = Redirects(book.pages), !.canonicals = Canonicals(book.pages),
                                !.metadata = MetadataReview(book.pages, content.proposals),
                                !.links = InternalLinks(book.pages)]
       IN  content' = [c EXCEPT !.qa = CompileQa(book, c)]

PostureFacts == {<<"run_evidence_posture", 0>>, <<"aggregated_findings", 0>>, <<"approved_action_sequence", 0>>,
                 <<"explicit_limitations", 0>>}

\* The summary asks the model whatever is left of the budget.
Enrich ==
    /\ Turn("enrich", "written")
    /\ IF ~content.setting.on THEN content' = [content EXCEPT !.ledger = Append(@, Skipped("summary"))]
       ELSE \E reply \in SummaryReplies :
               content' = [Called(content, GuardedCall("summary", reply, PostureFacts, Statuses)) EXCEPT !.budget = content.budget]

-----------------------------------------------------------------------------
Compiling == CompileMarket \/ CompileProposals \/ CompileOutlines \/ CompileAssets \/ Enrich

NextContents ==
    \/ NextRows /\ UNCHANGED content
    \/ Compiling /\ UNCHANGED <<vars, book>>

SpecContents == InitContents /\ [][NextContents]_cvars

-----------------------------------------------------------------------------
(* Properties.                                                             *)

\* Whatever is audited while the package reads, all that its findings and actions cite is a row of
\* its evidence, and they cite something; in the end this holds for every keyword, cluster,
\* competitor, proposal, opportunity and claim of a brief (QA-03 and QA-04, run_data.py:3189).
LineageResolves ==
    /\ step \notin RowStep \cup {"raised"} =>
          \A r \in Range(book.findings) \cup book.actions : Cites(r.evidence, EvidenceRows(book))
    /\ step = "written" =>
          \A s \in Lineage(book, content) \cup {a.claims : a \in Range(content.assets)} : Cites(s, Evidence(book, content))

\* The lists of a package agree: a URL that it asks to redirect away is neither where another one
\* is redirected to, nor rewritten by a brief, nor linked to by a brief or by an authority, nor
\* the page of a cluster or of a proposal.  (A structural parent link may lead to one.)
AdviceAgrees ==
    step = "written" =>
        LET briefs == Range(content.assets)
            authority == {l \in content.links : l.kind = "authority"}
            kept == {r.target : r \in content.redirects} \cup {a.url : a \in briefs} \cup (UNION {a.targets : a \in briefs})
                    \cup {l.source : l \in authority} \cup {l.target : l \in authority}
                    \cup {k.url : k \in Range(content.clusters)} \cup {r.url : r \in Range(content.proposals)}
        IN  kept \cap {r.source : r \in content.redirects} = {}

\* Whatever the model answers, the ledger has one row for each task that had something to do,
\* nothing it wrote is in the package unless the row of its task is available and gives no reason
\* against it, and it was not called more often than the settings allow, the call for the summary
\* excepted (run_data.py:2396).
LedgerTells ==
    step = "written" =>
        LET Rows(task) == {i \in DOMAIN content.ledger : content.ledger[i].task = task}
            Used(task) == \A i \in Rows(task) : content.ledger[i].status = "available" /\ ~content.ledger[i].reason
        IN  /\ Cardinality(Rows("summary")) = 1
            /\ Cardinality(Rows("proposals")) = IF content.proposals = <<>> THEN 0 ELSE 1
            /\ Cardinality(Rows("outlines")) = IF content.assets = <<>> THEN 0 ELSE 1
            /\ (\E r \in Range(content.proposals) : r.source = "llm") => Used("proposals")
            /\ (\E a \in Range(content.assets) : a.source = "llm") => Used("outlines")
            /\ content.calls <= Most(1, content.setting.calls)
=============================================================================
