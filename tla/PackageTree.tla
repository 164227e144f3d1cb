------------------------------ MODULE PackageTree ------------------------------
(***************************************************************************)
(* The folder of a package: build_package_for_run (exporters/              *)
(* run_package.py) from the compiled data to the archive, with             *)
(* exporters/paths.py and exporters/manifest.py.  What a file shows is an  *)
(* operator of PackageWorkbooks and PackageReports; here are the files,    *)
(* the rows of the CSV files, and the checks a package must pass.          *)
(*                                                                         *)
(* Left out: the bytes of a file, and with them the checks of its          *)
(* encoding, format and wording and of identical copies; a slug, which     *)
(* follows the number of a brief in its name.                              *)
(***************************************************************************)
EXTENDS PackageReports

VARIABLE folder

tvars == <<cvars, folder>>

\* files: what each file <<folder, stem, suffix>> shows; recount: what the package has of each
\* measure; failures: of the checks; manifest, archive: what is listed and packed.
NoFolder == [files |-> Empties, recount |-> Empties, failures |-> {}, manifest |-> {}, archive |-> {}]

InitTree == InitContents /\ folder = NoFolder

Files == DOMAIN folder.files
\* The files of one folder and format, by their names.
Folder(name, suffix, shows) == [f \in {<<name, stem, suffix>> : stem \in DOMAIN shows} |-> shows[f[2]]]
Add(files) == folder' = [folder EXCEPT !.files = files ++ @]

-----------------------------------------------------------------------------
(* Rendering, in the order of the code.                                    *)

WriteSummary == Turn("written", "workbooks") /\ Add(Folder("root", "md", [AUDIT_RESULTS |-> Summary(book, content)]))

AuditWorkbooks(b, c) ==
    [Technical |-> TechnicalPages(b) ++ TechnicalIssues(b), Content |-> ContentAudit(b, c), Backlink |-> BacklinkAudit(c),
     Competitor |-> CompetitorLandscape(c), GEO_AEO |-> GeoAeo(b), CRO_UX |-> CroUx(b), Tracking |-> TrackingAudit(b),
     Baseline |-> BaselinePerformance(b, c)]
    ++ (IF IsEcommerce(b) THEN [Ecommerce |-> EcommerceAudit(b)] ELSE Empties)
    ++ (IF IsLocal(b) THEN [GBP_Local |-> GbpLocal(b)] ELSE Empties)

StrategyWorkbooks(b, c) ==
    [Keyword_Universe |-> KeywordUniverse(b, c), Content_Gap |-> ContentGapAnalysis(c), Content_Strategy |-> ContentStrategy(c),
     URL_Architecture |-> UrlArchitecture(b), Cannibalization |-> CannibalizationPlan(b, c)]

OnPageWorkbooks(c) ==
    [Title_Tag |-> OnPage(c, "title"), Meta_Description |-> OnPage(c, "meta"), H1_Tags |-> OnPage(c, "h1"),
     Internal_Link_Map |-> InternalLinkMap(c)]
FixWorkbooks(b, c) == [Redirect_Map |-> RedirectMap(b, c), Canonical_Fixes |-> CanonicalFixes(b, c)]
LinkWorkbooks(c) ==
    IF BacklinksAvailable(c) THEN [Referring_Domains |-> c.backlinks, Link_Gap |-> LinkGap(c)] ELSE Empties

Workbooks(b, c) ==
    Folder("audit", "xlsx", AuditWorkbooks(b, c)) ++ Folder("strategy", "xlsx", StrategyWorkbooks(b, c))
    ++ Folder("plan", "xlsx", [Action_Plan |-> ActionPlan(b)]) ++ Folder("onpage", "xlsx", OnPageWorkbooks(c))
    ++ Folder("fixes", "xlsx", FixWorkbooks(b, c)) ++ Folder("qa", "xlsx", [QC_Report |-> QcReport(b, c)])
    ++ Folder("links", "xlsx", LinkWorkbooks(c))

RenderWorkbooks == Turn("workbooks", "documents") /\ Add(Workbooks(book, content))

\* A brief goes by its number.
BriefFiles(b, c) ==
    Folder("content", "docx", [n \in {a.n : a \in Range(c.assets)} |-> BriefDocument(b, c, c.assets[n])])

Documents(b, c) ==
    Folder("audit", "pdf", [Enterprise_SEO |-> ExecutiveReport(b, c)])
    ++ Folder("strategy", "docx", [SEO_Strategy |-> StrategyDocument(b, c), Content_Strategy |-> ContentStrategyDocument(b, c)])
    ++ Folder("strategy", "pdf", [SEO_Strategy |-> StrategyReport(b, c), Content_Strategy |-> ContentStrategyReport(c)])
    ++ Folder("plan", "pdf", [Action_Plan |-> ActionPlanReport(b)])

RenderDocuments == Turn("documents", "deck") /\ Add(Documents(book, content) ++ BriefFiles(book, content))

\* The page in HTML has the points alone.
DeckFiles(b, c) ==
    Folder("deck", "pptx", [Executive_Deck |-> RenderDeck(b, c)]) ++ Folder("deck", "pdf", [Executive_Deck |-> RenderDeckPdf(b, c)])
    ++ Folder("deck", "html", [Executive_Deck |-> Deck(b, c)])

RenderDecks == Turn("deck", "data") /\ Add(DeckFiles(book, content))

PlanCsv == <<"plan", "Action_Plan", "csv">>
RedirectCsv == <<"fixes", "Redirect_Map", "csv">>
QaCsv(stem) == <<"qa", stem, "csv">>

\* How many rows each has: one for every item, whatever it says.
CsvFiles(b, c) ==
    Folder("plan", "csv", [Action_Plan |-> Cardinality(b.actions)])
    ++ Folder("fixes", "csv", [Redirect_Map |-> Cardinality(c.redirects)])
    ++ Folder("qa", "csv",
          [availability_matrix |-> Len(b.sources), generation_ledger |-> Len(c.ledger),
           evidence_index |-> Cardinality(Evidence(b, c)), issue_register |-> Len(b.findings),
           source_coverage |-> Cardinality(DOMAIN b.categories), change_log |-> 1])

\* How many pages are said to be open to a search engine, and how many closed.
Indexability(b) == LET closed == Len(Where(b.pages, Blocked)) IN <<Len(b.pages) - closed, closed>>

\* Mutant of Types: a hybrid business gets the template of a shop only if it is one.
TypesOfOne(business) ==
    [Organization |-> TRUE, LocalBusiness |-> business = "local", Product |-> business = "ecommerce"]

\* A template for each type of schema that the business calls for.
Types(business) ==
    [Organization |-> TRUE, LocalBusiness |-> business \in {"local", "hybrid"}, Product |-> business \in {"ecommerce", "hybrid"}]

SchemaFiles(business) ==
    Folder("schema", "json", [t \in {t \in DOMAIN Types(business) : Types(business)[t]} |-> t])

WriteData ==
    /\ Turn("data", "reconcile")
    /\ Add(CsvFiles(book, content) ++ Folder("fixes", "txt", [Robots_txt |-> Indexability(book)]) ++ SchemaFiles(book.profile))

-----------------------------------------------------------------------------
(* The checks.                                                             *)

\* The measures that are counted again, as compiled and as found in the folder; the other eight of
\* the report are compared with themselves.
Compiled(b, c) ==
    [content |-> Len(c.assets), evidence |-> Cardinality(Evidence(b, c)), finding |-> Len(b.findings),
     action |-> Cardinality(b.actions)]
Found ==
    [content |-> Cardinality({f \in Files : f[1] = "content" /\ f[3] = "docx"}),
     evidence |-> folder.files[QaCsv("evidence_index")], finding |-> folder.files[QaCsv("issue_register")],
     action |-> folder.files[PlanCsv]]

\* The QA report is written with the result, good or bad.
QaReport(b, c, found) ==
    [QA_Report |-> [gates |-> c.qa, release |-> Release(c), found |-> found, limitations |-> Limitations(b, c)]]
QaFiles(b, c, found) == Folder("qa", "json", QaReport(b, c, found)) ++ Folder("qa", "pdf", QaReport(b, c, found))

Reconcile ==
    /\ Turn("reconcile", "prune")
    /\ folder' = [folder EXCEPT
          !.recount = Found,
          !.failures = {<<m>> : m \in {m \in DOMAIN Found : Found[m] # Compiled(book, content)[m]}},
          !.files = QaFiles(book, content, Found) ++ @]

\* Without a provider there is no folder for links.
Prune ==
    /\ Turn("prune", "verify")
    /\ folder' = [folder EXCEPT !.files =
          [f \in {f \in Files : BacklinksAvailable(content) \/ f[1] # "links"} |-> @[f]]]

\* A list of redirects without a row is refused if a page fails; a deck needs its PDF.
Expected(b, c) ==
    IF c.redirects # {} THEN Cardinality(c.redirects)
    ELSE Len(Where(b.pages, LAMBDA p : p.status \notin {200, 301, 302}))
HeaderOnly(b, c) == {f \in {RedirectCsv} : folder.files[f] = 0 /\ Expected(b, c) > 0}
Alone == {f \in Files : f[3] = "pptx" /\ <<f[1], f[2], "pdf">> \notin Files}

Verify ==
    /\ step = "verify"
    /\ folder' = [folder EXCEPT !.failures = @ \cup Alone \cup HeaderOnly(book, content)]
    /\ step' = IF folder'.failures = {} THEN "manifest" ELSE "refused"

\* What a folder's files are approved for before anybody has looked at them.
Withheld == {"fixes", "onpage", "schema", "links", "content"}
ApprovalOf(f) == IF f[1] \in Withheld THEN "withheld" ELSE "approved"

\* The richest sibling of another format it was made from.
DerivativeOf(f, files) ==
    LET siblings == Where(<<"pptx", "docx", "xlsx">>, LAMBDA s : <<f[1], f[2], s>> \in files)
    IN  IF f[3] \notin {"pdf", "html", "csv"} \/ siblings = <<>> THEN <<>> ELSE <<f[1], f[2], Head(siblings)>>

ControlFiles == {<<"qa", "package-manifest", "json">>, <<"qa", "checksums", "sha256">>}
Entries(files) ==
    {[file |-> f, approval |-> ApprovalOf(f), source |-> DerivativeOf(f, files)] : f \in files \ ControlFiles}

\* assert_integrity: all files but the control files, each once, with their sources.
Whole(entries, files) ==
    LET listed == {e.file : e \in entries}
    IN  /\ listed = files \ ControlFiles /\ Cardinality(entries) = Cardinality(listed)
        /\ \A e \in entries : e.source # <<>> => e.source \in listed /\ e.source[3] # e.file[3]

BuildManifest ==
    /\ step = "manifest"
    /\ folder' = [folder EXCEPT !.manifest = Entries(Files),
                                !.failures = IF Whole(Entries(Files), Files) THEN {} ELSE {<<"manifest">>}]
    /\ step' = IF folder'.failures = {} THEN "archive" ELSE "refused"

\* The control files come last: the manifest, and the checksums of all the others.
Archive ==
    /\ Turn("archive", "sealed")
    /\ folder' = [folder EXCEPT !.archive = Files \cup ControlFiles]

-----------------------------------------------------------------------------
Rendering == WriteSummary \/ RenderWorkbooks \/ RenderDocuments \/ RenderDecks \/ WriteData
Checking == Reconcile \/ Prune \/ Verify \/ BuildManifest \/ Archive

NextTree ==
    \/ NextContents /\ UNCHANGED folder
    \/ (Rendering \/ Checking) /\ UNCHANGED <<vars, book, content>>

SpecTree == InitTree /\ [][NextTree]_tvars

-----------------------------------------------------------------------------
(* What the plan promises.                                                 *)

\* DELIVERABLE_BY_RULE_PREFIX: the file an action's deliverable names; for two families a folder.
Technical == <<"audit", "Technical", "xlsx">>
Promised(code) ==
    CASE code \in {"on_page.title", "on_page.title_duplicate", "on_page.title_short"} -> <<"onpage", "Title_Tag", "xlsx">>
      [] code \in {"on_page.meta_description", "on_page.meta_description_duplicate"} -> <<"onpage", "Meta_Description", "xlsx">>
      [] code \in {"on_page.h1", "on_page.h1_duplicate"} -> <<"onpage", "H1_Tags", "xlsx">>
      [] code = "on_page.thin_content" -> <<"content">>
      [] code \in {"on_page.image_alt_missing", "technical.broken_internal_link"} -> Technical
      [] code \in {"technical.canonical_boundary", "technical.canonical_missing"} -> <<"fixes", "Canonical_Fixes", "xlsx">>
      [] code \in {"technical.redirect_chain_length", "technical.http_status"} -> RedirectCsv
      [] code = "technical.duplicate_content" -> <<"audit", "Content", "xlsx">>
      [] code = "technical.orphan_page" -> <<"onpage", "Internal_Link_Map", "xlsx">>
      [] code \in {"keyword_architecture.generic_title", "keyword_architecture.title_cannibalization"} ->
            <<"strategy", "Keyword_Universe", "xlsx">>
      [] code \in {"analytics.tracking_missing", "analytics.tracking_partial"} -> <<"audit", "Tracking", "xlsx">>
      [] code \in {"performance.slow_response", "performance.heavy_page"} -> <<"audit", "Baseline", "xlsx">>
      [] code = "ecommerce.product_schema_missing" -> <<"schema", "Product", "json">>
      [] code \in {"local.localbusiness_schema_missing", "geo_aeo.html_lang_missing", "geo_aeo.organization_schema_missing",
                   "geo_aeo.structured_data_missing"} -> <<"schema">>
      [] OTHER -> <<>>

-----------------------------------------------------------------------------
(* Properties.                                                             *)

\* No package is refused by the checks of its own build (run_package.py:358-517), for whatever
\* business and market; what it seals is listed but for the two control files; and every file an
\* action of its plan names as its deliverable (run_data.py:755) is in it, the folder of the
\* briefs excepted, which is empty if no page qualifies.
PackageVerifies ==
    /\ step # "refused"
    /\ step = "sealed" =>
        /\ folder.archive = {e.file : e \in folder.manifest} \cup ControlFiles
        /\ \A a \in book.actions :
              Promised(a.rule) \in folder.archive \cup {<<f[1]>> : f \in folder.archive} \cup {<<>>, <<"content">>}

\* Every page that a finding cites is a row of the sheet that is for such findings, although the
\* workbooks compute their rows anew from the pages, with thresholds of their own.
SheetsOf(code, files) ==
    LET Of(name, stem) == files[<<name, stem, "xlsx">>]
        technical == Of("audit", "Technical")
        thin == Of("audit", "Content").thin
        Saying(lines, what) == {l.url : l \in {l \in lines : l.says = what}}
        fixes == {f.url : f \in Of("fixes", "Canonical_Fixes").fixes}
    IN  CASE code = "technical.http_status" -> {Urls(technical.errors), {r.source : r \in Of("fixes", "Redirect_Map").map}}
          [] code = "technical.redirect_chain_length" -> {Urls(technical.redirects), Urls(Of("fixes", "Redirect_Map").chains)}
          [] code = "technical.robots_directive" -> {Urls(technical.indexability)}
          [] code = "technical.duplicate_content" -> {Urls(technical.duplicates)}
          [] code = "technical.canonical_boundary" -> {Saying(technical.canonicals, "Mismatch"), fixes}
          [] code = "technical.canonical_missing" -> {Saying(technical.canonicals, "Missing"), fixes}
          [] code = "on_page.title" -> {Urls(technical.titles)}
          [] code = "on_page.title_short" -> {Saying(technical.titles, "Too short")}
          [] code = "on_page.title_duplicate" -> {Saying(thin, "Duplicate title")}
          [] code = "on_page.meta_description" -> {Saying(technical.metas, "Missing")}
          [] code = "on_page.h1" -> {Urls(technical.headings)}
          [] code = "on_page.image_alt_missing" -> {Urls(technical.images)}
          [] code = "on_page.thin_content" -> {Urls(thin)}
          [] code = "geo_aeo.structured_data_missing" -> {Saying(technical.schema, "none")}
          [] code \in {"analytics.tracking_missing", "analytics.tracking_partial"} ->
                {Saying(Of("audit", "Tracking").coverage, FALSE)}
          [] OTHER -> {}

FindingsAreShown ==
    step = "documents" =>
        \A f \in Range(book.findings) :
            \A sheet \in SheetsOf(f.code, folder.files) :
                {p.url : p \in {p \in Range(book.pages) : p.id \in f.evidence}} \subseteq sheet

\* The documents agree: what is divided into bands, stages or phases adds up to the whole; the
\* timeline's phases follow one another; the redirects are the same in the CSV file and the
\* workbook; no canonical is fixed without having been a candidate, unless its page fails; and a
\* score is a number only where the evidence covers 70 per cent.
PartsAddUp(b, c) ==
    LET content_ == ContentAudit(b, c)
        links == AuthorityDistribution(c)
        funnel == KeywordUniverse(b, c).funnel
        timed == BaselinePerformance(b, c)
        phases == PhaseSummary(b)
    IN  /\ SumFunction(content_.depth) + content_.unmeasured = Len(b.pages)
        /\ SumFunction(links.bands) + links.unscored = Len(c.backlinks)
        /\ SumFunction([s \in DOMAIN funnel |-> funnel[s][1]]) = Len(c.keywords)
        /\ SumFunction(timed.distribution) = Len(timed.times)
        /\ SumFunction(GeoAeo(b).summary) = Len(b.pages)
        /\ SumFunction([f \in DOMAIN phases |-> phases[f].actions]) = Cardinality(b.actions)
        /\ \A f, g \in DOMAIN phases : f < g => phases[f].to < phases[g].from

DocumentsAgree ==
    step = "deck" =>
        LET Of(name, stem, suffix) == folder.files[<<name, stem, suffix>>]
            scores == Of("audit", "Enterprise_SEO", "pdf").scores
        IN  /\ PartsAddUp(book, content)
            /\ {r.source : r \in content.redirects} = {r.source : r \in Of("fixes", "Redirect_Map", "xlsx").map}
            /\ \A f \in Of("fixes", "Canonical_Fixes", "xlsx").fixes :
                  f.source = "crawl" => \E p \in Range(book.pages) : p.url = f.url /\ p.status # 200
            /\ \A k \in DOMAIN scores : scores[k] # NotGiven => Coverage[k] >= 70
=============================================================================
