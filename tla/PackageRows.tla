----------------------------- MODULE PackageRows -----------------------------
(***************************************************************************)
(* What a package says about an audit: the part of compile_run_data        *)
(* (exporters/run_data.py) that reads the rows of SiteAudit.  It reads     *)
(* them query by query, in no transaction and under no lock, while a scan  *)
(* may fail the run and a message that comes again may audit it anew.      *)
(* The provider's rows and the content are in PackageContents.             *)
(***************************************************************************)
EXTENDS SiteAudit

CONSTANTS
    Connected,   \* the project's connections: [provider -> available?]
    Imported,    \* the types of its accepted imports, in order
    Keyed        \* OPENAI_API_KEY is set

ASSUME RowsAssumption ==
    /\ \A p \in DOMAIN Connected : Connected[p] \in BOOLEAN
    /\ Imported \in Seq(STRING) /\ Keyed \in BOOLEAN

VARIABLES
    step,   \* the query compile_run_data makes next; "off" without a build
    book    \* what it has compiled

pvars == <<step, book>>

Blank == [attempt |-> 0, calm |-> FALSE, profile |-> "", marks |-> {}, pages |-> <<>>, sources |-> <<>>,
          findings |-> <<>>, categories |-> Empties, actions |-> {}, integrity |-> "clean"]

InitRows == Init /\ step = "off" /\ book = Blank

Turn(from, to) == step = from /\ step' = to

\* Rows have a key of their own: a retry writes new ones.
Key(x) == <<x, attempt>>

\* A build begins in review.  Whether the audit's task is over by then is not looked at.  The project's
\* business type is taken to be the one the audit has read.
Build ==
    /\ Turn("off", "evidence") /\ state = "GATE_1_REVIEW"
    /\ book' = [Blank EXCEPT !.attempt = attempt, !.calm = (pc = "idle"), !.profile = profile]

-----------------------------------------------------------------------------
(* Pages, sources and evidence.                                            *)

ReadEvidence ==
    /\ Turn("evidence", "pages")
    /\ book' = [book EXCEPT !.marks = {Key(u) : u \in evidence}]

PageId(i) == <<"page", i>>

\* A page behind a challenge has none of the facts of a page; elsewhere no word count counts as 0.
NoFacts == [words |-> -1, unlabelled |-> -1, bytes |-> -1, ms |-> -1, chain |-> 0, robots |-> {}, schema |-> {},
            tracked |-> FALSE]
Facts(p) == IF p.challenge THEN NoFacts ELSE [words |-> Most(0, p.words)]

\* Every row of the run, ordered by URL, the quarantined ones included.
PageRows ==
    LET urls == Sorted(DOMAIN rows, LAMBDA u, v : u < v)
        Row(i, p) == [id |-> PageId(i), key |-> Key(p.url), wall |-> p.challenge] ++ (Facts(p) ++ p)
    IN  [i \in DOMAIN urls |-> Row(i, rows[urls[i]])]

\* Without a page it raises.
ReadPages ==
    /\ step = "pages"
    /\ step' = IF DOMAIN rows = {} THEN "raised" ELSE "sources"
    /\ book' = [book EXCEPT !.pages = PageRows]

\* evidence_display: the evidence of a page goes by the page's number.
Display(marks, pages) ==
    [k \in marks \cap {pages[i].key : i \in DOMAIN pages} |->
        PageId(CHOOSE i \in DOMAIN pages : pages[i].key = k)]

PrivateSources == <<"gsc", "ga4", "semrush", "pagespeed">>

\* Snapshots, imports, connections, what is missing, and the model.
SourceRows ==
    LET Source(kind, base, ok) == [kind |-> kind, base |-> base, available |-> ok]
        crawl == IF result = <<>> THEN <<>> ELSE <<Source("crawl", <<"crawl", 0>>, Fetched(result) # <<>>)>>
        imports == [i \in DOMAIN Imported |-> Source(Imported[i], <<"import", i>>, TRUE)]
        connections == [i \in 1 .. Len(Where(PrivateSources, LAMBDA p : p \in DOMAIN Connected)) |->
                          LET p == Where(PrivateSources, LAMBDA q : q \in DOMAIN Connected)[i]
                          IN  Source(p, <<p, 0>>, Connected[p])]
        missing == Where(PrivateSources, LAMBDA p : p \notin DOMAIN Connected \cup Range(Imported))
    IN  crawl \o imports \o connections \o [i \in DOMAIN missing |-> Source(missing[i], <<missing[i], 0>>, FALSE)]
        \o <<Source("openai", <<"openai", 0>>, Keyed)>>

\* _unique_id: the second source of a base gets the number 2.
SourceId(sources, i) ==
    <<"source", sources[i].base, Cardinality({j \in 1 .. i : sources[j].base = sources[i].base})>>

ReadSources ==
    /\ Turn("sources", "findings")
    /\ book' = [book EXCEPT !.sources = SourceRows]

Unavailable(sources) == {SourceId(sources, i) : i \in {i \in DOMAIN sources : ~sources[i].available}}
EvidenceRows(b) == {PageId(i) : i \in DOMAIN b.pages} \cup Unavailable(b.sources)

-----------------------------------------------------------------------------
(* Findings, scores and the plan.                                          *)

Default(pages) == {PageId(1)}

\* Mutant of Cited: whatever evidence the finding has, by the number of its URL.
CitedByUrl(b, f) == {PageId(u) : u \in f.evidence}

\* The evidence of the finding that the package shows, else its page, else the first page.
Cited(b, f) ==
    LET shown == Display(b.marks, b.pages)
        linked == {shown[Key(u)] : u \in {u \in f.evidence : Key(u) \in DOMAIN shown}}
        own == {PageId(i) : i \in {i \in DOMAIN b.pages : b.pages[i].key = Key(f.page)}}
    IN  IF linked # {} THEN linked ELSE IF own # {} THEN own ELSE Default(b.pages)

\* The priority is that of the finding's action, if it has one yet.
FallbackTier == [critical |-> "P1", high |-> "P1", medium |-> "P2", low |-> "P3", info |-> "P4"]
FindingRow(b, code) ==
    LET f == findings[code]
        planned == {a \in actions : a.linked /\ a.code = code}
    IN  [code |-> code, key |-> Key(code), category |-> f.category, severity |-> f.severity, count |-> f.count,
         evidence |-> Cited(b, f),
         tier |-> IF planned = {} THEN FallbackTier[f.severity] ELSE (CHOOSE a \in planned : TRUE).tier]

\* The worst first, then the widest, then by title (here: by code).
Before(f, g) ==
    LET Place(code) == CHOOSE i \in DOMAIN RuleIds : RuleIds[i] = code
    IN  \/ Rank[f.severity] < Rank[g.severity]
        \/ /\ f.severity = g.severity
           /\ f.count > g.count \/ (f.count = g.count /\ Place(f.code) < Place(g.code))

ReadFindings ==
    /\ Turn("findings", "scorecard")
    /\ LET F == {FindingRow(book, code) : code \in DOMAIN findings}
       IN  book' = [book EXCEPT !.findings = Sorted(F, Before)]

\* A score is published with a coverage of at least 70 per cent; without a scorecard, and for a
\* category the audit did not enable, there is none.
CategoryRow(b, c) ==
    LET known == scorecard # None /\ c \in DOMAIN scorecard.categories
    IN  [published |-> known /\ Coverage[c] >= 70,
         score |-> IF known THEN scorecard.categories[c] ELSE -1,
         evidence |-> UNION {f.evidence : f \in {f \in Range(b.findings) : f.category = c}}]

ReadScorecard ==
    /\ Turn("scorecard", "actions")
    /\ book' = [book EXCEPT !.categories = [c \in DOMAIN Weights(book.profile) |-> CategoryRow(book, c)]]

\* An action shows the evidence of its finding, its category and what its rule is to deliver; without
\* one, the first page and none of the two.
Phase(week) == IF week <= 2 THEN 1 ELSE IF week <= 6 THEN 2 ELSE IF week <= 12 THEN 3 ELSE 4
ActionRow(b, a) ==
    LET of == {f \in Range(b.findings) : a.linked /\ f.key = Key(a.code)}
    IN  [code |-> a.code, rule |-> IF a.linked THEN a.code ELSE "", attempt |-> a.attempt,
         week |-> a.week, phase |-> Phase(a.week), tier |-> a.tier, ready |-> a.week = 1,
         category |-> IF a.linked THEN findings[a.code].category ELSE "General",
         evidence |-> IF of = {} THEN Default(b.pages) ELSE UNION {f.evidence : f \in of}]

ReadActions ==
    /\ Turn("actions", "integrity")
    /\ book' = [book EXCEPT !.actions = {ActionRow(book, a) : a \in actions}]

-----------------------------------------------------------------------------
(* The crawl's integrity.                                                  *)

\* SourceSnapshot.metadata of the crawl, as _collect has written it.
Metadata ==
    IF integrity = None THEN Empties
    ELSE [challenged_count |-> Len(Challenged(result)), crawl_integrity |-> integrity]

FieldOf(key, other, default) ==
    IF key \in DOMAIN Metadata THEN Metadata[key] ELSE IF other \in DOMAIN Metadata THEN Metadata[other] ELSE default

\* _compile_crawl_integrity.  It looks for the counts and the URLs at the top level.
CrawlIntegrity(b) ==
    LET challenged == FieldOf("challenged_pages", "challenged", 0)
        quarantine == FieldOf("quarantined_urls", "quarantined", <<>>)
    IN  CASE 2 * challenged >= Len(b.pages) /\ challenged > 0 -> "blocked"
          [] challenged > 0 \/ quarantine # <<>> -> "degraded"
          [] OTHER -> "clean"

ReadIntegrity ==
    /\ Turn("integrity", "compiled")
    /\ book' = [book EXCEPT !.integrity = CrawlIntegrity(book)]

-----------------------------------------------------------------------------
Reading == ReadEvidence \/ ReadPages \/ ReadSources \/ ReadFindings \/ ReadScorecard \/ ReadActions \/ ReadIntegrity

RowStep == {"off", "evidence", "pages", "sources", "findings", "scorecard", "actions", "integrity"}

\* Bound: what the audit does after the package is compiled is not looked at.
NextRows ==
    \/ step \in RowStep /\ Next /\ UNCHANGED pvars
    \/ (Build \/ Reading) /\ UNCHANGED vars

SpecRows == InitRows /\ [][NextRows]_<<vars, pvars>>

-----------------------------------------------------------------------------
(* Properties.                                                             *)

\* A build that began after the audit's task, and that no new audit met, publishes a score
\* below the maximum exactly for the categories it shows a finding of.
ScoresMatchFindings ==
    step \notin RowStep /\ step # "raised" /\ book.calm /\ book.attempt = attempt =>
        \A c \in DOMAIN book.categories :
            book.categories[c].published =>
                (book.categories[c].score < 100 * Most(1, Cardinality({p \in Range(book.pages) : ~p.wall}))
                    <=> \E f \in Range(book.findings) : f.category = c /\ f.severity # "info")

\* "No bot challenge, rate limit or quarantine was recorded during the crawl."
\* (run_data.py:1547): a package that says so was compiled from no quarantined page.
IntegrityIsTold ==
    step = "compiled" /\ book.integrity = "clean" => \A p \in Range(book.pages) : ~p.wall
=============================================================================
