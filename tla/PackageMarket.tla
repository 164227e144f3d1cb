---------------------------- MODULE PackageMarket ----------------------------
(***************************************************************************)
(* What a package says about the market: the operators of                  *)
(* exporters/run_data.py that turn the provider's rows into keywords,      *)
(* clusters, competitors, referring domains and a benchmark.               *)
(*                                                                         *)
(* A market is a record of what the provider has left for the run; a       *)
(* missing number is -1.  A phrase is a number, which stands for its place *)
(* in the alphabet; Words has its tokens in order, and Marks the markers   *)
(* it contains.  Texts, and all columns nothing is computed from, are left *)
(* out.                                                                    *)
(***************************************************************************)
EXTENDS Lists, Integers, Sequences, SequencesExt, TLC

CONSTANTS
    Words,  \* [phrase -> Seq(token)]: the tokens of a phrase without the stopwords
    Marks,  \* [phrase -> SUBSET {"transactional", "comparison", "question"}]
    Brand   \* the tokens of the client's name and domain

NotGiven == -1
OrZero(n) == IF n = NotGiven THEN 0 ELSE n
Tokens(phrase) == Range(Words[phrase])

\* The number of common tokens and of all tokens.
Common(left, right) == Cardinality(left \cap right)
AllOf(left, right) == Cardinality(left \cup right)

\* A quotient rounded to four places, in units of them.
Rounded(num, den) == IF den = 0 THEN 0 ELSE (20000 * num + den) \div (2 * den)

\* share of l plus share of r of two overlaps, each given as a percentage.
Overlap(tokens, left, l, right, r) ==
    LET a == IF tokens = {} \/ left = {} THEN 0 ELSE Common(tokens, left)
        b == IF tokens = {} \/ right = {} THEN 0 ELSE Common(tokens, right)
        da == IF a = 0 THEN 1 ELSE AllOf(tokens, left)
        db == IF b = 0 THEN 1 ELSE AllOf(tokens, right)
    IN  Rounded(l * a * db + r * b * da, 100 * da * db)

-----------------------------------------------------------------------------
(* Keywords.                                                               *)

FunnelStage(phrase) ==
    IF "transactional" \in Marks[phrase] THEN "BOFU"
    ELSE IF "comparison" \in Marks[phrase] THEN "MOFU"
    ELSE IF "question" \in Marks[phrase] THEN "TOFU"
    ELSE IF Brand \cap Tokens(phrase) # {} THEN "BOFU"
    ELSE "unlabelled"

DerivedIntent(phrase) ==
    IF Brand \cap Tokens(phrase) # {} THEN "navigational"
    ELSE CASE FunnelStage(phrase) = "BOFU" -> "transactional"
           [] FunnelStage(phrase) = "MOFU" -> "commercial"
           [] FunnelStage(phrase) = "TOFU" -> "informational"
           [] OTHER -> "unclassified"

\* By volume, the largest first, then by phrase.
Sooner(k, l) ==
    \/ OrZero(k.volume) > OrZero(l.volume)
    \/ OrZero(k.volume) = OrZero(l.volume) /\ k.phrase < l.phrase

\* A landing page the crawl has not seen is not shown.
KeywordRows(records, urls) ==
    LET sorted == Sorted(records, Sooner)
    IN  [i \in DOMAIN sorted |->
            LET k == sorted[i]
            IN  [n |-> i, phrase |-> k.phrase, volume |-> k.volume, position |-> k.position,
                 landing |-> IF k.landing \in urls THEN k.landing ELSE 0,
                 stage |-> FunnelStage(k.phrase),
                 intent |-> IF k.intent = "" THEN DerivedIntent(k.phrase) ELSE k.intent,
                 evidence |-> <<"keyword", i>>]]

-----------------------------------------------------------------------------
(* Clusters: a keyword joins the first one that shares at least 34 per     *)
(* cent of the tokens, and adds its own to them.                           *)

OwnTokens(phrase) == IF Tokens(phrase) = {} THEN {ToString(phrase)} ELSE Tokens(phrase)
Joins(tokens, seed) == 100 * Common(tokens, seed.tokens) >= 34 * AllOf(tokens, seed.tokens)

Place(seeds, k) ==
    LET tokens == OwnTokens(k.phrase)
        fit == {i \in DOMAIN seeds : Joins(tokens, seeds[i])}
        first == CHOOSE i \in fit : \A j \in fit : i <= j
    IN  IF fit = {} THEN Append(seeds, [tokens |-> tokens, members |-> <<k>>])
        ELSE [seeds EXCEPT ![first] = [tokens |-> @.tokens \cup tokens, members |-> Append(@.members, k)]]

Seeds(keywords) ==
    LET seeds[n \in 0 .. Len(keywords)] == IF n = 0 THEN <<>> ELSE Place(seeds[n - 1], keywords[n])
    IN  seeds[Len(keywords)]

\* The best page is one function of the tokens, given the pages.
ClusterRow(seed, n, best) ==
    LET found == best.score > 0
        volumes == Where(seed.members, LAMBDA k : k.volume # NotGiven)
        ranked == \E k \in Range(seed.members) : k.position \in 0 .. 20
        intents == Where(seed.members, LAMBDA k : k.intent # "unclassified")
    IN  [id |-> n, phrases |-> {k.phrase : k \in Range(seed.members)}, count |-> Len(seed.members),
         volume |-> IF volumes = <<>> THEN NotGiven ELSE FoldLeft(LAMBDA s, k : s + k.volume, 0, volumes),
         url |-> IF found THEN best.url ELSE 0,
         intent |-> IF intents = <<>> THEN "unclassified" ELSE Head(intents).intent,
         coverage |-> IF ~found THEN "gap" ELSE IF ranked THEN "covered" ELSE "partial",
         evidence |-> {k.evidence : k \in Range(seed.members)} \cup (IF found THEN {best.evidence} ELSE {})]

-----------------------------------------------------------------------------
(* The client against its competitors.                                     *)

CompetitorFields == {"organic_keywords", "organic_traffic", "authority_score", "referring_domains", "common_keywords"}

\* One row for each domain, the first payload of it.
CompetitorRows(payloads) ==
    LET AddNew(rows, p) == IF \E r \in Range(rows) : r.domain = p.domain THEN rows
                           ELSE Append(rows, p ++ [evidence |-> <<"competitor", Len(rows) + 1>>])
    IN  FoldLeft(AddNew, <<>>, payloads)

\* One row for each referring domain with its links and its best score, most links first.
BacklinkRows(records) ==
    LET domains == {r.domain : r \in Range(records)}
        Of(d) == Where(records, LAMBDA r : r.domain = d)
        row == [d \in domains |->
                  [domain |-> d, links |-> Len(Of(d)),
                   score |-> LET S == {r.score : r \in Range(Of(d))} IN CHOOSE s \in S : \A t \in S : s >= t]]
        More(c, d) == row[c].links > row[d].links \/ (row[c].links = row[d].links /\ c < d)
        order == Sorted(domains, More)
    IN  [i \in DOMAIN order |-> row[order[i]] ++ [evidence |-> <<"backlink", i>>]]

\* Twice the median, so that a half stays a number.
TwiceMedian(values) ==
    LET sorted == SortSeq(values, <)
        middle == Len(sorted) \div 2
    IN  IF Len(sorted) % 2 = 1 THEN 2 * sorted[middle + 1] ELSE sorted[middle] + sorted[middle + 1]

\* Ahead and behind begin five per cent from the median; "common_keywords" has no client value.
Standing(field, domain, competitors) ==
    LET client == IF field = "common_keywords" THEN NotGiven ELSE domain[field]
        values == Where([i \in DOMAIN competitors |-> competitors[i][field]], LAMBDA v : v # NotGiven)
    IN  IF client = NotGiven \/ values = <<>> THEN "unknown"
        ELSE IF 200 * client > 105 * TwiceMedian(values) THEN "ahead"
        ELSE IF 200 * client < 95 * TwiceMedian(values) THEN "behind"
        ELSE "level"
Benchmark(domain, competitors) == [f \in CompetitorFields |-> Standing(f, domain, competitors)]

\* The overview is available if the snapshot is and any field has a value.
MarketStatus(m) ==
    IF m.available /\ \E f \in DOMAIN m.domain : m.domain[f] # NotGiven THEN "available" ELSE "unavailable"

\* Evidence rows of the provider's families.
ProviderEvidence(keywords, competitors, backlinks, status) ==
    {k.evidence : k \in Range(keywords)} \cup {c.evidence : c \in Range(competitors)}
    \cup {b.evidence : b \in Range(backlinks)} \cup (IF status = "available" THEN {<<"market", 1>>} ELSE {})
=============================================================================
