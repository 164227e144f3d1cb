-------------------------- MODULE MCPackageDocuments --------------------------
(* PackageTree for TLC, on sites at the thresholds of the workbooks. *)
EXTENDS PackageTree, MCPackageContents

\* 66 characters are too long for a rule and 60 for no workbook; 249 words are thin for a workbook.
Long == Title("t5", 66, 9, {"wide", "hats"})
Fits == Title("t6", 60, 8, {"brown", "boots"})
Few(u) == [Good(u) EXCEPT !.title = Fits, !.words = 249, !.ms = 199, !.tracked = FALSE]
Wide(u) == [Good(u) EXCEPT !.title = Long, !.words = 250, !.ms = 200, !.meta = NoText, !.canonical = "outside"]
Shop ==
    <<Good(1), [Good(2) EXCEPT !.title = T2], [Gone(3) EXCEPT !.html = FALSE], Few(4), Wide(5)>>
Doubles ==
    <<[Good(1) EXCEPT !.schema = {}], [Good(2) EXCEPT !.hash = 1, !.schema = {}],
      [Good(3) EXCEPT !.words = 600, !.ms = 1500, !.unlabelled = 2, !.schema = {}, !.canonical = "none"],
      [Good(5) EXCEPT !.title = Short, !.words = 1200, !.ms = 500, !.robots = {"noindex"}, !.chain = 3, !.links = {4}]>>
Broken ==
    <<[Good(1) EXCEPT !.status = 500], [Wall(2) EXCEPT !.status = 200], Bare(4), [Good(5) EXCEPT !.h1s = 2]>>

MCDocumentCrawls == <<{Shop, Doubles, Broken, <<Good(1)>>, <<Gone(3), [Gone(1) EXCEPT !.status = 503]>>} \cup FirstTime>>

MCDocumentMarkets ==
    {Empty0, [Rich EXCEPT !.backlinks = Append(@, [domain |-> 3, score |-> NotGiven]), !.domain.authority_score = 40,
                          !.competitors[2].authority_score = 60]}
MCDocumentSettings == {[calls |-> 3, on |-> TRUE], [calls |-> 0, on |-> FALSE]}
MCDocumentReplies == {Reply("document", On(<<"page_facts", 1>>), {1}, Better)}
MCDocumentOutlines == {Reply("document", On(<<"content_asset", 1>>), {}, Plans)}
MCDocumentSummaries == Silence({"refusal"})
=============================================================================
