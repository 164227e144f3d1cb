-------------------------- MODULE MCPackageContents --------------------------
(* PackageContents for TLC, on the sites of MCSiteAudit. *)
EXTENDS PackageContents, MCSiteAudit

MCConnected == [semrush |-> FALSE, ga4 |-> TRUE]
MCImported == <<"gsc">>

\* A shop: home, a collection, a product of it, the cart, an article.
MCTraits == <<{}, {"listing"}, {"product", "listing"}, {"service"}, {"article"}>>
MCPathTokens == <<{}, {"shoes"}, {"shoes", "red"}, {"cart"}, {"hats"}>>
MCHeadTokens == <<{"brand"}, {"shoes"}, {"red", "shoes"}, {"cart"}, {"hats"}>>
MCParent == <<0, 0, 2, 0, 0>>
MCAncestors == <<{}, {}, {2}, {}, {}>>
MCStandard == {T1}

\* Phrases: "red shoes", "red shoes sale", "best hats", "brand".
MCWords == <<<<"red", "shoes">>, <<"red", "shoes", "sale">>, <<"best", "hats">>, <<"brand">>>>
MCMarks == <<{}, {"transactional"}, {"comparison"}, {}>>
Keyword(p, volume, position, landing, intent) ==
    [phrase |-> p, volume |-> volume, position |-> position, landing |-> landing, intent |-> intent]
Figures(k, t, c) ==
    [organic_keywords |-> k, organic_traffic |-> t, common_keywords |-> c, authority_score |-> -1, referring_domains |-> -1,
     gap_keywords |-> 1, backlinks_total |-> -1]
Empty0 == [available |-> FALSE, domain |-> Figures(-1, -1, -1), keywords |-> {}, competitors |-> <<>>, backlinks |-> <<>>]
Rich == [available |-> TRUE, domain |-> Figures(100, -1, -1),
         keywords |-> {Keyword(1, 90, 3, 1, ""), Keyword(2, 90, -1, 5, ""), Keyword(3, -1, 40, 1, "commercial"),
                       Keyword(4, 10, -1, 0, "")},
         competitors |-> <<Figures(95, 10, 3) @@ [domain |-> "a"], Figures(70, -1, 5) @@ [domain |-> "b"],
                           Figures(1, 1, 1) @@ [domain |-> "a"]>>,
         backlinks |-> <<[domain |-> 1, score |-> 20], [domain |-> 2, score |-> 5], [domain |-> 2, score |-> 9]>>]
MCMarkets == {Empty0, Rich}
MCSettings == {[calls |-> 3, on |-> TRUE], [calls |-> 2, on |-> TRUE], [calls |-> 0, on |-> TRUE], [calls |-> 3, on |-> FALSE]}

Reply(kind, claims, links, items) == [kind |-> kind, claims |-> claims, links |-> links, placeholder |-> FALSE, items |-> items]
Silence(kinds) == {Reply(kind, {}, {}, <<>>) : kind \in kinds}
On(key) == {[facts |-> {key}, evidence |-> {key}]}
Better == <<[url |-> 1, fit |-> {"title"}], [url |-> 9, fit |-> {"title"}], [url |-> 2, fit |-> {}]>>
MCProposalReplies ==
    Silence({"error", "malformed"}) \cup {Reply("document", On(<<"page_facts", 1>>), {1}, Better), Reply("document", On(<<"page_facts", 9>>), {}, Better),
                  Reply("document", {}, {3}, Better)}
Section(heading, guided) == [heading |-> heading, guided |-> guided]
Plans ==
    <<[asset |-> 1, sections |-> <<Section("a", TRUE), Section("b", TRUE), Section("b", TRUE)>>],
      [asset |-> 2, sections |-> <<Section("a", TRUE), Section("c", TRUE), Section("d", TRUE), Section("e", TRUE)>>],
      [asset |-> 2, sections |-> <<Section("f", TRUE)>>],
      [asset |-> 1, sections |-> <<Section("g", TRUE), Section("h", TRUE), Section("i", FALSE), Section("j", TRUE)>>]>>
MCOutlineReplies == Silence({"failure"}) \cup {Reply("document", On(<<"content_asset", 1>>), {}, Plans), Reply("document", {}, {0}, Plans)}
MCSummaryReplies == {Reply("refusal", {}, {}, <<>>), Reply("document", On(<<"explicit_limitations", 0>>), {}, <<>>)}
=============================================================================
