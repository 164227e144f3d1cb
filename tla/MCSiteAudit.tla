---------------------------- MODULE MCSiteAudit ----------------------------
EXTENDS SiteAudit

MCDepth == [u \in URL |-> CASE u = 1 -> 0 [] u = 3 -> 5 [] OTHER -> 1]

Title(text, length, words, tokens) == [text |-> text, length |-> length, words |-> words, tokens |-> tokens]
T1 == Title("t1", 30, 4, {"red", "shoes", "sale", "online", "now"})
T2 == Title("t2", 40, 5, {"red", "shoes", "sale", "online"})
T3 == Title("t3", 70, 9, {"blue", "hats"})
Short == Title("t4", 8, 1, {"brand"})
NoText == Title("", 0, 0, {})

Good(u) ==
    [url |-> u, at |-> 0, challenge |-> FALSE, status |-> 200, html |-> TRUE, title |-> T1,
     meta |-> Title(ToString(u), 90, 9, {}), h1s |-> 1, h1 |-> u, h2 |-> TRUE, words |-> 300,
     unlabelled |-> 0, canonical |-> "self", robots |-> {}, chain |-> 1, links |-> 1..4,
     ms |-> 100, bytes |-> 1000, hash |-> u, tracked |-> TRUE, schema |-> {"organization", "product"},
     lang |-> TRUE]
Wall(u) == [Good(u) EXCEPT !.challenge = TRUE, !.status = 403, !.links = {}, !.title = NoText, !.meta = NoText, !.h1s = 0, !.h1 = 0,
                            !.canonical = "none", !.words = -1, !.schema = {}, !.tracked = FALSE, !.lang = FALSE,
                            !.h2 = FALSE]
Bare(u) ==
    [Good(u) EXCEPT !.title = NoText, !.meta = NoText, !.h1s = 0, !.links = {5}, !.schema = {},
                    !.tracked = FALSE, !.lang = FALSE, !.canonical = "none", !.words = 20]
Gone(u) == [Good(u) EXCEPT !.status = 404, !.links = {}, !.html = TRUE]
Poor(u) ==
    [Good(u) EXCEPT !.title = T3, !.h1s = 2, !.words = 900, !.h2 = FALSE, !.unlabelled = 3,
                    !.canonical = "outside", !.robots = {"noindex"}, !.chain = 3, !.ms = 3000,
                    !.bytes = 2000000, !.links = {}]

FirstTime ==
    { <<Good(1), [Good(2) EXCEPT !.title = T2], Gone(3)>>,
      <<Good(1), Gone(3), [Good(2) EXCEPT !.status = 500], Good(4)>>,
      \* the challenge comes after a redirect had led to the same page
      <<Good(1), Good(2), [Wall(2) EXCEPT !.status = 200], Bare(4)>>,
      <<Wall(2), Wall(3), [Good(1) EXCEPT !.title = Short, !.links = {2, 3}], Gone(3)>>,
      <<Wall(1), Wall(2)>>,
      <<Poor(1), [Poor(3) EXCEPT !.ms = 2000], [Good(2) EXCEPT !.tracked = FALSE], Poor(1)>>,
      <<Bare(1), [Bare(3) EXCEPT !.hash = 1], Good(2)>> }
\* What a retry finds: the site is well again, or blocks the crawler and has lost a page.
SecondTime ==
    { <<Good(1), Good(2)>>,
      <<Wall(2), [Good(1) EXCEPT !.links = {2, 3}], Gone(3)>> }

MCCrawls == <<FirstTime, SecondTime>>
=============================================================================
