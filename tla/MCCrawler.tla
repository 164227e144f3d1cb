------------------------------ MODULE MCCrawler ------------------------------
EXTENDS Crawler, SequencesExt

Site == 1 .. 5

\* A page links the URLs in the order of their names.
InOrder == [S \in SUBSET Site |-> SetToSortSeq(S, <)]

\* Two ways to 5, a long one found first; a walk along a line; a front page that
\* links every page, and every page its front page; pages that link everything.
Links == {<<{2, 3}, {4}, {5}, {5}, {1}>>,
          <<{2}, {3}, {4}, {5}, {}>>,
          <<{2, 3, 4, 5}, {1}, {1}, {1}, {1}>>,
          <<Site, Site, Site, Site, Site>>}

\* No redirects; the seed to its canonical form; a chain longer than the limit
\* and a loop.
Redirects == {<<0, 0, 0, 0, 0>>, <<2, 0, 0, 0, 0>>, <<2, 0, 4, 5, 0>>, <<0, 2, 2, 0, 4>>}

Sites == [links : Links, to : Redirects]
=============================================================================
