------------------------------- MODULE Crawler -------------------------------
(***************************************************************************)
(* BoundedCrawler.crawl (audit_engine/crawler.py) and what _collect        *)
(* (audit_engine/tasks.py) keeps of its result: a breadth-first walk over  *)
(* a site that may redirect, fail, or answer with a challenge at any time, *)
(* within a page budget, a depth and a duration.                           *)
(*                                                                         *)
(* Time is not counted.  Any visit may use up the duration, and a wait for *)
(* Retry-After may be too long for what is left of it; the pauses between  *)
(* requests to one host are part of a visit.  A URL outside the approved   *)
(* domains, a robots.txt that forbids the visit, and any other exception   *)
(* are one outcome, a failure.                                             *)
(***************************************************************************)
EXTENDS Naturals, Sequences

CONSTANTS
    Url,          \* the normalized URLs of the approved domains
    Seed,         \* the URL the audit starts from
    Web,          \* the sites considered: [links |-> ..., to |-> ...]
    Sorted,       \* [SUBSET Url -> Seq(Url)]: the order of a page's links
    Nil,          \* no redirect
    MaxPages,     \* CrawlConfig.max_pages
    MaxDepth,     \* CrawlConfig.max_depth
    MaxRedirects  \* CrawlConfig.max_redirects

Elements(s) == {s[i] : i \in 1 .. Len(s)}
Distinct(s) == \A i, j \in 1 .. Len(s) : s[i] = s[j] => i = j

ASSUME CrawlerAssumption ==
    /\ Seed \in Url
    /\ Nil \notin Url
    /\ Web \subseteq [links : [Url -> SUBSET Url], to : [Url -> Url \cup {Nil}]]
    /\ Sorted \in [SUBSET Url -> Seq(Url)]
    /\ \A S \in SUBSET Url : Elements(Sorted[S]) = S /\ Distinct(Sorted[S])
    /\ MaxPages \in Nat \ {0}
    /\ {MaxDepth, MaxRedirects} \subseteq Nat

VARIABLES
    web,         \* the site: where its URLs redirect to, and what its pages link
    queue,       \* the URLs waiting to be visited
    depth,       \* of every discovered URL, as given to the queue with it
    retried,     \* URLs that were queued again after a challenge
    late,        \* the duration is used up
    pages,       \* CrawledPage records
    failures,    \* the URLs of the CrawlFailure records
    stopped,     \* stopped_reason, "no" while the loop runs
    quarantined, \* PageSnapshot rows without content, by normalized_url
    kept,        \* PageSnapshot rows with content: the pages they are made of
    outcome      \* "none", or how _collect ended: "pages" or "no_pages"

results == <<pages, failures>>
snapshots == <<quarantined, kept, outcome>>
vars == <<web, queue, depth, retried, late, results, stopped, snapshots>>

Discovered == DOMAIN depth
Page == [url : Url, final : Url, links : SUBSET Url, challenge : BOOLEAN]
Reason == {"queue_exhausted", "page_budget_reached", "duration_budget_reached"}

TypeOK ==
    /\ web \in Web
    /\ queue \in Seq(Url)
    /\ Discovered \subseteq Url
    /\ depth \in [Discovered -> 0 .. MaxDepth]
    /\ retried \subseteq Url
    /\ late \in BOOLEAN
    /\ pages \in Seq(Page)
    /\ failures \in Seq(Url)
    /\ stopped \in {"no"} \cup Reason
    /\ quarantined \subseteq Url
    /\ kept \subseteq 1 .. Len(pages)
    /\ outcome \in {"none", "pages", "no_pages"}

Init ==
    /\ web \in Web
    /\ queue = <<Seed>>
    /\ depth = [u \in {Seed} |-> 0]
    /\ retried = {}
    /\ late = FALSE
    /\ pages = <<>>
    /\ failures = <<>>
    /\ stopped = "no"
    /\ quarantined = {}
    /\ kept = {}
    /\ outcome = "none"

-----------------------------------------------------------------------------
(* A visit.                                                                *)

\* The URLs requested on the way from u, redirect by redirect.
Hop(u) ==
    LET at[k \in Nat] == IF k = 0 THEN u
                         ELSE IF at[k - 1] = Nil THEN Nil
                         ELSE web.to[at[k - 1]]
    IN  at
Chain(u) == {v \in Url : \E k \in 0 .. MaxRedirects : v = Hop(u)[k]}

\* Where the chain ends, if it does before the limit; a loop never does.
Lands(u) == {f \in Chain(u) : web.to[f] = Nil}

\* Mutant of Room: one result too many.
RoomLeft == Len(pages) + Len(failures) <= MaxPages

Room == Len(pages) + Len(failures) < MaxPages

\* The loop goes round with the first URL of the queue.
Visit(u) ==
    /\ stopped = "no"
    /\ queue # <<>>
    /\ u = Head(queue)
    /\ Room
    /\ ~late
    /\ late' \in BOOLEAN
    /\ UNCHANGED <<web, stopped, snapshots>>

Record(page) == pages' = Append(pages, page)
Report(u) == failures' = Append(failures, u)

\* Mutant of New: links are compared with the pages read so far.
NewUnread(u, links) ==
    IF depth[u] < MaxDepth THEN links \ {pages[i].url : i \in 1 .. Len(pages)} ELSE {}

\* Mutant of New: the last level is left out.
NewShallow(u, links) == IF depth[u] + 1 < MaxDepth THEN links \ Discovered ELSE {}

\* The links nobody has queued yet, below the maximal depth.
New(u, links) == IF depth[u] < MaxDepth THEN links \ Discovered ELSE {}

\* Mutant of Discover: new links go to the front.
DiscoverFirst(u, links) ==
    /\ queue' = Sorted[New(u, links)] \o Tail(queue)
    /\ depth' = [v \in Discovered \cup New(u, links) |->
                    IF v \in Discovered THEN depth[v] ELSE depth[u] + 1]

Discover(u, links) ==
    /\ queue' = Tail(queue) \o Sorted[New(u, links)]
    /\ depth' = [v \in Discovered \cup New(u, links) |->
                    IF v \in Discovered THEN depth[v] ELSE depth[u] + 1]

\* A page is read; its HTML may turn out to be beyond the parser, which is a
\* failure as well as a page without links.
Fetch(u) ==
    /\ Visit(u)
    /\ \E f \in Lands(u) :
          \/ /\ Record([url |-> u, final |-> f, links |-> web.links[f], challenge |-> FALSE])
             /\ Discover(u, web.links[f])
             /\ UNCHANGED failures
          \/ /\ Record([url |-> u, final |-> f, links |-> {}, challenge |-> FALSE])
             /\ Discover(u, {})
             /\ Report(u)
    /\ UNCHANGED retried

\* Mutant of Retry: nothing remembers that the URL had its second chance.
RetryForever(u) ==
    /\ Visit(u)
    /\ u \notin retried
    /\ queue' = Append(Tail(queue), u)
    /\ UNCHANGED <<depth, results, retried>>

\* A challenge, anywhere in the chain: the URL goes to the back of the queue, once.
Retry(u) ==
    /\ Visit(u)
    /\ u \notin retried
    /\ retried' = retried \cup {u}
    /\ queue' = Append(Tail(queue), u)
    /\ UNCHANGED <<depth, results>>

\* A challenge again, or no time to wait for the second chance: a page and a failure.
Quarantine(u) ==
    /\ Visit(u)
    /\ \E f \in Chain(u) :
          Record([url |-> u, final |-> f, links |-> {}, challenge |-> TRUE])
    /\ Report(u)
    /\ queue' = Tail(queue)
    /\ UNCHANGED <<depth, retried>>

Fail(u) ==
    /\ Visit(u)
    /\ Report(u)
    /\ queue' = Tail(queue)
    /\ UNCHANGED <<depth, retried, pages>>

\* The loop ends: the queue first, then the page budget, then the duration.
Stop ==
    /\ stopped = "no"
    /\ \/ queue = <<>> /\ stopped' = "queue_exhausted"
       \/ queue # <<>> /\ ~Room /\ stopped' = "page_budget_reached"
       \/ queue # <<>> /\ Room /\ late /\ stopped' = "duration_budget_reached"
    /\ UNCHANGED <<web, queue, depth, retried, late, results, snapshots>>

-----------------------------------------------------------------------------
(* _collect.                                                               *)

\* One row for every final URL: first the challenged ones, then the first page
\* that was read of each of the others.  Without a readable page the audit fails.
Collect ==
    /\ stopped # "no"
    /\ outcome = "none"
    /\ quarantined' = {p.final : p \in {q \in Elements(pages) : q.challenge}}
    /\ kept' = {i \in 1 .. Len(pages) :
                   /\ pages[i].final \notin quarantined'
                   /\ \A j \in 1 .. i - 1 : pages[j].final # pages[i].final}
    /\ outcome' = IF kept' = {} THEN "no_pages" ELSE "pages"
    /\ UNCHANGED <<web, queue, depth, retried, late, results, stopped>>

Next ==
    \/ \E u \in Url : Fetch(u) \/ Retry(u) \/ Quarantine(u) \/ Fail(u)
    \/ Stop
    \/ Collect

Spec == Init /\ [][Next]_vars

\* The loop is one thread of a worker that is not lost, and every request has a
\* timeout.
FairSpec == Spec /\ WF_vars(Next)

-----------------------------------------------------------------------------
(* Properties.                                                             *)

Answered == {p.url : p \in Elements(pages)} \cup Elements(failures)

\* No URL is lost and none is done twice: whatever is retried, redirected or
\* refused, a discovered URL waits in the queue exactly once or has been
\* answered, and has at most one page.
Accounted ==
    /\ Discovered = Elements(queue) \cup Answered
    /\ Elements(queue) \cap Answered = {}
    /\ Distinct(queue)
    /\ \A i, j \in 1 .. Len(pages) : pages[i].url = pages[j].url => i = j

\* The page budget holds although one visit may count twice, as a page and as a
\* failure.
Budget ==
    /\ Len(pages) <= MaxPages
    /\ Len(pages) + Len(failures) <= MaxPages + 1

\* Unless a challenge has put a URL back, the walk is breadth-first: no page
\* that was read offers a shorter way to a URL than the one its depth stands for.
NoDetour ==
    retried = {} =>
        \A p \in Elements(pages) : depth[p.url] < MaxDepth =>
            \A v \in p.links : v \in Discovered /\ depth[v] <= depth[p.url] + 1

\* The reference: the URLs at most n clicks away from the seed.
Within ==
    LET within[n \in Nat] ==
            IF n = 0 THEN {Seed}
            ELSE within[n - 1] \cup
                 UNION {web.links[f] : f \in UNION {Lands(u) : u \in within[n - 1]}}
    IN  within

\* A crawl that was neither cut short nor refused anywhere has discovered exactly
\* the URLs within the maximal depth, each at its distance.
Complete ==
    (stopped = "queue_exhausted" /\ failures = <<>> /\ retried = {}) =>
        /\ Discovered = Within[MaxDepth]
        /\ \A u \in Discovered : \A n \in 0 .. MaxDepth : u \in Within[n] <=> depth[u] <= n

\* The crawl ends and is collected, also where every answer is a challenge and no
\* time passes.
Terminates == <>(outcome # "none")
=============================================================================
