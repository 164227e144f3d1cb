--------------------------- MODULE Crawler_proofs ---------------------------
(***************************************************************************)
(* Theorems about Crawler, for any site, order of links, budget and depth. *)
(***************************************************************************)
EXTENDS Crawler, SequenceTheorems, WellFoundedInduction, TLAPS

LEMMA InElements == \A s : \A i \in 1 .. Len(s) : s[i] \in Elements(s)
BY DEF Elements

\* What the end, the front and the joining of queues do to their elements.
LEMMA OfAppend ==
    ASSUME NEW S, NEW s \in Seq(S), NEW x \in S
    PROVE  /\ Append(s, x) \in Seq(S)
           /\ Elements(Append(s, x)) = Elements(s) \cup {x}
           /\ Distinct(s) /\ x \notin Elements(s) => Distinct(Append(s, x))
<1>1. /\ Append(s, x) \in Seq(S)
      /\ Len(Append(s, x)) = Len(s) + 1
      /\ \A i \in 1 .. Len(s) : Append(s, x)[i] = s[i]
      /\ Append(s, x)[Len(s) + 1] = x
    BY AppendProperties
<1>2. Elements(Append(s, x)) = Elements(s) \cup {x}
    BY <1>1 DEF Elements
<1>3. Distinct(s) /\ x \notin Elements(s) => Distinct(Append(s, x))
    BY <1>1 DEF Elements, Distinct
<1> QED BY <1>1, <1>2, <1>3

LEMMA OfTail ==
    ASSUME NEW S, NEW s \in Seq(S), s # <<>>
    PROVE  /\ Head(s) \in S /\ Tail(s) \in Seq(S)
           /\ Len(Tail(s)) = Len(s) - 1
           /\ \A i \in 1 .. Len(Tail(s)) : Tail(s)[i] = s[i + 1]
           /\ Head(s) = s[1] /\ 1 \in 1 .. Len(s)
           /\ Elements(s) = {Head(s)} \cup Elements(Tail(s))
           /\ Distinct(s) => Distinct(Tail(s)) /\ Head(s) \notin Elements(Tail(s))
<1>1. /\ Head(s) \in S /\ Tail(s) \in Seq(S)
      /\ Len(Tail(s)) = Len(s) - 1
      /\ \A i \in 1 .. Len(Tail(s)) : Tail(s)[i] = s[i + 1]
    BY HeadTailProperties
<1>2. Head(s) = s[1] /\ 1 \in 1 .. Len(s) /\ Len(s) \in Nat
    OBVIOUS
<1>3. Elements(s) = {Head(s)} \cup Elements(Tail(s))
    <2>1. Elements(s) \subseteq {Head(s)} \cup Elements(Tail(s))
        <3> SUFFICES ASSUME NEW i \in 1 .. Len(s), i # 1 PROVE s[i] \in Elements(Tail(s))
            BY <1>2 DEF Elements
        <3>1. i - 1 \in 1 .. Len(Tail(s)) /\ (i - 1) + 1 = i
            BY <1>1, <1>2
        <3>2. s[i] = Tail(s)[i - 1]
            BY <1>1, <3>1
        <3> QED BY <3>1, <3>2 DEF Elements
    <2>2. ASSUME NEW i \in 1 .. Len(Tail(s)) PROVE Tail(s)[i] \in Elements(s)
        <3>1. i + 1 \in 1 .. Len(s) /\ Tail(s)[i] = s[i + 1]
            BY <1>1, <1>2
        <3> QED BY <3>1, InElements
    <2>3. Elements(Tail(s)) \subseteq Elements(s)
        BY <2>2 DEF Elements
    <2>4. Head(s) \in Elements(s)
        BY <1>2, InElements
    <2> QED BY <2>1, <2>3, <2>4
<1>4. Distinct(s) => Distinct(Tail(s)) /\ Head(s) \notin Elements(Tail(s))
    BY <1>1, <1>2 DEF Elements, Distinct
<1> QED BY <1>1, <1>2, <1>3, <1>4

LEMMA OfConcat ==
    ASSUME NEW S, NEW s \in Seq(S), NEW t \in Seq(S)
    PROVE  /\ s \o t \in Seq(S)
           /\ Len(s \o t) = Len(s) + Len(t)
           /\ \A i \in 1 .. Len(s) + Len(t) :
                 (s \o t)[i] = IF i <= Len(s) THEN s[i] ELSE t[i - Len(s)]
           /\ Elements(s \o t) = Elements(s) \cup Elements(t)
           /\ Distinct(s) /\ Distinct(t) /\ Elements(s) \cap Elements(t) = {}
                 => Distinct(s \o t)
<1>1. /\ s \o t \in Seq(S)
      /\ Len(s \o t) = Len(s) + Len(t)
      /\ \A i \in 1 .. Len(s) + Len(t) :
            (s \o t)[i] = IF i <= Len(s) THEN s[i] ELSE t[i - Len(s)]
      /\ Len(s) \in Nat /\ Len(t) \in Nat
    BY ConcatProperties
<1>2. Elements(s \o t) = Elements(s) \cup Elements(t)
    <2>1. Elements(s \o t) \subseteq Elements(s) \cup Elements(t)
        BY <1>1 DEF Elements
    <2>2. ASSUME NEW i \in 1 .. Len(s) PROVE s[i] \in Elements(s \o t)
        BY <1>1 DEF Elements
    <2>3. ASSUME NEW i \in 1 .. Len(t) PROVE t[i] \in Elements(s \o t)
        <3>1. Len(s) + i \in 1 .. Len(s \o t) /\ (s \o t)[Len(s) + i] = t[i]
            BY <1>1
        <3> QED BY <3>1 DEF Elements
    <2> QED BY <2>1, <2>2, <2>3 DEF Elements
<1>3. ASSUME Distinct(s), Distinct(t), Elements(s) \cap Elements(t) = {}
      PROVE  Distinct(s \o t)
    <2> SUFFICES ASSUME NEW i \in 1 .. Len(s \o t), NEW j \in 1 .. Len(s \o t),
                        (s \o t)[i] = (s \o t)[j]
                 PROVE  i = j
        BY DEF Distinct
    <2>1. CASE i <= Len(s) /\ j <= Len(s)
        BY <1>1, <1>3, <2>1 DEF Distinct
    <2>2. CASE i > Len(s) /\ j > Len(s)
        BY <1>1, <1>3, <2>2 DEF Distinct
    <2>3. CASE i <= Len(s) /\ j > Len(s)
        <3>1. (s \o t)[i] \in Elements(s) /\ (s \o t)[j] \in Elements(t)
            BY <1>1, <2>3 DEF Elements
        <3> QED BY <3>1, <1>3
    <2>4. CASE i > Len(s) /\ j <= Len(s)
        <3>1. (s \o t)[i] \in Elements(t) /\ (s \o t)[j] \in Elements(s)
            BY <1>1, <2>4 DEF Elements
        <3> QED BY <3>1, <1>3
    <2> QED BY <1>1, <2>1, <2>2, <2>3, <2>4
<1> QED BY <1>1, <1>2, <1>3

-----------------------------------------------------------------------------
\* A visit takes the first URL off the queue, one that has no result yet.
LEMMA Visited ==
    ASSUME TypeOK, Accounted, NEW u \in Url, Visit(u)
    PROVE  /\ queue # <<>> /\ u = Head(queue) /\ Tail(queue) \in Seq(Url)
           /\ u \in Discovered /\ depth[u] \in 0 .. MaxDepth
           /\ Elements(queue) = {u} \cup Elements(Tail(queue))
           /\ u \notin Elements(Tail(queue)) /\ Distinct(Tail(queue))
           /\ u \notin Answered
<1>1. queue # <<>> /\ u = Head(queue) /\ queue \in Seq(Url)
    BY DEF Visit, TypeOK
<1>2. /\ Tail(queue) \in Seq(Url)
      /\ Elements(queue) = {u} \cup Elements(Tail(queue))
      /\ Distinct(queue) => Distinct(Tail(queue)) /\ u \notin Elements(Tail(queue))
    BY <1>1, OfTail
<1> QED BY <1>1, <1>2 DEF Accounted, TypeOK

\* Discover queues exactly the new links, one level further down.
LEMMA Walked ==
    ASSUME TypeOK, Accounted, NEW u \in Url, Visit(u),
           NEW links \in SUBSET Url, Discover(u, links)
    PROVE  /\ queue' \in Seq(Url)
           /\ New(u, links) \subseteq Url \ Discovered
           /\ Discovered' = Discovered \cup New(u, links)
           /\ depth' \in [Discovered' -> 0 .. MaxDepth]
           /\ \A v \in Discovered : depth'[v] = depth[v]
           /\ \A v \in New(u, links) : depth'[v] = depth[u] + 1
           /\ Elements(queue') = Elements(Tail(queue)) \cup New(u, links)
           /\ Distinct(queue')
<1> DEFINE N == New(u, links)
<1>1. N \subseteq Url \ Discovered /\ (N # {} => depth[u] < MaxDepth)
    BY DEF New
<1>2. Sorted[N] \in Seq(Url) /\ Elements(Sorted[N]) = N /\ Distinct(Sorted[N])
    BY <1>1, CrawlerAssumption
<1>3. /\ Tail(queue) \in Seq(Url)
      /\ depth[u] \in 0 .. MaxDepth
      /\ Elements(Tail(queue)) \subseteq Discovered
      /\ Distinct(Tail(queue))
    BY Visited DEF Accounted
<1>4. queue' = Tail(queue) \o Sorted[N]
    BY DEF Discover
<1>5. /\ queue' \in Seq(Url)
      /\ Elements(queue') = Elements(Tail(queue)) \cup N
      /\ Distinct(queue')
    <2>1. Elements(Tail(queue)) \cap Elements(Sorted[N]) = {}
        BY <1>1, <1>2, <1>3
    <2> HIDE DEF N
    <2> DEFINE s == Tail(queue)  t == Sorted[N]
    <2>2. /\ s \in Seq(Url) /\ t \in Seq(Url)
          /\ Distinct(s) /\ Distinct(t) /\ Elements(s) \cap Elements(t) = {}
        BY <1>2, <1>3, <2>1
    <2> HIDE DEF s, t
    <2>3. /\ s \o t \in Seq(Url)
          /\ Elements(s \o t) = Elements(s) \cup Elements(t)
          /\ Distinct(s \o t)
        BY <2>2, OfConcat
    <2> QED BY <1>2, <1>4, <2>3 DEF s, t
<1>6. depth' = [v \in Discovered \cup N |-> IF v \in Discovered THEN depth[v] ELSE depth[u] + 1]
    BY DEF Discover
<1>7. Discovered' = Discovered \cup N
    BY <1>6 DEF Discovered
<1>8. ASSUME NEW v \in Discovered \cup N PROVE depth'[v] \in 0 .. MaxDepth
    <2>1. CASE v \in Discovered
        BY <1>6, <2>1 DEF TypeOK
    <2>2. CASE v \in N
        BY <1>1, <1>3, <1>6, <2>2, CrawlerAssumption
    <2> QED BY <2>1, <2>2
<1>9. depth' \in [Discovered' -> 0 .. MaxDepth]
    BY <1>6, <1>7, <1>8
<1>10. \A v \in Discovered : depth'[v] = depth[v]
    BY <1>6
<1>11. \A v \in N : depth'[v] = depth[u] + 1
    BY <1>1, <1>6
<1> HIDE DEF N
<1> QED BY <1>1, <1>5, <1>7, <1>9, <1>10, <1>11 DEF N

\* One more page: its URL is the only one that becomes answered by it.
LEMMA Recorded ==
    ASSUME pages \in Seq(Page), NEW p \in Page, Record(p)
    PROVE  /\ pages' \in Seq(Page)
           /\ Len(pages') = Len(pages) + 1
           /\ Elements(pages') = Elements(pages) \cup {p}
           /\ {q.url : q \in Elements(pages')} = {q.url : q \in Elements(pages)} \cup {p.url}
           /\ \A i \in 1 .. Len(pages) : pages'[i] = pages[i]
           /\ pages'[Len(pages) + 1] = p
<1>1. pages' = Append(pages, p)
    BY DEF Record
<1> QED BY <1>1, OfAppend, AppendProperties

LEMMA Reported ==
    ASSUME failures \in Seq(Url), NEW u \in Url, Report(u)
    PROVE  /\ failures' \in Seq(Url)
           /\ Len(failures') = Len(failures) + 1
           /\ Elements(failures') = Elements(failures) \cup {u}
BY OfAppend, AppendProperties DEF Report

\* The three ways to answer a URL: with a page, with a failure, with both.
LEMMA Answers ==
    ASSUME TypeOK, Accounted, NEW u \in Url, Visit(u),
           \/ \E p \in Page : p.url = u /\ Record(p) /\ (UNCHANGED failures \/ Report(u))
           \/ Report(u) /\ UNCHANGED pages
    PROVE  /\ pages' \in Seq(Page) /\ failures' \in Seq(Url)
           /\ Answered' = Answered \cup {u}
           /\ Len(pages') >= Len(pages)
           /\ \A i, j \in 1 .. Len(pages') : pages'[i].url = pages'[j].url => i = j
<1>1. /\ pages \in Seq(Page) /\ failures \in Seq(Url)
      /\ Len(pages) \in Nat
      /\ u \notin Answered
      /\ \A i, j \in 1 .. Len(pages) : pages[i].url = pages[j].url => i = j
    BY Visited DEF TypeOK, Accounted
<1>2. CASE \E p \in Page : p.url = u /\ Record(p) /\ (UNCHANGED failures \/ Report(u))
    <2>1. PICK p \in Page : p.url = u /\ Record(p) /\ (UNCHANGED failures \/ Report(u))
        BY <1>2
    <2>2. /\ pages' \in Seq(Page)
          /\ Len(pages') = Len(pages) + 1
          /\ {q.url : q \in Elements(pages')} = {q.url : q \in Elements(pages)} \cup {u}
          /\ \A i \in 1 .. Len(pages) : pages'[i] = pages[i]
          /\ pages'[Len(pages) + 1] = p
        BY <1>1, <2>1, Recorded
    <2>3. /\ failures' \in Seq(Url)
          /\ Elements(failures') \in {Elements(failures), Elements(failures) \cup {u}}
        BY <1>1, <2>1, Reported
    <2>4. \A i \in 1 .. Len(pages) : pages[i].url # u
        BY <1>1 DEF Answered, Elements
    <2>5. \A i, j \in 1 .. Len(pages') : pages'[i].url = pages'[j].url => i = j
        BY <1>1, <2>1, <2>2, <2>4
    <2>6. Answered' = Answered \cup {u}
        BY <2>2, <2>3 DEF Answered
    <2> QED BY <1>1, <2>2, <2>3, <2>5, <2>6
<1>3. CASE Report(u) /\ UNCHANGED pages
    <2>1. failures' \in Seq(Url) /\ Elements(failures') = Elements(failures) \cup {u}
        BY <1>1, <1>3, Reported
    <2>2. Elements(pages') = Elements(pages)
        BY <1>3
    <2>3. Answered' = Answered \cup {u}
        BY <2>1, <2>2 DEF Answered
    <2> QED BY <1>1, <1>3, <2>1, <2>3
<1> QED BY <1>2, <1>3

-----------------------------------------------------------------------------
\* A landing page's links and a challenged page make well-typed records.
LEMMA PageTypes ==
    ASSUME TypeOK, NEW u \in Url, NEW f \in Chain(u), NEW c \in BOOLEAN
    PROVE  /\ f \in Url /\ web.links[f] \in SUBSET Url
           /\ [url |-> u, final |-> f, links |-> web.links[f], challenge |-> c] \in Page
           /\ [url |-> u, final |-> f, links |-> {}, challenge |-> c] \in Page
<1>1. f \in Url
    BY DEF Chain
<1>2. web \in [links : [Url -> SUBSET Url], to : [Url -> Url \cup {Nil}]]
    BY CrawlerAssumption DEF TypeOK
<1>3. web.links[f] \in SUBSET Url
    BY <1>1, <1>2
<1> QED BY <1>1, <1>3 DEF Page

\* The invariant of the walk: types and accounts.
Sound == TypeOK /\ Accounted

LEMMA SoundStep == Sound /\ [Next]_vars => Sound'
<1> SUFFICES ASSUME TypeOK, Accounted, [Next]_vars PROVE TypeOK' /\ Accounted'
    BY DEF Sound
<1>1. ASSUME NEW u \in Url, Fetch(u) PROVE TypeOK' /\ Accounted'
    <2>1. Visit(u) /\ UNCHANGED retried
        BY <1>1 DEF Fetch
    <2>2. PICK f \in Lands(u) :
             \/ /\ Record([url |-> u, final |-> f, links |-> web.links[f], challenge |-> FALSE])
                /\ Discover(u, web.links[f])
                /\ UNCHANGED failures
             \/ /\ Record([url |-> u, final |-> f, links |-> {}, challenge |-> FALSE])
                /\ Discover(u, {})
                /\ Report(u)
        BY <1>1 DEF Fetch
    <2>3. f \in Chain(u)
        BY DEF Lands
    <2>4. PICK links \in SUBSET Url : Discover(u, links)
        BY <2>2, <2>3, PageTypes
    <2>5. \E p \in Page : p.url = u /\ Record(p) /\ (UNCHANGED failures \/ Report(u))
        BY <2>2, <2>3, PageTypes
    <2>6. /\ pages' \in Seq(Page) /\ failures' \in Seq(Url)
          /\ Answered' = Answered \cup {u}
          /\ Len(pages') >= Len(pages)
          /\ \A i, j \in 1 .. Len(pages') : pages'[i].url = pages'[j].url => i = j
        BY <2>1, <2>5, Answers
    <2>7. /\ queue' \in Seq(Url)
          /\ New(u, links) \subseteq Url \ Discovered
          /\ Discovered' = Discovered \cup New(u, links)
          /\ depth' \in [Discovered' -> 0 .. MaxDepth]
          /\ Elements(queue') = Elements(Tail(queue)) \cup New(u, links)
          /\ Distinct(queue')
        BY <2>1, <2>4, Walked
    <2>8. TypeOK'
        BY <2>1, <2>6, <2>7 DEF TypeOK, Visit, snapshots
    <2>9. Accounted'
        BY <2>1, <2>6, <2>7, Visited DEF Accounted
    <2> QED BY <2>8, <2>9
<1>2. ASSUME NEW u \in Url, Retry(u) PROVE TypeOK' /\ Accounted'
    <2>1. Visit(u) /\ UNCHANGED <<depth, results>> /\ retried' = retried \cup {u}
        BY <1>2 DEF Retry
    <2>2. /\ queue' = Append(Tail(queue), u)
          /\ Tail(queue) \in Seq(Url) /\ u \notin Elements(Tail(queue)) /\ Distinct(Tail(queue))
          /\ Elements(queue) = {u} \cup Elements(Tail(queue))
        BY <1>2, <2>1, Visited DEF Retry
    <2>3. queue' \in Seq(Url) /\ Elements(queue') = Elements(queue) /\ Distinct(queue')
        <3> DEFINE t == Tail(queue)
        <3>1. t \in Seq(Url) /\ u \notin Elements(t) /\ Distinct(t)
            BY <2>2
        <3>2. queue' = Append(t, u) /\ Elements(queue) = {u} \cup Elements(t)
            BY <2>2
        <3> HIDE DEF t
        <3> QED BY <3>1, <3>2, OfAppend
    <2>4. TypeOK'
        BY <2>1, <2>3 DEF TypeOK, Visit, Discovered, results, snapshots
    <2>5. Answered' = Answered /\ Discovered' = Discovered
        BY <2>1 DEF Answered, Discovered, results
    <2>6. Accounted'
        BY <2>1, <2>3, <2>5 DEF Accounted, results
    <2> QED BY <2>4, <2>6
<1>3. ASSUME NEW u \in Url, Quarantine(u) \/ Fail(u) PROVE TypeOK' /\ Accounted'
    <2>1. Visit(u) /\ queue' = Tail(queue) /\ UNCHANGED <<depth, retried>> /\ Report(u)
        BY <1>3 DEF Quarantine, Fail
    <2>2. \/ \E p \in Page : p.url = u /\ Record(p) /\ (UNCHANGED failures \/ Report(u))
          \/ Report(u) /\ UNCHANGED pages
        <3>1. CASE Quarantine(u)
            BY <2>1, <3>1, PageTypes DEF Quarantine
        <3>2. CASE Fail(u)
            BY <3>2 DEF Fail
        <3> QED BY <1>3, <3>1, <3>2
    <2>3. /\ pages' \in Seq(Page) /\ failures' \in Seq(Url)
          /\ Answered' = Answered \cup {u}
          /\ Len(pages') >= Len(pages)
          /\ \A i, j \in 1 .. Len(pages') : pages'[i].url = pages'[j].url => i = j
        BY <2>1, <2>2, Answers
    <2>4. /\ Tail(queue) \in Seq(Url) /\ Distinct(Tail(queue))
          /\ Elements(queue) = {u} \cup Elements(Tail(queue)) /\ u \notin Elements(Tail(queue))
        BY <2>1, Visited
    <2>5. TypeOK'
        BY <2>1, <2>3, <2>4 DEF TypeOK, Visit, Discovered, snapshots
    <2>6. Accounted'
        BY <2>1, <2>3, <2>4 DEF Accounted, Discovered
    <2> QED BY <2>5, <2>6
<1>4. CASE Stop
    <2>1. TypeOK'
        BY <1>4 DEF Stop, TypeOK, Reason, Discovered, results, snapshots
    <2>2. Accounted'
        BY <1>4 DEF Stop, Accounted, Answered, Discovered, results, snapshots
    <2> QED BY <2>1, <2>2
<1>5. CASE Collect
    <2>1. quarantined' \subseteq Url
        <3>1. \A p \in Elements(pages) : p \in Page
            BY DEF Elements, TypeOK
        <3> QED BY <1>5, <3>1 DEF Collect, Page
    <2>2. TypeOK'
        BY <1>5, <2>1 DEF Collect, TypeOK, Discovered, results
    <2>3. Accounted'
        BY <1>5 DEF Collect, Accounted, Answered, Discovered, results
    <2> QED BY <2>2, <2>3
<1>6. CASE UNCHANGED vars
    BY <1>6 DEF vars, results, snapshots, TypeOK, Accounted, Answered, Discovered
<1> QED BY <1>1, <1>2, <1>3, <1>4, <1>5, <1>6 DEF Next

LEMMA SoundInit == Init => Sound
<1> SUFFICES ASSUME Init PROVE Sound
    OBVIOUS
<1>1. Seed \in Url /\ MaxDepth \in Nat
    BY CrawlerAssumption
<1>2. Discovered = {Seed} /\ depth \in [Discovered -> 0 .. MaxDepth]
    BY <1>1 DEF Init, Discovered
<1>3. queue \in Seq(Url) /\ pages \in Seq(Page) /\ failures \in Seq(Url)
    BY <1>1 DEF Init
<1>4. TypeOK
    BY <1>1, <1>2, <1>3 DEF Init, TypeOK
<1>5. Elements(queue) = {Seed} /\ Distinct(queue) /\ Answered = {}
    BY DEF Init, Elements, Distinct, Answered
<1>6. Accounted
    BY <1>2, <1>5 DEF Accounted, Init
<1> QED BY <1>4, <1>6 DEF Sound

\* Every variable of the crawler keeps its type: in particular the depths stay
\* within the limit.
THEOREM TypeCorrect == Spec => []TypeOK
BY SoundInit, SoundStep, PTL DEF Spec, Sound

\* A discovered URL waits once or has been answered, and is answered with one
\* page at most: the walk loses nothing and does nothing twice.
THEOREM NothingLost == Spec => []Accounted
BY SoundInit, SoundStep, PTL DEF Spec, Sound

-----------------------------------------------------------------------------
\* A visit adds at most one page and one failure, and none without room.
LEMMA BudgetStep == Sound /\ Budget /\ [Next]_vars => Budget'
<1> SUFFICES ASSUME TypeOK, Budget, [Next]_vars PROVE Budget'
    BY DEF Sound
<1>1. /\ pages \in Seq(Page) /\ failures \in Seq(Url) /\ MaxPages \in Nat
      /\ Len(pages) \in Nat /\ Len(failures) \in Nat
    BY CrawlerAssumption DEF TypeOK
<1>2. ASSUME NEW u \in Url, Fetch(u) \/ Quarantine(u) \/ Fail(u) PROVE Budget'
    <2>1. Len(pages) + Len(failures) < MaxPages
        BY <1>2 DEF Fetch, Quarantine, Fail, Visit, Room
    <2>2. Len(pages') \in {Len(pages), Len(pages) + 1}
        <3>1. pages' = pages \/ \E p \in Page : Record(p)
            BY <1>2, PageTypes DEF Fetch, Quarantine, Fail, Lands
        <3> QED BY <1>1, <3>1, Recorded
    <2>3. Len(failures') \in {Len(failures), Len(failures) + 1}
        <3>1. failures' = failures \/ Report(u)
            BY <1>2 DEF Fetch, Quarantine, Fail
        <3> QED BY <1>1, <3>1, Reported
    <2> QED BY <1>1, <2>1, <2>2, <2>3 DEF Budget
<1>3. ASSUME UNCHANGED results PROVE Budget'
    BY <1>3 DEF results, Budget
<1> QED BY <1>2, <1>3 DEF Next, Retry, Stop, Collect, vars

\* There are never more pages than the page budget, and at most one result more.
THEOREM BudgetHolds == Spec => []Budget
<1>1. Init => Budget
    BY CrawlerAssumption DEF Init, Budget
<1> QED BY <1>1, SoundInit, SoundStep, BudgetStep, PTL DEF Spec

-----------------------------------------------------------------------------
\* Why the walk is breadth-first: the depths along the queue never fall and span
\* two levels at most, and whatever was answered is no deeper than what waits.
Layered ==
    retried = {} =>
        /\ \A i, j \in 1 .. Len(queue) : i <= j => depth[queue[i]] <= depth[queue[j]]
        /\ \A v, x \in Elements(queue) : depth[x] <= depth[v] + 1
        /\ \A a \in Answered, v \in Elements(queue) : depth[a] <= depth[v]

\* Read pages are answered, with links among the URLs.
LEMMA PagesAnswered ==
    ASSUME TypeOK, Accounted, NEW p \in Elements(pages)
    PROVE  p \in Page /\ p.url \in Answered /\ p.url \in Discovered
BY DEF TypeOK, Accounted, Answered, Elements

\* After a visit that takes u off the queue and puts N behind it, one level below
\* u, the layers are as before.
LEMMA LayersShift ==
    ASSUME TypeOK, Accounted, Layered, retried = {}, NEW u \in Url, Visit(u),
           NEW N \in SUBSET Url, NEW s \in Seq(Url), Elements(s) = N,
           queue' = Tail(queue) \o s, depth' \in [Discovered' -> Nat],
           Discovered' = Discovered \cup N,
           \A v \in Discovered : depth'[v] = depth[v],
           \A v \in N : depth'[v] = depth[u] + 1,
           Answered' = Answered \cup {u}
    PROVE  Layered'
<1> DEFINE t == Tail(queue)
<1>1. /\ queue \in Seq(Url) /\ queue # <<>> /\ t \in Seq(Url)
      /\ u \in Discovered /\ Elements(queue) = {u} \cup Elements(t)
      /\ Elements(t) \subseteq Discovered /\ Answered \subseteq Discovered
    BY Visited DEF TypeOK, Accounted
<1>2. /\ Len(t) = Len(queue) - 1 /\ Len(queue) \in Nat
      /\ \A i \in 1 .. Len(t) : t[i] = queue[i + 1]
      /\ u = queue[1] /\ 1 \in 1 .. Len(queue)
    BY <1>1, OfTail DEF Visit
<1>3. \A v \in Discovered : depth[v] \in Nat
    BY CrawlerAssumption DEF TypeOK
<1>4. /\ \A i, j \in 1 .. Len(t) : i <= j => depth[t[i]] <= depth[t[j]]
      /\ \A v \in Elements(t) : depth[u] <= depth[v] /\ depth[v] <= depth[u] + 1
    <2>1. ASSUME NEW i \in 1 .. Len(t), NEW j \in 1 .. Len(t), i <= j
          PROVE  depth[t[i]] <= depth[t[j]]
        <3>1. i + 1 \in 1 .. Len(queue) /\ j + 1 \in 1 .. Len(queue) /\ i + 1 <= j + 1
            BY <1>2, <2>1
        <3> QED BY <1>2, <3>1 DEF Layered
    <2>2. ASSUME NEW i \in 1 .. Len(t) PROVE depth[u] <= depth[t[i]]
        <3>1. i + 1 \in 1 .. Len(queue) /\ 1 <= i + 1
            BY <1>2
        <3> QED BY <1>2, <3>1 DEF Layered
    <2>3. \A v \in Elements(t) : depth[u] <= depth[v]
        BY <2>2 DEF Elements
    <2>4. \A v \in Elements(t) : depth[v] <= depth[u] + 1
        BY <1>1 DEF Layered
    <2> QED BY <2>1, <2>3, <2>4
<1>5. \A i \in 1 .. Len(t) : t[i] \in Elements(t)
    BY InElements
<1>6. \A i \in 1 .. Len(s) : s[i] \in N
    BY InElements
<1> HIDE DEF t
<1>7. /\ Len(queue') = Len(t) + Len(s)
      /\ \A i \in 1 .. Len(t) + Len(s) : queue'[i] = IF i <= Len(t) THEN t[i] ELSE s[i - Len(t)]
      /\ Elements(queue') = Elements(t) \cup N
      /\ Len(s) \in Nat /\ Len(t) \in Nat
    <2>1. queue' = t \o s
        BY DEF t
    <2>2. /\ Len(t \o s) = Len(t) + Len(s)
          /\ \A i \in 1 .. Len(t) + Len(s) :
                (t \o s)[i] = IF i <= Len(t) THEN t[i] ELSE s[i - Len(t)]
          /\ Elements(t \o s) = Elements(t) \cup Elements(s)
        BY <1>1, OfConcat
    <2>3. Len(s) \in Nat /\ Len(t) \in Nat
        BY <1>1
    <2> DEFINE q == t \o s
    <2> HIDE DEF q
    <2> QED BY <2>1, <2>2, <2>3 DEF q
<1>8. \A v \in Elements(t) \cup N : depth'[v] \in Nat /\ depth[u] <= depth'[v] /\ depth'[v] <= depth[u] + 1
    BY <1>1, <1>3, <1>4
<1>9. ASSUME NEW i \in 1 .. Len(queue'), NEW j \in 1 .. Len(queue'), i <= j
      PROVE  depth'[queue'[i]] <= depth'[queue'[j]]
    <2>1. CASE j <= Len(t)
        <3> DEFINE q == queue'
        <3>a. /\ Len(q) = Len(t) + Len(s) /\ Len(s) \in Nat /\ Len(t) \in Nat
              /\ \A k \in 1 .. Len(t) + Len(s) : q[k] = IF k <= Len(t) THEN t[k] ELSE s[k - Len(t)]
              /\ i \in 1 .. Len(q) /\ j \in 1 .. Len(q) /\ i <= j
            BY <1>7, <1>9
        <3> HIDE DEF q
        <3>b. i \in 1 .. Len(t) /\ j \in 1 .. Len(t) /\ q[i] = t[i] /\ q[j] = t[j]
            BY <3>a, <2>1
        <3>1. i \in 1 .. Len(t) /\ j \in 1 .. Len(t) /\ queue'[i] = t[i] /\ queue'[j] = t[j]
            BY <3>b DEF q
        <3>2. depth'[t[i]] = depth[t[i]] /\ depth'[t[j]] = depth[t[j]]
            BY <1>1, <1>5, <3>1
        <3> QED BY <1>4, <1>9, <3>1, <3>2
    <2>2. CASE j > Len(t)
        <3>1. queue'[j] \in N
            <4>1. j - Len(t) \in 1 .. Len(s) /\ queue'[j] = s[j - Len(t)]
                BY <1>7, <2>2
            <4> QED BY <1>6, <4>1
        <3>2. queue'[i] \in Elements(t) \cup N
            BY <1>7, InElements
        <3>3. depth'[queue'[j]] = depth[u] + 1
            BY <3>1
        <3> QED BY <1>8, <3>2, <3>3
    <2> QED BY <1>7, <2>1, <2>2
<1>10. ASSUME NEW v \in Elements(queue'), NEW x \in Elements(queue')
       PROVE  depth'[x] <= depth'[v] + 1
    BY <1>1, <1>3, <1>7, <1>8
<1>11. ASSUME NEW a \in Answered', NEW v \in Elements(queue')
       PROVE  depth'[a] <= depth'[v]
    <2>1. a \in Discovered /\ depth[a] <= depth[u]
        BY <1>1, <1>3 DEF Layered
    <2> QED BY <1>1, <1>3, <1>7, <1>8, <2>1
<1> QED BY <1>9, <1>10, <1>11 DEF Layered

BreadthFirst == Layered /\ NoDetour

LEMMA BreadthStep == Sound /\ BreadthFirst /\ [Next]_vars => BreadthFirst'
<1> SUFFICES ASSUME TypeOK, Accounted, Layered, NoDetour, [Next]_vars
             PROVE  Layered' /\ NoDetour'
    BY DEF Sound, BreadthFirst
<1>1. ASSUME NEW u \in Url, Retry(u) PROVE Layered' /\ NoDetour'
    BY <1>1 DEF Retry, Layered, NoDetour
<1>2. ASSUME NEW u \in Url, Fetch(u) PROVE Layered' /\ NoDetour'
    <2> SUFFICES ASSUME retried = {} PROVE Layered' /\ NoDetour'
        BY <1>2 DEF Fetch, Layered, NoDetour
    <2>1. PICK f \in Lands(u), links \in SUBSET Url :
             /\ Record([url |-> u, final |-> f, links |-> links, challenge |-> FALSE])
             /\ Discover(u, links)
             /\ UNCHANGED failures \/ Report(u)
        <3>1. \A f \in Lands(u) : web.links[f] \in SUBSET Url
            BY PageTypes DEF Lands
        <3> QED BY <1>2, <3>1 DEF Fetch
    <2> DEFINE p == [url |-> u, final |-> f, links |-> links, challenge |-> FALSE]
    <2>2. Visit(u) /\ f \in Url
        BY <1>2, PageTypes DEF Fetch, Lands
    <2>3. p \in Page /\ p.url = u /\ p.links = links
        BY <2>2 DEF Page
    <2> HIDE DEF p
    <2>4. Record(p)
        BY <2>1 DEF p
    <2>5. Answered' = Answered \cup {u}
        BY <2>1, <2>2, <2>3, <2>4, Answers
    <2>6. /\ New(u, links) \subseteq Url \ Discovered
          /\ Discovered' = Discovered \cup New(u, links)
          /\ depth' \in [Discovered' -> 0 .. MaxDepth]
          /\ \A v \in Discovered : depth'[v] = depth[v]
          /\ \A v \in New(u, links) : depth'[v] = depth[u] + 1
        BY <2>1, <2>2, Walked
    <2>7. Layered'
        <3>1. /\ Sorted[New(u, links)] \in Seq(Url)
              /\ Elements(Sorted[New(u, links)]) = New(u, links)
            BY <2>6, CrawlerAssumption
        <3>2. queue' = Tail(queue) \o Sorted[New(u, links)]
            BY <2>1 DEF Discover
        <3>3. depth' \in [Discovered' -> Nat]
            BY <2>6, CrawlerAssumption
        <3> QED BY <2>2, <2>5, <2>6, <3>1, <3>2, <3>3, LayersShift
    <2>8. /\ u \in Discovered /\ depth[u] \in Nat
          /\ Elements(queue) \cup Answered = Discovered
          /\ u \in Elements(queue) /\ u \in {queue[1]} /\ 1 \in 1 .. Len(queue)
          /\ \A v \in Discovered : depth[v] \in Nat
        <3>1. u \in Discovered /\ Elements(queue) = {u} \cup Elements(Tail(queue))
            BY <2>2, Visited
        <3>2. u = queue[1] /\ 1 \in 1 .. Len(queue)
            BY <2>2 DEF Visit, TypeOK
        <3> QED BY <3>1, <3>2, CrawlerAssumption DEF TypeOK, Accounted
    <2>9. ASSUME NEW v \in Discovered PROVE depth[v] <= depth[u] + 1
        BY <2>8, <2>9 DEF Layered
    <2>10. Elements(pages') = Elements(pages) \cup {p}
        BY <2>3, <2>4, Recorded DEF TypeOK
    <2>11. ASSUME NEW q \in Elements(pages'), depth'[q.url] < MaxDepth, NEW v \in q.links
           PROVE  v \in Discovered' /\ depth'[v] <= depth'[q.url] + 1
        <3>1. CASE q = p
            <4>1. depth'[u] = depth[u] /\ depth[u] < MaxDepth /\ v \in links
                BY <2>3, <2>6, <2>8, <2>11, <3>1
            <4>2. v \in Discovered \/ v \in New(u, links)
                BY <4>1 DEF New
            <4> QED BY <2>3, <2>6, <2>8, <2>9, <3>1, <4>1, <4>2
        <3>2. CASE q \in Elements(pages)
            <4>1. q.url \in Discovered /\ depth'[q.url] = depth[q.url]
                BY <2>6, <3>2, PagesAnswered
            <4>2. v \in Discovered /\ depth[v] <= depth[q.url] + 1
                BY <2>11, <3>2, <4>1 DEF NoDetour
            <4> QED BY <2>6, <4>1, <4>2
        <3> QED BY <2>10, <2>11, <3>1, <3>2
    <2>12. NoDetour'
        BY <2>11 DEF NoDetour
    <2> QED BY <2>7, <2>12
<1>3. ASSUME NEW u \in Url, Quarantine(u) \/ Fail(u) PROVE Layered' /\ NoDetour'
    <2> SUFFICES ASSUME retried = {} PROVE Layered' /\ NoDetour'
        BY <1>3 DEF Quarantine, Fail, Layered, NoDetour
    <2>1. Visit(u) /\ queue' = Tail(queue) /\ UNCHANGED <<depth, retried>> /\ Report(u)
        BY <1>3 DEF Quarantine, Fail
    <2>2. \/ \E p \in Page : p.url = u /\ p.links = {} /\ Record(p)
          \/ UNCHANGED pages
        <3>1. CASE Quarantine(u)
            BY <3>1, PageTypes DEF Quarantine
        <3>2. CASE Fail(u)
            BY <3>2 DEF Fail
        <3> QED BY <1>3, <3>1, <3>2
    <2>3. Answered' = Answered \cup {u}
        BY <2>1, <2>2, Answers
    <2>4. Layered'
        <3>1. /\ Tail(queue) \in Seq(Url) /\ <<>> \in Seq(Url)
              /\ Elements(<<>>) = {} /\ {} \in SUBSET Url
            BY <2>1, Visited DEF Elements
        <3>2. queue' = Tail(queue) \o <<>>
            BY <2>1, <3>1, ConcatEmptySeq
        <3>3. Discovered' = Discovered \cup {} /\ depth' \in [Discovered' -> Nat]
            BY <2>1, CrawlerAssumption DEF TypeOK, Discovered
        <3>4. /\ \A v \in Discovered : depth'[v] = depth[v]
              /\ \A v \in {} : depth'[v] = depth[u] + 1
            BY <2>1
        <3> QED BY <2>1, <2>3, <3>1, <3>2, <3>3, <3>4, LayersShift
    <2>5. \A p \in Elements(pages') : p \in Elements(pages) \/ p.links = {}
        BY <2>2, Recorded DEF TypeOK
    <2>6. NoDetour'
        BY <2>1, <2>5 DEF NoDetour, Discovered
    <2> QED BY <2>4, <2>6
<1>4. ASSUME UNCHANGED <<queue, depth, retried, results>> PROVE Layered' /\ NoDetour'
    BY <1>4 DEF results, Layered, NoDetour, Answered, Discovered
<1> QED BY <1>1, <1>2, <1>3, <1>4 DEF Next, Stop, Collect, vars

\* While no challenge has put a URL back, the walk is breadth-first.
THEOREM ShortestWays == Spec => []NoDetour
<1>1. Init => BreadthFirst
    <2> SUFFICES ASSUME Init PROVE BreadthFirst
        OBVIOUS
    <2>1. Elements(queue) = {Seed} /\ Answered = {} /\ Elements(pages) = {}
        BY DEF Init, Elements, Answered
    <2>2. depth[Seed] = 0 /\ Len(queue) = 1 /\ queue[1] = Seed
        BY DEF Init
    <2>3. Layered
        BY <2>1, <2>2 DEF Layered
    <2> QED BY <2>1, <2>3 DEF BreadthFirst, NoDetour
<1> QED BY <1>1, SoundInit, SoundStep, BreadthStep, PTL DEF Spec, BreadthFirst

-----------------------------------------------------------------------------
\* Induction over numbers, from the library's minimal elements of a well-founded
\* relation: a set of numbers has a least one, and one that holds 0 and with a
\* number the next holds them all.
LEMMA LeastNumber ==
    ASSUME NEW T, T \subseteq Nat, T # {}
    PROVE  \E m \in T : \A n \in T : m <= n
<1> DEFINE R == {ss \in Nat \X Nat : ss[1] < ss[2]}
<1>1. IsWellFoundedOn(R, Nat)
    BY NatLessThanWellFounded DEF OpToRel
<1>2. \A a, b \in Nat : <<a, b>> \in R <=> a < b
    OBVIOUS
<1> HIDE DEF R
<1>3. PICK m \in T : \A n \in T : ~(<<n, m>> \in R)
    BY <1>1, WFMin
<1>4. \A n \in T : ~(n < m)
    BY <1>2, <1>3
<1> QED BY <1>3, <1>4, SMT

LEMMA EveryNumber ==
    ASSUME NEW T, 0 \in T, \A n \in Nat : n \in T => n + 1 \in T
    PROVE  \A n \in Nat : n \in T
<1> SUFFICES ASSUME Nat \ T # {} PROVE FALSE
    OBVIOUS
<1>1. PICK m \in Nat \ T : \A n \in Nat \ T : m <= n
    BY LeastNumber
<1>2. m # 0 /\ m - 1 \in Nat /\ m - 1 \in T
    BY <1>1
<1>3. (m - 1) + 1 \in T
    BY <1>2
<1> QED BY <1>1, <1>2, <1>3

\* h begins the sequence of the iterations of g on a.
Starts(h, n, a, g) == h[0] = a /\ \A k \in 1 .. n : h[k] = g[h[k - 1]]

\* A function over the numbers may be defined by recursion: every beginning can
\* be continued, two beginnings agree, and the function takes their last values.
LEMMA Iterated ==
    ASSUME NEW S, NEW a \in S, NEW g \in [S -> S]
    PROVE  \E f \in [Nat -> S] : f[0] = a /\ \A n \in Nat : f[n + 1] = g[f[n]]
<1> DEFINE P(n) == \E h \in [0 .. n -> S] : Starts(h, n, a, g)
           T == {n \in Nat : P(n)}
<1>1. 0 \in T
    <2> DEFINE h == [k \in 0 .. 0 |-> a]
    <2>1. h \in [0 .. 0 -> S] /\ Starts(h, 0, a, g)
        BY DEF Starts
    <2> QED BY <2>1
<1>2. ASSUME NEW n \in Nat, n \in T PROVE n + 1 \in T
    <2>1. PICK h \in [0 .. n -> S] : Starts(h, n, a, g)
        BY <1>2
    <2> DEFINE i == [k \in 0 .. n + 1 |-> IF k <= n THEN h[k] ELSE g[h[n]]]
    <2>2. i \in [0 .. n + 1 -> S]
        OBVIOUS
    <2>3. Starts(i, n + 1, a, g)
        BY <2>1 DEF Starts
    <2> QED BY <2>2, <2>3
<1>3. \A n \in Nat : P(n)
    <2> HIDE DEF P
    <2>1. \A n \in Nat : n \in T
        <3> HIDE DEF T
        <3> QED BY <1>1, <1>2, EveryNumber
    <2> QED BY <2>1
<1>4. ASSUME NEW m \in Nat, NEW n \in Nat, NEW h, NEW i, Starts(h, m, a, g), Starts(i, n, a, g)
      PROVE  \A k \in Nat : k <= m /\ k <= n => h[k] = i[k]
    <2> DEFINE U == {k \in Nat : k <= m /\ k <= n => h[k] = i[k]}
    <2>1. 0 \in U
        BY <1>4 DEF Starts
    <2>2. ASSUME NEW k \in Nat, k \in U PROVE k + 1 \in U
        <3> SUFFICES ASSUME k + 1 <= m, k + 1 <= n PROVE h[k + 1] = i[k + 1]
            OBVIOUS
        <3>1. k + 1 \in 1 .. m /\ k + 1 \in 1 .. n /\ (k + 1) - 1 = k /\ h[k] = i[k]
            BY <2>2
        <3> QED BY <1>4, <3>1 DEF Starts
    <2>3. \A k \in Nat : k \in U
        <3> HIDE DEF U
        <3> QED BY <2>1, <2>2, EveryNumber
    <2> QED BY <2>3
<1> DEFINE H(n) == CHOOSE h \in [0 .. n -> S] : Starts(h, n, a, g)
           f == [n \in Nat |-> H(n)[n]]
<1>5. \A n \in Nat : H(n) \in [0 .. n -> S] /\ Starts(H(n), n, a, g)
    BY <1>3
<1> HIDE DEF H
<1>6. f \in [Nat -> S]
    BY <1>5
<1>7. f[0] = a
    BY <1>5 DEF Starts
<1>8. ASSUME NEW n \in Nat PROVE f[n + 1] = g[f[n]]
    <2>1. H(n)[n] = H(n + 1)[n]
        BY <1>4, <1>5
    <2>2. H(n + 1)[n + 1] = g[H(n + 1)[n]]
        <3>1. Starts(H(n + 1), n + 1, a, g) /\ n + 1 \in 1 .. n + 1 /\ (n + 1) - 1 = n
            BY <1>5
        <3> QED BY <3>1 DEF Starts
    <2> QED BY <2>1, <2>2
<1> QED BY <1>6, <1>7, <1>8

-----------------------------------------------------------------------------
\* The recursive functions of Hop and Within satisfy their equations.
LEMMA Hops ==
    ASSUME TypeOK, NEW u \in Url
    PROVE  /\ Hop(u)[0] = u
           /\ \A k \in Nat : Hop(u)[k + 1] = IF Hop(u)[k] = Nil THEN Nil ELSE web.to[Hop(u)[k]]
<1> DEFINE S == Url \cup {Nil}
           g == [x \in S |-> IF x = Nil THEN Nil ELSE web.to[x]]
           N(at) == [k \in Nat |-> IF k = 0 THEN u
                                   ELSE IF at[k - 1] = Nil THEN Nil
                                   ELSE web.to[at[k - 1]]]
<1>1. g \in [S -> S] /\ u \in S
    <2>1. web.to \in [Url -> Url \cup {Nil}]
        BY CrawlerAssumption DEF TypeOK
    <2> QED BY <2>1
<1>2. PICK f \in [Nat -> S] : f[0] = u /\ \A n \in Nat : f[n + 1] = g[f[n]]
    <2> HIDE DEF g, S
    <2> QED BY <1>1, Iterated
<1>3. f = N(f)
    <2>1. ASSUME NEW k \in Nat PROVE f[k] = N(f)[k]
        <3>1. CASE k = 0
            BY <1>2, <3>1
        <3>2. CASE k # 0
            <4>1. k - 1 \in Nat /\ (k - 1) + 1 = k
                BY <3>2
            <4>2. f[k] = g[f[k - 1]] /\ f[k - 1] \in S
                BY <1>2, <4>1
            <4> QED BY <3>2, <4>2
        <3> QED BY <3>1, <3>2
    <2>2. f = [k \in Nat |-> f[k]] /\ N(f) = [k \in Nat |-> N(f)[k]]
        BY <1>2
    <2> QED BY <2>1, <2>2
<1>4. Hop(u) = N(Hop(u))
    <2>1. Hop(u) = CHOOSE h : h = N(h)
        BY DEF Hop
    <2> HIDE DEF N
    <2> QED BY <1>3, <2>1
<1>5. ASSUME NEW k \in Nat
      PROVE  Hop(u)[k + 1] = IF Hop(u)[k] = Nil THEN Nil ELSE web.to[Hop(u)[k]]
    <2>1. k + 1 \in Nat /\ (k + 1) - 1 = k /\ k + 1 # 0
        OBVIOUS
    <2> DEFINE h == Hop(u)
    <2>2. h = N(h)
        BY <1>4
    <2> HIDE DEF h
    <2>3. h[k + 1] = IF h[k] = Nil THEN Nil ELSE web.to[h[k]]
        BY <2>1, <2>2
    <2> QED BY <2>3 DEF h
<1>6. Hop(u)[0] = u
    <2> DEFINE h == Hop(u)
    <2>1. h = N(h)
        BY <1>4
    <2> HIDE DEF h
    <2>2. h[0] = u
        BY <2>1
    <2> QED BY <2>2 DEF h
<1> QED BY <1>5, <1>6

\* Redirects lead to one page at most: after a URL that does not redirect there is
\* no further hop.
LEMMA OneLanding ==
    ASSUME TypeOK, NEW u \in Url, NEW e \in Lands(u), NEW f \in Lands(u)
    PROVE  e = f
<1>1. /\ e \in Url /\ f \in Url /\ web.to[e] = Nil /\ web.to[f] = Nil
      /\ e # Nil /\ f # Nil
    BY CrawlerAssumption DEF Lands, Chain
<1>2. PICK m \in 0 .. MaxRedirects, n \in 0 .. MaxRedirects : e = Hop(u)[m] /\ f = Hop(u)[n]
    BY DEF Lands, Chain
<1>3. ASSUME NEW k \in Nat, NEW j \in Nat, Hop(u)[k] # Nil, web.to[Hop(u)[k]] = Nil, j > k
      PROVE  Hop(u)[j] = Nil
    <2> DEFINE T == {i \in Nat : Hop(u)[(k + 1) + i] = Nil}
    <2>1. 0 \in T
        BY <1>3, Hops
    <2>2. ASSUME NEW i \in Nat, i \in T PROVE i + 1 \in T
        <3>1. (k + 1) + i \in Nat /\ (k + 1) + (i + 1) = ((k + 1) + i) + 1
            OBVIOUS
        <3> QED BY <2>2, <3>1, Hops
    <2>3. \A i \in Nat : i \in T
        <3> HIDE DEF T
        <3> QED BY <2>1, <2>2, EveryNumber
    <2>4. j - (k + 1) \in Nat /\ (k + 1) + (j - (k + 1)) = j
        BY <1>3
    <2> QED BY <2>3, <2>4
<1>4. m \in Nat /\ n \in Nat
    BY CrawlerAssumption
<1> QED BY <1>1, <1>2, <1>3, <1>4

\* One level of the reference.
Beyond(W) == W \cup UNION {web.links[f] : f \in UNION {Lands(u) : u \in W}}

LEMMA Levels ==
    ASSUME TypeOK
    PROVE  Within[0] = {Seed} /\ \A n \in Nat : Within[n + 1] = Beyond(Within[n])
<1> DEFINE S == SUBSET Url
           g == [W \in S |-> Beyond(W)]
           N(within) == [n \in Nat |-> IF n = 0 THEN {Seed} ELSE Beyond(within[n - 1])]
<1>1. g \in [S -> S] /\ {Seed} \in S
    <2>1. \A u \in Url : \A f \in Lands(u) : web.links[f] \subseteq Url
        BY PageTypes DEF Lands
    <2> QED BY <2>1, CrawlerAssumption DEF Beyond
<1>2. PICK f \in [Nat -> S] : f[0] = {Seed} /\ \A n \in Nat : f[n + 1] = g[f[n]]
    <2> HIDE DEF g, S
    <2> QED BY <1>1, Iterated
<1>3. f = N(f)
    <2>1. ASSUME NEW n \in Nat PROVE f[n] = N(f)[n]
        <3>1. CASE n = 0
            BY <1>2, <3>1
        <3>2. CASE n # 0
            <4>1. n - 1 \in Nat /\ (n - 1) + 1 = n
                BY <3>2
            <4>2. f[n] = g[f[n - 1]] /\ f[n - 1] \in S
                BY <1>2, <4>1
            <4> QED BY <3>2, <4>2
        <3> QED BY <3>1, <3>2
    <2>2. f = [n \in Nat |-> f[n]] /\ N(f) = [n \in Nat |-> N(f)[n]]
        BY <1>2
    <2> QED BY <2>1, <2>2
<1> DEFINE w == Within
<1>4. w = N(w)
    <2>1. Within = CHOOSE h : h = N(h)
        BY DEF Within, Beyond
    <2> HIDE DEF N
    <2> QED BY <1>3, <2>1
<1> HIDE DEF w
<1>5. w[0] = {Seed}
    BY <1>4
<1>6. ASSUME NEW n \in Nat PROVE w[n + 1] = Beyond(w[n])
    <2>1. n + 1 \in Nat /\ (n + 1) - 1 = n /\ n + 1 # 0
        OBVIOUS
    <2> QED BY <1>4, <2>1
<1> QED BY <1>5, <1>6 DEF w

\* Where the depths come from: every URL but the seed was found on a page that is
\* one level above it, and as long as nothing failed every page was read where its
\* URL lands.
Grounded ==
    /\ stopped = "queue_exhausted" => queue = <<>>
    /\ Seed \in Discovered
    /\ \A v \in Discovered : depth[v] = 0 <=> v = Seed
    /\ \A v \in Discovered \ {Seed} :
          \E p \in Elements(pages) : v \in p.links /\ depth[v] = depth[p.url] + 1
    /\ failures = <<>> =>
          \A p \in Elements(pages) : \E f \in Lands(p.url) : p.links = web.links[f]

LEMMA GroundedStep == Sound /\ Grounded /\ [Next]_vars => Grounded'
<1> SUFFICES ASSUME TypeOK, Accounted, Grounded, [Next]_vars PROVE Grounded'
    BY DEF Sound
<1>1. /\ pages \in Seq(Page) /\ failures \in Seq(Url) /\ MaxDepth \in Nat
      /\ Len(failures) \in Nat
      /\ \A v \in Discovered : depth[v] \in Nat
    BY CrawlerAssumption DEF TypeOK
<1>2. ASSUME NEW u \in Url, Report(u) PROVE failures' # <<>>
    <2>1. Len(failures') = Len(failures) + 1
        BY <1>1, <1>2, Reported
    <2> QED BY <1>1, <2>1
<1>3. ASSUME NEW u \in Url, web' = web PROVE Lands(u)' = Lands(u)
    BY <1>3 DEF Lands, Chain, Hop
<1>4. ASSUME NEW u \in Url, Fetch(u) PROVE Grounded'
    <2>1. PICK f \in Lands(u), links \in SUBSET Url :
             /\ Record([url |-> u, final |-> f, links |-> links, challenge |-> FALSE])
             /\ Discover(u, links)
             /\ (UNCHANGED failures /\ links = web.links[f]) \/ Report(u)
        <3>1. \A f \in Lands(u) : web.links[f] \in SUBSET Url
            BY PageTypes DEF Lands
        <3> QED BY <1>4, <3>1 DEF Fetch
    <2> DEFINE p == [url |-> u, final |-> f, links |-> links, challenge |-> FALSE]
               N == New(u, links)
    <2>2. Visit(u) /\ f \in Url
        BY <1>4, PageTypes DEF Fetch, Lands
    <2>3. p \in Page /\ p.url = u /\ p.links = links
        BY <2>2 DEF Page
    <2> HIDE DEF p
    <2>4. Elements(pages') = Elements(pages) \cup {p}
        BY <1>1, <2>1, <2>3, Recorded DEF p
    <2>5. /\ N \subseteq Url \ Discovered
          /\ Discovered' = Discovered \cup N
          /\ \A v \in Discovered : depth'[v] = depth[v]
          /\ \A v \in N : depth'[v] = depth[u] + 1
          /\ u \in Discovered
        BY <2>1, <2>2, Walked, Visited
    <2>6. N \subseteq links
        BY DEF New
    <2> HIDE DEF N
    <2>7. \A v \in Discovered' : depth'[v] = 0 <=> v = Seed
        BY <1>1, <2>5 DEF Grounded
    <2>8. ASSUME NEW v \in Discovered' \ {Seed}
          PROVE  \E q \in Elements(pages') : v \in q.links /\ depth'[v] = depth'[q.url] + 1
        <3>1. CASE v \in N
            BY <2>3, <2>4, <2>5, <2>6, <3>1
        <3>2. CASE v \in Discovered
            <4>1. PICK q \in Elements(pages) : v \in q.links /\ depth[v] = depth[q.url] + 1
                BY <2>8, <3>2 DEF Grounded
            <4>2. q.url \in Discovered
                BY PagesAnswered
            <4> QED BY <2>4, <2>5, <3>2, <4>1, <4>2
        <3> QED BY <2>5, <2>8, <3>1, <3>2
    <2>9. ASSUME failures' = <<>>, NEW q \in Elements(pages')
          PROVE  \E e \in Lands(q.url)' : q.links = web'.links[e]
        <3>1. UNCHANGED failures /\ links = web.links[f] /\ web' = web
            BY <1>2, <2>1, <2>2, <2>9 DEF Visit
        <3>2. CASE q = p
            BY <1>3, <2>1, <2>3, <3>1, <3>2
        <3>3. CASE q \in Elements(pages)
            <4>1. q.url \in Url
                BY <3>3, PagesAnswered DEF TypeOK
            <4> QED BY <1>3, <2>9, <3>1, <3>3, <4>1 DEF Grounded
        <3> QED BY <2>4, <3>2, <3>3
    <2> QED BY <2>2, <2>5, <2>7, <2>8, <2>9 DEF Grounded, Visit
<1>5. ASSUME NEW u \in Url, Quarantine(u) \/ Fail(u) PROVE Grounded'
    <2>1. failures' # <<>> /\ depth' = depth /\ stopped' = "no"
        BY <1>2, <1>5 DEF Quarantine, Fail, Visit
    <2>2. \A p \in Elements(pages) : p \in Elements(pages')
        <3>1. pages' = pages \/ \E p \in Page : Record(p)
            BY <1>5, PageTypes DEF Quarantine, Fail
        <3> QED BY <1>1, <3>1, Recorded
    <2> QED BY <2>1, <2>2 DEF Grounded, Discovered
<1>6. ASSUME UNCHANGED <<web, depth, results>>,
             stopped' = "queue_exhausted" => queue' = <<>>
      PROVE  Grounded'
    <2>1. \A p \in Elements(pages) : Lands(p.url)' = Lands(p.url)
        BY <1>3, <1>6, PagesAnswered DEF TypeOK
    <2> QED BY <1>6, <2>1 DEF Grounded, Discovered, results
<1>7. ASSUME NEW u \in Url, Retry(u) PROVE Grounded'
    BY <1>6, <1>7 DEF Retry, Visit
<1>8. CASE Stop
    <2>1. stopped' = "queue_exhausted" => queue' = <<>>
        BY <1>8 DEF Stop
    <2> QED BY <1>6, <1>8, <2>1 DEF Stop
<1>9. CASE Collect \/ UNCHANGED vars
    <2>1. UNCHANGED <<web, depth, results, queue, stopped>>
        BY <1>9 DEF Collect, vars
    <2> QED BY <1>6, <2>1 DEF Grounded
<1> QED BY <1>4, <1>5, <1>7, <1>8, <1>9 DEF Next

\* A walk that nothing cut short, refused or put back has discovered, level by
\* level, what the reference says.
LEMMA GroundedComplete == Sound /\ BreadthFirst /\ Grounded => Complete
<1> SUFFICES ASSUME TypeOK, Accounted, NoDetour, Grounded,
                    stopped = "queue_exhausted", failures = <<>>, retried = {}
             PROVE  /\ Discovered = Within[MaxDepth]
                    /\ \A u \in Discovered, n \in 0 .. MaxDepth : u \in Within[n] <=> depth[u] <= n
    BY DEF Sound, BreadthFirst, Complete
<1> DEFINE Level(n) == {u \in Discovered : depth[u] <= n}
           T == {n \in Nat : n <= MaxDepth => Within[n] = Level(n)}
<1>1. /\ MaxDepth \in Nat /\ \A u \in Discovered : depth[u] \in 0 .. MaxDepth
      /\ Discovered \subseteq Url
    BY CrawlerAssumption DEF TypeOK
<1>2. \A u \in Discovered : \E p \in Elements(pages) : p.url = u
    <2>1. Elements(queue) = {} /\ Elements(failures) = {}
        BY DEF Grounded, Elements
    <2> QED BY <2>1 DEF Accounted, Answered
<1>3. 0 \in T
    BY <1>1, Levels DEF Grounded
<1>4. ASSUME NEW n \in Nat, n \in T PROVE n + 1 \in T
    <2> SUFFICES ASSUME n + 1 <= MaxDepth PROVE Within[n + 1] = Level(n + 1)
        OBVIOUS
    <2>1. Within[n] = Level(n) /\ Within[n + 1] = Beyond(Within[n]) /\ n < MaxDepth
        BY <1>1, <1>4, Levels
    <2>2. ASSUME NEW u \in Within[n], NEW f \in Lands(u), NEW v \in web.links[f]
          PROVE  v \in Level(n + 1)
        <3>1. u \in Discovered /\ depth[u] <= n /\ u \in Url
            BY <1>1, <2>1
        <3>2. PICK p \in Elements(pages) : p.url = u
            BY <1>2, <3>1
        <3>3. p.links = web.links[f]
            BY <3>1, <3>2, OneLanding DEF Grounded
        <3>4. v \in Discovered /\ depth[v] <= depth[u] + 1
            BY <1>1, <2>1, <3>1, <3>2, <3>3 DEF NoDetour
        <3> QED BY <1>1, <3>1, <3>4
    <2>3. ASSUME NEW v \in Level(n + 1) PROVE v \in Beyond(Within[n])
        <3>1. CASE depth[v] <= n
            BY <2>1, <3>1 DEF Beyond
        <3>2. CASE depth[v] > n
            <4>1. depth[v] = n + 1 /\ v # Seed
                BY <1>1, <3>2 DEF Grounded
            <4>2. PICK p \in Elements(pages) : v \in p.links /\ depth[v] = depth[p.url] + 1
                BY <4>1 DEF Grounded
            <4>3. p.url \in Discovered
                BY PagesAnswered
            <4>4. p.url \in Within[n]
                BY <1>1, <2>1, <4>1, <4>2, <4>3
            <4>5. PICK f \in Lands(p.url) : p.links = web.links[f]
                BY DEF Grounded
            <4> QED BY <4>2, <4>4, <4>5 DEF Beyond
        <3> QED BY <1>1, <3>1, <3>2
    <2>4. Level(n) \subseteq Level(n + 1)
        BY <1>1
    <2>5. Beyond(Within[n]) \subseteq Level(n + 1)
        BY <2>1, <2>2, <2>4 DEF Beyond
    <2> QED BY <2>1, <2>3, <2>5
<1>5. \A n \in Nat : n \in T
    <2> HIDE DEF T
    <2> QED BY <1>3, <1>4, EveryNumber
<1>6. \A n \in 0 .. MaxDepth : Within[n] = Level(n)
    BY <1>1, <1>5
<1>7. Discovered = Level(MaxDepth)
    BY <1>1
<1>8. Discovered = Within[MaxDepth]
    <2>1. MaxDepth \in 0 .. MaxDepth
        BY <1>1
    <2>2. Within[MaxDepth] = Level(MaxDepth)
        BY <1>6, <2>1
    <2> QED BY <1>7, <2>2
<1>9. ASSUME NEW u \in Discovered, NEW n \in 0 .. MaxDepth
      PROVE  u \in Within[n] <=> depth[u] <= n
    BY <1>6
<1> QED BY <1>8, <1>9

\* A crawl that came to its end without a failure or a second chance has discovered
\* exactly the URLs within the maximal depth, each at its distance from the seed.
THEOREM CrawlComplete == Spec => []Complete
<1>1. Init => BreadthFirst /\ Grounded
    <2> SUFFICES ASSUME Init PROVE BreadthFirst /\ Grounded
        OBVIOUS
    <2>1. Elements(queue) = {Seed} /\ Answered = {} /\ Elements(pages) = {}
        BY DEF Init, Elements, Answered
    <2>2. depth[Seed] = 0 /\ Len(queue) = 1 /\ queue[1] = Seed /\ Discovered = {Seed}
        BY DEF Init, Discovered
    <2>3. Layered
        BY <2>1, <2>2 DEF Layered
    <2>4. Grounded
        BY <2>1, <2>2 DEF Grounded, Init
    <2> QED BY <2>1, <2>3, <2>4 DEF BreadthFirst, NoDetour
<1> QED BY <1>1, SoundInit, SoundStep, BreadthStep, GroundedStep, GroundedComplete, PTL
        DEF Spec
=============================================================================
