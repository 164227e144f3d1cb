-------------------------- MODULE PackageTree_proofs --------------------------
(***************************************************************************)
(* Theorems about an audit (SiteAudit), what a package reads of it         *)
(* (PackageRows), what it compiles from that (PackageContents), and the    *)
(* folder it makes of it (PackageTree): for any site, profile, number of   *)
(* attempts, choice of the pages a rule may find, market, and answers of   *)
(* the language model.                                                     *)
(***************************************************************************)
EXTENDS PackageInvariants, FiniteSetTheorems, FunctionTheorems, WellFoundedInduction, TLAPS

-----------------------------------------------------------------------------
(* Induction and recursion over numbers.                                   *)

\* A set of numbers has a least one, by the library's minimal elements of a well-founded
\* relation.
LEMMA LeastNumber ==
    ASSUME NEW T, T \subseteq Nat, T # {}
    PROVE  \E m \in T : \A n \in T : m <= n
<1> DEFINE R == {ss \in Nat \X Nat : ss[1] < ss[2]}
<1>1. IsWellFoundedOn(R, Nat)
    BY NatLessThanWellFounded DEF OpToRel
<1>2. \A a, b \in Nat : <<a, b>> \in R <=> a < b
    OBVIOUS
<1> HIDE DEF R
<1>3. PICK m \in T : \A n \in T : ~(<<n, m>> \in R)
    BY <1>1, WFMin
<1>4. \A n \in T : ~(n < m)
    BY <1>2, <1>3
<1> QED BY <1>3, <1>4, SMT

\* A set that holds 0, and with a number the next, holds every number.
LEMMA EveryNumber ==
    ASSUME NEW T, 0 \in T, \A n \in Nat : n \in T => n + 1 \in T
    PROVE  \A n \in Nat : n \in T
<1> SUFFICES ASSUME Nat \ T # {} PROVE FALSE
    OBVIOUS
<1>1. PICK m \in Nat \ T : \A n \in Nat \ T : m <= n
    BY LeastNumber
<1>2. m # 0 /\ m - 1 \in Nat /\ m - 1 \in T
    BY <1>1
<1>3. (m - 1) + 1 \in T
    BY <1>2
<1> QED BY <1>1, <1>2, <1>3

\* h is what comes of a by the steps g, up to the n-th.
Starts(h, n, a, g) == h[0] = a /\ \A k \in 1 .. n : h[k] = g[k - 1][h[k - 1]]

Steps(g, S) == g \in [Nat -> [S -> S]]
Iterates(f, S, a, g) == f \in [Nat -> S] /\ f[0] = a /\ \A n \in Nat : f[n + 1] = g[n][f[n]]

\* A function over the numbers may be defined by recursion: every beginning can be continued,
\* two beginnings agree, and the function takes their last values.
LEMMA Iterated ==
    ASSUME NEW S, NEW a \in S, NEW g, Steps(g, S)
    PROVE  \E f : Iterates(f, S, a, g)
<1> DEFINE P(n) == \E h \in [0 .. n -> S] : Starts(h, n, a, g)
           T == {n \in Nat : P(n)}
<1> USE DEF Steps
<1>1. 0 \in T
    <2> DEFINE h == [k \in 0 .. 0 |-> a]
    <2>1. h \in [0 .. 0 -> S] /\ Starts(h, 0, a, g)
        BY DEF Starts
    <2> QED BY <2>1
<1>2. ASSUME NEW n \in Nat, n \in T PROVE n + 1 \in T
    <2>1. PICK h \in [0 .. n -> S] : Starts(h, n, a, g)
        BY <1>2
    <2> DEFINE i == [k \in 0 .. n + 1 |-> IF k <= n THEN h[k] ELSE g[n][h[n]]]
    <2>2. i \in [0 .. n + 1 -> S]
        OBVIOUS
    <2>3. Starts(i, n + 1, a, g)
        BY <2>1 DEF Starts
    <2> QED BY <2>2, <2>3
<1>3. \A n \in Nat : P(n)
    <2> HIDE DEF P
    <2>1. \A n \in Nat : n \in T
        <3> HIDE DEF T
        <3> QED BY <1>1, <1>2, EveryNumber
    <2> QED BY <2>1
<1>4. ASSUME NEW m \in Nat, NEW n \in Nat, NEW h, NEW i, Starts(h, m, a, g), Starts(i, n, a, g)
      PROVE  \A k \in Nat : k <= m /\ k <= n => h[k] = i[k]
    <2> DEFINE U == {k \in Nat : k <= m /\ k <= n => h[k] = i[k]}
    <2>1. 0 \in U
        BY <1>4 DEF Starts
    <2>2. ASSUME NEW k \in Nat, k \in U PROVE k + 1 \in U
        <3> SUFFICES ASSUME k + 1 <= m, k + 1 <= n PROVE h[k + 1] = i[k + 1]
            OBVIOUS
        <3>1. k + 1 \in 1 .. m /\ k + 1 \in 1 .. n /\ (k + 1) - 1 = k /\ h[k] = i[k]
            BY <2>2
        <3> QED BY <1>4, <3>1 DEF Starts
    <2>3. \A k \in Nat : k \in U
        <3> HIDE DEF U
        <3> QED BY <2>1, <2>2, EveryNumber
    <2> QED BY <2>3
<1> DEFINE H(n) == CHOOSE h \in [0 .. n -> S] : Starts(h, n, a, g)
           f == [n \in Nat |-> H(n)[n]]
<1>5. \A n \in Nat : H(n) \in [0 .. n -> S] /\ Starts(H(n), n, a, g)
    BY <1>3
<1> HIDE DEF H
<1>6. f \in [Nat -> S]
    BY <1>5
<1>7. f[0] = a
    BY <1>5 DEF Starts
<1>8. ASSUME NEW n \in Nat PROVE f[n + 1] = g[n][f[n]]
    <2>1. H(n)[n] = H(n + 1)[n]
        BY <1>4, <1>5
    <2>2. H(n + 1)[n + 1] = g[n][H(n + 1)[n]]
        <3>1. Starts(H(n + 1), n + 1, a, g) /\ n + 1 \in 1 .. n + 1 /\ (n + 1) - 1 = n
            BY <1>5
        <3> QED BY <3>1 DEF Starts
    <2> QED BY <2>1, <2>2
<1> QED BY <1>6, <1>7, <1>8 DEF Iterates

\* What an element at the end of a sequence does to what it holds.
LEMMA OneMore ==
    ASSUME NEW X, NEW t \in Seq(X), NEW e \in X
    PROVE  /\ Append(t, e) \in Seq(X)
           /\ \A x : Holds(Append(t, e), x) <=> Holds(t, x) \/ x = e
           /\ Differ(t, 1 .. Len(t)) /\ ~Holds(t, e) => Differ(Append(t, e), 1 .. Len(Append(t, e)))
<1> DEFINE u == Append(t, e)
<1>1. /\ u \in Seq(X) /\ Len(u) = Len(t) + 1 /\ Len(t) \in Nat
      /\ \A i \in 1 .. Len(t) : u[i] = t[i]
      /\ u[Len(t) + 1] = e
    OBVIOUS
<1> HIDE DEF u
<1>2. \A x : Holds(u, x) <=> Holds(t, x) \/ x = e
    BY <1>1 DEF Holds
<1>3. Differ(t, 1 .. Len(t)) /\ ~Holds(t, e) => Differ(u, 1 .. Len(u))
    BY <1>1 DEF Holds, Differ
<1> QED BY <1>1, <1>2, <1>3 DEF u

\* The numbers up to the next one.
LEMMA UpToNext == \A i, n \in Nat : i <= n + 1 <=> i <= n \/ i = n + 1
OBVIOUS

\* The elements taken from the first n places, for any n.
Takes(t, s, places, n) ==
    /\ \A x : Holds(t, x) <=> \E i \in places : i <= n /\ s[i] = x
    /\ Differ(s, places) => Differ(t, 1 .. Len(t))
    /\ Len(t) = Cardinality({i \in places : i <= n})

\* The element of the next place, when it is one of those wanted, is taken too.
LEMMA TakesNext ==
    ASSUME NEW X, NEW s, NEW places \in SUBSET Nat, NEW n \in Nat,
           NEW t \in Seq(X), Takes(t, s, places, n), n + 1 \in places, s[n + 1] \in X
    PROVE  Append(t, s[n + 1]) \in Seq(X) /\ Takes(Append(t, s[n + 1]), s, places, n + 1)
<1> DEFINE u == Append(t, s[n + 1])
<1>1. /\ u \in Seq(X)
      /\ \A x : Holds(u, x) <=> Holds(t, x) \/ x = s[n + 1]
      /\ Differ(t, 1 .. Len(t)) /\ ~Holds(t, s[n + 1]) => Differ(u, 1 .. Len(u))
    BY OneMore
<1> HIDE DEF u
<1>2. ASSUME NEW x PROVE Holds(u, x) <=> \E i \in places : i <= n + 1 /\ s[i] = x
    <2>1. (\E i \in places : i <= n + 1 /\ s[i] = x) <=> (\E i \in places : i <= n /\ s[i] = x) \/ x = s[n + 1]
        <3>1. \A i \in places : i <= n + 1 <=> i <= n \/ i = n + 1
            BY UpToNext
        <3> QED BY <3>1
    <2> QED BY <1>1, <2>1 DEF Takes
<1>3. ASSUME Differ(s, places) PROVE ~Holds(t, s[n + 1])
    <2>1. \A i \in places : i <= n => i # n + 1
        OBVIOUS
    <2> QED BY <1>3, <2>1 DEF Takes, Differ
<1>4. Len(u) = Cardinality({i \in places : i <= n + 1})
    <2> DEFINE A == {i \in places : i <= n}  B == {i \in places : i <= n + 1}
    <2>1. \A i \in places : i <= n + 1 <=> i <= n \/ i = n + 1
        BY UpToNext
    <2>6. A \subseteq places /\ B \subseteq places /\ \A i \in places : (i \in A <=> i <= n) /\ (i \in B <=> i <= n + 1)
        OBVIOUS
    <2>9. \A i \in places : i \in Nat /\ (i <= n => i # n + 1)
        OBVIOUS
    <2> HIDE DEF A, B
    <2>2. B = A \cup {n + 1} /\ n + 1 \notin A
        BY <2>1, <2>6, <2>9
    <2>7. A \subseteq 0 .. n
        <3>1. \A i \in A : i \in Nat /\ i <= n
            BY <2>6, <2>9
        <3> QED BY <3>1
    <2>8. IsFiniteSet(0 .. n)
        BY FS_Interval
    <2>3. IsFiniteSet(A)
        BY <2>7, <2>8, FS_Subset
    <2>4. Len(u) = Len(t) + 1 /\ Len(t) = Cardinality(A)
        <3>1. Len(Append(t, s[n + 1])) = Len(t) + 1
            OBVIOUS
        <3>2. Len(t) = Cardinality(A)
            BY DEF Takes, A
        <3> QED BY <3>1, <3>2 DEF u
    <2>5. Cardinality(A \cup {n + 1}) = Cardinality(A) + 1
        BY <2>2, <2>3, FS_AddElement
    <2> QED BY <2>2, <2>4, <2>5 DEF B
<1> QED BY <1>1, <1>2, <1>3, <1>4 DEF Takes, u

\* What is taken, place by place.
Takings(h, s, places) ==
    /\ h[0] = <<>>
    /\ \A n \in Nat : h[n + 1] = IF n + 1 \in places THEN Append(h[n], s[n + 1]) ELSE h[n]

\* So all of them are taken that come up to any place.
LEMMA Taken ==
    ASSUME NEW X, NEW s, NEW places \in SUBSET (Nat \ {0}), \A i \in places : s[i] \in X,
           NEW h, Takings(h, s, places)
    PROVE  \A n \in Nat : h[n] \in Seq(X) /\ Takes(h[n], s, places, n)
<1> DEFINE T == {n \in Nat : h[n] \in Seq(X) /\ Takes(h[n], s, places, n)}
<1>1. 0 \in T
    <2>1. h[0] \in Seq(X) /\ Len(h[0]) = 0
        BY DEF Takings
    <2>4. Cardinality({}) = 0
        BY FS_EmptySet
    <2>5. {i \in places : i <= 0} = {}
        <3>1. \A i \in places : i \in Nat /\ i # 0
            OBVIOUS
        <3>2. \A i \in places : ~(i <= 0)
            BY <3>1
        <3> QED BY <3>2
    <2>6. Len(h[0]) = Cardinality({i \in places : i <= 0})
        BY <2>1, <2>4, <2>5
    <2>7. (\A x : ~Holds(h[0], x)) /\ Differ(h[0], 1 .. Len(h[0]))
        BY <2>1 DEF Holds, Differ
    <2>2. Takes(h[0], s, places, 0)
        BY <2>5, <2>6, <2>7 DEF Takes
    <2>3. 0 \in Nat
        OBVIOUS
    <2> QED BY <2>1, <2>2, <2>3
<1>2. ASSUME NEW n \in Nat, n \in T PROVE n + 1 \in T
    <2>1. CASE n + 1 \notin places
        <3>1. h[n + 1] = h[n]
            BY <2>1 DEF Takings
        <3>2. \A i \in places : i <= n + 1 <=> i <= n
            <4>1. \A i \in places : i \in Nat /\ i # n + 1
                BY <2>1
            <4> QED BY <4>1, UpToNext
        <3>5. {i \in places : i <= n + 1} = {i \in places : i <= n}
            BY <3>2
        <3>3. Takes(h[n + 1], s, places, n + 1)
            BY <1>2, <3>1, <3>2, <3>5 DEF Takes
        <3>4. h[n + 1] \in Seq(X)
            BY <1>2, <3>1
        <3> HIDE DEF T
        <3> QED BY <3>3, <3>4 DEF T
    <2>2. CASE n + 1 \in places
        <3>1. h[n + 1] = Append(h[n], s[n + 1]) /\ h[n] \in Seq(X) /\ Takes(h[n], s, places, n)
            BY <1>2, <2>2 DEF Takings
        <3>2. places \in SUBSET Nat /\ s[n + 1] \in X
            BY <2>2
        <3> HIDE DEF T
        <3>3. Append(h[n], s[n + 1]) \in Seq(X) /\ Takes(Append(h[n], s[n + 1]), s, places, n + 1)
            BY <2>2, <3>1, <3>2, TakesNext
        <3>4. h[n + 1] \in Seq(X) /\ Takes(h[n + 1], s, places, n + 1)
            BY <3>1, <3>3
        <3> QED BY <3>4 DEF T
    <2> QED BY <2>1, <2>2
<1>3. \A n \in Nat : n \in T
    <2> HIDE DEF T
    <2> QED BY <1>1, <1>2, EveryNumber
<1> QED BY <1>3

\* Only keeps the type of a sequence, the elements at its places, that they differ, and their number.
LEMMA OnlyTakes ==
    ASSUME NEW X, NEW s \in Seq(X), NEW places \in SUBSET (1 .. Len(s))
    PROVE  /\ Only(s, places) \in Seq(X)
           /\ \A x : Holds(Only(s, places), x) <=> \E i \in places : s[i] = x
           /\ Differ(s, places) => Differ(Only(s, places), 1 .. Len(Only(s, places)))
           /\ Len(Only(s, places)) = Cardinality(places)
<1> DEFINE S == Seq(X)
           Step(n, t) == IF n + 1 \in places THEN Append(t, s[n + 1]) ELSE t
           g == [n \in Nat |-> [t \in S |-> Step(n, t)]]
           N(taken) == [n \in Nat |-> IF n = 0 THEN <<>>
                                      ELSE IF n \in places THEN Append(taken[n - 1], s[n]) ELSE taken[n - 1]]
<1>1. \A n \in Nat : n + 1 \in places => s[n + 1] \in X
    OBVIOUS
<1>2. ASSUME NEW n \in Nat, NEW t \in S PROVE Step(n, t) \in S
    BY <1>1
<1>3. PICK f \in [Nat -> S] : f[0] = <<>> /\ \A n \in Nat : f[n + 1] = Step(n, f[n])
    <2> DEFINE none == <<>>
    <2>1. none \in S
        OBVIOUS
    <2> HIDE DEF Step, S, N
    <2>2. g \in [Nat -> [S -> S]] /\ \A n \in Nat, t \in S : g[n][t] = Step(n, t)
        BY <1>2
    <2> HIDE DEF g, none
    <2>3. PICK f : Iterates(f, S, none, g)
        <3>1. Steps(g, S)
            BY <2>2 DEF Steps
        <3> QED BY <2>1, <3>1, Iterated
    <2>4. f \in [Nat -> S] /\ \A n \in Nat : f[n] \in S
        BY <2>3 DEF Iterates
    <2> QED BY <2>2, <2>3, <2>4 DEF none, Iterates
<1> HIDE DEF S
<1>4. \A n \in Nat : \A t : n # 0 => (n - 1 \in Nat /\ Step(n - 1, t) = IF n \in places THEN Append(t, s[n]) ELSE t)
    OBVIOUS
<1> HIDE DEF Step
<1>5. f = N(f)
    <2>1. ASSUME NEW n \in Nat PROVE f[n] = N(f)[n]
        <3>1. CASE n = 0
            BY <1>3, <3>1
        <3>2. CASE n # 0
            <4>1. n - 1 \in Nat /\ (n - 1) + 1 = n
                BY <3>2
            <4>2. f[n] = Step(n - 1, f[n - 1])
                BY <1>3, <4>1
            <4> QED BY <1>4, <3>2, <4>2
        <3> QED BY <3>1, <3>2
    <2>2. f = [n \in Nat |-> f[n]] /\ N(f) = [n \in Nat |-> N(f)[n]]
        BY <1>3
    <2> QED BY <2>1, <2>2
<1> DEFINE h == CHOOSE taken : taken = N(taken)
<1>6. h = N(h)
    <2> HIDE DEF N
    <2> QED BY <1>5
<1>7. Only(s, places) = h[Len(s)]
    BY DEF Only
<1> HIDE DEF h
<1>8. h[0] = <<>>
    BY <1>6
<1>9. ASSUME NEW n \in Nat PROVE h[n + 1] = IF n + 1 \in places THEN Append(h[n], s[n + 1]) ELSE h[n]
    <2>1. n + 1 \in Nat /\ n + 1 # 0 /\ (n + 1) - 1 = n
        OBVIOUS
    <2> QED BY <1>6, <2>1
<1> HIDE DEF N
<1>10. /\ Len(s) \in Nat /\ places \in SUBSET (Nat \ {0})
       /\ \A i \in places : s[i] \in X /\ i <= Len(s)
    OBVIOUS
<1>11. h[Len(s)] \in Seq(X) /\ Takes(h[Len(s)], s, places, Len(s))
    <2>1. Takings(h, s, places)
        BY <1>8, <1>9 DEF Takings
    <2> QED BY <1>10, <2>1, Taken
<1>12. {i \in places : i <= Len(s)} = places
    BY <1>10
<1> QED BY <1>7, <1>10, <1>11, <1>12 DEF Takes

-----------------------------------------------------------------------------
(* Types.                                                                  *)

\* What a claim clears, and what Find, Cite and Recommend write, keep the references whole.
LEMMA TypeStep == IInv /\ [Next]_vars => TypeOK'
<1> SUFFICES ASSUME IInv, [Next]_vars PROVE TypeOK'
    OBVIOUS
<1> USE SiteAuditAssumption DEF IInv, TypeOK, PcStep
<1>1. CASE Claim
    <2>1. evidence' \subseteq DOMAIN rows' /\ recommendations' \subseteq DOMAIN findings'
        BY <1>1 DEF Claim, Clear, plan, Empties
    <2> QED BY <1>1, <2>1 DEF Claim
<1>2. CASE Crawl \/ Skip
    BY <1>2 DEF Crawl, Skip, plan
<1>3. CASE Page
    <2>1. DOMAIN rows \subseteq DOMAIN rows'
        BY <1>3 DEF Page, With
    <2> QED BY <1>3, <2>1 DEF Page, plan
<1>4. CASE Observe
    BY <1>4 DEF Observe, plan, RowsAreSeen
<1>5. CASE Collected \/ Evaluate
    BY <1>5 DEF Collected, Evaluate, plan
<1>6. CASE Find
    <2>1. DOMAIN findings \subseteq DOMAIN findings'
        BY <1>6 DEF Find, With
    <2> QED BY <1>6, <2>1 DEF Find, memory
<1>7. CASE Cite
    <2>1. DOMAIN findings' = DOMAIN findings
        BY <1>7 DEF Cite
    <2> QED BY <1>7, <2>1 DEF Cite, memory
<1>8. CASE Recommend
    BY <1>8 DEF Recommend, memory, PlanKeepsUp, InHand
<1>9. CASE Act
    BY <1>9 DEF Act
<1>10. CASE Review \/ Score \/ Fail \/ FailLater
    BY <1>10 DEF Review, Score, Fail, FailLater, memory, plan
<1>11. CASE UNCHANGED vars
    BY <1>11 DEF vars
<1> QED BY <1>1, <1>2, <1>3, <1>4, <1>5, <1>6, <1>7, <1>8, <1>9, <1>10, <1>11 DEF Next

-----------------------------------------------------------------------------
(* The rows of the pages.                                                  *)

\* A page is added to the rows and to what was seen in one step; a claim starts without rows.
LEMMA RowsStep == IInv /\ [Next]_vars => RowsAreSeen'
<1> SUFFICES ASSUME IInv, [Next]_vars PROVE RowsAreSeen'
    OBVIOUS
<1> USE DEF IInv, TypeOK, PcStep, RowsAreSeen, Collecting, PlanKeepsUp
<1>1. CASE Claim
    BY <1>1 DEF Claim, Clear
<1>2. CASE Crawl \/ Skip
    <2>1. CASE Crawl
        BY <2>1 DEF Crawl, Empties
    <2>2. CASE Skip
        BY <2>2 DEF Skip
    <2> QED BY <1>2, <2>1, <2>2
<1>3. CASE Page
    <2>1. DOMAIN rows' = {Head(todo).url} \cup DOMAIN rows
        BY <1>3 DEF Page, With
    <2> QED BY <1>3, <2>1 DEF Page
<1>4. CASE Observe \/ Collected \/ Evaluate
    BY <1>4 DEF Observe, Collected, Evaluate
<1>5. CASE Find \/ Cite \/ Recommend \/ Act
    BY <1>5 DEF Find, Cite, Recommend, Act, memory
<1>6. CASE Review \/ Score \/ Fail \/ FailLater
    BY <1>6 DEF Review, Score, Fail, FailLater, memory
<1>7. CASE UNCHANGED vars
    BY <1>7 DEF vars
<1> QED BY <1>1, <1>2, <1>3, <1>4, <1>5, <1>6, <1>7 DEF Next

-----------------------------------------------------------------------------
(* The findings, their recommendations and their actions.                  *)

\* Actions are only written by Act, and lose their link at a claim.
LEMMA ActionsStep == IInv /\ [Next]_vars => ActionsAreRows'
<1> SUFFICES ASSUME IInv, [Next]_vars PROVE ActionsAreRows'
    OBVIOUS
<1> USE DEF IInv, ActionsAreRows
<1>1. CASE Claim
    <2>1. CASE actions' = actions
        BY <2>1
    <2>2. CASE actions' = {[a EXCEPT !.linked = FALSE] : a \in actions}
        BY <2>2
    <2> QED BY <1>1, <2>1, <2>2 DEF Claim, Clear, plan
<1>2. CASE Act
    BY <1>2 DEF Act
<1>3. CASE Crawl \/ Skip \/ Page \/ Observe \/ Collected \/ Evaluate
    BY <1>3 DEF Crawl, Skip, Page, Observe, Collected, Evaluate, plan
<1>4. CASE Find \/ Cite \/ Recommend \/ Review \/ Score \/ Fail \/ FailLater
    BY <1>4 DEF Find, Cite, Recommend, Review, Score, Fail, FailLater, plan
<1>5. CASE UNCHANGED vars
    BY <1>5 DEF vars
<1> QED BY <1>1, <1>2, <1>3, <1>4, <1>5 DEF Next

\* A claim starts with nothing that is linked, whatever a failed attempt has left.
LEMMA ClaimStep == IInv /\ Claim => PlanKeepsUp'
<1> SUFFICES ASSUME IInv, Claim PROVE PlanKeepsUp'
    OBVIOUS
<1> USE DEF IInv, PlanKeepsUp, ActionsAreRows
<1>1. LinkedActions' = {}
    <2>1. CASE state = "FAILED"
        <3>1. \A a \in actions' : a.linked = FALSE
            BY <2>1 DEF Claim, Clear
        <3> QED BY <3>1 DEF LinkedActions
    <2>2. CASE state # "FAILED"
        BY <2>2 DEF Claim, LinkedActions, plan
    <2> QED BY <2>1, <2>2
<1>2. findings' = Empties /\ recommendations' = {}
    BY DEF Claim, Clear, plan, TypeOK
<1> QED BY <1>1, <1>2 DEF Claim, Writing, InHand, Empties

\* Find, Cite, Recommend and Act serve the code in hand and leave the others served.
LEMMA WriteStep == IInv /\ (Find \/ Cite \/ Recommend \/ Act) => PlanKeepsUp'
<1> SUFFICES ASSUME IInv, Find \/ Cite \/ Recommend \/ Act PROVE PlanKeepsUp'
    OBVIOUS
<1> USE DEF IInv, TypeOK, PlanKeepsUp, Writing, InHand, Served
<1>1. CASE Find
    <2>1. DOMAIN findings' = {Head(todo)} \cup DOMAIN findings
        BY <1>1 DEF Find, With
    <2>2. LinkedActions' = LinkedActions
        BY <1>1 DEF Find, LinkedActions
    <2> QED BY <1>1, <2>1, <2>2 DEF Find, memory
<1>2. CASE Cite
    <2>1. DOMAIN findings' = DOMAIN findings
        BY <1>2 DEF Cite
    <2>2. LinkedActions' = LinkedActions
        BY <1>2 DEF Cite, LinkedActions
    <2> QED BY <1>2, <2>1, <2>2 DEF Cite, memory
<1>3. CASE Recommend
    <2>1. LinkedActions' = LinkedActions
        BY <1>3 DEF Recommend, LinkedActions
    <2> QED BY <1>3, <2>1 DEF Recommend, memory
<1>4. CASE Act
    <2>1. PICK x : x.code = Head(todo) /\ x.attempt = attempt /\ x.linked /\ actions' = actions \cup {x}
        BY <1>4 DEF Act
    <2>2. LinkedActions' = LinkedActions \cup {x}
        BY <2>1 DEF LinkedActions
    <2> QED BY <1>4, <2>1, <2>2 DEF Act
<1> QED BY <1>1, <1>2, <1>3, <1>4

\* The other steps write none of the three.
LEMMA PlanStep == IInv /\ [Next]_vars => PlanKeepsUp'
<1> SUFFICES ASSUME IInv, [Next]_vars, ~Claim, ~(Find \/ Cite \/ Recommend \/ Act) PROVE PlanKeepsUp'
    BY ClaimStep, WriteStep
<1> USE DEF IInv, TypeOK, PlanKeepsUp, Writing, InHand, Served
<1>1. plan' = plan /\ LinkedActions' = LinkedActions
    BY DEF Next, Crawl, Skip, Page, Observe, Collected, Evaluate, Review, Score, Fail, FailLater, vars, plan, LinkedActions
<1>2. CASE Crawl \/ Skip \/ Page \/ Observe \/ Collected
    BY <1>1, <1>2 DEF Crawl, Skip, Page, Observe, Collected, plan
<1>3. CASE Evaluate
    BY <1>1, <1>3 DEF Evaluate, plan, Empties
<1>4. CASE Review \/ Score
    BY <1>1, <1>4 DEF Review, Score, plan
<1>5. CASE Fail \/ FailLater
    BY <1>1, <1>5 DEF Fail, FailLater, plan
<1>6. CASE UNCHANGED vars
    BY <1>1, <1>6 DEF vars, plan
<1> QED BY <1>2, <1>3, <1>4, <1>5, <1>6 DEF Next

-----------------------------------------------------------------------------
(* The theorems.                                                           *)

\* A run that was never claimed has no rows, no plan and no task.
LEMMA InitIInv == Init => IInv
BY SiteAuditAssumption DEF Init, IInv, TypeOK, PcStep, RowsAreSeen, Collecting, PlanKeepsUp, Writing, InHand, Served,
   ActionsAreRows, LinkedActions, Empties

\* The inductive invariant holds of every behaviour.
LEMMA Invariant == Spec => []IInv
<1>1. IInv /\ [Next]_vars => IInv'
    BY TypeStep, RowsStep, PlanStep, ActionsStep DEF IInv
<1> QED BY InitIInv, <1>1, PTL DEF Spec

\* Every variable keeps its type; evidence and recommendations refer to rows that are there.
THEOREM TypeCorrect == Spec => []TypeOK
<1>1. IInv => TypeOK
    BY DEF IInv
<1> QED BY Invariant, <1>1, PTL

\* No retry, after any number of failures anywhere, meets a row that an earlier attempt has left
\* (audit_engine/tasks.py:441).
THEOREM RetriesCollect == Spec => []RetryCollects
<1>1. IInv => RetryCollects
    BY DEF IInv, RowsAreSeen, Collecting, RetryCollects
<1> QED BY Invariant, <1>1, PTL

\* The review begins with a recommendation and a linked action of this attempt for each finding,
\* and with none for anything else, whichever attempts have failed before and wherever.
THEOREM PlanCompletes == Spec => []PlanIsComplete
<1>1. IInv => PlanIsComplete
    BY DEF IInv, PlanKeepsUp, Writing, InHand, Served, PlanIsComplete
<1> QED BY Invariant, <1>1, PTL

-----------------------------------------------------------------------------
(* The crawl's pages.                                                      *)

\* A URL is walled if some item of the result found it challenged.
LEMMA WalledBy == \A u : u \in Walled <=> \E p \in Range(result) : p.challenge /\ p.url = u
BY DEF Walled, Range

\* The head and the tail of a sequence.
LEMMA HeadAndTail ==
    ASSUME NEW X, NEW s \in Seq(X), s # <<>>
    PROVE  /\ 1 \in DOMAIN s /\ Head(s) = s[1] /\ Head(s) \in X
           /\ Tail(s) \in Seq(X)
           /\ \A i \in DOMAIN Tail(s) : i + 1 \in DOMAIN s /\ Tail(s)[i] = s[i + 1]
           /\ \A i \in DOMAIN s : i = 1 \/ (i - 1 \in DOMAIN Tail(s) /\ Tail(s)[i - 1] = s[i])
OBVIOUS

\* The items of a crawl, with their places: the challenged ones come first.
LEMMA CrawlCollects == IInv /\ Collects /\ Crawl => Collects'
<1> SUFFICES ASSUME IInv, Collects, Crawl PROVE Collects'
    OBVIOUS
<1>1. PICK c \in Crawls[attempt] : result' = [i \in DOMAIN c |-> [c[i] EXCEPT !.at = i]]
    BY DEF Crawl
<1>2. c \in Seq(Range(c)) /\ \A i \in DOMAIN c : Crawled(c[i]) /\ c[i].url \in URL /\ c[i].challenge \in BOOLEAN
    <2>1. c \in Seq(Range(c)) /\ \A p \in Range(c) : Crawled(p)
        BY <1>1, SiteAuditAssumption DEF Collects, Crawl
    <2>2. \A i \in DOMAIN c : c[i] \in Range(c)
        BY DEF Range
    <2> QED BY <2>1, <2>2 DEF Crawled
<1>3. /\ DOMAIN c = 1 .. Len(c) /\ Len(c) \in Nat
    BY <1>2
<1>4. result' \in Seq(Range(result')) /\ DOMAIN result' = 1 .. Len(result')
    BY <1>1, <1>3 DEF Range
<1>5. PagesTyped'
    <2>1. \A i \in DOMAIN c : /\ result'[i].url = c[i].url /\ result'[i].challenge = c[i].challenge
                              /\ result'[i].at = i /\ i \in Nat /\ Crawled(result'[i])
        <3> SUFFICES ASSUME NEW i \in DOMAIN c
                     PROVE  /\ result'[i].url = c[i].url /\ result'[i].challenge = c[i].challenge
                            /\ result'[i].at = i /\ i \in Nat /\ Crawled(result'[i])
            OBVIOUS
        <3>1. PICK p : p = c[i] /\ Crawled(p)
            BY <1>2
        <3>2. result'[i] = [p EXCEPT !.at = i] /\ i \in Nat
            BY <1>1, <1>3, <3>1
        <3>3. [p EXCEPT !.at = i].at = i /\ Crawled([p EXCEPT !.at = i])
            BY <3>1 DEF Crawled, PageFacts
        <3> QED BY <3>1, <3>2, <3>3 DEF Crawled, PageFacts
    <2> QED BY <1>1, <1>2, <2>1 DEF PagesTyped, Range
<1>6. SeenPages'
    <2>1. seen' = {} /\ quarantined' = <<>>
        BY DEF Crawl, Collects
    <2> QED BY <2>1 DEF SeenPages, Range
<1>7. ChallengesFirst'
    <2> DEFINE X == Range(result')  s == result'
               P == {i \in DOMAIN s : s[i].challenge}  Q == {i \in DOMAIN s : ~s[i].challenge}
               t == Only(s, P)  w == Only(s, Q)
    <2>1. todo' = t \o w
        BY DEF Crawl, Order, Challenged, Fetched
    <2>2. s \in Seq(X) /\ P \in SUBSET (1 .. Len(s)) /\ Q \in SUBSET (1 .. Len(s))
        BY <1>4
    <2> HIDE DEF t, w, P, Q, X, s
    <2>3. t \in Seq(X) /\ \A x : Holds(t, x) <=> \E i \in P : s[i] = x
        BY <2>2, OnlyTakes DEF t
    <2>4. w \in Seq(X) /\ \A x : Holds(w, x) <=> \E i \in Q : s[i] = x
        BY <2>2, OnlyTakes DEF w
    <2>5. \A i \in 1 .. Len(t) : t[i].challenge
        BY <2>3 DEF Holds, P
    <2>6. \A i \in 1 .. Len(w) : ~w[i].challenge
        BY <2>4 DEF Holds, Q
    <2>7. /\ t \o w \in Seq(X) /\ DOMAIN (t \o w) = 1 .. Len(t) + Len(w)
          /\ Len(t) \in Nat /\ Len(w) \in Nat
          /\ \A i \in 1 .. Len(t) : (t \o w)[i] = t[i]
          /\ \A i \in 1 .. Len(t) + Len(w) : i > Len(t) => (t \o w)[i] = w[i - Len(t)] /\ i - Len(t) \in 1 .. Len(w)
        BY <2>3, <2>4
    <2>8. \A i, j \in DOMAIN (t \o w) : i < j /\ (t \o w)[j].challenge => (t \o w)[i].challenge
        BY <2>5, <2>6, <2>7
    <2>9. \A p \in X : p.challenge => \E i \in DOMAIN (t \o w) : (t \o w)[i] = p
        <3> SUFFICES ASSUME NEW p \in X, p.challenge PROVE Holds(t, p)
            BY <2>7 DEF Holds
        <3> QED BY <2>3 DEF X, P, s, Range
    <2> QED BY <2>1, <2>7, <2>8, <2>9 DEF ChallengesFirst, X
<1> QED BY <1>4, <1>5, <1>6, <1>7 DEF Crawl, Collects, Writing, IInv, TypeOK

\* A page that was not seen gets a row, and is quarantined if it is challenged; a fetched item
\* of a walled URL comes too late for that.
LEMMA PageCollects == IInv /\ Collects /\ Page => Collects'
<1> SUFFICES ASSUME IInv, Collects, Page PROVE Collects'
    OBVIOUS
<1> DEFINE p == Head(todo)
<1>1. /\ result \in Seq(Range(result)) /\ PagesTyped /\ SeenPages /\ ChallengesFirst /\ todo # <<>>
      /\ result' = result /\ todo' = todo /\ pc' = "evidence" /\ attempt' = attempt
      /\ attempt \in 1 .. MaxAttempts
      /\ seen' = seen \cup {p.url} /\ p.url \notin seen
      /\ quarantined' = IF p.challenge THEN Append(quarantined, p.url) ELSE quarantined
      /\ rows' = With(rows, p.url, p)
    BY DEF Collects, Collecting, Page
<1>2. p \in Range(result) /\ 1 \in DOMAIN todo /\ p = todo[1] /\ \A i \in DOMAIN todo : i = 1 \/ 1 < i
    BY <1>1, HeadAndTail DEF ChallengesFirst
<1>3. p.url \in URL /\ p.challenge \in BOOLEAN
    BY <1>1, <1>2 DEF PagesTyped
<1>4. p.url \in Walled <=> p.challenge
    <2>1. p.challenge => p.url \in Walled
        BY <1>2, WalledBy
    <2>2. ASSUME NEW q \in Range(result), q.challenge, q.url = p.url PROVE p.challenge
        <3>1. PICK i \in DOMAIN todo : todo[i] = q
            BY <1>1, <2>2 DEF ChallengesFirst
        <3> QED BY <1>1, <1>2, <2>2, <3>1 DEF ChallengesFirst
    <2> QED BY <2>1, <2>2, WalledBy
<1>5. Walled' = Walled
    BY <1>1 DEF Walled
<1> HIDE DEF p
<1>6. Range(quarantined') = Range(quarantined) \cup (IF p.challenge THEN {p.url} ELSE {}) /\ quarantined' \in Seq(URL)
    <2>1. CASE p.challenge
        <3>1. quarantined \in Seq(URL) /\ quarantined' = Append(quarantined, p.url)
            BY <1>1, <2>1 DEF SeenPages
        <3> QED BY <1>3, <2>1, <3>1 DEF Range
    <2>2. CASE ~p.challenge
        BY <1>1, <2>2 DEF SeenPages
    <2> QED BY <2>1, <2>2
<1>7. SeenPages'
    <2>1. DOMAIN rows' = DOMAIN rows \cup {p.url} /\ rows'[p.url] = p /\ \A u \in DOMAIN rows : u # p.url => rows'[u] = rows[u]
        BY <1>1 DEF With
    <2>2. Range(quarantined') = seen' \cap Walled'
        BY <1>1, <1>4, <1>5, <1>6 DEF SeenPages
    <2> QED BY <1>1, <1>2, <1>6, <2>1, <2>2 DEF SeenPages
<1>8. ChallengesFirst' /\ PagesTyped'
    BY <1>1 DEF ChallengesFirst, PagesTyped
<1> QED BY <1>1, <1>7, <1>8 DEF Collects, Writing, p

\* Once an item is done with, the order of those left and of those seen remains.
LEMMA NextItem ==
    IInv /\ Collects /\ (Skip \/ Observe) => ChallengesFirst'
<1> SUFFICES ASSUME IInv, Collects, Skip \/ Observe PROVE ChallengesFirst'
    OBVIOUS
<1>1. /\ todo # <<>> /\ Head(todo).url \in seen /\ ChallengesFirst
      /\ todo' = Tail(todo) /\ result' = result /\ seen' = seen
    BY DEF Collects, Collecting, Skip, Observe
<1>2. todo \in Seq(Range(result))
    BY <1>1 DEF ChallengesFirst
<1> DEFINE X == Range(result)
<1> HIDE DEF X
<1>3. /\ Tail(todo) \in Seq(X) /\ Head(todo) = todo[1]
      /\ \A i \in DOMAIN Tail(todo) : i + 1 \in DOMAIN todo /\ Tail(todo)[i] = todo[i + 1]
      /\ \A i \in DOMAIN todo : i = 1 \/ (i - 1 \in DOMAIN Tail(todo) /\ Tail(todo)[i - 1] = todo[i])
    BY <1>1, <1>2, HeadAndTail DEF X
<1>4. \A i, j \in DOMAIN Tail(todo) : i < j /\ Tail(todo)[j].challenge => Tail(todo)[i].challenge
    <2>1. DOMAIN Tail(todo) \subseteq Nat
        BY <1>3
    <2> QED BY <1>1, <1>3, <2>1 DEF ChallengesFirst
<1>5. ASSUME NEW p \in X, p.challenge, p.url \notin seen PROVE \E i \in DOMAIN Tail(todo) : Tail(todo)[i] = p
    <2>1. PICK i \in DOMAIN todo : todo[i] = p
        BY <1>1, <1>5 DEF ChallengesFirst, X
    <2>2. i # 1
        BY <1>1, <1>3, <1>5, <2>1
    <2> QED BY <1>3, <2>1, <2>2
<1> QED BY <1>1, <1>3, <1>4, <1>5 DEF ChallengesFirst, X

\* Every step keeps the pages, the quarantine and the items left in agreement.
LEMMA CollectsStep == IInv /\ Collects /\ [Next]_vars => Collects'
<1> SUFFICES ASSUME IInv, Collects, [Next]_vars, ~Crawl, ~Page PROVE Collects'
    BY CrawlCollects, PageCollects
<1>1. CASE Claim
    BY <1>1, SiteAuditAssumption DEF IInv, TypeOK, Claim, Collects, Collecting, Writing
<1> SUFFICES ASSUME ~Claim PROVE Collects'
    BY <1>1
<1>2. /\ attempt' = attempt /\ (pc' # "idle" => pc # "idle")
      /\ pc' # "idle" => result' = result /\ seen' = seen /\ quarantined' = quarantined /\ rows' = rows
    BY DEF Next, Skip, Observe, Collected, Evaluate, Find, Cite, Recommend, Act, Review, Score, Fail, FailLater, memory, vars
<1>3. CASE UNCHANGED vars
    BY <1>3 DEF vars, Collects, PagesTyped, SeenPages, ChallengesFirst, Read, Collecting, Writing, Walled
<1> SUFFICES ASSUME Next PROVE Collects'
    BY <1>3
<1>4. pc' # "idle" => pc # "crawl" /\ pc' # "crawl"
    BY <1>2 DEF IInv, TypeOK, PcStep, Next, Skip, Observe, Collected, Evaluate, Find, Cite, Recommend, Act, Review, Score, Fail, FailLater
<1>5. pc' # "idle" => PagesTyped' /\ SeenPages'
    BY <1>2, <1>4 DEF Collects, PagesTyped, SeenPages, Walled
<1>6. Collecting' => ChallengesFirst'
    <2>1. Collecting' => Skip \/ Observe
        BY DEF Next, Skip, Observe, Collected, Evaluate, Find, Cite, Recommend, Act, Review, Score, Fail, FailLater, Collecting
    <2> QED BY <2>1, NextItem
<1>7. pc' # "evidence"
    BY DEF Next, Skip, Observe, Collected, Evaluate, Find, Cite, Recommend, Act, Review, Score, Fail, FailLater
<1>8. (Writing \/ pc \in {"rules", "score"})' => Read' # {}
    <2>3. (Writing \/ pc \in {"rules", "score"})' => pc' # "idle"
        BY DEF Writing
    <2>4. pc' # "idle" => Read' = Read
        BY <1>2 DEF Read
    <2> SUFFICES ASSUME (Writing \/ pc \in {"rules", "score"})' PROVE Read # {}
        BY <2>3, <2>4
    <2>1. CASE Collected
        BY <2>1 DEF Collected, Writing
    <2>2. CASE ~Collected
        <3>1. Writing \/ pc \in {"rules", "score"}
            BY <2>2 DEF Next, Skip, Observe, Evaluate, Find, Cite, Recommend, Act, Review, Score, Fail, FailLater, Writing
        <3> QED BY <3>1 DEF Collects
    <2> QED BY <2>1, <2>2
<1> QED BY <1>2, <1>4, <1>5, <1>6, <1>7, <1>8 DEF Collects

-----------------------------------------------------------------------------
(* Sums over a finite set, as the fold of the community modules has them.  *)

Pick(s) == CHOOSE x \in s : TRUE
Sums(f, H, w) == f = [s \in SUBSET H |-> IF s = {} THEN 0 ELSE w[Pick(s)] + f[s \ {Pick(s)}]]

\* Taking one element away makes a finite set smaller by one.
LEMMA WithoutOne ==
    ASSUME NEW s, IsFiniteSet(s), s # {}
    PROVE  /\ Pick(s) \in s /\ IsFiniteSet(s \ {Pick(s)}) /\ Cardinality(s) \in Nat \ {0}
           /\ Cardinality(s \ {Pick(s)}) = Cardinality(s) - 1
<1>1. Pick(s) \in s
    BY DEF Pick
<1>2. Cardinality(s) \in Nat /\ Cardinality(s) # 0
    BY FS_CardinalityType, FS_EmptySet
<1> QED BY <1>1, <1>2, FS_RemoveElement

\* The sum of the sets of n elements, from that of the sets of n - 1.
LEMMA SumExists ==
    ASSUME NEW H, IsFiniteSet(H), NEW w \in [H -> Nat]
    PROVE  \E f : Sums(f, H, w)
<1> DEFINE S == [SUBSET H -> Nat]
           zero == [s \in SUBSET H |-> 0]
           More(t) == [s \in SUBSET H |-> IF s = {} THEN 0 ELSE w[Pick(s)] + t[s \ {Pick(s)}]]
           g == [n \in Nat |-> [t \in S |-> More(t)]]
<1>1. zero \in S
    OBVIOUS
<1>2. \A s \in SUBSET H : s # {} => Pick(s) \in H /\ s \ {Pick(s)} \in SUBSET H
    BY DEF Pick
<1>3. Steps(g, S)
    <2>1. ASSUME NEW t \in S PROVE More(t) \in S
        BY <1>2
    <2> HIDE DEF More, S
    <2> QED BY <2>1 DEF Steps
<1>4. \A n \in Nat, t \in S : g[n][t] = More(t)
    OBVIOUS
<1>5. PICK F : Iterates(F, S, zero, g)
    <2> HIDE DEF S, zero, g
    <2> QED BY <1>1, <1>3, Iterated
<1>6. \A n \in Nat : F[n] \in S /\ F[n + 1] = More(F[n])
    <2> HIDE DEF S, zero, g, More
    <2> QED BY <1>4, <1>5 DEF Iterates
<1>7. F[0] = zero
    BY <1>5 DEF Iterates
<1> HIDE DEF g
<1> DEFINE f == [s \in SUBSET H |-> F[Cardinality(s)][s]]
<1>8. \A s \in SUBSET H : IsFiniteSet(s)
    BY FS_Subset
<1>9. ASSUME NEW s \in SUBSET H
      PROVE  f[s] = IF s = {} THEN 0 ELSE w[Pick(s)] + f[s \ {Pick(s)}]
    <2>1. CASE s = {}
        <3>1. Cardinality(s) = 0
            BY <2>1, FS_EmptySet
        <3> QED BY <1>7, <2>1, <3>1
    <2>2. CASE s # {}
        <3> DEFINE n == Cardinality(s) - 1  r == s \ {Pick(s)}
        <3>1. n \in Nat /\ Cardinality(s) = n + 1 /\ Cardinality(r) = n /\ r \in SUBSET H
            BY <1>2, <1>8, <2>2, WithoutOne
        <3> HIDE DEF n, r
        <3>2. f[s] = F[n + 1][s] /\ f[r] = F[n][r]
            BY <3>1
        <3>3. F[n + 1][s] = w[Pick(s)] + F[n][r]
            BY <1>6, <2>2, <3>1 DEF r
        <3> QED BY <2>2, <3>2, <3>3 DEF r
    <2> QED BY <2>1, <2>2
<1>10. f = [s \in SUBSET H |-> f[s]]
    OBVIOUS
<1> HIDE DEF f
<1>11. f = [s \in SUBSET H |-> IF s = {} THEN 0 ELSE w[Pick(s)] + f[s \ {Pick(s)}]]
    BY <1>9, <1>10, Zenon
<1> QED BY <1>11 DEF Sums

\* A sum of natural numbers is one, and is 0 only if they all are.
LEMMA SumIsNat ==
    ASSUME NEW H, IsFiniteSet(H), NEW w \in [H -> Nat], NEW f, Sums(f, H, w)
    PROVE  f[H] \in Nat /\ (f[H] = 0 <=> \A x \in H : w[x] = 0)
<1> DEFINE Natural(s) == f[s] \in Nat /\ (f[s] = 0 <=> \A x \in s : w[x] = 0)
           T == {n \in Nat : \A s \in SUBSET H : Cardinality(s) = n => Natural(s)}
<1>1. \A s \in SUBSET H : f[s] = IF s = {} THEN 0 ELSE w[Pick(s)] + f[s \ {Pick(s)}]
    <2> DEFINE V(s) == IF s = {} THEN 0 ELSE w[Pick(s)] + f[s \ {Pick(s)}]
    <2>1. f = [s \in SUBSET H |-> V(s)]
        BY DEF Sums
    <2> HIDE DEF V
    <2>2. \A s \in SUBSET H : f[s] = V(s)
        BY <2>1
    <2> QED BY <2>2 DEF V
<1>2. \A s \in SUBSET H : IsFiniteSet(s)
    BY FS_Subset
<1>3. 0 \in T
    <2> SUFFICES ASSUME NEW s \in SUBSET H, Cardinality(s) = 0 PROVE Natural(s)
        OBVIOUS
    <2>1. s = {}
        BY <1>2, FS_EmptySet
    <2>2. f[s] = 0
        BY <1>1, <2>1
    <2> QED BY <2>1, <2>2
<1>4. ASSUME NEW n \in Nat, n \in T PROVE n + 1 \in T
    <2> SUFFICES ASSUME NEW s \in SUBSET H, Cardinality(s) = n + 1 PROVE Natural(s)
        OBVIOUS
    <2> DEFINE x == Pick(s)  r == s \ {x}
    <2>1. s # {}
        BY FS_EmptySet
    <2>2. x \in s /\ Cardinality(r) = n /\ r \in SUBSET H /\ s = r \cup {x}
        <3>1. IsFiniteSet(s)
            BY <1>2
        <3>2. x \in s /\ Cardinality(r) = Cardinality(s) - 1
            BY <2>1, <3>1, WithoutOne
        <3> HIDE DEF x
        <3> QED BY <3>2
    <2>3. f[s] = w[x] + f[r] /\ w[x] \in Nat
        BY <1>1, <2>1, <2>2
    <2> HIDE DEF x, r
    <2>4. f[r] \in Nat /\ (f[r] = 0 <=> \A y \in r : w[y] = 0)
        <3> HIDE DEF Natural
        <3>1. Natural(r)
            BY <1>4, <2>2
        <3> QED BY <3>1 DEF Natural
    <2>5. f[s] \in Nat /\ (f[s] = 0 <=> w[x] = 0 /\ f[r] = 0)
        BY <2>3, <2>4
    <2> QED
        <3>1. (\A y \in s : w[y] = 0) <=> w[x] = 0 /\ \A y \in r : w[y] = 0
            BY <2>2
        <3> QED BY <2>4, <2>5, <3>1
<1>5. \A n \in Nat : n \in T
    <2> HIDE DEF T
    <2> QED BY <1>3, <1>4, EveryNumber
<1>6. Cardinality(H) \in Nat
    BY FS_CardinalityType
<1> QED BY <1>5, <1>6

\* The sum of the shares of some hits.
LEMMA SumOfShares ==
    ASSUME NEW H, IsFiniteSet(H), \A h \in H : h.num \in Nat
    PROVE  MapThenSumSet(LAMBDA h : h.num, H) \in Nat
<1> DEFINE w == [h \in H |-> h.num]
           c == CHOOSE f : f = [s \in SUBSET H |-> IF s = {} THEN 0 ELSE (CHOOSE x \in s : TRUE).num + f[s \ {CHOOSE x \in s : TRUE}]]
<1>1. MapThenSumSet(LAMBDA h : h.num, H) = c[H]
    BY DEF MapThenSumSet, MapThenFoldSet
<1>2. w \in [H -> Nat]
    OBVIOUS
<1>3. Sums(c, H, w)
    <2> DEFINE N(f) == [s \in SUBSET H |-> IF s = {} THEN 0 ELSE (CHOOSE x \in s : TRUE).num + f[s \ {CHOOSE x \in s : TRUE}]]
    <2>1. ASSUME NEW f PROVE Sums(f, H, w) <=> f = N(f)
        <3> DEFINE A(s) == IF s = {} THEN 0 ELSE w[Pick(s)] + f[s \ {Pick(s)}]
                   B(s) == IF s = {} THEN 0 ELSE (CHOOSE x \in s : TRUE).num + f[s \ {CHOOSE x \in s : TRUE}]
        <3>1. ASSUME NEW s \in SUBSET H PROVE A(s) = B(s)
            <4>1. s # {} => Pick(s) \in H
                BY DEF Pick
            <4>2. s # {} => w[Pick(s)] = Pick(s).num
                BY <4>1
            <4> QED BY <4>2 DEF Pick
        <3>2. N(f) = [s \in SUBSET H |-> B(s)] /\ (Sums(f, H, w) <=> f = [s \in SUBSET H |-> A(s)])
            BY DEF Sums
        <3> HIDE DEF A, B, N
        <3>3. [s \in SUBSET H |-> A(s)] = [s \in SUBSET H |-> B(s)]
            BY <3>1
        <3> QED BY <3>2, <3>3
    <2>2. c = CHOOSE f : f = N(f)
        OBVIOUS
    <2>3. \E f : Sums(f, H, w)
        <3> HIDE DEF w
        <3> QED BY <1>2, SumExists
    <2> HIDE DEF N, c, w
    <2>4. c = N(c)
        BY <2>1, <2>2, <2>3
    <2> QED BY <2>1, <2>4
<1> HIDE DEF w, c
<1> QED BY <1>1, <1>2, <1>3, SumIsNat

-----------------------------------------------------------------------------
(* What the rules make of the pages they are given.                        *)

\* A non-empty set has an element whose number is the least.
LEMMA LeastBy ==
    ASSUME NEW S, S # {}, NEW f, \A x \in S : f[x] \in Nat
    PROVE  \E x \in S : \A y \in S : f[x] <= f[y]
<1> DEFINE T == {f[x] : x \in S}
<1>1. PICK m \in T : \A n \in T : m <= n
    <2>1. T \subseteq Nat /\ T # {}
        OBVIOUS
    <2> QED BY <2>1, LeastNumber
<1> QED BY <1>1

\* A part of a finite set, and the image of one.
LEMMA PartOf ==
    ASSUME NEW S, IsFiniteSet(S), NEW T \in SUBSET S
    PROVE  IsFiniteSet(T) /\ Cardinality(T) \in Nat /\ Cardinality(S) \in Nat /\ Cardinality(T) <= Cardinality(S)
BY FS_Subset, FS_CardinalityType

\* The image of a finite set is finite and no larger.
LEMMA ImageOf ==
    ASSUME NEW S, IsFiniteSet(S), NEW f, DOMAIN f = S, NEW T, T = {f[x] : x \in S}
    PROVE  IsFiniteSet(T) /\ Cardinality(T) \in Nat /\ Cardinality(T) <= Cardinality(S)
<1> DEFINE h == [x \in S |-> f[x]]
<1>1. h \in [S -> T] /\ \A t \in T : \E x \in S : h[x] = t
    OBVIOUS
<1>2. h \in Surjection(S, T)
    BY <1>1, Fun_IsSurj
<1> HIDE DEF h
<1> QED BY <1>2, FS_Surjection, FS_CardinalityType

\* Each of these rules has a place in the list of codes, and is filed under its category.
LEMMA Filing ==
    /\ Filed("technical.http_status", "technical")
    /\ Filed("technical.canonical_boundary", "technical")
    /\ Filed("technical.robots_directive", "technical")
    /\ Filed("technical.redirect_chain_length", "technical")
    /\ Filed("technical.canonical_missing", "technical")
    /\ Filed("technical.duplicate_content", "technical")
    /\ Filed("technical.insecure_internal_links", "technical")
    /\ Filed("technical.broken_internal_link", "technical")
    /\ Filed("technical.url_hygiene", "technical")
    /\ Filed("technical.deep_page", "technical")
    /\ Filed("technical.orphan_page", "technical")
    /\ Filed("technical.crawl_degraded", "technical")
    /\ Filed("on_page.title", "on_page")
    /\ Filed("on_page.meta_description", "on_page")
    /\ Filed("on_page.h1", "on_page")
    /\ Filed("on_page.title_duplicate", "on_page")
    /\ Filed("on_page.meta_description_duplicate", "on_page")
    /\ Filed("on_page.h1_duplicate", "on_page")
    /\ Filed("on_page.title_short", "on_page")
    /\ Filed("on_page.thin_content", "on_page")
    /\ Filed("on_page.image_alt_missing", "on_page")
    /\ Filed("on_page.h2_missing", "on_page")
    /\ Filed("performance.slow_response", "performance")
    /\ Filed("performance.heavy_page", "performance")
    /\ Filed("analytics.tracking_missing", "analytics")
    /\ Filed("analytics.tracking_partial", "analytics")
    /\ Filed("geo_aeo.structured_data_missing", "geo_aeo")
    /\ Filed("geo_aeo.organization_schema_missing", "geo_aeo")
    /\ Filed("geo_aeo.html_lang_missing", "geo_aeo")
    /\ Filed("keyword_architecture.title_cannibalization", "keyword_architecture")
    /\ Filed("keyword_architecture.generic_title", "keyword_architecture")
    /\ Filed("ecommerce.product_schema_missing", "ecommerce")
    /\ Filed("local.localbusiness_schema_missing", "local")
<1>1. \A rule \in TechnicalRules : Filed(rule, "technical")
    <2>1. TechnicalRules \subseteq Range(RuleIds)
        BY DEF TechnicalRules, RuleIds, Range
    <2>2. \A rule \in TechnicalRules : CategoryOf(rule) = "technical"
        BY DEF CategoryOf, TechnicalRules, OnPageRules, PerformanceRules, AnalyticsRules, GeoAeoRules, ArchitectureRules, EcommerceRules, LocalRules
    <2> QED BY <2>1, <2>2 DEF Filed
<1>2. \A rule \in OnPageRules : Filed(rule, "on_page")
    <2>1. OnPageRules \subseteq Range(RuleIds)
        BY DEF OnPageRules, RuleIds, Range
    <2>2. \A rule \in OnPageRules : CategoryOf(rule) = "on_page"
        BY DEF CategoryOf, TechnicalRules, OnPageRules, PerformanceRules, AnalyticsRules, GeoAeoRules, ArchitectureRules, EcommerceRules, LocalRules
    <2> QED BY <2>1, <2>2 DEF Filed
<1>3. \A rule \in PerformanceRules : Filed(rule, "performance")
    <2>1. PerformanceRules \subseteq Range(RuleIds)
        BY DEF PerformanceRules, RuleIds, Range
    <2>2. \A rule \in PerformanceRules : CategoryOf(rule) = "performance"
        BY DEF CategoryOf, TechnicalRules, OnPageRules, PerformanceRules, AnalyticsRules, GeoAeoRules, ArchitectureRules, EcommerceRules, LocalRules
    <2> QED BY <2>1, <2>2 DEF Filed
<1>4. \A rule \in AnalyticsRules : Filed(rule, "analytics")
    <2>1. AnalyticsRules \subseteq Range(RuleIds)
        BY DEF AnalyticsRules, RuleIds, Range
    <2>2. \A rule \in AnalyticsRules : CategoryOf(rule) = "analytics"
        BY DEF CategoryOf, TechnicalRules, OnPageRules, PerformanceRules, AnalyticsRules, GeoAeoRules, ArchitectureRules, EcommerceRules, LocalRules
    <2> QED BY <2>1, <2>2 DEF Filed
<1>5. \A rule \in GeoAeoRules : Filed(rule, "geo_aeo")
    <2>1. GeoAeoRules \subseteq Range(RuleIds)
        BY DEF GeoAeoRules, RuleIds, Range
    <2>2. \A rule \in GeoAeoRules : CategoryOf(rule) = "geo_aeo"
        BY DEF CategoryOf, TechnicalRules, OnPageRules, PerformanceRules, AnalyticsRules, GeoAeoRules, ArchitectureRules, EcommerceRules, LocalRules
    <2> QED BY <2>1, <2>2 DEF Filed
<1>6. \A rule \in ArchitectureRules : Filed(rule, "keyword_architecture")
    <2>1. ArchitectureRules \subseteq Range(RuleIds)
        BY DEF ArchitectureRules, RuleIds, Range
    <2>2. \A rule \in ArchitectureRules : CategoryOf(rule) = "keyword_architecture"
        BY DEF CategoryOf, TechnicalRules, OnPageRules, PerformanceRules, AnalyticsRules, GeoAeoRules, ArchitectureRules, EcommerceRules, LocalRules
    <2> QED BY <2>1, <2>2 DEF Filed
<1>7. \A rule \in EcommerceRules : Filed(rule, "ecommerce")
    <2>1. EcommerceRules \subseteq Range(RuleIds)
        BY DEF EcommerceRules, RuleIds, Range
    <2>2. \A rule \in EcommerceRules : CategoryOf(rule) = "ecommerce"
        BY DEF CategoryOf, TechnicalRules, OnPageRules, PerformanceRules, AnalyticsRules, GeoAeoRules, ArchitectureRules, EcommerceRules, LocalRules
    <2> QED BY <2>1, <2>2 DEF Filed
<1>8. \A rule \in LocalRules : Filed(rule, "local")
    <2>1. LocalRules \subseteq Range(RuleIds)
        BY DEF LocalRules, RuleIds, Range
    <2>2. \A rule \in LocalRules : CategoryOf(rule) = "local"
        BY DEF CategoryOf, TechnicalRules, OnPageRules, PerformanceRules, AnalyticsRules, GeoAeoRules, ArchitectureRules, EcommerceRules, LocalRules
    <2> QED BY <2>1, <2>2 DEF Filed
<1> QED BY <1>1, <1>2, <1>3, <1>4, <1>5, <1>6, <1>7, <1>8 DEF TechnicalRules, OnPageRules, PerformanceRules, AnalyticsRules, GeoAeoRules, ArchitectureRules, EcommerceRules, LocalRules

\* Two sets of fine hits make one.
LEMMA FineUnion ==
    ASSUME NEW G, NEW H, NEW pages, Fine(G, pages), Fine(H, pages)
    PROVE  Fine(G \cup H, pages)
BY FS_Union DEF Fine

\* No hit at all is fine.
LEMMA FineNone == ASSUME NEW pages PROVE Fine({}, pages)
BY FS_EmptySet DEF Fine

\* One hit that is about the pages is fine.
LEMMA FineOne == ASSUME NEW pages, NEW h, Measured(h), About(h, pages) PROVE Fine({h}, pages)
BY FS_Singleton DEF Fine

\* There is a page to count.
LEMMA TotalPositive ==
    ASSUME NEW pages, Site(pages) PROVE Most(1, Cardinality(pages)) \in Nat \ {0}
BY FS_CardinalityType DEF Site, Most

\* One hit for each of some pages is fine.
LEMMA FineEach ==
    ASSUME NEW pages, Site(pages), NEW P \in SUBSET pages, NEW rule, NEW category, Filed(rule, category),
           NEW severity \in Severity, NEW risk
    PROVE  Fine(EachPage(pages, P, rule, category, severity, risk), pages)
<1> DEFINE total == Most(1, Cardinality(pages))
           one == [p \in P |-> Hit(rule, category, severity, risk, p.url, {p.url}, 1, total)]
           E == EachPage(pages, P, rule, category, severity, risk)
<1>1. E = {one[p] : p \in P}
    BY DEF EachPage
<1>2. DOMAIN one = P
    OBVIOUS
<1>3. total \in Nat \ {0}
    BY TotalPositive
<1>4. IsFiniteSet(P)
    BY PartOf DEF Site
<1>5. \A h \in E : Measured(h) /\ About(h, pages)
    BY <1>3 DEF EachPage, Hit, Measured, About, Urls
<1>6. IsFiniteSet(E)
    <2> HIDE DEF E, one
    <2> QED BY <1>1, <1>2, <1>4, ImageOf
<1> QED BY <1>5, <1>6 DEF Fine

\* The earliest of some pages is one of them.
LEMMA EarliestIn ==
    ASSUME NEW P, P # {}, \A p \in P : p.at \in Nat
    PROVE  Earliest(P) \in P
<1> DEFINE f == [p \in P |-> p.at]
<1>1. PICK p \in P : \A q \in P : f[p] <= f[q]
    BY LeastBy
<1> QED BY <1>1 DEF Earliest

\* So is one hit for some pages together.
LEMMA FineTogether ==
    ASSUME NEW pages, Site(pages), NEW P \in SUBSET pages, NEW count \in Nat, P # {} => count # 0,
           NEW rule, NEW category, Filed(rule, category), NEW severity \in Severity
    PROVE  Fine(Together(pages, P, count, rule, category, severity), pages)
<1>1. CASE P = {}
    BY <1>1, FineNone DEF Together
<1>2. CASE P # {}
    <2> DEFINE total == Most(1, Cardinality(pages))
               h == Hit(rule, category, severity, "low", Earliest(P).url, Urls(P), Least(count, total), total)
    <2>1. Together(pages, P, count, rule, category, severity) = {h}
        BY <1>2 DEF Together
    <2>2. total \in Nat \ {0}
        BY TotalPositive
    <2>3. Earliest(P) \in P
        BY <1>2, EarliestIn DEF Site
    <2>4. Measured(h)
        BY <1>2, <2>2 DEF Measured, Hit, Least
    <2>5. About(h, pages)
        BY <1>2, <2>3 DEF About, Hit, Urls
    <2> HIDE DEF h
    <2> QED BY <2>1, <2>4, <2>5, FineOne
<1> QED BY <1>1, <1>2

\* Every page of a part on its own.
LEMMA PageRules ==
    ASSUME NEW pages, Site(pages)
    PROVE  /\ Fine(HttpHits(pages), pages)
           /\ Fine(TitleHits(pages), pages)
           /\ Fine(MetaHits(pages), pages)
           /\ Fine(H1Hits(pages), pages)
           /\ Fine(DirectiveHits(pages), pages)
           /\ Fine(InsecureHits(pages), pages)
           /\ Fine(PathHits(pages), pages)
           /\ Fine(DocumentHits(pages), pages)
           /\ Fine(SpeedHits(pages), pages)
           /\ Fine(GenericHits(pages), pages)
<1> DEFINE Fault(severity) == \A P \in SUBSET pages : \A rule, category, risk :
                                  Filed(rule, category) => Fine(EachPage(pages, P, rule, category, severity, risk), pages)
<1>1. Fault("critical") /\ Fault("high") /\ Fault("medium") /\ Fault("low")
    BY FineEach DEF Severity
<1>2. \A G, H : Fine(G, pages) /\ Fine(H, pages) => Fine(G \cup H, pages)
    BY FineUnion
<1>3. Fine(HttpHits(pages), pages)
    BY <1>1, <1>2, Filing DEF HttpHits
<1>4. Fine(TitleHits(pages), pages)
    BY <1>1, <1>2, Filing DEF TitleHits
<1>5. Fine(MetaHits(pages), pages)
    BY <1>1, <1>2, Filing DEF MetaHits
<1>6. Fine(H1Hits(pages), pages)
    BY <1>1, <1>2, Filing DEF H1Hits
<1>7. Fine(DirectiveHits(pages), pages)
    BY <1>1, <1>2, Filing DEF DirectiveHits
<1>8. Fine(InsecureHits(pages), pages)
    BY <1>1, <1>2, Filing DEF InsecureHits
<1>9. Fine(PathHits(pages), pages)
    BY <1>1, <1>2, Filing DEF PathHits
<1>10. Fine(DocumentHits(pages), pages)
    BY <1>1, <1>2, Filing DEF DocumentHits
<1>11. Fine(SpeedHits(pages), pages)
    <2> DEFINE A == {p \in pages : p.ms > 2500}  B == {p \in pages : p.ms \in 1201..2500}
               C == {p \in pages : p.bytes > 1500000}
    <2>1. A \in SUBSET pages /\ B \in SUBSET pages /\ C \in SUBSET pages
        BY SMT
    <2>2. SpeedHits(pages) = EachPage(pages, A, "performance.slow_response", "performance", "high", "low")
              \cup EachPage(pages, B, "performance.slow_response", "performance", "medium", "low")
              \cup EachPage(pages, C, "performance.heavy_page", "performance", "low", "low")
        BY SMT DEF SpeedHits
    <2> HIDE DEF A, B, C
    <2> QED BY <1>1, <1>2, <2>1, <2>2, Filing
<1>12. Fine(GenericHits(pages), pages)
    BY <1>1, <1>2, Filing DEF GenericHits
<1> QED BY <1>3, <1>4, <1>5, <1>6, <1>7, <1>8, <1>9, <1>10, <1>11, <1>12

\* Some pages are counted.
LEMMA Counted ==
    ASSUME NEW pages, Site(pages), NEW P \in SUBSET pages
    PROVE  Cardinality(P) \in Nat /\ (P # {} => Cardinality(P) # 0)
BY PartOf, FS_EmptySet DEF Site

\* Some pages together.
LEMMA SiteRulesFine ==
    ASSUME NEW pages, Site(pages)
    PROVE  /\ Fine(BodyHits(pages), pages)
           /\ Fine(OrphanHits(pages), pages)
           /\ Fine(FieldHits(pages), pages)
           /\ Fine(TrackingHits(pages), pages)
           /\ Fine(CannibalHits(pages), pages)
           /\ Fine(ProductHits(pages), pages)
<1> DEFINE Fault(severity) == \A P \in SUBSET pages : \A rule, category :
                                  Filed(rule, category) => Fine(Together(pages, P, Cardinality(P), rule, category, severity), pages)
<1>1. Fault("high") /\ Fault("medium") /\ Fault("low")
    <2>1. \A P \in SUBSET pages : Cardinality(P) \in Nat /\ (P # {} => Cardinality(P) # 0)
        BY Counted
    <2> QED BY <2>1, FineTogether DEF Severity
<1>2. \A G, H : Fine(G, pages) /\ Fine(H, pages) => Fine(G \cup H, pages)
    BY FineUnion
<1>3. \A P \in SUBSET pages : \A field : Shared(P, field) \in SUBSET pages
    BY DEF Shared
<1> HIDE DEF Fault
<1>4. Fine(BodyHits(pages), pages)
    BY <1>1, <1>3, Filing DEF BodyHits, SharedHit, Fault
<1>5. Fine(OrphanHits(pages), pages)
    BY <1>1, Filing DEF OrphanHits, Fault
<1>6. Fine(FieldHits(pages), pages)
    BY <1>1, <1>2, <1>3, Filing DEF FieldHits, SharedHit, Fault
<1>7. Fine(TrackingHits(pages), pages)
    BY <1>1, FineNone, Filing DEF TrackingHits, Html, Fault
<1>8. Fine(CannibalHits(pages), pages)
    BY <1>1, Filing DEF CannibalHits, Fault
<1>9. Fine(ProductHits(pages), pages)
    BY <1>1, FineNone, Filing DEF ProductHits, HalfHit, Html, Fault
<1> QED BY <1>4, <1>5, <1>6, <1>7, <1>8, <1>9

\* A broken link's hit shows the first page that has one, and counts the targets too.
LEMMA BrokenLinksFine ==
    ASSUME NEW pages, Site(pages)
    PROVE  Fine(BrokenLinkHits(pages), pages)
<1> DEFINE targets == {t \in pages : t.status >= 400 /\ \E p \in pages : t.url \in p.links}
           sources == {p \in pages : \E t \in targets : t.url \in p.links}
           T == Together(pages, sources \cup targets, Cardinality(targets),
                         "technical.broken_internal_link", "technical", "high")
           first == Earliest(sources).url
           B == {[h EXCEPT !.lead = first] : h \in T}
<1>1. BrokenLinkHits(pages) = B
    BY DEF BrokenLinkHits
<1>2. targets \in SUBSET pages /\ sources \in SUBSET pages /\ (targets # {} => sources # {}) /\ (targets = {} => sources = {})
    OBVIOUS
<1> HIDE DEF targets, sources
<1>3. CASE targets = {}
    <2>1. T = {}
        BY <1>2, <1>3 DEF Together
    <2> QED BY <1>1, <2>1, FineNone
<1>4. CASE targets # {}
    <2>1. Fine(T, pages)
        <3>1. Cardinality(targets) \in Nat /\ Cardinality(targets) # 0
            BY <1>2, <1>4, Counted
        <3>2. sources \cup targets \in SUBSET pages /\ "high" \in Severity
            BY <1>2 DEF Severity
        <3> QED BY <3>1, <3>2, FineTogether, Filing
    <2>2. Earliest(sources) \in sources
        BY <1>2, <1>4, EarliestIn DEF Site
    <2>3. first \in Urls(pages)
        BY <1>2, <2>2 DEF Urls
    <2> DEFINE total == Most(1, Cardinality(pages))  P == sources \cup targets
               h == Hit("technical.broken_internal_link", "technical", "high", "low", Earliest(P).url, Urls(P),
                        Least(Cardinality(targets), total), total)
               b == [h EXCEPT !.lead = first]
    <2>4. T = {h}
        BY <1>4 DEF Together
    <2>5. B = {b}
        BY <2>4
    <2>6. Measured(h) /\ About(h, pages)
        BY <2>1, <2>4 DEF Fine
    <2>7. b.rule = h.rule /\ b.category = h.category /\ b.severity = h.severity /\ b.num = h.num /\ b.den = h.den /\ b.urls = h.urls /\ b.lead = first
        BY DEF Hit
    <2> HIDE DEF T, B, b, h, first
    <2>8. Measured(b) /\ About(b, pages)
        BY <2>3, <2>6, <2>7 DEF Measured, About
    <2> QED BY <1>1, <2>5, <2>8, FineOne
<1> QED BY <1>3, <1>4

\* The page that stands for the site: of the shallowest ones, the first by its URL.
LEMMA FirstIn ==
    ASSUME NEW P, P # {}, \A p \in P : p.url \in URL
    PROVE  First(P) \in P
<1> DEFINE depth == [p \in P |-> Depth[p.url]]  url == [p \in P |-> p.url]
<1>1. \A p \in P : depth[p] \in Nat /\ url[p] \in Nat /\ depth[p] = Depth[p.url] /\ url[p] = p.url
    BY SiteAssumption
<1> HIDE DEF depth, url
<1>2. PICK s \in P : \A q \in P : depth[s] <= depth[q]
    BY <1>1, LeastBy
<1> DEFINE Q == {p \in P : depth[p] = depth[s]}
<1>3. PICK p \in Q : \A q \in Q : url[p] <= url[q]
    <2>1. Q # {} /\ \A q \in Q : url[q] \in Nat
        BY <1>1
    <2> HIDE DEF Q
    <2> QED BY <2>1, LeastBy
<1>4. \A q \in P : depth[p] < depth[q] \/ (depth[p] = depth[q] /\ url[p] <= url[q])
    BY <1>1, <1>2, <1>3
<1>5. p \in P /\ \A q \in P : Depth[p.url] < Depth[q.url] \/ (Depth[p.url] = Depth[q.url] /\ p.url <= q.url)
    BY <1>1, <1>3, <1>4
<1> QED BY <1>5 DEF First

\* What a site does not declare is a hit about one of its pages.
LEMMA DeclaresFine ==
    ASSUME NEW pages, Site(pages)
    PROVE  Fine(StructuredHits(pages), pages) /\ Fine(LocalHits(pages), pages)
<1>1. Html(pages) \in SUBSET pages /\ \A p \in pages : p.url \in URL
    BY DEF Html, Site
<1>2. \A types, rule, category : Filed(rule, category) => Fine(NoneDeclares(pages, types, rule, category), pages)
    <2> SUFFICES ASSUME NEW types, NEW rule, NEW category, Filed(rule, category)
                 PROVE  Fine(NoneDeclares(pages, types, rule, category), pages)
        OBVIOUS
    <2>1. CASE Html(pages) # {}
        <3> DEFINE P == {First(Html(pages))}
        <3>1. P \in SUBSET pages
            BY <1>1, <2>1, FirstIn
        <3> HIDE DEF P
        <3>2. Fine(Together(pages, P, 1, rule, category, "medium"), pages)
            BY <3>1, FineTogether DEF Severity
        <3> QED BY <3>2, FineNone DEF NoneDeclares, P
    <2>2. CASE Html(pages) = {}
        BY <2>2, FineNone DEF NoneDeclares
    <2> QED BY <2>1, <2>2
<1>3. \A P \in SUBSET pages : \A rule, category : Filed(rule, category) =>
          /\ Fine(Together(pages, P, Cardinality(P), rule, category, "medium"), pages)
          /\ Fine(Together(pages, P, Cardinality(P), rule, category, "low"), pages)
    <2>1. \A P \in SUBSET pages : Cardinality(P) \in Nat /\ (P # {} => Cardinality(P) # 0)
        BY Counted
    <2> QED BY <2>1, FineTogether DEF Severity
<1>4. \A G, H : Fine(G, pages) /\ Fine(H, pages) => Fine(G \cup H, pages)
    BY FineUnion
<1>5. Fine(LocalHits(pages), pages)
    BY <1>2, Filing DEF LocalHits
<1>6. Fine(StructuredHits(pages), pages)
    <2> DEFINE mute == {p \in Html(pages) : ~p.lang}  bare == {p \in Html(pages) : p.schema = {}}
               A == HalfHit(pages, Html(pages), bare, "geo_aeo.structured_data_missing", "geo_aeo", "medium")
               B == NoneDeclares(pages, {"organization", "localbusiness", "website"},
                                 "geo_aeo.organization_schema_missing", "geo_aeo")
               C == Together(pages, mute, Cardinality(mute), "geo_aeo.html_lang_missing", "geo_aeo", "low")
    <2>1. StructuredHits(pages) = A \cup B \cup C
        BY DEF StructuredHits
    <2>2. mute \in SUBSET pages /\ bare \in SUBSET pages
        BY <1>1
    <2> HIDE DEF mute, bare
    <2>3. Fine(A, pages)
        BY <1>3, <2>2, FineNone, Filing DEF HalfHit
    <2>4. Fine(B, pages)
        BY <1>2, Filing
    <2>5. Fine(C, pages)
        BY <1>3, <2>2, Filing
    <2> HIDE DEF A, B, C
    <2> QED BY <1>4, <2>1, <2>3, <2>4, <2>5
<1> QED BY <1>5, <1>6

\* Every hit of every rule is about some of the pages that were read, and there are finitely many.
LEMMA RulesFine ==
    ASSUME NEW pages, Site(pages)
    PROVE  Fine(PageHits(pages), pages)
<1>1. \A G, H : Fine(G, pages) /\ Fine(H, pages) => Fine(G \cup H, pages)
    BY FineUnion
<1> DEFINE A == HttpHits(pages) \cup TitleHits(pages) \cup MetaHits(pages) \cup H1Hits(pages) \cup DirectiveHits(pages)
           B == BodyHits(pages) \cup InsecureHits(pages) \cup BrokenLinkHits(pages) \cup PathHits(pages) \cup OrphanHits(pages)
           C == FieldHits(pages) \cup DocumentHits(pages) \cup SpeedHits(pages) \cup TrackingHits(pages) \cup StructuredHits(pages)
           D == CannibalHits(pages) \cup GenericHits(pages) \cup ProductHits(pages) \cup LocalHits(pages)
<1>2. PageHits(pages) = A \cup B \cup C \cup D
    BY DEF PageHits
<1>3. Fine(A, pages)
    BY <1>1, PageRules
<1>4. Fine(B, pages)
    BY <1>1, PageRules, SiteRulesFine, BrokenLinksFine
<1>5. Fine(C, pages)
    BY <1>1, PageRules, SiteRulesFine, DeclaresFine
<1>6. Fine(D, pages)
    BY <1>1, PageRules, SiteRulesFine, DeclaresFine
<1> HIDE DEF A, B, C, D
<1> QED BY <1>1, <1>2, <1>3, <1>4, <1>5, <1>6

-----------------------------------------------------------------------------
(* The hits of an attempt.                                                 *)

\* What was read is known by its URLs, none of which any item found challenged.
LEMMA ReadIsSite ==
    ASSUME IInv, Collects, pc \notin {"idle", "crawl"}
    PROVE  /\ Site(Read)
           /\ Urls(Read) \subseteq Urls(Range(result)) \ Walled
           /\ IsFiniteSet(Urls(Range(result)) \ Walled)
           /\ Cardinality(Read) <= Cardinality(Urls(Read))
<1> DEFINE U == seen \ Range(quarantined)
           page == [u \in U |-> rows[u]]
<1>1. PagesTyped /\ SeenPages
    BY DEF Collects
<1>2. \A u \in U : rows[u] \in Range(result) /\ rows[u].url = u /\ u \notin Walled /\ u \in URL
    BY <1>1 DEF SeenPages, PagesTyped
<1>3. Urls(Read) = U
    BY <1>2 DEF Urls, Read
<1>4. U \subseteq Urls(Range(result)) \ Walled
    BY <1>2 DEF Urls
<1>5. Urls(Range(result)) \ Walled \subseteq URL
    BY <1>1 DEF Urls, PagesTyped
<1>6. IsFiniteSet(Urls(Range(result)) \ Walled) /\ IsFiniteSet(U)
    BY <1>4, <1>5, SiteAssumption, FS_Subset
<1>7. IsFiniteSet(Read) /\ Cardinality(Read) <= Cardinality(U)
    <2>1. Read = {page[u] : u \in U} /\ DOMAIN page = U
        BY DEF Read
    <2> HIDE DEF U, page
    <2> QED BY <1>6, <2>1, ImageOf
<1>8. \A p \in Read : p.url \in URL /\ p.at \in Nat
    BY <1>1, <1>2 DEF Read, PagesTyped
<1> HIDE DEF U
<1> QED BY <1>3, <1>4, <1>6, <1>7, <1>8 DEF Site

\* What run_rules returns is sound, if the pages were collected.
LEMMA HitsOfRules ==
    ASSUME IInv, Collects, pc = "rules", integrity = Integrity, NEW H, H = RunRules(Read, integrity, profile)
    PROVE  /\ IsFiniteSet(H)
           /\ \A h \in H : Measured(h) /\ (h.rule # "technical.crawl_degraded" => About(h, Read))
<1> DEFINE E == EvaluablePages(Read, integrity)
           F == PageHits(E)
           G == DegradedHits(integrity)
<1>1. H \subseteq F \cup G
    BY DEF RunRules
<1>2. E \subseteq Read
    BY DEF EvaluablePages
<1>3. Site(Read)
    BY ReadIsSite
<1>4. Site(E)
    <2> HIDE DEF E
    <2> QED BY <1>2, <1>3, FS_Subset DEF Site
<1>5. Fine(F, E)
    <2> HIDE DEF E
    <2> QED BY <1>4, RulesFine
<1> HIDE DEF E, F
<1>6. \A h \in F : Measured(h) /\ About(h, Read)
    <2>1. Urls(E) \subseteq Urls(Read)
        BY <1>2 DEF Urls
    <2> QED BY <1>5, <2>1 DEF Fine, About
<1>7. IsFiniteSet(G) /\ \A h \in G : Measured(h) /\ h.rule = "technical.crawl_degraded"
    <2>1. integrity.fetched \in Nat \ {0} /\ integrity.challenged \in Nat
        <3>1. Read # {} /\ quarantined \in Seq(URL)
            BY DEF Collects, SeenPages
        <3>2. Cardinality(Read) \in Nat \ {0}
            BY <1>3, <3>1, FS_CardinalityType, FS_EmptySet DEF Site
        <3> QED BY <3>1, <3>2 DEF Integrity
    <2> DEFINE h == Hit("technical.crawl_degraded", "technical", "info", "low", Head(integrity.quarantined),
                        Range(integrity.quarantined), integrity.challenged, integrity.fetched + integrity.challenged)
    <2>2. G = {} \/ (G = {h} /\ CrawlStatus(integrity.fetched, integrity.challenged) # "clean")
        BY DEF DegradedHits
    <2>3. CrawlStatus(integrity.fetched, integrity.challenged) # "clean" => integrity.challenged # 0
        BY <2>1 DEF CrawlStatus
    <2>4. integrity.challenged # 0 => Measured(h) /\ h.rule = "technical.crawl_degraded"
        BY <2>1, Filing DEF Measured, Hit, Severity
    <2> HIDE DEF h, G
    <2> QED BY <2>2, <2>3, <2>4, FS_EmptySet, FS_Singleton
<1>8. IsFiniteSet(H)
    <2>1. IsFiniteSet(F \cup G)
        BY <1>5, <1>7, FS_Union DEF Fine
    <2> QED BY <1>1, <2>1, FS_Subset
<1> QED BY <1>1, <1>6, <1>7, <1>8

\* Every step keeps the hits sound: Evaluate writes them and no other step does.
LEMMA HitsStep == IInv /\ Collects /\ HitsSound /\ [Next]_vars => HitsSound'
<1> SUFFICES ASSUME IInv, Collects, HitsSound, [Next]_vars PROVE HitsSound'
    OBVIOUS
<1>1. CASE Evaluate
    <2>1. hits' = RunRules(Read, integrity, profile) /\ pc = "rules" /\ integrity = Integrity
        BY <1>1 DEF Evaluate, HitsSound
    <2>2. /\ IsFiniteSet(hits')
          /\ \A h \in hits' : Measured(h) /\ (h.rule # "technical.crawl_degraded" => About(h, Read))
        BY <2>1, HitsOfRules
    <2>3. Read' = Read /\ pc' = "finding"
        BY <1>1 DEF Evaluate, Read
    <2> QED BY <2>2, <2>3 DEF HitsSound
<1>2. CASE Collected
    <2>1. integrity' = Integrity /\ Integrity' = Integrity
        BY <1>2 DEF Collected, Integrity, Read, Listed
    <2> QED BY <1>2, <2>1 DEF Collected, HitsSound, Writing
<1>3. CASE ~Evaluate /\ ~Collected
    <2>1. pc' # "rules" \/ UNCHANGED vars
        BY <1>3 DEF Next, Claim, Crawl, Skip, Page, Observe, Find, Cite, Recommend, Act, Review, Score, Fail, FailLater, HitsSound, IInv, TypeOK, PcStep
    <2>2. (Writing \/ pc = "score")' => (Writing \/ pc = "score") /\ hits' = hits /\ Read' = Read
        BY <1>3 DEF Next, Claim, Crawl, Skip, Page, Observe, Find, Cite, Recommend, Act, Review, Score, Fail, FailLater, memory,
                    vars, Writing, Read
    <2>3. CASE UNCHANGED vars
        BY <2>3 DEF vars, HitsSound, Integrity, Read, Listed, Writing
    <2> QED BY <2>1, <2>2, <2>3 DEF HitsSound
<1> QED BY <1>1, <1>2, <1>3

-----------------------------------------------------------------------------
(* The findings' fields, and the codes that are left.                      *)

\* The codes are all different.
LEMMA CodesDiffer == RuleIds \in Seq(Range(RuleIds)) /\ DOMAIN RuleIds = 1 .. Len(RuleIds) /\ Differ(RuleIds, DOMAIN RuleIds)
<1>1. RuleIds \in Seq(Range(RuleIds)) /\ DOMAIN RuleIds = 1 .. Len(RuleIds)
    BY DEF RuleIds, Range
<1>2. Differ(RuleIds, DOMAIN RuleIds)
    BY DEF RuleIds, Differ
<1> QED BY <1>1, <1>2

\* Evaluate leaves the codes that have a hit, each once.
LEMMA EvaluateTodo == IInv /\ Evaluate => TodoHasHits'
<1> SUFFICES ASSUME IInv, Evaluate PROVE TodoHasHits'
    OBVIOUS
<1> DEFINE P == {i \in DOMAIN RuleIds : \E h \in hits' : h.rule = RuleIds[i]}
           X == Range(RuleIds)
<1>1. todo' = Only(RuleIds, P) /\ pc' = "finding" /\ findings' = findings /\ pc = "rules"
    BY DEF Evaluate, plan
<1>2. RuleIds \in Seq(X) /\ P \in SUBSET (1 .. Len(RuleIds)) /\ Differ(RuleIds, P)
    BY CodesDiffer DEF Differ
<1>3. \A i \in P : \E h \in hits' : h.rule = RuleIds[i]
    OBVIOUS
<1> HIDE DEF P
<1>4. /\ todo' \in Seq(X)
      /\ \A x : Holds(todo', x) <=> \E i \in P : RuleIds[i] = x
      /\ Differ(todo', 1 .. Len(todo'))
    BY <1>1, <1>2, OnlyTakes
<1>5. \A i \in 1 .. Len(todo') : \E h \in hits' : h.rule = todo'[i]
    BY <1>3, <1>4 DEF Holds
<1>6. DOMAIN findings' = {}
    BY <1>1 DEF IInv, PlanKeepsUp, Empties
<1> QED BY <1>1, <1>4, <1>5, <1>6 DEF TodoHasHits, Writing

\* Without an item left at the head: the codes of the others.
LEMMA TodoRest ==
    ASSUME NEW X, NEW s \in Seq(X), s # <<>>, Differ(s, 1 .. Len(s))
    PROVE  /\ Tail(s) \in Seq(X) /\ Differ(Tail(s), 1 .. Len(Tail(s)))
           /\ \A i \in 1 .. Len(Tail(s)) : i + 1 \in 1 .. Len(s) /\ Tail(s)[i] = s[i + 1] /\ Tail(s)[i] # Head(s)
<1>1. /\ 1 \in 1 .. Len(s) /\ Head(s) = s[1] /\ Tail(s) \in Seq(X)
      /\ \A i \in 1 .. Len(Tail(s)) : i \in Nat /\ i + 1 \in 1 .. Len(s) /\ i + 1 # 1 /\ Tail(s)[i] = s[i + 1]
    OBVIOUS
<1> QED BY <1>1 DEF Differ

\* Find takes the code at the head and Act drops it.
LEMMA TodoStep == IInv /\ TodoHasHits /\ [Next]_vars => TodoHasHits'
<1> SUFFICES ASSUME IInv, TodoHasHits, [Next]_vars, ~Evaluate PROVE TodoHasHits'
    BY EvaluateTodo
<1>1. CASE Find
    <2>1. /\ todo # <<>> /\ todo' = todo /\ hits' = hits /\ pc = "finding" /\ pc' = "link"
          /\ DOMAIN findings' = {Head(todo)} \cup DOMAIN findings
        BY <1>1 DEF Find, With, memory
    <2>2. InHand' = {Head(todo)} /\ InHand = {}
        BY <2>1 DEF InHand
    <2>3. DOMAIN findings' \ InHand' \subseteq DOMAIN findings \ InHand
        BY <2>1, <2>2
    <2> QED BY <2>1, <2>3 DEF TodoHasHits, Writing
<1>2. CASE Cite \/ Recommend
    <2>1. /\ todo' = todo /\ hits' = hits /\ DOMAIN findings' = DOMAIN findings
          /\ pc \in {"link", "recommendation"} /\ pc' \in {"recommendation", "action"}
        BY <1>2 DEF Cite, Recommend, memory
    <2>2. InHand' = InHand
        BY <2>1 DEF InHand
    <2> QED BY <2>1, <2>2 DEF TodoHasHits, Writing
<1>3. CASE Act
    <2>1. /\ todo # <<>> /\ todo \in Seq(Range(RuleIds)) /\ Differ(todo, 1 .. Len(todo))
          /\ \A i \in 1 .. Len(todo) : (\E h \in hits : h.rule = todo[i]) /\ todo[i] \notin DOMAIN findings \ InHand
        BY <1>3 DEF Act, TodoHasHits, Writing
    <2>2. /\ todo' = Tail(todo) /\ hits' = hits /\ findings' = findings /\ pc' = "finding"
          /\ InHand = {Head(todo)}
        BY <1>3 DEF Act, InHand
    <2> DEFINE X == Range(RuleIds)
    <2> HIDE DEF X
    <2>3. /\ Tail(todo) \in Seq(X) /\ Differ(Tail(todo), 1 .. Len(Tail(todo)))
          /\ \A i \in 1 .. Len(Tail(todo)) :
                i + 1 \in 1 .. Len(todo) /\ Tail(todo)[i] = todo[i + 1] /\ Tail(todo)[i] # Head(todo)
        BY <2>1, TodoRest DEF X
    <2>4. \A i \in 1 .. Len(Tail(todo)) : (\E h \in hits : h.rule = Tail(todo)[i]) /\ Tail(todo)[i] \notin DOMAIN findings
        BY <2>1, <2>2, <2>3
    <2> QED BY <2>2, <2>3, <2>4 DEF TodoHasHits, X
<1>4. CASE UNCHANGED vars
    BY <1>4 DEF vars, TodoHasHits, Writing, InHand
<1>5. CASE Claim \/ Crawl \/ Skip \/ Page \/ Observe \/ Collected \/ Review \/ Score \/ Fail \/ FailLater
    <2>1. ~Writing'
        BY <1>5 DEF Claim, Crawl, Skip, Page, Observe, Collected, Review, Score, Fail, FailLater, Writing
    <2> QED BY <2>1 DEF TodoHasHits
<1> QED BY <1>1, <1>2, <1>3, <1>4, <1>5 DEF Next

\* The gravest of some hits is one of them, and none is graver.
LEMMA WorstIn ==
    ASSUME NEW H, H # {}, \A h \in H : Measured(h)
    PROVE  Worst(H) \in H /\ \A i \in H : Rank[Worst(H).severity] <= Rank[i.severity]
<1> DEFINE rank == [h \in H |-> Rank[h.severity]]
<1>1. \A h \in H : rank[h] \in Nat /\ rank[h] = Rank[h.severity]
    BY DEF Measured, Severity, Rank
<1> HIDE DEF rank
<1>2. PICK h \in H : \A i \in H : rank[h] <= rank[i]
    BY <1>1, LeastBy
<1>3. \A i \in H : Rank[h.severity] <= Rank[i.severity]
    BY <1>1, <1>2
<1> QED BY <1>3 DEF Worst

\* A share of a total, rounded, is no more than the total.
LEMMA RoundedShare ==
    ASSUME NEW num \in Nat, NEW den \in Nat \ {0}, num <= den, NEW total \in Nat
    PROVE  Round(num * total, den) <= total
<1> DEFINE a == num * total  q == a \div den  r == a % den
<1>1. a \in Nat /\ a <= total * den
    OBVIOUS
<1>2. q \in Nat /\ r \in 0 .. den - 1 /\ a = den * q + r
    BY <1>1
<1> HIDE DEF a, q, r
<1>3. q <= total
    BY <1>1, <1>2
<1>4. q = total => r = 0
    BY <1>1, <1>2
<1>5. Round(a, den) = IF 2 * r > den \/ (2 * r = den /\ q % 2 = 1) THEN q + 1 ELSE q
    BY DEF Round, q, r
<1>6. Round(a, den) <= total
    BY <1>2, <1>3, <1>4, <1>5
<1> QED BY <1>6 DEF a

-----------------------------------------------------------------------------
(* The findings.                                                           *)

\* The first page a group names is one of those its hits name.
LEMMA FirstUrlIn ==
    ASSUME NEW H, H # {}, \A h \in H : rows[h.lead].at \in Nat
    PROVE  FirstUrl(H) \in {h.lead : h \in H}
<1> DEFINE at == [h \in H |-> rows[h.lead].at]
<1>1. \A h \in H : at[h] \in Nat /\ at[h] = rows[h.lead].at
    OBVIOUS
<1> HIDE DEF at
<1>2. PICK h \in H : \A i \in H : at[h] <= at[i]
    BY <1>1, LeastBy
<1>3. \A i \in H : rows[h.lead].at <= rows[i.lead].at
    BY <1>1, <1>2
<1> QED BY <1>3 DEF FirstUrl

\* What one group of hits makes of a finding: it counts no more pages than were read.
LEMMA FoundSilently ==
    ASSUME IInv, Collects, HitsSound, Writing, NEW H \in SUBSET hits, H # {}
    PROVE  /\ FindingOf(H).severity \in Severity /\ DOMAIN FindingOf(H) = Fields /\ FindingOf(H).evidence = {}
           /\ (\A h \in H : h.rule # "technical.crawl_degraded") =>
                 /\ FindingOf(H).count <= Cardinality(Urls(Range(result)) \ Walled)
                 /\ FindingOf(H).page \notin Walled
                 /\ GroupUrls(H) \cap Walled = {}
<1> DEFINE U == Urls(Range(result)) \ Walled
           w == Worst(H)
           num == Least(w.den, MapThenSumSet(LAMBDA h : h.num, H))
           total == Most(1, Cardinality(Read))
           f == FindingOf(H)
<1>1. /\ IsFiniteSet(H)
      /\ \A h \in H : Measured(h) /\ (h.rule # "technical.crawl_degraded" => About(h, Read))
    BY FS_Subset DEF HitsSound
<1>2. w \in H /\ Measured(w)
    BY <1>1, WorstIn
<1>3. /\ f.severity = w.severity /\ f.evidence = {} /\ DOMAIN f = Fields /\ f.page = FirstUrl(H)
      /\ f.count = Most(1, Most(Cardinality(GroupUrls(H)), Round(num * total, w.den)))
    BY DEF FindingOf, Fields
<1> HIDE DEF f
<1>4. f.severity \in Severity
    BY <1>2, <1>3 DEF Measured
<1>5. ASSUME \A h \in H : h.rule # "technical.crawl_degraded"
      PROVE  f.count <= Cardinality(U) /\ f.page \notin Walled /\ GroupUrls(H) \cap Walled = {}
    <2>1. /\ Site(Read) /\ Urls(Read) \subseteq U /\ IsFiniteSet(U) /\ Read # {}
          /\ Cardinality(Read) <= Cardinality(Urls(Read))
        BY ReadIsSite DEF Collects, Writing
    <2>2. /\ Cardinality(U) \in Nat \ {0} /\ Cardinality(Urls(Read)) <= Cardinality(U)
          /\ Cardinality(Urls(Read)) \in Nat /\ Cardinality(Read) \in Nat
        <3>1. U # {}
            BY <2>1 DEF Urls
        <3> QED BY <2>1, <3>1, FS_Subset, FS_CardinalityType, FS_EmptySet DEF Site
    <2>3. GroupUrls(H) \subseteq Urls(Read) /\ {h.lead : h \in H} \subseteq Urls(Read)
        BY <1>1, <1>5 DEF GroupUrls, About
    <2>4. Cardinality(GroupUrls(H)) \in Nat /\ Cardinality(GroupUrls(H)) <= Cardinality(U)
        <3>1. GroupUrls(H) \in SUBSET U
            BY <2>1, <2>3
        <3> QED BY <2>1, <3>1, PartOf
    <2>5. total \in Nat /\ total <= Cardinality(U)
        BY <2>1, <2>2 DEF Most
    <2>6. num \in Nat /\ num <= w.den /\ w.den \in Nat \ {0}
        <3>1. MapThenSumSet(LAMBDA h : h.num, H) \in Nat
            BY <1>1, SumOfShares DEF Measured
        <3> QED BY <1>2, <3>1 DEF Measured, Least
    <2> HIDE DEF num, total, w, U
    <2>7. Round(num * total, w.den) <= total /\ Round(num * total, w.den) \in Int
        <3>1. num * total \in Nat
            BY <2>5, <2>6
        <3>2. Round(num * total, w.den) \in Int
            BY <2>6, <3>1 DEF Round
        <3> QED BY <2>5, <2>6, <3>2, RoundedShare
    <2>8. f.count <= Cardinality(U)
        BY <1>3, <2>2, <2>4, <2>5, <2>7 DEF Most
    <2>9. f.page \in Urls(Read)
        <3>1. ASSUME NEW h \in H PROVE rows[h.lead].at \in Nat
            <4>1. PICK u \in seen : rows[u].url = h.lead
                BY <2>3 DEF Urls, Read
            <4>2. u = h.lead /\ rows[u] \in Range(result) /\ PagesTyped
                BY <4>1 DEF Collects, SeenPages, Writing
            <4> QED BY <4>2 DEF PagesTyped
        <3> QED BY <1>3, <2>3, <3>1, FirstUrlIn
    <2> QED BY <2>1, <2>3, <2>8, <2>9 DEF U
<1> QED BY <1>3, <1>4, <1>5 DEF f

\* The group of the code in hand.
LEMMA GroupInHand ==
    ASSUME TodoHasHits, Writing, todo # <<>>
    PROVE  /\ Group(Head(todo)) \in SUBSET hits /\ Group(Head(todo)) # {}
           /\ \A h \in Group(Head(todo)) : h.rule = Head(todo)
           /\ Head(todo) \notin DOMAIN findings \ InHand
<1>1. 1 \in 1 .. Len(todo) /\ Head(todo) = todo[1]
    BY DEF TodoHasHits
<1> QED BY <1>1 DEF TodoHasHits, Group

\* Every step keeps the findings silent: Find writes what a group makes and Cite what it read.
LEMMA SilentStep == IInv /\ Collects /\ HitsSound /\ TodoHasHits /\ FindingsSilent /\ [Next]_vars => FindingsSilent'
<1> SUFFICES ASSUME IInv, Collects, HitsSound, TodoHasHits, FindingsSilent, [Next]_vars PROVE FindingsSilent'
    OBVIOUS
<1> DEFINE W == Urls(Range(result)) \ Walled  code == Head(todo)  H == Group(Head(todo))
<1>1. CASE Find \/ Cite
    <2>1. Writing /\ todo # <<>> /\ result' = result /\ Walled' = Walled /\ code \in DOMAIN findings'
        BY <1>1 DEF Find, Cite, Writing, memory, Walled, IInv, PlanKeepsUp, InHand, TodoHasHits, With
    <2>2. H \in SUBSET hits /\ H # {} /\ \A h \in H : h.rule = code
        BY <2>1, GroupInHand
    <2> DEFINE f == FindingOf(H)
    <2>3. /\ f.severity \in Severity /\ DOMAIN f = Fields /\ f.evidence = {}
          /\ code # "technical.crawl_degraded" =>
                f.count <= Cardinality(W) /\ f.page \notin Walled /\ GroupUrls(H) \cap Walled = {}
        BY <2>1, <2>2, FoundSilently
    <2> HIDE DEF f, H, code
    <2>4. CASE Find
        <3>1. /\ DOMAIN findings' = {code} \cup DOMAIN findings /\ findings'[code] = f
              /\ \A c \in DOMAIN findings : c # code => findings'[c] = findings[c]
            BY <2>4 DEF Find, With, f, H, code
        <3>2. FindingsTyped'
            BY <2>3, <3>1 DEF FindingsSilent, FindingsTyped
        <3>3. \A c \in DOMAIN findings' \ {"technical.crawl_degraded"} : Silent(c)'
            BY <2>1, <2>3, <3>1 DEF FindingsSilent, Silent
        <3> QED BY <3>2, <3>3 DEF FindingsSilent
    <2>5. CASE Cite
        <3> DEFINE E == IF code = "technical.crawl_degraded" THEN {} ELSE GroupUrls(H)
                   g == findings[code]  g2 == findings'[code]
        <3>1. /\ DOMAIN findings' = DOMAIN findings /\ g2 = [g EXCEPT !.evidence = E]
              /\ \A c \in DOMAIN findings : c # code => findings'[c] = findings[c]
            BY <2>1, <2>5 DEF Cite, H, code
        <3>2. g.severity \in Severity /\ DOMAIN g = Fields
            BY <2>1, <3>1 DEF FindingsSilent, FindingsTyped
        <3>3. g2.severity = g.severity /\ g2.count = g.count /\ g2.page = g.page /\ g2.evidence = E /\ DOMAIN g2 = Fields
            BY <3>1, <3>2 DEF Fields
        <3>4. code # "technical.crawl_degraded" => E \cap Walled = {}
            BY <2>3
        <3> HIDE DEF E, g, g2
        <3>5. FindingsTyped'
            BY <3>1, <3>2, <3>3 DEF FindingsSilent, FindingsTyped, g, g2
        <3>6. \A c \in DOMAIN findings' \ {"technical.crawl_degraded"} : Silent(c)'
            BY <2>1, <3>1, <3>3, <3>4 DEF FindingsSilent, Silent, g, g2
        <3> QED BY <3>5, <3>6 DEF FindingsSilent
    <2> QED BY <1>1, <2>4, <2>5
<1>2. CASE Claim
    BY <1>2 DEF Claim, Clear, plan, Empties, FindingsSilent, FindingsTyped, Writing
<1>3. CASE Evaluate
    <2>1. DOMAIN findings' = {}
        BY <1>3 DEF Evaluate, plan, IInv, PlanKeepsUp, Empties
    <2> QED BY <2>1 DEF FindingsSilent, FindingsTyped
<1>4. CASE Crawl \/ Skip \/ Page \/ Observe \/ Collected \/ Fail \/ FailLater
    BY <1>4 DEF Crawl, Skip, Page, Observe, Collected, Fail, FailLater, plan, FindingsSilent, FindingsTyped, Writing
<1>5. CASE Recommend \/ Act \/ Review \/ Score \/ UNCHANGED vars
    <2>1. /\ findings' = findings /\ result' = result /\ ((Writing \/ pc = "score")' => Writing \/ pc = "score")
          /\ Walled' = Walled
        BY <1>5 DEF Recommend, Act, Review, Score, vars, memory, plan, Writing, Walled
    <2> QED BY <2>1 DEF FindingsSilent, FindingsTyped, Silent
<1> QED BY <1>1, <1>2, <1>3, <1>4, <1>5 DEF Next

-----------------------------------------------------------------------------
(* The plan.                                                               *)

\* A set that one element comes to, if it is of some kind.
LEMMA OneComes ==
    ASSUME NEW S, IsFiniteSet(S), NEW x, x \notin S, NEW T, NEW yes \in BOOLEAN, T = IF yes THEN S \cup {x} ELSE S
    PROVE  IsFiniteSet(T) /\ Cardinality(S) \in Nat /\ Cardinality(T) = Cardinality(S) + (IF yes THEN 1 ELSE 0)
BY FS_AddElement, FS_CardinalityType

\* Act serves the finding in hand in the week whose turn it is.
LEMMA ActDeals == Planning /\ Act => Dealt'
<1> SUFFICES ASSUME Planning, Act PROVE Dealt'
    OBVIOUS
<1> DEFINE code == Head(todo)  f == findings[code]
           x == [code |-> code, attempt |-> attempt, linked |-> TRUE, week |-> Week(f.severity), tier |-> Tier(f)]
           M == DealtWith({"medium"})  L == DealtWith({"low", "info"})
           m == Cardinality(M)  l == Cardinality(L)
<1>1. /\ pc = "action" /\ pc' = "finding" /\ actions' = actions \cup {x} /\ findings' = findings
      /\ InHand = {code} /\ InHand' = {} /\ code \in DOMAIN findings /\ recommendations = DOMAIN findings
    BY DEF Act, Planning, IInv, PlanKeepsUp, InHand, Writing
<1>2. /\ IsFiniteSet(DOMAIN findings) /\ IsFiniteSet(LinkedActions)
      /\ Cardinality(LinkedActions) = Cardinality(DOMAIN findings \ {code})
      /\ \A a \in LinkedActions : /\ a.code \in DOMAIN findings \ {code}
                                  /\ findings[a.code].severity \in {"critical", "high"} <=> a.week = 1
      /\ \A v \in 2 .. 4 : Cardinality(Load(v)) = (m + 4 - v) \div 3
      /\ \A v \in 5 .. 8 : Cardinality(Load(v)) = (l + 8 - v) \div 4
    BY <1>1 DEF Planning, Dealt, Writing
<1>3. f.severity \in Severity
    BY <1>1 DEF Planning, FindingsSilent, FindingsTyped
<1>4. Earlier({"medium"}) = m /\ Earlier({"low", "info"}) = l
    BY <1>1 DEF Earlier, DealtWith
<1>5. x.code = code /\ x.linked = TRUE /\ x.week = Week(f.severity)
    OBVIOUS
<1>6. IsFiniteSet(M) /\ IsFiniteSet(L) /\ code \notin M /\ code \notin L /\ m \in Nat /\ l \in Nat
    <2>1. M \in SUBSET (DOMAIN findings) /\ L \in SUBSET (DOMAIN findings) /\ code \notin M /\ code \notin L
        BY <1>1 DEF DealtWith
    <2> QED BY <1>2, <2>1, FS_Subset, FS_CardinalityType
<1>7. /\ DealtWith({"medium"})' = IF f.severity = "medium" THEN M \cup {code} ELSE M
      /\ DealtWith({"low", "info"})' = IF f.severity \in {"low", "info"} THEN L \cup {code} ELSE L
    BY <1>1 DEF DealtWith
<1>8. /\ Cardinality(DealtWith({"medium"})') = m + (IF f.severity = "medium" THEN 1 ELSE 0)
      /\ Cardinality(DealtWith({"low", "info"})') = l + (IF f.severity \in {"low", "info"} THEN 1 ELSE 0)
    <2> HIDE DEF M, L, code, f
    <2> QED BY <1>6, <1>7, OneComes
<1>9. LinkedActions' = LinkedActions \cup {x} /\ x \notin LinkedActions
    BY <1>1, <1>2, <1>5 DEF LinkedActions
<1>10. /\ IsFiniteSet(LinkedActions')
       /\ Cardinality(LinkedActions') = Cardinality(DOMAIN findings)
    <2> HIDE DEF x, code
    <2>1. IsFiniteSet(LinkedActions') /\ Cardinality(LinkedActions') = Cardinality(LinkedActions) + 1
        BY <1>2, <1>9, FS_AddElement
    <2>2. /\ Cardinality(DOMAIN findings \ {code}) = Cardinality(DOMAIN findings) - 1
          /\ Cardinality(DOMAIN findings) \in Nat
        BY <1>1, <1>2, FS_RemoveElement, FS_CardinalityType
    <2> QED BY <1>2, <2>1, <2>2
<1>11. \A v : Cardinality(Load(v)') = Cardinality(Load(v)) + (IF v = x.week THEN 1 ELSE 0) /\ Cardinality(Load(v)) \in Nat
    <2> SUFFICES ASSUME NEW v
                 PROVE  Cardinality(Load(v)') = Cardinality(Load(v)) + (IF v = x.week THEN 1 ELSE 0) /\ Cardinality(Load(v)) \in Nat
        OBVIOUS
    <2> HIDE DEF x
    <2>1. Load(v)' = IF v = x.week THEN Load(v) \cup {x} ELSE Load(v)
        BY <1>9 DEF Load
    <2>2. IsFiniteSet(Load(v)) /\ x \notin Load(v)
        BY <1>2, <1>9, FS_Subset DEF Load
    <2> QED BY <2>1, <2>2, OneComes
<1>12. x.week = IF f.severity \in {"critical", "high"} THEN 1
                ELSE IF f.severity = "medium" THEN 2 + (m % 3) ELSE 5 + (l % 4)
    <2> HIDE DEF m, l, f, x
    <2> QED BY <1>3, <1>4, <1>5 DEF Week, Severity
<1> DEFINE week == x.week  severity == f.severity
<1> HIDE DEF x, f, m, l, M, L
<1>13. \A a \in LinkedActions' : /\ a.code \in DOMAIN findings'
                                 /\ findings'[a.code].severity \in {"critical", "high"} <=> a.week = 1
    <2>1. severity \in {"critical", "high"} <=> week = 1
        BY <1>3, <1>6, <1>12 DEF Severity
    <2> QED BY <1>1, <1>2, <1>5, <1>9, <2>1 DEF f
<1>14. \A v \in 2 .. 4 : Cardinality(Load(v)') = (Cardinality(DealtWith({"medium"})') + 4 - v) \div 3
    <2>1. CASE severity = "medium"
        <3>1. \A v \in 2 .. 4 : (m + 1 + 4 - v) \div 3 = (m + 4 - v) \div 3 + (IF v = 2 + (m % 3) THEN 1 ELSE 0)
            BY <1>6
        <3>2. week = 2 + (m % 3) /\ Cardinality(DealtWith({"medium"})') = m + 1
            BY <1>8, <1>12, <2>1
        <3> QED BY <1>2, <1>6, <1>11, <3>1, <3>2
    <2>2. CASE severity # "medium"
        <3>1. \A v \in 2 .. 4 : v # week
            BY <1>3, <1>6, <1>12, <2>2 DEF Severity
        <3>2. Cardinality(DealtWith({"medium"})') = m
            BY <1>6, <1>8, <2>2
        <3>3. \A v \in 2 .. 4 : Cardinality(Load(v)') = Cardinality(Load(v))
            BY <1>11, <3>1
        <3> QED BY <1>2, <3>2, <3>3
    <2> QED BY <2>1, <2>2
<1>15. \A v \in 5 .. 8 : Cardinality(Load(v)') = (Cardinality(DealtWith({"low", "info"})') + 8 - v) \div 4
    <2>1. CASE severity \in {"low", "info"}
        <3>1. \A v \in 5 .. 8 : (l + 1 + 8 - v) \div 4 = (l + 8 - v) \div 4 + (IF v = 5 + (l % 4) THEN 1 ELSE 0)
            BY <1>6
        <3>2. week = 5 + (l % 4) /\ Cardinality(DealtWith({"low", "info"})') = l + 1
            BY <1>8, <1>12, <2>1
        <3> QED BY <1>2, <1>6, <1>11, <3>1, <3>2
    <2>2. CASE severity \notin {"low", "info"}
        <3>1. \A v \in 5 .. 8 : v # week
            BY <1>3, <1>6, <1>12, <2>2 DEF Severity
        <3>2. Cardinality(DealtWith({"low", "info"})') = l
            BY <1>6, <1>8, <2>2
        <3>3. \A v \in 5 .. 8 : Cardinality(Load(v)') = Cardinality(Load(v))
            BY <1>11, <3>1
        <3> QED BY <1>2, <3>2, <3>3
    <2> QED BY <2>1, <2>2
<1>16. DOMAIN findings' \ InHand' = DOMAIN findings
    BY <1>1
<1> QED BY <1>1, <1>2, <1>10, <1>13, <1>14, <1>15, <1>16 DEF Dealt

\* The finding in hand is not dealt yet; what is served keeps its severity.
LEMMA WriteDeals == Planning /\ (Find \/ Cite \/ Recommend) => Dealt'
<1> SUFFICES ASSUME Planning, Find \/ Cite \/ Recommend PROVE Dealt'
    OBVIOUS
<1>1. /\ Writing /\ todo # <<>> /\ todo' = todo /\ actions' = actions
      /\ InHand' = {Head(todo)} /\ (Find => InHand = {}) /\ (~Find => InHand = {Head(todo)})
    BY DEF Find, Cite, Recommend, memory, Writing, InHand, Planning, TodoHasHits
<1>2. /\ DOMAIN findings' = DOMAIN findings \/ DOMAIN findings' = DOMAIN findings \cup {Head(todo)}
      /\ DOMAIN findings' \ InHand' = DOMAIN findings \ InHand
      /\ \A code \in DOMAIN findings \ InHand : findings'[code] = findings[code]
    <2>1. CASE Find
        <3>1. Head(todo) \notin DOMAIN findings
            BY <1>1, <2>1, GroupInHand DEF Planning
        <3> QED BY <1>1, <2>1, <3>1 DEF Find, With
    <2>2. CASE Cite
        BY <1>1, <2>2 DEF Cite, Find
    <2>3. CASE Recommend
        BY <1>1, <2>3 DEF Recommend, Find
    <2> QED BY <2>1, <2>2, <2>3
<1>3. /\ LinkedActions' = LinkedActions
      /\ \A v : Load(v)' = Load(v)
      /\ \A severities : DealtWith(severities)' = DealtWith(severities)
    BY <1>1, <1>2 DEF LinkedActions, Load, DealtWith
<1>4. IsFiniteSet(DOMAIN findings) /\ IsFiniteSet(DOMAIN findings')
    BY <1>1, <1>2, FS_AddElement DEF Planning, Dealt
<1> QED BY <1>1, <1>2, <1>3, <1>4 DEF Planning, Dealt

\* Every step keeps the plan dealt out in turn.
LEMMA DealtStep == Planning /\ [Next]_vars => Dealt'
<1> SUFFICES ASSUME Planning, [Next]_vars, ~Act, ~(Find \/ Cite \/ Recommend) PROVE Dealt'
    BY ActDeals, WriteDeals
<1>1. CASE Evaluate
    <2>1. /\ DOMAIN findings' = {} /\ LinkedActions' = {} /\ findings' = findings
        BY <1>1 DEF Evaluate, plan, Planning, IInv, PlanKeepsUp, Empties, LinkedActions
    <2>2. \A v : Load(v)' = {}
        BY <2>1 DEF Load
    <2>3. \A severities : DealtWith(severities)' = {}
        BY <2>1 DEF DealtWith
    <2>4. DOMAIN findings' \ InHand' = {}
        BY <2>1
    <2>5. Cardinality({}) = 0 /\ IsFiniteSet({})
        BY FS_EmptySet
    <2>6. (\A v \in 2 .. 4 : 0 = (0 + 4 - v) \div 3) /\ (\A v \in 5 .. 8 : 0 = (0 + 8 - v) \div 4)
        OBVIOUS
    <2> QED BY <2>1, <2>2, <2>3, <2>4, <2>5, <2>6 DEF Dealt
<1>2. CASE Review \/ Score \/ UNCHANGED vars
    <2>1. /\ findings' = findings /\ LinkedActions' = LinkedActions /\ InHand' = InHand
          /\ \/ Writing \/ pc = "score" \/ (pc = "idle" /\ state = "GATE_1_REVIEW")
             \/ ~(Writing \/ pc = "score" \/ (pc = "idle" /\ state = "GATE_1_REVIEW"))'
        BY <1>2 DEF Review, Score, vars, plan, memory, LinkedActions, InHand, Writing
    <2>2. (\A v : Load(v)' = Load(v)) /\ (\A severities : DealtWith(severities)' = DealtWith(severities))
        BY <2>1 DEF Load, DealtWith
    <2> QED BY <2>1, <2>2 DEF Planning, Dealt
<1>3. CASE Claim \/ Crawl \/ Skip \/ Page \/ Observe \/ Collected \/ Fail \/ FailLater
    <2>1. ~(Writing \/ pc = "score" \/ (pc = "idle" /\ state = "GATE_1_REVIEW"))'
        BY <1>3 DEF Claim, Crawl, Skip, Page, Observe, Collected, Fail, FailLater, Writing
    <2> QED BY <2>1 DEF Dealt
<1> QED BY <1>1, <1>2, <1>3 DEF Next

\* A run that was never claimed has nothing that could be wrong.
LEMMA InitPlanning == Init => Planning
<1> SUFFICES ASSUME Init PROVE Planning
    OBVIOUS
<1>1. IInv
    BY InitIInv
<1>2. Collects /\ HitsSound /\ TodoHasHits /\ FindingsSilent /\ Dealt
    BY DEF Init, Collects, Collecting, Writing, HitsSound, TodoHasHits, FindingsSilent, FindingsTyped, Dealt, Empties
<1> QED BY <1>1, <1>2 DEF Planning

\* The inductive invariant of the pages, the hits, the findings and the plan.
LEMMA PlanningHolds == Spec => []Planning
<1>1. Planning /\ [Next]_vars => Planning'
    BY TypeStep, RowsStep, PlanStep, ActionsStep, CollectsStep, HitsStep, TodoStep, SilentStep, DealtStep DEF Planning, IInv
<1> QED BY InitPlanning, <1>1, PTL DEF Spec

\* Whatever the rules find, no finding but the caveat about the crawl counts, shows or cites a URL that
\* any item found behind a bot challenge (audit_engine/rules.py:45), in any attempt and however many
\* of them the caveat lists.
THEOREM QuarantineStaysSilent == Spec => []QuarantineIsSilent
<1>1. Planning => QuarantineIsSilent
    <2> SUFFICES ASSUME Planning, pc # "idle" PROVE \A code \in DOMAIN findings \ {"technical.crawl_degraded"} : Silent(code)
        BY DEF QuarantineIsSilent, Silent
    <2>1. CASE Writing \/ pc = "score"
        BY <2>1 DEF Planning, FindingsSilent
    <2>2. CASE ~(Writing \/ pc = "score")
        BY <2>2 DEF Planning, IInv, TypeOK, PcStep, PlanKeepsUp, Writing, Empties
    <2> QED BY <2>1, <2>2
<1> QED BY PlanningHolds, <1>1, PTL

\* At the review each finding has one linked action, the critical and high ones in the first week, and
\* the others spread over their weeks so that none has two more than a later one, nor fewer
\* (audit_engine/tasks.py:370).
THEOREM PlanStages == Spec => []PlanIsStaged
<1>1. Planning => PlanIsStaged
    <2> SUFFICES ASSUME Planning PROVE PlanIsStaged
        OBVIOUS
    <2>1. PlanIsComplete
        BY DEF Planning, IInv, PlanKeepsUp, Writing, InHand, Served, PlanIsComplete
    <2> SUFFICES ASSUME state = "GATE_1_REVIEW"
                 PROVE  /\ Cardinality(LinkedActions) = Cardinality(DOMAIN findings)
                        /\ \A a \in LinkedActions : findings[a.code].severity \in {"critical", "high"} <=> a.week = 1
                        /\ \A span \in {2..4, 5..8} : \A v, w \in span :
                              v < w => Cardinality(Load(v)) - Cardinality(Load(w)) \in {0, 1}
        BY <2>1 DEF PlanIsStaged, Load
    <2>2. pc \in {"score", "idle"} /\ Dealt
        BY DEF Planning, IInv, PlanKeepsUp
    <2>3. InHand = {} /\ (pc = "score" \/ (pc = "idle" /\ state = "GATE_1_REVIEW"))
        BY <2>2 DEF InHand
    <2> DEFINE M == DealtWith({"medium"})  L == DealtWith({"low", "info"})  m == Cardinality(M)  l == Cardinality(L)
    <2>4. IsFiniteSet(DOMAIN findings) /\ DOMAIN findings \ InHand = DOMAIN findings
        BY <2>2, <2>3 DEF Dealt
    <2>5. m \in Nat /\ l \in Nat
        <3>1. M \in SUBSET (DOMAIN findings) /\ L \in SUBSET (DOMAIN findings)
            BY DEF DealtWith
        <3> QED BY <2>4, <3>1, PartOf
    <2>6. /\ Cardinality(LinkedActions) = Cardinality(DOMAIN findings)
          /\ \A a \in LinkedActions : findings[a.code].severity \in {"critical", "high"} <=> a.week = 1
          /\ \A v \in 2 .. 4 : Cardinality(Load(v)) = (m + 4 - v) \div 3
          /\ \A v \in 5 .. 8 : Cardinality(Load(v)) = (l + 8 - v) \div 4
        BY <2>2, <2>3, <2>4 DEF Dealt
    <2> HIDE DEF m, l, M, L
    <2>7. \A v, w \in 2 .. 4 : v < w => (m + 4 - v) \div 3 - (m + 4 - w) \div 3 \in {0, 1}
        BY <2>5
    <2>8. \A v, w \in 5 .. 8 : v < w => (l + 8 - v) \div 4 - (l + 8 - w) \div 4 \in {0, 1}
        BY <2>5
    <2>9. \A v, w \in 2 .. 4 : v < w => Cardinality(Load(v)) - Cardinality(Load(w)) \in {0, 1}
        BY <2>6, <2>7
    <2>10. \A v, w \in 5 .. 8 : v < w => Cardinality(Load(v)) - Cardinality(Load(w)) \in {0, 1}
        BY <2>6, <2>8
    <2> QED BY <2>6, <2>9, <2>10
<1> QED BY PlanningHolds, <1>1, PTL

-----------------------------------------------------------------------------
(* Sets in an order.                                                       *)

\* The foremost of some elements is one of them.
LEMMA ForemostIn ==
    ASSUME NEW S, IsFiniteSet(S), S # {}, NEW before
    PROVE  Foremost(S, before) \in S
<1> DEFINE ahead == [x \in S |-> Cardinality({y \in S : <<y, x>> \in before})]
<1>1. \A x \in S : ahead[x] \in Nat
    BY PartOf
<1>2. \A x \in S : ahead[x] = Cardinality({y \in S : <<y, x>> \in before})
    OBVIOUS
<1> HIDE DEF ahead
<1>3. \E x \in S : \A y \in S : ahead[x] <= ahead[y]
    BY <1>1, LeastBy
<1> QED BY <1>2, <1>3 DEF Foremost

\* What is left of a set after each taking.
Leaves(left, S, before) ==
    /\ left[0] = S
    /\ \A n \in Nat : left[n + 1] = left[n] \ {Foremost(left[n], before)}

\* There is such a function.
LEMMA LeftExists ==
    ASSUME NEW S, NEW before
    PROVE  \E left : Leaves(left, S, before) /\ Ranked(S, before) = [i \in 1 .. Cardinality(S) |-> Foremost(left[i - 1], before)]
<1> DEFINE Parts == SUBSET S
           Rest(t) == t \ {Foremost(t, before)}
           g == [n \in Nat |-> [t \in Parts |-> Rest(t)]]
           N(left) == [n \in Nat |-> IF n = 0 THEN S ELSE left[n - 1] \ {Foremost(left[n - 1], before)}]
<1>1. PICK f : f \in [Nat -> Parts] /\ f[0] = S /\ \A n \in Nat : f[n + 1] = Rest(f[n])
    <2>1. S \in Parts /\ Steps(g, Parts)
        BY DEF Steps
    <2>2. \A n \in Nat, t \in Parts : g[n][t] = Rest(t)
        OBVIOUS
    <2> HIDE DEF g, Parts, Rest
    <2>3. PICK f : Iterates(f, Parts, S, g)
        BY <2>1, Iterated
    <2> QED BY <2>2, <2>3 DEF Iterates
<1>2. f = N(f)
    <2>1. ASSUME NEW n \in Nat PROVE f[n] = N(f)[n]
        <3>1. CASE n = 0
            BY <1>1, <3>1
        <3>2. CASE n # 0
            <4>1. n - 1 \in Nat /\ (n - 1) + 1 = n
                BY <3>2
            <4>2. f[n] = Rest(f[n - 1])
                BY <1>1, <4>1
            <4> QED BY <3>2, <4>2
        <3> QED BY <3>1, <3>2
    <2>2. f = [n \in Nat |-> f[n]] /\ N(f) = [n \in Nat |-> N(f)[n]]
        BY <1>1
    <2> QED BY <2>1, <2>2
<1> DEFINE h == CHOOSE left : left = N(left)
<1>3. h = N(h)
    <2> HIDE DEF N
    <2> QED BY <1>2
<1>4. Ranked(S, before) = [i \in 1 .. Cardinality(S) |-> Foremost(h[i - 1], before)]
    BY DEF Ranked
<1> HIDE DEF h
<1>5. Leaves(h, S, before)
    <2>1. h[0] = S
        BY <1>3
    <2>2. ASSUME NEW n \in Nat PROVE h[n + 1] = h[n] \ {Foremost(h[n], before)}
        <3>1. n + 1 \in Nat /\ n + 1 # 0 /\ (n + 1) - 1 = n
            OBVIOUS
        <3> QED BY <1>3, <3>1
    <2> QED BY <2>1, <2>2 DEF Leaves
<1> QED BY <1>4, <1>5

\* Every taking leaves one element less; what was taken is not left.
LEMMA LeftShrinks ==
    ASSUME NEW S, IsFiniteSet(S), NEW before, NEW left, Leaves(left, S, before)
    PROVE  \A n \in Nat : n <= Cardinality(S) => left[n] \in SUBSET S /\ Cardinality(left[n]) = Cardinality(S) - n
<1> DEFINE size == Cardinality(S)
           Good(n) == n <= size => left[n] \in SUBSET S /\ Cardinality(left[n]) = size - n
           T == {n \in Nat : Good(n)}
<1>1. size \in Nat
    BY FS_CardinalityType
<1>2. 0 \in T
    BY <1>1 DEF Leaves
<1>3. ASSUME NEW n \in Nat, n \in T PROVE n + 1 \in T
    <2> SUFFICES ASSUME n + 1 <= size PROVE left[n + 1] \in SUBSET S /\ Cardinality(left[n + 1]) = size - (n + 1)
        OBVIOUS
    <2> HIDE DEF size
    <2>1. left[n] \in SUBSET S /\ Cardinality(left[n]) = size - n
        BY <1>1, <1>3
    <2>2. IsFiniteSet(left[n]) /\ left[n] # {}
        BY <1>1, <2>1, FS_Subset, FS_EmptySet
    <2>3. Foremost(left[n], before) \in left[n]
        BY <2>2, ForemostIn
    <2>4. left[n + 1] = left[n] \ {Foremost(left[n], before)}
        BY DEF Leaves
    <2>5. Cardinality(left[n + 1]) = Cardinality(left[n]) - 1
        BY <2>2, <2>3, <2>4, FS_RemoveElement
    <2> QED BY <1>1, <2>1, <2>4, <2>5
<1>4. \A n \in Nat : n \in T
    <2> HIDE DEF T
    <2> QED BY <1>2, <1>3, EveryNumber
<1> QED BY <1>4

\* Each time one element fewer is left.
LEMMA LeftFalls ==
    ASSUME NEW S, NEW before, NEW left, Leaves(left, S, before), NEW m \in Nat
    PROVE  \A n \in Nat : n >= m => left[n] \subseteq left[m]
<1> DEFINE T == {n \in Nat : n >= m => left[n] \subseteq left[m]}
<1>1. 0 \in T
    OBVIOUS
<1>2. ASSUME NEW n \in Nat, n \in T PROVE n + 1 \in T
    <2>1. left[n + 1] \subseteq left[n]
        BY DEF Leaves
    <2>2. CASE n >= m
        BY <1>2, <2>1, <2>2
    <2>3. CASE n + 1 = m
        BY <2>3
    <2>4. CASE n + 1 < m
        BY <2>4
    <2> QED BY <2>2, <2>3, <2>4
<1>3. \A n \in Nat : n \in T
    <2> HIDE DEF T
    <2> QED BY <1>1, <1>2, EveryNumber
<1> QED BY <1>3

\* A sorted set is a sequence that has each of its elements at one place.
LEMMA RankedTakes ==
    ASSUME NEW S, IsFiniteSet(S), NEW before
    PROVE  /\ Ranked(S, before) \in [1 .. Cardinality(S) -> S] /\ Cardinality(S) \in Nat
           /\ Differ(Ranked(S, before), 1 .. Cardinality(S))
           /\ \A x \in S : \E i \in 1 .. Cardinality(S) : Ranked(S, before)[i] = x
<1> DEFINE size == Cardinality(S)
<1>1. size \in Nat
    BY FS_CardinalityType
<1>2. PICK left : Leaves(left, S, before) /\ Ranked(S, before) = [i \in 1 .. size |-> Foremost(left[i - 1], before)]
    BY LeftExists
<1> DEFINE r == [i \in 1 .. size |-> Foremost(left[i - 1], before)]
<1>3. \A n \in Nat : n <= size => left[n] \in SUBSET S /\ Cardinality(left[n]) = size - n
    BY <1>2, LeftShrinks
<1>4. ASSUME NEW i \in 1 .. size
      PROVE  /\ i - 1 \in Nat /\ i \in Nat /\ r[i] \in S /\ r[i] \in left[i - 1]
             /\ left[i] = left[i - 1] \ {r[i]}
    <2>1. i - 1 \in Nat /\ i \in Nat /\ i - 1 <= size /\ (i - 1) + 1 = i /\ size - (i - 1) # 0
        BY <1>1
    <2>2. left[i - 1] \in SUBSET S /\ Cardinality(left[i - 1]) # 0
        BY <1>3, <2>1
    <2>3. IsFiniteSet(left[i - 1]) /\ left[i - 1] # {}
        BY <2>2, FS_Subset, FS_EmptySet
    <2>4. r[i] = Foremost(left[i - 1], before)
        OBVIOUS
    <2>5. r[i] \in left[i - 1]
        BY <2>3, <2>4, ForemostIn
    <2>6. left[i] = left[i - 1] \ {r[i]}
        BY <1>2, <2>1, <2>4 DEF Leaves
    <2> QED BY <2>1, <2>2, <2>5, <2>6
<1>5. DOMAIN r = 1 .. size /\ r \in [1 .. size -> S]
    BY <1>4
<1> HIDE DEF r
<1>6. ASSUME NEW i \in 1 .. size, NEW j \in 1 .. size, i < j PROVE r[i] # r[j]
    <2>1. i \in Nat /\ j - 1 \in Nat /\ j - 1 >= i
        BY <1>6
    <2>2. left[j - 1] \subseteq left[i]
        BY <1>2, <2>1, LeftFalls
    <2> QED BY <1>4, <2>2
<1>7. Differ(r, 1 .. size)
    <2> SUFFICES ASSUME NEW i \in 1 .. size, NEW j \in 1 .. size, r[i] = r[j] PROVE i = j
        BY DEF Differ
    <2>1. ~(i < j) /\ ~(j < i)
        BY <1>6
    <2> QED BY <2>1
<1>8. ASSUME NEW x \in S PROVE \E i \in 1 .. size : r[i] = x
    <2> DEFINE T == {n \in Nat : x \notin left[n]}
    <2>1. size \in T
        <3>1. left[size] \in SUBSET S /\ Cardinality(left[size]) = 0
            BY <1>1, <1>3
        <3>2. left[size] = {}
            BY <3>1, FS_Subset, FS_EmptySet
        <3> QED BY <1>1, <3>2
    <2>2. PICK m \in T : \A n \in T : m <= n
        <3>1. T \subseteq Nat /\ T # {}
            BY <2>1
        <3> HIDE DEF T
        <3> QED BY <3>1, LeastNumber
    <2>3. m \in Nat /\ m <= size /\ x \notin left[m]
        BY <2>1, <2>2
    <2>4. m # 0
        BY <1>2, <2>3 DEF Leaves
    <2>5. m \in 1 .. size /\ m - 1 \in Nat /\ x \in left[m - 1]
        <3>1. m - 1 \in Nat /\ ~(m <= m - 1)
            BY <2>3, <2>4
        <3> QED BY <1>1, <2>2, <2>3, <2>4, <3>1
    <2>6. r[m] = x
        BY <1>4, <2>3, <2>5
    <2> QED BY <2>5, <2>6
<1>9. Ranked(S, before) = r
    BY <1>2 DEF r
<1> HIDE DEF size
<1> QED BY <1>1, <1>5, <1>7, <1>8, <1>9 DEF size

-----------------------------------------------------------------------------
(* The rows a package reads.                                               *)

\* A step of the audit gives every row the page of its URL.
LEMMA RowsTellStep == AuditInv /\ [Next]_vars => RowsTell'
<1> SUFFICES ASSUME AuditInv, [Next]_vars PROVE RowsTell'
    OBVIOUS
<1> USE DEF AuditInv, RowsTell
<1>1. CASE Claim
    <2>1. rows' = rows \/ rows' = Empties
        BY <1>1 DEF Claim, Clear
    <2>2. findings' = findings \/ findings' = Empties
        BY <1>1 DEF Claim, Clear, plan
    <2>3. IsFiniteSet(DOMAIN findings')
        BY <2>2, FS_EmptySet DEF Empties
    <2> QED BY <2>1, <2>3 DEF Empties
<1>2. CASE Page
    <2>1. /\ findings' = findings /\ rows' = With(rows, Head(todo).url, Head(todo))
          /\ PagesTyped /\ Head(todo) \in Range(result)
        <3>1. PagesTyped /\ ChallengesFirst /\ todo # <<>>
            BY <1>2 DEF Page, Planning, Collects, Collecting
        <3>2. Head(todo) \in Range(result)
            BY <3>1 DEF ChallengesFirst
        <3> QED BY <1>2, <3>1, <3>2 DEF Page, plan
    <2> DEFINE p == Head(todo)
    <2> HIDE DEF p
    <2>2. p.url \in URL /\ p.challenge \in BOOLEAN /\ Crawled(p)
        BY <2>1 DEF PagesTyped, p
    <2>3. DOMAIN rows' = DOMAIN rows \cup {p.url} /\ rows'[p.url] = p /\ \A u \in DOMAIN rows : u # p.url => rows'[u] = rows[u]
        BY <2>1 DEF With, p
    <2> QED BY <2>1, <2>2, <2>3
<1>3. CASE Find
    <2>1. DOMAIN findings' = {Head(todo)} \cup DOMAIN findings /\ rows' = rows
        BY <1>3 DEF Find, With
    <2> QED BY <2>1, FS_AddElement
<1>4. CASE Cite
    <2>1. DOMAIN findings' = DOMAIN findings /\ rows' = rows
        BY <1>4 DEF Cite
    <2> QED BY <2>1
<1>5. CASE Crawl \/ Skip \/ Observe \/ Collected \/ Evaluate
    BY <1>5 DEF Crawl, Skip, Observe, Collected, Evaluate, plan
<1>6. CASE Recommend \/ Act \/ Review \/ Score \/ Fail \/ FailLater
    BY <1>6 DEF Recommend, Act, Review, Score, Fail, FailLater, plan
<1>7. CASE UNCHANGED vars
    BY <1>7 DEF vars
<1> QED BY <1>1, <1>2, <1>3, <1>4, <1>5, <1>6, <1>7 DEF Next

\* Every step of the audit keeps it.
LEMMA AuditStep == AuditInv /\ [Next]_vars => AuditInv'
BY TypeStep, RowsStep, PlanStep, ActionsStep, CollectsStep, HitsStep, TodoStep, SilentStep, DealtStep, RowsTellStep
   DEF AuditInv, Planning, IInv

\* It holds before the first audit.
LEMMA AuditInit == Init => AuditInv
BY InitPlanning, FS_EmptySet DEF AuditInv, RowsTell, Init, Empties

-----------------------------------------------------------------------------
(* The pages, findings and actions of a package.                           *)

\* A page of the list has its number, and the URL and the status of its row.
LEMMA PagesRead ==
    ASSUME RowsTell, DOMAIN rows # {}
    PROVE  PagesGood(PageRows)
<1> DEFINE D == DOMAIN rows
           before == {p \in D \X D : p[1] < p[2]}
           r == Ranked(D, before)
           Row(i, p) == [id |-> PageId(i), key |-> Key(p.url), wall |-> p.challenge] ++ (Facts(p) ++ p)
           n == Cardinality(D)
<1>1. IsFiniteSet(D) /\ D # {}
    BY SiteAssumption, FS_Subset DEF RowsTell
<1>2. r \in [1 .. n -> D] /\ n \in Nat
    BY <1>1, RankedTakes
<1>3. n # 0
    BY <1>1, FS_EmptySet
<1>4. PageRows = [i \in 1 .. n |-> Row(i, rows[r[i]])]
    <2>1. DOMAIN r = 1 .. n
        BY <1>2
    <2> QED BY <2>1 DEF PageRows, Sorted
<1> HIDE DEF r, n
<1>5. ASSUME NEW u \in D, NEW i PROVE Row(i, rows[u]).id = PageId(i) /\ Row(i, rows[u]).url = u /\ Row(i, rows[u]).status = rows[u].status
    <2> DEFINE p == rows[u]
    <2>1. {"url", "status"} \subseteq DOMAIN p /\ p.url = u
        BY DEF RowsTell, Crawled, PageFacts
    <2> HIDE DEF p
    <2>2. "url" \notin DOMAIN Facts(p) /\ "status" \notin DOMAIN Facts(p)
        BY DEF Facts, NoFacts
    <2>3. (Facts(p) ++ p).url = u /\ (Facts(p) ++ p).status = p.status /\ {"url", "status"} \subseteq DOMAIN (Facts(p) ++ p)
        BY <2>1, <2>2 DEF ++
    <2> DEFINE g == (Facts(p) ++ p)
    <2> HIDE DEF g
    <2>4. Row(i, p).id = PageId(i) /\ Row(i, p).url = g.url /\ Row(i, p).status = g.status
        <3>1. {"url", "status"} \subseteq DOMAIN g
            BY <2>3 DEF g
        <3> QED BY <3>1 DEF ++, g
    <2> QED BY <2>3, <2>4 DEF p, g
<1> HIDE DEF Row, D
<1>6. PageRows \in Seq(Range(PageRows)) /\ PageRows # <<>> /\ DOMAIN PageRows = 1 .. n
    BY <1>2, <1>3, <1>4 DEF Range
<1>7. \A i \in 1 .. n : PageRows[i].id = PageId(i) /\ PageRows[i].url = r[i] /\ PageRows[i].status = rows[r[i]].status /\ r[i] \in D
    BY <1>2, <1>4, <1>5
<1>8. D \subseteq URL
    BY DEF RowsTell, D
<1> QED BY <1>6, <1>7, <1>8 DEF PagesGood, Range

\* The places of a sequence are those up to its length, and Range has what it holds.
LEMMA SortedSet ==
    ASSUME NEW S, IsFiniteSet(S), NEW before
    PROVE  /\ Ranked(S, before) \in Seq(S) /\ Range(Ranked(S, before)) = S
           /\ Len(Ranked(S, before)) = Cardinality(S) /\ DOMAIN Ranked(S, before) = 1 .. Cardinality(S)
<1> DEFINE r == Ranked(S, before)  n == Cardinality(S)
<1>1. r \in [1 .. n -> S] /\ n \in Nat /\ \A x \in S : \E i \in 1 .. n : r[i] = x
    BY RankedTakes
<1> HIDE DEF r, n
<1>2. r \in Seq(S) /\ DOMAIN r = 1 .. n /\ Len(r) = n
    BY <1>1
<1>3. Range(r) = S
    BY <1>1 DEF Range
<1> QED BY <1>2, <1>3 DEF r, n

\* What a finding cites is a page of the package, and it cites something.
LEMMA CitedShown ==
    ASSUME NEW pages, PagesGood(pages), NEW b, b.pages = pages, NEW f
    PROVE  Cited(b, f) # {} /\ Cited(b, f) \subseteq {PageId(i) : i \in DOMAIN pages}
<1> DEFINE ids == {PageId(i) : i \in DOMAIN pages}
           shown == Display(b.marks, pages)
           linked == {shown[Key(u)] : u \in {u \in f.evidence : Key(u) \in DOMAIN shown}}
           own == {PageId(i) : i \in {i \in DOMAIN pages : pages[i].key = Key(f.page)}}
<1>1. \A k \in DOMAIN shown : shown[k] \in ids
    <2> SUFFICES ASSUME NEW k \in DOMAIN shown PROVE shown[k] \in ids
        OBVIOUS
    <2>1. \E i \in DOMAIN pages : pages[i].key = k
        BY DEF Display
    <2>2. shown[k] = PageId(CHOOSE i \in DOMAIN pages : pages[i].key = k)
        BY DEF Display
    <2> QED BY <2>1, <2>2
<1> HIDE DEF shown
<1>2. linked \subseteq ids /\ own \subseteq ids
    BY <1>1
<1>3. Default(pages) \subseteq ids /\ Default(pages) # {}
    <2>1. 1 \in DOMAIN pages
        BY DEF PagesGood
    <2> QED BY <2>1 DEF Default
<1>4. Cited(b, f) = IF linked # {} THEN linked ELSE IF own # {} THEN own ELSE Default(pages)
    BY DEF Cited, shown
<1> HIDE DEF linked, own, ids
<1> QED BY <1>2, <1>3, <1>4 DEF ids

\* The findings cite pages.
LEMMA FindingsRead == RowsTell /\ Sourced /\ ReadFindings => Sourced'
<1> SUFFICES ASSUME RowsTell, Sourced, ReadFindings PROVE Sourced'
    OBVIOUS
<1> DEFINE D == DOMAIN findings
           row == [code \in D |-> FindingRow(book, code)]
           F == {FindingRow(book, code) : code \in D}
           before == {p \in F \X F : Before(p[1], p[2])}
<1>1. PagesGood(book.pages) /\ step = "findings" /\ step' = "scorecard"
    BY DEF ReadFindings, Turn, Sourced, Booked, Later
<1>2. {"findings", "pages", "sources"} \subseteq DOMAIN book
    BY DEF Sourced, Blank
<1>3. book' = [book EXCEPT !.findings = Ranked(F, before)]
    BY DEF ReadFindings, Sorted
<1>4. IsFiniteSet(F)
    <2>1. IsFiniteSet(D) /\ DOMAIN row = D /\ F = {row[x] : x \in D}
        BY DEF RowsTell
    <2> HIDE DEF D, row, F
    <2> QED BY <2>1, ImageOf
<1>5. \A x \in F : x.evidence # {} /\ x.evidence \subseteq {PageId(i) : i \in DOMAIN book.pages}
    <2> SUFFICES ASSUME NEW code \in D PROVE row[code].evidence # {} /\ row[code].evidence \subseteq {PageId(i) : i \in DOMAIN book.pages}
        OBVIOUS
    <2>1. row[code].evidence = Cited(book, findings[code])
        BY DEF FindingRow
    <2> HIDE DEF row
    <2> QED BY <1>1, <2>1, CitedShown
<1> HIDE DEF F, before, row, D
<1>6. Range(Ranked(F, before)) = F
    BY <1>4, SortedSet
<1>7. Range(book'.findings) = F /\ book'.pages = book.pages /\ book'.sources = book.sources /\ DOMAIN book' = DOMAIN book
    BY <1>2, <1>3, <1>6
<1>8. \A x \in F : CitesBook(x)'
    BY <1>5, <1>7 DEF CitesBook, Cites, EvidenceRows
<1> QED BY <1>1, <1>7, <1>8 DEF Sourced, Booked, Later

\* An action cites what its finding does.
LEMMA ActionsRead == Sourced /\ ReadActions => Sourced'
<1> SUFFICES ASSUME Sourced, ReadActions PROVE Sourced'
    OBVIOUS
<1>1. PagesGood(book.pages) /\ step = "actions" /\ step' = "integrity" /\ \A f \in Range(book.findings) : CitesBook(f)
    BY DEF ReadActions, Turn, Sourced, Booked, Later
<1>2. {"actions", "findings", "pages", "sources"} \subseteq DOMAIN book
    BY DEF Sourced, Blank
<1>3. book' = [book EXCEPT !.actions = {ActionRow(book, a) : a \in actions}]
    BY DEF ReadActions
<1>4. /\ book'.actions = {ActionRow(book, a) : a \in actions} /\ DOMAIN book' = DOMAIN book
      /\ book'.pages = book.pages /\ book'.sources = book.sources /\ book'.findings = book.findings
    BY <1>2, <1>3
<1>5. ASSUME NEW a \in actions PROVE CitesBook(ActionRow(book, a))
    <2> DEFINE of == {f \in Range(book.findings) : a.linked /\ f.key = Key(a.code)}
    <2>1. ActionRow(book, a).evidence = IF of = {} THEN Default(book.pages) ELSE UNION {f.evidence : f \in of}
        BY DEF ActionRow
    <2>2. Default(book.pages) # {} /\ Default(book.pages) \subseteq EvidenceRows(book)
        <3>1. 1 \in DOMAIN book.pages
            BY <1>1 DEF PagesGood
        <3> QED BY <3>1 DEF Default, EvidenceRows
    <2>3. \A f \in of : f.evidence # {} /\ f.evidence \subseteq EvidenceRows(book)
        BY <1>1 DEF CitesBook, Cites
    <2>4. CASE of = {}
        BY <2>1, <2>2, <2>4 DEF CitesBook, Cites
    <2>5. CASE of # {}
        <3>1. UNION {f.evidence : f \in of} # {} /\ UNION {f.evidence : f \in of} \subseteq EvidenceRows(book)
            <4>1. PICK f \in of : TRUE
                BY <2>5
            <4>2. f.evidence \subseteq UNION {g.evidence : g \in of}
                BY <4>1
            <4>3. UNION {g.evidence : g \in of} \subseteq EvidenceRows(book)
                BY <2>3
            <4> HIDE DEF of
            <4> QED BY <2>3, <4>1, <4>2, <4>3
        <3> HIDE DEF of
        <3> QED BY <2>1, <2>5, <3>1 DEF CitesBook, Cites
    <2> QED BY <2>4, <2>5
<1>6. EvidenceRows(book') = EvidenceRows(book)
    BY <1>4 DEF EvidenceRows
<1>7. \A a \in book'.actions : CitesBook(a)'
    BY <1>4, <1>5, <1>6 DEF CitesBook
<1>8. \A f \in Range(book'.findings) : CitesBook(f)'
    BY <1>1, <1>4, <1>6 DEF CitesBook
<1> QED BY <1>1, <1>4, <1>7, <1>8 DEF Sourced, Booked, Later

\* Every query adds what the book may hold, whatever an audit does at the same time.
LEMMA SourcedStep == RowsTell /\ Sourced /\ (Build \/ Reading) => Sourced'
<1> SUFFICES ASSUME RowsTell, Sourced, Build \/ Reading PROVE Sourced'
    OBVIOUS
<1>1. CASE Build
    BY <1>1 DEF Build, Turn, Sourced, Booked, Later, Blank
<1>2. CASE ReadEvidence
    BY <1>2 DEF ReadEvidence, Turn, Sourced, Booked, Later
<1>3. CASE ReadPages
    <2>1. book'.pages = PageRows /\ DOMAIN book' = DOMAIN book
        BY <1>3 DEF ReadPages, Sourced, Blank
    <2>2. CASE DOMAIN rows = {}
        BY <1>3, <2>1, <2>2 DEF ReadPages, Sourced, Booked, Later
    <2>3. CASE DOMAIN rows # {}
        <3>1. PagesGood(PageRows)
            BY <2>3, PagesRead
        <3>2. PagesGood(book'.pages) /\ step' = "sources"
            BY <1>3, <2>1, <2>3, <3>1 DEF ReadPages
        <3> QED BY <2>1, <3>2 DEF Sourced, Booked, Later
    <2> QED BY <2>2, <2>3
<1>4. CASE ReadSources
    <2>1. book'.pages = book.pages /\ DOMAIN book' = DOMAIN book
        BY <1>4 DEF ReadSources, Sourced, Blank
    <2> QED BY <1>4, <2>1 DEF ReadSources, Turn, Sourced, Booked, Later
<1>5. CASE ReadFindings
    BY <1>5, FindingsRead
<1>6. CASE ReadActions
    BY <1>6, ActionsRead
<1>7. CASE ReadScorecard \/ ReadIntegrity
    <2>1. /\ book'.pages = book.pages /\ book'.sources = book.sources /\ book'.findings = book.findings /\ DOMAIN book' = DOMAIN book
          /\ book'.actions = book.actions
        BY <1>7 DEF ReadScorecard, ReadIntegrity, Sourced, Blank
    <2>2. (step = "scorecard" /\ step' = "actions") \/ (step = "integrity" /\ step' = "compiled")
        <3>1. Turn("scorecard", "actions") \/ Turn("integrity", "compiled")
            BY <1>7, Zenon DEF ReadScorecard, ReadIntegrity
        <3> QED BY <3>1 DEF Turn
    <2>3. \A x : CitesBook(x) => CitesBook(x)'
        BY <2>1 DEF CitesBook, EvidenceRows
    <2> QED BY <2>1, <2>2, <2>3 DEF Sourced, Booked, Later
<1> QED BY <1>1, <1>2, <1>3, <1>4, <1>5, <1>6, <1>7 DEF Reading

\* Every step of either keeps it.
LEMMA RowsInvStep == RowsInv /\ [NextRows]_<<vars, pvars>> => RowsInv'
<1> SUFFICES ASSUME RowsInv, [NextRows]_<<vars, pvars>> PROVE RowsInv'
    OBVIOUS
<1>1. CASE Next /\ UNCHANGED pvars
    <2>1. AuditInv'
        BY <1>1, AuditStep DEF RowsInv
    <2>2. step' = step /\ book' = book
        BY <1>1 DEF pvars
    <2>3. \A x : CitesBook(x) => CitesBook(x)'
        BY <2>2 DEF CitesBook
    <2> QED BY <2>1, <2>2, <2>3 DEF RowsInv, Sourced, Booked, Later
<1>2. CASE (Build \/ Reading) /\ UNCHANGED vars
    BY <1>2, AuditStep, SourcedStep DEF RowsInv, AuditInv
<1>3. CASE UNCHANGED <<vars, pvars>>
    <2>1. AuditInv'
        BY <1>3, AuditStep DEF RowsInv
    <2>2. step' = step /\ book' = book
        BY <1>3 DEF pvars
    <2>3. \A x : CitesBook(x) => CitesBook(x)'
        BY <2>2 DEF CitesBook
    <2> QED BY <2>1, <2>2, <2>3 DEF RowsInv, Sourced, Booked, Later
<1> QED BY <1>1, <1>2, <1>3 DEF NextRows

\* It holds before the first build.
LEMMA RowsInvInit == InitRows => RowsInv
BY AuditInit DEF InitRows, RowsInv, Sourced, Booked, Later

-----------------------------------------------------------------------------
(* Lists.                                                                  *)

\* A sequence is one over its own elements, and there are finitely many of them.
LEMMA RangeOf ==
    ASSUME NEW X, NEW s \in Seq(X)
    PROVE  /\ s \in Seq(Range(s)) /\ Range(s) \subseteq X /\ IsFiniteSet(Range(s)) /\ DOMAIN s = 1 .. Len(s) /\ Len(s) \in Nat
           /\ s # <<>> => Head(s) \in Range(s)
<1>1. DOMAIN s = 1 .. Len(s) /\ Len(s) \in Nat
    OBVIOUS
<1>2. IsFiniteSet(1 .. Len(s))
    BY <1>1, FS_Interval
<1>3. Range(s) = {s[i] : i \in 1 .. Len(s)}
    BY <1>1 DEF Range
<1>4. IsFiniteSet(Range(s))
    BY <1>1, <1>2, <1>3, ImageOf
<1>5. s \in Seq(Range(s)) /\ Range(s) \subseteq X
    BY <1>1, <1>3
<1>6. s # <<>> => Head(s) \in Range(s)
    BY <1>1, <1>3
<1> QED BY <1>1, <1>4, <1>5, <1>6

\* What is kept of a sequence is in it, at one of the places.
LEMMA OnlyRange ==
    ASSUME NEW X, NEW s \in Seq(X), NEW places \in SUBSET DOMAIN s
    PROVE  /\ Only(s, places) \in Seq(X)
           /\ \A x \in Range(Only(s, places)) : \E i \in places : s[i] = x
           /\ \A i \in places : s[i] \in Range(Only(s, places))
<1>1. places \in SUBSET (1 .. Len(s))
    BY RangeOf
<1> DEFINE t == Only(s, places)
<1>2. t \in Seq(X) /\ \A x : Holds(t, x) <=> \E i \in places : s[i] = x
    BY <1>1, OnlyTakes
<1> HIDE DEF t
<1>3. DOMAIN t = 1 .. Len(t)
    BY <1>2
<1>4. \A x : x \in Range(t) <=> Holds(t, x)
    BY <1>3 DEF Range, Holds
<1> QED BY <1>2, <1>4 DEF t

\* The first elements of a sequence.
LEMMA UpToRange ==
    ASSUME NEW X, NEW s \in Seq(X), NEW n \in Nat
    PROVE  UpTo(s, n) \in Seq(X) /\ Range(UpTo(s, n)) \subseteq Range(s) /\ Len(UpTo(s, n)) <= n
<1> DEFINE m == Least(n, Len(s))
<1>1. m \in Nat /\ m <= n /\ m <= Len(s) /\ Len(s) \in Nat
    BY DEF Least
<1>2. UpTo(s, n) = SubSeq(s, 1, m)
    BY DEF UpTo
<1> HIDE DEF m
<1>3. SubSeq(s, 1, m) \in Seq(X) /\ Len(SubSeq(s, 1, m)) = m /\ \A i \in 1 .. m : SubSeq(s, 1, m)[i] = s[i]
    BY <1>1
<1>4. Range(SubSeq(s, 1, m)) \subseteq Range(s)
    BY <1>1, <1>3 DEF Range
<1> QED BY <1>1, <1>2, <1>3, <1>4

\* What two sequences hold together.
LEMMA RangeJoined ==
    ASSUME NEW X, NEW s \in Seq(X), NEW t \in Seq(X)
    PROVE  s \o t \in Seq(X) /\ Range(s \o t) = Range(s) \cup Range(t)
<1> DEFINE u == s \o t
<1>1. /\ u \in Seq(X) /\ Len(u) = Len(s) + Len(t) /\ Len(s) \in Nat /\ Len(t) \in Nat
      /\ \A i \in 1 .. Len(s) : u[i] = s[i]
      /\ \A i \in 1 .. Len(t) : u[Len(s) + i] = t[i]
    OBVIOUS
<1> HIDE DEF u
<1>2. DOMAIN u = 1 .. Len(u) /\ DOMAIN s = 1 .. Len(s) /\ DOMAIN t = 1 .. Len(t)
    BY <1>1
<1>3. ASSUME NEW x \in Range(u) PROVE x \in Range(s) \cup Range(t)
    <2>1. PICK i \in 1 .. Len(u) : u[i] = x
        BY <1>2 DEF Range
    <2>2. CASE i <= Len(s)
        BY <1>1, <1>2, <2>1, <2>2 DEF Range
    <2>3. CASE i > Len(s)
        <3>1. i - Len(s) \in 1 .. Len(t) /\ Len(s) + (i - Len(s)) = i
            BY <1>1, <2>3
        <3>2. t[i - Len(s)] = x
            BY <1>1, <2>1, <3>1
        <3> QED BY <1>2, <3>1, <3>2 DEF Range
    <2> QED BY <1>1, <2>2, <2>3
<1>4. ASSUME NEW x \in Range(s) \cup Range(t) PROVE x \in Range(u)
    <2>1. CASE x \in Range(s)
        BY <1>1, <1>2, <2>1 DEF Range
    <2>2. CASE x \in Range(t)
        <3>1. PICK i \in 1 .. Len(t) : t[i] = x
            BY <1>2, <2>2 DEF Range
        <3>2. Len(s) + i \in 1 .. Len(u) /\ u[Len(s) + i] = x
            BY <1>1, <3>1
        <3> QED BY <1>2, <3>2 DEF Range
    <2> QED BY <2>1, <2>2
<1> QED BY <1>1, <1>3, <1>4 DEF u

\* And one more element.
LEMMA RangeAppended ==
    ASSUME NEW X, NEW s \in Seq(X), NEW e \in X
    PROVE  Append(s, e) \in Seq(X) /\ Range(Append(s, e)) = Range(s) \cup {e}
<1> DEFINE u == Append(s, e)
<1>1. u \in Seq(X) /\ \A x : Holds(u, x) <=> Holds(s, x) \/ x = e
    BY OneMore
<1> HIDE DEF u
<1>2. DOMAIN u = 1 .. Len(u) /\ DOMAIN s = 1 .. Len(s)
    BY <1>1
<1>3. \A x : (x \in Range(u) <=> Holds(u, x)) /\ (x \in Range(s) <=> Holds(s, x))
    BY <1>2 DEF Range, Holds
<1> QED BY <1>1, <1>3 DEF u

-----------------------------------------------------------------------------
(* Clusters.                                                               *)

\* A keyword goes to one of the seeds, or is the first member of a new one.
LEMMA PlaceKeeps ==
    ASSUME NEW T, NEW K, NEW seeds \in Seq(SeedsOf(T, K)), NEW k \in K, OwnTokens(k.phrase) \subseteq T
    PROVE  Place(seeds, k) \in Seq(SeedsOf(T, K))
<1> DEFINE tokens == OwnTokens(k.phrase)
           fit == {i \in DOMAIN seeds : Joins(tokens, seeds[i])}
           first == CHOOSE i \in fit : \A j \in fit : i <= j
           new == [tokens |-> tokens, members |-> <<k>>]
<1>1. Place(seeds, k) = IF fit = {} THEN Append(seeds, new)
                        ELSE [seeds EXCEPT ![first] = [tokens |-> @.tokens \cup tokens, members |-> Append(@.members, k)]]
    BY DEF Place
<1>2. new \in SeedsOf(T, K)
    <2>1. <<k>> \in Seq(K) /\ <<k>> # <<>>
        OBVIOUS
    <2> QED BY <2>1 DEF SeedsOf
<1> HIDE DEF new
<1>3. CASE fit = {}
    BY <1>1, <1>2, <1>3
<1>4. CASE fit # {}
    <2>1. \E i \in fit : \A j \in fit : i <= j
        <3>1. fit \subseteq Nat
            OBVIOUS
        <3> HIDE DEF fit
        <3> QED BY <1>4, <3>1, LeastNumber
    <2>2. first \in DOMAIN seeds
        BY <2>1
    <2> HIDE DEF first, fit
    <2> DEFINE s == seeds[first]
               t == [tokens |-> s.tokens \cup tokens, members |-> Append(s.members, k)]
    <2>3. s \in SeedsOf(T, K)
        BY <2>2
    <2> HIDE DEF s
    <2>4. s.tokens \subseteq T /\ s.members \in Seq(K)
        BY <2>3 DEF SeedsOf
    <2>5. Append(s.members, k) \in Seq(K) /\ Append(s.members, k) # <<>>
        BY <2>4
    <2>6. t \in SeedsOf(T, K)
        BY <2>4, <2>5 DEF SeedsOf
    <2>7. Place(seeds, k) = [seeds EXCEPT ![first] = t]
        BY <1>1, <1>4 DEF s
    <2> HIDE DEF t
    <2> QED BY <2>2, <2>6, <2>7
<1> QED BY <1>3, <1>4

\* Every seed of the clusters has members, and they are among the keywords.
LEMMA SeedsHaveMembers ==
    ASSUME NEW keywords, keywords \in Seq(Range(keywords))
    PROVE  /\ Seeds(keywords) \in Seq(Range(Seeds(keywords)))
           /\ \A s \in Range(Seeds(keywords)) : s.members \in Seq(Range(keywords)) /\ s.members # <<>>
<1> DEFINE K == Range(keywords)
           T == UNION {OwnTokens(k.phrase) : k \in K}
           S == Seq(SeedsOf(T, K))
           Step(n, t) == IF n + 1 \in DOMAIN keywords THEN Place(t, keywords[n + 1]) ELSE t
           g == [n \in Nat |-> [t \in S |-> Step(n, t)]]
           L == Len(keywords)
           N(seeds) == [n \in 0 .. L |-> IF n = 0 THEN <<>> ELSE Place(seeds[n - 1], keywords[n])]
           none == <<>>
<1>0. L \in Nat /\ DOMAIN keywords = 1 .. L /\ \A n \in 1 .. L : keywords[n] \in K /\ OwnTokens(keywords[n].phrase) \subseteq T
    BY DEF Range
<1> HIDE DEF T, K
<1>1. ASSUME NEW n \in Nat, NEW t \in S PROVE Step(n, t) \in S
    <2>1. CASE n + 1 \in DOMAIN keywords
        <3> DEFINE k == keywords[n + 1]
        <3>1. k \in K /\ OwnTokens(k.phrase) \subseteq T
            BY <1>0, <2>1
        <3> HIDE DEF k
        <3>2. Place(t, k) \in S
            BY <3>1, PlaceKeeps
        <3> QED BY <2>1, <3>2 DEF k
    <2>2. CASE n + 1 \notin DOMAIN keywords
        BY <2>2
    <2> QED BY <2>1, <2>2
<1>2. PICK f : f \in [Nat -> S] /\ f[0] = none /\ \A n \in Nat : f[n + 1] = Step(n, f[n])
    <2>1. none \in S
        OBVIOUS
    <2> HIDE DEF Step, S
    <2>2. g \in [Nat -> [S -> S]] /\ \A n \in Nat, t \in S : g[n][t] = Step(n, t)
        BY <1>1
    <2> HIDE DEF g, none
    <2>3. Steps(g, S)
        BY <2>2 DEF Steps
    <2>4. PICK f : Iterates(f, S, none, g)
        BY <2>1, <2>3, Iterated
    <2> QED BY <2>2, <2>4 DEF Iterates
<1> HIDE DEF S
<1> DEFINE e == [n \in 0 .. L |-> f[n]]
<1>3. e = N(e)
    <2>1. ASSUME NEW n \in 0 .. L PROVE e[n] = N(e)[n]
        <3>1. CASE n = 0
            BY <1>2, <3>1
        <3>2. CASE n # 0
            <4>1. n - 1 \in Nat /\ n - 1 \in 0 .. L /\ (n - 1) + 1 = n /\ n \in DOMAIN keywords
                BY <1>0, <3>2
            <4>2. f[n] = Step(n - 1, f[n - 1])
                BY <1>2, <4>1
            <4>3. f[n] = Place(f[n - 1], keywords[n])
                BY <4>1, <4>2
            <4> QED BY <3>2, <4>1, <4>3
        <3> QED BY <3>1, <3>2
    <2>2. e = [n \in 0 .. L |-> e[n]] /\ N(e) = [n \in 0 .. L |-> N(e)[n]]
        OBVIOUS
    <2> QED BY <2>1, <2>2
<1> HIDE DEF e, Step
<1> DEFINE h == CHOOSE seeds : seeds = N(seeds)
<1>4. h = N(h)
    <2> HIDE DEF N
    <2> QED BY <1>3
<1>5. Seeds(keywords) = h[L]
    BY DEF Seeds
<1> HIDE DEF h
<1>6. \A n \in 0 .. L : h[n] = IF n = 0 THEN <<>> ELSE Place(h[n - 1], keywords[n])
    BY <1>4
<1> HIDE DEF N
<1> DEFINE U == {n \in Nat : n <= L => h[n] \in S}
<1>7. 0 \in U
    <2>1. h[0] = <<>>
        BY <1>0, <1>6
    <2>2. <<>> \in S
        BY DEF S
    <2> QED BY <2>1, <2>2
<1>8. ASSUME NEW n \in Nat, n \in U PROVE n + 1 \in U
    <2> SUFFICES ASSUME n + 1 <= L PROVE h[n + 1] \in S
        OBVIOUS
    <2>1. n + 1 \in 0 .. L /\ n + 1 # 0 /\ (n + 1) - 1 = n /\ h[n] \in S /\ n + 1 \in 1 .. L
        BY <1>0, <1>8
    <2>2. h[n + 1] = Place(h[n], keywords[n + 1])
        BY <1>6, <2>1
    <2> DEFINE k == keywords[n + 1]
    <2>3. k \in K /\ OwnTokens(k.phrase) \subseteq T
        BY <1>0, <2>1
    <2> HIDE DEF k
    <2>4. Place(h[n], k) \in S
        BY <2>1, <2>3, PlaceKeeps DEF S
    <2> QED BY <2>2, <2>4 DEF k
<1>9. \A n \in Nat : n \in U
    <2> HIDE DEF U
    <2> QED BY <1>7, <1>8, EveryNumber
<1>10. Seeds(keywords) \in Seq(SeedsOf(T, K))
    BY <1>0, <1>5, <1>9 DEF S
<1>11. \A s \in SeedsOf(T, K) : s.members \in Seq(K) /\ s.members # <<>>
    BY DEF SeedsOf
<1> HIDE DEF h, L
<1> QED BY <1>10, <1>11, RangeOf DEF K

-----------------------------------------------------------------------------
(* What a package compiles from its pages and from the market.             *)

\* A page the content may speak of answers, and is evidence.
LEMMA LiveIsUp ==
    ASSUME NEW pages, PagesGood(pages), NEW p \in Range(pages)
    PROVE  /\ p.id \in PageIds(pages)
           /\ p.status = 200 => p.url \in UpAt(pages)
           /\ Live(p) => p.status = 200
BY DEF PagesGood, PageIds, UpAt, Live, Range

\* The best page of some tokens, if there is one, answers and is in the evidence.
LEMMA BestPageIsUp ==
    ASSUME NEW pages, PagesGood(pages), NEW tokens, BestPage(tokens, pages).score > 0
    PROVE  BestPage(tokens, pages).url \in UpAt(pages) /\ BestPage(tokens, pages).evidence \in PageIds(pages)
<1> DEFINE fit == [i \in DOMAIN pages |-> IF Live(pages[i]) THEN Likeness(tokens, pages[i], 60, 40) ELSE 0]
           best == {i \in DOMAIN pages :
                       fit[i] > 0 /\ \A j \in DOMAIN pages : fit[j] < fit[i] \/ (fit[j] = fit[i] /\ i <= j)}
           first == CHOOSE i \in best : TRUE
           b == BestPage(tokens, pages)
<1>1. b = IF best = {} THEN [score |-> 0, url |-> 0, evidence |-> <<"page", 0>>]
          ELSE [score |-> fit[first], url |-> pages[first].url, evidence |-> pages[first].id]
    BY DEF BestPage
<1>2. best # {}
    <2>1. b.score > 0
        OBVIOUS
    <2> HIDE DEF b, best, first, fit
    <2> QED BY <1>1, <2>1
<1>3. first \in best
    <2> HIDE DEF best
    <2> QED BY <1>2
<1>4. first \in DOMAIN pages /\ fit[first] > 0
    BY <1>3
<1> HIDE DEF best, first, b
<1>5. Live(pages[first])
    BY <1>4
<1>6. b.url = pages[first].url /\ b.evidence = pages[first].id
    BY <1>1, <1>2
<1>7. pages[first] \in Range(pages)
    BY <1>4 DEF Range
<1> QED BY <1>5, <1>6, <1>7, LiveIsUp DEF b

\* The keywords of a market are a list, whose evidence is the package's.
LEMMA KeywordList ==
    ASSUME NEW m \in Markets, NEW urls
    PROVE  KeywordRows(m.keywords, urls) \in Seq(Range(KeywordRows(m.keywords, urls)))
<1> DEFINE S == m.keywords
           r == Sorted(S, Sooner)
           before == {p \in S \X S : Sooner(p[1], p[2])}
           K == KeywordRows(S, urls)
<1>1. IsFiniteSet(S)
    BY ContentsAssumption
<1>2. r \in Seq(S)
    <2>1. r = Ranked(S, before)
        BY DEF Sorted
    <2> HIDE DEF before, r, S
    <2> QED BY <1>1, <2>1, SortedSet
<1>3. DOMAIN K = DOMAIN r
    BY DEF KeywordRows
<1>4. K = [i \in DOMAIN r |-> K[i]]
    BY DEF KeywordRows
<1>5. DOMAIN r = 1 .. Len(r) /\ Len(r) \in Nat
    BY <1>2
<1> HIDE DEF K, r
<1>6. \A i \in 1 .. Len(r) : K[i] \in Range(K)
    BY <1>3, <1>5 DEF Range
<1>7. K \in [1 .. Len(r) -> Range(K)]
    BY <1>4, <1>5, <1>6
<1> QED BY <1>5, <1>7 DEF K

\* A cluster cites its keywords and its page, which answers.
LEMMA ClusterCites ==
    ASSUME NEW pages, PagesGood(pages), NEW K, NEW seed, seed.members \in Seq(K), seed.members # <<>>, NEW n
    PROVE  LET r == ClusterRow(seed, n, BestPage(seed.tokens, pages))
           IN  /\ r.url \in UpAt(pages) \cup {0}
               /\ Cites(r.evidence, PageIds(pages) \cup {k.evidence : k \in K})
<1> DEFINE best == BestPage(seed.tokens, pages)
           r == ClusterRow(seed, n, best)
<1>1. r.url = IF best.score > 0 THEN best.url ELSE 0
    BY DEF ClusterRow
<1>2. r.evidence = {k.evidence : k \in Range(seed.members)} \cup (IF best.score > 0 THEN {best.evidence} ELSE {})
    BY DEF ClusterRow
<1>3. best.score > 0 => best.url \in UpAt(pages) /\ best.evidence \in PageIds(pages)
    BY BestPageIsUp
<1>4. Range(seed.members) \subseteq K /\ Head(seed.members) \in Range(seed.members)
    BY RangeOf
<1> HIDE DEF best, r
<1>5. r.evidence # {} /\ r.evidence \subseteq PageIds(pages) \cup {k.evidence : k \in K}
    BY <1>2, <1>3, <1>4
<1> QED BY <1>1, <1>3, <1>5 DEF Cites, r, best

-----------------------------------------------------------------------------
(* The invariant of the package.                                           *)

\* The market's rows.
LEMMA MarketKept == Sourced /\ CompileMarket /\ UNCHANGED book => Contained'
<1> SUFFICES ASSUME Sourced, CompileMarket, UNCHANGED book PROVE Contained'
    OBVIOUS
<1> DEFINE pages == book.pages
<1>1. PagesGood(pages) /\ step' = "proposals" /\ book' = book
    BY DEF CompileMarket, Turn, Sourced, Booked, Later
<1>2. PICK m \in Markets, s \in Settings :
          LET keywords == KeywordRows(m.keywords, {p.url : p \in Range(book.pages)})
              Row(seed, n) == ClusterRow(seed, n, BestPage(seed.tokens, book.pages))
              seeds == Seeds(keywords)
              competitors == CompetitorRows(m.competitors)
          IN  content' = [Unwritten EXCEPT
                  !.setting = [s EXCEPT !.on = s.on /\ Keyed], !.budget = Most(0, s.calls - 1),
                  !.keywords = keywords, !.clusters = [n \in DOMAIN seeds |-> Row(seeds[n], n)],
                  !.competitors = competitors, !.backlinks = BacklinkRows(m.backlinks),
                  !.domain = m.domain, !.benchmark = Benchmark(m.domain, competitors), !.status = MarketStatus(m)]
    BY DEF CompileMarket
<1> DEFINE keywords == KeywordRows(m.keywords, {p.url : p \in Range(pages)})
           Row(seed, n) == ClusterRow(seed, n, BestPage(seed.tokens, pages))
           seeds == Seeds(keywords)
           clusters == [n \in DOMAIN seeds |-> Row(seeds[n], n)]
<1>3. /\ DOMAIN content' = DOMAIN Unwritten
      /\ content'.keywords = keywords /\ content'.clusters = clusters /\ content'.proposals = <<>> /\ content'.assets = <<>>
      /\ content'.opportunities = <<>> /\ content'.redirects = {} /\ content'.links = {}
    BY <1>2 DEF Unwritten
<1>4. keywords \in Seq(Range(keywords))
    BY KeywordList
<1> HIDE DEF keywords
<1>5. seeds \in Seq(Range(seeds)) /\ \A d \in Range(seeds) : d.members \in Seq(Range(keywords)) /\ d.members # <<>>
    BY <1>4, SeedsHaveMembers
<1> HIDE DEF seeds
<1>6. DOMAIN seeds = 1 .. Len(seeds) /\ Len(seeds) \in Nat /\ \A n \in DOMAIN seeds : seeds[n] \in Range(seeds)
    BY <1>5 DEF Range
<1>7. PageIds(pages) \cup {k.evidence : k \in Range(keywords)} \subseteq Evidence(book', content')
    BY <1>1, <1>3 DEF Evidence, EvidenceRows, ProviderEvidence, PageIds
<1>8. \A n \in DOMAIN seeds : /\ clusters[n].url \in UpAt(pages) \cup {0}
                              /\ Cites(clusters[n].evidence, PageIds(pages) \cup {k.evidence : k \in Range(keywords)})
    BY <1>1, <1>5, <1>6, ClusterCites
<1>9. DOMAIN clusters = DOMAIN seeds
    OBVIOUS
<1> HIDE DEF clusters, Row
<1>10. clusters \in Seq(Range(clusters))
    <2>1. clusters = [n \in 1 .. Len(seeds) |-> clusters[n]]
        BY <1>6, <1>9 DEF clusters
    <2>2. \A n \in 1 .. Len(seeds) : clusters[n] \in Range(clusters)
        BY <1>6, <1>9 DEF Range
    <2>3. clusters \in [1 .. Len(seeds) -> Range(clusters)]
        BY <2>1, <2>2
    <2> QED BY <1>6, <2>3
<1>11. \A k \in Range(clusters) : k.url \in UpAt(pages) \cup {0} /\ Cites(k.evidence, Evidence(book', content'))
    BY <1>7, <1>8, <1>9 DEF Range, Cites
<1>12. Range(<<>>) = {} /\ <<>> \in Seq({})
    BY DEF Range
<1> QED BY <1>1, <1>3, <1>4, <1>10, <1>11, <1>12 DEF Contained, Kept

-----------------------------------------------------------------------------
(* The proposals.                                                          *)

\* The pages the content may speak of are pages of the package that answer.
LEMMA CandidatesLive ==
    ASSUME NEW pages, PagesGood(pages), NEW cap \in Nat
    PROVE  LET chosen == UpTo(Candidates(pages), cap)
           IN  chosen \in Seq(Range(pages)) /\ \A p \in Range(chosen) : Live(p)
<1> DEFINE Ahead(p, q) ==
               LET a == TypePlace[PageType(p.url)]
                   b == TypePlace[PageType(q.url)]
                   m == Cardinality(p.links)
                   n == Cardinality(q.links)
               IN  a < b \/ (a = b /\ (m > n \/ (m = n /\ p.url < q.url)))
           S == {p \in Range(pages) : Live(p) /\ p.html}
           before == {p \in S \X S : Ahead(p[1], p[2])}
           chosen == UpTo(Candidates(pages), cap)
<1>1. Candidates(pages) = Ranked(S, before)
    BY DEF Candidates, Sorted
<1>2. S \subseteq Range(pages) /\ \A p \in S : Live(p)
    OBVIOUS
<1>3. IsFiniteSet(S)
    <2>1. IsFiniteSet(Range(pages))
        BY RangeOf DEF PagesGood
    <2> QED BY <1>2, <2>1, FS_Subset
<1> HIDE DEF S, before
<1>4. Candidates(pages) \in Seq(S)
    BY <1>1, <1>3, SortedSet
<1>5. chosen \in Seq(S) /\ Range(chosen) \subseteq S
    BY <1>4, UpToRange, RangeOf
<1>6. chosen \in Seq(Range(pages))
    BY <1>2, <1>5
<1> HIDE DEF chosen
<1> QED BY <1>2, <1>5, <1>6 DEF chosen

\* The keywords of a page are some of the package's.
LEMMA KeywordsOfPage ==
    ASSUME NEW c, c.keywords \in Seq(Range(c.keywords)), NEW p
    PROVE  /\ AssetKeywords(p, c) \in Seq(Range(c.keywords)) /\ Range(AssetKeywords(p, c)) \subseteq Range(c.keywords)
           /\ AssetKeywords(p, c) # <<>> => Head(AssetKeywords(p, c)) \in Range(c.keywords)
<1> DEFINE clustered == UNION {k.phrases : k \in {k \in Range(c.clusters) : k.url = p.url}}
           places == {i \in DOMAIN c.keywords : c.keywords[i].landing = p.url \/ c.keywords[i].phrase \in clustered}
           t == AssetKeywords(p, c)
<1>1. t = Only(c.keywords, places)
    BY DEF AssetKeywords, Where
<1>2. t \in Seq(Range(c.keywords))
    BY <1>1, OnlyRange
<1> HIDE DEF t
<1> QED BY <1>2, RangeOf DEF t

\* The keyword for a page is one of those that match it.
LEMMA KeywordChosen ==
    ASSUME NEW X, NEW matched \in Seq(X), matched # <<>>, NEW used
    PROVE  KeywordFor(matched, used) \in X
<1> DEFINE places == {i \in DOMAIN matched : matched[i].phrase \notin used}
           free == Only(matched, places)
<1>1. KeywordFor(matched, used) = IF free = <<>> THEN Head(matched) ELSE Head(free)
    BY DEF KeywordFor, Where
<1>2. free \in Seq(X)
    BY OnlyRange
<1> HIDE DEF free
<1> QED BY <1>1, <1>2, RangeOf

\* The row of a page is one of these.
LEMMA RowInSet ==
    ASSUME NEW c, c.keywords \in Seq(Range(c.keywords)), NEW P, NEW p \in P, NEW earlier
    PROVE  ProposalRow(p, earlier, c) \in RowSet(P, c) /\ p.id \in ProposalRow(p, earlier, c).evidence
<1> DEFINE matched == AssetKeywords(p, c)
           used == UNION {r.keywords : r \in Range(earlier)}
           keys == IF matched = <<>> THEN {} ELSE {KeywordFor(matched, used)}
<1>1. matched \in Seq(Range(c.keywords))
    BY KeywordsOfPage
<1>2. keys \subseteq Range(c.keywords)
    <2> HIDE DEF matched, used
    <2> QED BY <1>1, KeywordChosen
<1>3. ProposalRow(p, earlier, c) =
          [url |-> p.url, changes |-> TemplateChanges(p), source |-> "deterministic",
           keywords |-> {k.phrase : k \in keys}, evidence |-> {p.id} \cup {k.evidence : k \in keys}]
    BY DEF ProposalRow
<1>4. TemplateChanges(p) \subseteq {"title", "meta", "h1"}
    BY DEF TemplateChanges
<1> HIDE DEF keys
<1> QED BY <1>2, <1>3, <1>4 DEF RowSet

\* The proposals are rows of the pages chosen, one after the other.
LEMMA ProposalsCite ==
    ASSUME NEW pages, PagesGood(pages), NEW c, c.keywords \in Seq(Range(c.keywords))
    PROVE  RowsFor(Proposals(pages, c), UpTo(Candidates(pages), PROPOSAL_CAP), c)
<1> DEFINE chosen == UpTo(Candidates(pages), PROPOSAL_CAP)
           P == Range(chosen)
           V == {r \in RowSet(P, c) : r.evidence # {}}
           S == Seq(V)
           L == Len(chosen)
           Step(n, t) == IF n + 1 \in DOMAIN chosen THEN Append(t, ProposalRow(chosen[n + 1], t, c)) ELSE t
           g == [n \in Nat |-> [t \in S |-> Step(n, t)]]
           none == <<>>
           N(drafts) == [n \in 0 .. L |-> IF n = 0 THEN <<>>
                                          ELSE LET earlier == drafts[n - 1] IN Append(earlier, ProposalRow(chosen[n], earlier, c))]
<1>0. L \in Nat /\ DOMAIN chosen = 1 .. L /\ \A n \in 1 .. L : chosen[n] \in P
    <2>1. chosen \in Seq(Range(pages))
        BY CandidatesLive, ContentsAssumption
    <2> HIDE DEF chosen
    <2> QED BY <2>1 DEF Range
<1> HIDE DEF chosen, P
<1>1. ASSUME NEW n \in Nat, n + 1 \in DOMAIN chosen, NEW t \in S PROVE Append(t, ProposalRow(chosen[n + 1], t, c)) \in S
    <2> DEFINE p == chosen[n + 1]  r == ProposalRow(p, t, c)
    <2>1. p \in P
        BY <1>0, <1>1
    <2> HIDE DEF p
    <2>2. r \in V
        BY <2>1, RowInSet
    <2> HIDE DEF r, V
    <2> QED BY <2>2 DEF r, p
<1>2. PICK f : f \in [Nat -> S] /\ f[0] = none /\ \A n \in Nat : f[n + 1] = Step(n, f[n])
    <2>1. none \in S
        OBVIOUS
    <2>2. \A n \in Nat, t \in S : Step(n, t) \in S
        BY <1>1
    <2> HIDE DEF Step, S
    <2>3. g \in [Nat -> [S -> S]] /\ \A n \in Nat, t \in S : g[n][t] = Step(n, t)
        BY <2>2
    <2> HIDE DEF g, none
    <2>4. Steps(g, S)
        BY <2>3 DEF Steps
    <2>5. PICK f : Iterates(f, S, none, g)
        BY <2>1, <2>4, Iterated
    <2> QED BY <2>3, <2>5 DEF Iterates
<1> HIDE DEF S
<1> DEFINE e == [n \in 0 .. L |-> f[n]]
<1>3. e = N(e)
    <2>1. ASSUME NEW n \in 0 .. L PROVE e[n] = N(e)[n]
        <3>1. CASE n = 0
            BY <1>2, <3>1
        <3>2. CASE n # 0
            <4>1. n - 1 \in Nat /\ n - 1 \in 0 .. L /\ (n - 1) + 1 = n /\ n \in DOMAIN chosen
                BY <1>0, <3>2
            <4>2. f[n] = Step(n - 1, f[n - 1])
                BY <1>2, <4>1
            <4>3. f[n] = Append(f[n - 1], ProposalRow(chosen[n], f[n - 1], c))
                BY <4>1, <4>2
            <4> QED BY <3>2, <4>1, <4>3
        <3> QED BY <3>1, <3>2
    <2>2. e = [n \in 0 .. L |-> e[n]] /\ N(e) = [n \in 0 .. L |-> N(e)[n]]
        OBVIOUS
    <2> QED BY <2>1, <2>2
<1> HIDE DEF e, Step
<1> DEFINE h == CHOOSE drafts : drafts = N(drafts)
<1>4. h = N(h)
    <2> HIDE DEF N
    <2> QED BY <1>3
<1>5. Proposals(pages, c) = h[L]
    BY DEF Proposals, chosen
<1> HIDE DEF h
<1>6. \A n \in 0 .. L : h[n] = IF n = 0 THEN <<>> ELSE Append(h[n - 1], ProposalRow(chosen[n], h[n - 1], c))
    BY <1>4
<1> HIDE DEF N
<1> DEFINE U == {n \in Nat : n <= L => h[n] \in S}
<1>7. 0 \in U
    <2>1. h[0] = <<>>
        BY <1>0, <1>6
    <2>2. <<>> \in S
        BY DEF S
    <2> QED BY <2>1, <2>2
<1>8. ASSUME NEW n \in Nat, n \in U PROVE n + 1 \in U
    <2> SUFFICES ASSUME n + 1 <= L PROVE h[n + 1] \in S
        OBVIOUS
    <2>1. n + 1 \in 0 .. L /\ n + 1 # 0 /\ (n + 1) - 1 = n /\ h[n] \in S /\ n + 1 \in 1 .. L
        BY <1>0, <1>8
    <2>2. h[n + 1] = Append(h[n], ProposalRow(chosen[n + 1], h[n], c))
        BY <1>6, <2>1
    <2> QED BY <1>0, <1>1, <2>1, <2>2
<1>9. \A n \in Nat : n \in U
    <2> HIDE DEF U
    <2> QED BY <1>7, <1>8, EveryNumber
<1>10. Proposals(pages, c) \in Seq(V)
    <2>1. L <= L /\ L \in U
        BY <1>0, <1>9
    <2>2. h[L] \in S
        BY <2>1
    <2> HIDE DEF V
    <2> QED BY <1>5, <2>2 DEF S
<1> DEFINE list == Proposals(pages, c)
<1> HIDE DEF list, h, L
<1>11. Range(list) \subseteq V
    BY <1>10, RangeOf DEF list
<1>12. list \in Seq(RowSet(P, c))
    <2>1. V \subseteq RowSet(P, c)
        OBVIOUS
    <2> HIDE DEF V
    <2> QED BY <1>10, <2>1 DEF list
<1>13. \A r \in Range(list) : r.evidence # {}
    BY <1>11
<1> HIDE DEF V
<1>14. RowsFor(list, chosen, c)
    BY <1>12, <1>13 DEF RowsFor, P
<1> QED BY <1>14 DEF list, chosen

\* A step that leaves the rows alone keeps what they cite.
LEMMA RowsUntouched ==
    ASSUME Contained, step \in ContentSteps, book' = book, DOMAIN content' = DOMAIN content,
           \A f \in Rowed : content'[f] = content[f]
    PROVE  Contained'
<1>1. Kept(book.pages, Evidence(book, content), content)
    BY DEF Contained
<1>2. Evidence(book', content') = Evidence(book, content)
    BY DEF Evidence, ProviderEvidence, Rowed
<1>3. Kept(book.pages, Evidence(book, content), content')
    BY <1>1 DEF Kept, Rowed
<1> QED BY <1>2, <1>3 DEF Contained

\* A revision leaves a row its page and its evidence.
LEMMA RevisedKeeps ==
    ASSUME NEW P, NEW c, NEW r \in RowSet(P, c), NEW items
    PROVE  Revised(r, items).url = r.url /\ Revised(r, items).evidence = r.evidence
<1> DEFINE taken == {i \in DOMAIN items : items[i].url = r.url /\ items[i].fit # {}}
           last == CHOOSE i \in taken : \A j \in taken : j <= i
           fit == items[last].fit
<1>1. Revised(r, items) = IF taken = {} THEN r ELSE [r EXCEPT !.changes = fit, !.source = "llm"]
    BY DEF Revised
<1> HIDE DEF taken, fit
<1>2. [r EXCEPT !.changes = fit, !.source = "llm"].url = r.url /\ [r EXCEPT !.changes = fit, !.source = "llm"].evidence = r.evidence
    BY DEF RowSet
<1> QED BY <1>1, <1>2

\* The proposals are of pages that answer, and cite what the package has.
LEMMA ProposalsKept == Sourced /\ Contained /\ CompileProposals /\ UNCHANGED book => Contained'
<1> SUFFICES ASSUME Sourced, Contained, CompileProposals, UNCHANGED book PROVE Contained'
    OBVIOUS
<1> DEFINE pages == book.pages
           list == Proposals(pages, content)
           chosen == UpTo(Candidates(pages), PROPOSAL_CAP)
           known == Evidence(book, content)
<1>1. /\ PagesGood(pages) /\ step = "proposals" /\ step' = "outlines" /\ book' = book
      /\ DOMAIN content = DOMAIN Unwritten /\ Kept(pages, known, content)
    BY DEF CompileProposals, Turn, Sourced, Booked, Later, Contained, ContentSteps
<1>2. content.keywords \in Seq(Range(content.keywords))
    BY <1>1 DEF Kept
<1>3. RowsFor(list, chosen, content)
    BY <1>1, <1>2, ProposalsCite
<1>4. chosen \in Seq(Range(pages)) /\ \A p \in Range(chosen) : Live(p) /\ p \in Range(pages)
    <2>1. chosen \in Seq(Range(pages)) /\ \A p \in Range(chosen) : Live(p)
        BY <1>1, CandidatesLive, ContentsAssumption
    <2> HIDE DEF chosen
    <2> QED BY <2>1, RangeOf
<1> HIDE DEF list, chosen
<1>5. list \in Seq(RowSet(Range(chosen), content)) /\ \A r \in Range(list) : r \in RowSet(Range(chosen), content) /\ r.evidence # {}
    BY <1>3, RangeOf DEF RowsFor
<1>6. PageIds(pages) \cup {k.evidence : k \in Range(content.keywords)} \subseteq known
    BY DEF Evidence, EvidenceRows, ProviderEvidence, PageIds
<1>7. \A p \in Range(chosen) : p.url \in UpAt(pages) /\ p.id \in PageIds(pages)
    BY <1>1, <1>4, LiveIsUp
<1>8. ASSUME NEW r \in Range(list) PROVE r.url \in UpAt(pages) /\ Cites(r.evidence, known)
    <2>1. r.url \in {p.url : p \in Range(chosen)} /\ r.evidence # {}
          /\ r.evidence \subseteq {p.id : p \in Range(chosen)} \cup {k.evidence : k \in Range(content.keywords)}
        BY <1>5 DEF RowSet
    <2> QED BY <1>6, <1>7, <2>1 DEF Cites
<1>9. ASSUME NEW l, \A r \in Range(l) : r.url \in UpAt(pages) /\ Cites(r.evidence, known),
             DOMAIN content' = DOMAIN content, content'.proposals = l,
             \A f \in Rowed \ {"proposals"} : content'[f] = content[f]
      PROVE  Contained'
    <2>1. Evidence(book', content') = known
        BY <1>1, <1>9 DEF Evidence, ProviderEvidence, Rowed
    <2>2. Kept(pages, known, content')
        BY <1>1, <1>9 DEF Kept, Rowed
    <2> QED BY <1>1, <1>9, <2>1, <2>2 DEF Contained
<1>10. CASE list = <<>>
    <2>1. content' = content
        BY <1>10 DEF CompileProposals, list
    <2> QED BY <1>1, <2>1, RowsUntouched DEF ContentSteps
<1>11. CASE list # <<>> /\ ~MayCall(content)
    <2>1. content' = [content EXCEPT !.proposals = list, !.ledger = Append(@, Skipped("proposals"))]
        BY <1>11 DEF CompileProposals, list
    <2>2. content'.proposals = list /\ DOMAIN content' = DOMAIN content /\ \A f \in Rowed \ {"proposals"} : content'[f] = content[f]
        BY <1>1, <2>1 DEF Unwritten, Rowed
    <2> QED BY <1>8, <1>9, <2>2
<1>12. CASE list # <<>> /\ MayCall(content)
    <2>1. PICK reply \in ProposalReplies :
              LET answer == GuardedCall("proposals", reply, {<<"page_facts", p.url>> : p \in Range(list)}, Statuses)
              IN  content' = [Called(content, answer) EXCEPT !.proposals = [i \in DOMAIN list |-> Revised(list[i], answer.items)]]
        BY <1>12 DEF CompileProposals, list
    <2> DEFINE answer == GuardedCall("proposals", reply, {<<"page_facts", p.url>> : p \in Range(list)}, Statuses)
               l == [i \in DOMAIN list |-> Revised(list[i], answer.items)]
    <2>2. content' = [Called(content, answer) EXCEPT !.proposals = l]
        BY <2>1
    <2> HIDE DEF answer, l
    <2>3. content'.proposals = l /\ DOMAIN content' = DOMAIN content /\ \A f \in Rowed \ {"proposals"} : content'[f] = content[f]
        BY <1>1, <2>2 DEF Unwritten, Rowed, Called
    <2>4. ASSUME NEW r \in Range(l) PROVE r.url \in UpAt(pages) /\ Cites(r.evidence, known)
        <3>1. PICK i \in DOMAIN list : r = Revised(list[i], answer.items)
            BY <2>4 DEF Range, l
        <3>2. list[i] \in Range(list)
            BY <3>1 DEF Range
        <3>3. r.url = list[i].url /\ r.evidence = list[i].evidence
            BY <1>5, <3>1, <3>2, RevisedKeeps
        <3> QED BY <1>8, <3>2, <3>3
    <2> QED BY <1>9, <2>3, <2>4
<1> QED BY <1>10, <1>11, <1>12

\* The outlines and the summary touch none of the rows.
LEMMA OthersKept == Contained /\ (CompileOutlines \/ Enrich) /\ UNCHANGED book => Contained'
<1> SUFFICES ASSUME Contained, CompileOutlines \/ Enrich, UNCHANGED book PROVE Contained'
    OBVIOUS
<1>1. step \in ContentSteps /\ DOMAIN content = DOMAIN Unwritten
    BY DEF CompileOutlines, Enrich, Turn, ContentSteps, Contained
<1>2. DOMAIN content' = DOMAIN content /\ \A f \in Rowed : content'[f] = content[f]
    <2>1. CASE CompileOutlines
        <3> DEFINE pages == UpTo(Candidates(book.pages), CONTENT_ASSET_CAP)
        <3>1. \/ content' = content
              \/ content' = [content EXCEPT !.ledger = Append(@, Skipped("outlines"))]
              \/ \E answer, o : content' = [Called(content, answer) EXCEPT !.outlines = o]
            BY <2>1 DEF CompileOutlines
        <3> QED BY <1>1, <3>1 DEF Unwritten, Rowed, Called
    <2>2. CASE Enrich
        <3>1. \/ content' = [content EXCEPT !.ledger = Append(@, Skipped("summary"))]
              \/ \E answer : content' = [Called(content, answer) EXCEPT !.budget = content.budget]
            BY <2>2 DEF Enrich
        <3> QED BY <1>1, <3>1 DEF Unwritten, Rowed, Called
    <2> QED BY <2>1, <2>2
<1> QED BY <1>1, <1>2, RowsUntouched

-----------------------------------------------------------------------------
(* The briefs, the opportunities and the lists that are deployed.          *)

\* A brief links to pages that answer.
LEMMA TargetsLive ==
    ASSUME NEW pages, PagesGood(pages), NEW p
    PROVE  \A q \in Range(LinkTargets(p, pages)) : q \in Range(pages) /\ Live(q)
<1> DEFINE X == {q \in Range(pages) : Live(q)}
           places == {i \in DOMAIN pages : pages[i].url # p.url /\ pages[i].url \in p.links /\ Live(pages[i])}
           observed == UpTo(Only(pages, places), LINK_TARGETS)
           others == {q \in Range(pages) \ Range(observed) : q.url # p.url /\ Live(q) /\ Akin(p, q) > 0}
           Nearer(q, r) == Akin(p, q) > Akin(p, r) \/ (Akin(p, q) = Akin(p, r) /\ q.url < r.url)
           before == {qr \in others \X others : Nearer(qr[1], qr[2])}
           rest == UpTo(Ranked(others, before), LINK_TARGETS - Len(observed))
<1>1. LinkTargets(p, pages) = observed \o rest
    BY DEF LinkTargets, Where, Sorted
<1>2. pages \in Seq(Range(pages)) /\ IsFiniteSet(Range(pages)) /\ LINK_TARGETS \in Nat
    BY RangeOf, ContentsAssumption DEF PagesGood
<1>3. Only(pages, places) \in Seq(Range(pages)) /\ \A q \in Range(Only(pages, places)) : q \in X
    <2>1. \A i \in places : pages[i] \in X
        BY DEF Range
    <2>2. places \in SUBSET DOMAIN pages
        OBVIOUS
    <2> HIDE DEF places, X
    <2>3. /\ Only(pages, places) \in Seq(Range(pages))
          /\ \A q \in Range(Only(pages, places)) : \E i \in places : pages[i] = q
        BY <1>2, <2>2, OnlyRange
    <2> QED BY <2>1, <2>3
<1>4. observed \in Seq(X) /\ Len(observed) <= LINK_TARGETS /\ Len(observed) \in Nat
    <2> DEFINE t == Only(pages, places)
    <2>1. t \in Seq(Range(t)) /\ Range(t) \subseteq X
        BY <1>3, RangeOf
    <2> HIDE DEF t, X
    <2>2. t \in Seq(X)
        BY <2>1
    <2>3. UpTo(t, LINK_TARGETS) \in Seq(X) /\ Len(UpTo(t, LINK_TARGETS)) <= LINK_TARGETS
        BY <1>2, <2>2, UpToRange
    <2> QED BY <2>3 DEF t
<1> HIDE DEF observed
<1>5. others \subseteq X /\ IsFiniteSet(others)
    <2>1. others \subseteq Range(pages) /\ others \subseteq X
        OBVIOUS
    <2> HIDE DEF others, X
    <2> QED BY <1>2, <2>1, FS_Subset
<1> HIDE DEF others, before, X
<1>6. rest \in Seq(X)
    <2>1. Ranked(others, before) \in Seq(others)
        BY <1>5, SortedSet
    <2>2. Ranked(others, before) \in Seq(X)
        BY <1>5, <2>1
    <2>3. LINK_TARGETS - Len(observed) \in Nat
        BY <1>2, <1>4
    <2> QED BY <2>2, <2>3, UpToRange
<1> HIDE DEF rest
<1>7. Range(observed \o rest) \subseteq X
    BY <1>4, <1>6, RangeJoined, RangeOf
<1> QED BY <1>1, <1>7 DEF X

\* A brief is about a page that answers; its claims are the page's and a keyword's.
LEMMA AssetsKept ==
    ASSUME NEW pages, PagesGood(pages), NEW c, c.keywords \in Seq(Range(c.keywords)), NEW known,
           PageIds(pages) \cup {k.evidence : k \in Range(c.keywords)} \subseteq known
    PROVE  /\ Assets(pages, c) \in Seq(Range(Assets(pages, c)))
           /\ \A a \in Range(Assets(pages, c)) :
                 /\ a.url \in UpAt(pages) /\ a.targets \subseteq UpAt(pages)
                 /\ Cites(a.claims, known) /\ Cites(a.evidence, known)
<1> DEFINE chosen == UpTo(Candidates(pages), CONTENT_ASSET_CAP)
           A == Assets(pages, c)
<1>1. chosen \in Seq(Range(pages)) /\ \A p \in Range(chosen) : Live(p)
    BY CandidatesLive, ContentsAssumption
<1>2. A = [n \in DOMAIN chosen |-> AssetRow(n, chosen[n], pages, c)]
    BY DEF Assets
<1> HIDE DEF chosen, A
<1>3. DOMAIN chosen = 1 .. Len(chosen) /\ Len(chosen) \in Nat
    BY <1>1
<1>4. A \in Seq(Range(A))
    <2>1. DOMAIN A = 1 .. Len(chosen) /\ A = [n \in 1 .. Len(chosen) |-> A[n]]
        BY <1>2, <1>3
    <2>2. \A n \in 1 .. Len(chosen) : A[n] \in Range(A)
        BY <2>1 DEF Range
    <2>3. A \in [1 .. Len(chosen) -> Range(A)]
        BY <2>1, <2>2
    <2> QED BY <1>3, <2>3
<1>5. ASSUME NEW n, NEW p \in Range(pages), Live(p)
      PROVE  LET a == AssetRow(n, p, pages, c)
             IN  /\ a.url \in UpAt(pages) /\ a.targets \subseteq UpAt(pages)
                 /\ Cites(a.claims, known) /\ Cites(a.evidence, known)
    <2> DEFINE a == AssetRow(n, p, pages, c)
               matched == AssetKeywords(p, c)
    <2>1. /\ a.url = p.url /\ a.targets = {q.url : q \in Range(LinkTargets(p, pages))}
          /\ a.claims = {p.id} \cup (IF matched = <<>> THEN {} ELSE {Head(matched).evidence})
          /\ a.evidence = {p.id} \cup {k.evidence : k \in Range(matched)}
        BY DEF AssetRow
    <2>2. Range(matched) \subseteq Range(c.keywords) /\ (matched # <<>> => Head(matched) \in Range(c.keywords))
        BY KeywordsOfPage
    <2>3. p.url \in UpAt(pages) /\ p.id \in known
        BY <1>5, LiveIsUp
    <2>4. \A q \in Range(LinkTargets(p, pages)) : q.url \in UpAt(pages)
        BY TargetsLive, LiveIsUp
    <2> HIDE DEF a, matched
    <2>5. a.url \in UpAt(pages) /\ a.targets \subseteq UpAt(pages)
        BY <2>1, <2>3, <2>4
    <2>6. a.claims # {} /\ a.claims \subseteq known /\ a.evidence # {} /\ a.evidence \subseteq known
        BY <2>1, <2>2, <2>3
    <2> QED BY <2>5, <2>6 DEF a, Cites
<1>6. \A n \in DOMAIN chosen : chosen[n] \in Range(pages) /\ Live(chosen[n])
    BY <1>1, <1>3 DEF Range
<1>7. DOMAIN A = DOMAIN chosen /\ \A n \in DOMAIN chosen : A[n] = AssetRow(n, chosen[n], pages, c)
    BY <1>2
<1>8. \A a \in Range(A) : \E n \in DOMAIN chosen : a = AssetRow(n, chosen[n], pages, c)
    BY <1>7 DEF Range
<1> QED BY <1>4, <1>5, <1>6, <1>8 DEF A

\* An opportunity cites what its cluster or its brief does.
LEMMA OpportunitiesCite ==
    ASSUME NEW assets, assets \in Seq(Range(assets)), NEW c, c.clusters \in Seq(Range(c.clusters)), NEW known,
           \A a \in Range(assets) : Cites(a.evidence, known), \A k \in Range(c.clusters) : Cites(k.evidence, known)
    PROVE  \A o \in Range(Opportunities(assets, c)) : Cites(o.evidence, known)
<1> DEFINE K == Range(c.clusters)
           Larger(k, l) == OrZero(k.volume) > OrZero(l.volume) \/ (OrZero(k.volume) = OrZero(l.volume) /\ k.id < l.id)
           before == {kl \in K \X K : Larger(kl[1], kl[2])}
           measured == Ranked(K, before)
           covered == {k.url : k \in K} \ {0}
           places == {i \in DOMAIN assets : assets[i].url \notin covered}
           unmeasured == Only(assets, places)
           left == [i \in DOMAIN measured |->
                       [cluster |-> measured[i].id, url |-> measured[i].url, coverage |-> measured[i].coverage,
                        evidence |-> measured[i].evidence]]
           right == [i \in DOMAIN unmeasured |->
                       [cluster |-> 0, url |-> unmeasured[i].url, evidence |-> unmeasured[i].evidence,
                        coverage |-> IF unmeasured[i].keywords = <<>> THEN "unmeasured" ELSE "partial"]]
<1>1. Opportunities(assets, c) = left \o right
    BY DEF Opportunities, Where, Sorted
<1>2. measured \in Seq(K)
    <2>1. IsFiniteSet(K)
        BY RangeOf
    <2> HIDE DEF K, before
    <2> QED BY <2>1, SortedSet
<1>3. unmeasured \in Seq(Range(assets))
    BY OnlyRange
<1> HIDE DEF measured, unmeasured
<1>4. DOMAIN measured = 1 .. Len(measured) /\ Len(measured) \in Nat /\ \A i \in 1 .. Len(measured) : measured[i] \in K
    BY <1>2
<1>5. DOMAIN unmeasured = 1 .. Len(unmeasured) /\ Len(unmeasured) \in Nat /\ \A i \in 1 .. Len(unmeasured) : unmeasured[i] \in Range(assets)
    BY <1>3
<1>6. \A i \in 1 .. Len(measured) : Cites(left[i].evidence, known)
    BY <1>4
<1>7. \A i \in 1 .. Len(unmeasured) : Cites(right[i].evidence, known)
    BY <1>5
<1>8. DOMAIN left = 1 .. Len(measured) /\ DOMAIN right = 1 .. Len(unmeasured)
    BY <1>4, <1>5
<1> DEFINE O == Range(left) \cup Range(right)
<1>9. \A o \in O : Cites(o.evidence, known)
    <2> HIDE DEF left, right
    <2> QED BY <1>6, <1>7, <1>8 DEF Range
<1>10. left \in Seq(O) /\ right \in Seq(O)
    <2>1. left = [i \in 1 .. Len(measured) |-> left[i]] /\ right = [i \in 1 .. Len(unmeasured) |-> right[i]]
        BY <1>4, <1>5
    <2> HIDE DEF left, right
    <2>2. (\A i \in 1 .. Len(measured) : left[i] \in O) /\ \A i \in 1 .. Len(unmeasured) : right[i] \in O
        BY <1>8 DEF Range
    <2> HIDE DEF O
    <2>3. left \in [1 .. Len(measured) -> O]
        BY <2>1, <2>2, Zenon
    <2>4. right \in [1 .. Len(unmeasured) -> O]
        BY <2>1, <2>2, Zenon
    <2>5. \A n \in Nat : \A f \in [1 .. n -> O] : f \in Seq(O)
        OBVIOUS
    <2>6. Len(measured) \in Nat /\ Len(unmeasured) \in Nat
        BY <1>4, <1>5
    <2> QED BY <2>3, <2>4, <2>5, <2>6
<1> HIDE DEF left, right
<1>11. Range(left \o right) \subseteq O
    <2>1. Range(left \o right) = Range(left) \cup Range(right)
        BY <1>10, RangeJoined
    <2> QED BY <2>1
<1> QED BY <1>1, <1>9, <1>11

\* A redirect leads nowhere or to a page that answers, from one that does not.
LEMMA RedirectsLead ==
    ASSUME NEW pages, PagesGood(pages)
    PROVE  \A r \in Redirects(pages) : r.target \in UpAt(pages) \cup {0} /\ \E p \in Range(pages) : p.url = r.source /\ p.status # 200
<1>1. ASSUME NEW p PROVE RedirectTarget(p, pages) \in UpAt(pages) \cup {0}
    <2> DEFINE Match(q) == Likeness(PathTokens[p.url], q, 55, 35) + (IF q.url \in Ancestors[p.url] THEN 1000 ELSE 0)
               live == {q \in Range(pages) : Live(q)}
               before == {qr \in live \X live : Match(qr[1]) > Match(qr[2]) \/ (Match(qr[1]) = Match(qr[2]) /\ qr[1].url < qr[2].url)}
               best == Ranked(live, before)[1]
    <2>1. RedirectTarget(p, pages) = IF live = {} THEN 0 ELSE IF Match(best) < 3500 THEN 0 ELSE best.url
        BY DEF RedirectTarget, Sorted
    <2>2. live # {} => best \in live
        <3>1. IsFiniteSet(Range(pages)) /\ live \subseteq Range(pages)
            BY RangeOf DEF PagesGood
        <3> HIDE DEF live, before
        <3>2. IsFiniteSet(live)
            BY <3>1, FS_Subset
        <3>3. Ranked(live, before) \in Seq(live) /\ Len(Ranked(live, before)) = Cardinality(live)
            BY <3>2, SortedSet
        <3>4. live # {} => Cardinality(live) \in Nat /\ Cardinality(live) # 0
            BY <3>2, FS_EmptySet, FS_CardinalityType
        <3> QED BY <3>3, <3>4
    <2>3. \A q \in live : q.url \in UpAt(pages)
        BY LiveIsUp
    <2> HIDE DEF live, best, Match
    <2> QED BY <2>1, <2>2, <2>3
<1>2. \A r \in Redirects(pages) :
          \E p \in Range(pages) : r.source = p.url /\ r.target = RedirectTarget(p, pages) /\ p.status # 200
    BY DEF Redirects
<1> QED BY <1>1, <1>2

\* A link from an authority leads from a page that answers to another one.
LEMMA LinksLead ==
    ASSUME NEW pages, PagesGood(pages)
    PROVE  \A l \in InternalLinks(pages) : l.kind = "authority" => l.source \in UpAt(pages) /\ l.target \in UpAt(pages)
<1> DEFINE at == {p.url : p \in Range(pages)}
           structural == {[kind |-> "parent", source |-> u, target |-> Parent[u]] :
                             u \in {u \in at : Parent[u] \in at \ {u}}}
           money == {p \in Range(pages) : p.status = 200 /\ Inbound(p.url, pages) <= 1
                                          /\ PageType(p.url) \in {"Homepage", "Collection", "Product"}}
           Stronger(p, q) == Inbound(p.url, pages) > Inbound(q.url, pages)
                             \/ (Inbound(p.url, pages) = Inbound(q.url, pages) /\ p.url < q.url)
           live == {p \in Range(pages) : Live(p)}
           before == {pq \in live \X live : Stronger(pq[1], pq[2])}
           authorities == Ranked(live, before)
           Suits(p, t) == /\ p.url # t.url /\ Parent[p.url] # t.url /\ t.url \notin p.links
                          /\ Inbound(p.url, pages) > 0 \/ Akin(p, t) > 0
           Givers(t) == Range(UpTo(Only(authorities, {i \in DOMAIN authorities : Suits(authorities[i], t)}), 3))
<1>1. InternalLinks(pages) = structural \cup UNION {
            {[kind |-> "authority", source |-> p.url, target |-> t.url] : p \in Givers(t)} : t \in money}
    BY DEF InternalLinks, Where, Sorted
<1>2. authorities \in Seq(live)
    <2>1. IsFiniteSet(Range(pages)) /\ live \subseteq Range(pages)
        BY RangeOf DEF PagesGood
    <2> HIDE DEF live, before
    <2>2. IsFiniteSet(live)
        BY <2>1, FS_Subset
    <2> QED BY <2>2, SortedSet
<1> HIDE DEF authorities, Suits
<1>3. ASSUME NEW t PROVE Givers(t) \subseteq live
    <2> DEFINE places == {i \in DOMAIN authorities : Suits(authorities[i], t)}
    <2>1. places \in SUBSET DOMAIN authorities
        OBVIOUS
    <2> HIDE DEF places, live
    <2>2. Only(authorities, places) \in Seq(live)
        BY <1>2, <2>1, OnlyRange
    <2>3. UpTo(Only(authorities, places), 3) \in Seq(live)
        BY <2>2, UpToRange
    <2>4. Range(UpTo(Only(authorities, places), 3)) \subseteq live
        BY <2>3, RangeOf
    <2> QED BY <2>4 DEF places
<1>4. (\A p \in live : p.url \in UpAt(pages)) /\ \A p \in money : p.url \in UpAt(pages)
    BY LiveIsUp
<1>5. \A l \in structural : l.kind # "authority"
    OBVIOUS
<1> HIDE DEF live, money, structural, Givers
<1>6. ASSUME NEW l \in InternalLinks(pages), l \notin structural
      PROVE  \E t \in money : \E p \in Givers(t) : l.source = p.url /\ l.target = t.url
    <2>1. PICK t \in money : l \in {[kind |-> "authority", source |-> p.url, target |-> t.url] : p \in Givers(t)}
        BY <1>1, <1>6
    <2> QED BY <2>1
<1> QED BY <1>3, <1>4, <1>5, <1>6

\* The briefs, the opportunities and the lists that are deployed.
LEMMA AssetsCompiled == Sourced /\ Contained /\ CompileAssets /\ UNCHANGED book => Contained'
<1> SUFFICES ASSUME Sourced, Contained, CompileAssets, UNCHANGED book PROVE Contained'
    OBVIOUS
<1> DEFINE pages == book.pages
           assets == Assets(pages, content)
           known == Evidence(book, content)
<1>1. /\ PagesGood(pages) /\ step = "assets" /\ step' = "enrich" /\ book' = book
      /\ DOMAIN content = DOMAIN Unwritten /\ Kept(pages, known, content)
    BY DEF CompileAssets, Turn, Sourced, Booked, Later, Contained, ContentSteps
<1>2. /\ DOMAIN content' = DOMAIN content
      /\ \A f \in {"keywords", "clusters", "competitors", "backlinks", "status", "proposals"} : content'[f] = content[f]
      /\ content'.assets = assets /\ content'.opportunities = Opportunities(assets, content)
      /\ content'.redirects = Redirects(pages) /\ content'.links = InternalLinks(pages)
    BY <1>1 DEF CompileAssets, Unwritten
<1>3. /\ content.keywords \in Seq(Range(content.keywords)) /\ content.clusters \in Seq(Range(content.clusters))
      /\ \A k \in Range(content.clusters) : Cites(k.evidence, known)
    BY <1>1 DEF Kept
<1>4. PageIds(pages) \cup {k.evidence : k \in Range(content.keywords)} \subseteq known
    BY DEF Evidence, EvidenceRows, ProviderEvidence, PageIds
<1>5. /\ assets \in Seq(Range(assets))
      /\ \A a \in Range(assets) : /\ a.url \in UpAt(pages) /\ a.targets \subseteq UpAt(pages)
                                  /\ Cites(a.claims, known) /\ Cites(a.evidence, known)
    BY <1>1, <1>3, <1>4, AssetsKept
<1> HIDE DEF assets
<1>6. \A o \in Range(Opportunities(assets, content)) : Cites(o.evidence, known)
    BY <1>3, <1>5, OpportunitiesCite
<1>7. \A r \in Redirects(pages) : r.target \in UpAt(pages) \cup {0} /\ \E p \in Range(pages) : p.url = r.source /\ p.status # 200
    BY <1>1, RedirectsLead
<1>8. \A l \in InternalLinks(pages) : l.kind = "authority" => l.source \in UpAt(pages) /\ l.target \in UpAt(pages)
    BY <1>1, LinksLead
<1>9. Evidence(book', content') = known
    BY <1>1, <1>2 DEF Evidence, ProviderEvidence
<1>10. Kept(pages, known, content')
    BY <1>1, <1>2, <1>3, <1>5, <1>6, <1>7, <1>8 DEF Kept
<1> QED BY <1>1, <1>2, <1>9, <1>10 DEF Contained

-----------------------------------------------------------------------------
(* What a package cites and where it leads.                                *)

\* Nothing is compiled of the contents while the rows are read.
LEMMA RowsBefore == NextRows => step' \notin ContentSteps
<1> SUFFICES ASSUME NextRows PROVE step' \notin ContentSteps
    OBVIOUS
<1>1. CASE Next /\ UNCHANGED pvars /\ step \in RowStep
    BY <1>1 DEF pvars, RowStep, ContentSteps
<1>2. CASE Build
    BY <1>2 DEF Build, Turn, ContentSteps
<1>3. CASE ReadEvidence \/ ReadPages \/ ReadSources
    BY <1>3 DEF ReadEvidence, ReadPages, ReadSources, Turn, ContentSteps
<1>4. CASE ReadFindings
    BY <1>4 DEF ReadFindings, Turn, ContentSteps
<1>5. CASE ReadScorecard
    BY <1>5 DEF ReadScorecard, Turn, ContentSteps
<1>6. CASE ReadActions
    BY <1>6 DEF ReadActions, Turn, ContentSteps
<1>7. CASE ReadIntegrity
    BY <1>7 DEF ReadIntegrity, Turn, ContentSteps
<1> QED BY <1>1, <1>2, <1>3, <1>4, <1>5, <1>6, <1>7 DEF NextRows, Reading

\* Every step of the audit and of the build keeps them.
LEMMA PackageStep == PackageInv /\ [NextContents]_cvars => PackageInv'
<1> SUFFICES ASSUME PackageInv, [NextContents]_cvars PROVE PackageInv'
    OBVIOUS
<1> USE DEF PackageInv
<1>1. CASE NextRows /\ UNCHANGED content
    <2>1. RowsInv'
        BY <1>1, RowsInvStep
    <2>2. step' \notin ContentSteps
        BY <1>1, RowsBefore
    <2> QED BY <1>1, <2>1, <2>2 DEF Contained
<1>2. CASE Compiling /\ UNCHANGED <<vars, book>>
    <2>1. AuditInv'
        BY <1>2, AuditStep DEF RowsInv
    <2>2. step \in {"compiled"} \cup ContentSteps /\ step' \in ContentSteps
        BY <1>2 DEF Compiling, CompileMarket, CompileProposals, CompileOutlines, CompileAssets, Enrich, Turn, ContentSteps
    <2>3. \A x : CitesBook(x) => CitesBook(x)'
        BY <1>2 DEF CitesBook
    <2>4. Sourced'
        BY <1>2, <2>2, <2>3 DEF RowsInv, Sourced, Booked, Later, ContentSteps
    <2>5. Contained'
        BY <1>2, MarketKept, ProposalsKept, OthersKept, AssetsCompiled DEF RowsInv, Compiling
    <2> QED BY <2>1, <2>4, <2>5 DEF RowsInv
<1>3. CASE UNCHANGED cvars
    <2>1. UNCHANGED <<vars, pvars>> /\ content' = content /\ step' = step /\ book' = book
        BY <1>3 DEF cvars, pvars
    <2>2. RowsInv'
        BY <2>1, RowsInvStep
    <2>3. Contained'
        BY <2>1 DEF Contained
    <2> QED BY <2>2, <2>3
<1> QED BY <1>1, <1>2, <1>3 DEF NextContents

\* They hold in every state.
LEMMA PackageHolds == SpecContents => []PackageInv
<1>1. InitContents => PackageInv
    BY RowsInvInit DEF InitContents, InitRows, PackageInv, Contained, ContentSteps
<1> QED BY <1>1, PackageStep, PTL DEF SpecContents

\* All that a package's findings, actions, keywords, clusters, competitors, proposals, opportunities
\* and briefs cite is a row of its evidence, and they cite something (QA-03 and QA-04 of
\* compile_run_data), whatever is audited while it reads.
THEOREM EvidenceResolves == SpecContents => []LineageResolves
<1>1. PackageInv => LineageResolves
    <2> SUFFICES ASSUME PackageInv PROVE LineageResolves
        OBVIOUS
    <2> USE DEF PackageInv, RowsInv
    <2>1. ASSUME step \notin RowStep \cup {"raised"}
          PROVE  \A r \in Range(book.findings) \cup book.actions : Cites(r.evidence, EvidenceRows(book))
        BY <2>1 DEF Sourced, Booked, Later, RowStep, CitesBook
    <2>2. ASSUME step = "written", NEW s \in Lineage(book, content) \cup {a.claims : a \in Range(content.assets)}
          PROVE  Cites(s, Evidence(book, content))
        <3> DEFINE known == Evidence(book, content)
        <3>1. Kept(book.pages, known, content)
            BY <2>2 DEF Contained, ContentSteps
        <3>2. \A r \in Range(book.findings) \cup book.actions : Cites(r.evidence, known)
            BY <2>1, <2>2 DEF RowStep, Cites, Evidence
        <3>3. \A r \in Range(content.keywords) \cup Range(content.competitors) : Cites({r.evidence}, known)
            BY DEF Cites, Evidence, ProviderEvidence
        <3>4. \A r \in Range(content.clusters) \cup Range(content.proposals) \cup Range(content.opportunities) : Cites(r.evidence, known)
            BY <3>1 DEF Kept
        <3>5. \A a \in Range(content.assets) : Cites(a.claims, known)
            BY <3>1 DEF Kept
        <3> HIDE DEF known
        <3>6. Cites(s, known)
            BY <2>2, <3>2, <3>3, <3>4, <3>5 DEF Lineage
        <3> QED BY <3>6 DEF known
    <2> QED BY <2>1, <2>2 DEF LineageResolves
<1> QED BY <1>1, PackageHolds, PTL

\* No list of a package leads to a URL that another one asks to redirect away, whatever the pages,
\* the market and the model's answers are.
THEOREM ListsAgree == SpecContents => []AdviceAgrees
<1>1. PackageInv => AdviceAgrees
    <2> SUFFICES ASSUME PackageInv, step = "written" PROVE AdviceAgrees
        BY DEF AdviceAgrees
    <2> USE DEF PackageInv, RowsInv
    <2> DEFINE pages == book.pages
               briefs == Range(content.assets)
               authority == {l \in content.links : l.kind = "authority"}
               kept == {r.target : r \in content.redirects} \cup {a.url : a \in briefs} \cup (UNION {a.targets : a \in briefs})
                       \cup {l.source : l \in authority} \cup {l.target : l \in authority}
                       \cup {k.url : k \in Range(content.clusters)} \cup {r.url : r \in Range(content.proposals)}
    <2>1. PagesGood(pages) /\ Kept(pages, Evidence(book, content), content)
        BY DEF Sourced, Booked, Later, Contained, ContentSteps
    <2>2. kept \subseteq UpAt(pages) \cup {0}
        <3> DEFINE U == UpAt(pages)
                   A == {r.target : r \in content.redirects}
                   B == {a.url : a \in briefs}
                   C == UNION {a.targets : a \in briefs}
                   D == {l.source : l \in authority}
                   E == {l.target : l \in authority}
                   F == {k.url : k \in Range(content.clusters)}
                   G == {r.url : r \in Range(content.proposals)}
        <3>0. kept = A \cup B \cup C \cup D \cup E \cup F \cup G
            OBVIOUS
        <3>1. /\ \A k \in Range(content.clusters) : k.url \in U \cup {0}
              /\ \A r \in Range(content.proposals) : r.url \in U
              /\ \A r \in content.redirects : r.target \in U \cup {0}
            BY <2>1 DEF Kept
        <3>2. /\ \A a \in briefs : a.url \in U /\ a.targets \subseteq U
              /\ \A l \in authority : l.source \in U /\ l.target \in U
            BY <2>1 DEF Kept
        <3> HIDE DEF U, briefs, authority
        <3>3. A \subseteq U \cup {0} /\ F \subseteq U \cup {0} /\ G \subseteq U
            BY <3>1
        <3>4. B \subseteq U /\ C \subseteq U
            BY <3>2
        <3>5. D \subseteq U /\ E \subseteq U
            BY <3>2
        <3> HIDE DEF kept, A, B, C, D, E, F, G
        <3> QED BY <3>0, <3>3, <3>4, <3>5 DEF U
    <2>3. ASSUME NEW r \in content.redirects PROVE r.source \notin UpAt(pages) \cup {0}
        <3>1. PICK p \in Range(pages) : p.url = r.source /\ p.status # 200
            BY <2>1 DEF Kept
        <3>2. p.url \in URL /\ p.url # 0
            BY <2>1, SiteAssumption DEF PagesGood, Range
        <3>3. \A q \in Range(pages) : q.url = p.url => q.status # 200
            BY <2>1, <3>1 DEF PagesGood
        <3> QED BY <3>1, <3>2, <3>3 DEF UpAt
    <2>4. kept \cap {r.source : r \in content.redirects} = {}
        <3> HIDE DEF kept
        <3> QED BY <2>2, <2>3
    <2> QED BY <2>4 DEF AdviceAgrees
<1> QED BY <1>1, PackageHolds, PTL

-----------------------------------------------------------------------------
(* The ledger of the model's calls.                                        *)

\* A new row is the only one that its task gains.
LEMMA LedgerGrows ==
    ASSUME NEW more, NEW ledger, NEW row, Gains(more, ledger, row)
    PROVE  /\ more \in Seq(Range(ledger) \cup {row})
           /\ RowsOf(more, row.task) = RowsOf(ledger, row.task) \cup {Len(ledger) + 1}
           /\ more[Len(ledger) + 1] = row
           /\ \A task : task # row.task => RowsOf(more, task) = RowsOf(ledger, task)
           /\ \A i \in DOMAIN ledger : more[i] = ledger[i]
<1> DEFINE X == Range(ledger)
<1>0. more = Append(ledger, row) /\ ledger \in Seq(X)
    BY DEF Gains
<1> HIDE DEF X
<1>1. /\ more \in Seq(X \cup {row}) /\ Len(more) = Len(ledger) + 1 /\ Len(ledger) \in Nat
      /\ more[Len(ledger) + 1] = row
      /\ \A i \in 1 .. Len(ledger) : more[i] = ledger[i]
      /\ DOMAIN more = 1 .. Len(ledger) + 1 /\ DOMAIN ledger = 1 .. Len(ledger)
    BY <1>0
<1>2. \A task : RowsOf(more, task) = RowsOf(ledger, task) \cup (IF row.task = task THEN {Len(ledger) + 1} ELSE {})
    BY <1>1 DEF RowsOf
<1> QED BY <1>1, <1>2 DEF X

\* An answer is used only if its row is available and gives no reason against it.
LEMMA AnswerTold ==
    ASSUME NEW task, NEW reply, NEW facts, NEW statuses
    PROVE  LET answer == GuardedCall(task, reply, facts, statuses)
           IN  /\ answer.row.task = task
               /\ answer.items # <<>> => answer.row.status = "available" /\ ~answer.row.reason
<1> DEFINE status == GenerateStructured(reply)
           good == status = "available" /\ Accepted(reply, facts, statuses)
           answer == GuardedCall(task, reply, facts, statuses)
<1>1. CASE reply.kind = "error"
    BY <1>1 DEF GuardedCall, LedgerRow
<1>2. CASE reply.kind # "error"
    <2>1. answer = [row |-> LedgerRow(task, status, ~good), items |-> IF good THEN reply.items ELSE <<>>]
        BY <1>2 DEF GuardedCall
    <2> HIDE DEF status, answer
    <2>2. answer.row.task = task
        BY <2>1 DEF LedgerRow
    <2>3. ASSUME good PROVE answer.row.status = "available" /\ ~answer.row.reason
        <3>1. status = "available" /\ (~good) = FALSE
            BY <2>3
        <3> HIDE DEF good
        <3>2. answer.row = [task |-> task, status |-> status, reason |-> ~good]
            BY <2>1 DEF LedgerRow
        <3>3. answer.row.status = status /\ answer.row.reason = ~good
            BY <3>2
        <3> QED BY <3>1, <3>3, Zenon
    <2>4. ~good => answer.items = <<>>
        BY <2>1
    <2> QED BY <2>2, <2>3, <2>4 DEF answer
<1> QED BY <1>1, <1>2

\* Without items there is no outline.
LEMMA NoOutlines == ASSUME NEW count PROVE Outlines(count, <<>>) = Empties
<1> DEFINE items == <<>>
           Section(acc, s) == IF ~s.guided \/ s.heading \in acc.used THEN acc
                              ELSE [used |-> acc.used \cup {s.heading}, kept |-> Append(acc.kept, s.heading)]
           Adding(acc, item) ==
               IF item.asset \notin 1 .. count \/ item.asset \in DOMAIN acc.outlines THEN acc
               ELSE LET got == FoldLeft(Section, [used |-> acc.used, kept |-> <<>>], item.sections)
                    IN  [used |-> got.used,
                         outlines |-> IF Len(got.kept) < 3 THEN acc.outlines
                                      ELSE With(acc.outlines, item.asset, got.kept)]
           base == [used |-> {}, outlines |-> Empties]
           N(acc) == [n \in 0 .. Len(items) |-> IF n = 0 THEN base ELSE Adding(acc[n - 1], items[n])]
           h == CHOOSE acc : acc = N(acc)
<1>1. Outlines(count, items) = h[Len(items)].outlines
    BY DEF Outlines
<1> HIDE DEF Adding
<1>2. \A acc : N(acc) = [n \in 0 .. 0 |-> base]
    OBVIOUS
<1> HIDE DEF N, base
<1>3. h = [n \in 0 .. 0 |-> base]
    BY <1>2
<1>4. Len(items) = 0
    OBVIOUS
<1> HIDE DEF h
<1> QED BY <1>1, <1>3, <1>4 DEF base

\* The first row of a task leaves the rows of the others as they were.
LEMMA RowAdded ==
    ASSUME NEW more, NEW ledger, NEW row, Gains(more, ledger, row), RowsOf(ledger, row.task) = {}
    PROVE  /\ more \in Seq(Range(more)) /\ One(RowsOf(more, row.task))
           /\ row.status = "available" /\ ~row.reason => Clean(more, row.task)
           /\ \A task : task # row.task => RowsOf(more, task) = RowsOf(ledger, task) /\ (Clean(ledger, task) => Clean(more, task))
<1>1. /\ more \in Seq(Range(ledger) \cup {row})
      /\ RowsOf(more, row.task) = {Len(ledger) + 1}
      /\ more[Len(ledger) + 1] = row
      /\ \A task : task # row.task => RowsOf(more, task) = RowsOf(ledger, task)
      /\ \A i \in DOMAIN ledger : more[i] = ledger[i]
    <2>1. /\ more \in Seq(Range(ledger) \cup {row})
          /\ RowsOf(more, row.task) = RowsOf(ledger, row.task) \cup {Len(ledger) + 1}
          /\ more[Len(ledger) + 1] = row
          /\ \A task : task # row.task => RowsOf(more, task) = RowsOf(ledger, task)
          /\ \A i \in DOMAIN ledger : more[i] = ledger[i]
        BY LedgerGrows
    <2> QED BY <2>1
<1>2. more \in Seq(Range(more))
    BY <1>1, RangeOf
<1>3. \A task : RowsOf(ledger, task) \subseteq DOMAIN ledger
    BY DEF RowsOf
<1>4. row.status = "available" /\ ~row.reason => Clean(more, row.task)
    BY <1>1, Zenon DEF Clean
<1>5. ASSUME NEW task, task # row.task PROVE Clean(ledger, task) => Clean(more, task)
    BY <1>1, <1>3, <1>5, Zenon DEF Clean
<1>6. One(RowsOf(more, row.task))
    BY <1>1 DEF One
<1> QED BY <1>1, <1>2, <1>4, <1>5, <1>6, Zenon

\* At first there are no rows and no calls.
LEMMA MarketTold == CompileMarket => Told'
<1> SUFFICES ASSUME CompileMarket PROVE Told'
    OBVIOUS
<1>1. step' = "proposals"
    BY DEF CompileMarket, Turn
<1>2. PICK s \in Settings :
          /\ content'.setting = [s EXCEPT !.on = s.on /\ Keyed] /\ content'.budget = Most(0, s.calls - 1) /\ content'.calls = 0
          /\ content'.ledger = <<>> /\ content'.proposals = <<>> /\ content'.outlines = Empties /\ content'.assets = <<>>
    BY DEF CompileMarket, Unwritten
<1>3. s \in [calls : Int, on : BOOLEAN]
    BY ContentsAssumption
<1>4. content'.setting.calls = s.calls /\ s.calls \in Int
    BY <1>2, <1>3
<1>5. Most(0, s.calls - 1) \in Nat
    BY <1>4 DEF Most
<1>6. Budgeted(content)'
    BY <1>1, <1>2, <1>4, <1>5 DEF Budgeted
<1>7. Range(<<>>) = {} /\ <<>> \in Seq({}) /\ DOMAIN Empties = {} /\ \A task : RowsOf(<<>>, task) = {}
    BY DEF Range, RowsOf, Empties
<1>8. Noted(content)'
    BY <1>1, <1>2, <1>7 DEF Noted
<1> QED BY <1>6, <1>8 DEF Told

\* What a call or a skipped task changes.
LEMMA CallBudget ==
    ASSUME Filled, NEW answer, NEW c, c = Called(content, answer)
    PROVE  /\ DOMAIN c = DOMAIN content /\ c.budget = content.budget - 1 /\ c.calls = content.calls + 1
           /\ c.ledger = Append(content.ledger, answer.row)
           /\ \A f \in DOMAIN Unwritten \ {"budget", "calls", "ledger"} : c[f] = content[f]
BY DEF Called, Filled, Unwritten

\* The proposals are one call, or a row that says that there was none.
LEMMA ProposalsTold == Sourced /\ Contained /\ Told /\ CompileProposals /\ UNCHANGED book => Told'
<1> SUFFICES ASSUME Sourced, Contained, Told, CompileProposals, UNCHANGED book PROVE Told'
    OBVIOUS
<1> DEFINE list == Proposals(book.pages, content)
           chosen == UpTo(Candidates(book.pages), PROPOSAL_CAP)
<1>0. Filled /\ PagesGood(book.pages) /\ Kept(book.pages, Evidence(book, content), content)
    BY DEF CompileProposals, Turn, Sourced, Booked, Later, Contained, ContentSteps, Filled
<1>7. list \in Seq(RowSet(Range(chosen), content)) /\ \A r \in Range(list) : r.source = "deterministic"
    <2>1. RowsFor(list, chosen, content)
        BY <1>0, ProposalsCite DEF Kept
    <2> HIDE DEF list, chosen
    <2>2. list \in Seq(RowSet(Range(chosen), content)) /\ Range(list) \subseteq RowSet(Range(chosen), content)
        BY <2>1, RangeOf DEF RowsFor
    <2>3. \A r \in RowSet(Range(chosen), content) : r.source = "deterministic"
        BY DEF RowSet
    <2> QED BY <2>2, <2>3
<1>1. step = "proposals" /\ step' = "outlines" /\ Budgeted(content) /\ Noted(content) /\ Briefed' = Briefed
    BY DEF CompileProposals, Turn, Told, ContentSteps, Briefed
<1>2. /\ content.ledger \in Seq(Range(content.ledger)) /\ content.proposals = <<>> /\ content.assets = <<>> /\ DOMAIN content.outlines = {}
      /\ \A task \in {"summary", "proposals", "outlines"} : RowsOf(content.ledger, task) = {}
    BY <1>1 DEF Noted
<1>3. ASSUME NEW row, row.task = "proposals", content'.ledger = Append(content.ledger, row),
             content'.outlines = content.outlines, content'.assets = content.assets, content'.proposals # <<>>,
             \A r \in Range(content'.proposals) : r.source = "llm" => row.status = "available" /\ ~row.reason
      PROVE  Noted(content)'
    <2> DEFINE more == content'.ledger
    <2>0. RowsOf(content.ledger, row.task) = {}
        BY <1>2, <1>3
    <2>1. /\ more \in Seq(Range(more)) /\ One(RowsOf(more, row.task))
          /\ row.status = "available" /\ ~row.reason => Clean(more, row.task)
          /\ \A task : task # row.task => RowsOf(more, task) = RowsOf(content.ledger, task)
        <3> HIDE DEF more
        <3>1. more = Append(content.ledger, row) /\ content.ledger \in Seq(Range(content.ledger))
            BY <1>2, <1>3 DEF more
        <3>2. Gains(more, content.ledger, row)
            BY <3>1 DEF Gains
        <3> QED BY <2>0, <3>2, RowAdded
    <2>2. RowsOf(more, "summary") = {} /\ RowsOf(more, "outlines") = {} /\ One(RowsOf(more, "proposals"))
        BY <1>2, <1>3, <2>1
    <2>3. (\E r \in Range(content'.proposals) : r.source = "llm") => Clean(more, "proposals")
        BY <1>3, <2>1, Zenon
    <2> HIDE DEF more
    <2> QED BY <1>1, <1>2, <1>3, <2>1, <2>2, <2>3 DEF Noted, more
<1>4. CASE list = <<>>
    <2>1. content' = content
        BY <1>4 DEF CompileProposals
    <2> QED BY <1>1, <1>2, <2>1 DEF Told, Budgeted, Noted, ContentSteps
<1>5. CASE list # <<>> /\ ~MayCall(content)
    <2>1. content' = [content EXCEPT !.proposals = list, !.ledger = Append(@, Skipped("proposals"))]
        BY <1>5 DEF CompileProposals
    <2> HIDE DEF list
    <2>2. /\ content'.proposals = list /\ content'.ledger = Append(content.ledger, Skipped("proposals"))
          /\ content'.outlines = content.outlines /\ content'.assets = content.assets
          /\ content'.setting = content.setting /\ content'.calls = content.calls /\ content'.budget = content.budget
        BY <1>0, <2>1 DEF Filled, Unwritten
    <2>3. \A r \in Range(list) : r.source = "deterministic"
        BY <1>7
    <2>4. Noted(content)'
        BY <1>3, <1>5, <2>2, <2>3 DEF Skipped, LedgerRow
    <2> QED BY <1>1, <2>2, <2>4 DEF Told, Budgeted
<1>6. CASE list # <<>> /\ MayCall(content)
    <2>1. PICK reply \in ProposalReplies :
              LET answer == GuardedCall("proposals", reply, {<<"page_facts", p.url>> : p \in Range(list)}, Statuses)
              IN  content' = [Called(content, answer) EXCEPT !.proposals = [i \in DOMAIN list |-> Revised(list[i], answer.items)]]
        BY <1>6 DEF CompileProposals
    <2> DEFINE answer == GuardedCall("proposals", reply, {<<"page_facts", p.url>> : p \in Range(list)}, Statuses)
               l == [i \in DOMAIN list |-> Revised(list[i], answer.items)]
               c == Called(content, answer)
    <2>2. content' = [c EXCEPT !.proposals = l]
        BY <2>1
    <2>3. answer.row.task = "proposals" /\ (answer.items # <<>> => answer.row.status = "available" /\ ~answer.row.reason)
        BY AnswerTold
    <2> HIDE DEF answer, l, c
    <2>4. /\ DOMAIN c = DOMAIN content /\ c.budget = content.budget - 1 /\ c.calls = content.calls + 1
          /\ c.ledger = Append(content.ledger, answer.row)
          /\ c.outlines = content.outlines /\ c.assets = content.assets /\ c.setting = content.setting
        BY <1>0, CallBudget DEF Unwritten, c
    <2>5. /\ content'.proposals = l /\ content'.ledger = c.ledger /\ content'.budget = c.budget /\ content'.calls = c.calls
          /\ content'.outlines = c.outlines /\ content'.assets = c.assets /\ content'.setting = c.setting
        BY <1>0, <2>2, <2>4 DEF Filled, Unwritten
    <2>6. l # <<>>
        <3>1. DOMAIN l = DOMAIN list
            BY DEF l
        <3>2. list \in Seq(RowSet(Range(chosen), content))
            BY <1>7
        <3> HIDE DEF list
        <3> QED BY <1>6, <3>1, <3>2
    <2>7. ASSUME NEW r \in Range(l), r.source = "llm" PROVE answer.items # <<>>
        <3>1. PICK i \in DOMAIN list : r = Revised(list[i], answer.items)
            BY DEF Range, l
        <3>2. list[i].source = "deterministic"
            BY <1>7 DEF Range
        <3>3. answer.items = <<>> => Revised(list[i], answer.items) = list[i]
            BY DEF Revised
        <3> QED BY <2>7, <3>1, <3>2, <3>3
    <2>8. Noted(content)'
        BY <1>3, <2>3, <2>4, <2>5, <2>6, <2>7, Zenon
    <2>9. Budgeted(content)'
        <3>1. content.budget > 0
            BY <1>6, Zenon DEF MayCall
        <3> QED BY <1>1, <2>4, <2>5, <3>1 DEF Budgeted
    <2> QED BY <2>8, <2>9 DEF Told
<1> QED BY <1>4, <1>5, <1>6

\* The outlines are one call, or a row that says that there was none.
LEMMA OutlinesTold == Contained /\ Told /\ CompileOutlines /\ UNCHANGED book => Told'
<1> SUFFICES ASSUME Contained, Told, CompileOutlines, UNCHANGED book PROVE Told'
    OBVIOUS
<1> DEFINE pages == UpTo(Candidates(book.pages), CONTENT_ASSET_CAP)
<1>1. step = "outlines" /\ step' = "assets" /\ Budgeted(content) /\ Noted(content) /\ Briefed' = Briefed /\ Filled
    BY DEF CompileOutlines, Turn, Told, ContentSteps, Briefed, Contained, Filled
<1>2. Briefed <=> pages # <<>>
    BY DEF Briefed
<1> HIDE DEF pages
<1>3. /\ content.ledger \in Seq(Range(content.ledger)) /\ content.assets = <<>> /\ DOMAIN content.outlines = {}
      /\ \A task \in {"summary", "outlines"} : RowsOf(content.ledger, task) = {}
      /\ IF content.proposals # <<>> THEN One(RowsOf(content.ledger, "proposals")) ELSE RowsOf(content.ledger, "proposals") = {}
      /\ (\E r \in Range(content.proposals) : r.source = "llm") => Clean(content.ledger, "proposals")
    BY <1>1 DEF Noted
<1>4. ASSUME Briefed, NEW row, row.task = "outlines", content'.ledger = Append(content.ledger, row),
             content'.proposals = content.proposals, content'.assets = content.assets,
             DOMAIN content'.outlines # {} => row.status = "available" /\ ~row.reason
      PROVE  Noted(content)'
    <2> DEFINE more == content'.ledger
    <2>1. Gains(more, content.ledger, row) /\ RowsOf(content.ledger, row.task) = {}
        BY <1>3, <1>4 DEF Gains
    <2> HIDE DEF more
    <2>2. /\ more \in Seq(Range(more)) /\ One(RowsOf(more, row.task))
          /\ row.status = "available" /\ ~row.reason => Clean(more, row.task)
          /\ \A task : task # row.task => RowsOf(more, task) = RowsOf(content.ledger, task)
                                          /\ (Clean(content.ledger, task) => Clean(more, task))
        BY <2>1, RowAdded
    <2>3. /\ RowsOf(more, "summary") = {} /\ One(RowsOf(more, "outlines"))
          /\ RowsOf(more, "proposals") = RowsOf(content.ledger, "proposals")
          /\ Clean(content.ledger, "proposals") => Clean(more, "proposals")
        BY <1>3, <1>4, <2>2
    <2>4. DOMAIN content'.outlines # {} => Clean(more, "outlines")
        BY <1>4, <2>2, Zenon
    <2> QED BY <1>1, <1>3, <1>4, <2>2, <2>3, <2>4 DEF Noted, more
<1>5. CASE pages = <<>>
    <2>1. content' = content
        BY <1>5 DEF CompileOutlines, pages
    <2> QED BY <1>1, <1>2, <1>5, <2>1 DEF Told, Budgeted, Noted
<1>6. CASE pages # <<>> /\ ~MayCall(content)
    <2>1. content' = [content EXCEPT !.ledger = Append(@, Skipped("outlines"))]
        BY <1>6 DEF CompileOutlines, pages
    <2>2. /\ content'.ledger = Append(content.ledger, Skipped("outlines")) /\ content'.proposals = content.proposals
          /\ content'.outlines = content.outlines /\ content'.assets = content.assets
          /\ content'.setting = content.setting /\ content'.calls = content.calls /\ content'.budget = content.budget
        BY <1>1, <2>1 DEF Filled, Unwritten
    <2>3. Noted(content)'
        BY <1>2, <1>3, <1>4, <1>6, <2>2 DEF Skipped, LedgerRow
    <2> QED BY <1>1, <2>2, <2>3 DEF Told, Budgeted
<1>7. CASE pages # <<>> /\ MayCall(content)
    <2>1. PICK reply \in OutlineReplies :
              LET answer == GuardedCall("outlines", reply, {<<"content_asset", n>> : n \in DOMAIN pages}, Statuses)
              IN  content' = [Called(content, answer) EXCEPT !.outlines = Outlines(Len(pages), answer.items)]
        BY <1>7 DEF CompileOutlines, pages
    <2> DEFINE answer == GuardedCall("outlines", reply, {<<"content_asset", n>> : n \in DOMAIN pages}, Statuses)
               o == Outlines(Len(pages), answer.items)
               c == Called(content, answer)
    <2>2. content' = [c EXCEPT !.outlines = o]
        BY <2>1
    <2>3. answer.row.task = "outlines" /\ (answer.items # <<>> => answer.row.status = "available" /\ ~answer.row.reason)
        BY AnswerTold
    <2>4. answer.items = <<>> => DOMAIN o = {}
        BY NoOutlines DEF Empties
    <2> HIDE DEF answer, o, c
    <2>5. /\ DOMAIN c = DOMAIN content /\ c.budget = content.budget - 1 /\ c.calls = content.calls + 1
          /\ c.ledger = Append(content.ledger, answer.row)
          /\ c.proposals = content.proposals /\ c.assets = content.assets /\ c.setting = content.setting
        BY <1>1, CallBudget DEF Unwritten, c
    <2>6. /\ content'.outlines = o /\ content'.ledger = c.ledger /\ content'.budget = c.budget /\ content'.calls = c.calls
          /\ content'.proposals = c.proposals /\ content'.assets = c.assets /\ content'.setting = c.setting
        BY <1>1, <2>2, <2>5 DEF Filled, Unwritten
    <2>7. DOMAIN content'.outlines # {} => answer.row.status = "available" /\ ~answer.row.reason
        BY <2>3, <2>4, <2>6, Zenon
    <2>8. Noted(content)'
        BY <1>2, <1>4, <1>7, <2>3, <2>5, <2>6, <2>7, Zenon
    <2>9. Budgeted(content)'
        <3>1. content.budget > 0
            BY <1>7, Zenon DEF MayCall
        <3> QED BY <1>1, <2>5, <2>6, <3>1 DEF Budgeted
    <2> QED BY <2>8, <2>9 DEF Told
<1> QED BY <1>5, <1>6, <1>7

\* The briefs call nothing: one of them is the model's if it has an outline.
LEMMA AssetsTold == Sourced /\ Contained /\ Told /\ CompileAssets /\ UNCHANGED book => Told'
<1> SUFFICES ASSUME Sourced, Contained, Told, CompileAssets, UNCHANGED book PROVE Told'
    OBVIOUS
<1> DEFINE chosen == UpTo(Candidates(book.pages), CONTENT_ASSET_CAP)
           list == Assets(book.pages, content)
<1>1. /\ step = "assets" /\ step' = "enrich" /\ Budgeted(content) /\ Noted(content) /\ Briefed' = Briefed /\ Filled
      /\ PagesGood(book.pages)
    BY DEF CompileAssets, Turn, Told, ContentSteps, Briefed, Sourced, Booked, Later, Contained, Filled
<1>2. Briefed <=> chosen # <<>>
    BY DEF Briefed
<1>3. chosen \in Seq(Range(book.pages))
    BY <1>1, CandidatesLive, ContentsAssumption
<1>4. list = [n \in DOMAIN chosen |-> AssetRow(n, chosen[n], book.pages, content)]
    BY DEF Assets
<1>5. \A n : AssetRow(n, chosen[n], book.pages, content).source = "llm" => n \in DOMAIN content.outlines
    BY DEF AssetRow
<1>6. /\ content'.assets = list /\ content'.ledger = content.ledger /\ content'.proposals = content.proposals
      /\ content'.outlines = content.outlines
      /\ content'.setting = content.setting /\ content'.calls = content.calls /\ content'.budget = content.budget
    BY <1>1 DEF CompileAssets, Filled, Unwritten
<1> HIDE DEF chosen, list
<1>7. list = <<>> <=> ~Briefed
    <2>1. chosen = <<>> <=> DOMAIN chosen = {}
        BY <1>3
    <2>2. list = <<>> <=> DOMAIN chosen = {}
        BY <1>4
    <2> QED BY <1>2, <2>1, <2>2
<1>8. \A a \in Range(list) : a.source = "llm" => DOMAIN content.outlines # {}
    BY <1>4, <1>5 DEF Range
<1>9. Noted(content)'
    BY <1>1, <1>6, <1>7, <1>8 DEF Noted
<1> QED BY <1>1, <1>6, <1>9 DEF Told, Budgeted

\* The summary asks the model whatever is left of the budget.
LEMMA SummaryTold == Contained /\ Told /\ Enrich /\ UNCHANGED book => Told'
<1> SUFFICES ASSUME Contained, Told, Enrich, UNCHANGED book PROVE Told'
    OBVIOUS
<1>1. /\ step = "enrich" /\ step' = "written" /\ Budgeted(content) /\ Noted(content) /\ Briefed' = Briefed /\ Filled
    BY DEF Enrich, Turn, Told, ContentSteps, Briefed, Contained, Filled
<1>2. /\ content.ledger \in Seq(Range(content.ledger)) /\ RowsOf(content.ledger, "summary") = {}
    BY <1>1 DEF Noted
<1>3. ASSUME NEW row, row.task = "summary", content'.ledger = Append(content.ledger, row),
             content'.proposals = content.proposals, content'.assets = content.assets, content'.outlines = content.outlines
      PROVE  Noted(content)'
    <2> DEFINE more == content'.ledger
    <2>1. Gains(more, content.ledger, row) /\ RowsOf(content.ledger, row.task) = {}
        BY <1>2, <1>3 DEF Gains
    <2> HIDE DEF more
    <2>2. /\ more \in Seq(Range(more)) /\ One(RowsOf(more, row.task))
          /\ \A task : task # row.task => RowsOf(more, task) = RowsOf(content.ledger, task)
                                          /\ (Clean(content.ledger, task) => Clean(more, task))
        BY <2>1, RowAdded
    <2>3. /\ One(RowsOf(more, "summary"))
          /\ \A task \in {"proposals", "outlines"} : RowsOf(more, task) = RowsOf(content.ledger, task)
                                                     /\ (Clean(content.ledger, task) => Clean(more, task))
        BY <1>3, <2>2
    <2> QED BY <1>1, <1>3, <2>2, <2>3 DEF Noted, more
<1>4. \/ content' = [content EXCEPT !.ledger = Append(@, Skipped("summary"))]
      \/ \E reply \in SummaryReplies :
            content' = [Called(content, GuardedCall("summary", reply, PostureFacts, Statuses)) EXCEPT !.budget = content.budget]
    BY DEF Enrich
<1>5. CASE content' = [content EXCEPT !.ledger = Append(@, Skipped("summary"))]
    <2>1. /\ content'.ledger = Append(content.ledger, Skipped("summary")) /\ content'.proposals = content.proposals
          /\ content'.outlines = content.outlines /\ content'.assets = content.assets
          /\ content'.setting = content.setting /\ content'.calls = content.calls /\ content'.budget = content.budget
        BY <1>1, <1>5 DEF Filled, Unwritten
    <2>2. Noted(content)'
        BY <1>3, <2>1 DEF Skipped, LedgerRow
    <2>3. Budgeted(content)'
        BY <1>1, <2>1 DEF Budgeted, Most
    <2> QED BY <2>2, <2>3 DEF Told
<1>6. ASSUME NEW reply,
             content' = [Called(content, GuardedCall("summary", reply, PostureFacts, Statuses)) EXCEPT !.budget = content.budget]
      PROVE  Told'
    <2> DEFINE answer == GuardedCall("summary", reply, PostureFacts, Statuses)
               c == Called(content, answer)
    <2>1. content' = [c EXCEPT !.budget = content.budget]
        BY <1>6
    <2>2. answer.row.task = "summary"
        BY AnswerTold
    <2> HIDE DEF answer, c
    <2>3. /\ DOMAIN c = DOMAIN content /\ c.calls = content.calls + 1
          /\ c.ledger = Append(content.ledger, answer.row) /\ c.outlines = content.outlines
          /\ c.proposals = content.proposals /\ c.assets = content.assets /\ c.setting = content.setting
        BY <1>1, CallBudget DEF Unwritten, c
    <2>4. /\ content'.ledger = c.ledger /\ content'.budget = content.budget /\ content'.calls = c.calls
          /\ content'.proposals = c.proposals /\ content'.assets = c.assets /\ content'.outlines = c.outlines
          /\ content'.setting = c.setting
        BY <1>1, <2>1, <2>3 DEF Filled, Unwritten
    <2>5. Noted(content)'
        BY <1>3, <2>2, <2>3, <2>4
    <2>6. Budgeted(content)'
        BY <1>1, <2>3, <2>4 DEF Budgeted, Most
    <2> QED BY <2>5, <2>6 DEF Told
<1> QED BY <1>4, <1>5, <1>6

\* Every step keeps it.
LEMMA LedgerStep == LedgerInv /\ [NextContents]_cvars => LedgerInv'
<1> SUFFICES ASSUME LedgerInv, [NextContents]_cvars PROVE LedgerInv'
    OBVIOUS
<1> USE DEF LedgerInv
<1>1. PackageInv'
    BY PackageStep
<1>2. CASE NextRows /\ UNCHANGED content
    <2>1. step' \notin ContentSteps
        BY <1>2, RowsBefore
    <2> QED BY <1>1, <2>1 DEF Told
<1>3. CASE Compiling /\ UNCHANGED <<vars, book>>
    <2>1. Sourced /\ Contained
        BY DEF PackageInv, RowsInv
    <2> QED BY <1>1, <1>3, <2>1, MarketTold, ProposalsTold, OutlinesTold, AssetsTold, SummaryTold DEF Compiling
<1>4. CASE UNCHANGED cvars
    <2>1. content' = content /\ step' = step /\ book' = book
        BY <1>4 DEF cvars, pvars
    <2> QED BY <1>1, <2>1 DEF Told, Budgeted, Noted, Briefed
<1> QED BY <1>2, <1>3, <1>4 DEF NextContents

\* Whatever the model answers, the ledger of a package has one row for each task that had something
\* to do, nothing of a task without a clean row is in the package, and the calls are within the
\* settings, the one for the summary excepted (_guarded_structured_call of run_data.py).
THEOREM LedgerKept == SpecContents => []LedgerTells
<1>1. InitContents => LedgerInv
    BY RowsInvInit DEF InitContents, InitRows, PackageInv, Contained, ContentSteps, LedgerInv, Told
<1>2. LedgerInv => LedgerTells
    <2> SUFFICES ASSUME LedgerInv, step = "written" PROVE LedgerTells
        BY DEF LedgerTells
    <2>1. Budgeted(content) /\ Noted(content)
        BY DEF LedgerInv, Told, ContentSteps
    <2>2. \A S : One(S) => Cardinality(S) = 1
        BY FS_Singleton DEF One
    <2>3. Cardinality({}) = 0
        BY FS_EmptySet
    <2> DEFINE Rows(task) == {i \in DOMAIN content.ledger : content.ledger[i].task = task}
               Used(task) == \A i \in Rows(task) : content.ledger[i].status = "available" /\ ~content.ledger[i].reason
    <2>4. \A task : Rows(task) = RowsOf(content.ledger, task) /\ (Used(task) <=> Clean(content.ledger, task))
        BY Zenon DEF RowsOf, Clean
    <2> HIDE DEF Rows, Used
    <2>5. /\ Cardinality(Rows("summary")) = 1
          /\ Cardinality(Rows("proposals")) = IF content.proposals = <<>> THEN 0 ELSE 1
          /\ Cardinality(Rows("outlines")) = IF content.assets = <<>> THEN 0 ELSE 1
        BY <2>1, <2>2, <2>3, <2>4 DEF Noted
    <2>6. /\ (\E r \in Range(content.proposals) : r.source = "llm") => Used("proposals")
          /\ (\E a \in Range(content.assets) : a.source = "llm") => Used("outlines")
        BY <2>1, <2>4 DEF Noted
    <2>7. content.calls <= Most(1, content.setting.calls)
        BY <2>1 DEF Budgeted
    <2> QED BY <2>5, <2>6, <2>7 DEF LedgerTells, Rows, Used
<1> QED BY <1>1, <1>2, LedgerStep, PTL DEF SpecContents

-----------------------------------------------------------------------------
(* The scores, and what they are made of.                                  *)

\* A page is marked in the step in which it gets its row.
LEMMA MarkedStep == AuditInv /\ RowsMarked /\ [Next]_vars => RowsMarked'
<1> SUFFICES ASSUME AuditInv, RowsMarked, [Next]_vars, pc' \notin {"idle", "crawl"}
             PROVE  DOMAIN rows' = seen' /\ Range(quarantined') = {u \in seen' : rows'[u].challenge}
    BY DEF RowsMarked
<1> USE DEF AuditInv, Planning
<1>1. CASE Crawl
    <2>1. rows' = rows /\ seen' = {} /\ quarantined' = <<>> /\ rows = Empties
        BY <1>1 DEF Crawl, Collects, IInv, RowsAreSeen
    <2> QED BY <2>1 DEF Empties, Range
<1>2. CASE Page
    <2> DEFINE p == Head(todo)
    <2>1. /\ p.url \notin seen /\ seen' = seen \cup {p.url}
          /\ quarantined' = IF p.challenge THEN Append(quarantined, p.url) ELSE quarantined
          /\ rows' = With(rows, p.url, p) /\ pc = "page"
        BY <1>2 DEF Page
    <2>2. quarantined \in Seq(URL) /\ p.url \in URL /\ p.challenge \in BOOLEAN
        <3>1. PagesTyped /\ SeenPages /\ ChallengesFirst /\ todo # <<>>
            BY <1>2 DEF Page, Collects, Collecting
        <3>2. p \in Range(result)
            BY <3>1 DEF ChallengesFirst
        <3> QED BY <3>1, <3>2 DEF PagesTyped, SeenPages
    <2> HIDE DEF p
    <2>3. DOMAIN rows' = DOMAIN rows \cup {p.url} /\ rows'[p.url] = p /\ \A u \in DOMAIN rows : u # p.url => rows'[u] = rows[u]
        BY <2>1 DEF With
    <2>4. DOMAIN rows = seen /\ Range(quarantined) = {u \in seen : rows[u].challenge}
        BY <2>1 DEF RowsMarked
    <2>5. Range(quarantined') = Range(quarantined) \cup (IF p.challenge THEN {p.url} ELSE {})
        BY <2>1, <2>2, RangeAppended
    <2> QED BY <2>1, <2>2, <2>3, <2>4, <2>5
<1>3. CASE ~Crawl /\ ~Page
    <2>1. /\ rows' = rows /\ seen' = seen /\ quarantined' = quarantined /\ pc \notin {"idle", "crawl"}
        BY <1>3 DEF Next, Claim, Skip, Observe, Collected, Evaluate, Find, Cite, Recommend, Act, Review, Score, Fail, FailLater, memory, vars, IInv, TypeOK, PcStep
    <2> QED BY <2>1 DEF RowsMarked
<1> QED BY <1>1, <1>2, <1>3

\* Find grades the finding it writes, and the others keep their grade.
LEMMA GradedStep == AuditInv /\ FindingsGraded /\ [Next]_vars => FindingsGraded'
<1> SUFFICES ASSUME AuditInv, FindingsGraded, [Next]_vars PROVE FindingsGraded'
    OBVIOUS
<1> USE DEF AuditInv, Planning
<1>1. CASE Evaluate
    <2> DEFINE P == {i \in DOMAIN RuleIds : \E h \in hits' : h.rule = RuleIds[i]}
               X == Range(RuleIds)
    <2>1. todo' = Only(RuleIds, P) /\ pc' = "finding" /\ DOMAIN findings' = {} /\ hits' = RunRules(Read, integrity, profile)
        BY <1>1 DEF Evaluate, plan, IInv, PlanKeepsUp, Empties
    <2>2. \A h \in hits' : h.rule \in X
        <3>1. pc = "rules" /\ integrity = Integrity
            BY <1>1 DEF Evaluate, HitsSound
        <3> QED BY <2>1, <3>1, HitsOfRules DEF Measured, Filed
    <2>3. RuleIds \in Seq(X) /\ P \in SUBSET (1 .. Len(RuleIds))
        BY CodesDiffer
    <2>4. \A h \in hits' : \E i \in P : RuleIds[i] = h.rule
        BY <2>2 DEF Range
    <2> HIDE DEF P, X
    <2>5. \A h \in hits' : Holds(todo', h.rule)
        BY <2>1, <2>3, <2>4, OnlyTakes
    <2> QED BY <2>1, <2>5 DEF FindingsGraded, Writing, Holds
<1>2. CASE Find
    <2>0. PICK code : code = Head(todo)
        OBVIOUS
    <2>1. /\ pc = "finding" /\ todo # <<>> /\ pc' = "link" /\ todo' = todo /\ hits' = hits /\ Writing /\ Writing'
          /\ findings' = With(findings, code, FindingOf(Group(code)))
        BY <1>2, <2>0 DEF Find, memory, Writing
    <2>2. Group(code) # {}
        BY <2>0, <2>1, GroupInHand
    <2>3. /\ FindingOf(Group(code)).severity = Worst(Group(code)).severity
          /\ FindingOf(Group(code)).category = Worst(Group(code)).category
        BY DEF FindingOf
    <2>4. DOMAIN findings \subseteq DOMAIN findings' /\ DOMAIN findings' = DOMAIN findings \cup {code}
          /\ findings'[code] = FindingOf(Group(code)) /\ \A c \in DOMAIN findings : c # code => findings'[c] = findings[c]
        BY <2>1 DEF With
    <2>5. \A c : Group(c)' = Group(c)
        BY <2>1 DEF Group
    <2>6. \A H : Worst(H)' = Worst(H)
        BY DEF Worst
    <2>7. Graded(code)'
        BY <2>2, <2>3, <2>4, <2>5 DEF Graded
    <2>8. \A c \in DOMAIN findings : c # code => Graded(c)'
        BY <2>1, <2>4, <2>5 DEF Graded, FindingsGraded
    <2> QED BY <2>1, <2>4, <2>7, <2>8 DEF FindingsGraded
<1>3. CASE Cite \/ Recommend
    <2>1. /\ todo' = todo /\ hits' = hits /\ Writing /\ Writing'
          /\ DOMAIN findings' = DOMAIN findings
          /\ \A c \in DOMAIN findings : findings'[c].severity = findings[c].severity /\ findings'[c].category = findings[c].category
        <3>1. CASE Recommend
            BY <3>1 DEF Recommend, memory, Writing
        <3>2. CASE Cite
            <4>1. \A c \in DOMAIN findings : {"severity", "category"} \subseteq DOMAIN findings[c]
                BY DEF FindingsSilent, FindingsTyped, Fields
            <4> QED BY <3>2, <4>1 DEF Cite, memory, Writing
        <3> QED BY <1>3, <3>1, <3>2
    <2>2. \A c : Group(c)' = Group(c)
        BY <2>1 DEF Group
    <2>3. \A c \in DOMAIN findings : Graded(c)'
        BY <2>1, <2>2 DEF Graded, FindingsGraded
    <2> QED BY <2>1, <2>3 DEF FindingsGraded
<1>4. CASE Act
    <2>1. /\ todo # <<>> /\ todo' = Tail(todo) /\ hits' = hits /\ findings' = findings /\ Writing /\ Writing'
          /\ Head(todo) \in DOMAIN findings /\ todo \in Seq(Range(RuleIds))
        BY <1>4 DEF Act, Writing, TodoHasHits, IInv, PlanKeepsUp, InHand
    <2>2. \A i \in 1 .. Len(todo) : todo[i] = Head(todo) \/ (i - 1 \in 1 .. Len(Tail(todo)) /\ Tail(todo)[i - 1] = todo[i])
        <3> DEFINE X == Range(RuleIds)
        <3> HIDE DEF X
        <3>1. todo \in Seq(X)
            BY <2>1 DEF X
        <3> QED BY <2>1, <3>1
    <2>3. \A c : Group(c)' = Group(c)
        BY <2>1 DEF Group
    <2>4. \A c \in DOMAIN findings : Graded(c)'
        BY <2>1, <2>3 DEF Graded, FindingsGraded
    <2>5. \A h \in hits : h.rule \in DOMAIN findings \/ \E i \in 1 .. Len(todo') : todo'[i] = h.rule
        BY <2>1, <2>2 DEF FindingsGraded
    <2> QED BY <2>1, <2>4, <2>5 DEF FindingsGraded
<1>5. CASE Review
    <2>1. /\ todo = <<>> /\ hits' = hits /\ findings' = findings /\ Writing
        BY <1>5 DEF Review, memory, plan, Writing
    <2>2. \A c : Group(c)' = Group(c)
        BY <2>1 DEF Group
    <2>3. \A c \in DOMAIN findings : Graded(c)'
        BY <2>1, <2>2 DEF Graded, FindingsGraded
    <2> QED BY <2>1, <2>3 DEF FindingsGraded
<1>6. CASE UNCHANGED vars
    <2>1. /\ todo' = todo /\ hits' = hits /\ findings' = findings /\ pc' = pc
        BY <1>6 DEF vars
    <2>2. \A c : Group(c)' = Group(c)
        BY <2>1 DEF Group
    <2> QED BY <2>1, <2>2 DEF FindingsGraded, Graded, Writing
<1>7. CASE Claim \/ Crawl \/ Skip \/ Page \/ Observe \/ Collected \/ Score \/ Fail \/ FailLater
    <2>1. ~(Writing \/ pc = "score")'
        BY <1>7 DEF Claim, Crawl, Skip, Page, Observe, Collected, Score, Fail, FailLater, Writing
    <2> QED BY <2>1 DEF FindingsGraded
<1> QED BY <1>1, <1>2, <1>3, <1>4, <1>5, <1>6, <1>7 DEF Next

\* ScoresMade only reads these.
LEMMA ScoresStay ==
    ASSUME ScoresMade, hits' = hits, findings' = findings, rows' = rows, seen' = seen, quarantined' = quarantined,
           scorecard' = scorecard, profile' = profile
    PROVE  ScoresMade'
<1>1. \A c : Group(c)' = Group(c)
    BY DEF Group
<1>2. \A c \in DOMAIN findings : Graded(c)'
    BY <1>1 DEF Graded, ScoresMade
<1>3. Read' = Read
    BY DEF Read
<1> QED BY <1>2, <1>3 DEF ScoresMade

\* Score writes the scorecard of the hits, and nothing changes any of them before a claim.
LEMMA ScoredStep == ScoreInv /\ [Next]_vars => Scored'
<1> SUFFICES ASSUME ScoreInv, [Next]_vars, pc' = "idle", state' = "GATE_1_REVIEW" PROVE ScoresMade'
    BY DEF Scored
<1> USE DEF ScoreInv, AuditInv, Planning
<1>1. CASE Score
    <2>1. /\ pc = "score" /\ hits' = hits /\ findings' = findings /\ rows' = rows /\ seen' = seen
          /\ quarantined' = quarantined /\ profile' = profile
          /\ scorecard' = Scorecard(hits, profile, Most(1, Cardinality(Read))) ++ [found |-> Cardinality(DOMAIN findings)]
        BY <1>1 DEF Score, Checkpoint, memory, plan
    <2>2. scorecard'.categories = [c \in DOMAIN Weights(profile) |-> CategoryScore(hits, c, Most(1, Cardinality(Read)))]
        <3> DEFINE w == Weights(profile)  n == Most(1, Cardinality(Read))
                   scores == [c \in DOMAIN w |-> CategoryScore(hits, c, n)]
                   f == Scorecard(hits, profile, n)  g == [found |-> Cardinality(DOMAIN findings)]
                   o == IF WeightedCoverage(profile) >= 70000 THEN MapThenSumSet(LAMBDA c : w[c] * scores[c], DOMAIN w) ELSE -1
        <3>1. "categories" \in DOMAIN f /\ f.categories = scores
            <4>1. f = [categories |-> scores, overall |-> o]
                BY DEF Scorecard, MapThenSumSet, MapThenFoldSet
            <4> HIDE DEF f, o, scores
            <4> QED BY <4>1
        <3> HIDE DEF f, g, scores
        <3>2. (f ++ g).categories = f.categories
            BY <3>1 DEF ++
        <3> QED BY <2>1, <3>1, <3>2 DEF f, g, scores
    <2>3. IsFiniteSet(hits) /\ \A h \in hits : Measured(h)
        BY <2>1 DEF HitsSound
    <2>4. DOMAIN findings = {h.rule : h \in hits} /\ \A c \in DOMAIN findings : Graded(c)
        <3>1. (\A h \in hits : h.rule \in DOMAIN findings) /\ \A c \in DOMAIN findings : Graded(c)
            BY <2>1 DEF FindingsGraded, Writing
        <3>2. \A c \in DOMAIN findings : \E h \in hits : h.rule = c
            BY <3>1 DEF Graded, Group
        <3> QED BY <3>1, <3>2
    <2>5. Read = {rows[u] : u \in {u \in DOMAIN rows : ~rows[u].challenge}}
        <3>1. DOMAIN rows = seen /\ Range(quarantined) = {u \in seen : rows[u].challenge}
            BY <2>1 DEF RowsMarked
        <3> QED BY <3>1 DEF Read
    <2>6. \A c : Group(c)' = Group(c)
        BY <2>1 DEF Group
    <2>7. \A c \in DOMAIN findings : Graded(c)'
        BY <2>1, <2>4, <2>6 DEF Graded
    <2>8. Read' = Read
        BY <2>1 DEF Read
    <2> QED BY <2>1, <2>2, <2>3, <2>4, <2>5, <2>7, <2>8 DEF ScoresMade
<1>2. CASE ~Score
    <2>1. UNCHANGED vars
        BY <1>2 DEF Next, Claim, Crawl, Skip, Page, Observe, Collected, Evaluate, Find, Cite, Recommend, Act, Review, Fail, FailLater, IInv, TypeOK, PcStep
    <2>2. ScoresMade
        BY <2>1 DEF vars, Scored
    <2> QED BY <2>1, <2>2, ScoresStay DEF vars
<1> QED BY <1>1, <1>2

\* The audit keeps all of it.
LEMMA ScoreStep == ScoreInv /\ [Next]_vars => ScoreInv'
BY AuditStep, MarkedStep, GradedStep, ScoredStep DEF ScoreInv

\* It holds before the first audit.
LEMMA ScoreInit == Init => ScoreInv
BY AuditInit DEF ScoreInv, RowsMarked, FindingsGraded, Scored, Init, Writing

-----------------------------------------------------------------------------
(* The scores and the findings of a package.                               *)

\* A hit costs nothing exactly if it is an info.
LEMMA InfoIsFree == \A h : Measured(h) => Penalty(h) \in Nat /\ (Penalty(h) = 0 <=> h.severity = "info")
<1> SUFFICES ASSUME NEW h, Measured(h) PROVE Penalty(h) \in Nat /\ (Penalty(h) = 0 <=> h.severity = "info")
    OBVIOUS
<1>1. PICK n, p : n = h.num /\ p = SeverityPenalties[h.severity] /\ n \in Nat \ {0}
    BY DEF Measured
<1>2. p \in {30, 18, 8, 3, 0} /\ (p = 0 <=> h.severity = "info")
    BY <1>1 DEF Measured, Severity, SeverityPenalties
<1>3. p * n \in Nat /\ (p * n = 0 <=> p = 0)
    BY <1>1, <1>2
<1> QED BY <1>1, <1>2, <1>3 DEF Penalty

\* The sum of the penalties of some hits.
LEMMA SumOfPenalties ==
    ASSUME NEW H, IsFiniteSet(H), \A h \in H : Measured(h)
    PROVE  /\ MapThenSumSet(LAMBDA h : SeverityPenalties[h.severity] * h.num, H) \in Nat
           /\ MapThenSumSet(LAMBDA h : SeverityPenalties[h.severity] * h.num, H) = 0 <=> \A h \in H : h.severity = "info"
<1> DEFINE w == [h \in H |-> Penalty(h)]
           Value(x) == SeverityPenalties[x.severity] * x.num
           c == CHOOSE f : f = [s \in SUBSET H |-> IF s = {} THEN 0 ELSE Value(CHOOSE x \in s : TRUE) + f[s \ {CHOOSE x \in s : TRUE}]]
           sum == MapThenSumSet(LAMBDA h : SeverityPenalties[h.severity] * h.num, H)
<1>1. sum = c[H]
    BY DEF MapThenSumSet, MapThenFoldSet
<1>2. w \in [H -> Nat] /\ \A h \in H : w[h] = 0 <=> h.severity = "info"
    BY InfoIsFree
<1>3. Sums(c, H, w)
    <2> DEFINE N(f) == [s \in SUBSET H |-> IF s = {} THEN 0 ELSE Value(CHOOSE x \in s : TRUE) + f[s \ {CHOOSE x \in s : TRUE}]]
    <2>0. \A h : Value(h) = Penalty(h)
        BY DEF Penalty
    <2>2. c = CHOOSE f : f = N(f)
        OBVIOUS
    <2> HIDE DEF Value
    <2>1. ASSUME NEW f PROVE Sums(f, H, w) <=> f = N(f)
        <3> DEFINE A(s) == IF s = {} THEN 0 ELSE w[Pick(s)] + f[s \ {Pick(s)}]
                   B(s) == IF s = {} THEN 0 ELSE Value(CHOOSE x \in s : TRUE) + f[s \ {CHOOSE x \in s : TRUE}]
        <3>1. ASSUME NEW s \in SUBSET H PROVE A(s) = B(s)
            <4>1. s # {} => Pick(s) \in H
                BY DEF Pick
            <4>2. s # {} => w[Pick(s)] = Value(Pick(s))
                BY <2>0, <4>1
            <4> QED BY <4>2 DEF Pick
        <3>2. N(f) = [s \in SUBSET H |-> B(s)] /\ (Sums(f, H, w) <=> f = [s \in SUBSET H |-> A(s)])
            BY DEF Sums
        <3> HIDE DEF A, B, N
        <3>3. [s \in SUBSET H |-> A(s)] = [s \in SUBSET H |-> B(s)]
            BY <3>1
        <3> QED BY <3>2, <3>3
    <2>3. \E f : Sums(f, H, w)
        <3> HIDE DEF w
        <3> QED BY <1>2, SumExists
    <2> HIDE DEF N, c, w
    <2>4. c = N(c)
        BY <2>1, <2>2, <2>3
    <2> QED BY <2>1, <2>4
<1> HIDE DEF w, c
<1>4. c[H] \in Nat /\ (c[H] = 0 <=> \A h \in H : w[h] = 0)
    BY <1>2, <1>3, SumIsNat
<1> HIDE DEF sum
<1>5. sum \in Nat /\ (sum = 0 <=> \A h \in H : h.severity = "info")
    BY <1>1, <1>2, <1>4
<1> QED BY <1>5 DEF sum

\* A category has less than all points exactly if a hit of it is more than an info.
LEMMA CategoryTells ==
    ASSUME NEW H, IsFiniteSet(H), \A h \in H : Measured(h), NEW c, NEW total \in Nat \ {0}
    PROVE  CategoryScore(H, c, total) < 100 * total <=> \E h \in H : h.category = c /\ h.severity # "info"
<1> DEFINE C == {h \in H : h.category = c}
           sum == MapThenSumSet(LAMBDA h : SeverityPenalties[h.severity] * h.num, C)
<1>1. IsFiniteSet(C) /\ \A h \in C : Measured(h)
    BY FS_Subset
<1>2. sum \in Nat /\ (sum = 0 <=> \A h \in C : h.severity = "info")
    <2> HIDE DEF C
    <2> QED BY <1>1, SumOfPenalties
<1>3. CategoryScore(H, c, total) = Most(0, 100 * total - sum)
    BY DEF CategoryScore
<1>4. (\A h \in C : h.severity = "info") <=> ~ \E h \in H : h.category = c /\ h.severity # "info"
    OBVIOUS
<1> HIDE DEF sum, C
<1> QED BY <1>2, <1>3, <1>4 DEF Most

\* The gravest hit of a code is an info only if they all are, and they share a category.
LEMMA GradeTells ==
    ASSUME ScoresMade, NEW c
    PROVE  (\E h \in hits : h.category = c /\ h.severity # "info")
               <=> \E code \in DOMAIN findings : findings[code].category = c /\ findings[code].severity # "info"
<1>1. ASSUME NEW code \in DOMAIN findings
      PROVE  /\ Worst(Group(code)) \in hits /\ Worst(Group(code)).rule = code
             /\ findings[code].severity = Worst(Group(code)).severity /\ findings[code].category = CategoryOf(code)
             /\ findings[code].category = Worst(Group(code)).category
             /\ \A h \in Group(code) : Rank[findings[code].severity] <= Rank[h.severity]
    <2>1. Graded(code) /\ \A h \in Group(code) : Measured(h) /\ h \in hits /\ h.rule = code
        BY DEF ScoresMade, Group
    <2>2. Worst(Group(code)) \in Group(code) /\ \A h \in Group(code) : Rank[Worst(Group(code)).severity] <= Rank[h.severity]
        BY <2>1, WorstIn DEF Graded
    <2> QED BY <2>1, <2>2 DEF Graded, Measured, Filed
<1>2. ASSUME NEW h \in hits, h.category = c, h.severity # "info"
      PROVE  \E code \in DOMAIN findings : findings[code].category = c /\ findings[code].severity # "info"
    <2>1. h.rule \in DOMAIN findings /\ h \in Group(h.rule) /\ Measured(h)
        BY DEF ScoresMade, Group
    <2>2. findings[h.rule].category = c
        BY <1>1, <1>2, <2>1 DEF Measured, Filed
    <2>3. Rank[findings[h.rule].severity] <= Rank[h.severity] /\ Rank[h.severity] \in 0 .. 3
        BY <1>1, <1>2, <2>1 DEF Measured, Severity, Rank
    <2>4. findings[h.rule].severity # "info"
        BY <2>3 DEF Rank
    <2> QED BY <2>1, <2>2, <2>4
<1>3. ASSUME NEW code \in DOMAIN findings, findings[code].category = c, findings[code].severity # "info"
      PROVE  \E h \in hits : h.category = c /\ h.severity # "info"
    BY <1>1, <1>3
<1> QED BY <1>2, <1>3

\* Two sets are of one size if a field tells the elements of one by those of the other.
LEMMA SameSize ==
    ASSUME NEW P, NEW U, IsFiniteSet(U), NEW at, \A p \in P : at[p] \in U,
           \A p, q \in P : at[p] = at[q] => p = q, \A u \in U : \E p \in P : at[p] = u
    PROVE  Cardinality(P) = Cardinality(U)
<1> DEFINE f == [p \in P |-> at[p]]
<1>1. f \in Bijection(P, U)
    <2>1. f \in [P -> U]
        OBVIOUS
    <2>2. \A p, q \in P : f[p] = f[q] => p = q
        OBVIOUS
    <2>3. \A u \in U : \E p \in P : f[p] = u
        OBVIOUS
    <2> HIDE DEF f
    <2> QED BY <2>1, <2>2, <2>3, Fun_IsBij
<1> HIDE DEF f
<1>2. ExistsBijection(U, P)
    BY <1>1, Fun_ExistsBijSymmetric DEF ExistsBijection
<1> QED BY <1>2, FS_Bijection

\* A page of a package is walled if its row is, so those that are not are as many as the task read.
LEMMA PagesCounted ==
    ASSUME RowsTell, DOMAIN rows # {}, NEW R, R = {rows[u] : u \in {u \in DOMAIN rows : ~rows[u].challenge}}
    PROVE  Cardinality({p \in Range(PageRows) : ~p.wall}) = Cardinality(R)
<1> DEFINE D == DOMAIN rows
           before == {p \in D \X D : p[1] < p[2]}
           r == Ranked(D, before)
           Row(i, p) == [id |-> PageId(i), key |-> Key(p.url), wall |-> p.challenge] ++ (Facts(p) ++ p)
           n == Cardinality(D)
           U == {u \in D : ~rows[u].challenge}
           P == {p \in Range(PageRows) : ~p.wall}
<1>1. IsFiniteSet(D) /\ IsFiniteSet(U)
    BY SiteAssumption, FS_Subset DEF RowsTell
<1>2. r \in [1 .. n -> D] /\ n \in Nat /\ Differ(r, 1 .. n) /\ \A x \in D : \E i \in 1 .. n : r[i] = x
    <2> HIDE DEF before, D
    <2> QED BY <1>1, RankedTakes
<1>3. PageRows = [i \in 1 .. n |-> Row(i, rows[r[i]])]
    <2>1. DOMAIN r = 1 .. n
        BY <1>2
    <2> QED BY <2>1 DEF PageRows, Sorted
<1> HIDE DEF r, n
<1>4. ASSUME NEW u \in D, NEW i PROVE Row(i, rows[u]).wall = rows[u].challenge /\ Row(i, rows[u]).url = u
    <2> DEFINE p == rows[u]
    <2>1. "url" \in DOMAIN p /\ p.url = u
        BY DEF RowsTell, Crawled, PageFacts
    <2> HIDE DEF p
    <2>2. "url" \notin DOMAIN Facts(p)
        BY DEF Facts, NoFacts
    <2>3. (Facts(p) ++ p).url = u /\ "url" \in DOMAIN (Facts(p) ++ p)
        BY <2>1, <2>2 DEF ++
    <2> DEFINE g == (Facts(p) ++ p)
    <2> HIDE DEF g
    <2>4. Row(i, p).wall = p.challenge /\ Row(i, p).url = g.url
        <3>1. "url" \in DOMAIN g
            BY <2>3 DEF g
        <3> QED BY <3>1 DEF ++, g
    <2> QED BY <2>3, <2>4 DEF p, g
<1> HIDE DEF Row
<1>5. \A i \in 1 .. n : PageRows[i].wall = rows[r[i]].challenge /\ PageRows[i].url = r[i] /\ r[i] \in D
    BY <1>2, <1>3, <1>4
<1>6. DOMAIN PageRows = 1 .. n
    BY <1>3
<1>7. \A p \in P : \E i \in 1 .. n : p = PageRows[i] /\ p.url = r[i] /\ r[i] \in U
    BY <1>5, <1>6 DEF Range
<1>8. \A u \in U : \E p \in P : p.url = u
    <2> SUFFICES ASSUME NEW u \in U PROVE \E p \in P : p.url = u
        OBVIOUS
    <2>1. PICK i \in 1 .. n : r[i] = u
        BY <1>2
    <2>2. PageRows[i] \in P /\ PageRows[i].url = u
        BY <1>5, <1>6, <2>1 DEF Range
    <2> QED BY <2>2
<1>9. Cardinality(P) = Cardinality(U)
    <2> DEFINE at == [p \in P |-> p.url]
    <2>1. \A p \in P : at[p] = p.url
        OBVIOUS
    <2> HIDE DEF at, P, U
    <2>2. \A p \in P : at[p] \in U
        BY <1>7, <2>1
    <2>3. \A p, q \in P : at[p] = at[q] => p = q
        BY <1>2, <1>7, <2>1 DEF Differ
    <2>4. \A u \in U : \E p \in P : at[p] = u
        BY <1>8, <2>1
    <2> QED BY <1>1, <2>2, <2>3, <2>4, SameSize
<1>10. Cardinality(R) = Cardinality(U)
    <2> DEFINE at == [q \in R |-> q.url]
    <2>1. \A q \in R : \E u \in U : q = rows[u] /\ at[q] = u
        BY DEF RowsTell
    <2>2. \A u \in U : rows[u] \in R /\ at[rows[u]] = u
        BY DEF RowsTell
    <2> HIDE DEF at, U
    <2>3. \A p, q \in R : at[p] = at[q] => p = q
        BY <2>1
    <2> QED BY <1>1, <2>1, <2>2, <2>3, SameSize
<1> QED BY <1>9, <1>10

\* What the audit does next changes nothing that a build undisturbed by it has read or will read.
LEMMA AuditMatches == MatchInv /\ Next /\ UNCHANGED pvars => Begun' /\ Matches'
<1> SUFFICES ASSUME MatchInv, Next, UNCHANGED pvars PROVE Begun' /\ Matches'
    OBVIOUS
<1>1. attempt \in Nat
    BY SiteAuditAssumption DEF MatchInv, ScoreInv, AuditInv, Planning, IInv, TypeOK
<1>2. (Claim /\ attempt' = attempt + 1) \/ (~Claim /\ attempt' = attempt)
    BY DEF Next, Claim, Crawl, Skip, Page, Observe, Collected, Evaluate, Find, Cite, Recommend, Act, Review, Score, Fail, FailLater
<1>3. step' = step /\ book' = book
    BY DEF pvars
<1>4. Begun'
    BY <1>1, <1>2, <1>3 DEF Begun, MatchInv
<1>5. Undisturbed' => Undisturbed /\ ~Claim
    BY <1>1, <1>2, <1>3 DEF Undisturbed, Begun, MatchInv
<1>6. ASSUME Undisturbed, ~Claim
      PROVE  /\ hits' = hits /\ findings' = findings /\ rows' = rows /\ seen' = seen /\ quarantined' = quarantined
             /\ scorecard' = scorecard /\ profile' = profile /\ pc' = "idle"
    <2>1. pc = "idle"
        BY <1>6 DEF MatchInv, Matches
    <2>2. FailLater
        BY <1>6, <2>1 DEF Next, Crawl, Skip, Page, Observe, Collected, Evaluate, Find, Cite, Recommend, Act, Review, Score, Fail
    <2> QED BY <2>1, <2>2 DEF FailLater, memory, plan
<1>7. ASSUME Undisturbed, ~Claim PROVE ScoresMade'
    <2>1. ScoresMade
        BY <1>7 DEF MatchInv, Matches
    <2> QED BY <1>6, <1>7, <2>1, ScoresStay
<1>8. ASSUME Undisturbed, ~Claim
      PROVE  (PagesMatch => PagesMatch') /\ (FindingsMatch => FindingsMatch') /\ (CategoriesMatch => CategoriesMatch')
    <2>1. Read' = Read
        BY <1>6, <1>8 DEF Read
    <2>2. FindingsMatch => FindingsMatch'
        BY <1>3, <1>6, <1>8 DEF FindingsMatch, Shows
    <2>3. CategoriesMatch => CategoriesMatch'
        BY <1>3, <1>6, <1>8 DEF CategoriesMatch, ScoreAgrees
    <2> QED BY <1>3, <2>1, <2>2, <2>3 DEF PagesMatch
<1>9. Matches'
    BY <1>3, <1>5, <1>6, <1>7, <1>8 DEF MatchInv, Matches, Later
<1> QED BY <1>4, <1>9

\* What is read of the audit matches it.
LEMMA ReadingMatches == MatchInv /\ (Build \/ Reading) /\ UNCHANGED vars => Begun' /\ Matches'
<1> SUFFICES ASSUME MatchInv, Build \/ Reading, UNCHANGED vars PROVE Begun' /\ Matches'
    OBVIOUS
<1>1. /\ hits' = hits /\ findings' = findings /\ rows' = rows /\ seen' = seen /\ quarantined' = quarantined
      /\ scorecard' = scorecard /\ profile' = profile /\ attempt' = attempt /\ pc' = pc /\ state' = state /\ actions' = actions
    BY DEF vars
<1>2. ScoresMade => ScoresMade'
    BY <1>1, ScoresStay
<1>3. Read' = Read
    BY <1>1 DEF Read
<1>4. attempt \in Nat
    BY SiteAuditAssumption DEF MatchInv, ScoreInv, AuditInv, Planning, IInv, TypeOK
<1>5. CASE Build
    <2>1. /\ book' = [Blank EXCEPT !.attempt = attempt, !.calm = (pc = "idle"), !.profile = profile]
          /\ state = "GATE_1_REVIEW" /\ step' = "evidence"
        BY <1>5 DEF Build, Turn
    <2>2. book'.attempt = attempt /\ book'.profile = profile /\ (book'.calm => pc = "idle")
        BY <2>1 DEF Blank
    <2>3. Undisturbed' => pc = "idle" /\ ScoresMade
        BY <2>1, <2>2 DEF Undisturbed, MatchInv, ScoreInv, Scored
    <2> QED BY <1>1, <1>2, <1>4, <2>1, <2>2, <2>3 DEF Begun, Matches, Later
<1> SUFFICES ASSUME Reading PROVE Begun' /\ Matches'
    BY <1>5
<1>6. DOMAIN book = DOMAIN Blank
    BY DEF MatchInv, Sourced
<1>7. book'.attempt = book.attempt /\ book'.calm = book.calm /\ book'.profile = book.profile /\ step \notin {"off", "raised"}
    BY <1>6 DEF Reading, ReadEvidence, ReadPages, ReadSources, ReadFindings, ReadScorecard, ReadActions, ReadIntegrity, Turn, Blank
<1>8. Begun' /\ (Undisturbed' => Undisturbed)
    BY <1>1, <1>7 DEF MatchInv, Begun, Undisturbed
<1> SUFFICES ASSUME Undisturbed, Undisturbed' PROVE Matches'
    BY <1>8 DEF Matches
<1>9. pc' = "idle" /\ ScoresMade' /\ book'.profile = profile' /\ ScoresMade /\ book.profile = profile
    BY <1>1, <1>2, <1>7 DEF MatchInv, Matches
<1>10. CASE ReadEvidence
    BY <1>9, <1>10 DEF ReadEvidence, Turn, Matches, Later
<1>11. CASE ReadPages
    <2>1. book'.pages = PageRows /\ step = "pages" /\ step' = IF DOMAIN rows = {} THEN "raised" ELSE "sources"
        BY <1>6, <1>11 DEF ReadPages, Blank
    <2>2. DOMAIN rows # {} /\ step' = "sources"
        BY <2>1 DEF Undisturbed
    <2>3. RowsTell /\ Read = {rows[u] : u \in {u \in DOMAIN rows : ~rows[u].challenge}}
        BY <1>9 DEF MatchInv, ScoreInv, AuditInv, ScoresMade
    <2>4. PagesMatch'
        BY <1>3, <2>1, <2>2, <2>3, PagesCounted DEF PagesMatch
    <2> QED BY <1>9, <2>2, <2>4 DEF Matches, Later
<1>12. CASE ReadSources
    <2>1. book'.pages = book.pages /\ step = "sources" /\ step' = "findings"
        BY <1>6, <1>12 DEF ReadSources, Turn, Blank
    <2>2. PagesMatch => PagesMatch'
        BY <1>3, <2>1 DEF PagesMatch
    <2> QED BY <1>9, <2>1, <2>2 DEF MatchInv, Matches, Later
<1>13. CASE ReadFindings
    <2> DEFINE D == DOMAIN findings
               row == [code \in D |-> FindingRow(book, code)]
               F == {FindingRow(book, code) : code \in D}
               before == {p \in F \X F : Before(p[1], p[2])}
    <2>1. step = "findings" /\ step' = "scorecard" /\ book'.findings = Ranked(F, before) /\ book'.pages = book.pages
        BY <1>6, <1>13 DEF ReadFindings, Turn, Sorted, Blank
    <2>2. IsFiniteSet(F)
        <3>1. IsFiniteSet(D) /\ DOMAIN row = D /\ F = {row[x] : x \in D}
            BY DEF MatchInv, ScoreInv, AuditInv, RowsTell
        <3> HIDE DEF D, row, F
        <3> QED BY <3>1, ImageOf
    <2>3. \A code \in D : Shows(FindingRow(book, code), code)
        BY DEF FindingRow, Shows
    <2>4. (\A f \in F : \E code \in D : Shows(f, code)) /\ (\A code \in D : \E f \in F : Shows(f, code))
        BY <2>3
    <2> HIDE DEF F, before, row
    <2>5. Range(book'.findings) = F
        BY <2>1, <2>2, SortedSet
    <2>6. FindingsMatch'
        <3>1. \A f, code : Shows(f, code)' <=> Shows(f, code)
            BY <1>1 DEF Shows
        <3> QED BY <1>1, <2>4, <2>5, <3>1 DEF FindingsMatch, Shows
    <2>7. PagesMatch => PagesMatch'
        BY <1>3, <2>1 DEF PagesMatch
    <2> QED BY <1>9, <2>1, <2>6, <2>7 DEF MatchInv, Matches, Later
<1>14. CASE ReadScorecard
    <2>1. /\ step = "scorecard" /\ step' = "actions" /\ book'.pages = book.pages /\ book'.findings = book.findings
          /\ book'.categories = [c \in DOMAIN Weights(book.profile) |-> CategoryRow(book, c)]
        BY <1>6, <1>14 DEF ReadScorecard, Turn, Blank
    <2>2. \A c \in DOMAIN Weights(profile) :
              CategoryRow(book, c).published => CategoryRow(book, c).score = scorecard.categories[c]
        <3> SUFFICES ASSUME NEW c \in DOMAIN Weights(profile), CategoryRow(book, c).published
                     PROVE  CategoryRow(book, c).score = scorecard.categories[c]
            OBVIOUS
        <3> DEFINE known == scorecard # None /\ c \in DOMAIN scorecard.categories
        <3>1. known
            BY DEF CategoryRow
        <3>2. CategoryRow(book, c).score = IF known THEN scorecard.categories[c] ELSE -1
            BY DEF CategoryRow
        <3> QED BY <3>1, <3>2
    <2>3. CategoriesMatch'
        BY <1>1, <1>9, <2>1, <2>2 DEF CategoriesMatch, ScoreAgrees
    <2>4. (PagesMatch => PagesMatch') /\ (FindingsMatch => FindingsMatch')
        BY <1>1, <1>3, <2>1 DEF PagesMatch, FindingsMatch, Shows
    <2> QED BY <1>9, <2>1, <2>3, <2>4 DEF MatchInv, Matches, Later
<1>15. CASE ReadActions \/ ReadIntegrity
    <2>1. /\ (step = "actions" /\ step' = "integrity") \/ (step = "integrity" /\ step' = "compiled")
          /\ book'.pages = book.pages /\ book'.findings = book.findings /\ book'.categories = book.categories
        BY <1>6, <1>15 DEF ReadActions, ReadIntegrity, Turn, Blank
    <2>2. (PagesMatch => PagesMatch') /\ (FindingsMatch => FindingsMatch')
        BY <1>1, <1>3, <2>1 DEF PagesMatch, FindingsMatch, Shows
    <2>3. CategoriesMatch => CategoriesMatch'
        BY <1>1, <2>1 DEF CategoriesMatch, ScoreAgrees
    <2> QED BY <1>9, <2>1, <2>2, <2>3 DEF MatchInv, Matches, Later
<1> QED BY <1>10, <1>11, <1>12, <1>13, <1>14, <1>15 DEF Reading

\* What is compiled of the contents leaves the rows as they are.
LEMMA CompilingMatches == MatchInv /\ Compiling /\ UNCHANGED <<vars, book>> => Begun' /\ Matches'
<1> SUFFICES ASSUME MatchInv, Compiling, UNCHANGED <<vars, book>> PROVE Begun' /\ Matches'
    OBVIOUS
<1>1. step \in {"compiled"} \cup ContentSteps /\ step' \in ContentSteps
    BY DEF Compiling, CompileMarket, CompileProposals, CompileOutlines, CompileAssets, Enrich, Turn, ContentSteps
<1>2. /\ hits' = hits /\ findings' = findings /\ rows' = rows /\ seen' = seen /\ quarantined' = quarantined
      /\ scorecard' = scorecard /\ profile' = profile /\ attempt' = attempt /\ pc' = pc /\ book' = book
    BY DEF vars
<1>3. ScoresMade => ScoresMade'
    BY <1>2, ScoresStay
<1>4. (PagesMatch => PagesMatch') /\ (FindingsMatch => FindingsMatch') /\ (CategoriesMatch => CategoriesMatch')
    <2>1. Read' = Read
        BY <1>2 DEF Read
    <2>2. FindingsMatch => FindingsMatch'
        BY <1>2 DEF FindingsMatch, Shows
    <2>3. CategoriesMatch => CategoriesMatch'
        BY <1>2 DEF CategoriesMatch, ScoreAgrees
    <2> QED BY <1>2, <2>1, <2>2, <2>3 DEF PagesMatch
<1>5. Undisturbed' => Undisturbed
    BY <1>1, <1>2 DEF Undisturbed, ContentSteps
<1> QED BY <1>1, <1>2, <1>3, <1>4, <1>5 DEF MatchInv, Begun, Matches, Later, ContentSteps

\* Every step of the audit and of the build keeps all of it.
LEMMA MatchStep == MatchInv /\ [NextContents]_cvars => MatchInv'
<1> SUFFICES ASSUME MatchInv, [NextContents]_cvars PROVE MatchInv'
    OBVIOUS
<1> USE DEF MatchInv
<1>1. RowsInv
    BY DEF RowsInv, ScoreInv
<1>2. CASE Next /\ UNCHANGED pvars
    <2>1. ScoreInv'
        BY <1>2, ScoreStep
    <2>3. step' = step /\ book' = book
        BY <1>2 DEF pvars
    <2>4. \A x : CitesBook(x) => CitesBook(x)'
        BY <2>3 DEF CitesBook
    <2>2. Sourced'
        BY <2>3, <2>4 DEF Sourced, Booked, Later
    <2> QED BY <1>2, <2>1, <2>2, AuditMatches
<1>3. CASE (Build \/ Reading) /\ UNCHANGED vars
    <2>1. ScoreInv'
        BY <1>3, ScoreStep
    <2>2. Sourced'
        BY <1>3, SourcedStep DEF ScoreInv, AuditInv
    <2> QED BY <1>3, <2>1, <2>2, ReadingMatches
<1>4. CASE Compiling /\ UNCHANGED <<vars, book>>
    <2>1. ScoreInv'
        BY <1>4, ScoreStep
    <2>2. step \in {"compiled"} \cup ContentSteps /\ step' \in ContentSteps
        BY <1>4 DEF Compiling, CompileMarket, CompileProposals, CompileOutlines, CompileAssets, Enrich, Turn, ContentSteps
    <2>3. \A x : CitesBook(x) => CitesBook(x)'
        BY <1>4 DEF CitesBook
    <2>4. Sourced'
        BY <1>4, <2>2, <2>3 DEF Sourced, Booked, Later, ContentSteps
    <2> QED BY <1>4, <2>1, <2>4, CompilingMatches
<1>5. CASE UNCHANGED cvars
    <2>1. UNCHANGED vars /\ step' = step /\ book' = book
        BY <1>5 DEF cvars, pvars
    <2>2. ScoreInv'
        BY <2>1, ScoreStep
    <2>3. \A x : CitesBook(x) => CitesBook(x)'
        BY <2>1 DEF CitesBook
    <2>4. Sourced'
        BY <2>1, <2>3 DEF Sourced, Booked, Later
    <2>5. /\ hits' = hits /\ findings' = findings /\ rows' = rows /\ seen' = seen /\ quarantined' = quarantined
          /\ scorecard' = scorecard /\ profile' = profile /\ attempt' = attempt /\ pc' = pc /\ book' = book
        BY <2>1 DEF vars
    <2>6. ScoresMade => ScoresMade'
        BY <2>5, ScoresStay
    <2>7. (PagesMatch => PagesMatch') /\ (FindingsMatch => FindingsMatch') /\ (CategoriesMatch => CategoriesMatch')
        <3>1. Read' = Read
            BY <2>5 DEF Read
        <3>2. FindingsMatch => FindingsMatch'
            BY <2>5 DEF FindingsMatch, Shows
        <3>3. CategoriesMatch => CategoriesMatch'
            BY <2>5 DEF CategoriesMatch, ScoreAgrees
        <3> QED BY <2>5, <3>1, <3>2, <3>3 DEF PagesMatch
    <2>8. Begun' /\ Matches'
        BY <2>1, <2>5, <2>6, <2>7 DEF Begun, Matches, Undisturbed, Later
    <2> QED BY <2>2, <2>4, <2>8
<1> QED BY <1>2, <1>3, <1>4, <1>5 DEF NextContents, NextRows

\* A build that began when the audit was over, and met no other, publishes a score below the maximum
\* exactly for the categories that it shows a finding of, infos aside (_compile_categories of
\* run_data.py, and scoring.py).
THEOREM ScoresHold == SpecContents => []ScoresMatchFindings
<1>1. InitContents => MatchInv
    <2> SUFFICES ASSUME InitContents PROVE MatchInv
        OBVIOUS
    <2>1. Init /\ step = "off" /\ book = Blank
        BY DEF InitContents, InitRows
    <2>2. ScoreInv /\ Sourced
        BY <2>1, ScoreInit, RowsInvInit DEF RowsInv, InitRows
    <2>3. book.attempt = 0 /\ attempt = 0
        BY <2>1 DEF Blank, Init
    <2> QED BY <2>1, <2>2, <2>3 DEF MatchInv, Begun, Matches, Undisturbed
<1>2. MatchInv => ScoresMatchFindings
    <2> SUFFICES ASSUME MatchInv, step \notin RowStep, step # "raised", book.calm, book.attempt = attempt,
                        NEW c \in DOMAIN book.categories, book.categories[c].published
                 PROVE  book.categories[c].score < 100 * Most(1, Cardinality({p \in Range(book.pages) : ~p.wall}))
                            <=> \E f \in Range(book.findings) : f.category = c /\ f.severity # "info"
        BY DEF ScoresMatchFindings
    <2>1. ScoresMade /\ PagesMatch /\ FindingsMatch /\ CategoriesMatch /\ pc = "idle"
        BY DEF MatchInv, Matches, Undisturbed, Later, RowStep
    <2> DEFINE total == Most(1, Cardinality(Read))
    <2>2. total \in Nat \ {0}
        <3>1. IsFiniteSet(DOMAIN rows)
            BY SiteAssumption, FS_Subset DEF MatchInv, ScoreInv, AuditInv, RowsTell
        <3> DEFINE U == {u \in DOMAIN rows : ~rows[u].challenge}
                   page == [u \in U |-> rows[u]]
        <3>2. IsFiniteSet(U) /\ DOMAIN page = U /\ Read = {page[u] : u \in U}
            BY <2>1, <3>1, FS_Subset DEF ScoresMade
        <3> HIDE DEF U, page
        <3> QED BY <3>2, ImageOf DEF Most
    <2>3. book.categories[c].score = CategoryScore(hits, c, total)
        BY <2>1 DEF CategoriesMatch, ScoreAgrees, ScoresMade
    <2>4. total = Most(1, Cardinality({p \in Range(book.pages) : ~p.wall}))
        BY <2>1 DEF PagesMatch
    <2> HIDE DEF total
    <2>5. CategoryScore(hits, c, total) < 100 * total <=> \E h \in hits : h.category = c /\ h.severity # "info"
        <3>1. IsFiniteSet(hits) /\ \A h \in hits : Measured(h)
            BY <2>1 DEF ScoresMade
        <3> QED BY <2>2, <3>1, CategoryTells
    <2>6. (\E h \in hits : h.category = c /\ h.severity # "info")
              <=> \E f \in Range(book.findings) : f.category = c /\ f.severity # "info"
        <3>1. (\E h \in hits : h.category = c /\ h.severity # "info")
                  <=> \E code \in DOMAIN findings : findings[code].category = c /\ findings[code].severity # "info"
            BY <2>1, GradeTells
        <3> QED BY <2>1, <3>1 DEF FindingsMatch, Shows
    <2> QED BY <2>3, <2>4, <2>5, <2>6
<1> QED BY <1>1, <1>2, MatchStep, PTL DEF SpecContents

\* What some of them say, by their codes.
LEMMA NoFault == ASSUME NEW p, NEW pages PROVE \A rule \in Unsheeted : Faulty(rule, p, pages)
BY DEF Faulty, Unsheeted

\* Whom a page must resemble to be at fault for a text or a title that is not its own.
LEMMA TwinFault ==
    ASSUME NEW p, NEW pages
    PROVE  /\ Faulty("technical.duplicate_content", p, pages) <=> p.hash # 0 /\ \E q \in pages : q.url # p.url /\ q.hash = p.hash
           /\ Faulty("on_page.title_duplicate", p, pages) <=> ~Empty(p.title) /\ \E q \in pages : q.url # p.url /\ q.title = p.title
BY DEF Faulty

\* What it is to be at fault, rule by rule.
LEMMA FaultOf ==
    ASSUME NEW p, NEW pages
    PROVE  /\ Faulty("technical.http_status", p, pages) <=> p.status >= 500 \/ p.status \in 400..499
           /\ Faulty("technical.redirect_chain_length", p, pages) <=> p.chain > 2
           /\ Faulty("technical.robots_directive", p, pages) <=> Blocked(p)
           /\ Faulty("technical.canonical_boundary", p, pages) <=> p.canonical = "outside"
           /\ Faulty("technical.canonical_missing", p, pages) <=> p.canonical = "none"
           /\ Faulty("on_page.title", p, pages) <=> Empty(p.title) \/ p.title.length > 65
           /\ Faulty("on_page.title_short", p, pages) <=> p.title.length \in 1 .. 14
           /\ Faulty("on_page.meta_description", p, pages) <=> Empty(p.meta)
           /\ Faulty("on_page.h1", p, pages) <=> p.h1s = 0 \/ p.h1s > 1
           /\ Faulty("on_page.image_alt_missing", p, pages) <=> p.unlabelled > 0
           /\ Faulty("on_page.thin_content", p, pages) <=> p.words \in 0 .. 199
           /\ Faulty("geo_aeo.structured_data_missing", p, pages) <=> p.schema = {}
           /\ Faulty("analytics.tracking_missing", p, pages) <=> ~p.tracked
           /\ Faulty("analytics.tracking_partial", p, pages) <=> ~p.tracked
BY DEF Faulty

\* A hit for each of some pages tells if the rule is about each of them.
LEMMA EachTells ==
    ASSUME NEW pages, NEW P \in SUBSET pages, NEW rule, NEW category, NEW severity, NEW risk, \A p \in P : Faulty(rule, p, pages)
    PROVE  AllTell(EachPage(pages, P, rule, category, severity, risk), pages)
BY DEF AllTell, EachPage, Hit, Telling

\* So does a hit for all of them.
LEMMA TogetherTells ==
    ASSUME NEW pages, Site(pages), NEW P \in SUBSET pages, NEW count, NEW rule, NEW category, NEW severity,
           \A p \in P : Faulty(rule, p, pages)
    PROVE  AllTell(Together(pages, P, count, rule, category, severity), pages)
<1>1. CASE P = {}
    BY <1>1 DEF Together, AllTell
<1>2. CASE P # {}
    <2>1. Earliest(P) \in P
        BY <1>2, EarliestIn DEF Site
    <2> DEFINE total == Most(1, Cardinality(pages))
               h == Hit(rule, category, severity, "low", Earliest(P).url, Urls(P), Least(count, total), total)
    <2>2. Together(pages, P, count, rule, category, severity) = {h}
        BY <1>2 DEF Together
    <2>3. h.lead = Earliest(P).url /\ h.urls = Urls(P) /\ h.rule = rule
        BY DEF Hit
    <2> HIDE DEF h
    <2>4. Telling(h, pages)
        BY <2>1, <2>3 DEF Telling, Urls
    <2> QED BY <2>2, <2>4 DEF AllTell
<1> QED BY <1>1, <1>2

\* Two sets of hits that tell make one.
LEMMA BothTell == ASSUME NEW G, NEW H, NEW pages, AllTell(G, pages), AllTell(H, pages) PROVE AllTell(G \cup H, pages)
BY DEF AllTell

\* The rules that look at one page at a time tell.
LEMMA PageRulesTell ==
    ASSUME NEW pages
    PROVE  /\ AllTell(HttpHits(pages), pages)
           /\ AllTell(TitleHits(pages), pages)
           /\ AllTell(MetaHits(pages), pages)
           /\ AllTell(H1Hits(pages), pages)
           /\ AllTell(DirectiveHits(pages), pages)
           /\ AllTell(InsecureHits(pages), pages)
           /\ AllTell(PathHits(pages), pages)
           /\ AllTell(DocumentHits(pages), pages)
           /\ AllTell(SpeedHits(pages), pages)
           /\ AllTell(GenericHits(pages), pages)
<1> DEFINE Each(P, rule, category, severity, risk) == AllTell(EachPage(pages, P, rule, category, severity, risk), pages)
<1>1. \A rule, P, category, severity, risk : P \in SUBSET pages /\ (\A p \in P : Faulty(rule, p, pages)) => Each(P, rule, category, severity, risk)
    BY EachTells
<1>2. \A G, H : AllTell(G, pages) /\ AllTell(H, pages) => AllTell(G \cup H, pages)
    BY BothTell
<1> HIDE DEF Each
<1>3. AllTell(HttpHits(pages), pages)
    <2> DEFINE A == {p \in pages : p.status >= 500}  B == {p \in pages : p.status \in 400..499}
    <2>1. \A p \in A \cup B : Faulty("technical.http_status", p, pages)
        BY FaultOf
    <2> QED BY <1>1, <1>2, <2>1 DEF HttpHits, Each
<1>4. AllTell(TitleHits(pages), pages)
    <2> DEFINE A == {p \in pages : Success(p) /\ Empty(p.title)}  B == {p \in pages : Success(p) /\ p.title.length > 65}
    <2>1. \A p \in A \cup B : Faulty("on_page.title", p, pages)
        BY FaultOf
    <2> QED BY <1>1, <1>2, <2>1 DEF TitleHits, Each
<1>5. AllTell(MetaHits(pages), pages)
    <2> DEFINE A == {p \in pages : Success(p) /\ Empty(p.meta)}
    <2>1. \A p \in A : Faulty("on_page.meta_description", p, pages)
        BY FaultOf
    <2> QED BY <1>1, <2>1 DEF MetaHits, Each
<1>6. AllTell(H1Hits(pages), pages)
    <2> DEFINE A == {p \in pages : Success(p) /\ p.h1s = 0}  B == {p \in pages : Success(p) /\ p.h1s > 1}
    <2>1. \A p \in A \cup B : Faulty("on_page.h1", p, pages)
        BY FaultOf
    <2> QED BY <1>1, <1>2, <2>1 DEF H1Hits, Each
<1>7. AllTell(DirectiveHits(pages), pages)
    <2> DEFINE A == {p \in pages : p.canonical = "outside"}  B == {p \in pages : p.robots \cap {"noindex", "none"} # {}}
               C == {p \in pages : p.chain > 2}  D == {p \in pages : SuccessHtml(p) /\ p.canonical = "none"}
    <2>1. \A p \in A : Faulty("technical.canonical_boundary", p, pages)
        BY FaultOf
    <2>2. \A p \in B : Faulty("technical.robots_directive", p, pages)
        BY FaultOf DEF Blocked
    <2>3. \A p \in C : Faulty("technical.redirect_chain_length", p, pages)
        BY FaultOf
    <2>4. \A p \in D : Faulty("technical.canonical_missing", p, pages)
        BY FaultOf
    <2> QED BY <1>1, <1>2, <2>1, <2>2, <2>3, <2>4 DEF DirectiveHits, Each
<1>8. \A rule \in Unsheeted : \A P \in SUBSET pages : \A category, severity, risk : Each(P, rule, category, severity, risk)
    BY <1>1, NoFault
<1>9. AllTell(InsecureHits(pages), pages) /\ AllTell(PathHits(pages), pages) /\ AllTell(GenericHits(pages), pages)
    BY <1>2, <1>8 DEF InsecureHits, PathHits, GenericHits, Each, Unsheeted
<1>10. AllTell(DocumentHits(pages), pages)
    <2> DEFINE A == {p \in pages : Success(p) /\ p.title.length \in 1..14}
               B == {p \in pages : SuccessHtml(p) /\ p.url \notin Utility /\ p.words \in 0..199}
               C == {p \in pages : SuccessHtml(p) /\ p.unlabelled > 0}
               D == {p \in pages : SuccessHtml(p) /\ p.words > 600 /\ ~p.h2}
    <2>1. \A p \in A : Faulty("on_page.title_short", p, pages)
        BY FaultOf
    <2>2. \A p \in B : Faulty("on_page.thin_content", p, pages)
        BY FaultOf
    <2>3. \A p \in C : Faulty("on_page.image_alt_missing", p, pages)
        BY FaultOf
    <2>4. Each(D, "on_page.h2_missing", "on_page", "low", "low")
        BY <1>8 DEF Unsheeted
    <2> QED BY <1>1, <1>2, <2>1, <2>2, <2>3, <2>4 DEF DocumentHits, Each
<1>11. AllTell(SpeedHits(pages), pages)
    <2> DEFINE A == {p \in pages : p.ms > 2500}  B == {p \in pages : p.ms \in 1201..2500}
               C == {p \in pages : p.bytes > 1500000}
    <2>1. A \in SUBSET pages /\ B \in SUBSET pages /\ C \in SUBSET pages
        BY SMT
    <2>2. SpeedHits(pages) = EachPage(pages, A, "performance.slow_response", "performance", "high", "low")
              \cup EachPage(pages, B, "performance.slow_response", "performance", "medium", "low")
              \cup EachPage(pages, C, "performance.heavy_page", "performance", "low", "low")
        BY SMT DEF SpeedHits
    <2> HIDE DEF A, B, C
    <2> QED BY <1>2, <1>8, <2>1, <2>2 DEF Each, Unsheeted
<1> QED BY <1>3, <1>4, <1>5, <1>6, <1>7, <1>9, <1>10, <1>11

\* The rules that look at some pages together tell.
LEMMA SiteRulesTell ==
    ASSUME NEW pages, Site(pages)
    PROVE  /\ AllTell(BodyHits(pages), pages)
           /\ AllTell(OrphanHits(pages), pages)
           /\ AllTell(FieldHits(pages), pages)
           /\ AllTell(TrackingHits(pages), pages)
           /\ AllTell(StructuredHits(pages), pages)
           /\ AllTell(CannibalHits(pages), pages)
           /\ AllTell(ProductHits(pages), pages)
           /\ AllTell(LocalHits(pages), pages)
<1> DEFINE All(P, count, rule, category, severity) == AllTell(Together(pages, P, count, rule, category, severity), pages)
<1>1. \A rule, P, count, category, severity : P \in SUBSET pages /\ (\A p \in P : Faulty(rule, p, pages)) => All(P, count, rule, category, severity)
    BY TogetherTells
<1>2. \A G, H : AllTell(G, pages) /\ AllTell(H, pages) => AllTell(G \cup H, pages)
    BY BothTell
<1>3. AllTell({}, pages)
    BY DEF AllTell
<1>4. \A rule \in Unsheeted : \A P \in SUBSET pages : \A count, category, severity : All(P, count, rule, category, severity)
    BY <1>1, NoFault
<1> HIDE DEF All
<1>5. AllTell(BodyHits(pages), pages)
    <2> DEFINE A == {p \in pages : Success(p) /\ p.hash # 0}
    <2>1. Shared(A, "hash") \in SUBSET pages
        BY DEF Shared
    <2>2. \A p \in Shared(A, "hash") : Faulty("technical.duplicate_content", p, pages)
        <3> TAKE p \in Shared(A, "hash")
        <3>1. p.hash # 0 /\ \E q \in pages : q.url # p.url /\ q.hash = p.hash
            BY DEF Shared
        <3> QED BY <3>1, TwinFault
    <2>3. BodyHits(pages) = SharedHit(pages, A, "hash", "technical.duplicate_content", "technical", "medium")
        BY DEF BodyHits
    <2> HIDE DEF A
    <2> QED BY <1>1, <2>1, <2>2, <2>3 DEF SharedHit, All
<1>6. AllTell(OrphanHits(pages), pages)
    BY <1>4 DEF OrphanHits, All, Unsheeted
<1>7. AllTell(FieldHits(pages), pages)
    <2> DEFINE ok == {p \in pages : Success(p)}
               A == {p \in ok : ~Empty(p.title)}  B == {p \in ok : ~Empty(p.meta)}  C == {p \in ok : p.h1s > 0}
    <2>1. \A p \in Shared(A, "title") : Faulty("on_page.title_duplicate", p, pages)
        <3> TAKE p \in Shared(A, "title")
        <3>1. ~Empty(p.title) /\ \E q \in pages : q.url # p.url /\ q.title = p.title
            BY DEF Shared
        <3> QED BY <3>1, TwinFault
    <2>2. Shared(A, "title") \in SUBSET pages /\ Shared(B, "meta") \in SUBSET pages /\ Shared(C, "h1") \in SUBSET pages
        BY DEF Shared
    <2>3. FieldHits(pages) =
              SharedHit(pages, A, "title", "on_page.title_duplicate", "on_page", "medium")
              \cup SharedHit(pages, B, "meta", "on_page.meta_description_duplicate", "on_page", "medium")
              \cup SharedHit(pages, C, "h1", "on_page.h1_duplicate", "on_page", "low")
        BY DEF FieldHits
    <2> HIDE DEF A, B, C, ok
    <2> QED BY <1>1, <1>2, <1>4, <2>1, <2>2, <2>3 DEF SharedHit, All, Unsheeted
<1>8. AllTell(TrackingHits(pages), pages)
    <2> DEFINE A == {p \in Html(pages) : ~p.tracked}
    <2>1. \A p \in A : p \in pages /\ Faulty("analytics.tracking_missing", p, pages) /\ Faulty("analytics.tracking_partial", p, pages)
        BY FaultOf DEF Html
    <2>2. \/ TrackingHits(pages) = {}
          \/ TrackingHits(pages) = Together(pages, A, Cardinality(A), "analytics.tracking_missing", "analytics", "high")
          \/ TrackingHits(pages) = Together(pages, A, Cardinality(A), "analytics.tracking_partial", "analytics", "medium")
        BY DEF TrackingHits
    <2> HIDE DEF A
    <2> QED BY <1>1, <1>3, <2>1, <2>2 DEF All
<1>9. \A types, rule, category : rule \in Unsheeted => AllTell(NoneDeclares(pages, types, rule, category), pages)
    <2> SUFFICES ASSUME NEW types, NEW rule \in Unsheeted, NEW category PROVE AllTell(NoneDeclares(pages, types, rule, category), pages)
        OBVIOUS
    <2>1. Html(pages) # {} => First(Html(pages)) \in pages
        <3>1. \A p \in Html(pages) : p \in pages /\ p.url \in URL
            BY DEF Html, Site
        <3> QED BY <3>1, FirstIn
    <2>2. Html(pages) # {} => All({First(Html(pages))}, 1, rule, category, "medium")
        BY <1>4, <2>1
    <2> QED BY <1>3, <2>2 DEF NoneDeclares, All
<1>10. AllTell(StructuredHits(pages), pages)
    <2> DEFINE mute == {p \in Html(pages) : ~p.lang}  bare == {p \in Html(pages) : p.schema = {}}
               A == HalfHit(pages, Html(pages), bare, "geo_aeo.structured_data_missing", "geo_aeo", "medium")
               B == NoneDeclares(pages, {"organization", "localbusiness", "website"},
                                 "geo_aeo.organization_schema_missing", "geo_aeo")
               C == Together(pages, mute, Cardinality(mute), "geo_aeo.html_lang_missing", "geo_aeo", "low")
    <2>1. StructuredHits(pages) = A \cup B \cup C
        BY DEF StructuredHits
    <2>2. mute \in SUBSET pages /\ \A p \in bare : p \in pages /\ Faulty("geo_aeo.structured_data_missing", p, pages)
        BY FaultOf DEF Html
    <2> HIDE DEF mute, bare
    <2>3. AllTell(A, pages)
        BY <1>1, <1>3, <2>2 DEF HalfHit, All
    <2>4. AllTell(B, pages)
        BY <1>9 DEF Unsheeted
    <2>5. AllTell(C, pages)
        BY <1>4, <2>2 DEF All, Unsheeted
    <2> HIDE DEF A, B, C
    <2> QED BY <1>2, <2>1, <2>3, <2>4, <2>5
<1>11. AllTell(CannibalHits(pages), pages)
    BY <1>4 DEF CannibalHits, All, Unsheeted
<1>12. AllTell(ProductHits(pages), pages)
    BY <1>3, <1>4 DEF ProductHits, HalfHit, Html, All, Unsheeted
<1>13. AllTell(LocalHits(pages), pages)
    BY <1>9 DEF LocalHits, Unsheeted
<1> QED BY <1>5, <1>6, <1>7, <1>8, <1>10, <1>11, <1>12, <1>13

\* A broken link's hit shows the first page that has one.
LEMMA BrokenLinksTell == ASSUME NEW pages, Site(pages) PROVE AllTell(BrokenLinkHits(pages), pages)
<1> DEFINE rule == "technical.broken_internal_link"
           targets == {t \in pages : t.status >= 400 /\ \E p \in pages : t.url \in p.links}
           sources == {p \in pages : \E t \in targets : t.url \in p.links}
           T == Together(pages, sources \cup targets, Cardinality(targets), rule, "technical", "high")
           first == Earliest(sources).url
<1>1. BrokenLinkHits(pages) = {[h EXCEPT !.lead = first] : h \in T}
    BY DEF BrokenLinkHits
<1>2. targets \in SUBSET pages /\ sources \in SUBSET pages /\ (targets # {} => sources # {}) /\ (targets = {} => sources = {})
    OBVIOUS
<1> HIDE DEF targets, sources
<1>3. SUFFICES ASSUME NEW h \in T PROVE Telling([h EXCEPT !.lead = first], pages)
    BY <1>1 DEF AllTell
<1> DEFINE total == Most(1, Cardinality(pages))  P == sources \cup targets
           g == Hit(rule, "technical", "high", "low", Earliest(P).url, Urls(P), Least(Cardinality(targets), total), total)
<1>4. P # {} /\ h = g
    BY DEF Together
<1>5. Earliest(sources) \in sources
    BY <1>2, <1>4, EarliestIn DEF Site
<1>6. LET b == [h EXCEPT !.lead = first] IN b.lead = first /\ b.urls = Urls(P) /\ b.rule = rule
    BY <1>4 DEF Hit
<1>7. \A p \in P : p \in pages /\ Faulty(rule, p, pages)
    BY <1>2, NoFault DEF Unsheeted
<1>8. first \in Urls(P)
    BY <1>5 DEF Urls
<1> HIDE DEF P, first, rule
<1> QED BY <1>6, <1>7, <1>8 DEF Telling, Urls

\* Every hit of every rule tells.
LEMMA RulesTell == ASSUME NEW pages, Site(pages) PROVE AllTell(PageHits(pages), pages)
<1>1. \A G, H : AllTell(G, pages) /\ AllTell(H, pages) => AllTell(G \cup H, pages)
    BY BothTell
<1> DEFINE A == HttpHits(pages) \cup TitleHits(pages) \cup MetaHits(pages) \cup H1Hits(pages) \cup DirectiveHits(pages)
           B == BodyHits(pages) \cup InsecureHits(pages) \cup BrokenLinkHits(pages) \cup PathHits(pages) \cup OrphanHits(pages)
           C == FieldHits(pages) \cup DocumentHits(pages) \cup SpeedHits(pages) \cup TrackingHits(pages) \cup StructuredHits(pages)
           D == CannibalHits(pages) \cup GenericHits(pages) \cup ProductHits(pages) \cup LocalHits(pages)
<1>2. PageHits(pages) = A \cup B \cup C \cup D
    BY DEF PageHits
<1>3. AllTell(A, pages)
    BY <1>1, PageRulesTell
<1>4. AllTell(B, pages)
    BY <1>1, PageRulesTell, SiteRulesTell, BrokenLinksTell
<1>5. AllTell(C, pages)
    BY <1>1, PageRulesTell, SiteRulesTell
<1>6. AllTell(D, pages)
    BY <1>1, PageRulesTell, SiteRulesTell
<1> HIDE DEF A, B, C, D
<1> QED BY <1>1, <1>2, <1>3, <1>4, <1>5, <1>6

-----------------------------------------------------------------------------
(* What the findings of an audit point at.                                 *)

\* run_rules takes all the pages that were read.
LEMMA AllEvaluated ==
    ASSUME IInv, Collects, pc = "rules", integrity = Integrity
    PROVE  EvaluablePages(Read, integrity) = Read
<1>1. quarantined \in Seq(URL) /\ \A u \in seen : rows[u].url = u
    BY DEF Collects, SeenPages
<1>2. integrity.quarantined = SubSeq(quarantined, 1, Least(Len(quarantined), QUARANTINE_URL_CAP))
    BY DEF Integrity, Listed
<1>3. \A i \in DOMAIN integrity.quarantined : integrity.quarantined[i] \in Range(quarantined)
    <2> DEFINE n == Least(Len(quarantined), QUARANTINE_URL_CAP)
    <2>1. n \in Nat /\ n <= Len(quarantined)
        BY <1>1, SiteAuditAssumption DEF Least
    <2> HIDE DEF n
    <2>2. integrity.quarantined = SubSeq(quarantined, 1, n)
        BY <1>2 DEF n
    <2>3. DOMAIN integrity.quarantined = 1 .. n /\ \A i \in 1 .. n : integrity.quarantined[i] = quarantined[i]
        BY <1>1, <2>1, <2>2
    <2>4. \A i \in 1 .. n : i \in DOMAIN quarantined
        BY <1>1, <2>1
    <2> QED BY <2>3, <2>4 DEF Range
<1>4. \A p \in Read : p.url \notin Range(quarantined)
    BY <1>1 DEF Read
<1> QED BY <1>3, <1>4 DEF EvaluablePages, Range

\* The rules' hits fit, and no other step writes any.
LEMMA HitsFitStep == AuditInv /\ HitsFit /\ [Next]_vars => HitsFit'
<1> SUFFICES ASSUME AuditInv, HitsFit, [Next]_vars PROVE HitsFit'
    OBVIOUS
<1> USE DEF AuditInv, Planning
<1>1. CASE Evaluate
    <2>1. hits' = RunRules(Read, integrity, profile) /\ pc = "rules" /\ integrity = Integrity
        BY <1>1 DEF Evaluate, HitsSound
    <2>2. EvaluablePages(Read, integrity) = Read /\ Site(Read)
        BY <2>1, AllEvaluated, ReadIsSite
    <2>3. hits' = {h \in PageHits(Read) \cup DegradedHits(integrity) : h.category \in EnabledModules(profile)}
        BY <2>1, <2>2 DEF RunRules
    <2>4. AllTell(PageHits(Read), Read)
        BY <2>2, RulesTell
    <2>5. \A h \in DegradedHits(integrity) : h.rule = "technical.crawl_degraded"
        BY DEF DegradedHits, Hit
    <2>6. Read' = Read /\ profile' = profile
        BY <1>1 DEF Evaluate, Read
    <2>7. \A h \in hits' : h.category \in EnabledModules(profile) /\ (h.rule # "technical.crawl_degraded" => Telling(h, Read))
        BY <2>3, <2>4, <2>5 DEF AllTell
    <2> QED BY <2>6, <2>7 DEF HitsFit, Fitting
<1>2. CASE ~Evaluate
    <2>1. (Writing \/ pc = "score")' => (Writing \/ pc = "score") /\ hits' = hits /\ Read' = Read /\ profile' = profile
        BY <1>2 DEF Next, Claim, Crawl, Skip, Page, Observe, Collected, Find, Cite, Recommend, Act, Review, Score, Fail, FailLater, memory,
                    vars, Writing, Read
    <2> QED BY <2>1 DEF HitsFit, Fitting
<1> QED BY <1>1, <1>2

\* What a group of hits makes of a finding points at the pages of the group.
LEMMA GroupPoints ==
    ASSUME AuditInv, HitsFit, Writing, NEW code, NEW H, H = Group(code), H # {}, code # "technical.crawl_degraded"
    PROVE  \A u \in {FirstUrl(H)} \cup GroupUrls(H) : \E p \in Read : p.url = u /\ Faulty(code, p, Read)
<1> USE DEF AuditInv, Planning
<1>1. \A h \in H : Telling(h, Read) /\ h.rule = code /\ About(h, Read)
    BY DEF Group, HitsFit, Fitting, HitsSound
<1>2. \A h \in H : h.lead \in h.urls /\ \A u \in h.urls : \E p \in Read : p.url = u /\ Faulty(code, p, Read)
    BY <1>1 DEF Telling
<1>3. FirstUrl(H) \in {h.lead : h \in H}
    <2>1. ASSUME NEW h \in H PROVE rows[h.lead].at \in Nat
        <3>1. PICK u \in seen : rows[u].url = h.lead
            BY <1>1 DEF About, Urls, Read
        <3>2. u = h.lead /\ rows[u] \in Range(result) /\ PagesTyped
            BY <3>1 DEF Collects, SeenPages, Writing
        <3> QED BY <3>2 DEF PagesTyped
    <2> QED BY <2>1, FirstUrlIn
<1> QED BY <1>2, <1>3 DEF GroupUrls

\* Find and Cite write findings that are apt.
LEMMA AptStep == AuditInv /\ HitsFit /\ FindingsApt /\ [Next]_vars => FindingsApt'
<1> SUFFICES ASSUME AuditInv, HitsFit, FindingsApt, [Next]_vars PROVE FindingsApt'
    OBVIOUS
<1> USE DEF AuditInv, Planning
<1>1. CASE Find \/ Cite
    <2>1. PICK code, H : code = Head(todo) /\ H = Group(code)
        OBVIOUS
    <2>2. Writing /\ todo # <<>> /\ Read' = Read /\ profile' = profile /\ code \in DOMAIN findings'
        BY <1>1, <2>1 DEF Find, Cite, Writing, memory, Read, IInv, PlanKeepsUp, InHand, TodoHasHits, With
    <2>3. H # {} /\ \A h \in H : h \in hits /\ h.rule = code
        BY <2>1, <2>2, GroupInHand
    <2>4. code = "ecommerce.product_schema_missing" => profile \in {"ecommerce", "hybrid"}
        <3>1. PICK h \in H : TRUE
            BY <2>3
        <3>2. h.category \in EnabledModules(profile) /\ Measured(h) /\ h.rule = code
            BY <2>2, <2>3 DEF HitsFit, Fitting, HitsSound
        <3>3. code = "ecommerce.product_schema_missing" => h.category = "ecommerce"
            BY <3>2, Filing DEF Measured, Filed
        <3> QED BY <3>2, <3>3 DEF EnabledModules
    <2>5. code # "technical.crawl_degraded" =>
              \A u \in {FirstUrl(H)} \cup GroupUrls(H) : \E p \in Read : p.url = u /\ Faulty(code, p, Read)
        BY <2>1, <2>2, <2>3, GroupPoints
    <2>6. \A c \in DOMAIN findings' : c # code => c \in DOMAIN findings /\ findings'[c] = findings[c]
        BY <1>1, <2>1 DEF Find, Cite, With
    <2>11. \A c \in DOMAIN findings : Apt(c)
        BY <2>2 DEF FindingsApt, PlanStands
    <2>7. code # "technical.crawl_degraded" =>
              \A u \in Pointing(code)' : \E p \in Read : p.url = u /\ Faulty(code, p, Read)
        <3>1. CASE Find
            <4>1. findings' = With(findings, code, FindingOf(H))
                BY <2>1, <3>1 DEF Find
            <4>2. findings'[code] = FindingOf(H)
                BY <4>1 DEF With
            <4>3. FindingOf(H).page = FirstUrl(H) /\ FindingOf(H).evidence = {}
                BY DEF FindingOf
            <4> QED BY <2>5, <4>2, <4>3 DEF Pointing
        <3>2. CASE Cite
            <4>1. findings' = [findings EXCEPT ![code].evidence = IF code = "technical.crawl_degraded" THEN {} ELSE GroupUrls(H)]
                BY <2>1, <3>2 DEF Cite
            <4>2. DOMAIN findings[code] = Fields
                BY <2>2, <4>1 DEF FindingsSilent, FindingsTyped
            <4>3. findings'[code].page = findings[code].page
                  /\ (code # "technical.crawl_degraded" => findings'[code].evidence = GroupUrls(H))
                BY <2>2, <4>1, <4>2 DEF Fields
            <4>4. code \in DOMAIN findings
                BY <2>2, <4>1
            <4> QED BY <2>5, <2>11, <4>3, <4>4 DEF Pointing, Apt
        <3> QED BY <1>1, <3>1, <3>2
    <2>8. Apt(code)'
        BY <2>2, <2>4, <2>7 DEF Apt
    <2>10. \A c \in DOMAIN findings' : c # code => Apt(c)'
        BY <2>2, <2>6, <2>11 DEF Apt, Pointing
    <2> QED BY <2>8, <2>10 DEF FindingsApt
<1>2. CASE Evaluate
    <2>1. DOMAIN findings' = {}
        BY <1>2 DEF Evaluate, plan, IInv, PlanKeepsUp, Empties
    <2> QED BY <2>1 DEF FindingsApt
<1>3. CASE ~Find /\ ~Cite /\ ~Evaluate
    <2>1. PlanStands' => PlanStands /\ findings' = findings /\ Read' = Read /\ profile' = profile
        BY <1>3 DEF Next, Claim, Crawl, Skip, Page, Observe, Collected, Recommend, Act, Review, Score, Fail, FailLater, memory, plan,
                    vars, Writing, Read, PlanStands, IInv, TypeOK, PcStep, PlanKeepsUp
    <2> QED BY <2>1 DEF FindingsApt, Apt, Pointing
<1> QED BY <1>1, <1>2, <1>3

\* A week of the plan is one of eight.
LEMMA WeekInPlan ==
    ASSUME RowsTell, recommendations \subseteq DOMAIN findings, NEW severity
    PROVE  Week(severity) \in 1 .. 8
<1>1. \A severities : Earlier(severities) \in Nat
    <2> TAKE severities
    <2> DEFINE E == {c \in recommendations \ {Head(todo)} : findings[c].severity \in severities}
    <2>1. IsFiniteSet(E)
        BY FS_Subset DEF RowsTell
    <2> QED BY <2>1, FS_CardinalityType DEF Earlier
<1>2. Earlier({"medium"}) % 3 \in 0 .. 2 /\ Earlier({"low", "info"}) % 4 \in 0 .. 3
    <2>1. \A n \in Nat : n % 3 \in 0 .. 2 /\ n % 4 \in 0 .. 3
        OBVIOUS
    <2> QED BY <1>1, <2>1
<1> DEFINE m == Earlier({"medium"}) % 3  n == Earlier({"low", "info"}) % 4
<1>3. Week(severity) \in {1, 2 + m, 5 + n}
    BY DEF Week
<1> HIDE DEF m, n
<1>4. m \in 0 .. 2 /\ n \in 0 .. 3
    BY <1>2 DEF m, n
<1> QED BY <1>3, <1>4

\* Act adds an action in its week, and a retry only unlinks some.
LEMMA TimedStep == AuditInv /\ ActionsTimed /\ [Next]_vars => ActionsTimed'
<1> SUFFICES ASSUME AuditInv, ActionsTimed, [Next]_vars PROVE ActionsTimed'
    OBVIOUS
<1> USE DEF AuditInv, Planning
<1>1. CASE Act
    <2>1. PICK new : new.week = Week(findings[Head(todo)].severity) /\ actions' = actions \cup {new}
        <3> DEFINE code == Head(todo)
                   a == [code |-> code, attempt |-> attempt, linked |-> TRUE,
                         week |-> Week(findings[code].severity), tier |-> Tier(findings[code])]
        <3>1. a.week = Week(findings[code].severity) /\ actions' = actions \cup {a}
            BY <1>1 DEF Act
        <3> QED BY <3>1
    <2>2. new.week \in 1 .. 8
        BY <2>1, WeekInPlan DEF IInv, TypeOK
    <2>3. IsFiniteSet(actions')
        BY <2>1, FS_AddElement DEF ActionsTimed
    <2> QED BY <2>1, <2>2, <2>3 DEF ActionsTimed
<1>2. CASE Claim
    <2>1. actions' = actions \/ actions' = {[a EXCEPT !.linked = FALSE] : a \in actions}
        BY <1>2 DEF Claim, Clear, plan
    <2> DEFINE B == {[a EXCEPT !.linked = FALSE] : a \in actions}
    <2>2. IsFiniteSet(B)
        <3> DEFINE unlinked == [a \in actions |-> [a EXCEPT !.linked = FALSE]]
        <3>1. B = {unlinked[a] : a \in actions} /\ DOMAIN unlinked = actions
            OBVIOUS
        <3> HIDE DEF B, unlinked
        <3> QED BY <3>1, ImageOf DEF ActionsTimed
    <2>3. \A a \in actions : [a EXCEPT !.linked = FALSE].week = a.week
        BY DEF IInv, ActionsAreRows
    <2> QED BY <2>1, <2>2, <2>3 DEF ActionsTimed
<1>3. CASE ~Act /\ ~Claim
    <2>1. actions' = actions
        BY <1>3 DEF Next, Crawl, Skip, Page, Observe, Collected, Evaluate, Find, Cite, Recommend, Review, Score, Fail, FailLater, plan, vars
    <2> QED BY <2>1 DEF ActionsTimed
<1> QED BY <1>1, <1>2, <1>3

\* Every step keeps what is known of an audit.
LEMMA AptInvStep == AptInv /\ [Next]_vars => AptInv'
BY ScoreStep, HitsFitStep, AptStep, TimedStep DEF AptInv, ScoreInv

\* So does the start.
LEMMA AptInit == Init => AptInv
BY ScoreInit, FS_EmptySet DEF AptInv, HitsFit, FindingsApt, ActionsTimed, PlanStands, Init, Writing

-----------------------------------------------------------------------------
(* What a package reads of the facts of a page.                            *)

\* The fields of two records in one.
LEMMA Merged ==
    ASSUME NEW f, NEW g
    PROVE  /\ DOMAIN (f ++ g) = DOMAIN f \cup DOMAIN g
           /\ \A x \in DOMAIN f : (f ++ g)[x] = f[x]
           /\ \A x \in DOMAIN g : x \notin DOMAIN f => (f ++ g)[x] = g[x]
BY DEF ++

\* A row of the package shows the row it was made of.
LEMMA RowShown ==
    ASSUME NEW p, PageFacts \subseteq DOMAIN p, NEW i,
           NEW q, q = [id |-> PageId(i), key |-> Key(p.url), wall |-> p.challenge] ++ (Facts(p) ++ p)
    PROVE  /\ q.id = PageId(i) /\ q.key = Key(p.url) /\ \A x \in Always : q[x] = p[x]
           /\ ~p.challenge => (\A x \in Open : q[x] = p[x]) /\ q.words = Most(0, p.words)
           /\ p.challenge => q.words = -1 /\ q.ms = -1 /\ q.chain = 0 /\ q.tracked \in BOOLEAN
<1> DEFINE h == [id |-> PageId(i), key |-> Key(p.url), wall |-> p.challenge]  g == Facts(p) ++ p
<1>1. Always \cup Open \cup {"words"} \subseteq DOMAIN p
    BY DEF Always, Open, PageFacts
<1>2. /\ DOMAIN g = DOMAIN Facts(p) \cup DOMAIN p
      /\ \A x \in DOMAIN Facts(p) : g[x] = Facts(p)[x]
      /\ \A x \in DOMAIN p : x \notin DOMAIN Facts(p) => g[x] = p[x]
    BY Merged
<1> HIDE DEF g
<1>0. q = h ++ g /\ DOMAIN h = {"id", "key", "wall"} /\ h["id"] = PageId(i) /\ h["key"] = Key(p.url)
    BY DEF g
<1> HIDE DEF h
<1>3. \A x \in DOMAIN g : x \notin {"id", "key", "wall"} => q[x] = g[x]
    <2>1. \A x \in DOMAIN g : x \notin DOMAIN h => (h ++ g)[x] = g[x]
        BY Merged
    <2> QED BY <1>0, <2>1
<1>4. q.id = PageId(i) /\ q.key = Key(p.url)
    <2>1. \A x \in DOMAIN h : (h ++ g)[x] = h[x]
        BY Merged
    <2> QED BY <1>0, <2>1
<1>5. Always \cap DOMAIN Facts(p) = {} /\ (~p.challenge => Facts(p) = [words |-> Most(0, p.words)]) /\ (p.challenge => Facts(p) = NoFacts)
    BY DEF Facts, NoFacts, Always
<1>6. \A x \in Always : x \in DOMAIN g /\ g[x] = p[x] /\ x \notin {"id", "key", "wall"}
    BY <1>1, <1>2, <1>5 DEF Always
<1>7. ~p.challenge => (\A x \in Open : x \in DOMAIN g /\ g[x] = p[x] /\ x \notin {"id", "key", "wall"})
                      /\ "words" \in DOMAIN g /\ g["words"] = Most(0, p.words)
    BY <1>1, <1>2, <1>5 DEF Open
<1>8. p.challenge => {"words", "ms", "chain", "tracked"} \subseteq DOMAIN g /\ g["words"] = -1 /\ g["ms"] = -1 /\ g["chain"] = 0 /\ g["tracked"] \in BOOLEAN
    <2>1. /\ DOMAIN NoFacts = {"words", "unlabelled", "bytes", "ms", "chain", "robots", "schema", "tracked"}
          /\ NoFacts.words = -1 /\ NoFacts.ms = -1 /\ NoFacts.chain = 0 /\ NoFacts.tracked \in BOOLEAN
        BY DEF NoFacts
    <2> SUFFICES ASSUME p.challenge
                 PROVE  /\ {"words", "ms", "chain", "tracked"} \subseteq DOMAIN g
                        /\ g["words"] = -1 /\ g["ms"] = -1 /\ g["chain"] = 0 /\ g["tracked"] \in BOOLEAN
        OBVIOUS
    <2>2. Facts(p) = NoFacts
        BY <1>5
    <2>3. \A x \in DOMAIN NoFacts : x \in DOMAIN g /\ g[x] = NoFacts[x]
        BY <1>2, <2>2
    <2> QED BY <2>1, <2>3
<1> QED BY <1>3, <1>4, <1>6, <1>7, <1>8

\* So do all of them, each row once at least.
LEMMA PagesShown ==
    ASSUME RowsTell, DOMAIN rows # {}
    PROVE  PagesShow(PageRows) /\ \A q \in Range(PageRows) : Sized(q)
<1> DEFINE D == DOMAIN rows
           before == {p \in D \X D : p[1] < p[2]}
           r == Ranked(D, before)
           Row(i, p) == [id |-> PageId(i), key |-> Key(p.url), wall |-> p.challenge] ++ (Facts(p) ++ p)
           n == Cardinality(D)
<1>1. IsFiniteSet(D)
    BY SiteAssumption, FS_Subset DEF RowsTell
<1>2. r \in [1 .. n -> D] /\ n \in Nat /\ \A x \in D : \E i \in 1 .. n : r[i] = x
    <2> HIDE DEF before, D
    <2> QED BY <1>1, RankedTakes
<1>3. PageRows = [i \in 1 .. n |-> Row(i, rows[r[i]])]
    <2>1. DOMAIN r = 1 .. n
        BY <1>2
    <2> QED BY <2>1 DEF PageRows, Sorted
<1> HIDE DEF r, n
<1>4. ASSUME NEW u \in D, NEW i PROVE ShowsRow(Row(i, rows[u]), u) /\ Sized(Row(i, rows[u]))
    <2> DEFINE p == rows[u]  q == Row(i, p)
    <2>1. Crawled(p) /\ p.url = u /\ p.challenge \in BOOLEAN /\ PageFacts \subseteq DOMAIN p
        BY DEF RowsTell, Crawled
    <2>2. /\ q.key = Key(p.url) /\ \A x \in Always : q[x] = p[x]
          /\ ~p.challenge => (\A x \in Open : q[x] = p[x]) /\ q.words = Most(0, p.words)
          /\ p.challenge => q.words = -1 /\ q.ms = -1 /\ q.chain = 0 /\ q.tracked \in BOOLEAN
        <3>1. q = [id |-> PageId(i), key |-> Key(p.url), wall |-> p.challenge] ++ (Facts(p) ++ p)
            OBVIOUS
        <3> HIDE DEF p, q
        <3> QED BY <2>1, <3>1, RowShown
    <2> HIDE DEF q, p
    <2>3. ShowsRow(q, u)
        BY <2>1, <2>2 DEF ShowsRow, Always, p
    <2>4. Sized(q)
        <3>1. q.status = p.status /\ q.title = p.title /\ q.meta = p.meta /\ q.h1s = p.h1s
            BY <2>2 DEF Always
        <3>2. ~p.challenge => q.chain = p.chain /\ q.ms = p.ms
            BY <2>2 DEF Open
        <3>3. Endless \in Nat
            BY SMT DEF Endless
        <3>4. {p.status, p.title.length, p.meta.length, p.h1s, p.chain} \subseteq Nat /\ {p.words, p.ms} \subseteq -1 .. Endless
            BY <2>1 DEF Crawled
        <3>5. q.words \in -1 .. Endless /\ q.ms \in -1 .. Endless /\ q.chain \in Nat
            <4>1. CASE p.challenge
                BY <2>2, <3>3, <4>1
            <4>2. CASE ~p.challenge
                BY <2>2, <3>2, <3>3, <3>4, <4>2 DEF Most
            <4> QED BY <2>1, <4>1, <4>2
        <3>6. q.tracked \in BOOLEAN
            <4>1. ~p.challenge => q.tracked = p.tracked
                BY <2>2 DEF Open
            <4>2. p.tracked \in BOOLEAN /\ p.challenge \in BOOLEAN
                BY <2>1 DEF Crawled
            <4>3. CASE p.challenge
                BY <2>2, <4>3
            <4>4. CASE ~p.challenge
                BY <4>1, <4>2, <4>4
            <4> QED BY <4>2, <4>3, <4>4
        <3> QED BY <3>1, <3>4, <3>5, <3>6 DEF Sized
    <2> QED BY <2>3, <2>4 DEF p, q
<1> HIDE DEF Row
<1>5. \A i \in 1 .. n : ShowsRow(PageRows[i], r[i]) /\ Sized(PageRows[i]) /\ r[i] \in D
    BY <1>2, <1>3, <1>4
<1>6. DOMAIN PageRows = 1 .. n
    BY <1>3
<1>7. \A q \in Range(PageRows) : \E i \in 1 .. n : q = PageRows[i]
    BY <1>6 DEF Range
<1>8. \A u \in D : \E q \in Range(PageRows) : ShowsRow(q, u)
    <2> SUFFICES ASSUME NEW u \in D PROVE \E q \in Range(PageRows) : ShowsRow(q, u)
        OBVIOUS
    <2>1. PICK i \in 1 .. n : r[i] = u
        BY <1>2
    <2>2. PageRows[i] \in Range(PageRows) /\ ShowsRow(PageRows[i], u)
        BY <1>5, <1>6, <2>1 DEF Range
    <2> QED BY <2>2
<1> QED BY <1>5, <1>7, <1>8 DEF PagesShow

\* What a rule says of a page that was read can be seen in the package.
LEMMA FaultShown ==
    ASSUME RowsTell, NEW pages, PagesShow(pages), NEW R, R = {rows[u] : u \in {u \in DOMAIN rows : ~rows[u].challenge}},
           NEW code, NEW q \in Range(pages), NEW p \in R, p.url = q.url, Faulty(code, p, R)
    PROVE  Faulty(code, q, Range(pages))
<1>1. \A r \in R : \E u \in DOMAIN rows : r = rows[u] /\ r.url = u /\ ~rows[u].challenge
    BY DEF RowsTell
<1>2. \A r \in R : \E t \in Range(pages) : t.url = r.url /\ t.hash = r.hash /\ t.title = r.title
    <2> TAKE r \in R
    <2>1. PICK u \in DOMAIN rows : r = rows[u] /\ r.url = u
        BY <1>1
    <2>2. PICK t \in Range(pages) : ShowsRow(t, u)
        BY DEF PagesShow
    <2> QED BY <2>1, <2>2 DEF ShowsRow, Always
<1>3. /\ q.url = p.url /\ q.status = p.status /\ q.title = p.title /\ q.meta = p.meta /\ q.h1s = p.h1s /\ q.canonical = p.canonical /\ q.hash = p.hash
      /\ q.unlabelled = p.unlabelled /\ q.robots = p.robots /\ q.chain = p.chain /\ q.schema = p.schema /\ q.tracked = p.tracked
      /\ q.words = Most(0, p.words)
    <2>1. PICK u \in DOMAIN rows : ShowsRow(q, u)
        BY DEF PagesShow
    <2>2. p = rows[u] /\ ~rows[u].challenge
        BY <1>1, <2>1 DEF ShowsRow
    <2> QED BY <2>1, <2>2 DEF ShowsRow, Always, Open
<1>4. p.words \in 0 .. 199 => q.words \in 0 .. 199
    BY <1>3 DEF Most
<1>5. (\E r \in R : r.url # p.url /\ r.hash = p.hash) => \E t \in Range(pages) : t.url # q.url /\ t.hash = q.hash
    BY <1>2, <1>3
<1>6. (\E r \in R : r.url # p.url /\ r.title = p.title) => \E t \in Range(pages) : t.url # q.url /\ t.title = q.title
    BY <1>2, <1>3
<1>7. (Blocked(p) => Blocked(q)) /\ (Empty(p.title) <=> Empty(q.title)) /\ (Empty(p.meta) <=> Empty(q.meta))
    BY <1>3 DEF Blocked, Empty
<1> QED BY <1>3, <1>4, <1>5, <1>6, <1>7 DEF Faulty

-----------------------------------------------------------------------------
(* What a build has read, in bounds and, if undisturbed, true.              *)

\* What is read of the audit stays within the bounds.
LEMMA BoundsRead == AptInv /\ Sourced /\ InBounds /\ (Build \/ Reading) => InBounds'
<1> SUFFICES ASSUME AptInv, Sourced, InBounds, Build \/ Reading PROVE InBounds'
    OBVIOUS
<1> USE DEF Evidenced, ToFindings, ToScores, ToActions
<1>1. CASE Build
    BY <1>1 DEF Build, Turn, InBounds, Later
<1>2. CASE ReadEvidence
    BY <1>2 DEF ReadEvidence, Turn, InBounds, Later
<1>0. DOMAIN book = DOMAIN Blank
    BY DEF Sourced
<1>3. CASE ReadPages
    <2>1. book'.pages = PageRows /\ step' = IF DOMAIN rows = {} THEN "raised" ELSE "sources"
        BY <1>0, <1>3 DEF ReadPages, Blank
    <2>2. DOMAIN rows # {} => \A q \in Range(PageRows) : Sized(q)
        BY PagesShown DEF AptInv, ScoreInv, AuditInv
    <2> QED BY <2>1, <2>2 DEF InBounds, Later
<1>4. CASE ReadSources
    <2>1. book'.pages = book.pages
        BY <1>0, <1>4 DEF ReadSources, Blank
    <2> QED BY <1>4, <2>1 DEF ReadSources, Turn, InBounds, Later
<1>5. CASE ReadFindings
    <2>1. book'.pages = book.pages /\ step = "findings" /\ step' = "scorecard"
        BY <1>0, <1>5 DEF ReadFindings, Turn, Blank
    <2> QED BY <2>1 DEF InBounds, Later
<1>6. CASE ReadScorecard
    <2>1. /\ step = "scorecard" /\ step' = "actions" /\ book'.pages = book.pages
          /\ book'.categories = [c \in DOMAIN Weights(book.profile) |-> CategoryRow(book, c)]
        BY <1>0, <1>6 DEF ReadScorecard, Turn, Blank
    <2>2. \A c : CategoryRow(book, c).published => Coverage[c] >= 70
        BY DEF CategoryRow
    <2>3. \A c \in DOMAIN book'.categories : Graver(book, c)'
        BY <2>1, <2>2 DEF Graver
    <2> QED BY <2>1, <2>3 DEF InBounds, Later
<1>7. CASE ReadActions
    <2> DEFINE row == [a \in actions |-> ActionRow(book, a)]
               B == {ActionRow(book, a) : a \in actions}
    <2>1. /\ step = "actions" /\ step' = "integrity" /\ book'.pages = book.pages /\ book'.categories = book.categories
          /\ book'.actions = B
        BY <1>0, <1>7 DEF ReadActions, Turn, Blank
    <2>2. IsFiniteSet(B)
        <3>1. B = {row[a] : a \in actions} /\ DOMAIN row = actions
            OBVIOUS
        <3> HIDE DEF B, row
        <3> QED BY <3>1, ImageOf DEF AptInv, ActionsTimed
    <2>3. \A a \in actions : Timed(ActionRow(book, a))
        BY DEF AptInv, ActionsTimed, Timed, ActionRow
    <2>4. \A a \in B : Timed(a)
        BY <2>3
    <2> HIDE DEF B
    <2> QED BY <2>1, <2>2, <2>4 DEF InBounds, Later, Graver
<1>8. CASE ReadIntegrity
    <2>1. step = "integrity" /\ step' = "compiled" /\ book'.pages = book.pages /\ book'.categories = book.categories /\ book'.actions = book.actions
        BY <1>0, <1>8 DEF ReadIntegrity, Turn, Blank
    <2> QED BY <2>1 DEF InBounds, Later, Graver
<1> QED BY <1>1, <1>2, <1>3, <1>4, <1>5, <1>6, <1>7, <1>8 DEF Reading

\* What a finding of faulty pages cites is those pages.
LEMMA CitesFaulty ==
    ASSUME RowsTell, NEW b, PagesGood(b.pages), PagesShow(b.pages),
           NEW R, R = {rows[u] : u \in {u \in DOMAIN rows : ~rows[u].challenge}},
           NEW code, NEW f, \A u \in {f.page} \cup f.evidence : \E p \in R : p.url = u /\ Faulty(code, p, R),
           NEW q \in Range(b.pages), q.id \in Cited(b, f)
    PROVE  Faulty(code, q, Range(b.pages))
<1> DEFINE pages == b.pages
           shown == Display(b.marks, pages)
           linked == {shown[Key(u)] : u \in {u \in f.evidence : Key(u) \in DOMAIN shown}}
           own == {PageId(i) : i \in {i \in DOMAIN pages : pages[i].key = Key(f.page)}}
<1>1. \A i, j \in DOMAIN pages : PageId(i) = PageId(j) => i = j
    BY DEF PageId
<1>2. \A i \in DOMAIN pages : pages[i].id = PageId(i) /\ pages[i] \in Range(pages)
    BY DEF PagesGood, Range
<1>3. \A r \in Range(pages) : r.key = Key(r.url)
    BY DEF PagesShow, ShowsRow
<1>4. \A u, v : Key(u) = Key(v) => u = v
    BY DEF Key
<1>5. PICK j \in DOMAIN pages : pages[j] = q
    BY DEF Range
<1>6. \A i \in DOMAIN pages : PageId(i) = q.id => pages[i] = q
    BY <1>1, <1>2, <1>5
<1>7. \A id \in linked : \E u \in f.evidence, i \in DOMAIN pages : id = PageId(i) /\ pages[i].key = Key(u)
    <2> TAKE id \in linked
    <2>1. PICK u \in f.evidence : Key(u) \in DOMAIN shown /\ id = shown[Key(u)]
        OBVIOUS
    <2>2. \E i \in DOMAIN pages : pages[i].key = Key(u)
        BY <2>1 DEF Display
    <2>3. shown[Key(u)] = PageId(CHOOSE i \in DOMAIN pages : pages[i].key = Key(u))
        BY <2>1 DEF Display
    <2> QED BY <2>1, <2>2, <2>3
<1>8. own # {}
    <2>1. PICK p \in R : p.url = f.page
        OBVIOUS
    <2>2. PICK u \in DOMAIN rows : p = rows[u] /\ p.url = u
        BY DEF RowsTell
    <2>3. PICK t \in Range(pages) : ShowsRow(t, u)
        BY DEF PagesShow
    <2>4. t.key = Key(f.page)
        BY <2>1, <2>2, <2>3 DEF ShowsRow
    <2>5. PICK i \in DOMAIN pages : pages[i] = t
        BY DEF Range
    <2> QED BY <2>4, <2>5
<1>9. Cited(b, f) = IF linked # {} THEN linked ELSE own
    BY <1>8 DEF Cited
<1> HIDE DEF linked
<1>10. \E u \in {f.page} \cup f.evidence : q.key = Key(u)
    <2>1. CASE q.id \in linked
        <3>1. PICK u \in f.evidence, i \in DOMAIN pages : q.id = PageId(i) /\ pages[i].key = Key(u)
            BY <1>7, <2>1
        <3> QED BY <1>6, <3>1
    <2>2. CASE q.id \in own
        <3>1. PICK i \in DOMAIN pages : q.id = PageId(i) /\ pages[i].key = Key(f.page)
            BY <2>2
        <3> QED BY <1>6, <3>1
    <2> QED BY <1>9, <2>1, <2>2
<1>11. q.url \in {f.page} \cup f.evidence
    BY <1>3, <1>4, <1>10
<1>12. PICK p \in R : p.url = q.url /\ Faulty(code, p, R)
    BY <1>11
<1> HIDE DEF own, shown
<1> QED BY <1>12, FaultShown

\* What is read of an audit that is over is true of it.
LEMMA TruthRead ==
    ASSUME MatchInv, AptInv, Truthful, Build \/ Reading, UNCHANGED vars
    PROVE  Truthful'
<1> USE DEF Evidenced, ToFindings, ToScores, ToActions
<1>1. /\ findings' = findings /\ rows' = rows /\ seen' = seen /\ quarantined' = quarantined
      /\ profile' = profile /\ attempt' = attempt /\ pc' = pc /\ state' = state /\ actions' = actions
    BY DEF vars
<1>2. Read' = Read
    BY <1>1 DEF Read
<1>3. AllApt => AllApt'
    BY <1>1, <1>2 DEF AllApt, Apt, Pointing, LinkedActions
<1>4. PagesShow(book.pages) /\ book'.pages = book.pages => PagesShow(book.pages)'
    <2>1. \A q, u : ShowsRow(q, u)' <=> ShowsRow(q, u)
        BY <1>1 DEF ShowsRow, Key
    <2> QED BY <1>1, <2>1 DEF PagesShow
<1>5. CASE Build
    <2>1. state = "GATE_1_REVIEW" /\ step' = "evidence" /\ book'.calm = (pc = "idle")
        BY <1>5 DEF Build, Turn, Blank
    <2>2. Undisturbed' => pc = "idle"
        BY <2>1 DEF Undisturbed
    <2>3. pc = "idle" => AllApt
        <3>1. pc = "idle" => \A code \in DOMAIN findings : Apt(code)
            BY <2>1 DEF AptInv, FindingsApt, PlanStands
        <3>2. \A a \in LinkedActions : a.code \in DOMAIN findings
            BY <2>1 DEF AptInv, ScoreInv, AuditInv, Planning, IInv, PlanKeepsUp
        <3> QED BY <3>1, <3>2 DEF AllApt
    <2> QED BY <1>3, <2>1, <2>2, <2>3 DEF Truthful, Later
<1> SUFFICES ASSUME Reading PROVE Truthful'
    BY <1>5
<1>6. DOMAIN book = DOMAIN Blank /\ Booked
    BY DEF MatchInv, Sourced
<1>7. book'.attempt = book.attempt /\ book'.calm = book.calm /\ book'.profile = book.profile /\ step \notin {"off", "raised"}
    BY <1>6 DEF Reading, ReadEvidence, ReadPages, ReadSources, ReadFindings, ReadScorecard, ReadActions, ReadIntegrity, Turn, Blank
<1> SUFFICES ASSUME Undisturbed, Undisturbed' PROVE Truthful'
    BY <1>1, <1>7 DEF Truthful, Undisturbed
<1>8. AllApt /\ AllApt'
    BY <1>3 DEF Truthful
<1>9. /\ Later(Evidenced) => PagesShow(book.pages)
      /\ Later(ToFindings) => Faults(book)
      /\ Later(ToActions) => Fits(book)
    BY DEF Truthful
<1>10. RowsTell /\ book.profile = profile /\ Read = {rows[u] : u \in {u \in DOMAIN rows : ~rows[u].challenge}}
    BY DEF MatchInv, ScoreInv, AuditInv, Matches, ScoresMade
<1>11. CASE ReadEvidence
    BY <1>8, <1>11 DEF ReadEvidence, Turn, Truthful, Later
<1>12. CASE ReadPages
    <2>1. book'.pages = PageRows /\ step = "pages" /\ step' = IF DOMAIN rows = {} THEN "raised" ELSE "sources"
        BY <1>6, <1>12 DEF ReadPages, Blank
    <2>2. DOMAIN rows # {} /\ step' = "sources"
        BY <2>1 DEF Undisturbed
    <2>3. PagesShow(PageRows)
        BY <1>10, <2>2, PagesShown
    <2>4. PagesShow(book.pages)'
        <3>1. \A q, u : ShowsRow(q, u)' <=> ShowsRow(q, u)
            BY <1>1 DEF ShowsRow, Key
        <3> QED BY <1>1, <2>1, <2>3, <3>1 DEF PagesShow
    <2> QED BY <1>8, <2>2, <2>4 DEF Truthful, Later
<1>13. CASE ReadSources
    <2>1. book'.pages = book.pages /\ step = "sources" /\ step' = "findings"
        BY <1>6, <1>13 DEF ReadSources, Turn, Blank
    <2> QED BY <1>4, <1>8, <1>9, <2>1 DEF Truthful, Later
<1>14. CASE ReadFindings
    <2> DEFINE D == DOMAIN findings
               row == [code \in D |-> FindingRow(book, code)]
               F == {FindingRow(book, code) : code \in D}
               before == {p \in F \X F : Before(p[1], p[2])}
    <2>1. step = "findings" /\ step' = "scorecard" /\ book'.findings = Ranked(F, before) /\ book'.pages = book.pages
        BY <1>6, <1>14 DEF ReadFindings, Turn, Sorted, Blank
    <2>2. IsFiniteSet(F)
        <3>1. IsFiniteSet(D) /\ DOMAIN row = D /\ F = {row[x] : x \in D}
            BY <1>10 DEF RowsTell
        <3> HIDE DEF D, row, F
        <3> QED BY <3>1, ImageOf
    <2>3. PagesGood(book.pages) /\ PagesShow(book.pages)
        BY <1>6, <1>9, <2>1 DEF Booked, Later
    <2>4. ASSUME NEW code \in D, NEW q \in Range(book.pages), q.id \in FindingRow(book, code).evidence
          PROVE  Faulty(code, q, Range(book.pages))
        <3>1. FindingRow(book, code).evidence = Cited(book, findings[code])
            BY DEF FindingRow
        <3>2. CASE code = "technical.crawl_degraded"
            <4>1. code \in Unsheeted
                BY <3>2 DEF Unsheeted
            <4> HIDE DEF F, before, row
            <4> QED BY <4>1, NoFault
        <3>3. CASE code # "technical.crawl_degraded"
            <4>1. \A u \in {findings[code].page} \cup findings[code].evidence : \E p \in Read : p.url = u /\ Faulty(code, p, Read)
                BY <1>8, <3>3 DEF AllApt, Apt, Pointing
            <4>2. q.id \in Cited(book, findings[code])
                BY <2>4, <3>1
            <4> HIDE DEF F, before, row, D
            <4> QED BY <1>10, <2>3, <4>1, <4>2, CitesFaulty
        <3> QED BY <3>2, <3>3
    <2>5. \A f \in F : f.code \in D /\ f.evidence = FindingRow(book, f.code).evidence
        BY DEF FindingRow
    <2>6. \A f \in F, q \in Range(book.pages) : q.id \in f.evidence => Faulty(f.code, q, Range(book.pages))
        BY <2>4, <2>5
    <2> HIDE DEF F, before, row
    <2>7. Range(book'.findings) = F
        BY <2>1, <2>2, SortedSet
    <2>8. Faults(book')
        BY <2>1, <2>6, <2>7 DEF Faults
    <2> QED BY <1>4, <1>8, <2>1, <2>3, <2>8 DEF Truthful, Later
<1>15. CASE ReadActions
    <2>1. /\ step = "actions" /\ step' = "integrity" /\ book'.pages = book.pages /\ book'.findings = book.findings
          /\ book'.actions = {ActionRow(book, a) : a \in actions}
        BY <1>6, <1>15 DEF ReadActions, Turn, Blank
    <2>2. ASSUME NEW a \in actions, ActionRow(book, a).rule = "ecommerce.product_schema_missing"
          PROVE  profile \in {"ecommerce", "hybrid"}
        <3>1. a.linked /\ a.code = "ecommerce.product_schema_missing"
            BY <2>2 DEF ActionRow
        <3>2. a.code \in DOMAIN findings
            BY <1>8, <3>1 DEF AllApt, LinkedActions
        <3> QED BY <1>8, <3>1, <3>2 DEF AllApt, Apt
    <2>3. Fits(book')
        BY <1>7, <1>10, <2>1, <2>2 DEF Fits
    <2>4. Faults(book')
        BY <1>9, <2>1 DEF Faults, Later
    <2> QED BY <1>4, <1>8, <1>9, <2>1, <2>3, <2>4 DEF Truthful, Later
<1>16. CASE ReadScorecard
    <2>1. step = "scorecard" /\ step' = "actions" /\ book'.pages = book.pages /\ book'.findings = book.findings
        BY <1>6, <1>16 DEF ReadScorecard, Turn, Blank
    <2>2. Faults(book')
        BY <1>9, <2>1 DEF Faults, Later
    <2> QED BY <1>4, <1>8, <1>9, <2>1, <2>2 DEF Truthful, Later
<1>17. CASE ReadIntegrity
    <2>1. /\ step = "integrity" /\ step' = "compiled" /\ book'.pages = book.pages /\ book'.findings = book.findings
          /\ book'.actions = book.actions
        BY <1>6, <1>17 DEF ReadIntegrity, Turn, Blank
    <2>2. Faults(book')
        BY <1>9, <2>1 DEF Faults, Later
    <2>3. Fits(book')
        BY <1>7, <1>9, <2>1 DEF Fits, Later
    <2> QED BY <1>4, <1>8, <1>9, <2>1, <2>2, <2>3 DEF Truthful, Later
<1> QED BY <1>11, <1>12, <1>13, <1>14, <1>15, <1>16, <1>17 DEF Reading

-----------------------------------------------------------------------------
(* What the files need of the content.                                     *)

\* A keyword has one of four stages.
LEMMA StagesKnown == ASSUME NEW S, NEW urls PROVE \A k \in Range(KeywordRows(S, urls)) : k.stage \in Stages
<1>1. \A phrase : FunnelStage(phrase) \in Stages
    BY DEF FunnelStage, Stages
<1> DEFINE sorted == Sorted(S, Sooner)
<1>2. \A i \in DOMAIN sorted : KeywordRows(S, urls)[i].stage = FunnelStage(sorted[i].phrase)
    BY DEF KeywordRows
<1>3. DOMAIN KeywordRows(S, urls) = DOMAIN sorted
    BY DEF KeywordRows
<1> HIDE DEF sorted
<1> QED BY <1>1, <1>2, <1>3 DEF Range

\* A set of whole numbers up to a hundred has a largest one.
LEMMA Largest ==
    ASSUME NEW S \in SUBSET (-1 .. 100), S # {}
    PROVE  (CHOOSE s \in S : \A t \in S : s >= t) \in S
<1>1. \E s \in S : \A t \in S : s >= t
    <2> DEFINE T == {100 - s : s \in S}
    <2>0. \A s \in S : s \in -1 .. 100 /\ 100 - s \in Nat
        OBVIOUS
    <2>1. T \subseteq Nat /\ T # {}
        BY <2>0
    <2>2. PICK m \in T : \A n \in T : m <= n
        BY <2>1, LeastNumber
    <2>3. PICK s \in S : m = 100 - s
        OBVIOUS
    <2>4. \A t \in S : 100 - s <= 100 - t
        BY <2>2, <2>3
    <2>5. \A t \in S : s >= t
        BY <2>4
    <2> QED BY <2>5
<1> QED BY <1>1

\* A referring domain has the best score of its links.
LEMMA ScoresBounded ==
    ASSUME NEW m \in Markets
    PROVE  LET B == BacklinkRows(m.backlinks) IN B \in Seq(Range(B)) /\ \A r \in Range(B) : r.score \in -1 .. 100
<1> DEFINE records == m.backlinks
           domains == {r.domain : r \in Range(records)}
           Of(d) == Where(records, LAMBDA r : r.domain = d)
           Row(d) == [domain |-> d, links |-> Len(Of(d)),
                      score |-> LET S == {r.score : r \in Range(Of(d))} IN CHOOSE s \in S : \A t \in S : s >= t]
           row == [d \in domains |-> Row(d)]
           More(c, d) == row[c].links > row[d].links \/ (row[c].links = row[d].links /\ c < d)
           before == {p \in domains \X domains : More(p[1], p[2])}
           order == Ranked(domains, before)
           B == BacklinkRows(records)
<1>1. records \in Seq(Range(records)) /\ \A r \in Range(records) : r.score \in -1 .. 100
    BY ContentsAssumption
<1>2. IsFiniteSet(domains)
    <2> DEFINE at == [r \in Range(records) |-> r.domain]
    <2>1. IsFiniteSet(Range(records))
        BY <1>1, RangeOf
    <2>2. DOMAIN at = Range(records) /\ domains = {at[r] : r \in Range(records)}
        OBVIOUS
    <2> HIDE DEF at, domains
    <2> QED BY <2>1, <2>2, ImageOf
<1>3. ASSUME NEW d \in domains PROVE Row(d).score \in -1 .. 100
    <2> DEFINE places == {i \in DOMAIN records : records[i].domain = d}
               S == {r.score : r \in Range(Of(d))}
    <2>1. Of(d) = Only(records, places)
        BY DEF Where
    <2>2. /\ \A x \in Range(Of(d)) : \E i \in places : records[i] = x
          /\ \A i \in places : records[i] \in Range(Of(d))
        <3> HIDE DEF Of
        <3> QED BY <1>1, <2>1, OnlyRange
    <2> HIDE DEF Of
    <2>3. \A x \in Range(Of(d)) : x \in Range(records)
        BY <2>2 DEF Range
    <2>4. places # {}
        BY DEF Range
    <2>5. S \in SUBSET (-1 .. 100) /\ S # {}
        <3>1. \A x \in Range(Of(d)) : x.score \in -1 .. 100
            BY <1>1, <2>3
        <3>2. PICK x \in Range(Of(d)) : TRUE
            BY <2>2, <2>4
        <3>3. x.score \in S
            OBVIOUS
        <3> QED BY <3>1, <3>3
    <2>6. Row(d).score = CHOOSE s \in S : \A t \in S : s >= t
        OBVIOUS
    <2> HIDE DEF S, Row
    <2> QED BY <2>5, <2>6, Largest
<1>4. order \in Seq(domains)
    <2> HIDE DEF before, domains
    <2> QED BY <1>2, SortedSet
<1>5. B = [i \in DOMAIN order |-> row[order[i]] ++ [evidence |-> <<"backlink", i>>]]
    BY DEF BacklinkRows, Sorted
<1> HIDE DEF order
<1>6. ASSUME NEW i \in DOMAIN order PROVE B[i].score \in -1 .. 100
    <2> DEFINE h == Row(order[i])  g == [evidence |-> <<"backlink", i>>]
    <2>1. order[i] \in domains
        BY <1>4
    <2>2. B[i] = h ++ g
        BY <1>5, <2>1
    <2>3. "score" \in DOMAIN h
        OBVIOUS
    <2> HIDE DEF g
    <2>5. h.score \in -1 .. 100
        BY <1>3, <2>1
    <2> HIDE DEF h, B
    <2>4. \A x \in DOMAIN h : (h ++ g)[x] = h[x]
        BY Merged
    <2> QED BY <2>2, <2>3, <2>4, <2>5
<1>7. DOMAIN B = DOMAIN order /\ DOMAIN order = 1 .. Len(order) /\ Len(order) \in Nat
    BY <1>4, <1>5
<1>8. B = [i \in 1 .. Len(order) |-> B[i]]
    BY <1>5, <1>7
<1> HIDE DEF B, row
<1>9. B \in Seq(Range(B))
    <2>1. \A i \in 1 .. Len(order) : B[i] \in Range(B)
        BY <1>7 DEF Range
    <2>2. B \in [1 .. Len(order) -> Range(B)]
        BY <1>8, <2>1
    <2> QED BY <1>7, <2>2
<1>10. \A r \in Range(B) : r.score \in -1 .. 100
    BY <1>6, <1>7 DEF Range
<1> QED BY <1>9, <1>10 DEF B

\* The market is compiled for an undisturbed build, and the rest of the content leaves it alone.
LEMMA FurnishedStep ==
    ASSUME MatchInv, Contained, Furnished, Compiling, UNCHANGED <<vars, book>>
    PROVE  Furnished'
<1>1. book' = book /\ attempt' = attempt
    BY DEF vars
<1>2. Undisturbed /\ step' \in ContentSteps => Undisturbed'
    BY <1>1 DEF Undisturbed, ContentSteps
<1>3. DOMAIN content = DOMAIN Unwritten
    BY DEF Contained
<1>4. CASE CompileMarket
    <2>0. PICK m \in Markets, s \in Settings :
              LET keywords == KeywordRows(m.keywords, {p.url : p \in Range(book.pages)})
                  Row(seed, n) == ClusterRow(seed, n, BestPage(seed.tokens, book.pages))
                  seeds == Seeds(keywords)
                  competitors == CompetitorRows(m.competitors)
              IN  content' = [Unwritten EXCEPT
                      !.setting = [s EXCEPT !.on = s.on /\ Keyed], !.budget = Most(0, s.calls - 1),
                      !.keywords = keywords, !.clusters = [n \in DOMAIN seeds |-> Row(seeds[n], n)],
                      !.competitors = competitors, !.backlinks = BacklinkRows(m.backlinks),
                      !.domain = m.domain, !.benchmark = Benchmark(m.domain, competitors), !.status = MarketStatus(m)]
        BY <1>4 DEF CompileMarket
    <2> DEFINE urls == {p.url : p \in Range(book.pages)}
    <2>1. content'.keywords = KeywordRows(m.keywords, urls) /\ content'.backlinks = BacklinkRows(m.backlinks)
        BY <2>0 DEF Unwritten
    <2> HIDE DEF urls
    <2>2. Marketed(content')
        <3>1. \A k \in Range(content'.keywords) : k.stage \in Stages
            BY <2>1, StagesKnown
        <3>2. LET B == content'.backlinks IN B \in Seq(Range(B)) /\ \A r \in Range(B) : r.score \in -1 .. 100
            BY <2>1, ScoresBounded
        <3> QED BY <3>1, <3>2 DEF Marketed
    <2>3. step = "compiled" /\ step' = "proposals" /\ Undisturbed
        BY <1>4 DEF CompileMarket, Turn, Undisturbed
    <2> QED BY <1>2, <2>2, <2>3 DEF Furnished, ContentSteps
<1>5. CASE ~CompileMarket
    <2>1. step \in ContentSteps /\ Undisturbed /\ Marketed(content) /\ step' \in ContentSteps
        BY <1>5 DEF Furnished, Compiling, CompileProposals, CompileOutlines, CompileAssets, Enrich, Turn, ContentSteps
    <2>2. content'.keywords = content.keywords /\ content'.backlinks = content.backlinks
        <3>1. CASE CompileProposals
            <4>1. \/ content' = content
                  \/ \E l, p : content' = [content EXCEPT !.proposals = p, !.ledger = l]
                  \/ \E answer, p : content' = [Called(content, answer) EXCEPT !.proposals = p]
                BY <3>1 DEF CompileProposals
            <4> QED BY <1>3, <4>1 DEF Unwritten, Called
        <3>2. CASE CompileOutlines \/ Enrich
            <4>1. \/ content' = content
                  \/ \E l : content' = [content EXCEPT !.ledger = l]
                  \/ \E answer, o : content' = [Called(content, answer) EXCEPT !.outlines = o]
                  \/ \E answer : content' = [Called(content, answer) EXCEPT !.budget = content.budget]
                BY <3>2 DEF CompileOutlines, Enrich
            <4> QED BY <1>3, <4>1 DEF Unwritten, Called
        <3>3. CASE CompileAssets
            BY <1>3, <3>3 DEF CompileAssets, Unwritten
        <3> QED BY <1>5, <3>1, <3>2, <3>3 DEF Compiling
    <2>3. Marketed(content')
        BY <2>1, <2>2 DEF Marketed
    <2>4. CASE CompileAssets
        <3>1. /\ content'.redirects = Redirects(book.pages) /\ content'.canonicals = Canonicals(book.pages)
              /\ content'.assets = Assets(book.pages, content)
            BY <1>3, <2>4 DEF CompileAssets, Unwritten
        <3>2. \A n \in DOMAIN Assets(book.pages, content) : Assets(book.pages, content)[n].n = n
            BY DEF Assets, AssetRow
        <3>3. ListsMade(book.pages, content')
            BY <3>1, <3>2 DEF ListsMade
        <3> QED BY <1>1, <1>2, <2>1, <2>3, <3>3 DEF Furnished
    <2>5. CASE Enrich
        <3>1. content'.redirects = content.redirects /\ content'.canonicals = content.canonicals /\ content'.assets = content.assets
            <4>1. \/ \E l : content' = [content EXCEPT !.ledger = l]
                  \/ \E answer : content' = [Called(content, answer) EXCEPT !.budget = content.budget]
                BY <2>5 DEF Enrich
            <4> QED BY <1>3, <4>1 DEF Unwritten, Called
        <3>2. ListsMade(book.pages, content)
            BY <2>1, <2>5 DEF Enrich, Turn, Furnished
        <3>3. ListsMade(book.pages, content')
            BY <3>1, <3>2 DEF ListsMade
        <3> QED BY <1>1, <1>2, <2>1, <2>3, <3>3 DEF Furnished
    <2>6. CASE CompileProposals \/ CompileOutlines
        <3>1. step' \in {"outlines", "assets"}
            BY <2>6 DEF CompileProposals, CompileOutlines, Turn
        <3> QED BY <1>1, <1>2, <2>1, <2>3, <3>1 DEF Furnished
    <2> QED BY <1>5, <2>4, <2>5, <2>6 DEF Compiling
<1> QED BY <1>4, <1>5

-----------------------------------------------------------------------------
(* All that the files need.                                                *)

\* Every step of the compilation keeps what is known of the audit, the book and the content.
LEMMA WholeStep == WholeInv /\ [NextContents]_cvars => WholeInv'
<1> SUFFICES ASSUME WholeInv, [NextContents]_cvars PROVE WholeInv'
    OBVIOUS
<1> USE DEF WholeInv
<1>1. MatchInv' /\ Contained'
    <2>1. PackageInv
        BY DEF PackageInv, RowsInv, MatchInv, ScoreInv
    <2> QED BY <2>1, MatchStep, PackageStep DEF PackageInv
<1>2. AptInv'
    <2>1. [Next]_vars
        BY DEF NextContents, NextRows, cvars
    <2> QED BY <2>1, AptInvStep
<1>3. CASE NextRows /\ UNCHANGED content
    <2>1. step' \notin ContentSteps
        BY <1>3, RowsBefore
    <2>2. Furnished'
        BY <2>1 DEF Furnished
    <2>3. CASE Next /\ UNCHANGED pvars
        <3>1. step' = step /\ book' = book
            BY <2>3 DEF pvars
        <3>2. InBounds'
            BY <3>1 DEF InBounds, Later, Graver
        <3>3. Truthful'
            <4>1. attempt \in Nat
                BY SiteAuditAssumption DEF MatchInv, ScoreInv, AuditInv, Planning, IInv, TypeOK
            <4>2. (Claim /\ attempt' = attempt + 1) \/ (~Claim /\ attempt' = attempt)
                BY <2>3 DEF Next, Claim, Crawl, Skip, Page, Observe, Collected, Evaluate, Find, Cite, Recommend, Act, Review, Score, Fail, FailLater
            <4>3. Undisturbed' => Undisturbed /\ ~Claim
                BY <3>1, <4>1, <4>2 DEF Undisturbed, Begun, MatchInv
            <4> SUFFICES ASSUME Undisturbed, ~Claim PROVE Truthful'
                BY <4>3 DEF Truthful
            <4>4. pc = "idle"
                BY DEF MatchInv, Matches
            <4>5. FailLater
                BY <2>3, <4>4 DEF Next, Crawl, Skip, Page, Observe, Collected, Evaluate, Find, Cite, Recommend, Act, Review, Score, Fail
            <4>6. /\ findings' = findings /\ rows' = rows /\ seen' = seen /\ quarantined' = quarantined /\ profile' = profile
                  /\ actions' = actions /\ attempt' = attempt
                BY <4>5 DEF FailLater, memory, plan
            <4>7. Read' = Read
                BY <4>6 DEF Read
            <4>8. AllApt => AllApt'
                BY <4>6, <4>7 DEF AllApt, Apt, Pointing, LinkedActions
            <4>9. PagesShow(book.pages) => PagesShow(book.pages)'
                <5>1. \A q, u : ShowsRow(q, u)' <=> ShowsRow(q, u)
                    BY <4>6 DEF ShowsRow, Key
                <5> QED BY <3>1, <4>6, <5>1 DEF PagesShow
            <4>10. (Faults(book) => Faults(book)') /\ (Fits(book) => Fits(book)')
                BY <3>1 DEF Faults, Fits
            <4> QED BY <3>1, <4>8, <4>9, <4>10 DEF Truthful, Later
        <3> QED BY <1>1, <1>2, <2>2, <3>2, <3>3
    <2>4. CASE (Build \/ Reading) /\ UNCHANGED vars
        <3>1. InBounds'
            BY <2>4, BoundsRead DEF MatchInv
        <3>2. Truthful'
            BY <2>4, TruthRead
        <3> QED BY <1>1, <1>2, <2>2, <3>1, <3>2
    <2> QED BY <1>3, <2>3, <2>4 DEF NextRows
<1>4. ASSUME UNCHANGED <<vars, book>>, (step \in {"compiled"} \cup ContentSteps /\ step' \in ContentSteps) \/ step' = step
      PROVE  InBounds' /\ Truthful'
    <2>1. /\ findings' = findings /\ rows' = rows /\ seen' = seen /\ quarantined' = quarantined /\ profile' = profile
          /\ actions' = actions /\ attempt' = attempt /\ book' = book
        BY <1>4 DEF vars
    <2>2. Undisturbed' => Undisturbed
        BY <1>4, <2>1 DEF Undisturbed, ContentSteps
    <2>3. \A steps \in {Evidenced, ToFindings, ToScores, ToActions} : Later(steps)' => Later(steps)
        BY <1>4 DEF Later, ContentSteps, Evidenced, ToFindings, ToScores, ToActions
    <2>4. InBounds'
        BY <2>1, <2>3 DEF InBounds, Graver
    <2>5. AllApt => AllApt'
        <3>1. Read' = Read
            BY <2>1 DEF Read
        <3> QED BY <2>1, <3>1 DEF AllApt, Apt, Pointing, LinkedActions
    <2>6. PagesShow(book.pages) => PagesShow(book.pages)'
        <3>1. \A q, u : ShowsRow(q, u)' <=> ShowsRow(q, u)
            BY <2>1 DEF ShowsRow, Key
        <3> QED BY <2>1, <3>1 DEF PagesShow
    <2>7. (Faults(book) => Faults(book)') /\ (Fits(book) => Fits(book)')
        BY <2>1 DEF Faults, Fits
    <2> QED BY <2>2, <2>3, <2>4, <2>5, <2>6, <2>7 DEF Truthful
<1>5. CASE Compiling /\ UNCHANGED <<vars, book>>
    <2>1. step \in {"compiled"} \cup ContentSteps /\ step' \in ContentSteps
        BY <1>5 DEF Compiling, CompileMarket, CompileProposals, CompileOutlines, CompileAssets, Enrich, Turn, ContentSteps
    <2> QED BY <1>1, <1>2, <1>4, <1>5, <2>1, FurnishedStep
<1>6. CASE UNCHANGED cvars
    <2>1. UNCHANGED <<vars, book>> /\ step' = step /\ content' = content /\ book' = book
        BY <1>6 DEF cvars, pvars
    <2>2. attempt' = attempt
        BY <2>1 DEF vars
    <2>3. Furnished'
        BY <2>1, <2>2 DEF Furnished, Undisturbed
    <2> QED BY <1>1, <1>2, <1>4, <2>1, <2>3
<1> QED BY <1>3, <1>5, <1>6 DEF NextContents

\* So does the start.
LEMMA WholeInit == InitContents => WholeInv
<1> SUFFICES ASSUME InitContents PROVE WholeInv
    OBVIOUS
<1>1. Init /\ step = "off" /\ book = Blank /\ content = Unwritten
    BY DEF InitContents, InitRows
<1>2. ScoreInv /\ Sourced /\ AptInv
    BY <1>1, ScoreInit, RowsInvInit, AptInit DEF RowsInv, InitRows
<1>3. book.attempt = 0 /\ attempt = 0
    BY <1>1 DEF Blank, Init
<1>4. MatchInv
    BY <1>1, <1>2, <1>3 DEF MatchInv, Begun, Matches, Undisturbed
<1> QED BY <1>1, <1>2, <1>4 DEF WholeInv, InBounds, Truthful, Contained, Furnished, Later, Undisturbed, ContentSteps

-----------------------------------------------------------------------------
(* Files.                                                                  *)

\* A folder has finitely many of these names.
LEMMA StemsFinite == ASSUME NEW S \in SUBSET Range(Stems) PROVE IsFiniteSet(S)
<1>1. Stems \in Seq(Range(Stems))
    BY DEF Stems, Range
<1>2. IsFiniteSet(Range(Stems))
    <2> HIDE DEF Stems
    <2> QED BY <1>1, RangeOf
<1> QED BY <1>2, FS_Subset

\* A folder has a file for every name, and nothing else.
LEMMA FolderHas ==
    ASSUME NEW name, NEW suffix, NEW shows
    PROVE  /\ Has(Folder(name, suffix, shows), name, suffix, shows)
           /\ DOMAIN Folder(name, suffix, shows) = {<<name, stem, suffix>> : stem \in DOMAIN shows}
           /\ IsFiniteSet(DOMAIN shows) => Within(Folder(name, suffix, shows), {name}, {suffix})
<1> DEFINE F == Folder(name, suffix, shows)
           at == [stem \in DOMAIN shows |-> <<name, stem, suffix>>]
<1>1. DOMAIN F = {<<name, stem, suffix>> : stem \in DOMAIN shows} /\ \A f \in DOMAIN F : F[f] = shows[f[2]]
    BY DEF Folder
<1> HIDE DEF F
<1>2. Has(F, name, suffix, shows)
    BY <1>1 DEF Has
<1>3. ASSUME IsFiniteSet(DOMAIN shows) PROVE IsFiniteSet(DOMAIN F)
    <2>1. DOMAIN at = DOMAIN shows /\ DOMAIN F = {at[stem] : stem \in DOMAIN shows}
        BY <1>1
    <2> HIDE DEF at
    <2> QED BY <1>3, <2>1, ImageOf
<1>4. \A f \in DOMAIN F : f[1] = name /\ f[3] = suffix
    BY <1>1
<1> QED BY <1>1, <1>2, <1>3, <1>4 DEF F, Within

\* The files that are added are there.
LEMMA HasLeft ==
    ASSUME NEW f, NEW g, NEW name, NEW suffix, NEW shows, Has(f, name, suffix, shows)
    PROVE  Has(f ++ g, name, suffix, shows)
<1>1. DOMAIN (f ++ g) = DOMAIN f \cup DOMAIN g /\ \A x \in DOMAIN f : (f ++ g)[x] = f[x]
    BY Merged
<1> QED BY <1>1 DEF Has

\* Those that were there stay if the added ones are of other folders or formats.
LEMMA HasRight ==
    ASSUME NEW f, NEW g, NEW name, NEW suffix, NEW shows, Has(g, name, suffix, shows),
           NEW names, NEW suffixes, Within(f, names, suffixes), name \notin names \/ suffix \notin suffixes
    PROVE  Has(f ++ g, name, suffix, shows)
<1>1. DOMAIN (f ++ g) = DOMAIN f \cup DOMAIN g /\ \A x \in DOMAIN g : x \notin DOMAIN f => (f ++ g)[x] = g[x]
    BY Merged
<1>2. \A stem : <<name, stem, suffix>> \notin DOMAIN f
    BY DEF Within
<1> QED BY <1>1, <1>2 DEF Has

\* Files of these folders and formats, put together, are such files.
LEMMA WithinBoth ==
    ASSUME NEW f, NEW g, NEW names, NEW suffixes, Within(f, names, suffixes), Within(g, names, suffixes)
    PROVE  Within(f ++ g, names, suffixes)
<1>1. DOMAIN (f ++ g) = DOMAIN f \cup DOMAIN g
    BY Merged
<1>2. IsFiniteSet(DOMAIN f \cup DOMAIN g)
    BY FS_Union DEF Within
<1> QED BY <1>1, <1>2 DEF Within

\* The names, one by one.
LEMMA StemsAre ==
    /\ {"AUDIT_RESULTS", "Technical", "Content", "Backlink", "Competitor", "GEO_AEO", "CRO_UX", "Tracking", "Baseline",
        "Ecommerce", "GBP_Local", "Keyword_Universe", "Content_Gap", "Content_Strategy"} \subseteq Range(Stems)
    /\ {"URL_Architecture", "Cannibalization", "Action_Plan", "Title_Tag", "Meta_Description", "H1_Tags", "Internal_Link_Map",
        "Redirect_Map", "Canonical_Fixes", "QC_Report", "Referring_Domains", "Link_Gap", "Enterprise_SEO"} \subseteq Range(Stems)
    /\ {"SEO_Strategy", "Executive_Deck", "availability_matrix", "generation_ledger", "evidence_index", "issue_register",
        "source_coverage", "change_log", "Robots_txt", "Organization", "LocalBusiness", "Product", "QA_Report"} \subseteq Range(Stems)
<1>1. /\ Stems[1] = "AUDIT_RESULTS" /\ Stems[2] = "Technical" /\ Stems[3] = "Content" /\ Stems[4] = "Backlink"
      /\ Stems[5] = "Competitor" /\ Stems[6] = "GEO_AEO" /\ Stems[7] = "CRO_UX" /\ Stems[8] = "Tracking" /\ Stems[9] = "Baseline"
      /\ Stems[10] = "Ecommerce" /\ Stems[11] = "GBP_Local" /\ Stems[12] = "Keyword_Universe" /\ Stems[13] = "Content_Gap"
      /\ Stems[14] = "Content_Strategy"
    BY DEF Stems
<1>2. /\ Stems[15] = "URL_Architecture" /\ Stems[16] = "Cannibalization" /\ Stems[17] = "Action_Plan" /\ Stems[18] = "Title_Tag"
      /\ Stems[19] = "Meta_Description" /\ Stems[20] = "H1_Tags" /\ Stems[21] = "Internal_Link_Map" /\ Stems[22] = "Redirect_Map"
      /\ Stems[23] = "Canonical_Fixes" /\ Stems[24] = "QC_Report" /\ Stems[25] = "Referring_Domains" /\ Stems[26] = "Link_Gap"
      /\ Stems[27] = "Enterprise_SEO"
    BY DEF Stems
<1>3. /\ Stems[28] = "SEO_Strategy" /\ Stems[29] = "Executive_Deck" /\ Stems[30] = "availability_matrix"
      /\ Stems[31] = "generation_ledger" /\ Stems[32] = "evidence_index" /\ Stems[33] = "issue_register"
      /\ Stems[34] = "source_coverage" /\ Stems[35] = "change_log" /\ Stems[36] = "Robots_txt" /\ Stems[37] = "Organization"
      /\ Stems[38] = "LocalBusiness" /\ Stems[39] = "Product" /\ Stems[40] = "QA_Report"
    BY DEF Stems
<1>4. DOMAIN Stems = 1 .. 40
    BY DEF Stems
<1>5. \A i \in 1 .. 40 : Stems[i] \in Range(Stems)
    BY <1>4 DEF Range
<1> HIDE DEF Stems
<1> QED BY <1>1, <1>2, <1>3, <1>5

\* The workbooks of the audit, the conditional ones included.
LEMMA AuditOf ==
    ASSUME NEW b, NEW c
    PROVE  LET W == AuditWorkbooks(b, c)
           IN  /\ DOMAIN W \subseteq Range(Stems) /\ {"Technical", "Content", "Tracking", "Baseline"} \subseteq DOMAIN W
               /\ W.Technical = TechnicalPages(b) ++ TechnicalIssues(b) /\ W.Content = ContentAudit(b, c)
               /\ W.Tracking = TrackingAudit(b)
<1> DEFINE f == [Technical |-> TechnicalPages(b) ++ TechnicalIssues(b), Content |-> ContentAudit(b, c), Backlink |-> BacklinkAudit(c),
                 Competitor |-> CompetitorLandscape(c), GEO_AEO |-> GeoAeo(b), CRO_UX |-> CroUx(b), Tracking |-> TrackingAudit(b),
                 Baseline |-> BaselinePerformance(b, c)]
           g == IF IsEcommerce(b) THEN [Ecommerce |-> EcommerceAudit(b)] ELSE Empties
           h == IF IsLocal(b) THEN [GBP_Local |-> GbpLocal(b)] ELSE Empties
           W == AuditWorkbooks(b, c)
<1>1. W = (f ++ g) ++ h
    BY DEF AuditWorkbooks
<1>2. /\ DOMAIN f = {"Technical", "Content", "Backlink", "Competitor", "GEO_AEO", "CRO_UX", "Tracking", "Baseline"}
      /\ f.Technical = TechnicalPages(b) ++ TechnicalIssues(b) /\ f.Content = ContentAudit(b, c) /\ f.Tracking = TrackingAudit(b)
    OBVIOUS
<1>3. DOMAIN g \subseteq {"Ecommerce"} /\ DOMAIN h \subseteq {"GBP_Local"}
    BY DEF Empties
<1> HIDE DEF f, g, h, W
<1>4. /\ DOMAIN (f ++ g) = DOMAIN f \cup DOMAIN g /\ \A x \in DOMAIN f : (f ++ g)[x] = f[x]
    BY Merged
<1> DEFINE fg == f ++ g
<1>5. DOMAIN fg = DOMAIN f \cup DOMAIN g /\ \A x \in DOMAIN f : fg[x] = f[x]
    BY <1>4
<1> HIDE DEF fg
<1>6. DOMAIN (fg ++ h) = DOMAIN fg \cup DOMAIN h /\ \A x \in DOMAIN fg : (fg ++ h)[x] = fg[x]
    BY Merged
<1>7. W = fg ++ h
    BY <1>1 DEF fg
<1>8. DOMAIN W \subseteq Range(Stems)
    BY <1>2, <1>3, <1>5, <1>6, <1>7, StemsAre
<1>9. /\ {"Technical", "Content", "Tracking", "Baseline"} \subseteq DOMAIN W
      /\ W.Technical = f.Technical /\ W.Content = f.Content /\ W.Tracking = f.Tracking
    BY <1>2, <1>5, <1>6, <1>7
<1> QED BY <1>2, <1>8, <1>9 DEF W

\* The workbooks are in seven folders.
LEMMA WorkbooksAre ==
    ASSUME NEW b, NEW c
    PROVE  LET W == Workbooks(b, c)
           IN  /\ Within(W, {"audit", "strategy", "plan", "onpage", "fixes", "qa", "links"}, {"xlsx"})
               /\ Has(W, "audit", "xlsx", AuditWorkbooks(b, c)) /\ Has(W, "strategy", "xlsx", StrategyWorkbooks(b, c))
               /\ Has(W, "onpage", "xlsx", OnPageWorkbooks(c)) /\ Has(W, "fixes", "xlsx", FixWorkbooks(b, c))
<1> DEFINE A == Folder("audit", "xlsx", AuditWorkbooks(b, c))
           B == Folder("strategy", "xlsx", StrategyWorkbooks(b, c))
           C == Folder("plan", "xlsx", [Action_Plan |-> ActionPlan(b)])
           D == Folder("onpage", "xlsx", OnPageWorkbooks(c))
           E == Folder("fixes", "xlsx", FixWorkbooks(b, c))
           F == Folder("qa", "xlsx", [QC_Report |-> QcReport(b, c)])
           G == Folder("links", "xlsx", LinkWorkbooks(c))
           N == {"audit", "strategy", "plan", "onpage", "fixes", "qa", "links"}
<1>1. /\ DOMAIN AuditWorkbooks(b, c) \subseteq Range(Stems)
      /\ DOMAIN StrategyWorkbooks(b, c) \subseteq Range(Stems) /\ DOMAIN [Action_Plan |-> ActionPlan(b)] \subseteq Range(Stems)
      /\ DOMAIN OnPageWorkbooks(c) \subseteq Range(Stems) /\ DOMAIN FixWorkbooks(b, c) \subseteq Range(Stems)
      /\ DOMAIN [QC_Report |-> QcReport(b, c)] \subseteq Range(Stems) /\ DOMAIN LinkWorkbooks(c) \subseteq Range(Stems)
    <2>1. DOMAIN AuditWorkbooks(b, c) \subseteq Range(Stems)
        BY AuditOf
    <2> QED BY <2>1, StemsAre DEF StrategyWorkbooks, OnPageWorkbooks, FixWorkbooks, LinkWorkbooks, Empties
<1>2. /\ IsFiniteSet(DOMAIN AuditWorkbooks(b, c)) /\ IsFiniteSet(DOMAIN StrategyWorkbooks(b, c))
      /\ IsFiniteSet(DOMAIN [Action_Plan |-> ActionPlan(b)]) /\ IsFiniteSet(DOMAIN OnPageWorkbooks(c))
      /\ IsFiniteSet(DOMAIN FixWorkbooks(b, c)) /\ IsFiniteSet(DOMAIN [QC_Report |-> QcReport(b, c)])
      /\ IsFiniteSet(DOMAIN LinkWorkbooks(c))
    BY <1>1, StemsFinite
<1>3. /\ Within(A, {"audit"}, {"xlsx"}) /\ Has(A, "audit", "xlsx", AuditWorkbooks(b, c))
      /\ Within(B, {"strategy"}, {"xlsx"}) /\ Has(B, "strategy", "xlsx", StrategyWorkbooks(b, c))
      /\ Within(C, {"plan"}, {"xlsx"})
      /\ Within(D, {"onpage"}, {"xlsx"}) /\ Has(D, "onpage", "xlsx", OnPageWorkbooks(c))
      /\ Within(E, {"fixes"}, {"xlsx"}) /\ Has(E, "fixes", "xlsx", FixWorkbooks(b, c))
      /\ Within(F, {"qa"}, {"xlsx"})
      /\ Within(G, {"links"}, {"xlsx"})
    BY <1>2, FolderHas
<1>4. Workbooks(b, c) = A ++ B ++ C ++ D ++ E ++ F ++ G
    BY DEF Workbooks
<1> HIDE DEF A, B, C, D, E, F, G
<1> DEFINE AB == A ++ B
           AC == AB ++ C
           AD == AC ++ D
           AE == AD ++ E
           AF == AE ++ F
           AG == AF ++ G
<1>5. Workbooks(b, c) = AG
    BY <1>4
<1>6. Within(A, N, {"xlsx"}) /\ Within(B, N, {"xlsx"}) /\ Within(C, N, {"xlsx"}) /\ Within(D, N, {"xlsx"}) /\ Within(E, N, {"xlsx"})
      /\ Within(F, N, {"xlsx"}) /\ Within(G, N, {"xlsx"})
    BY <1>3 DEF Within
<1>7. Within(AB, {"audit", "strategy"}, {"xlsx"})
    <2>1. Within(A, {"audit", "strategy"}, {"xlsx"}) /\ Within(B, {"audit", "strategy"}, {"xlsx"})
        BY <1>3 DEF Within
    <2> QED BY <2>1, WithinBoth
<1>8. Has(AB, "audit", "xlsx", AuditWorkbooks(b, c)) /\ Has(AB, "strategy", "xlsx", StrategyWorkbooks(b, c))
    <2>1. Has(AB, "audit", "xlsx", AuditWorkbooks(b, c))
        BY <1>3, HasLeft
    <2>2. "strategy" \notin {"audit"}
        OBVIOUS
    <2>3. Has(AB, "strategy", "xlsx", StrategyWorkbooks(b, c))
        BY <1>3, <2>2, HasRight
    <2> QED BY <2>1, <2>3
<1> HIDE DEF AB
<1>9. Within(AC, {"audit", "strategy", "plan"}, {"xlsx"})
    <2>1. Within(AB, {"audit", "strategy", "plan"}, {"xlsx"}) /\ Within(C, {"audit", "strategy", "plan"}, {"xlsx"})
        BY <1>3, <1>7 DEF Within
    <2> QED BY <2>1, WithinBoth
<1>10. Has(AC, "audit", "xlsx", AuditWorkbooks(b, c)) /\ Has(AC, "strategy", "xlsx", StrategyWorkbooks(b, c))
    BY <1>8, HasLeft
<1> HIDE DEF AC
<1>11. Within(AD, {"audit", "strategy", "plan", "onpage"}, {"xlsx"})
    <2>1. Within(AC, {"audit", "strategy", "plan", "onpage"}, {"xlsx"}) /\ Within(D, {"audit", "strategy", "plan", "onpage"}, {"xlsx"})
        BY <1>3, <1>9 DEF Within
    <2> QED BY <2>1, WithinBoth
<1>12. Has(AD, "onpage", "xlsx", OnPageWorkbooks(c))
    <2>1. "onpage" \notin {"audit", "strategy", "plan"}
        OBVIOUS
    <2> QED BY <1>3, <1>9, <2>1, HasRight
<1>13. Has(AD, "audit", "xlsx", AuditWorkbooks(b, c)) /\ Has(AD, "strategy", "xlsx", StrategyWorkbooks(b, c))
    BY <1>10, HasLeft
<1> HIDE DEF AD
<1>14. Has(AE, "fixes", "xlsx", FixWorkbooks(b, c))
    <2>1. "fixes" \notin {"audit", "strategy", "plan", "onpage"}
        OBVIOUS
    <2> QED BY <1>3, <1>11, <2>1, HasRight
<1>15. /\ Has(AE, "audit", "xlsx", AuditWorkbooks(b, c)) /\ Has(AE, "strategy", "xlsx", StrategyWorkbooks(b, c))
       /\ Has(AE, "onpage", "xlsx", OnPageWorkbooks(c))
    BY <1>12, <1>13, HasLeft
<1>16. Within(AE, N, {"xlsx"})
    <2>1. Within(AD, N, {"xlsx"})
        BY <1>11 DEF Within
    <2> HIDE DEF N
    <2> QED BY <1>6, <2>1, WithinBoth
<1> HIDE DEF AE
<1>17. /\ Has(AF, "audit", "xlsx", AuditWorkbooks(b, c)) /\ Has(AF, "strategy", "xlsx", StrategyWorkbooks(b, c))
       /\ Has(AF, "onpage", "xlsx", OnPageWorkbooks(c)) /\ Has(AF, "fixes", "xlsx", FixWorkbooks(b, c))
    BY <1>14, <1>15, HasLeft
<1>18. Within(AF, N, {"xlsx"})
    <2> HIDE DEF N
    <2> QED BY <1>6, <1>16, WithinBoth
<1> HIDE DEF AF
<1>19. /\ Has(AG, "audit", "xlsx", AuditWorkbooks(b, c)) /\ Has(AG, "strategy", "xlsx", StrategyWorkbooks(b, c))
       /\ Has(AG, "onpage", "xlsx", OnPageWorkbooks(c)) /\ Has(AG, "fixes", "xlsx", FixWorkbooks(b, c))
    BY <1>17, HasLeft
<1>20. Within(AG, N, {"xlsx"})
    <2> HIDE DEF N
    <2> QED BY <1>6, <1>18, WithinBoth
<1> HIDE DEF AG
<1> QED BY <1>5, <1>19, <1>20

-----------------------------------------------------------------------------
(* The files of the folder, stage by stage.                                *)

\* The folder after the summary and the workbooks.
LEMMA TwoFiles ==
    ASSUME NEW b, NEW c
    PROVE  HasWorkbooks(Files2(b, c), b, c) /\ Within(Files2(b, c), FolderNames, {"xlsx", "md"})
<1> DEFINE W == Workbooks(b, c)
           R == Folder("root", "md", [AUDIT_RESULTS |-> Summary(b, c)])
           S == R ++ Empties
<1>1. HasWorkbooks(W, b, c) /\ Within(W, FolderNames \ {"root"}, {"xlsx"})
    <2>1. FolderNames \ {"root"} = {"audit", "strategy", "plan", "onpage", "fixes", "qa", "links"}
        BY DEF FolderNames
    <2> QED BY <2>1, WorkbooksAre DEF HasWorkbooks
<1>2. Within(S, {"root"}, {"md"})
    <2>1. DOMAIN [AUDIT_RESULTS |-> Summary(b, c)] \subseteq Range(Stems)
        BY StemsAre
    <2>2. IsFiniteSet(DOMAIN [AUDIT_RESULTS |-> Summary(b, c)])
        BY <2>1, StemsFinite
    <2>3. Within(R, {"root"}, {"md"})
        BY <2>2, FolderHas
    <2>4. Within(Empties, {"root"}, {"md"})
        BY FS_EmptySet DEF Within, Empties
    <2> HIDE DEF R
    <2> QED BY <2>3, <2>4, WithinBoth
<1>3. Files2(b, c) = W ++ S
    BY DEF Files2, Files1
<1> HIDE DEF W, S
<1>4. Within(W, FolderNames, {"xlsx", "md"}) /\ Within(S, FolderNames, {"xlsx", "md"})
    BY <1>1, <1>2 DEF Within, FolderNames
<1>5. Within(W ++ S, FolderNames, {"xlsx", "md"})
    BY <1>4, WithinBoth
<1>6. HasWorkbooks(W ++ S, b, c)
    BY <1>1, HasLeft DEF HasWorkbooks
<1> QED BY <1>3, <1>5, <1>6

\* The workbooks stay when files of other formats come.
LEMMA WorkbooksStay ==
    ASSUME NEW b, NEW c, NEW f, NEW g, HasWorkbooks(g, b, c), NEW names, NEW suffixes, Within(f, names, suffixes), "xlsx" \notin suffixes
    PROVE  HasWorkbooks(f ++ g, b, c)
BY HasRight DEF HasWorkbooks

\* There are finitely many numbers of briefs.
LEMMA NumbersFinite == ASSUME NEW c, c.assets \in Seq(Range(c.assets)) PROVE IsFiniteSet(Numbered(c))
<1> DEFINE at == [a \in Range(c.assets) |-> a.n]
<1>1. IsFiniteSet(Range(c.assets))
    BY RangeOf
<1>2. DOMAIN at = Range(c.assets) /\ Numbered(c) = {at[a] : a \in Range(c.assets)}
    BY DEF Numbered
<1> HIDE DEF at
<1> QED BY <1>1, <1>2, ImageOf

\* The documents, and after them the briefs.
LEMMA DocumentsAre ==
    ASSUME NEW b, NEW c, c.assets \in Seq(Range(c.assets))
    PROVE  LET D == Documents(b, c)  W == BriefFiles(b, c)
           IN  /\ Within(D, {"audit", "strategy", "plan"}, {"pdf", "docx"})
               /\ Has(D, "audit", "pdf", [Enterprise_SEO |-> ExecutiveReport(b, c)])
               /\ DOMAIN W = {<<"content", n, "docx">> : n \in Numbered(c)} /\ Within(W, {"content"}, {"docx"})
<1> DEFINE sA == [Enterprise_SEO |-> ExecutiveReport(b, c)]
           sB == [SEO_Strategy |-> StrategyDocument(b, c), Content_Strategy |-> ContentStrategyDocument(b, c)]
           sC == [SEO_Strategy |-> StrategyReport(b, c), Content_Strategy |-> ContentStrategyReport(c)]
           sD == [Action_Plan |-> ActionPlanReport(b)]
           A == Folder("audit", "pdf", sA)
           B == Folder("strategy", "docx", sB)
           C == Folder("strategy", "pdf", sC)
           D == Folder("plan", "pdf", sD)
           N == {"audit", "strategy", "plan"}
           X == {"pdf", "docx"}
<1>1. DOMAIN sA \subseteq Range(Stems) /\ DOMAIN sB \subseteq Range(Stems) /\ DOMAIN sC \subseteq Range(Stems) /\ DOMAIN sD \subseteq Range(Stems)
    BY StemsAre
<1>2. Documents(b, c) = A ++ B ++ C ++ D
    BY DEF Documents
<1> HIDE DEF sA, sB, sC, sD
<1>3. IsFiniteSet(DOMAIN sA) /\ IsFiniteSet(DOMAIN sB) /\ IsFiniteSet(DOMAIN sC) /\ IsFiniteSet(DOMAIN sD)
    BY <1>1, StemsFinite
<1>4. /\ Within(A, {"audit"}, {"pdf"}) /\ Within(B, {"strategy"}, {"docx"}) /\ Within(C, {"strategy"}, {"pdf"}) /\ Within(D, {"plan"}, {"pdf"})
      /\ Has(A, "audit", "pdf", sA)
    BY <1>3, FolderHas
<1> HIDE DEF A, B, C, D
<1>5. Within(A, N, X) /\ Within(B, N, X) /\ Within(C, N, X) /\ Within(D, N, X)
    BY <1>4 DEF Within
<1> HIDE DEF N, X
<1> DEFINE AB == A ++ B
           AC == AB ++ C
           AD == AC ++ D
<1>6. Within(AB, N, X) /\ Has(AB, "audit", "pdf", sA)
    BY <1>4, <1>5, WithinBoth, HasLeft
<1>0. Documents(b, c) = AD
    BY <1>2
<1> HIDE DEF AB
<1>7. Within(AC, N, X) /\ Has(AC, "audit", "pdf", sA)
    BY <1>5, <1>6, WithinBoth, HasLeft
<1> HIDE DEF AC
<1>8. Within(AD, N, X) /\ Has(AD, "audit", "pdf", sA)
    BY <1>5, <1>7, WithinBoth, HasLeft
<1> HIDE DEF AD
<1>9. DOMAIN BriefFiles(b, c) = {<<"content", n, "docx">> : n \in Numbered(c)} /\ Within(BriefFiles(b, c), {"content"}, {"docx"})
    <2> DEFINE shows == [n \in {a.n : a \in Range(c.assets)} |-> BriefDocument(b, c, c.assets[n])]
    <2>1. DOMAIN shows = Numbered(c) /\ BriefFiles(b, c) = Folder("content", "docx", shows)
        BY DEF Numbered, BriefFiles
    <2> HIDE DEF shows
    <2>2. IsFiniteSet(DOMAIN shows)
        BY <2>1, NumbersFinite
    <2>3. DOMAIN Folder("content", "docx", shows) = {<<"content", stem, "docx">> : stem \in DOMAIN shows}
        BY FolderHas
    <2>4. Within(Folder("content", "docx", shows), {"content"}, {"docx"})
        BY <2>2, FolderHas
    <2> QED BY <2>1, <2>3, <2>4
<1> QED BY <1>0, <1>8, <1>9 DEF N, X, sA

\* With the documents, the workbooks are as they were, and the briefs are those of the content.
LEMMA ThreeFiles ==
    ASSUME NEW b, NEW c, c.assets \in Seq(Range(c.assets))
    PROVE  LET S == Files3(b, c)
           IN  /\ HasWorkbooks(S, b, c) /\ Has(S, "audit", "pdf", [Enterprise_SEO |-> ExecutiveReport(b, c)])
               /\ Within(S, FolderNames \cup {"content"}, {"xlsx", "md", "pdf", "docx"})
               /\ {f \in DOMAIN S : f[1] = "content"} = {<<"content", n, "docx">> : n \in Numbered(c)}
<1> DEFINE D == Documents(b, c)  W == BriefFiles(b, c)  DW == D ++ W  T == Files2(b, c)
           sA == [Enterprise_SEO |-> ExecutiveReport(b, c)]
           N == FolderNames \cup {"content"}  X == {"xlsx", "md", "pdf", "docx"}
<1>1. /\ Within(D, {"audit", "strategy", "plan"}, {"pdf", "docx"}) /\ Has(D, "audit", "pdf", sA)
      /\ DOMAIN W = {<<"content", n, "docx">> : n \in Numbered(c)} /\ Within(W, {"content"}, {"docx"})
    BY DocumentsAre
<1>2. HasWorkbooks(T, b, c) /\ Within(T, FolderNames, {"xlsx", "md"})
    BY TwoFiles
<1>3. Files3(b, c) = DW ++ T
    BY DEF Files3
<1> HIDE DEF D, W, T, sA
<1>4. Within(DW, {"audit", "strategy", "plan", "content"}, {"pdf", "docx"}) /\ Has(DW, "audit", "pdf", sA) /\ DOMAIN DW = DOMAIN D \cup DOMAIN W
    <2>1. Within(D, {"audit", "strategy", "plan", "content"}, {"pdf", "docx"}) /\ Within(W, {"audit", "strategy", "plan", "content"}, {"pdf", "docx"})
        BY <1>1 DEF Within
    <2>2. Within(DW, {"audit", "strategy", "plan", "content"}, {"pdf", "docx"})
        BY <2>1, WithinBoth
    <2>3. DOMAIN (D ++ W) = DOMAIN D \cup DOMAIN W
        BY Merged
    <2> QED BY <1>1, <2>2, <2>3, HasLeft
<1> HIDE DEF DW
<1>5. HasWorkbooks(DW ++ T, b, c)
    <2>1. "xlsx" \notin {"pdf", "docx"}
        OBVIOUS
    <2> QED BY <1>2, <1>4, <2>1, WorkbooksStay
<1>6. Has(DW ++ T, "audit", "pdf", sA)
    BY <1>4, HasLeft
<1>7. Within(DW ++ T, N, X)
    <2>1. Within(DW, N, X) /\ Within(T, N, X)
        BY <1>2, <1>4 DEF Within, FolderNames
    <2> HIDE DEF N, X
    <2> QED BY <2>1, WithinBoth
<1>8. {f \in DOMAIN (DW ++ T) : f[1] = "content"} = DOMAIN W
    <2>1. DOMAIN (DW ++ T) = DOMAIN DW \cup DOMAIN T
        BY Merged
    <2>2. \A f \in DOMAIN T : f[1] # "content"
        BY <1>2 DEF Within, FolderNames
    <2>3. \A f \in DOMAIN D : f[1] # "content"
        BY <1>1 DEF Within
    <2>4. \A f \in DOMAIN W : f[1] = "content"
        BY <1>1 DEF Within
    <2> QED BY <1>4, <2>1, <2>2, <2>3, <2>4
<1> QED BY <1>1, <1>3, <1>5, <1>6, <1>7, <1>8 DEF sA

\* The three formats of the deck.
LEMMA DecksAre ==
    ASSUME NEW b, NEW c
    PROVE  Within(DeckFiles(b, c), {"deck"}, {"pptx", "pdf", "html"}) /\ Presented(DeckFiles(b, c))
<1> DEFINE sA == [Executive_Deck |-> RenderDeck(b, c)]
           sB == [Executive_Deck |-> RenderDeckPdf(b, c)]
           sC == [Executive_Deck |-> Deck(b, c)]
           A == Folder("deck", "pptx", sA)
           B == Folder("deck", "pdf", sB)
           C == Folder("deck", "html", sC)
           X == {"pptx", "pdf", "html"}
<1>1. DOMAIN sA = {"Executive_Deck"} /\ DOMAIN sB = {"Executive_Deck"} /\ DOMAIN sC = {"Executive_Deck"}
    OBVIOUS
<1>2. DeckFiles(b, c) = A ++ B ++ C
    BY DEF DeckFiles
<1> HIDE DEF sA, sB, sC
<1>3. IsFiniteSet({"Executive_Deck"})
    BY FS_Singleton
<1>4. /\ Within(A, {"deck"}, {"pptx"}) /\ Within(B, {"deck"}, {"pdf"}) /\ Within(C, {"deck"}, {"html"})
      /\ DOMAIN A = {<<"deck", stem, "pptx">> : stem \in DOMAIN sA} /\ DOMAIN B = {<<"deck", stem, "pdf">> : stem \in DOMAIN sB}
    <2>1. IsFiniteSet(DOMAIN sA) /\ IsFiniteSet(DOMAIN sB) /\ IsFiniteSet(DOMAIN sC)
        BY <1>1, <1>3
    <2>2. Within(A, {"deck"}, {"pptx"})
        BY <2>1, FolderHas
    <2>3. Within(B, {"deck"}, {"pdf"})
        BY <2>1, FolderHas
    <2>4. Within(C, {"deck"}, {"html"})
        BY <2>1, FolderHas
    <2>5. DOMAIN A = {<<"deck", stem, "pptx">> : stem \in DOMAIN sA}
        BY FolderHas
    <2>6. DOMAIN B = {<<"deck", stem, "pdf">> : stem \in DOMAIN sB}
        BY FolderHas
    <2> QED BY <2>2, <2>3, <2>4, <2>5, <2>6
<1> HIDE DEF A, B, C
<1>5. Within(A, {"deck"}, X) /\ Within(B, {"deck"}, X) /\ Within(C, {"deck"}, X)
    BY <1>4 DEF Within
<1> HIDE DEF X
<1> DEFINE AB == A ++ B
<1>6. Within(AB, {"deck"}, X)
    BY <1>5, WithinBoth
<1>7. DOMAIN (A ++ B) = DOMAIN A \cup DOMAIN B
    BY Merged
<1>8. DOMAIN AB = DOMAIN A \cup DOMAIN B
    BY <1>7
<1> HIDE DEF AB
<1>9. Within(AB ++ C, {"deck"}, X)
    BY <1>5, <1>6, WithinBoth
<1>10. DOMAIN (AB ++ C) = DOMAIN AB \cup DOMAIN C
    BY Merged
<1>11. Presented(AB ++ C)
    <2> SUFFICES ASSUME NEW f \in DOMAIN (AB ++ C), f[3] = "pptx" PROVE <<f[1], f[2], "pdf">> \in DOMAIN (AB ++ C)
        BY DEF Presented
    <2>1. f \in DOMAIN A
        BY <1>4, <1>8, <1>10 DEF Within
    <2>2. f = <<"deck", "Executive_Deck", "pptx">>
        BY <1>1, <1>4, <2>1
    <2>3. <<"deck", "Executive_Deck", "pdf">> \in DOMAIN B
        BY <1>1, <1>4
    <2>4. f[1] = "deck" /\ f[2] = "Executive_Deck"
        BY <2>2
    <2> QED BY <1>8, <1>10, <2>3, <2>4
<1> QED BY <1>2, <1>9, <1>11 DEF AB, X

\* The files of data: their names, their rows, and the templates that the business calls for.
LEMMA DataAre ==
    ASSUME NEW b, NEW c
    PROVE  HasData(DataFiles(b, c), b, c) /\ Within(DataFiles(b, c), {"plan", "fixes", "qa", "schema"}, {"csv", "txt", "json"})
<1> DEFINE sA == [Action_Plan |-> Cardinality(b.actions)]
           sB == [Redirect_Map |-> Cardinality(c.redirects)]
           sC == QaRows(b, c)
           sD == [Robots_txt |-> Indexability(b)]
           sE == [t \in SchemasOf(b.profile) |-> t]
           A == Folder("plan", "csv", sA)
           B == Folder("fixes", "csv", sB)
           C == Folder("qa", "csv", sC)
           D == Folder("fixes", "txt", sD)
           E == Folder("schema", "json", sE)
           N == {"plan", "fixes", "qa", "schema"}
           X == {"csv", "txt", "json"}
<1>1. /\ DOMAIN sA \subseteq Range(Stems) /\ DOMAIN sB \subseteq Range(Stems) /\ DOMAIN sC \subseteq Range(Stems)
      /\ DOMAIN sD \subseteq Range(Stems) /\ DOMAIN sE \subseteq Range(Stems)
    BY StemsAre DEF QaRows, SchemasOf, Types
<1>2. DataFiles(b, c) = A ++ B ++ C ++ D ++ E
    BY DEF DataFiles, CsvFiles, SchemaFiles, SchemasOf, QaRows
<1>0. HasData(DataFiles(b, c), b, c) <=> /\ Has(DataFiles(b, c), "plan", "csv", sA) /\ Has(DataFiles(b, c), "fixes", "csv", sB)
                                         /\ Has(DataFiles(b, c), "qa", "csv", sC) /\ Has(DataFiles(b, c), "schema", "json", sE)
    BY DEF HasData
<1> HIDE DEF sA, sB, sC, sD, sE
<1>3. IsFiniteSet(DOMAIN sA) /\ IsFiniteSet(DOMAIN sB) /\ IsFiniteSet(DOMAIN sC) /\ IsFiniteSet(DOMAIN sD) /\ IsFiniteSet(DOMAIN sE)
    BY <1>1, StemsFinite
<1>4. /\ Within(A, {"plan"}, {"csv"}) /\ Within(B, {"fixes"}, {"csv"}) /\ Within(C, {"qa"}, {"csv"}) /\ Within(D, {"fixes"}, {"txt"})
      /\ Within(E, {"schema"}, {"json"})
      /\ Has(A, "plan", "csv", sA) /\ Has(B, "fixes", "csv", sB) /\ Has(C, "qa", "csv", sC) /\ Has(E, "schema", "json", sE)
    BY <1>3, FolderHas
<1> HIDE DEF A, B, C, D, E
<1>5. Within(A, N, X) /\ Within(B, N, X) /\ Within(C, N, X) /\ Within(D, N, X) /\ Within(E, N, X)
    BY <1>4 DEF Within
<1> DEFINE AB == A ++ B
           AC == AB ++ C
           AD == AC ++ D
           AE == AD ++ E
<1>6. DataFiles(b, c) = AE
    BY <1>2
<1>7. Within(AB, {"plan", "fixes"}, {"csv"})
    <2>1. Within(A, {"plan", "fixes"}, {"csv"}) /\ Within(B, {"plan", "fixes"}, {"csv"})
        BY <1>4 DEF Within
    <2> QED BY <2>1, WithinBoth
<1>8. Has(AB, "plan", "csv", sA) /\ Has(AB, "fixes", "csv", sB)
    <2>1. "fixes" \notin {"plan"}
        OBVIOUS
    <2> QED BY <1>4, <2>1, HasLeft, HasRight
<1> HIDE DEF AB
<1>9. Within(AC, {"plan", "fixes", "qa"}, {"csv"})
    <2>1. Within(AB, {"plan", "fixes", "qa"}, {"csv"}) /\ Within(C, {"plan", "fixes", "qa"}, {"csv"})
        BY <1>4, <1>7 DEF Within
    <2> QED BY <2>1, WithinBoth
<1>10. Has(AC, "plan", "csv", sA) /\ Has(AC, "fixes", "csv", sB) /\ Has(AC, "qa", "csv", sC)
    <2>1. "qa" \notin {"plan", "fixes"}
        OBVIOUS
    <2> QED BY <1>4, <1>7, <1>8, <2>1, HasLeft, HasRight
<1> HIDE DEF AC
<1>11. Within(AD, {"plan", "fixes", "qa"}, X)
    <2>1. Within(AC, {"plan", "fixes", "qa"}, X) /\ Within(D, {"plan", "fixes", "qa"}, X)
        BY <1>4, <1>9 DEF Within
    <2> HIDE DEF X
    <2> QED BY <2>1, WithinBoth
<1>12. Has(AD, "plan", "csv", sA) /\ Has(AD, "fixes", "csv", sB) /\ Has(AD, "qa", "csv", sC)
    BY <1>10, HasLeft
<1> HIDE DEF AD
<1>13. Within(AE, N, X)
    <2>1. Within(AD, N, X)
        BY <1>11 DEF Within
    <2> HIDE DEF N, X
    <2> QED BY <1>5, <2>1, WithinBoth
<1>14. Has(AE, "plan", "csv", sA) /\ Has(AE, "fixes", "csv", sB) /\ Has(AE, "qa", "csv", sC)
    BY <1>12, HasLeft
<1>15. Has(AE, "schema", "json", sE)
    <2>1. "schema" \notin {"plan", "fixes", "qa"}
        OBVIOUS
    <2> QED BY <1>4, <1>11, <2>1, HasRight
<1> HIDE DEF AE
<1> QED BY <1>0, <1>6, <1>13, <1>14, <1>15 DEF N, X

\* The folder when all is rendered: what the checks look at is there.
LEMMA FiveFiles ==
    ASSUME NEW b, NEW c, c.assets \in Seq(Range(c.assets))
    PROVE  Complete(Files5(b, c), b, c)
<1> DEFINE P == DataFiles(b, c)  D == DeckFiles(b, c)  T == Files3(b, c)  S == D ++ T
<1>1. /\ HasWorkbooks(T, b, c) /\ Within(T, FolderNames \cup {"content"}, {"xlsx", "md", "pdf", "docx"})
      /\ {f \in DOMAIN T : f[1] = "content"} = {<<"content", n, "docx">> : n \in Numbered(c)}
    BY ThreeFiles
<1>2. Within(D, {"deck"}, {"pptx", "pdf", "html"}) /\ Presented(D)
    BY DecksAre
<1>3. HasData(P, b, c) /\ Within(P, {"plan", "fixes", "qa", "schema"}, {"csv", "txt", "json"})
    BY DataAre
<1>4. Files5(b, c) = P ++ S
    BY DEF Files5, Files4
<1> HIDE DEF P, D, T
<1>5. HasWorkbooks(S, b, c)
    <2>1. "xlsx" \notin {"pptx", "pdf", "html"}
        OBVIOUS
    <2> QED BY <1>1, <1>2, <2>1, WorkbooksStay
<1>6. DOMAIN S = DOMAIN D \cup DOMAIN T /\ IsFiniteSet(DOMAIN S)
    <2>1. DOMAIN (D ++ T) = DOMAIN D \cup DOMAIN T
        BY Merged
    <2>2. IsFiniteSet(DOMAIN D \cup DOMAIN T)
        BY <1>1, <1>2, FS_Union DEF Within
    <2> QED BY <2>1, <2>2
<1> HIDE DEF S
<1>7. HasWorkbooks(P ++ S, b, c)
    <2>1. "xlsx" \notin {"csv", "txt", "json"}
        OBVIOUS
    <2> QED BY <1>3, <1>5, <2>1, WorkbooksStay
<1>8. DOMAIN (P ++ S) = DOMAIN P \cup DOMAIN S
    BY Merged
<1>9. IsFiniteSet(DOMAIN P \cup DOMAIN S)
    BY <1>3, <1>6, FS_Union DEF Within
<1>10. HasData(P ++ S, b, c)
    BY <1>3, HasLeft DEF HasData
<1>11. Presented(P ++ S)
    <2> SUFFICES ASSUME NEW f \in DOMAIN (P ++ S), f[3] = "pptx" PROVE <<f[1], f[2], "pdf">> \in DOMAIN (P ++ S)
        BY DEF Presented
    <2>1. f \in DOMAIN D
        BY <1>1, <1>3, <1>6, <1>8 DEF Within
    <2> QED BY <1>2, <1>6, <1>8, <2>1 DEF Presented
<1>12. {f \in DOMAIN (P ++ S) : f[1] = "content"} = {f \in DOMAIN T : f[1] = "content"}
    BY <1>2, <1>3, <1>6, <1>8 DEF Within
<1> QED BY <1>1, <1>4, <1>7, <1>8, <1>9, <1>10, <1>11, <1>12 DEF Complete

-----------------------------------------------------------------------------
(* The checks.                                                             *)

\* There are as many briefs as files of briefs.
LEMMA BriefsCounted ==
    ASSUME NEW b, NEW c, Right(b, c)
    PROVE  Cardinality({<<"content", n, "docx">> : n \in Numbered(c)}) = Len(c.assets)
<1> DEFINE n == Len(c.assets)
           F == {<<"content", m, "docx">> : m \in Numbered(c)}
           at == [f \in F |-> f[2]]
<1>1. DOMAIN c.assets = 1 .. n /\ n \in Nat
    BY DEF Right
<1>2. Numbered(c) = 1 .. n
    <2>1. \A i \in 1 .. n : c.assets[i].n = i /\ c.assets[i] \in Range(c.assets)
        BY <1>1 DEF Right, ListsMade, Range
    <2>2. \A a \in Range(c.assets) : \E i \in 1 .. n : a = c.assets[i]
        BY <1>1 DEF Range
    <2> QED BY <2>1, <2>2 DEF Numbered
<1> HIDE DEF n
<1>3. IsFiniteSet(1 .. n) /\ Cardinality(1 .. n) = n
    BY <1>1, FS_Interval
<1>4. Cardinality(F) = Cardinality(1 .. n)
    <2>1. \A f \in F : \E i \in 1 .. n : f = <<"content", i, "docx">> /\ at[f] = i
        BY <1>2
    <2>2. \A i \in 1 .. n : <<"content", i, "docx">> \in F /\ at[<<"content", i, "docx">>] = i
        BY <1>2
    <2> HIDE DEF F, at
    <2>3. \A f \in F : at[f] \in 1 .. n
        BY <2>1
    <2>4. \A f, g \in F : at[f] = at[g] => f = g
        BY <2>1
    <2>5. \A i \in 1 .. n : \E f \in F : at[f] = i
        BY <2>2
    <2> QED BY <1>3, <2>3, <2>4, <2>5, SameSize
<1> QED BY <1>3, <1>4 DEF n

\* What is counted again is what was compiled.
LEMMA RecountAgrees ==
    ASSUME Right(book, content), Complete(folder.files, book, content)
    PROVE  \A m \in DOMAIN Found : Found[m] = Compiled(book, content)[m]
<1> DEFINE E == {<<"content", n, "docx">> : n \in Numbered(content)}
<1>1. {f \in Files : f[1] = "content" /\ f[3] = "docx"} = E
    <2>1. {f \in Files : f[1] = "content"} = E
        BY DEF Complete, Files
    <2>2. \A f \in E : f[3] = "docx"
        OBVIOUS
    <2> QED BY <2>1, <2>2
<1>2. Cardinality(E) = Len(content.assets)
    <2> HIDE DEF E
    <2> QED BY BriefsCounted DEF E
<1>3. /\ folder.files[QaCsv("evidence_index")] = Cardinality(Evidence(book, content))
      /\ folder.files[QaCsv("issue_register")] = Len(book.findings)
    BY DEF Complete, HasData, Has, QaRows, QaCsv
<1>4. folder.files[PlanCsv] = Cardinality(book.actions)
    BY DEF Complete, HasData, Has, PlanCsv
<1> HIDE DEF E
<1> QED BY <1>1, <1>2, <1>3, <1>4 DEF Found, Compiled

\* The QA report leaves the rest as it is.
LEMMA QaAdded ==
    ASSUME NEW files, NEW b, NEW c, NEW found, Complete(files, b, c)
    PROVE  Complete(QaFiles(b, c, found) ++ files, b, c)
<1> DEFINE shows == QaReport(b, c, found)
           A == Folder("qa", "json", shows)
           B == Folder("qa", "pdf", shows)
           Q == A ++ B
<1>1. DOMAIN shows = {"QA_Report"}
    BY DEF QaReport
<1>2. QaFiles(b, c, found) = Q
    BY DEF QaFiles
<1> HIDE DEF shows
<1>3. IsFiniteSet(DOMAIN shows)
    BY <1>1, FS_Singleton
<1>4. Within(A, {"qa"}, {"json"})
    BY <1>3, FolderHas
<1>5. Within(B, {"qa"}, {"pdf"})
    BY <1>3, FolderHas
<1> HIDE DEF A, B
<1>6. Within(Q, {"qa"}, {"json", "pdf"})
    <2>1. Within(A, {"qa"}, {"json", "pdf"}) /\ Within(B, {"qa"}, {"json", "pdf"})
        BY <1>4, <1>5 DEF Within
    <2> QED BY <2>1, WithinBoth
<1> HIDE DEF Q
<1>7. DOMAIN (Q ++ files) = DOMAIN Q \cup DOMAIN files
    BY Merged
<1>8. IsFiniteSet(DOMAIN Q \cup DOMAIN files)
    BY <1>6, FS_Union DEF Within, Complete
<1>9. HasWorkbooks(Q ++ files, b, c)
    <2>1. "xlsx" \notin {"json", "pdf"}
        OBVIOUS
    <2> QED BY <1>6, <2>1, WorkbooksStay DEF Complete
<1>10. HasData(Q ++ files, b, c)
    <2>1. "csv" \notin {"json", "pdf"} /\ "schema" \notin {"qa"}
        OBVIOUS
    <2> QED BY <1>6, <2>1, HasRight DEF Complete, HasData
<1>11. Presented(Q ++ files)
    BY <1>6, <1>7 DEF Complete, Presented, Within
<1>12. {f \in DOMAIN (Q ++ files) : f[1] = "content"} = {f \in DOMAIN files : f[1] = "content"}
    BY <1>6, <1>7 DEF Within
<1> QED BY <1>2, <1>7, <1>8, <1>9, <1>10, <1>11, <1>12 DEF Complete

\* So does the pruning, as far as it is promised.
LEMMA PrunedRest ==
    ASSUME NEW files, NEW b, NEW c, Complete(files, b, c), NEW yes \in BOOLEAN,
           NEW rest, rest = [f \in {f \in DOMAIN files : yes \/ f[1] # "links"} |-> files[f]]
    PROVE  Complete(rest, b, c)
<1>1. \A f \in DOMAIN rest : f \in DOMAIN files /\ rest[f] = files[f]
    OBVIOUS
<1>2. \A f \in DOMAIN files : f[1] # "links" => f \in DOMAIN rest
    OBVIOUS
<1>3. \A f \in DOMAIN rest, g \in DOMAIN files : f[1] = g[1] => g \in DOMAIN rest
    OBVIOUS
<1>4. DOMAIN rest \subseteq DOMAIN files
    OBVIOUS
<1>5. IsFiniteSet(DOMAIN rest)
    BY <1>4, FS_Subset DEF Complete
<1>6. ASSUME NEW name, NEW suffix, NEW shows, Has(files, name, suffix, shows), name # "links" PROVE Has(rest, name, suffix, shows)
    <2> SUFFICES ASSUME NEW stem \in DOMAIN shows
                 PROVE  <<name, stem, suffix>> \in DOMAIN rest /\ rest[<<name, stem, suffix>>] = shows[stem]
        BY DEF Has
    <2>1. <<name, stem, suffix>> \in DOMAIN files /\ files[<<name, stem, suffix>>] = shows[stem]
        BY <1>6 DEF Has
    <2>2. <<name, stem, suffix>> \in DOMAIN rest
        BY <1>2, <1>6, <2>1
    <2> QED BY <1>1, <2>1, <2>2
<1>7. HasWorkbooks(rest, b, c) /\ HasData(rest, b, c)
    BY <1>6 DEF Complete, HasWorkbooks, HasData
<1>8. Presented(rest)
    <2> SUFFICES ASSUME NEW f \in DOMAIN rest, f[3] = "pptx" PROVE <<f[1], f[2], "pdf">> \in DOMAIN rest
        BY DEF Presented
    <2>1. <<f[1], f[2], "pdf">> \in DOMAIN files
        BY <1>1 DEF Complete, Presented
    <2> QED BY <1>3, <2>1
<1>9. {f \in DOMAIN rest : f[1] = "content"} = {f \in DOMAIN files : f[1] = "content"}
    BY <1>1, <1>2
<1> QED BY <1>5, <1>7, <1>8, <1>9 DEF Complete

\* No list of redirects is empty while a page fails.
LEMMA NoneHeaderOnly ==
    ASSUME Right(book, content), Complete(folder.files, book, content)
    PROVE  HeaderOnly(book, content) = {}
<1> DEFINE pages == book.pages  R == content.redirects
           failing == {p \in Range(pages) : p.status \notin {200, 301, 302}}
           row == [p \in failing |-> [source |-> p.url, target |-> RedirectTarget(p, pages)]]
           places == {i \in DOMAIN pages : pages[i].status \notin {200, 301, 302}}
<1>1. folder.files[RedirectCsv] = Cardinality(R)
    BY DEF Complete, HasData, Has, RedirectCsv
<1>2. R = {row[p] : p \in failing} /\ DOMAIN row = failing
    BY DEF Right, ListsMade, Redirects
<1>3. pages \in Seq(Range(pages)) /\ IsFiniteSet(Range(pages)) /\ DOMAIN pages = 1 .. Len(pages)
    BY RangeOf DEF Right, PagesGood
<1>4. IsFiniteSet(R)
    <2>1. IsFiniteSet(failing)
        BY <1>3, FS_Subset
    <2> HIDE DEF failing, row, R
    <2> QED BY <1>2, <2>1, ImageOf
<1>5. CASE R # {}
    <2>1. Cardinality(R) # 0
        BY <1>4, <1>5, FS_EmptySet
    <2> QED BY <1>1, <2>1 DEF HeaderOnly
<1>6. CASE R = {}
    <2>1. failing = {}
        <3> HIDE DEF failing, row, R
        <3> QED BY <1>2, <1>6
    <2>2. places = {}
        BY <2>1 DEF Range
    <2>3. Expected(book, content) = Len(Only(pages, places))
        BY <1>6 DEF Expected, Where
    <2>4. places \in SUBSET (1 .. Len(pages))
        BY <1>3
    <2> HIDE DEF places, pages, failing
    <2>5. Len(Only(pages, places)) = Cardinality(places)
        BY <1>3, <2>4, OnlyTakes
    <2>7. folder.files[RedirectCsv] = Cardinality(R) /\ Expected(book, content) = 0
        BY <1>1, <2>2, <2>3, <2>5, FS_EmptySet
    <2>6. Cardinality(places) = 0
        BY <2>2, FS_EmptySet
    <2> QED BY <2>3, <2>5, <2>6 DEF HeaderOnly
<1> QED BY <1>5, <1>6

\* A source of a file is another file of the same name.
LEMMA DerivativeIs ==
    ASSUME NEW f, NEW files, DerivativeOf(f, files) # <<>>
    PROVE  \E s \in {"pptx", "docx", "xlsx"} :
              DerivativeOf(f, files) = <<f[1], f[2], s>> /\ <<f[1], f[2], s>> \in files /\ f[3] \in {"pdf", "html", "csv"}
<1> DEFINE S == <<"pptx", "docx", "xlsx">>
           places == {i \in DOMAIN S : <<f[1], f[2], S[i]>> \in files}
           t == Only(S, places)
           X == {"pptx", "docx", "xlsx"}
<1>1. f[3] \in {"pdf", "html", "csv"} /\ t # <<>> /\ DerivativeOf(f, files) = <<f[1], f[2], Head(t)>>
    BY DEF DerivativeOf, Where
<1>2. S \in Seq(X)
    OBVIOUS
<1>3. places \in SUBSET DOMAIN S
    OBVIOUS
<1>4. t \in Seq(X) /\ \A x \in Range(t) : \E i \in places : S[i] = x
    <2> HIDE DEF S, X, places
    <2> QED BY <1>2, <1>3, OnlyRange
<1> HIDE DEF t, X
<1>5. Head(t) \in Range(t) /\ Head(t) \in X
    <2>1. t \in Seq(X) /\ t # <<>>
        BY <1>1, <1>4
    <2>2. Range(t) \subseteq X /\ Head(t) \in Range(t)
        BY <2>1, RangeOf
    <2> QED BY <2>2
<1>6. PICK i \in places : S[i] = Head(t)
    BY <1>4, <1>5
<1>7. <<f[1], f[2], Head(t)>> \in files
    <2>1. <<f[1], f[2], S[i]>> \in files
        BY <1>6
    <2> QED BY <1>6, <2>1
<1> QED BY <1>1, <1>5, <1>7 DEF X

\* The manifest is whole.
LEMMA ManifestWhole == ASSUME NEW files, IsFiniteSet(files) PROVE Whole(Entries(files), files)
<1> DEFINE L == files \ ControlFiles
           entry == [f \in L |-> [file |-> f, approval |-> ApprovalOf(f), source |-> DerivativeOf(f, files)]]
           E == Entries(files)
           at == [e \in E |-> e.file]
<1>1. E = {entry[f] : f \in L} /\ \A f \in L : entry[f].file = f /\ entry[f].source = DerivativeOf(f, files)
    BY DEF Entries
<1> HIDE DEF E, entry
<1>2. \A e \in E : e.file \in L /\ e = entry[e.file] /\ e.source = DerivativeOf(e.file, files)
    BY <1>1
<1>3. {e.file : e \in E} = L
    BY <1>1, <1>2
<1>4. IsFiniteSet(L)
    BY FS_Subset
<1>5. Cardinality(E) = Cardinality(L)
    <2>1. \A e \in E : at[e] \in L
        BY <1>2
    <2>2. \A d, e \in E : at[d] = at[e] => d = e
        BY <1>2
    <2>3. \A f \in L : \E e \in E : at[e] = f
        BY <1>1
    <2> HIDE DEF L, at
    <2> QED BY <1>4, <2>1, <2>2, <2>3, SameSize
<1>6. ASSUME NEW e \in E, e.source # <<>> PROVE e.source \in L /\ e.source[3] # e.file[3]
    <2> DEFINE f == e.file
    <2>1. e.source = DerivativeOf(f, files) /\ DerivativeOf(f, files) # <<>>
        BY <1>2, <1>6
    <2> HIDE DEF f
    <2>2. PICK s \in {"pptx", "docx", "xlsx"} :
              DerivativeOf(f, files) = <<f[1], f[2], s>> /\ <<f[1], f[2], s>> \in files /\ f[3] \in {"pdf", "html", "csv"}
        BY <2>1, DerivativeIs
    <2>3. <<f[1], f[2], s>> \notin ControlFiles
        BY DEF ControlFiles
    <2> QED BY <2>1, <2>2, <2>3 DEF f
<1> QED BY <1>3, <1>5, <1>6 DEF Whole, E

\* What the plan may promise is one of these, rule by rule.
LEMMA PromisedAre ==
    ASSUME NEW code
    PROVE  \/ Promised(code) \in PromisedFiles \cup {<<"content">>, <<"schema">>, <<>>}
           \/ Promised(code) = ProductTemplate /\ code = "ecommerce.product_schema_missing"
BY Zenon DEF Promised, PromisedFiles, ProductTemplate

\* They are in a whole folder.
LEMMA DeliverablesThere ==
    ASSUME NEW files, NEW b, NEW c, Complete(files, b, c), Fits(b), NEW a \in b.actions
    PROVE  Promised(a.rule) \in DOMAIN files \cup {<<f[1]>> : f \in DOMAIN files} \cup {<<>>, <<"content">>}
<1>1. HasWorkbooks(files, b, c) /\ HasData(files, b, c)
    BY DEF Complete
<1>2. /\ <<"audit", "Technical", "xlsx">> \in DOMAIN files /\ <<"audit", "Content", "xlsx">> \in DOMAIN files
      /\ <<"audit", "Tracking", "xlsx">> \in DOMAIN files /\ <<"audit", "Baseline", "xlsx">> \in DOMAIN files
    <2>1. LET W == AuditWorkbooks(b, c) IN {"Technical", "Content", "Tracking", "Baseline"} \subseteq DOMAIN W
        BY AuditOf
    <2>2. Has(files, "audit", "xlsx", AuditWorkbooks(b, c))
        BY <1>1 DEF HasWorkbooks
    <2> QED BY <2>1, <2>2 DEF Has
<1>3. <<"strategy", "Keyword_Universe", "xlsx">> \in DOMAIN files
    <2>1. "Keyword_Universe" \in DOMAIN StrategyWorkbooks(b, c)
        BY DEF StrategyWorkbooks
    <2>2. Has(files, "strategy", "xlsx", StrategyWorkbooks(b, c))
        BY <1>1 DEF HasWorkbooks
    <2> QED BY <2>1, <2>2 DEF Has
<1>4. /\ <<"onpage", "Title_Tag", "xlsx">> \in DOMAIN files /\ <<"onpage", "Meta_Description", "xlsx">> \in DOMAIN files
      /\ <<"onpage", "H1_Tags", "xlsx">> \in DOMAIN files /\ <<"onpage", "Internal_Link_Map", "xlsx">> \in DOMAIN files
    <2>1. {"Title_Tag", "Meta_Description", "H1_Tags", "Internal_Link_Map"} \subseteq DOMAIN OnPageWorkbooks(c)
        BY DEF OnPageWorkbooks
    <2>2. Has(files, "onpage", "xlsx", OnPageWorkbooks(c))
        BY <1>1 DEF HasWorkbooks
    <2> QED BY <2>1, <2>2 DEF Has
<1>5. <<"fixes", "Canonical_Fixes", "xlsx">> \in DOMAIN files
    <2>1. "Canonical_Fixes" \in DOMAIN FixWorkbooks(b, c)
        BY DEF FixWorkbooks
    <2>2. Has(files, "fixes", "xlsx", FixWorkbooks(b, c))
        BY <1>1 DEF HasWorkbooks
    <2> QED BY <2>1, <2>2 DEF Has
<1>6. RedirectCsv \in DOMAIN files
    BY <1>1 DEF HasData, Has, RedirectCsv
<1>7. PromisedFiles \subseteq DOMAIN files
    BY <1>2, <1>3, <1>4, <1>5, <1>6 DEF PromisedFiles, Technical
<1>8. <<"schema", "Organization", "json">> \in DOMAIN files /\ (b.profile \in {"ecommerce", "hybrid"} => ProductTemplate \in DOMAIN files)
    <2>1. "Organization" \in SchemasOf(b.profile) /\ (b.profile \in {"ecommerce", "hybrid"} => "Product" \in SchemasOf(b.profile))
        BY DEF SchemasOf, Types
    <2>2. Has(files, "schema", "json", [t \in SchemasOf(b.profile) |-> t])
        BY <1>1 DEF HasData
    <2> QED BY <2>1, <2>2 DEF Has, ProductTemplate
<1>9. <<"schema">> \in {<<f[1]>> : f \in DOMAIN files}
    <2>1. <<"schema", "Organization", "json">>[1] = "schema"
        OBVIOUS
    <2> QED BY <1>8, <2>1
<1>10. a.rule = "ecommerce.product_schema_missing" => b.profile \in {"ecommerce", "hybrid"}
    BY DEF Fits
<1>11. CASE Promised(a.rule) \in PromisedFiles \cup {<<"content">>, <<"schema">>, <<>>}
    BY <1>7, <1>9, <1>11
<1>12. CASE Promised(a.rule) = ProductTemplate /\ a.rule = "ecommerce.product_schema_missing"
    BY <1>8, <1>10, <1>12
<1> QED BY <1>11, <1>12, PromisedAre

-----------------------------------------------------------------------------
(* The folder, from stage to stage.                                        *)

\* The audit and the content are left alone by then.
LEMMA ContentsBefore == NextContents => step \notin TreeSteps /\ step' \notin TreeSteps \cup {"refused"}
<1> SUFFICES ASSUME NextContents PROVE step \notin TreeSteps /\ step' \notin TreeSteps \cup {"refused"}
    OBVIOUS
<1> USE DEF TreeSteps, Checked
<1>1. CASE step \in RowStep /\ Next /\ UNCHANGED pvars
    BY <1>1 DEF RowStep, pvars
<1>2. CASE Build \/ Reading
    BY <1>2 DEF Build, Reading, ReadEvidence, ReadPages, ReadSources, ReadFindings, ReadScorecard, ReadActions, ReadIntegrity, Turn
<1>3. CASE Compiling
    BY <1>3 DEF Compiling, CompileMarket, CompileProposals, CompileOutlines, CompileAssets, Enrich, Turn
<1> QED BY <1>1, <1>2, <1>3 DEF NextContents, NextRows

\* What is known when the content is written.
LEMMA WrittenRight == WholeInv /\ step = "written" => Right(book, content)
<1> SUFFICES ASSUME WholeInv, step = "written" PROVE Right(book, content)
    OBVIOUS
<1> USE DEF WholeInv
<1>1. step \in ContentSteps /\ Later(Evidenced) /\ Later(ToFindings) /\ Later(ToScores) /\ Later(ToActions) /\ Later({"evidence", "pages"})
    BY DEF ContentSteps, Later, Evidenced, ToFindings, ToScores, ToActions
<1>2. Undisturbed /\ Marketed(content) /\ ListsMade(book.pages, content)
    BY <1>1 DEF Furnished
<1>3. Faults(book) /\ Fits(book)
    BY <1>1, <1>2 DEF Truthful
<1>4. PagesGood(book.pages)
    BY <1>1 DEF MatchInv, Sourced, Booked
<1>5. /\ \A q \in Range(book.pages) : Sized(q)
      /\ \A k \in DOMAIN book.categories : Graver(book, k)
      /\ IsFiniteSet(book.actions) /\ \A a \in book.actions : Timed(a)
    BY <1>1 DEF InBounds
<1>6. content.keywords \in Seq(Range(content.keywords)) /\ content.assets \in Seq(Range(content.assets))
    BY <1>1 DEF Contained, Kept
<1> QED BY <1>2, <1>3, <1>4, <1>5, <1>6 DEF Right

\* The files come one stage after the other.
LEMMA RenderingStep == TreeInv /\ Rendering /\ UNCHANGED <<vars, book, content>> => TreeInv'
<1> SUFFICES ASSUME TreeInv, Rendering, UNCHANGED <<vars, book, content>> PROVE TreeInv'
    OBVIOUS
<1> USE DEF TreeSteps, Checked
<1>1. book' = book /\ content' = content
    OBVIOUS
<1>2. DOMAIN folder = DOMAIN NoFolder /\ folder.failures = {}
    BY DEF TreeInv
<1>3. ASSUME NEW files, Add(files)
      PROVE  DOMAIN folder' = DOMAIN NoFolder /\ folder'.failures = {} /\ folder'.files = files ++ folder.files
    BY <1>2, <1>3 DEF Add, NoFolder
<1>4. CASE WriteSummary
    <2>1. step = "written" /\ step' = "workbooks" /\ Add(Folder("root", "md", [AUDIT_RESULTS |-> Summary(book, content)]))
        BY <1>4 DEF WriteSummary, Turn
    <2>2. WholeInv /\ folder = NoFolder
        BY <2>1 DEF TreeInv
    <2>3. folder'.files = Files1(book, content)
        <3>1. folder.files = Empties
            BY <2>2 DEF NoFolder
        <3> QED BY <1>3, <2>1, <3>1 DEF Files1
    <2>4. Right(book, content)
        BY <2>1, <2>2, WrittenRight
    <2> QED BY <1>1, <1>3, <2>1, <2>3, <2>4 DEF TreeInv, StepFiles, Manifested, Packed
<1>5. CASE RenderWorkbooks
    <2>1. step = "workbooks" /\ step' = "documents" /\ Add(Workbooks(book, content))
        BY <1>5 DEF RenderWorkbooks, Turn
    <2>2. Right(book, content) /\ folder.files = Files1(book, content)
        BY <2>1 DEF TreeInv, StepFiles
    <2>3. folder'.files = Files2(book, content)
        BY <1>3, <2>1, <2>2 DEF Files2
    <2> QED BY <1>1, <1>3, <2>1, <2>2, <2>3 DEF TreeInv, StepFiles, Manifested, Packed
<1>6. CASE RenderDocuments
    <2>1. step = "documents" /\ step' = "deck" /\ Add(Documents(book, content) ++ BriefFiles(book, content))
        BY <1>6 DEF RenderDocuments, Turn
    <2>2. Right(book, content) /\ folder.files = Files2(book, content)
        BY <2>1 DEF TreeInv, StepFiles
    <2>3. folder'.files = Files3(book, content)
        BY <1>3, <2>1, <2>2 DEF Files3
    <2> QED BY <1>1, <1>3, <2>1, <2>2, <2>3 DEF TreeInv, StepFiles, Manifested, Packed
<1>7. CASE RenderDecks
    <2>1. step = "deck" /\ step' = "data" /\ Add(DeckFiles(book, content))
        BY <1>7 DEF RenderDecks, Turn
    <2>2. Right(book, content) /\ folder.files = Files3(book, content)
        BY <2>1 DEF TreeInv, StepFiles
    <2>3. folder'.files = Files4(book, content)
        BY <1>3, <2>1, <2>2 DEF Files4
    <2> QED BY <1>1, <1>3, <2>1, <2>2, <2>3 DEF TreeInv, StepFiles, Manifested, Packed
<1>8. CASE WriteData
    <2>1. step = "data" /\ step' = "reconcile" /\ Add(DataFiles(book, content))
        BY <1>8 DEF WriteData, Turn, DataFiles
    <2>2. Right(book, content) /\ folder.files = Files4(book, content)
        BY <2>1 DEF TreeInv, StepFiles
    <2>3. folder'.files = Files5(book, content)
        BY <1>3, <2>1, <2>2 DEF Files5
    <2> QED BY <1>1, <1>3, <2>1, <2>2, <2>3 DEF TreeInv, StepFiles, Manifested, Packed
<1> QED BY <1>4, <1>5, <1>6, <1>7, <1>8 DEF Rendering

\* The checks find nothing, and leave what they have checked.
LEMMA CheckingStep == TreeInv /\ Checking /\ UNCHANGED <<vars, book, content>> => TreeInv'
<1> SUFFICES ASSUME TreeInv, Checking, UNCHANGED <<vars, book, content>> PROVE TreeInv'
    OBVIOUS
<1> USE DEF TreeSteps, Checked
<1>1. book' = book /\ content' = content
    OBVIOUS
<1>2. DOMAIN folder = DOMAIN NoFolder /\ folder.failures = {}
    BY DEF TreeInv
<1>3. CASE Reconcile
    <2>1. step = "reconcile" /\ step' = "prune"
        BY <1>3 DEF Reconcile, Turn
    <2>2. Right(book, content) /\ folder.files = Files5(book, content)
        BY <2>1 DEF TreeInv, StepFiles
    <2>3. Complete(folder.files, book, content)
        BY <2>2, FiveFiles DEF Right
    <2>4. {<<m>> : m \in {m \in DOMAIN Found : Found[m] # Compiled(book, content)[m]}} = {}
        <3>1. \A m \in DOMAIN Found : Found[m] = Compiled(book, content)[m]
            BY <2>2, <2>3, RecountAgrees
        <3> QED BY <3>1
    <2>5. /\ DOMAIN folder' = DOMAIN NoFolder /\ folder'.failures = {}
          /\ folder'.files = QaFiles(book, content, Found) ++ folder.files
        BY <1>2, <1>3, <2>4 DEF Reconcile, NoFolder
    <2>6. Complete(folder'.files, book, content)
        BY <2>3, <2>5, QaAdded
    <2> QED BY <1>1, <2>1, <2>2, <2>5, <2>6 DEF TreeInv, StepFiles, Manifested, Packed
<1>4. CASE Prune
    <2>1. step = "prune" /\ step' = "verify"
        BY <1>4 DEF Prune, Turn
    <2>2. Right(book, content) /\ Complete(folder.files, book, content)
        BY <2>1 DEF TreeInv, StepFiles
    <2> DEFINE files == folder.files
               rest == [f \in {f \in DOMAIN files : BacklinksAvailable(content) \/ f[1] # "links"} |-> files[f]]
    <2>3. DOMAIN folder' = DOMAIN NoFolder /\ folder'.failures = {} /\ folder'.files = rest
        BY <1>2, <1>4 DEF Prune, NoFolder, Files
    <2>4. BacklinksAvailable(content) \in BOOLEAN
        BY DEF BacklinksAvailable
    <2>5. Complete(rest, book, content)
        BY <2>2, <2>4, PrunedRest
    <2> HIDE DEF rest
    <2> QED BY <1>1, <2>1, <2>2, <2>3, <2>5 DEF TreeInv, StepFiles, Manifested, Packed
<1>5. CASE Verify
    <2>1. step = "verify"
        BY <1>5 DEF Verify
    <2>2. Right(book, content) /\ Complete(folder.files, book, content)
        BY <2>1 DEF TreeInv, StepFiles
    <2>3. Alone = {} /\ HeaderOnly(book, content) = {}
        BY <2>2, NoneHeaderOnly DEF Alone, Complete, Presented, Files
    <2>4. DOMAIN folder' = DOMAIN NoFolder /\ folder'.failures = {} /\ folder'.files = folder.files
        BY <1>2, <1>5, <2>3 DEF Verify, NoFolder
    <2>5. step' = "manifest"
        BY <1>5, <2>4 DEF Verify
    <2> QED BY <1>1, <2>1, <2>2, <2>4, <2>5 DEF TreeInv, StepFiles, Manifested, Packed
<1>6. CASE BuildManifest
    <2>1. step = "manifest"
        BY <1>6 DEF BuildManifest
    <2>2. Right(book, content) /\ Complete(folder.files, book, content)
        BY <2>1 DEF TreeInv, StepFiles
    <2>3. Whole(Entries(Files), Files)
        <3>1. IsFiniteSet(Files)
            BY <2>2 DEF Complete, Files
        <3> QED BY <3>1, ManifestWhole
    <2>4. /\ DOMAIN folder' = DOMAIN NoFolder /\ folder'.failures = {} /\ folder'.files = folder.files
          /\ folder'.manifest = Entries(Files)
        BY <1>2, <1>6, <2>3 DEF BuildManifest, NoFolder
    <2>5. step' = "archive" /\ Files' = Files
        BY <1>6, <2>4 DEF BuildManifest, Files
    <2> QED BY <1>1, <2>1, <2>2, <2>4, <2>5 DEF TreeInv, StepFiles, Manifested, Packed
<1>7. CASE Archive
    <2>1. step = "archive" /\ step' = "sealed"
        BY <1>7 DEF Archive, Turn
    <2>2. Right(book, content) /\ Complete(folder.files, book, content) /\ folder.manifest = Entries(Files)
        BY <2>1 DEF TreeInv, StepFiles, Manifested
    <2>3. /\ DOMAIN folder' = DOMAIN NoFolder /\ folder'.failures = {} /\ folder'.files = folder.files
          /\ folder'.manifest = folder.manifest /\ folder'.archive = Files \cup ControlFiles
        BY <1>2, <1>7 DEF Archive, NoFolder
    <2>4. Files' = Files
        BY <2>3 DEF Files
    <2> QED BY <1>1, <2>1, <2>2, <2>3, <2>4 DEF TreeInv, StepFiles, Manifested, Packed
<1> QED BY <1>3, <1>4, <1>5, <1>6, <1>7 DEF Checking

\* Every step of a build keeps what is known of its folder.
LEMMA TreeStep == TreeInv /\ [NextTree]_tvars => TreeInv'
<1> SUFFICES ASSUME TreeInv, [NextTree]_tvars PROVE TreeInv'
    OBVIOUS
<1>1. CASE NextContents /\ UNCHANGED folder
    <2>1. step \notin TreeSteps /\ step' \notin TreeSteps \cup {"refused"}
        BY <1>1, ContentsBefore
    <2>2. WholeInv' /\ folder' = NoFolder /\ folder' = folder
        BY <1>1, <2>1, WholeStep DEF TreeInv
    <2> QED BY <2>1, <2>2 DEF TreeInv, Manifested, Packed, TreeSteps, Checked
<1>2. CASE (Rendering \/ Checking) /\ UNCHANGED <<vars, book, content>>
    BY <1>2, RenderingStep, CheckingStep
<1>3. CASE UNCHANGED tvars
    <2>1. UNCHANGED cvars /\ folder' = folder
        BY <1>3 DEF tvars
    <2>2. step' = step /\ book' = book /\ content' = content
        BY <2>1 DEF cvars, pvars
    <2>3. WholeInv => WholeInv'
        BY <2>1, WholeStep
    <2>4. Files' = Files
        BY <2>1 DEF Files
    <2> QED BY <2>1, <2>2, <2>3, <2>4 DEF TreeInv, StepFiles, Manifested, Packed
<1> QED BY <1>1, <1>2, <1>3 DEF NextTree

\* So does the start.
LEMMA TreeInit == InitTree => TreeInv
<1> SUFFICES ASSUME InitTree PROVE TreeInv
    OBVIOUS
<1>1. WholeInv /\ step = "off" /\ folder = NoFolder
    BY WholeInit DEF InitTree, InitContents, InitRows
<1> QED BY <1>1 DEF TreeInv, TreeSteps, Checked, Manifested, Packed, NoFolder

\* What is known of the folder holds of every build.
LEMMA TreeHolds == SpecTree => []TreeInv
<1> QED BY TreeInit, TreeStep, PTL DEF SpecTree

\* No package is refused by the checks of its own build (run_package.py:358-517), whatever the site,
\* the business and the market; what it seals is listed but for the two control files, and every
\* file that an action of its plan names as its deliverable (run_data.py:755) is in it.
THEOREM PackagesVerify == SpecTree => []PackageVerifies
<1>1. TreeInv => PackageVerifies
    <2> SUFFICES ASSUME TreeInv PROVE PackageVerifies
        OBVIOUS
    <2>1. step # "refused"
        BY DEF TreeInv
    <2> SUFFICES ASSUME step = "sealed"
                 PROVE  /\ folder.archive = {e.file : e \in folder.manifest} \cup ControlFiles
                        /\ \A a \in book.actions : Promised(a.rule) \in folder.archive \cup {<<f[1]>> : f \in folder.archive} \cup {<<>>, <<"content">>}
        BY <2>1 DEF PackageVerifies
    <2>2. /\ Right(book, content) /\ Complete(folder.files, book, content)
          /\ folder.manifest = Entries(Files) /\ folder.archive = Files \cup ControlFiles
        BY DEF TreeInv, StepFiles, TreeSteps, Checked, Manifested, Packed
    <2>3. {e.file : e \in Entries(Files)} = Files \ ControlFiles
        <3>1. IsFiniteSet(Files)
            BY <2>2 DEF Complete, Files
        <3>2. Whole(Entries(Files), Files)
            BY <3>1, ManifestWhole
        <3> QED BY <3>2 DEF Whole
    <2>4. folder.archive = {e.file : e \in folder.manifest} \cup ControlFiles
        <3> DEFINE E == Entries(Files)
        <3>1. {e.file : e \in E} = Files \ ControlFiles /\ folder.manifest = E
            BY <2>2, <2>3
        <3> HIDE DEF E
        <3>2. {e.file : e \in folder.manifest} = Files \ ControlFiles
            BY <3>1
        <3> QED BY <2>2, <3>2
    <2>5. \A a \in book.actions : Promised(a.rule) \in Files \cup {<<f[1]>> : f \in Files} \cup {<<>>, <<"content">>}
        BY <2>2, DeliverablesThere DEF Right, Files
    <2>6. Files \subseteq folder.archive
        BY <2>2
    <2>7. {<<f[1]>> : f \in Files} \subseteq {<<f[1]>> : f \in folder.archive}
        BY <2>6
    <2> QED BY <2>4, <2>5, <2>6, <2>7
<1> QED BY <1>1, TreeHolds, PTL

-----------------------------------------------------------------------------
(* The sheets about findings.                                              *)

\* The sheets for each kind of finding.
LEMMA SheetsAre == ASSUME NEW files PROVE SheetsGiven(files)
BY Zenon DEF SheetsGiven, SheetsOf, Said, Tech, Thin, Audited, Fixed, FixUrls

\* The other findings have none.
LEMMA NoSheet == ASSUME NEW files, NEW code, code \notin Sheeted PROVE SheetsOf(code, files) = {}
BY Zenon DEF SheetsOf, Sheeted

\* What these sheets say of a page, once the workbooks are there.
LEMMA SheetsSay == ASSUME NEW files, NEW b, NEW c, HasWorkbooks(files, b, c) PROVE SheetsTold(files, b, c)
<1> DEFINE W == AuditWorkbooks(b, c)
           f == TechnicalPages(b)
           g == TechnicalIssues(b)
<1>1. /\ {"Technical", "Content", "Tracking"} \subseteq DOMAIN W
      /\ W.Technical = f ++ g /\ W.Content = ContentAudit(b, c) /\ W.Tracking = TrackingAudit(b)
    BY AuditOf
<1>2. Has(files, "audit", "xlsx", W) /\ Has(files, "fixes", "xlsx", FixWorkbooks(b, c))
    BY DEF HasWorkbooks
<1> HIDE DEF W
<1>3. /\ Tech(files) = f ++ g /\ Audited(files, "Content") = ContentAudit(b, c)
      /\ Audited(files, "Tracking") = TrackingAudit(b)
    BY <1>1, <1>2 DEF Has, Audited, Tech
<1>4. Fixed(files, "Redirect_Map") = RedirectMap(b, c) /\ Fixed(files, "Canonical_Fixes") = CanonicalFixes(b, c)
    BY <1>2 DEF Has, Fixed, FixWorkbooks
<1>5. /\ DOMAIN f = {"inventory", "errors", "redirects", "canonicals", "duplicates", "indexability"}
      /\ DOMAIN g = {"titles", "metas", "headings", "images", "schema", "findings"}
    BY DEF TechnicalPages, TechnicalIssues
<1>6. (\A x \in DOMAIN f : (f ++ g)[x] = f[x]) /\ \A x \in DOMAIN g : x \notin DOMAIN f => (f ++ g)[x] = g[x]
    <2> HIDE DEF f, g
    <2> QED BY Merged
<1> DEFINE h == f ++ g
<1>7. /\ h.errors = f.errors /\ h.redirects = f.redirects /\ h.canonicals = f.canonicals /\ h.duplicates = f.duplicates
      /\ h.indexability = f.indexability
      /\ h.titles = g.titles /\ h.metas = g.metas /\ h.headings = g.headings /\ h.images = g.images /\ h.schema = g.schema
    <2> HIDE DEF f, g
    <2> QED BY <1>5, <1>6
<1>8. Tech(files) = h
    BY <1>3
<1> HIDE DEF h
<1> DEFINE P == Range(b.pages)
<1>9. /\ f.errors = {Line(p, p.status) : p \in {p \in P : p.status >= 400}}
      /\ f.redirects = {Line(p, 2) : p \in {p \in P : p.chain > 1}}
      /\ f.canonicals = {Line(p, CanonicalState(p)) : p \in {p \in P : CanonicalState(p) # "Match"}}
      /\ f.duplicates = {Line(p, Twinned(P, p)) : p \in {p \in P : p.hash # 0 /\ Twinned(P, p) > 1}}
      /\ f.indexability = {Line(p, "Noindex observed") : p \in {p \in P : Blocked(p)}}
    BY DEF TechnicalPages, Twinned
<1>10. /\ g.titles = {Line(p, TitleIssue(p)) : p \in {p \in P : TitleIssue(p) # "OK"}}
       /\ g.metas = {Line(p, MetaIssue(p)) : p \in {p \in P : MetaIssue(p) # "OK"}}
       /\ g.headings = {Line(p, H1Issue(p)) : p \in {p \in P : H1Issue(p) # "OK"}}
       /\ g.images = {Line(p, p.unlabelled) : p \in {p \in P : p.unlabelled > 0}}
       /\ g.schema = {Line(p, SchemaGap(p)) : p \in P}
    BY DEF TechnicalIssues
<1>11. ContentAudit(b, c).thin =
          {Line(p, IF Money(p) THEN "Money page" ELSE "Supporting") : p \in {p \in P : p.words \in 0 .. 249}}
          \cup {Line(p, "Duplicate title") : p \in {p \in P : ~Empty(p.title) /\ \E q \in P \ {p} : q.title.text = p.title.text}}
    BY DEF ContentAudit
<1>13. Thin(files) = ContentAudit(b, c).thin
    BY <1>3 DEF Thin
<1>12. TrackingAudit(b).coverage = {Line(p, p.tracked) : p \in P}
    BY DEF TrackingAudit
<1> HIDE DEF f, g
<1> QED BY <1>3, <1>4, <1>7, <1>8, <1>9, <1>10, <1>11, <1>12, <1>13 DEF SheetsTold

\* A line says what it says of a page.
LEMMA OneSaid == ASSUME NEW lines, NEW l \in lines PROVE l.url \in Said(lines, l.says)
BY DEF Said

\* A page with the fault of a code is on the sheets of the code.
LEMMA OnTheSheets ==
    ASSUME NEW files, NEW b, NEW c, Right(b, c), HasWorkbooks(files, b, c)
    PROVE  \A q \in Range(b.pages) : \A code : Faulty(code, q, Range(b.pages)) => \A sheet \in SheetsOf(code, files) : q.url \in sheet
<1> SUFFICES ASSUME NEW q \in Range(b.pages), NEW code, Faulty(code, q, Range(b.pages)), NEW sheet \in SheetsOf(code, files)
             PROVE  q.url \in sheet
    OBVIOUS
<1> DEFINE P == Range(b.pages)
<1>1. SheetsGiven(files) /\ SheetsTold(files, b, c)
    BY SheetsAre, SheetsSay
<1>6. \A p, says : Line(p, says).url = p.url /\ Line(p, says).says = says
    BY DEF Line
<1>7. /\ q.status \in Nat /\ q.title.length \in Nat /\ q.meta.length \in Nat /\ q.h1s \in Nat /\ q.chain \in Nat
      /\ q.words \in Int /\ q.tracked \in BOOLEAN
    <2>1. Sized(q)
        BY DEF Right
    <2>2. Endless \in Int
        BY SMT DEF Endless
    <2> QED BY <2>1, <2>2 DEF Sized
<1>8. c.redirects = Redirects(b.pages) /\ c.canonicals = Canonicals(b.pages)
    BY DEF Right, ListsMade
<1>9. CASE code = "technical.http_status"
    <2>1. q.status >= 400
        BY <1>7, <1>9, FaultOf
    <2>2. sheet = Urls(Tech(files).errors) \/ sheet = {r.source : r \in Fixed(files, "Redirect_Map").map}
        BY <1>1, <1>9 DEF SheetsGiven
    <2>3. q.url \in Urls(Tech(files).errors)
        <3>1. Line(q, q.status) \in Tech(files).errors
            BY <1>1, <2>1 DEF SheetsTold
        <3> QED BY <1>6, <3>1 DEF Urls
    <2>4. \E r \in RedirectMap(b, c).map : r.source = q.url
        <3> DEFINE r == [source |-> q.url, target |-> RedirectTarget(q, b.pages)]
        <3>1. q.status \notin {200, 301, 302}
            BY <1>7, <2>1
        <3>2. r \in Redirects(b.pages)
            BY <3>1 DEF Redirects
        <3>3. r.source = q.url
            OBVIOUS
        <3>4. c.redirects \subseteq RedirectMap(b, c).map
            BY DEF RedirectMap
        <3> QED BY <1>8, <3>2, <3>3, <3>4
    <2> QED BY <1>1, <2>2, <2>3, <2>4 DEF SheetsTold
<1>10. CASE code = "technical.redirect_chain_length"
    <2>1. q.chain > 1
        BY <1>7, <1>10, FaultOf
    <2>2. sheet = Urls(Tech(files).redirects) \/ sheet = Urls(RedirectMap(b, c).chains)
        BY <1>1, <1>10 DEF SheetsGiven, SheetsTold
    <2>3. Line(q, 2) \in Tech(files).redirects /\ Line(q, 2) \in RedirectMap(b, c).chains
        BY <1>1, <2>1 DEF RedirectMap, SheetsTold
    <2> QED BY <1>6, <2>2, <2>3 DEF Urls
<1>11. CASE code = "technical.robots_directive"
    <2>1. sheet = Urls(Tech(files).indexability) /\ Blocked(q)
        BY <1>1, <1>11, FaultOf DEF SheetsGiven
    <2>2. Line(q, "Noindex observed") \in Tech(files).indexability
        BY <1>1, <2>1 DEF SheetsTold
    <2> QED BY <1>6, <2>1, <2>2 DEF Urls
<1>12. CASE code = "technical.duplicate_content"
    <2>1. sheet = Urls(Tech(files).duplicates)
        BY <1>1, <1>12 DEF SheetsGiven
    <2>2. q.hash # 0 /\ \E r \in P : r.url # q.url /\ r.hash = q.hash
        BY <1>12, TwinFault
    <2>3. Twinned(P, q) > 1
        <3>1. PICK r \in P : r.url # q.url /\ r.hash = q.hash
            BY <2>2
        <3> DEFINE S == {s \in P : s.hash = q.hash}
        <3>2. IsFiniteSet(P)
            BY RangeOf DEF Right, PagesGood
        <3>3. q \in S /\ r \in S /\ q # r /\ S \subseteq P
            BY <3>1
        <3> HIDE DEF S, P
        <3>4. IsFiniteSet(S)
            BY <3>2, <3>3, FS_Subset
        <3>7. IsFiniteSet({r}) /\ Cardinality({r}) = 1
            BY FS_Singleton
        <3>5. IsFiniteSet({r} \cup {q}) /\ Cardinality({r} \cup {q}) = 2
            BY <3>3, <3>7, FS_AddElement
        <3>6. Cardinality({r} \cup {q}) <= Cardinality(S) /\ Cardinality(S) \in Nat
            BY <3>3, <3>4, FS_Subset, FS_CardinalityType
        <3> QED BY <3>5, <3>6 DEF S, Twinned
    <2>4. Line(q, Twinned(P, q)) \in Tech(files).duplicates
        BY <1>1, <2>2, <2>3 DEF SheetsTold
    <2> QED BY <1>6, <2>1, <2>4 DEF Urls
<1>13. CASE code \in {"technical.canonical_boundary", "technical.canonical_missing"}
    <2> DEFINE fault == IF code = "technical.canonical_boundary" THEN "Mismatch" ELSE "Missing"
    <2>1. \A p : (p.canonical = "none" => CanonicalState(p) = "Missing") /\ (p.canonical = "outside" => CanonicalState(p) = "Mismatch")
        BY Zenon DEF CanonicalState
    <2>2. CanonicalState(q) = fault /\ fault # "Match"
        BY <1>13, <2>1, FaultOf
    <2>6. code = "technical.canonical_boundary" => sheet = Said(Tech(files).canonicals, "Mismatch") \/ sheet = FixUrls(files)
        BY <1>1 DEF SheetsGiven
    <2>7. code = "technical.canonical_missing" => sheet = Said(Tech(files).canonicals, "Missing") \/ sheet = FixUrls(files)
        BY <1>1 DEF SheetsGiven
    <2>3. sheet = Said(Tech(files).canonicals, fault) \/ sheet = FixUrls(files)
        BY <1>13, <2>6, <2>7
    <2> HIDE DEF fault
    <2>4. q.url \in Said(Tech(files).canonicals, fault)
        <3>1. Line(q, CanonicalState(q)) \in Tech(files).canonicals
            BY <1>1, <2>2 DEF SheetsTold
        <3> QED BY <1>6, <2>2, <3>1 DEF Said
    <2>5. \E f \in CanonicalFixes(b, c).fixes : f.url = q.url
        <3>1. CASE q.url \in c.canonicals
            <4>1. [url |-> q.url, source |-> "candidate"] \in CanonicalFixes(b, c).fixes
                BY <3>1 DEF CanonicalFixes
            <4> QED BY <4>1
        <3>2. CASE q.url \notin c.canonicals
            <4>1. [url |-> q.url, source |-> "crawl"] \in CanonicalFixes(b, c).fixes
                BY <2>2, <3>2 DEF CanonicalFixes
            <4> QED BY <4>1
        <3> QED BY <3>1, <3>2
    <2> QED BY <1>1, <2>3, <2>4, <2>5 DEF FixUrls, SheetsTold
<1>14. CASE code = "on_page.title"
    <2>1. sheet = Urls(Tech(files).titles)
        BY <1>1, <1>14 DEF SheetsGiven
    <2>2. TitleIssue(q) # "OK"
        BY <1>7, <1>14, FaultOf DEF TitleIssue
    <2>3. Line(q, TitleIssue(q)) \in Tech(files).titles
        BY <1>1, <2>2 DEF SheetsTold
    <2> QED BY <1>6, <2>1, <2>3 DEF Urls
<1>23. CASE code = "on_page.title_short"
    <2>1. sheet = Said(Tech(files).titles, "Too short")
        BY <1>1, <1>23 DEF SheetsGiven
    <2>2. TitleIssue(q) = "Too short"
        BY <1>7, <1>23, FaultOf DEF TitleIssue, Empty
    <2>3. Line(q, TitleIssue(q)) \in Tech(files).titles
        BY <1>1, <2>2 DEF SheetsTold
    <2> QED BY <1>6, <2>1, <2>2, <2>3, OneSaid
<1>15. CASE code = "on_page.title_duplicate"
    <2>1. sheet = Said(Thin(files), "Duplicate title") /\ ~Empty(q.title) /\ \E r \in P : r.url # q.url /\ r.title = q.title
        BY <1>1, <1>15, TwinFault DEF SheetsGiven
    <2>2. \E r \in P \ {q} : r.title.text = q.title.text
        BY <2>1
    <2>3. Line(q, "Duplicate title") \in Thin(files)
        BY <1>1, <2>1, <2>2 DEF SheetsTold
    <2>4. q.url \in Said(Thin(files), "Duplicate title")
        BY <1>6, <2>3, OneSaid
    <2> QED BY <2>1, <2>4
<1>16. CASE code = "on_page.meta_description"
    <2>1. sheet = Said(Tech(files).metas, "Missing") /\ MetaIssue(q) = "Missing"
        BY <1>1, <1>16, FaultOf DEF MetaIssue, SheetsGiven
    <2>2. Line(q, MetaIssue(q)) \in Tech(files).metas
        BY <1>1, <2>1 DEF SheetsTold
    <2> QED BY <1>6, <2>1, <2>2 DEF Said
<1>17. CASE code = "on_page.h1"
    <2>1. sheet = Urls(Tech(files).headings) /\ H1Issue(q) # "OK"
        BY <1>1, <1>17, FaultOf DEF H1Issue, SheetsGiven
    <2>2. Line(q, H1Issue(q)) \in Tech(files).headings
        BY <1>1, <2>1 DEF SheetsTold
    <2> QED BY <1>6, <2>1, <2>2 DEF Urls
<1>18. CASE code = "on_page.image_alt_missing"
    <2>1. sheet = Urls(Tech(files).images) /\ q.unlabelled > 0
        BY <1>1, <1>18, FaultOf DEF SheetsGiven
    <2>2. Line(q, q.unlabelled) \in Tech(files).images
        BY <1>1, <2>1 DEF SheetsTold
    <2> QED BY <1>6, <2>1, <2>2 DEF Urls
<1>19. CASE code = "on_page.thin_content"
    <2>1. sheet = Urls(Thin(files))
        BY <1>1, <1>19 DEF SheetsGiven
    <2>2. q.words \in 0 .. 249
        BY <1>19, FaultOf
    <2>3. Line(q, IF Money(q) THEN "Money page" ELSE "Supporting") \in Thin(files)
        BY <1>1, <2>2 DEF SheetsTold
    <2> QED BY <1>6, <2>1, <2>3 DEF Urls
<1>20. CASE code = "geo_aeo.structured_data_missing"
    <2>1. sheet = Said(Tech(files).schema, "none") /\ SchemaGap(q) = "none"
        BY <1>1, <1>20, FaultOf DEF SchemaGap, SheetsGiven
    <2>2. Line(q, SchemaGap(q)) \in Tech(files).schema
        BY <1>1 DEF SheetsTold
    <2> QED BY <1>6, <2>1, <2>2 DEF Said
<1>21. CASE code \in {"analytics.tracking_missing", "analytics.tracking_partial"}
    <2>1. sheet = Said(Audited(files, "Tracking").coverage, FALSE) /\ ~q.tracked
        BY <1>1, <1>21, FaultOf DEF SheetsGiven
    <2>2. Line(q, q.tracked) \in Audited(files, "Tracking").coverage /\ q.tracked = FALSE
        BY <1>1, <1>7, <2>1 DEF SheetsTold
    <2> QED BY <1>6, <2>1, <2>2 DEF Said
<1>22. code \in Sheeted
    BY NoSheet
<1> HIDE DEF P
<1> QED BY <1>9, <1>10, <1>11, <1>12, <1>13, <1>14, <1>15, <1>16, <1>17, <1>18, <1>19, <1>20, <1>21, <1>22, <1>23 DEF Sheeted

\* Every page that a finding cites is a row of the sheet for such findings, although the workbooks
\* compute their rows from the pages with thresholds of their own (xlsx_workbooks.py).
THEOREM FindingsShow == SpecTree => []FindingsAreShown
<1>1. TreeInv => FindingsAreShown
    <2> SUFFICES ASSUME TreeInv, step = "documents",
                        NEW f \in Range(book.findings), NEW sheet \in SheetsOf(f.code, folder.files),
                        NEW q \in Range(book.pages), q.id \in f.evidence
                 PROVE  q.url \in sheet
        BY DEF FindingsAreShown
    <2>1. Right(book, content) /\ folder.files = Files2(book, content)
        BY DEF TreeInv, StepFiles, TreeSteps
    <2>2. HasWorkbooks(folder.files, book, content)
        BY <2>1, TwoFiles
    <2>3. Faulty(f.code, q, Range(book.pages))
        BY <2>1 DEF Right, Faults
    <2>4. \A p \in Range(book.pages) : \A code : Faulty(code, p, Range(book.pages)) => \A s \in SheetsOf(code, folder.files) : p.url \in s
        BY <2>1, <2>2, OnTheSheets
    <2> QED BY <2>3, <2>4
<1> QED BY <1>1, TreeHolds, PTL

-----------------------------------------------------------------------------
(* What adds up.                                                           *)

\* The fold that SumFunction is, as a sum over the subsets.
LEMMA SumTaken ==
    ASSUME NEW K, IsFiniteSet(K), NEW w \in [K -> Nat]
    PROVE  \E f : Sums(f, K, w) /\ SumFunction(w) = f[K]
<1> DEFINE c == CHOOSE f : f = [s \in SUBSET K |-> IF s = {} THEN 0 ELSE w[CHOOSE x \in s : TRUE] + f[s \ {CHOOSE x \in s : TRUE}]]
<1>1. DOMAIN w = K
    OBVIOUS
<1>2. SumFunction(w) = c[DOMAIN w]
    BY <1>1 DEF SumFunction, SumFunctionOnSet, FoldFunctionOnSet, MapThenFoldSet
<1>3. \E f : Sums(f, K, w)
    BY SumExists
<1>4. c = CHOOSE f : Sums(f, K, w)
    BY DEF Sums, Pick
<1> HIDE DEF c
<1> QED BY <1>1, <1>2, <1>3, <1>4

\* The sizes of parts of a finite set that have nothing in common add up to that of the parts together.
LEMMA PartsSum ==
    ASSUME NEW S, IsFiniteSet(S), NEW K, IsFiniteSet(K), NEW P, \A k \in K : P[k] \subseteq S,
           \A j, k \in K : \A x \in S : x \in P[j] /\ x \in P[k] => j = k,
           NEW w, w = [k \in K |-> Cardinality(P[k])]
    PROVE  SumFunction(w) = Cardinality({x \in S : \E k \in K : x \in P[k]})
<1> DEFINE In(s) == {x \in S : \E k \in s : x \in P[k]}
<1>1. \A k \in K : IsFiniteSet(P[k]) /\ Cardinality(P[k]) \in Nat
    BY FS_Subset, FS_CardinalityType
<1>2. w \in [K -> Nat]
    BY <1>1
<1>3. PICK f : Sums(f, K, w) /\ SumFunction(w) = f[K]
    BY <1>2, SumTaken
<1>4. \A s \in SUBSET K : f[s] = IF s = {} THEN 0 ELSE w[Pick(s)] + f[s \ {Pick(s)}]
    <2> DEFINE V(s) == IF s = {} THEN 0 ELSE w[Pick(s)] + f[s \ {Pick(s)}]
    <2>1. f = [s \in SUBSET K |-> V(s)]
        BY <1>3 DEF Sums
    <2> HIDE DEF V
    <2>2. \A s \in SUBSET K : f[s] = V(s)
        BY <2>1
    <2> QED BY <2>2 DEF V
<1> DEFINE T == {n \in Nat : \A s \in SUBSET K : Cardinality(s) = n => f[s] = Cardinality(In(s))}
<1>5. \A s \in SUBSET K : IsFiniteSet(s)
    BY FS_Subset
<1>6. 0 \in T
    <2> SUFFICES ASSUME NEW s \in SUBSET K, Cardinality(s) = 0 PROVE f[s] = Cardinality(In(s))
        OBVIOUS
    <2>1. s = {}
        BY <1>5, FS_EmptySet
    <2>2. In(s) = {} /\ f[s] = 0
        BY <1>4, <2>1
    <2> QED BY <2>2, FS_EmptySet
<1>7. ASSUME NEW n \in Nat, n \in T PROVE n + 1 \in T
    <2> SUFFICES ASSUME NEW s \in SUBSET K, Cardinality(s) = n + 1 PROVE f[s] = Cardinality(In(s))
        OBVIOUS
    <2> DEFINE x == Pick(s)  r == s \ {x}
    <2>1. s # {}
        BY FS_EmptySet
    <2>2. x \in s /\ Cardinality(r) = n /\ r \in SUBSET K /\ s = r \cup {x} /\ x \notin r
        <3>1. IsFiniteSet(s)
            BY <1>5
        <3>2. x \in s /\ Cardinality(r) = Cardinality(s) - 1
            BY <2>1, <3>1, WithoutOne
        <3> HIDE DEF x
        <3> QED BY <3>2
    <2>3. f[s] = w[x] + f[r] /\ w[x] = Cardinality(P[x]) /\ f[r] = Cardinality(In(r))
        BY <1>4, <1>7, <2>1, <2>2
    <2> HIDE DEF x, r
    <2>4. In(s) = P[x] \cup In(r) /\ P[x] \cap In(r) = {}
        BY <2>2
    <2>5. IsFiniteSet(P[x]) /\ IsFiniteSet(In(r))
        BY <1>1, <2>2, FS_Subset
    <2> HIDE DEF In, T
    <2>6. Cardinality(P[x] \cup In(r)) = Cardinality(P[x]) + Cardinality(In(r))
        <3>1. Cardinality(P[x] \cup In(r)) = Cardinality(P[x]) + Cardinality(In(r)) - Cardinality(P[x] \cap In(r))
            BY <2>5, FS_Union
        <3>2. Cardinality(P[x]) \in Nat /\ Cardinality(In(r)) \in Nat /\ Cardinality(P[x] \cap In(r)) = 0
            BY <2>4, <2>5, FS_CardinalityType, FS_EmptySet
        <3> QED BY <3>1, <3>2
    <2> QED BY <2>3, <2>4, <2>6
<1>8. \A n \in Nat : n \in T
    <2> HIDE DEF T
    <2> QED BY <1>6, <1>7, EveryNumber
<1>9. Cardinality(K) \in Nat
    BY FS_CardinalityType
<1>10. f[K] = Cardinality(In(K))
    BY <1>8, <1>9
<1> QED BY <1>3, <1>10

\* A band and the values in it; bands of which no two share a value; bands that leave out no number up to the
\* top; values that are numbers.
Banded(band, v) == band[1] <= v /\ v <= band[2]
Apart(bands, m) ==
    DOMAIN bands = 1 .. m /\ \A v \in Int : \A h, i \in 1 .. m : Banded(bands[h], v) /\ Banded(bands[i], v) => h = i
Covering(bands, m, top) == \A v \in 0 .. top : \E i \in 1 .. m : Banded(bands[i], v)
Figures(values, n) == DOMAIN values = 1 .. n /\ \A j \in 1 .. n : values[j] \in Int
\* So do bands that do not overlap: to the number of the values that are in one.
LEMMA BandsSum ==
    ASSUME NEW n \in Nat, NEW values, Figures(values, n), NEW m \in Nat, NEW bands, Apart(bands, m)
    PROVE  SumFunction(Spread(values, bands)) = Cardinality({j \in 1 .. n : \E i \in 1 .. m : Banded(bands[i], values[j])})
<1> DEFINE P == [i \in 1 .. m |-> {j \in 1 .. n : Banded(bands[i], values[j])}]
           w == Spread(values, bands)
<1>1. IsFiniteSet(1 .. n) /\ IsFiniteSet(1 .. m)
    BY FS_Interval
<1>2. w = [i \in 1 .. m |-> Cardinality(P[i])]
    BY DEF Spread, Banded, Figures, Apart
<1>3. (\A i \in 1 .. m : P[i] \subseteq 1 .. n) /\ \A h, i \in 1 .. m : \A j \in 1 .. n : j \in P[h] /\ j \in P[i] => h = i
    BY DEF Figures, Apart
<1>4. {j \in 1 .. n : \E i \in 1 .. m : j \in P[i]} = {j \in 1 .. n : \E i \in 1 .. m : Banded(bands[i], values[j])}
    OBVIOUS
<1> HIDE DEF P, w
<1>5. SumFunction(w) = Cardinality({j \in 1 .. n : \E i \in 1 .. m : j \in P[i]})
    <2> DEFINE D == 1 .. n  M == 1 .. m
    <2>1. IsFiniteSet(D) /\ IsFiniteSet(M) /\ (\A i \in M : P[i] \subseteq D) /\ (\A h, i \in M : \A j \in D : j \in P[h] /\ j \in P[i] => h = i)
        BY <1>1, <1>3
    <2>2. w = [i \in M |-> Cardinality(P[i])]
        BY <1>2
    <2> HIDE DEF D, M
    <2>3. SumFunction(w) = Cardinality({j \in D : \E i \in M : j \in P[i]})
        BY <2>1, <2>2, PartsSum
    <2> QED BY <2>3 DEF D, M
<1> QED BY <1>4, <1>5 DEF w

\* If each value has a band, to the number of the values.
LEMMA BandsHold ==
    ASSUME NEW n \in Nat, NEW values, Figures(values, n), NEW m \in Nat, NEW bands, Apart(bands, m),
           NEW top \in Int, Covering(bands, m, top), \A j \in 1 .. n : values[j] \in 0 .. top
    PROVE  SumFunction(Spread(values, bands)) = n
<1>1. {j \in 1 .. n : \E i \in 1 .. m : Banded(bands[i], values[j])} = 1 .. n
    BY DEF Covering
<1>2. SumFunction(Spread(values, bands)) = Cardinality({j \in 1 .. n : \E i \in 1 .. m : Banded(bands[i], values[j])})
    BY BandsSum
<1>3. Cardinality(1 .. n) = n
    BY FS_Interval
<1> QED BY <1>1, <1>2, <1>3

\* The bands of the code.
LEMMA BandsAre ==
    /\ Apart(DepthBands, 5) /\ Apart(ResponseBands, 5) /\ Apart(AuthorityBands, 5) /\ Apart(ReadinessBands, 4)
    /\ Covering(DepthBands, 5, Endless) /\ Covering(ResponseBands, 5, Endless)
    /\ Covering(AuthorityBands, 5, 100) /\ Covering(ReadinessBands, 4, 100)
    /\ \A v \in Int : v < 0 => ~ \E i \in 1 .. 5 : Banded(AuthorityBands[i], v)
<1>0. Endless \in Int
    BY SMT DEF Endless
<1>1. /\ DOMAIN DepthBands = 1 .. 5 /\ DepthBands[1] = <<0, 249>> /\ DepthBands[2] = <<250, 599>> /\ DepthBands[3] = <<600, 1199>>
      /\ DepthBands[4] = <<1200, 2399>> /\ DepthBands[5] = <<2400, Endless>>
    BY DEF DepthBands
<1>2. /\ DOMAIN ResponseBands = 1 .. 5 /\ ResponseBands[1] = <<0, 199>> /\ ResponseBands[2] = <<200, 499>>
      /\ ResponseBands[3] = <<500, 999>> /\ ResponseBands[4] = <<1000, 1499>> /\ ResponseBands[5] = <<1500, Endless>>
    BY DEF ResponseBands
<1>3. /\ DOMAIN AuthorityBands = 1 .. 5 /\ AuthorityBands[1] = <<0, 19>> /\ AuthorityBands[2] = <<20, 39>>
      /\ AuthorityBands[3] = <<40, 59>> /\ AuthorityBands[4] = <<60, 79>> /\ AuthorityBands[5] = <<80, 100>>
    BY DEF AuthorityBands
<1>4. /\ DOMAIN ReadinessBands = 1 .. 4 /\ ReadinessBands[1] = <<80, 100>> /\ ReadinessBands[2] = <<60, 79>>
      /\ ReadinessBands[3] = <<40, 59>> /\ ReadinessBands[4] = <<0, 39>>
    BY DEF ReadinessBands
<1>5. \A i \in 1 .. 5 : i \in {1, 2, 3, 4, 5}
    OBVIOUS
<1>6. Apart(DepthBands, 5)
    BY <1>0, <1>1, <1>5 DEF Apart, Banded
<1>7. Apart(ResponseBands, 5)
    BY <1>0, <1>2, <1>5 DEF Apart, Banded
<1>8. Apart(AuthorityBands, 5)
    BY <1>3, <1>5 DEF Apart, Banded
<1>9. Apart(ReadinessBands, 4)
    BY <1>4 DEF Apart, Banded
<1>10. Covering(DepthBands, 5, Endless) /\ Covering(ResponseBands, 5, Endless)
    BY <1>0, <1>1, <1>2 DEF Covering, Banded
<1>11. Covering(AuthorityBands, 5, 100) /\ Covering(ReadinessBands, 4, 100)
    BY <1>3, <1>4 DEF Covering, Banded
<1>12. \A v \in Int : v < 0 => ~ \E i \in 1 .. 5 : Banded(AuthorityBands[i], v)
    BY <1>3, <1>5 DEF Banded
<1> QED BY <1>6, <1>7, <1>8, <1>9, <1>10, <1>11, <1>12

\* The numbers of some pages, none of them missing.
LEMMA NumbersAre ==
    ASSUME NEW b, PagesGood(b.pages), \A q \in Range(b.pages) : Sized(q), NEW field \in {"words", "ms"}
    PROVE  /\ Len(ByNumber(b, field)) \in Nat /\ DOMAIN Numbers(b, field) = 1 .. Len(ByNumber(b, field))
           /\ Numbers(b, field) \in Seq(Int) /\ Len(Numbers(b, field)) = Len(ByNumber(b, field))
           /\ \A j \in 1 .. Len(ByNumber(b, field)) : Numbers(b, field)[j] \in 0 .. Endless
<1> DEFINE S == {p \in Range(b.pages) : p[field] # NotGiven}
           before == {p \in S \X S : p[1][field] < p[2][field] \/ (p[1][field] = p[2][field] /\ p[1].url < p[2].url)}
           r == ByNumber(b, field)
<1>1. r = Ranked(S, before)
    BY DEF ByNumber, Sorted
<1>2. IsFiniteSet(S)
    <2>1. IsFiniteSet(Range(b.pages))
        BY RangeOf DEF PagesGood
    <2> QED BY <2>1, FS_Subset
<1>3. Endless \in Int
    BY SMT DEF Endless
<1>4. \A p \in S : p[field] \in 0 .. Endless
    <2> SUFFICES ASSUME NEW p \in S PROVE p[field] \in 0 .. Endless
        OBVIOUS
    <2>1. p[field] \in -1 .. Endless
        BY DEF Sized
    <2> QED BY <1>3, <2>1 DEF NotGiven
<1>5. r \in Seq(S) /\ Len(r) = Cardinality(S) /\ DOMAIN r = 1 .. Cardinality(S) /\ Cardinality(S) \in Nat
    <2> HIDE DEF S, before, r
    <2>1. Ranked(S, before) \in Seq(S) /\ Len(Ranked(S, before)) = Cardinality(S) /\ DOMAIN Ranked(S, before) = 1 .. Cardinality(S)
        BY <1>2, SortedSet
    <2>2. Cardinality(S) \in Nat
        BY <1>2, FS_CardinalityType
    <2> QED BY <1>1, <2>1, <2>2
<1>6. Numbers(b, field) = [j \in DOMAIN r |-> r[j][field]]
    BY DEF Numbers
<1> HIDE DEF r, S, before
<1>7. \A j \in 1 .. Len(r) : r[j][field] \in 0 .. Endless /\ r[j][field] \in Int
    <2>1. \A n \in 0 .. Endless : n \in Int
        BY <1>3
    <2> QED BY <1>4, <1>5, <2>1
<1> QED BY <1>5, <1>6, <1>7 DEF r

\* A band each: the pages by their words or times.
LEMMA NumbersSpread ==
    ASSUME NEW b, PagesGood(b.pages), \A q \in Range(b.pages) : Sized(q)
    PROVE  /\ SumFunction(Spread(Numbers(b, "words"), DepthBands)) = Len(Numbers(b, "words"))
           /\ SumFunction(Spread(Numbers(b, "ms"), ResponseBands)) = Len(Numbers(b, "ms"))
<1>1. Endless \in Int
    BY SMT DEF Endless
<1>2. ASSUME NEW field \in {"words", "ms"}, NEW bands, Apart(bands, 5), Covering(bands, 5, Endless)
      PROVE  SumFunction(Spread(Numbers(b, field), bands)) = Len(Numbers(b, field))
    <2> DEFINE n == Len(ByNumber(b, field))  values == Numbers(b, field)
    <2>1. n \in Nat /\ DOMAIN values = 1 .. n /\ Len(values) = n /\ \A j \in 1 .. n : values[j] \in 0 .. Endless
        BY NumbersAre
    <2> HIDE DEF n, values
    <2>2. Figures(values, n)
        BY <1>1, <2>1 DEF Figures
    <2>3. 5 \in Nat
        OBVIOUS
    <2>4. SumFunction(Spread(values, bands)) = n
        BY <1>1, <1>2, <2>1, <2>2, <2>3, BandsHold
    <2> QED BY <2>1, <2>4 DEF values
<1> QED BY <1>2, BandsAre

\* The answers of the pages, all of which have a score.
LEMMA ReadinessSpread ==
    ASSUME NEW b, b.pages \in Seq(Range(b.pages))
    PROVE  SumFunction(GeoAeo(b).summary) = Len(b.pages)
<1> DEFINE Ready(i) == AnswerReady(b.pages[i])
           D == DOMAIN b.pages
           before == {p \in D \X D : Ready(p[1]) < Ready(p[2]) \/ (Ready(p[1]) = Ready(p[2]) /\ p[1] < p[2])}
           order == Ranked(D, before)
           scores == [j \in DOMAIN order |-> Ready(order[j])]
           n == Len(b.pages)
<1>1. \A p : AnswerReady(p) \in 0 .. 100
    BY DEF AnswerReady
<1>2. GeoAeo(b).summary = Spread(scores, ReadinessBands)
    BY DEF GeoAeo, Sorted
<1>3. D = 1 .. n /\ n \in Nat
    OBVIOUS
<1> HIDE DEF before, D, n
<1>4. IsFiniteSet(1 .. n) /\ Cardinality(1 .. n) = n
    BY <1>3, FS_Interval
<1>5. DOMAIN order = 1 .. n
    <2>1. DOMAIN Ranked(D, before) = 1 .. Cardinality(D)
        BY <1>3, <1>4, SortedSet
    <2> QED BY <1>3, <1>4, <2>1
<1> HIDE DEF order
<1>6. DOMAIN scores = 1 .. n /\ \A j \in 1 .. n : scores[j] \in 0 .. 100
    BY <1>1, <1>5
<1> HIDE DEF scores
<1>7. \A v \in 0 .. 100 : v \in Int
    OBVIOUS
<1>8. Figures(scores, n)
    BY <1>6, <1>7 DEF Figures
<1>9. 4 \in Nat /\ 100 \in Int
    OBVIOUS
<1>10. SumFunction(Spread(scores, ReadinessBands)) = n
    BY <1>3, <1>6, <1>8, <1>9, BandsHold, BandsAre
<1> QED BY <1>2, <1>10 DEF n

\* The numbers up to one are as many.
LEMMA UpToIs == ASSUME NEW n \in Nat PROVE IsFiniteSet(1 .. n) /\ Cardinality(1 .. n) = n
BY FS_Interval

\* A sequence is as long as its places are many, those that pass a test and those that do not.
LEMMA PartsOfSequence ==
    ASSUME NEW X, NEW s \in Seq(X), NEW places \in SUBSET DOMAIN s
    PROVE  /\ Len(Only(s, places)) = Cardinality(places) /\ Len(s) \in Nat
           /\ Cardinality(places) + Cardinality(DOMAIN s \ places) = Len(s)
           /\ Cardinality(places) \in Nat /\ Cardinality(DOMAIN s \ places) \in Nat
<1>1. DOMAIN s = 1 .. Len(s) /\ Len(s) \in Nat
    OBVIOUS
<1>2. IsFiniteSet(DOMAIN s) /\ Cardinality(DOMAIN s) = Len(s)
    BY <1>1, UpToIs
<1>3. Len(Only(s, places)) = Cardinality(places)
    BY <1>1, OnlyTakes
<1> DEFINE D == DOMAIN s
<1> HIDE DEF D
<1>5. IsFiniteSet(places) /\ IsFiniteSet(D \ places)
    BY <1>2, FS_Subset DEF D
<1>6. Cardinality(places \cup (D \ places)) = Cardinality(places) + Cardinality(D \ places) - Cardinality(places \cap (D \ places))
    BY <1>5, FS_Union
<1>7. places \cup (D \ places) = D /\ places \cap (D \ places) = {}
    BY DEF D
<1>8. Cardinality(places) \in Nat /\ Cardinality(D \ places) \in Nat /\ Cardinality(places \cap (D \ places)) = 0
    BY <1>5, <1>7, FS_CardinalityType, FS_EmptySet
<1>9. Cardinality(places) + Cardinality(D \ places) = Len(s)
    <2>1. Cardinality(places \cup (D \ places)) = Len(s)
        BY <1>2, <1>7 DEF D
    <2> QED BY <1>1, <1>6, <1>8, <2>1
<1> QED BY <1>1, <1>3, <1>8, <1>9 DEF D

\* The referring domains: those with a score in a band each, the others counted apart.
LEMMA AuthorityAdds ==
    ASSUME NEW c, Marketed(c)
    PROVE  SumFunction(AuthorityDistribution(c).bands) + AuthorityDistribution(c).unscored = Len(c.backlinks)
<1> DEFINE B == c.backlinks
           values == [i \in DOMAIN B |-> B[i].score]
           none == {i \in DOMAIN B : B[i].score = NotGiven}
           n == Len(B)
<1>1. B \in Seq(Range(B)) /\ DOMAIN B = 1 .. n /\ n \in Nat
    BY DEF Marketed
<1>2. \A i \in 1 .. n : values[i] \in -1 .. 100
    BY <1>1 DEF Marketed, Range
<1>3. Figures(values, n)
    <2>1. \A v \in -1 .. 100 : v \in Int
        OBVIOUS
    <2> QED BY <1>1, <1>2, <2>1 DEF Figures
<1>4. Len(Only(B, none)) = Cardinality(none) /\ Cardinality(none) + Cardinality(DOMAIN B \ none) = n
      /\ Cardinality(none) \in Nat /\ Cardinality(DOMAIN B \ none) \in Nat
    <2> HIDE DEF values
    <2>1. none \in SUBSET DOMAIN B
        OBVIOUS
    <2> HIDE DEF none, B
    <2> QED BY <1>1, <2>1, PartsOfSequence DEF n
<1>5. /\ AuthorityDistribution(c).bands = Spread(values, AuthorityBands)
      /\ AuthorityDistribution(c).unscored = Len(Only(B, none))
    BY DEF AuthorityDistribution, Where
<1>6. none = {i \in 1 .. n : values[i] = -1}
    BY <1>1 DEF NotGiven
<1> HIDE DEF values, n, B, none
<1>7. {j \in 1 .. n : \E i \in 1 .. 5 : Banded(AuthorityBands[i], values[j])} = DOMAIN B \ none
    <2>1. ASSUME NEW j \in 1 .. n
          PROVE  (\E i \in 1 .. 5 : Banded(AuthorityBands[i], values[j])) <=> values[j] # -1
        <3>1. values[j] \in 0 .. 100 \/ values[j] = -1
            BY <1>2, <2>1
        <3>2. CASE values[j] = -1
            <4>1. values[j] \in Int /\ values[j] < 0
                BY <3>2
            <4> QED BY <3>2, <4>1, BandsAre
        <3>3. CASE values[j] \in 0 .. 100
            BY <3>3, BandsAre DEF Covering
        <3> QED BY <3>1, <3>2, <3>3
    <2> QED BY <1>1, <1>6, <2>1
<1>8. SumFunction(Spread(values, AuthorityBands)) = Cardinality({j \in 1 .. n : \E i \in 1 .. 5 : Banded(AuthorityBands[i], values[j])})
    <2>1. 5 \in Nat
        OBVIOUS
    <2> QED BY <1>1, <1>3, <2>1, BandsSum, BandsAre
<1>9. SumFunction(Spread(values, AuthorityBands)) = Cardinality(DOMAIN B \ none)
    BY <1>7, <1>8
<1>10. SumFunction(Spread(values, AuthorityBands)) + Len(Only(B, none)) = n
    BY <1>4, <1>9
<1>11. n = Len(c.backlinks)
    BY DEF n, B
<1> QED BY <1>5, <1>10, <1>11

\* The pages: those with a number of words in a band each, the others counted apart.
LEMMA DepthAdds ==
    ASSUME NEW b, NEW c, PagesGood(b.pages), \A q \in Range(b.pages) : Sized(q)
    PROVE  SumFunction(ContentAudit(b, c).depth) + ContentAudit(b, c).unmeasured = Len(b.pages)
<1>1. /\ ContentAudit(b, c).depth = Spread(Numbers(b, "words"), DepthBands)
      /\ ContentAudit(b, c).unmeasured = Len(b.pages) - Len(Numbers(b, "words"))
    BY DEF ContentAudit
<1>2. SumFunction(Spread(Numbers(b, "words"), DepthBands)) = Len(Numbers(b, "words"))
    BY NumbersSpread
<1>3. "words" \in {"words", "ms"}
    OBVIOUS
<1>4. Len(Numbers(b, "words")) \in Nat
    BY <1>3, NumbersAre
<1>5. Len(b.pages) \in Nat
    BY DEF PagesGood
<1> QED BY <1>1, <1>2, <1>4, <1>5

\* Nothing adds up to 0.
LEMMA NothingAdds == SumFunction(<<>>) = 0
<1> DEFINE E == {}  none == [k \in E |-> 0]
<1>1. none = <<>>
    OBVIOUS
<1>2. IsFiniteSet(E) /\ none \in [E -> Nat]
    BY FS_EmptySet
<1> HIDE DEF none
<1>3. PICK f : Sums(f, E, none) /\ SumFunction(none) = f[E]
    <2> HIDE DEF E
    <2> QED BY <1>2, SumTaken
<1>4. f[E] = 0
    BY <1>3 DEF Sums
<1> QED BY <1>1, <1>3, <1>4

\* The times: each in a band, if there are any.
LEMMA TimesAdd ==
    ASSUME NEW b, NEW c, PagesGood(b.pages), \A q \in Range(b.pages) : Sized(q)
    PROVE  SumFunction(BaselinePerformance(b, c).distribution) = Len(BaselinePerformance(b, c).times)
<1> DEFINE times == Numbers(b, "ms")  r == ByNumber(b, "ms")
<1>1. /\ BaselinePerformance(b, c).times = Reverse(r)
      /\ BaselinePerformance(b, c).distribution = IF times = <<>> THEN <<>> ELSE Spread(times, ResponseBands)
    BY DEF BaselinePerformance
<1>2. SumFunction(Spread(times, ResponseBands)) = Len(times)
    BY NumbersSpread
<1>3. Len(r) \in Nat /\ times \in Seq(Int) /\ Len(times) = Len(r)
    <2>1. "ms" \in {"words", "ms"}
        OBVIOUS
    <2> QED BY <2>1, NumbersAre
<1> HIDE DEF times, r
<1>4. Len(Reverse(r)) = Len(r)
    BY <1>3 DEF Reverse
<1>5. CASE times = <<>>
    BY <1>1, <1>3, <1>4, <1>5, NothingAdds
<1>6. CASE times # <<>>
    BY <1>1, <1>2, <1>3, <1>4, <1>6
<1> QED BY <1>5, <1>6

\* The keywords: each in a stage of the funnel.
LEMMA FunnelAdds ==
    ASSUME NEW b, NEW c, Marketed(c), c.keywords \in Seq(Range(c.keywords))
    PROVE  LET funnel == KeywordUniverse(b, c).funnel
           IN  SumFunction([s \in DOMAIN funnel |-> funnel[s][1]]) = Len(c.keywords)
<1> DEFINE kw == c.keywords
           funnel == KeywordUniverse(b, c).funnel
           K == {"TOFU", "MOFU", "BOFU"} \cup {Stage(k) : k \in {k \in Range(kw) : Stage(k) = "Unclassified"}}
           P == [s \in K |-> {i \in DOMAIN kw : Stage(kw[i]) = s}]
           D == DOMAIN kw
           w == [s \in DOMAIN funnel |-> funnel[s][1]]
<1>1. DOMAIN funnel = K /\ \A s \in K : funnel[s][1] = Len(Only(kw, {i \in DOMAIN kw : Stage(kw[i]) = s}))
    BY DEF KeywordUniverse, Where
<1>2. \A s \in K : Len(Only(kw, P[s])) = Cardinality(P[s])
    <2> SUFFICES ASSUME NEW s \in K PROVE Len(Only(kw, P[s])) = Cardinality(P[s])
        OBVIOUS
    <2>1. P[s] \in SUBSET DOMAIN kw
        OBVIOUS
    <2> HIDE DEF P
    <2> QED BY <2>1, PartsOfSequence
<1>3. w = [s \in K |-> Cardinality(P[s])]
    <2>1. \A s \in K : P[s] = {i \in DOMAIN kw : Stage(kw[i]) = s}
        OBVIOUS
    <2>2. \A s \in K : funnel[s][1] = Cardinality(P[s])
        BY <1>1, <1>2, <2>1
    <2> HIDE DEF funnel, P, K
    <2> QED BY <1>1, <2>2
<1>4. K \subseteq {"TOFU", "MOFU", "BOFU", "Unclassified"} /\ \A i \in D : Stage(kw[i]) \in K
    <2>1. \A i \in D : kw[i] \in Range(kw) /\ kw[i].stage \in Stages
        BY DEF Marketed, Range
    <2>2. \A i \in D : Stage(kw[i]) \in {"TOFU", "MOFU", "BOFU", "Unclassified"}
        BY <2>1 DEF Stage, Stages
    <2> QED BY <2>1, <2>2
<1>5. IsFiniteSet(K)
    <2> DEFINE at == [i \in 1 .. 4 |-> <<"TOFU", "MOFU", "BOFU", "Unclassified">>[i]]
           all == {"TOFU", "MOFU", "BOFU", "Unclassified"}
    <2>1. 4 \in Nat
        OBVIOUS
    <2>2. IsFiniteSet(1 .. 4)
        BY <2>1, UpToIs
    <2>3. DOMAIN at = 1 .. 4 /\ all = {at[i] : i \in 1 .. 4}
        OBVIOUS
    <2>4. K \subseteq all
        BY <1>4
    <2> HIDE DEF at, K, all
    <2>5. IsFiniteSet(all)
        BY <2>2, <2>3, ImageOf
    <2> QED BY <2>4, <2>5, FS_Subset
<1>6. IsFiniteSet(D) /\ Cardinality(D) = Len(kw)
    <2>1. D = 1 .. Len(kw) /\ Len(kw) \in Nat
        OBVIOUS
    <2> HIDE DEF D
    <2> QED BY <2>1, FS_Interval
<1>7. (\A s \in K : P[s] \subseteq D) /\ \A s, t \in K : \A i \in D : i \in P[s] /\ i \in P[t] => s = t
    <2> HIDE DEF K
    <2> QED OBVIOUS
<1>8. {i \in D : \E s \in K : i \in P[s]} = D
    <2>1. \A i \in D : i \in P[Stage(kw[i])]
        <3> HIDE DEF K
        <3> QED BY <1>4
    <2> HIDE DEF P, K
    <2> QED BY <1>4, <2>1
<1> HIDE DEF P, K, D, w
<1>9. SumFunction(w) = Cardinality({i \in D : \E s \in K : i \in P[s]})
    BY <1>3, <1>5, <1>6, <1>7, PartsSum
<1> QED BY <1>6, <1>8, <1>9 DEF w

\* The actions: each in its phase, and the weeks of a phase before those of the next.
LEMMA PhasesAdd ==
    ASSUME NEW b, IsFiniteSet(b.actions), \A a \in b.actions : Timed(a)
    PROVE  LET phases == PhaseSummary(b)
           IN  /\ SumFunction([f \in DOMAIN phases |-> phases[f].actions]) = Cardinality(b.actions)
               /\ \A f, g \in DOMAIN phases : f < g => phases[f].to < phases[g].from
<1> DEFINE A == b.actions
           K == {a.phase : a \in A}
           P == [f \in K |-> {a \in A : a.phase = f}]
           phases == PhaseSummary(b)
           w == [f \in DOMAIN phases |-> phases[f].actions]
           Weeks(f) == {a.week : a \in {a \in A : a.phase = f}}
<1>1. /\ DOMAIN phases = K
      /\ \A f \in K : /\ phases[f].actions = Cardinality({a \in A : a.phase = f})
                      /\ phases[f].from = (CHOOSE n \in Weeks(f) : \A v \in Weeks(f) : n <= v)
                      /\ phases[f].to = (CHOOSE n \in Weeks(f) : \A v \in Weeks(f) : n >= v)
    BY DEF PhaseSummary
<1> HIDE DEF phases
<1>2. w = [f \in K |-> Cardinality(P[f])]
    <2>1. \A f \in K : phases[f].actions = Cardinality(P[f])
        BY <1>1
    <2> HIDE DEF K, P
    <2> QED BY <1>1, <2>1
<1>3. IsFiniteSet(K)
    <2> DEFINE at == [a \in A |-> a.phase]
    <2>1. DOMAIN at = A /\ K = {at[a] : a \in A}
        OBVIOUS
    <2> HIDE DEF at, K
    <2> QED BY <2>1, ImageOf
<1>4. (\A f \in K : P[f] \subseteq A) /\ \A f, g \in K : \A a \in A : a \in P[f] /\ a \in P[g] => f = g
    <2> HIDE DEF K
    <2> QED OBVIOUS
<1>5. {a \in A : \E f \in K : a \in P[f]} = A
    <2>1. \A a \in A : a.phase \in K /\ a \in P[a.phase]
        OBVIOUS
    <2> HIDE DEF K, P
    <2> QED BY <2>1
<1>6. SumFunction(w) = Cardinality(A)
    <2> HIDE DEF K, P, w
    <2>1. SumFunction(w) = Cardinality({a \in A : \E f \in K : a \in P[f]})
        BY <1>2, <1>3, <1>4, PartsSum
    <2> QED BY <1>5, <2>1
<1>7. \A f \in K : Weeks(f) # {} /\ Weeks(f) \subseteq 1 .. 8 /\ \A n \in Weeks(f) : Phase(n) = f
    BY DEF Timed
<1> HIDE DEF Weeks
<1>8. ASSUME NEW f \in K PROVE phases[f].from \in Weeks(f) /\ phases[f].to \in Weeks(f)
    <2> DEFINE S == Weeks(f)
    <2>1. S # {} /\ S \subseteq 1 .. 8
        BY <1>7, <1>8
    <2>2. phases[f].from = (CHOOSE n \in S : \A v \in S : n <= v) /\ phases[f].to = CHOOSE n \in S : \A v \in S : n >= v
        BY <1>1, <1>8
    <2> HIDE DEF S
    <2>3. S \subseteq Nat /\ S \in SUBSET (-1 .. 100)
        BY <2>1
    <2>4. \E n \in S : \A v \in S : n <= v
        BY <2>1, <2>3, LeastNumber
    <2>5. (CHOOSE n \in S : \A v \in S : n >= v) \in S
        BY <2>1, <2>3, Largest
    <2>6. (CHOOSE n \in S : \A v \in S : n <= v) \in S
        BY <2>4
    <2> QED BY <2>2, <2>5, <2>6 DEF S
<1>9. ASSUME NEW f \in K, NEW g \in K, f < g PROVE phases[f].to < phases[g].from
    <2>1. PICK m \in 1 .. 8 : m = phases[f].to /\ Phase(m) = f
        BY <1>7, <1>8
    <2>2. PICK n \in 1 .. 8 : n = phases[g].from /\ Phase(n) = g
        BY <1>7, <1>8
    <2> QED BY <1>9, <2>1, <2>2 DEF Phase
<1> QED BY <1>1, <1>6, <1>9 DEF phases, w

\* What is divided adds up.
LEMMA PartsDoAddUp == ASSUME NEW b, NEW c, Right(b, c) PROVE PartsAddUp(b, c)
<1>1. PagesGood(b.pages) /\ (\A q \in Range(b.pages) : Sized(q)) /\ Marketed(c) /\ c.keywords \in Seq(Range(c.keywords))
      /\ IsFiniteSet(b.actions) /\ \A a \in b.actions : Timed(a)
    BY DEF Right
<1>2. SumFunction(ContentAudit(b, c).depth) + ContentAudit(b, c).unmeasured = Len(b.pages)
    BY <1>1, DepthAdds
<1>3. SumFunction(AuthorityDistribution(c).bands) + AuthorityDistribution(c).unscored = Len(c.backlinks)
    BY <1>1, AuthorityAdds
<1>4. SumFunction([s \in DOMAIN KeywordUniverse(b, c).funnel |-> KeywordUniverse(b, c).funnel[s][1]]) = Len(c.keywords)
    BY <1>1, FunnelAdds
<1>5. SumFunction(BaselinePerformance(b, c).distribution) = Len(BaselinePerformance(b, c).times)
    BY <1>1, TimesAdd
<1>6. SumFunction(GeoAeo(b).summary) = Len(b.pages)
    <2>1. b.pages \in Seq(Range(b.pages))
        BY <1>1 DEF PagesGood
    <2> QED BY <2>1, ReadinessSpread
<1>7. /\ SumFunction([f \in DOMAIN PhaseSummary(b) |-> PhaseSummary(b)[f].actions]) = Cardinality(b.actions)
      /\ \A f, g \in DOMAIN PhaseSummary(b) : f < g => PhaseSummary(b)[f].to < PhaseSummary(b)[g].from
    BY <1>1, PhasesAdd
<1> QED BY <1>2, <1>3, <1>4, <1>5, <1>6, <1>7 DEF PartsAddUp

\* A page that fails is a candidate already, so the map of the workbook adds none.
LEMMA RedirectsSame ==
    ASSUME NEW b, NEW c, Right(b, c)
    PROVE  {r.source : r \in c.redirects} = {r.source : r \in RedirectMap(b, c).map}
<1> DEFINE listed == {r.source : r \in c.redirects}
           failing == {p \in Range(b.pages) : p.status >= 400 /\ p.url \notin listed}
<1>1. RedirectMap(b, c).map = c.redirects \cup {[source |-> p.url, target |-> 0] : p \in failing}
    BY DEF RedirectMap
<1>2. ASSUME NEW p \in Range(b.pages), p.status >= 400 PROVE p.url \in listed
    <2>1. p.status \in Nat
        BY DEF Right, Sized
    <2>2. p.status \notin {200, 301, 302}
        BY <1>2, <2>1
    <2>3. [source |-> p.url, target |-> RedirectTarget(p, b.pages)] \in c.redirects
        BY <2>2 DEF Right, ListsMade, Redirects
    <2> QED BY <2>3
<1>3. failing = {}
    BY <1>2
<1> QED BY <1>1, <1>3

\* What is fixed and was no candidate is a page that fails: one that answers, and does not name itself, was.
LEMMA FixesFailing ==
    ASSUME NEW b, NEW c, Right(b, c), NEW f \in CanonicalFixes(b, c).fixes, f.source = "crawl"
    PROVE  \E p \in Range(b.pages) : p.url = f.url /\ p.status # 200
<1>1. PICK p \in Range(b.pages) : f = [url |-> p.url, source |-> "crawl"] /\ CanonicalState(p) # "Match" /\ p.url \notin c.canonicals
    BY DEF CanonicalFixes
<1>2. p.canonical # "self"
    <2>1. p.canonical = "self" => CanonicalState(p) = "Match"
        BY Zenon DEF CanonicalState
    <2> QED BY <1>1, <2>1
<1>3. p.status # 200
    BY <1>1, <1>2 DEF Right, ListsMade, Canonicals
<1> QED BY <1>1, <1>3

\* A category without a number is not published; one that is has the coverage.
LEMMA ScoresCovered ==
    ASSUME NEW b, NEW c, Right(b, c), NEW k \in DOMAIN ExecutiveReport(b, c).scores, ExecutiveReport(b, c).scores[k] # NotGiven
    PROVE  Coverage[k] >= 70
<1> DEFINE places == {i \in DOMAIN CategoryOrder : CategoryOrder[i] \in DOMAIN b.categories}
<1>1. ExecutiveReport(b, c).scores = [x \in Range(Only(CategoryOrder, places)) |-> Shown(b, x)]
    BY DEF ExecutiveReport, Scores, Categories, Where
<1>2. CategoryOrder \in Seq(Range(CategoryOrder)) /\ places \in SUBSET DOMAIN CategoryOrder
    <2>1. places \in SUBSET DOMAIN CategoryOrder
        OBVIOUS
    <2> HIDE DEF places
    <2>2. CategoryOrder \in Seq(Range(CategoryOrder))
        <3>1. CategoryOrder = [i \in 1 .. 10 |-> CategoryOrder[i]]
            BY DEF CategoryOrder
        <3>2. CategoryOrder \in [1 .. 10 -> Range(CategoryOrder)] /\ 10 \in Nat
            BY <3>1 DEF Range
        <3>3. \A n \in Nat : \A S : \A s \in [1 .. n -> S] : s \in Seq(S)
            OBVIOUS
        <3> QED BY <3>2, <3>3
    <2> QED BY <2>1, <2>2
<1>3. \A x \in Range(Only(CategoryOrder, places)) : \E i \in places : CategoryOrder[i] = x
    <2> HIDE DEF places
    <2> QED BY <1>2, OnlyRange
<1>4. k \in DOMAIN b.categories
    BY <1>1, <1>3
<1>5. b.categories[k].published
    BY <1>1 DEF Shown
<1> QED BY <1>4, <1>5 DEF Right, Graver

\* The documents agree: what is divided into bands, stages or phases adds up to the whole, the phases of
\* the timeline follow one another, the redirects are the same in the CSV file and the workbook, no canonical
\* is fixed that was no candidate unless its page fails, and a score is a number only where the evidence
\* covers 70 per cent (xlsx_workbooks.py, run_data.py, client_report_pdf.py).
THEOREM DocumentsDoAgree == SpecTree => []DocumentsAgree
<1>1. TreeInv => DocumentsAgree
    <2> SUFFICES ASSUME TreeInv, step = "deck" PROVE DocumentsAgree
        BY DEF DocumentsAgree
    <2> DEFINE files == folder.files
    <2>1. Right(book, content) /\ files = Files3(book, content)
        BY DEF TreeInv, StepFiles, TreeSteps
    <2>2. HasWorkbooks(files, book, content) /\ Has(files, "audit", "pdf", [Enterprise_SEO |-> ExecutiveReport(book, content)])
        BY <2>1, ThreeFiles DEF Right
    <2>3. /\ files[<<"audit", "Enterprise_SEO", "pdf">>] = ExecutiveReport(book, content)
          /\ files[<<"fixes", "Redirect_Map", "xlsx">>] = RedirectMap(book, content)
          /\ files[<<"fixes", "Canonical_Fixes", "xlsx">>] = CanonicalFixes(book, content)
        BY <2>2 DEF HasWorkbooks, Has, FixWorkbooks
    <2> HIDE DEF files
    <2>4. PartsAddUp(book, content)
        BY <2>1, PartsDoAddUp
    <2>5. {r.source : r \in content.redirects} = {r.source : r \in RedirectMap(book, content).map}
        BY <2>1, RedirectsSame
    <2>6. \A f \in CanonicalFixes(book, content).fixes : f.source = "crawl" => \E p \in Range(book.pages) : p.url = f.url /\ p.status # 200
        BY <2>1, FixesFailing
    <2>7. \A k \in DOMAIN ExecutiveReport(book, content).scores : ExecutiveReport(book, content).scores[k] # NotGiven => Coverage[k] >= 70
        BY <2>1, ScoresCovered
    <2> QED BY <2>3, <2>4, <2>5, <2>6, <2>7 DEF DocumentsAgree, files
<1> QED BY <1>1, TreeHolds, PTL
=============================================================================
