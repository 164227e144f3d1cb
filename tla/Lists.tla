-------------------------------- MODULE Lists --------------------------------
(***************************************************************************)
(* What Python does with lists and dictionaries: a comprehension with a    *)
(* condition, sorted() with a key, and {**g, **f}.                         *)
(***************************************************************************)
EXTENDS Integers, Sequences, FiniteSets

\* The elements of a sequence at these places of it, in their order.
Only(seq, places) ==
    LET taken[n \in Nat] == IF n = 0 THEN <<>>
                            ELSE IF n \in places THEN Append(taken[n - 1], seq[n]) ELSE taken[n - 1]
    IN  taken[Len(seq)]

\* Those that pass a test.
Where(seq, Test(_)) == Only(seq, {i \in DOMAIN seq : Test(seq[i])})

\* One of S that the fewest of S come before: if `before` is an order, none does.
Foremost(S, before) ==
    LET Ahead(x) == Cardinality({y \in S : <<y, x>> \in before})
    IN  CHOOSE x \in S : \A y \in S : Ahead(x) <= Ahead(y)

\* The elements of a finite set, each after those that come before it.
Ranked(S, before) ==
    LET left[n \in Nat] == IF n = 0 THEN S
                           ELSE LET rest == left[n - 1] IN rest \ {Foremost(rest, before)}
    IN  [i \in 1 .. Cardinality(S) |-> Foremost(left[i - 1], before)]
Sorted(S, Before(_, _)) == Ranked(S, {p \in S \X S : Before(p[1], p[2])})

\* The fields of f, and those of g that f does not have.
f ++ g == [x \in DOMAIN f \cup DOMAIN g |-> IF x \in DOMAIN f THEN f[x] ELSE g[x]]
=============================================================================
