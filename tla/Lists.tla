-------------------------------- MODULE Lists --------------------------------
(***************************************************************************)
(* Lists of the members of finite sets.  An order is given as the set of   *)
(* its pairs, so that it can be spoken of in a theorem.  Lists of lists.   *)
(***************************************************************************)
EXTENDS Integers, Sequences, FiniteSets

\* The members of a set, each after those that are before it.
InOrder(S, before) ==
    [k \in 1..Cardinality(S) |->
        CHOOSE x \in S : Cardinality({y \in S : <<y, x>> \in before}) = k - 1]

Ascending(numbers) == {p \in numbers \X numbers : p[1] < p[2]}

\* Numbers, the least first.
Sorted(numbers) == InOrder(numbers, Ascending(numbers))

\* What a sequence has at some of its places.
At(s, places) == LET kept == Sorted(places) IN [k \in DOMAIN kept |-> s[kept[k]]]

\* flat(seqs)[n]: the first n sequences, one after the other.
flat(seqs) ==
    LET f[n \in 0..Len(seqs)] == IF n = 0 THEN <<>> ELSE f[n - 1] \o seqs[n] IN f
Flat(seqs) == flat(seqs)[Len(seqs)]
=============================================================================
