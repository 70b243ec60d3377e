------------------------------ MODULE Selection ------------------------------
(* Selecting from a sequence in its order, the list comprehensions and the   *)
(* sorted listings of the code.  A recursive function stands for SelectSeq,  *)
(* so that what it returns can be proved.                                    *)
EXTENDS Integers, Sequences, FiniteSets

Kept(s, S) ==
    LET kept[k \in 0..Len(s)] ==
          IF k = 0 THEN <<>>
          ELSE IF s[k] \in S THEN Append(kept[k - 1], s[k]) ELSE kept[k - 1]
    IN kept[Len(s)]

\* s in the order Before; what is alike keeps its order
Sorted(s, Before(_, _)) ==
    LET Ahead(m, n) == Before(s[m], s[n]) \/ (~Before(s[n], s[m]) /\ m < n)
    IN [k \in 1..Len(s) |->
          s[CHOOSE n \in 1..Len(s) : Cardinality({m \in 1..Len(s) : Ahead(m, n)}) = k - 1]]
=============================================================================
