--------------------------- MODULE InductionLemmas ---------------------------
(***************************************************************************)
(* Induction over data without an operator for the induction hypothesis:    *)
(* what is proved of a recursive function is the set of the numbers it      *)
(* holds of.  The facts about Selection rest on it.  What is left of a      *)
(* sequence without its first element is stated once here, for the modules  *)
(* whose actions consume a list.                                            *)
(***************************************************************************)
EXTENDS Selection, TLAPS, WellFoundedInduction, SequenceTheorems

\* A set of numbers has a least one.
LEMMA LeastNumber ==
  ASSUME NEW T \in SUBSET Nat, T # {}
  PROVE  \E n \in T : \A m \in T : n <= m
<1>1. PICK n \in T : \A m \in T : ~ (<<m, n>> \in OpToRel(<, Nat))
  BY WFMin, NatLessThanWellFounded
<1>2. \A m \in T : ~ (m < n)
  BY <1>1 DEF OpToRel
<1> QED
  BY <1>2

\* Induction up to a bound.
LEMMA UpToBound ==
  ASSUME NEW n \in Nat, NEW T, 0 \in T,
         \A k \in 1 .. n : k - 1 \in T => k \in T
  PROVE  \A k \in 0 .. n : k \in T
<1> DEFINE Missed == {k \in 0 .. n : k \notin T}
<1> SUFFICES ASSUME Missed # {} PROVE FALSE
  OBVIOUS
<1>1. PICK m \in Missed : \A k \in Missed : m <= k
  <2>1. Missed \in SUBSET Nat
    OBVIOUS
  <2> HIDE DEF Missed
  <2> QED
    BY <2>1, LeastNumber
<1>2. m \in 1 .. n /\ m - 1 \in 0 .. n /\ m - 1 \notin Missed
  BY <1>1
<1> QED
  BY <1>1, <1>2

\* f is computed from its start by a step for each number up to n.
Computed(f, n, V, start, step) ==
    f \in [0 .. n -> V] /\ f[0] = start /\ \A k \in 1 .. n : f[k] = step[k][f[k - 1]]

\* A recursion whose step is a function has a solution.
LEMMA RecursionExists ==
  ASSUME NEW n \in Nat, NEW V, NEW start \in V, NEW step \in [1 .. n -> [V -> V]]
  PROVE  \E f : Computed(f, n, V, start, step)
<1> DEFINE Solved(m) == \E f \in [0 .. m -> V] :
                          f[0] = start /\ \A k \in 1 .. m : f[k] = step[k][f[k - 1]]
           T == {m \in 0 .. n : Solved(m)}
<1>1. Solved(0)
  <2> DEFINE z == [k \in 0 .. 0 |-> start]
  <2>1. z \in [0 .. 0 -> V] /\ z[0] = start /\ 1 .. 0 = {}
    OBVIOUS
  <2> HIDE DEF z
  <2> QED
    BY <2>1
<1>2. ASSUME NEW m \in 1 .. n, Solved(m - 1)
      PROVE  Solved(m)
  <2>1. PICK f \in [0 .. m - 1 -> V] :
          f[0] = start /\ \A k \in 1 .. m - 1 : f[k] = step[k][f[k - 1]]
    BY <1>2
  <2> DEFINE last == step[m][f[m - 1]]
             g == [k \in 0 .. m |-> IF k = m THEN last ELSE f[k]]
  <2>2. last \in V
    BY <2>1
  <2>3. g \in [0 .. m -> V]
    <3> HIDE DEF last
    <3> QED
      BY <2>1, <2>2
  <2>4. g[0] = start /\ g[m] = last /\ \A k \in 0 .. m - 1 : g[k] = f[k]
    <3> HIDE DEF last
    <3> QED
      BY <2>1
  <2> HIDE DEF g
  <2>5. \A k \in 1 .. m : g[k] = step[k][g[k - 1]]
    BY <2>1, <2>4
  <2> QED
    BY <2>3, <2>4, <2>5
<1> HIDE DEF Solved
<1>3. 0 \in T /\ \A k \in 1 .. n : k - 1 \in T => k \in T
  BY <1>1, <1>2
<1>4. n \in T
  <2> HIDE DEF T
  <2>1. \A k \in 0 .. n : k \in T
    BY <1>3, UpToBound
  <2> QED
    BY <2>1
<1>5. Solved(n)
  BY <1>4
<1> QED
  BY <1>5 DEF Solved, Computed

\* What is left of a sequence without its first element.
LEMMA Remaining ==
  ASSUME NEW X, NEW s \in Seq(X), s # <<>>
  PROVE  /\ Head(s) \in X /\ Tail(s) \in Seq(X)
         /\ 1 \in DOMAIN s /\ s[1] = Head(s)
         /\ \A k \in DOMAIN s : k = 1 \/ (k - 1 \in DOMAIN Tail(s) /\ Tail(s)[k - 1] = s[k])
         /\ \A k \in DOMAIN Tail(s) : k + 1 \in DOMAIN s /\ k + 1 # 1 /\ Tail(s)[k] = s[k + 1]
<1>1. /\ Tail(s) \in Seq(X) /\ Len(Tail(s)) = Len(s) - 1 /\ Len(s) \in Nat /\ Len(s) >= 1
      /\ \A k \in 1 .. Len(s) - 1 : Tail(s)[k] = s[k + 1]
      /\ DOMAIN s = 1 .. Len(s) /\ DOMAIN Tail(s) = 1 .. Len(s) - 1
  BY HeadTailProperties
<1>2. Head(s) = s[1] /\ s[1] \in X
  BY <1>1
<1>3. \A k \in 1 .. Len(s) : k = 1 \/ (k - 1 \in 1 .. Len(s) - 1 /\ (k - 1) + 1 = k)
  BY <1>1
<1>4. \A k \in 1 .. Len(s) - 1 : k + 1 \in 1 .. Len(s) /\ k + 1 # 1
  BY <1>1
<1>5. ASSUME NEW k \in DOMAIN s, k # 1
      PROVE  k - 1 \in DOMAIN Tail(s) /\ Tail(s)[k - 1] = s[k]
  <2>1. k - 1 \in 1 .. Len(s) - 1 /\ (k - 1) + 1 = k
    BY <1>1, <1>3, <1>5
  <2>2. Tail(s)[k - 1] = s[(k - 1) + 1]
    BY <1>1, <2>1
  <2> QED
    BY <1>1, <2>1, <2>2
<1>6. 1 \in DOMAIN s
  BY <1>1
<1>7. \A k \in DOMAIN Tail(s) : k + 1 \in DOMAIN s /\ k + 1 # 1 /\ Tail(s)[k] = s[k + 1]
  BY <1>1, <1>4
<1>8. Head(s) \in X /\ Tail(s) \in Seq(X) /\ s[1] = Head(s)
  BY <1>1, <1>2
<1>9. \A k \in DOMAIN s : k = 1 \/ (k - 1 \in DOMAIN Tail(s) /\ Tail(s)[k - 1] = s[k])
  BY <1>5
<1> QED
  BY <1>6, <1>7, <1>8, <1>9, Zenon

\* What is kept of a sequence are its members of the set, at increasing places.
LEMMA KeptInOrder ==
  ASSUME NEW X, NEW s \in Seq(X), NEW S
  PROVE  /\ Kept(s, S) \in Seq(X)
         /\ \E at \in [1 .. Len(Kept(s, S)) -> 1 .. Len(s)] :
              /\ \A j \in 1 .. Len(Kept(s, S)) :
                   Kept(s, S)[j] = s[at[j]] /\ s[at[j]] \in S
              /\ \A i, j \in 1 .. Len(Kept(s, S)) : i < j => at[i] < at[j]
              /\ \A k \in 1 .. Len(s) : s[k] \in S => \E j \in 1 .. Len(Kept(s, S)) : at[j] = k
<1> DEFINE n == Len(s)
           V == Seq(X)
           Next(r, k) == IF s[k] \in S THEN Append(r, s[k]) ELSE r
           step == [k \in 1 .. n |-> [r \in V |-> Next(r, k)]]
           Body(f) == [k \in 0 .. n |-> IF k = 0 THEN <<>> ELSE Next(f[k - 1], k)]
           kept == CHOOSE f : f = Body(f)
           Placed(r, m, at) ==
             /\ at \in [1 .. Len(r) -> 1 .. m]
             /\ \A j \in 1 .. Len(r) : r[j] = s[at[j]] /\ s[at[j]] \in S
             /\ \A i, j \in 1 .. Len(r) : i < j => at[i] < at[j]
             /\ \A k \in 1 .. m : s[k] \in S => \E j \in 1 .. Len(r) : at[j] = k
           Right(m) == kept[m] \in V /\ \E at : Placed(kept[m], m, at)
           T == {m \in 0 .. n : Right(m)}
<1>1. n \in Nat /\ \A k \in 1 .. n : s[k] \in X
  OBVIOUS
<1>2. <<>> \in V /\ step \in [1 .. n -> [V -> V]]
  <2>1. \A r \in V, k \in 1 .. n : Next(r, k) \in V
    BY <1>1
  <2>2. <<>> \in V
    OBVIOUS
  <2> HIDE DEF Next, V, n
  <2> QED
    BY <2>1, <2>2
<1>3. PICK f \in [0 .. n -> V] : f[0] = <<>> /\ \A k \in 1 .. n : f[k] = step[k][f[k - 1]]
  <2>1. n \in Nat
    BY <1>1
  <2> HIDE DEF step, n, V
  <2>2. \E f : Computed(f, n, V, <<>>, step)
    BY <1>2, <2>1, RecursionExists
  <2> QED
    BY <2>2 DEF Computed
<1>4. \A r \in V, k \in 1 .. n : step[k][r] = Next(r, k)
  <2> HIDE DEF Next, V, n
  <2> QED
    OBVIOUS
<1> HIDE DEF step
<1>5. f = Body(f)
  <2> HIDE DEF Next, V
  <2>1. ASSUME NEW k \in 1 .. n PROVE f[k] = Next(f[k - 1], k)
    <3>1. k - 1 \in 0 .. n
      BY <1>1
    <3> HIDE DEF n
    <3>2. f[k - 1] \in V
      BY <1>3, <3>1
    <3> QED
      BY <1>3, <1>4, <3>2
  <2> HIDE DEF n
  <2>2. Body(f) = [k \in 0 .. n |-> f[k]]
    BY <1>1, <1>3, <2>1
  <2> HIDE DEF Body
  <2> QED
    BY <1>3, <2>2
<1>6. kept = Body(kept)
  BY <1>5, Zenon
<1>7. Kept(s, S) = kept[n]
  BY DEF Kept
<1> HIDE DEF kept
<1>8. kept[0] = <<>> /\ \A k \in 1 .. n : kept[k] = Next(kept[k - 1], k)
  <2> HIDE DEF Next
  <2> QED
    BY <1>1, <1>6
<1>9. 0 \in T
  <2> DEFINE none == [j \in {} |-> 0]
  <2>1. Len(<<>>) = 0 /\ 1 .. 0 = {} /\ none \in [{} -> {}]
    OBVIOUS
  <2> HIDE DEF none
  <2>2. Placed(<<>>, 0, none)
    BY <2>1
  <2> HIDE DEF Placed
  <2>3. Right(0)
    BY <1>2, <1>8, <2>2
  <2> HIDE DEF Right
  <2> QED
    BY <1>1, <2>3
<1>10. ASSUME NEW k \in 1 .. n, k - 1 \in T
       PROVE  k \in T
  <2> SUFFICES Right(k)
    <3> HIDE DEF Right
    <3> QED
      OBVIOUS
  <2> DEFINE r == kept[k - 1]
  <2>1. r \in V
    BY <1>10
  <2>2. PICK at : Placed(r, k - 1, at)
    BY <1>10
  <2>3. k - 1 \in Nat /\ s[k] \in X
    BY <1>1
  <2>4. kept[k] = Next(r, k)
    BY <1>8
  <2> HIDE DEF r
  <2>5. CASE s[k] \in S
    <3> DEFINE q == Append(r, s[k])
               to == [j \in 1 .. Len(r) + 1 |-> IF j = Len(r) + 1 THEN k ELSE at[j]]
    <3>1. kept[k] = q
      BY <2>4, <2>5
    <3>2. /\ q \in V /\ Len(q) = Len(r) + 1 /\ q[Len(r) + 1] = s[k] /\ Len(r) \in Nat
          /\ \A j \in 1 .. Len(r) : q[j] = r[j]
      BY <2>1, <2>3
    <3>3. at \in [1 .. Len(r) -> 1 .. k - 1]
      BY <2>2
    <3>4. to \in [1 .. Len(q) -> 1 .. k]
      BY <2>3, <3>2, <3>3
    <3>5. to[Len(r) + 1] = k /\ \A j \in 1 .. Len(r) : to[j] = at[j]
      BY <3>2
    <3> HIDE DEF q, to
    <3>6. \A j \in 1 .. Len(q) : j \in 1 .. Len(r) \/ j = Len(r) + 1
      BY <3>2
    <3>7. ASSUME NEW j \in 1 .. Len(q) PROVE q[j] = s[to[j]] /\ s[to[j]] \in S
      <4>1. CASE j \in 1 .. Len(r)
        BY <2>2, <3>2, <3>5, <4>1
      <4>2. CASE j = Len(r) + 1
        BY <2>5, <3>2, <3>5, <4>2
      <4> QED
        BY <3>6, <4>1, <4>2
    <3>8. ASSUME NEW i \in 1 .. Len(q), NEW j \in 1 .. Len(q), i < j PROVE to[i] < to[j]
      <4>1. i \in 1 .. Len(r)
        BY <3>2, <3>8
      <4>2. to[i] = at[i] /\ at[i] \in 1 .. k - 1
        BY <3>3, <3>5, <4>1
      <4>3. CASE j \in 1 .. Len(r)
        BY <2>2, <3>5, <3>8, <4>1, <4>2, <4>3
      <4>4. CASE j = Len(r) + 1
        BY <3>5, <4>2, <4>4
      <4> QED
        BY <3>6, <4>3, <4>4
    <3>9. \A l \in 1 .. k : s[l] \in S => \E j \in 1 .. Len(q) : to[j] = l
      <4>1. SUFFICES ASSUME NEW l \in 1 .. k, s[l] \in S
                     PROVE  \E j \in 1 .. Len(q) : to[j] = l
        OBVIOUS
      <4>2. CASE l = k
        BY <3>2, <3>5, <4>2
      <4>3. CASE l # k
        <5>1. PICK j \in 1 .. Len(r) : at[j] = l
          BY <2>2, <4>1, <4>3
        <5> QED
          BY <3>2, <3>5, <5>1
      <4> QED
        BY <4>2, <4>3
    <3>10. Placed(q, k, to)
      BY <3>4, <3>7, <3>8, <3>9
    <3> HIDE DEF Placed
    <3> QED
      BY <3>1, <3>2, <3>10
  <2>6. CASE s[k] \notin S
    <3>1. kept[k] = r
      BY <2>4, <2>6
    <3>2. at \in [1 .. Len(r) -> 1 .. k]
      BY <2>2, <2>3
    <3>3. \A l \in 1 .. k : s[l] \in S => l \in 1 .. k - 1
      BY <2>3, <2>6
    <3>4. Placed(r, k, at)
      BY <2>2, <3>2, <3>3
    <3> HIDE DEF Placed
    <3> QED
      BY <2>1, <3>1, <3>4
  <2> QED
    BY <2>5, <2>6
<1>11. n \in T
  <2> HIDE DEF T
  <2>1. \A k \in 0 .. n : k \in T
    BY <1>1, <1>9, <1>10, UpToBound
  <2> QED
    BY <1>1, <2>1
<1>12. kept[n] \in V /\ \E at : Placed(kept[n], n, at)
  BY <1>11
<1> QED
  BY <1>7, <1>12

\* What is kept, as a set.
LEMMA KeptMembers ==
  ASSUME NEW X, NEW s \in Seq(X), NEW S
  PROVE  /\ Kept(s, S) \in Seq(X)
         /\ \A j \in 1 .. Len(Kept(s, S)) : Kept(s, S)[j] \in S /\ \E k \in 1 .. Len(s) : s[k] = Kept(s, S)[j]
         /\ \A k \in 1 .. Len(s) : s[k] \in S => \E j \in 1 .. Len(Kept(s, S)) : Kept(s, S)[j] = s[k]
<1> DEFINE r == Kept(s, S)
<1>1. PICK at \in [1 .. Len(r) -> 1 .. Len(s)] :
        /\ \A j \in 1 .. Len(r) : r[j] = s[at[j]] /\ s[at[j]] \in S
        /\ \A k \in 1 .. Len(s) : s[k] \in S => \E j \in 1 .. Len(r) : at[j] = k
  BY KeptInOrder
<1>2. r \in Seq(X)
  BY KeptInOrder
<1> HIDE DEF r
<1> QED
  BY <1>1, <1>2 DEF r
=============================================================================
