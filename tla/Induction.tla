------------------------------- MODULE Induction -------------------------------
(***************************************************************************)
(* Induction over the numbers up to a bound, stated of sets, and what loops*)
(* over such numbers find: the lemmas behind the proofs about algorithms.  *)
(***************************************************************************)
EXTENDS Integers, WellFoundedInduction, TLAPS

\* A set that holds 0, and with each number below m the next, holds all up to m.
LEMMA UpTo ==
  ASSUME NEW m \in Nat, NEW S, 0 \in S, \A n \in 0..m - 1 : n \in S => n + 1 \in S
  PROVE  0..m \subseteq S
<1> SUFFICES ASSUME (0..m) \ S # {} PROVE FALSE
  OBVIOUS
<1> DEFINE T == (0..m) \ S
           Less == {p \in Nat \X Nat : p[1] < p[2]}
<1>1. IsWellFoundedOn(Less, Nat)
  BY NatLessThanWellFounded DEF OpToRel
<1>2. T \subseteq Nat
  OBVIOUS
<1> HIDE DEF Less
<1>3. PICK n \in T : \A k \in T : <<k, n>> \notin Less
  BY <1>1, <1>2, WFMin
<1>4. n \in 1..m /\ <<n - 1, n>> \in Less
  BY DEF Less
<1>5. n - 1 \in S
  BY <1>3, <1>4
<1> QED
  BY <1>4, <1>5

-----------------------------------------------------------------------------
(* A loop over the places 1 to m that remembers what the last hit says.    *)

Search(f, m, Hit, says, none) ==
  f = [n \in 0..m |-> IF n = 0 THEN none ELSE IF n \in Hit THEN says[n] ELSE f[n - 1]]

\* There is a function that the recursion defines.
LEMMA SearchExists ==
  ASSUME NEW m \in Nat, NEW Hit, NEW says, NEW none
  PROVE  \E f : Search(f, m, Hit, says, none)
<1> DEFINE S == {n \in 0..m : \E f : Search(f, n, Hit, says, none)}
<1>1. 0 \in S
  <2> DEFINE f == [n \in 0..0 |-> none]
  <2>1. Search(f, 0, Hit, says, none)
    BY DEF Search
  <2> QED
    BY <2>1
<1>2. ASSUME NEW n \in 0..m - 1, n \in S
      PROVE  n + 1 \in S
  <2>1. PICK f : Search(f, n, Hit, says, none)
    BY <1>2
  <2> DEFINE g == [k \in 0..n + 1 |-> IF k <= n THEN f[k]
                                      ELSE IF k \in Hit THEN says[k] ELSE f[n]]
  <2>2. \A k \in 0..n : g[k] = f[k]
    OBVIOUS
  <2>3. ASSUME NEW k \in 0..n + 1
        PROVE  g[k] = IF k = 0 THEN none ELSE IF k \in Hit THEN says[k] ELSE g[k - 1]
    <3>1. CASE k <= n
      <4>1. f[k] = IF k = 0 THEN none ELSE IF k \in Hit THEN says[k] ELSE f[k - 1]
        BY <2>1, <3>1 DEF Search
      <4>2. k # 0 => k - 1 \in 0..n
        BY <3>1
      <4> QED
        BY <2>2, <3>1, <4>1, <4>2
    <3>2. CASE k = n + 1
      BY <2>2, <3>2
    <3> QED
      BY <3>1, <3>2
  <2>4. Search(g, n + 1, Hit, says, none)
    <3> HIDE DEF g
    <3>1. g = [k \in 0..n + 1 |-> g[k]]
      BY DEF g
    <3> QED
      BY <2>3, <3>1 DEF Search
  <2> QED
    BY <2>4
<1>3. m \in S
  <2> HIDE DEF S
  <2> QED
    BY <1>1, <1>2, UpTo
<1> QED
  BY <1>3

\* The value is what the last of the hits among 1 to n says, or none.
Latest(n, Hit, says, none, value) ==
  \/ (\A k \in 1..n : k \notin Hit) /\ value = none
  \/ \E k \in 1..n : k \in Hit /\ (\A j \in k + 1..n : j \notin Hit) /\ value = says[k]

\* And it holds at its end what the last hit says.
LEMMA SearchFindsLatest ==
  ASSUME NEW m \in Nat, NEW Hit, NEW says, NEW none, NEW f, Search(f, m, Hit, says, none)
  PROVE  Latest(m, Hit, says, none, f[m])
<1> DEFINE S == {n \in 0..m : Latest(n, Hit, says, none, f[n])}
<1>1. 0 \in S
  BY DEF Search, Latest
<1>2. ASSUME NEW n \in 0..m - 1, n \in S
      PROVE  n + 1 \in S
  <2>1. f[n + 1] = IF n + 1 \in Hit THEN says[n + 1] ELSE f[n]
    BY DEF Search
  <2>2. \A k \in 1..n + 1 : k \in 1..n \/ k = n + 1
    OBVIOUS
  <2>3. CASE n + 1 \in Hit
    BY <2>1, <2>3 DEF Latest
  <2>4. CASE n + 1 \notin Hit
    BY <1>2, <2>1, <2>2, <2>4 DEF Latest
  <2> QED
    BY <2>3, <2>4
<1>3. m \in S
  <2> HIDE DEF S
  <2> QED
    BY <1>1, <1>2, UpTo
<1> QED
  BY <1>3

=============================================================================
