--------------------------- MODULE SequenceLemmas ---------------------------
(***************************************************************************)
(* What the proofs use of the operators on lists and queues: the elements  *)
(* of a concatenation, and of a list one element was taken out of, and how *)
(* many copies of one they hold; and what is needed to prove what a loop   *)
(* over a list computes, written as a function on the turns taken so far.  *)
(***************************************************************************)
EXTENDS SequencesExt, SequenceTheorems, FiniteSetTheorems, WellFoundedInduction, TLAPS

\* The elements of two queues put together are the elements of either.
LEMMA ConcatElements ==
  ASSUME NEW S, NEW a \in Seq(S), NEW b \in Seq(S)
  PROVE  /\ a \o b \in Seq(S)
         /\ Len(a \o b) = Len(a) + Len(b)
         /\ \A i \in 1..Len(a \o b) :
              \/ \E j \in 1..Len(a) : (a \o b)[i] = a[j]
              \/ \E j \in 1..Len(b) : (a \o b)[i] = b[j]
<1>1. Len(a) \in Nat /\ Len(b) \in Nat
  OBVIOUS
<1>2. a \o b \in Seq(S) /\ Len(a \o b) = Len(a) + Len(b)
  BY ConcatProperties
<1>3. ASSUME NEW i \in 1..(Len(a) + Len(b)), i > Len(a)
      PROVE  i - Len(a) \in 1..Len(b) /\ (a \o b)[i] = b[i - Len(a)]
  BY <1>1, <1>3, ConcatProperties
<1>4. ASSUME NEW i \in 1..(Len(a) + Len(b)), i <= Len(a)
      PROVE  i \in 1..Len(a) /\ (a \o b)[i] = a[i]
  BY <1>1, <1>4, ConcatProperties
<1> QED
  BY <1>1, <1>2, <1>3, <1>4

\* A list that lost its element i has the others, in their order.
LEMMA RemoveAtProperties ==
  ASSUME NEW S, NEW s \in Seq(S), NEW i \in 1..Len(s)
  PROVE  /\ RemoveAt(s, i) \in Seq(S)
         /\ Len(RemoveAt(s, i)) = Len(s) - 1
         /\ \A j \in 1..(Len(s) - 1) :
              RemoveAt(s, i)[j] = IF j < i THEN s[j] ELSE s[j + 1]
<1>1. /\ SubSeq(s, 1, i - 1) \in Seq(S)
      /\ Len(SubSeq(s, 1, i - 1)) = i - 1
      /\ \A j \in 1..(i - 1) : SubSeq(s, 1, i - 1)[j] = s[j]
  OBVIOUS
<1>2. /\ SubSeq(s, i + 1, Len(s)) \in Seq(S)
      /\ Len(SubSeq(s, i + 1, Len(s))) = Len(s) - i
      /\ \A j \in 1..(Len(s) - i) : SubSeq(s, i + 1, Len(s))[j] = s[i + j]
  OBVIOUS
<1>3. PICK a \in Seq(S) : /\ a = SubSeq(s, 1, i - 1)
                          /\ Len(a) = i - 1
                          /\ \A j \in 1..(i - 1) : a[j] = s[j]
  BY <1>1, Zenon
<1>4. PICK b \in Seq(S) : /\ b = SubSeq(s, i + 1, Len(s))
                          /\ Len(b) = Len(s) - i
                          /\ \A j \in 1..(Len(s) - i) : b[j] = s[i + j]
  BY <1>2, Zenon
<1>5. RemoveAt(s, i) = a \o b
  BY <1>3, <1>4, Zenon DEF RemoveAt
<1>6. a \o b \in Seq(S) /\ Len(a \o b) = Len(a) + Len(b)
  BY ConcatElements
<1>7. Len(s) \in Nat /\ i \in 1..Len(s)
  OBVIOUS
<1>8. Len(a) = i - 1 /\ Len(b) = Len(s) - i
  BY <1>3, <1>4, Zenon
<1>9. Len(a) + Len(b) = Len(s) - 1
  BY ONLY <1>7, <1>8
<1>10. ASSUME NEW j \in 1..(Len(s) - 1)
       PROVE  (a \o b)[j] = IF j < i THEN s[j] ELSE s[j + 1]
  <2>1. j \in Nat /\ j >= 1 /\ j <= Len(s) - 1 /\ Len(s) \in Nat
        /\ i \in Nat /\ i >= 1 /\ i <= Len(s)
    BY <1>7
  <2>2. j \in 1..(Len(a) + Len(b))
    BY <1>9
  <2>3. (a \o b)[j] = IF j <= Len(a) THEN a[j] ELSE b[j - Len(a)]
    BY <2>2, ConcatProperties
  <2>4. CASE j < i
    <3>1. j \in 1..(i - 1) /\ j <= i - 1
      BY ONLY <2>1, <2>4
    <3> QED
      BY <1>3, <1>8, <2>3, <2>4, <3>1
  <2>5. CASE ~(j < i)
    <3>1. j - (i - 1) \in 1..(Len(s) - i) /\ ~(j <= i - 1)
          /\ i + (j - (i - 1)) = j + 1
      BY ONLY <2>1, <2>5
    <3>2. b[j - (i - 1)] = s[i + (j - (i - 1))]
      BY <1>4, <3>1, Zenon
    <3>3. (a \o b)[j] = b[j - (i - 1)]
      BY <1>8, <2>3, <3>1
    <3> QED
      BY <2>5, <3>1, <3>2, <3>3
  <2> QED
    BY <2>4, <2>5
<1> QED
  BY <1>5, <1>6, <1>9, <1>10

\* Its elements are elements it had.
LEMMA RemoveAtElements ==
  ASSUME NEW S, NEW s \in Seq(S), NEW i \in 1..Len(s)
  PROVE  /\ RemoveAt(s, i) \in Seq(S)
         /\ Len(RemoveAt(s, i)) = Len(s) - 1
         /\ \A j \in 1..Len(RemoveAt(s, i)) :
              \E k \in 1..Len(s) : RemoveAt(s, i)[j] = s[k]
<1>1. /\ RemoveAt(s, i) \in Seq(S)
      /\ Len(RemoveAt(s, i)) = Len(s) - 1
      /\ \A j \in 1..(Len(s) - 1) :
           RemoveAt(s, i)[j] = IF j < i THEN s[j] ELSE s[j + 1]
  BY RemoveAtProperties
<1>2. Len(s) \in Nat
  OBVIOUS
<1>3. \A j \in 1..(Len(s) - 1) : j \in 1..Len(s) /\ j + 1 \in 1..Len(s)
  BY <1>2
<1> QED
  BY <1>1, <1>3
-----------------------------------------------------------------------------
\* Where a queue holds a datagram m.
Places(q, m) == {i \in 1..Len(q) : q[i] = m}

\* k copies more, of any datagram, are k more of m at the most.
LEMMA PlacesAppended ==
  ASSUME NEW S, NEW q \in Seq(S), NEW new \in Seq(S), NEW m
  PROVE  /\ IsFiniteSet(Places(q, m)) /\ Cardinality(Places(q, m)) \in Nat
         /\ Cardinality(Places(q \o new, m)) \in Nat
         /\ Cardinality(Places(q \o new, m)) <= Cardinality(Places(q, m)) + Len(new)
         /\ (\A i \in 1..Len(new) : new[i] # m) => Places(q \o new, m) = Places(q, m)
<1>1. Len(q) \in Nat /\ Len(new) \in Nat
  OBVIOUS
<1>2. /\ Len(q \o new) = Len(q) + Len(new)
      /\ \A i \in 1..(Len(q) + Len(new)) :
           (q \o new)[i] = IF i <= Len(q) THEN q[i] ELSE new[i - Len(q)]
  BY ConcatProperties
<1> DEFINE P == Places(q, m)
           N == (Len(q) + 1)..(Len(q) + Len(new))
           A == Places(q \o new, m)
<1>3. IsFiniteSet(P) /\ IsFiniteSet(A)
  <2>1. IsFiniteSet(1..Len(q)) /\ IsFiniteSet(1..Len(q \o new))
    BY <1>1, <1>2, FS_Interval
  <2>2. P \in SUBSET (1..Len(q)) /\ A \in SUBSET (1..Len(q \o new))
    BY DEF Places
  <2> HIDE DEF P, A
  <2> QED
    BY <2>1, <2>2, FS_Subset
<1>4. IsFiniteSet(N) /\ Cardinality(N) = Len(new)
  <2>1. PICK a \in Int, b \in Int : a = Len(q) + 1 /\ b = Len(q) + Len(new)
    BY <1>1
  <2>2. IsFiniteSet(a..b) /\ Cardinality(a..b) = IF a > b THEN 0 ELSE b - a + 1
    BY FS_Interval
  <2>3. N = a..b
    BY <2>1
  <2>4. (IF a > b THEN 0 ELSE b - a + 1) = Len(new)
    BY <1>1, <2>1
  <2> QED
    BY <2>2, <2>3, <2>4
<1>5. A \subseteq P \cup N
  BY <1>1, <1>2 DEF Places
<1>6. (\A i \in 1..Len(new) : new[i] # m) => A = P
  <2> SUFFICES ASSUME \A i \in 1..Len(new) : new[i] # m PROVE A = P
    OBVIOUS
  <2>1. ASSUME NEW i \in N PROVE (q \o new)[i] # m
    <3>1. i - Len(q) \in 1..Len(new) /\ i \in 1..(Len(q) + Len(new)) /\ ~(i <= Len(q))
      BY <1>1
    <3> QED
      BY <1>2, <3>1
  <2>2. \A i \in 1..Len(q) : i \in 1..(Len(q) + Len(new)) /\ i <= Len(q)
    BY <1>1
  <2>3. P \subseteq A
    BY <1>2, <2>2 DEF Places
  <2> QED
    BY <1>5, <2>1, <2>3 DEF Places
<1> HIDE DEF P, N, A
<1>7. Cardinality(P) \in Nat /\ Cardinality(A) \in Nat
  BY <1>3, FS_CardinalityType
<1>8. Cardinality(A) <= Cardinality(P) + Len(new)
  <2>1. /\ IsFiniteSet(P \cup N)
        /\ Cardinality(P \cup N) = Cardinality(P) + Cardinality(N) - Cardinality(P \cap N)
    BY <1>3, <1>4, FS_Union
  <2>2. Cardinality(P \cap N) \in Nat
    <3>1. P \cap N \in SUBSET P
      OBVIOUS
    <3> QED
      BY <1>3, <3>1, FS_Subset, FS_CardinalityType
  <2>3. Cardinality(A) <= Cardinality(P \cup N)
    BY <1>5, <2>1, FS_Subset
  <2> QED
    BY <1>1, <1>4, <1>7, <2>1, <2>2, <2>3
<1> QED
  BY <1>3, <1>6, <1>7, <1>8 DEF P, A

\* Without its element i a queue has as many copies of m, or one less if that
\* was one.
LEMMA PlacesRemoved ==
  ASSUME NEW S, NEW q \in Seq(S), NEW i \in 1..Len(q), NEW m
  PROVE  /\ Cardinality(Places(q, m)) \in Nat
         /\ Cardinality(Places(RemoveAt(q, i), m)) \in Nat
         /\ Cardinality(Places(RemoveAt(q, i), m)) <= Cardinality(Places(q, m))
         /\ q[i] = m => Cardinality(Places(RemoveAt(q, i), m)) + 1 <= Cardinality(Places(q, m))
<1> DEFINE r == RemoveAt(q, i)
           P == Places(q, m)
           R == Places(r, m)
           f == [j \in R |-> IF j < i THEN j ELSE j + 1]
<1>1. /\ r \in Seq(S) /\ Len(r) = Len(q) - 1
      /\ \A j \in 1..(Len(q) - 1) : r[j] = IF j < i THEN q[j] ELSE q[j + 1]
  BY RemoveAtProperties
<1>2. Len(q) \in Nat /\ i \in Nat
  OBVIOUS
<1> HIDE DEF r
<1>3. IsFiniteSet(P)
  <2>1. IsFiniteSet(1..Len(q)) /\ P \in SUBSET (1..Len(q))
    BY <1>2, FS_Interval DEF Places
  <2> QED
    BY <2>1, FS_Subset
<1>4. \A j \in R : j \in 1..(Len(q) - 1) /\ r[j] = m
  BY <1>1 DEF Places
<1>5. \A j \in R : f[j] \in P \ {i}
  <2> SUFFICES ASSUME NEW j \in R PROVE f[j] \in P \ {i}
    OBVIOUS
  <2>1. j \in 1..(Len(q) - 1) /\ r[j] = m
    BY <1>4
  <2>2. f[j] = IF j < i THEN j ELSE j + 1
    OBVIOUS
  <2>3. f[j] \in 1..Len(q) /\ f[j] # i
    BY <1>2, <2>1, <2>2
  <2>4. q[f[j]] = m
    BY <1>1, <2>1, <2>2
  <2> QED
    BY <2>3, <2>4 DEF Places
<1>6. \A j, k \in R : f[j] = f[k] => j = k
  <2>1. R \subseteq Int
    BY <1>4
  <2> QED
    BY <1>2, <2>1
<1>7. f \in Injection(R, P \ {i})
  <2>1. f \in [R -> P \ {i}]
    BY <1>5
  <2> HIDE DEF f
  <2> QED
    BY <1>6, <2>1 DEF Injection, IsInjective
<1>8. IsFiniteSet(P \ {i}) /\ Cardinality(P \ {i}) = IF i \in P THEN Cardinality(P) - 1 ELSE Cardinality(P)
  BY <1>3, FS_RemoveElement
<1>9. q[i] = m => i \in P
  BY DEF Places
<1> HIDE DEF P, R, f
<1>10. IsFiniteSet(R) /\ Cardinality(R) <= Cardinality(P \ {i})
  BY <1>7, <1>8, FS_Injection
<1>11. Cardinality(P) \in Nat /\ Cardinality(R) \in Nat
  BY <1>3, <1>10, FS_CardinalityType
<1>12. /\ Cardinality(R) <= Cardinality(P)
       /\ q[i] = m => Cardinality(R) + 1 <= Cardinality(P)
  BY <1>8, <1>9, <1>10, <1>11
<1> QED
  BY <1>11, <1>12 DEF r, P, R
-----------------------------------------------------------------------------
\* The elements of a list with one more at its end.
LEMMA AppendRange ==
  ASSUME NEW S, NEW q \in Seq(S), NEW e \in S
  PROVE  Range(Append(q, e)) = Range(q) \cup {e}
<1>1. /\ Len(Append(q, e)) = Len(q) + 1 /\ Len(q) \in Nat
      /\ \A i \in 1..Len(q) : Append(q, e)[i] = q[i]
      /\ Append(q, e)[Len(q) + 1] = e
      /\ DOMAIN Append(q, e) = 1..(Len(q) + 1) /\ DOMAIN q = 1..Len(q)
  OBVIOUS
<1>2. 1..(Len(q) + 1) = 1..Len(q) \cup {Len(q) + 1}
  BY <1>1
<1> QED
  BY <1>1, <1>2 DEF Range

\* Induction: a set with 0 and, with a number, the next one has them all.
LEMMA NatSetInduction ==
  ASSUME NEW S, 0 \in S, \A n \in Nat : n \in S => n + 1 \in S
  PROVE  Nat \subseteq S
<1> DEFINE R == {ss \in Nat \X Nat : ss[1] < ss[2]}
           Others == Nat \ S
<1> SUFFICES ASSUME Others # {} PROVE FALSE
  OBVIOUS
<1>1. IsWellFoundedOn(R, Nat)
  BY NatLessThanWellFounded DEF OpToRel
<1>2. PICK n \in Others : \A m \in Others : <<m, n>> \notin R
  <2> HIDE DEF R
  <2> QED
    BY <1>1, WFMin
<1>3. n \in Nat /\ n # 0
  OBVIOUS
<1>4. n - 1 \in Nat /\ n - 1 + 1 = n /\ n - 1 < n
  BY <1>3
<1>5. n - 1 \notin Others
  BY <1>2, <1>3, <1>4
<1> QED
  BY <1>3, <1>4, <1>5

\* What a loop computes in its first 0 to N turns that starts with c and does a step in
\* each turn.
Loops(T, c, step, N) ==
  {f \in [0..N -> T] : f[0] = c /\ \A n \in 1..N : f[n] = step[<<f[n - 1], n>>]}

\* It computes something.
LEMMA Recursion ==
  ASSUME NEW T, NEW c \in T, NEW step \in [T \X Nat -> T], NEW N \in Nat
  PROVE  \E f : f \in Loops(T, c, step, N)
<1> DEFINE Good(f, k) == f[0] = c /\ \A n \in 1..k : f[n] = step[<<f[n - 1], n>>]
           S == {k \in Nat : \E f \in [0..k -> T] : Good(f, k)}
<1>1. 0 \in S
  <2>1. [n \in 0..0 |-> c] \in [0..0 -> T] /\ Good([n \in 0..0 |-> c], 0)
    OBVIOUS
  <2> HIDE DEF Good
  <2> QED
    BY <2>1
<1>2. ASSUME NEW k \in Nat, k \in S PROVE k + 1 \in S
  <2>1. PICK f \in [0..k -> T] : Good(f, k)
    BY <1>2
  <2> DEFINE g == [n \in 0..(k + 1) |-> IF n = k + 1 THEN step[<<f[k], k + 1>>] ELSE f[n]]
  <2>2. f[k] \in T /\ step[<<f[k], k + 1>>] \in T
    OBVIOUS
  <2>3. g \in [0..(k + 1) -> T]
    BY <2>2
  <2>4. Good(g, k + 1)
    <3>1. g[0] = c
      BY <2>1
    <3>2. ASSUME NEW n \in 1..(k + 1) PROVE g[n] = step[<<g[n - 1], n>>]
      <4>1. g[n - 1] = f[n - 1] /\ n - 1 \in 0..k
        OBVIOUS
      <4>2. CASE n = k + 1
        <5>1. n - 1 = k /\ g[n] = step[<<f[k], k + 1>>]
          BY <4>2
        <5> QED
          BY <4>1, <4>2, <5>1
      <4>3. CASE n # k + 1
        BY <2>1, <4>1, <4>3
      <4> QED
        BY <4>2, <4>3
    <3> QED
      BY <3>1, <3>2
  <2> HIDE DEF Good, g
  <2> QED
    BY <2>3, <2>4
<1> HIDE DEF Good
<1>3. Nat \subseteq S
  <2> HIDE DEF S
  <2> QED
    BY <1>1, <1>2, NatSetInduction
<1>4. PICK f \in [0..N -> T] : Good(f, N)
  BY <1>3
<1> QED
  BY <1>4 DEF Good, Loops
=============================================================================
