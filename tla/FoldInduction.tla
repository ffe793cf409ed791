--------------------------- MODULE FoldInduction ---------------------------
(***************************************************************************)
(* Reasoning about FoldLeft, which the models use wherever the code loops  *)
(* over a slice and carries something along. The fold is a function on the *)
(* subsets of the sequence's indices; it exists because the indices are    *)
(* finite, and its values on 1..k are the states of the loop after k       *)
(* rounds. Induction over 0..n is stated for a set of numbers, which needs *)
(* no operator parameter.                                                  *)
(***************************************************************************)
EXTENDS Slices, TLAPS, WellFoundedInduction, FiniteSetTheorems

\* Every set of numbers has a least one.
LEMMA NatMin ==
    ASSUME NEW T \in SUBSET Nat, T # {}
    PROVE  \E m \in T : \A n \in T : m <= n
<1>1. PICK m \in T : \A n \in T : <<n, m>> \notin OpToRel(<, Nat)
  BY NatLessThanWellFounded, WFMin
<1>2. \A n \in T : ~(n < m)
  BY <1>1 DEF OpToRel
<1> QED
  BY <1>2

\* Induction up to n, for the set G of the numbers that are as wanted.
LEMMA UpTo ==
    ASSUME NEW n \in Nat, NEW G \in SUBSET Nat, 0 \in G, \A k \in 0..n - 1 : k \in G => k + 1 \in G
    PROVE  \A k \in 0..n : k \in G
<1> DEFINE T == {k \in 0..n : k \notin G}
<1> SUFFICES ASSUME T # {} PROVE FALSE
  OBVIOUS
<1>0. T \in SUBSET Nat
  OBVIOUS
<1> HIDE DEF T
<1>1. PICK m \in T : \A k \in T : m <= k
  BY <1>0, NatMin
<1> USE DEF T
<1>2. m - 1 \in 0..n - 1 /\ m - 1 \in G
  BY <1>1
<1> QED
  BY <1>1, <1>2

\* FoldLeft takes the largest index first.
LEMMA MaxOfStep ==
    ASSUME NEW k \in Nat, NEW s \in SUBSET (1..k + 1), k + 1 \in s
    PROVE  Max(s) = k + 1
<1>1. \A y \in s : k + 1 >= y
  OBVIOUS
<1>2. \A x \in s : (\A y \in s : x >= y) => x = k + 1
  OBVIOUS
<1> QED
  BY <1>1, <1>2 DEF Max

LEMMA MaxIn ==
    ASSUME NEW n \in Nat, NEW s \in SUBSET (1..n), s # {}
    PROVE  Max(s) \in s
<1> DEFINE T == {m \in Nat : n - m \in s}
<1>1. T \in SUBSET Nat /\ T # {}
  <2>1. PICK x \in s : TRUE
    OBVIOUS
  <2>2. n - x \in Nat /\ n - (n - x) = x
    OBVIOUS
  <2> QED
    BY <2>2
<1>2. PICK m \in T : \A k \in T : m <= k
  <2> HIDE DEF T
  <2> QED
    BY <1>1, NatMin
<1>3. n - m \in s
  BY <1>2
<1>4. ASSUME NEW y \in s PROVE n - m >= y
  <2>1. n - y \in Nat /\ n - (n - y) = y
    OBVIOUS
  <2>2. n - y \in T
    BY <2>1
  <2>3. m <= n - y
    BY <1>2, <2>2
  <2>4. m \in Nat /\ y \in Nat
    BY <1>1, <1>2
  <2> QED
    BY <2>3, <2>4
<1> QED
  BY <1>3, <1>4 DEF Max

\* The fold of o over q, as MapThenFoldSet defines it.
IsFold(h, o, base, q) ==
    \A s \in SUBSET DOMAIN q : h[s] = IF s = {} THEN base ELSE o[<<h[s \ {Max(s)}], q[Max(s)]>>]

\* The states of the loop, from before the first round to after the last.
IsRun(acc, o, base, q) ==
    acc[0] = base /\ \A k \in 1..Len(q) : acc[k] = o[<<acc[k - 1], q[k]>>]

EndsIn(acc, q, result) == acc[Len(q)] = result

\* What the fold does on the prefixes of q, as long as it stays in B.
Unrolls(f, o, base, B, q) ==
    f[{}] = base /\ \A k \in 1..Len(q) : f[1..k - 1] \in B => f[1..k] = o[<<f[1..k - 1], q[k]>>]

\* There is a fold, for any step o and any sequence.
LEMMA FoldExists ==
    ASSUME NEW A, NEW B, NEW base \in B, NEW o \in [B \X A -> B], NEW q \in Seq(A)
    PROVE  \E h \in [SUBSET DOMAIN q -> B] : IsFold(h, o, base, q)
<1> DEFINE Sol(k, h) == \A s \in SUBSET (1..k) :
              h[s] = IF s = {} THEN base ELSE o[<<h[s \ {Max(s)}], q[Max(s)]>>]
           G == {k \in Nat : k <= Len(q) => \E h \in [SUBSET (1..k) -> B] : Sol(k, h)}
<1>0. Len(q) \in Nat /\ DOMAIN q = 1..Len(q)
  OBVIOUS
<1>1. 0 \in G
  <2>1. 1..0 = {} /\ SUBSET (1..0) = {{}}
    OBVIOUS
  <2>2. [s \in SUBSET (1..0) |-> base] \in [SUBSET (1..0) -> B] /\ Sol(0, [s \in SUBSET (1..0) |-> base])
    BY <2>1
  <2> HIDE DEF Sol
  <2>3. \E h \in [SUBSET (1..0) -> B] : Sol(0, h)
    BY <2>2
  <2> QED
    BY <2>3
<1>2. ASSUME NEW k \in 0..Len(q) - 1, k \in G PROVE k + 1 \in G
  <2>0. k \in Nat /\ k <= Len(q)
    BY <1>0
  <2> HIDE DEF Sol
  <2>01. \E h \in [SUBSET (1..k) -> B] : Sol(k, h)
    BY <1>2, <2>0
  <2>1. PICK h \in [SUBSET (1..k) -> B] : Sol(k, h)
    BY <2>01
  <2> USE DEF Sol
  <2> DEFINE g == [s \in SUBSET (1..k + 1) |-> IF s \in SUBSET (1..k) THEN h[s]
                                               ELSE o[<<h[s \ {k + 1}], q[k + 1]>>]]
  <2>2. \A s \in SUBSET (1..k + 1) : s \notin SUBSET (1..k) => k + 1 \in s /\ s \ {k + 1} \in SUBSET (1..k)
    BY <1>0
  <2>3. q[k + 1] \in A
    BY <1>0
  <2>4. g \in [SUBSET (1..k + 1) -> B]
    <3> SUFFICES ASSUME NEW s \in SUBSET (1..k + 1), s \notin SUBSET (1..k)
                 PROVE  o[<<h[s \ {k + 1}], q[k + 1]>>] \in B
      OBVIOUS
    <3>1. h[s \ {k + 1}] \in B
      BY <2>2
    <3> QED
      BY <3>1, <2>3
  <2>5. Sol(k + 1, g)
    <3> SUFFICES ASSUME NEW s \in SUBSET (1..k + 1)
                 PROVE  g[s] = IF s = {} THEN base ELSE o[<<g[s \ {Max(s)}], q[Max(s)]>>]
      OBVIOUS
    <3>1. CASE s \in SUBSET (1..k)
      <4>1. s \ {Max(s)} \in SUBSET (1..k) /\ s \in SUBSET (1..k + 1) /\ s \ {Max(s)} \in SUBSET (1..k + 1)
        BY <3>1
      <4>2. g[s] = h[s] /\ g[s \ {Max(s)}] = h[s \ {Max(s)}]
        BY <3>1, <4>1
      <4> QED
        BY <2>1, <3>1, <4>2
    <3>2. CASE s \notin SUBSET (1..k)
      <4>1. Max(s) = k + 1 /\ s # {}
        BY <2>2, <3>2, MaxOfStep, <1>0
      <4>2. s \ {k + 1} \in SUBSET (1..k) /\ s \ {k + 1} \in SUBSET (1..k + 1)
        BY <2>2, <3>2
      <4>3. g[s \ {k + 1}] = h[s \ {k + 1}]
        BY <4>2
      <4> QED
        BY <3>2, <4>1, <4>3
    <3> QED
      BY <3>1, <3>2
  <2> HIDE DEF g, Sol
  <2>6. \E f \in [SUBSET (1..k + 1) -> B] : Sol(k + 1, f)
    BY <2>4, <2>5
  <2> QED
    BY <2>6, <1>0
<1>3. Len(q) \in G
  <2>1. G \in SUBSET Nat
    OBVIOUS
  <2> HIDE DEF G
  <2>2. \A k \in 0..Len(q) : k \in G
    BY <1>0, <1>1, <1>2, <2>1, UpTo
  <2> QED
    BY <1>0, <2>2
<1>4. \E h \in [SUBSET (1..Len(q)) -> B] : Sol(Len(q), h)
  <2> HIDE DEF Sol
  <2>1. Len(q) <= Len(q)
    BY <1>0
  <2> QED
    BY <1>3, <2>1
<1>5. PICK h \in [SUBSET (1..Len(q)) -> B] : Sol(Len(q), h)
  BY <1>4
<1> QED
  BY <1>0, <1>5 DEF IsFold

\* The fold's result is the last state of a run.
LEMMA FoldPrefixes ==
    ASSUME NEW A, NEW B, NEW base \in B, NEW o \in [B \X A -> B], NEW q \in Seq(A), NEW f,
           Unrolls(f, o, base, B, q)
    PROVE  \E acc \in [0..Len(q) -> B] : IsRun(acc, o, base, q) /\ EndsIn(acc, q, f[DOMAIN q])
<1> DEFINE G == {k \in Nat : f[1..k] \in B}
           acc == [k \in 0..Len(q) |-> f[1..k]]
<1>0. Len(q) \in Nat /\ DOMAIN q = 1..Len(q) /\ \A k \in 1..Len(q) : q[k] \in A
  OBVIOUS
<1>1. 1..0 = {}
  OBVIOUS
<1>2. 0 \in G
  BY <1>1 DEF Unrolls
<1>3. ASSUME NEW k \in 0..Len(q) - 1, k \in G PROVE k + 1 \in G
  <2>1. k + 1 \in 1..Len(q) /\ (k + 1) - 1 = k
    BY <1>0
  <2>2. f[1..k] \in B
    BY <1>3
  <2>3. f[1..k + 1] = o[<<f[1..k], q[k + 1]>>]
    BY <2>1, <2>2 DEF Unrolls
  <2>4. f[1..k + 1] \in B
    BY <1>0, <2>1, <2>2, <2>3
  <2> QED
    BY <2>1, <2>4
<1>4. \A k \in 0..Len(q) : k \in G
  <2>1. G \in SUBSET Nat
    OBVIOUS
  <2> HIDE DEF G
  <2> QED
    BY <1>0, <1>2, <1>3, <2>1, UpTo
<1>5. acc \in [0..Len(q) -> B]
  BY <1>4
<1>6. acc[0] = base /\ acc[Len(q)] = f[DOMAIN q]
  BY <1>0, <1>1 DEF Unrolls
<1>7. ASSUME NEW k \in 1..Len(q) PROVE acc[k] = o[<<acc[k - 1], q[k]>>]
  <2>1. k - 1 \in 0..Len(q) /\ k \in 0..Len(q)
    BY <1>0
  <2>2. f[1..k - 1] \in B
    BY <1>4, <2>1
  <2> QED
    BY <2>1, <2>2 DEF Unrolls
<1> HIDE DEF acc
<1> QED
  BY <1>5, <1>6, <1>7 DEF IsRun, EndsIn

LEMMA MaxOfPrefix ==
    ASSUME NEW k \in Nat, k # 0
    PROVE  1..k # {} /\ Max(1..k) = k /\ (1..k) \ {Max(1..k)} = 1..k - 1
<1>1. k - 1 \in Nat /\ (k - 1) + 1 = k /\ k \in 1..k
  OBVIOUS
<1>2. Max(1..k) = k
  BY <1>1, MaxOfStep
<1> QED
  BY <1>1, <1>2
-----------------------------------------------------------------------------
(* Slices.                                                                 *)

\* A fold with the largest index first solves the equation that FoldLeft chooses from.
LEMMA FoldUse ==
    ASSUME NEW A, NEW B, NEW q \in Seq(A), NEW h \in [SUBSET DOMAIN q -> B],
           NEW s \in SUBSET DOMAIN q, s # {}
    PROVE  h[s \ {Max(s)}] \in B /\ q[Max(s)] \in A
<1>1. Len(q) \in Nat /\ DOMAIN q = 1..Len(q) /\ \A k \in 1..Len(q) : q[k] \in A
  OBVIOUS
<1>2. Max(s) \in DOMAIN q
  BY <1>1, MaxIn
<1> QED
  BY <1>1, <1>2

\* The states of a loop that keeps the elements of S.
KeepsThose(acc, q, S) ==
    /\ acc[0] = <<>>
    /\ \A k \in 1..Len(q) : acc[k] = IF q[k] \in S THEN Append(acc[k - 1], q[k]) ELSE acc[k - 1]
    /\ Those(q, S) = acc[Len(q)]

LEMMA ThoseRun ==
    ASSUME NEW A, NEW q \in Seq(A), NEW S
    PROVE  \E acc \in [0..Len(q) -> Seq(A)] : KeepsThose(acc, q, S)
<1> DEFINE B == Seq(A)
           step(kept, x) == IF x \in S THEN Append(kept, x) ELSE kept
           o == [p \in B \X A |-> step(p[1], p[2])]
           Sol(g) == g = [s \in SUBSET DOMAIN q |-> IF s = {} THEN <<>> ELSE step(g[s \ {Max(s)}], q[Max(s)])]
           f == CHOOSE g : Sol(g)
<1>0. Len(q) \in Nat /\ DOMAIN q = 1..Len(q) /\ \A k \in 1..Len(q) : q[k] \in A
  OBVIOUS
<1>1. \A s \in B, x \in A : step(s, x) \in B /\ o[<<s, x>>] = step(s, x)
  OBVIOUS
<1>11. o \in [B \X A -> B]
  OBVIOUS
<1>12. <<>> \in B
  OBVIOUS
<1>6. Those(q, S) = f[DOMAIN q]
  BY Zenon DEF FoldLeft, MapThenFoldSet, Those
<1> HIDE DEF o, step, B
<1>2. PICK h \in [SUBSET DOMAIN q -> B] : IsFold(h, o, <<>>, q)
  BY <1>11, <1>12, FoldExists
<1>4. Sol(h)
  <2>1. ASSUME NEW s \in SUBSET DOMAIN q, s # {} PROVE h[s] = step(h[s \ {Max(s)}], q[Max(s)])
    BY <1>1, <1>2, <2>1, FoldUse DEF IsFold
  <2> QED
    BY <1>2, <2>1 DEF IsFold
<1>5. Sol(f)
  BY <1>4, Zenon
<1> HIDE DEF f
<1>81. Unrolls(f, o, <<>>, B, q)
  <2>1. ASSUME NEW k \in 1..Len(q), f[1..k - 1] \in B PROVE f[1..k] = o[<<f[1..k - 1], q[k]>>]
    <3>1. k \in Nat /\ k # 0 /\ 1..k \in SUBSET DOMAIN q
      BY <1>0
    <3>2. f[1..k] = step(f[(1..k) \ {Max(1..k)}], q[Max(1..k)])
      BY <1>5, <3>1, MaxOfPrefix
    <3> QED
      BY <1>0, <1>1, <2>1, <3>1, <3>2, MaxOfPrefix
  <2> QED
    BY <1>5, <2>1 DEF Unrolls
<1>9. PICK acc \in [0..Len(q) -> B] : IsRun(acc, o, <<>>, q) /\ EndsIn(acc, q, f[DOMAIN q])
  BY <1>11, <1>12, <1>81, FoldPrefixes
<1>10. ASSUME NEW k \in 1..Len(q) PROVE acc[k] = step(acc[k - 1], q[k])
  <2>1. k - 1 \in 0..Len(q) /\ q[k] \in A /\ acc[k - 1] \in B
    BY <1>0
  <2> QED
    BY <1>1, <1>9, <2>1 DEF IsRun
<1> QED
  BY <1>6, <1>9, <1>10 DEF IsRun, EndsIn, step, B, KeepsThose

\* The loop keeps the elements of S, nothing else.
LEMMA ThoseIn ==
    ASSUME NEW A, NEW q \in Seq(A), NEW S
    PROVE  Those(q, S) \in Seq(A) /\ ToSet(Those(q, S)) = ToSet(q) \cap S
<1>0. Len(q) \in Nat /\ DOMAIN q = 1..Len(q) /\ \A k \in 1..Len(q) : q[k] \in A
  OBVIOUS
<1>1. PICK acc \in [0..Len(q) -> Seq(A)] : KeepsThose(acc, q, S)
  BY ThoseRun
<1> DEFINE Kept(k) == ToSet(acc[k]) = {q[j] : j \in 1..k} \cap S
           G == {k \in Nat : k \in 0..Len(q) /\ Kept(k)}
<1>2. 0 \in G
  BY <1>0, <1>1 DEF ToSet, KeepsThose
<1>3. ASSUME NEW k \in 0..Len(q) - 1, k \in G PROVE k + 1 \in G
  <2>1. k + 1 \in 1..Len(q) /\ (k + 1) - 1 = k /\ acc[k] \in Seq(A) /\ q[k + 1] \in A /\ k \in Nat
    BY <1>0
  <2>2. {q[j] : j \in 1..k + 1} = {q[j] : j \in 1..k} \cup {q[k + 1]}
    BY <2>1
  <2>3. ToSet(Append(acc[k], q[k + 1])) = ToSet(acc[k]) \cup {q[k + 1]}
    <3>1. /\ DOMAIN Append(acc[k], q[k + 1]) = 1..Len(acc[k]) + 1 /\ Len(acc[k]) \in Nat
          /\ DOMAIN acc[k] = 1..Len(acc[k])
          /\ \A j \in 1..Len(acc[k]) : Append(acc[k], q[k + 1])[j] = acc[k][j]
          /\ Append(acc[k], q[k + 1])[Len(acc[k]) + 1] = q[k + 1]
      BY <2>1
    <3>2. \A j \in 1..Len(acc[k]) + 1 : j \in 1..Len(acc[k]) \/ j = Len(acc[k]) + 1
      BY <3>1
    <3>3. 1..Len(acc[k]) \subseteq 1..Len(acc[k]) + 1 /\ Len(acc[k]) + 1 \in 1..Len(acc[k]) + 1
      BY <3>1
    <3> DEFINE t == Append(acc[k], q[k + 1])
               m == Len(acc[k])
    <3> HIDE DEF t, m
    <3>4. ToSet(t) = {t[j] : j \in 1..m + 1}
      BY <3>1 DEF ToSet, t, m
    <3>5. ToSet(acc[k]) = {t[j] : j \in 1..m}
      BY <3>1 DEF ToSet, t, m
    <3>6. t[m + 1] = q[k + 1]
      BY <3>1 DEF t, m
    <3>7. 1..m + 1 = 1..m \cup {m + 1}
      BY <3>1, <3>2, <3>3 DEF m
    <3> QED
      BY <3>4, <3>5, <3>6, <3>7 DEF t
  <2>4. acc[k + 1] = IF q[k + 1] \in S THEN Append(acc[k], q[k + 1]) ELSE acc[k]
    BY <1>1, <2>1 DEF KeepsThose
  <2>5. ToSet(acc[k]) = {q[j] : j \in 1..k} \cap S
    BY <1>3
  <2>6. Kept(k + 1)
    BY <2>2, <2>3, <2>4, <2>5
  <2> HIDE DEF Kept
  <2> QED
    BY <1>0, <2>1, <2>6
<1>4. Len(q) \in G
  <2>1. G \in SUBSET Nat
    OBVIOUS
  <2> HIDE DEF G
  <2>2. \A k \in 0..Len(q) - 1 : k \in G => k + 1 \in G
    BY <1>3
  <2>3. \A k \in 0..Len(q) : k \in G
    BY <1>0, <1>2, <2>1, <2>2, UpTo
  <2> QED
    BY <1>0, <2>3
<1>5. ToSet(acc[Len(q)]) = {q[j] : j \in 1..Len(q)} \cap S
  BY <1>4
<1>6. acc[Len(q)] \in Seq(A)
  BY <1>0
<1>7. Those(q, S) = acc[Len(q)]
  BY <1>1 DEF KeepsThose
<1> QED
  BY <1>0, <1>5, <1>6, <1>7 DEF ToSet

\* SetToSeq lists a finite set.
LEMMA Listing ==
    ASSUME NEW S, IsFiniteSet(S)
    PROVE  /\ SetToSeq(S) \in Seq(S) /\ ToSet(SetToSeq(S)) = S
           /\ \A i, j \in DOMAIN SetToSeq(S) : i # j => SetToSeq(S)[i] # SetToSeq(S)[j]
<1> DEFINE n == Cardinality(S)
           f == SetToSeq(S)
<1>1. n \in Nat /\ ExistsBijection(1..n, S)
  BY FS_CardinalityType
<1>2. \E g \in [1..n -> S] : IsInjective(g)
  BY <1>1 DEF ExistsBijection, Bijection, Injection
<1>3. f \in [1..n -> S] /\ IsInjective(f)
  BY <1>2 DEF SetToSeq
<1>4. f \in Injection(1..n, S)
  BY <1>3 DEF Injection
<1>5. IsFiniteSet(1..n) /\ Cardinality(1..n) = n
  BY <1>1, FS_Interval
<1>6. f \in Surjection(1..n, S)
  BY <1>4, <1>5, FS_Injection
<1>7. DOMAIN f = 1..n
  BY <1>3
<1> HIDE DEF f
<1>8. ToSet(f) = S
  BY <1>6, <1>7 DEF Surjection, ToSet
<1>9. f \in Seq(S)
  BY <1>1, <1>3
<1>10. \A i, j \in DOMAIN f : i # j => f[i] # f[j]
  BY <1>3 DEF IsInjective
<1> QED
  BY <1>8, <1>9, <1>10 DEF f

\* The elements of a sequence are finitely many.
LEMMA FiniteRange ==
    ASSUME NEW A, NEW q \in Seq(A)
    PROVE  IsFiniteSet(ToSet(q)) /\ ToSet(q) \subseteq A
<1>1. Len(q) \in Nat /\ DOMAIN q = 1..Len(q) /\ \A k \in 1..Len(q) : q[k] \in A
  OBVIOUS
<1>2. q \in Surjection(DOMAIN q, ToSet(q))
  BY <1>1 DEF Surjection, ToSet
<1>3. IsFiniteSet(DOMAIN q)
  BY <1>1, FS_Interval
<1> QED
  BY <1>1, <1>2, <1>3, FS_Surjection DEF ToSet

\* Both halves of a concatenation.
LEMMA Joined ==
    ASSUME NEW A, NEW p \in Seq(A), NEW q \in Seq(A)
    PROVE  p \o q \in Seq(A) /\ ToSet(p \o q) = ToSet(p) \cup ToSet(q)
<1>1. /\ p \o q \in Seq(A)
      /\ Len(p) \in Nat /\ Len(q) \in Nat /\ DOMAIN p = 1..Len(p) /\ DOMAIN q = 1..Len(q)
      /\ DOMAIN (p \o q) = 1..Len(p) + Len(q)
      /\ \A i \in 1..Len(p) + Len(q) : (p \o q)[i] = IF i <= Len(p) THEN p[i] ELSE q[i - Len(p)]
  OBVIOUS
<1>2. \A i \in 1..Len(p) : i \in 1..Len(p) + Len(q) /\ i <= Len(p)
  BY <1>1
<1>3. \A i \in 1..Len(q) : Len(p) + i \in 1..Len(p) + Len(q) /\ ~(Len(p) + i <= Len(p)) /\ (Len(p) + i) - Len(p) = i
  BY <1>1
<1>4. \A i \in 1..Len(p) + Len(q) : i <= Len(p) \/ i - Len(p) \in 1..Len(q)
  BY <1>1
<1>5. \A i \in 1..Len(p) + Len(q) : i <= Len(p) => i \in 1..Len(p)
  BY <1>1
<1>6. ToSet(p \o q) \subseteq ToSet(p) \cup ToSet(q)
  BY <1>1, <1>4, <1>5 DEF ToSet
<1>7. ToSet(p) \subseteq ToSet(p \o q)
  <2> SUFFICES ASSUME NEW i \in 1..Len(p) PROVE \E j \in DOMAIN (p \o q) : (p \o q)[j] = p[i]
    BY <1>1 DEF ToSet
  <2> QED
    BY <1>1, <1>2
<1>8. ToSet(q) \subseteq ToSet(p \o q)
  <2> SUFFICES ASSUME NEW i \in 1..Len(q) PROVE \E j \in DOMAIN (p \o q) : (p \o q)[j] = q[i]
    BY <1>1 DEF ToSet
  <2> QED
    BY <1>1, <1>3
<1> QED
  BY <1>1, <1>6, <1>7, <1>8

\* A finite set of integers that is not empty has a greatest.
LEMMA MaxOfInts ==
    ASSUME NEW S \in SUBSET Int, IsFiniteSet(S), S # {}
    PROVE  Max(S) \in S /\ \A x \in S : Max(S) >= x
<1> DEFINE n == Cardinality(S)
<1>1. n \in Nat /\ ExistsBijection(1..n, S)
  BY FS_CardinalityType
<1>2. PICK f \in [1..n -> S] : \A t \in S : \E s \in 1..n : f[s] = t
  BY <1>1 DEF ExistsBijection, Bijection, Surjection
<1> DEFINE Tops(k) == k = 0 \/ \E j \in 1..k : \A i \in 1..k : f[j] >= f[i]
           G == {k \in Nat : k \in 0..n /\ Tops(k)}
<1> HIDE DEF n
<1>3. 0 \in G
  BY <1>1
<1>4. ASSUME NEW k \in 0..n - 1, k \in G PROVE k + 1 \in G
  <2>1. k + 1 \in 1..n /\ k \in Nat
    BY <1>1
  <2>2. \A i \in 1..n : f[i] \in Int
    BY <1>2
  <2>3. \A i \in 1..k + 1 : i \in 1..k \/ i = k + 1
    BY <2>1
  <2>4. 1..k \subseteq 1..k + 1 /\ 1..k + 1 \subseteq 1..n /\ k + 1 \in 1..k + 1
    BY <2>1, <1>1
  <2>5. Tops(k + 1)
    <3>1. CASE k = 0
      BY <3>1, <2>2, <2>3, <2>4
    <3>2. CASE \E j \in 1..k : \A i \in 1..k : f[j] >= f[i]
      <4>1. PICK j \in 1..k : \A i \in 1..k : f[j] >= f[i]
        BY <3>2
      <4>2. CASE f[j] >= f[k + 1]
        BY <4>1, <4>2, <2>3, <2>4
      <4>3. CASE ~(f[j] >= f[k + 1])
        <5>1. \A i \in 1..k + 1 : f[k + 1] >= f[i]
          BY <4>1, <4>3, <2>2, <2>3, <2>4
        <5> QED
          BY <5>1, <2>4
      <4> QED
        BY <4>2, <4>3
    <3> QED
      BY <1>4, <3>1, <3>2
  <2> HIDE DEF Tops
  <2> QED
    BY <2>1, <2>5, <1>1
<1>5. n \in G
  <2>1. G \in SUBSET Nat
    OBVIOUS
  <2> HIDE DEF G
  <2>2. \A k \in 0..n - 1 : k \in G => k + 1 \in G
    BY <1>4
  <2>3. \A k \in 0..n : k \in G
    BY <1>1, <1>3, <2>1, <2>2, UpTo
  <2> QED
    BY <1>1, <2>3
<1>6. n # 0
  <2>1. PICK t \in S : TRUE
    OBVIOUS
  <2>2. \E s \in 1..n : f[s] = t
    BY <1>2, <2>1
  <2> QED
    BY <1>1, <2>2
<1>7. PICK j \in 1..n : \A i \in 1..n : f[j] >= f[i]
  BY <1>5, <1>6
<1>8. f[j] \in S /\ \A x \in S : f[j] >= x
  BY <1>2, <1>7
<1> QED
  BY <1>8 DEF Max

LEMMA MinIn ==
    ASSUME NEW S \in SUBSET Nat, S # {}
    PROVE  Min(S) \in S /\ \A x \in S : Min(S) <= x
<1>1. \E m \in S : \A x \in S : m <= x
  BY NatMin
<1> QED
  BY <1>1 DEF Min

\* A slice of whatever elements.
IsSlice(s) == s \in Seq(ToSet(s))

LEMMA SliceIs ==
    ASSUME NEW s, IsSlice(s)
    PROVE  Len(s) \in Nat /\ DOMAIN s = 1..Len(s) /\ s = [i \in 1..Len(s) |-> s[i]]
  BY DEF IsSlice

LEMMA SliceOf ==
    ASSUME NEW A, NEW s \in Seq(A)
    PROVE  IsSlice(s)
  BY DEF IsSlice, ToSet

Distinct(s) == \A i, j \in DOMAIN s : s[i] = s[j] => i = j

LEMMA AppendIn ==
    ASSUME NEW s, IsSlice(s), NEW x
    PROVE  /\ IsSlice(Append(s, x)) /\ ToSet(Append(s, x)) = ToSet(s) \cup {x}
           /\ Distinct(s) /\ x \notin ToSet(s) => Distinct(Append(s, x))
<1>0. Len(s) \in Nat /\ DOMAIN s = 1..Len(s)
  BY SliceIs
<1> DEFINE t == Append(s, x)
           n == Len(s)
<1>1. s \in Seq(ToSet(s) \cup {x})
  BY DEF IsSlice
<1>2. t \in Seq(ToSet(s) \cup {x}) /\ DOMAIN t = 1..n + 1 /\ (\A i \in 1..n : t[i] = s[i]) /\ t[n + 1] = x
  BY <1>0, <1>1
<1> HIDE DEF t, n
<1>3. ToSet(t) = {t[i] : i \in 1..n + 1} /\ ToSet(s) = {t[i] : i \in 1..n}
  BY <1>0, <1>2 DEF ToSet, n
<1>4. 1..n + 1 = 1..n \cup {n + 1}
  BY <1>0 DEF n
<1>5. ToSet(t) = ToSet(s) \cup {x}
  BY <1>2, <1>3, <1>4
<1>6. Distinct(s) /\ x \notin ToSet(s) => Distinct(t)
  <2> SUFFICES ASSUME Distinct(s), x \notin ToSet(s), NEW i \in 1..n + 1, NEW j \in 1..n + 1, t[i] = t[j] PROVE i = j
    BY <1>2 DEF Distinct
  <2>1. \A k \in 1..n : t[k] # x
    BY <1>3
  <2>2. \A k, l \in 1..n : t[k] = t[l] => k = l
    BY <1>0, <1>2 DEF Distinct, n
  <2> QED
    BY <1>2, <1>4, <2>1, <2>2
<1>7. IsSlice(t)
  BY <1>2, SliceOf
<1> QED
  BY <1>5, <1>6, <1>7 DEF t

-----------------------------------------------------------------------------
(* Sorting.                                                                *)

LEMMA InsertAtIs ==
    ASSUME NEW A, NEW s \in Seq(A), NEW x \in A, NEW i \in 1..Len(s) + 1
    PROVE  /\ InsertAt(s, i, x) \in Seq(A) /\ Len(InsertAt(s, i, x)) = Len(s) + 1
           /\ \A j \in 1..Len(s) + 1 :
                 InsertAt(s, i, x)[j] = IF j < i THEN s[j] ELSE IF j = i THEN x ELSE s[j - 1]
<1> DEFINE front == SubSeq(s, 1, i - 1)
           back == SubSeq(s, i, Len(s))
<1>0. Len(s) \in Nat /\ i \in Nat /\ i - 1 \in Nat
  OBVIOUS
<1>1. front \in Seq(A) /\ Len(front) = i - 1 /\ \A j \in 1..i - 1 : front[j] = s[j]
  BY <1>0
<1>2. back \in Seq(A) /\ Len(back) = Len(s) + 1 - i /\ \A j \in 1..Len(s) + 1 - i : back[j] = s[i - 1 + j]
  <2>1. CASE i = Len(s) + 1
    BY <1>0, <2>1
  <2>2. CASE i # Len(s) + 1
    BY <1>0, <2>2
  <2> QED
    BY <2>1, <2>2
<1>3. InsertAt(s, i, x) = (front \o <<x>>) \o back
  BY DEF InsertAt
<1> HIDE DEF front, back
<1>4. <<x>> \in Seq(A) /\ Len(<<x>>) = 1 /\ <<x>>[1] = x
  OBVIOUS
<1> DEFINE m == front \o <<x>>
<1>5. /\ m \in Seq(A) /\ Len(m) = i
      /\ \A j \in 1..i : m[j] = IF j < i THEN s[j] ELSE x
  <2>1. m \in Seq(A) /\ Len(m) = Len(front) + 1
    BY <1>1, <1>4
  <2>2. \A j \in 1..i : m[j] = IF j <= Len(front) THEN front[j] ELSE <<x>>[j - Len(front)]
    BY <1>0, <1>1, <1>4
  <2> HIDE DEF m
  <2> QED
    BY <1>0, <1>1, <1>4, <2>1, <2>2
<1> HIDE DEF m
<1> DEFINE t == m \o back
<1>6. /\ t \in Seq(A) /\ Len(t) = Len(m) + Len(back)
      /\ \A j \in 1..Len(m) + Len(back) : t[j] = IF j <= Len(m) THEN m[j] ELSE back[j - Len(m)]
  <2>1. m \in Seq(A) /\ back \in Seq(A)
    BY <1>2, <1>5
  <2> QED
    BY <2>1
<1> HIDE DEF t
<1>7. Len(t) = Len(s) + 1
  BY <1>0, <1>2, <1>5, <1>6
<1>8. ASSUME NEW j \in 1..Len(s) + 1 PROVE t[j] = IF j < i THEN s[j] ELSE IF j = i THEN x ELSE s[j - 1]
  <2>1. CASE j <= i
    BY <1>0, <1>2, <1>5, <1>6, <2>1
  <2>2. CASE ~(j <= i)
    <3>1. t[j] = back[j - i] /\ j - i \in 1..Len(s) + 1 - i /\ i - 1 + (j - i) = j - 1
      BY <1>0, <1>2, <1>5, <1>6, <2>2
    <3> QED
      BY <1>2, <2>2, <3>1, <1>0
  <2> QED
    BY <2>1, <2>2
<1> QED
  BY <1>3, <1>6, <1>7, <1>8 DEF t, m

\* The states of a loop that inserts what it takes.
LEMMA SortRun ==
    ASSUME NEW rank, NEW q, IsSlice(q)
    PROVE  \E acc : /\ acc[0] = <<>> /\ StableSort(q, rank) = acc[Len(q)]
                    /\ \A k \in 1..Len(q) : acc[k] = Inserted(acc[k - 1], q[k], rank)
<1> DEFINE A == ToSet(q)
           B == Seq(A)
           o == [p \in B \X A |-> Inserted(p[1], p[2], rank)]
           Sol(g) == g = [s \in SUBSET DOMAIN q |-> IF s = {} THEN <<>> ELSE Inserted(g[s \ {Max(s)}], q[Max(s)], rank)]
           f == CHOOSE g : Sol(g)
<1>0. Len(q) \in Nat /\ DOMAIN q = 1..Len(q) /\ q \in Seq(A) /\ \A k \in 1..Len(q) : q[k] \in A
  BY SliceIs DEF IsSlice, ToSet
<1>1. ASSUME NEW s \in B, NEW x \in A PROVE Inserted(s, x, rank) \in B
  <2> DEFINE lower == {i \in DOMAIN s : rank[s[i]] < rank[x]}
             at == IF lower = {} THEN Len(s) + 1 ELSE Min(lower)
  <2>1. Inserted(s, x, rank) = InsertAt(s, at, x)
    BY DEF Inserted
  <2>2. lower \in SUBSET Nat /\ lower \subseteq 1..Len(s) /\ Len(s) \in Nat
    OBVIOUS
  <2> HIDE DEF lower
  <2>3. at \in 1..Len(s) + 1
    <3>1. lower # {} => Min(lower) \in lower
      BY <2>2, MinIn
    <3>2. CASE lower = {}
      BY <2>2, <3>2
    <3>3. CASE lower # {}
      <4>1. Min(lower) \in 1..Len(s) /\ at = Min(lower)
        BY <2>2, <3>1, <3>3
      <4> QED
        BY <2>2, <4>1
    <3> QED
      BY <3>2, <3>3
  <2> HIDE DEF at, A
  <2> QED
    BY <2>1, <2>3, InsertAtIs
<1>11. o \in [B \X A -> B] /\ \A s \in B, x \in A : o[<<s, x>>] = Inserted(s, x, rank)
  <2> HIDE DEF B, A
  <2> QED
    BY <1>1
<1>12. <<>> \in B
  OBVIOUS
<1>6. StableSort(q, rank) = f[DOMAIN q]
  BY Zenon DEF FoldLeft, MapThenFoldSet, StableSort
<1> HIDE DEF o, B, A
<1>2. PICK h \in [SUBSET DOMAIN q -> B] : IsFold(h, o, <<>>, q)
  BY <1>0, <1>11, <1>12, FoldExists
<1>4. Sol(h)
  <2>1. ASSUME NEW s \in SUBSET DOMAIN q, s # {} PROVE h[s] = Inserted(h[s \ {Max(s)}], q[Max(s)], rank)
    BY <1>0, <1>11, <1>2, <2>1, FoldUse DEF IsFold
  <2> QED
    BY <1>2, <2>1 DEF IsFold
<1>5. Sol(f)
  BY <1>4, Zenon
<1> HIDE DEF f
<1>81. Unrolls(f, o, <<>>, B, q)
  <2>1. ASSUME NEW k \in 1..Len(q), f[1..k - 1] \in B PROVE f[1..k] = o[<<f[1..k - 1], q[k]>>]
    <3>1. k \in Nat /\ k # 0 /\ 1..k \in SUBSET DOMAIN q
      BY <1>0
    <3>2. f[1..k] = Inserted(f[(1..k) \ {Max(1..k)}], q[Max(1..k)], rank)
      BY <1>5, <3>1, MaxOfPrefix
    <3> QED
      BY <1>0, <1>11, <2>1, <3>1, <3>2, MaxOfPrefix
  <2> QED
    BY <1>5, <2>1 DEF Unrolls
<1>9. PICK acc \in [0..Len(q) -> B] : IsRun(acc, o, <<>>, q) /\ EndsIn(acc, q, f[DOMAIN q])
  BY <1>0, <1>11, <1>12, <1>81, FoldPrefixes
<1>10. ASSUME NEW k \in 1..Len(q) PROVE acc[k] = Inserted(acc[k - 1], q[k], rank)
  <2>1. k - 1 \in 0..Len(q) /\ q[k] \in A /\ acc[k - 1] \in B
    BY <1>0
  <2> QED
    BY <1>9, <1>11, <2>1 DEF IsRun
<1> QED
  BY <1>6, <1>9, <1>10 DEF IsRun, EndsIn

Descending(s, rank) == \A i, j \in DOMAIN s : i < j => rank[s[i]] >= rank[s[j]]

LEMMA InsertedIn ==
    ASSUME NEW s, IsSlice(s), NEW x, NEW rank, \A y \in ToSet(s) \cup {x} : rank[y] \in Int, Descending(s, rank)
    PROVE  /\ IsSlice(Inserted(s, x, rank)) /\ ToSet(Inserted(s, x, rank)) = ToSet(s) \cup {x}
           /\ Descending(Inserted(s, x, rank), rank)
           /\ Distinct(s) /\ x \notin ToSet(s) => Distinct(Inserted(s, x, rank))
<1> DEFINE A == ToSet(s) \cup {x}
           n == Len(s)
           lower == {i \in DOMAIN s : rank[s[i]] < rank[x]}
           at == IF lower = {} THEN n + 1 ELSE Min(lower)
           t == Inserted(s, x, rank)
<1>0. n \in Nat /\ DOMAIN s = 1..n
  BY SliceIs
<1>1. s \in Seq(A) /\ x \in A /\ \A i \in 1..n : s[i] \in ToSet(s) /\ rank[s[i]] \in Int
  BY <1>0 DEF IsSlice, ToSet
<1>2. lower \subseteq 1..n
  BY <1>0
<1>3. at \in 1..n + 1 /\ (at <= n => at \in lower) /\ \A i \in 1..n : i < at => i \notin lower
  <2>1. CASE lower = {}
    BY <1>0, <2>1
  <2>2. CASE lower # {}
    <3>1. lower \in SUBSET Nat
      BY <1>2
    <3> HIDE DEF lower, n
    <3>2. Min(lower) \in lower /\ \A i \in lower : Min(lower) <= i
      BY <2>2, <3>1, MinIn
    <3>3. at = Min(lower)
      BY <2>2
    <3>4. at \in 1..n
      BY <1>2, <3>2, <3>3
    <3> HIDE DEF at
    <3>5. \A i \in 1..n : i < at => i \notin lower
      BY <1>0, <3>2, <3>3, <3>4
    <3> QED
      BY <1>0, <3>2, <3>3, <3>4, <3>5
  <2> QED
    BY <2>1, <2>2
<1>4. t = InsertAt(s, at, x)
  BY DEF Inserted
<1> HIDE DEF at, t, A
<1>5. /\ t \in Seq(A) /\ Len(t) = n + 1
      /\ \A j \in 1..n + 1 : t[j] = IF j < at THEN s[j] ELSE IF j = at THEN x ELSE s[j - 1]
  <2>1. at \in 1..Len(s) + 1
    BY <1>3
  <2>2. /\ InsertAt(s, at, x) \in Seq(A) /\ Len(InsertAt(s, at, x)) = Len(s) + 1
        /\ \A j \in 1..Len(s) + 1 :
              InsertAt(s, at, x)[j] = IF j < at THEN s[j] ELSE IF j = at THEN x ELSE s[j - 1]
    BY <1>1, <2>1, InsertAtIs
  <2> QED
    BY <1>4, <2>2
<1> HIDE DEF n
<1>6. DOMAIN t = 1..n + 1 /\ IsSlice(t)
  BY <1>5, SliceOf
<1>7. ToSet(t) = ToSet(s) \cup {x}
  <2>1. ASSUME NEW j \in 1..n + 1 PROVE t[j] \in ToSet(s) \cup {x}
    <3>1. j < at => j \in 1..n
      BY <1>0, <1>3
    <3>2. ~(j < at) /\ j # at => j - 1 \in 1..n
      BY <1>0, <1>3
    <3> QED
      BY <1>1, <1>5, <3>1, <3>2
  <2>2. ASSUME NEW i \in 1..n PROVE \E j \in 1..n + 1 : t[j] = s[i]
    <3>1. CASE i < at
      BY <1>0, <1>3, <1>5, <3>1
    <3>2. CASE ~(i < at)
      <4>1. i + 1 \in 1..n + 1 /\ ~(i + 1 < at) /\ i + 1 # at /\ (i + 1) - 1 = i
        BY <1>0, <1>3, <3>2
      <4> QED
        BY <1>5, <4>1
    <3> QED
      BY <3>1, <3>2
  <2>3. t[at] = x
    BY <1>0, <1>3, <1>5
  <2>4. ToSet(t) = {t[j] : j \in 1..n + 1} /\ ToSet(s) = {s[i] : i \in 1..n}
    BY <1>0, <1>6 DEF ToSet
  <2> QED
    BY <1>3, <2>1, <2>2, <2>3, <2>4
<1>8. Descending(t, rank)
  <2> SUFFICES ASSUME NEW i \in 1..n + 1, NEW j \in 1..n + 1, i < j PROVE rank[t[i]] >= rank[t[j]]
    BY <1>6 DEF Descending
  <2>0. \A k, l \in 1..n : k < l => rank[s[k]] >= rank[s[l]]
    BY <1>0 DEF Descending
  <2>01. rank[x] \in Int
    OBVIOUS
  <2>1. \A k \in 1..n : k < at => rank[s[k]] >= rank[x]
    BY <1>0, <1>1, <1>3, <2>01
  <2>2. \A k \in 1..n : k >= at => rank[x] >= rank[s[k]]
    <3> SUFFICES ASSUME NEW k \in 1..n, k >= at PROVE rank[x] >= rank[s[k]]
      OBVIOUS
    <3>1. at \in 1..n /\ rank[s[at]] < rank[x]
      BY <1>0, <1>3
    <3>2. at < k => rank[s[at]] >= rank[s[k]]
      BY <2>0, <3>1
    <3>3. rank[s[k]] \in Int /\ rank[s[at]] \in Int
      BY <1>1, <3>1
    <3>4. at = k \/ at < k
      BY <1>0, <1>3
    <3> QED
      BY <2>01, <3>1, <3>2, <3>3, <3>4
  <2>3. CASE j < at
    <3>1. i \in 1..n /\ j \in 1..n /\ i < at
      BY <1>0, <1>3, <2>3
    <3> QED
      BY <1>5, <2>0, <2>3, <3>1
  <2>4. CASE j = at
    <3>1. i \in 1..n /\ i < at
      BY <1>0, <1>3, <2>4
    <3>2. t[i] = s[i] /\ t[j] = x
      BY <1>5, <2>4, <3>1, <1>3
    <3> QED
      BY <2>1, <3>1, <3>2
  <2>5. CASE j > at
    <3>1. j - 1 \in 1..n /\ j - 1 >= at /\ t[j] = s[j - 1]
      BY <1>0, <1>3, <1>5, <2>5
    <3>2. CASE i < at
      <4>1. i \in 1..n /\ i < j - 1 /\ t[i] = s[i]
        BY <1>0, <1>3, <1>5, <2>5, <3>2
      <4> QED
        BY <2>0, <3>1, <4>1
    <3>3. CASE i = at
      BY <1>3, <1>5, <2>2, <3>1, <3>3
    <3>4. CASE i > at
      <4>1. i - 1 \in 1..n /\ i - 1 < j - 1 /\ t[i] = s[i - 1]
        BY <1>0, <1>3, <1>5, <3>4
      <4> QED
        BY <2>0, <3>1, <4>1
    <3> QED
      BY <1>3, <3>2, <3>3, <3>4
  <2> QED
    BY <1>3, <2>3, <2>4, <2>5
<1>9. Distinct(s) /\ x \notin ToSet(s) => Distinct(t)
  <2> SUFFICES ASSUME Distinct(s), x \notin ToSet(s), NEW i \in 1..n + 1, NEW j \in 1..n + 1, t[i] = t[j] PROVE i = j
    BY <1>6 DEF Distinct
  <2>0. \A k, l \in 1..n : s[k] = s[l] => k = l
    BY <1>0 DEF Distinct
  <2>1. \A k \in 1..n : s[k] # x
    BY <1>1
  <2>2. \A k \in 1..n + 1 : (k < at => k \in 1..n) /\ (k > at => k - 1 \in 1..n) /\ (k < at \/ k = at \/ k > at)
    BY <1>0, <1>3
  <2>3. /\ i < at => i \in 1..n /\ t[i] = s[i]
        /\ i = at => t[i] = x
        /\ i > at => i - 1 \in 1..n /\ t[i] = s[i - 1]
    BY <1>3, <1>5, <2>2
  <2>4. /\ j < at => j \in 1..n /\ t[j] = s[j]
        /\ j = at => t[j] = x
        /\ j > at => j - 1 \in 1..n /\ t[j] = s[j - 1]
    BY <1>3, <1>5, <2>2
  <2>5. CASE i = at \/ j = at
    BY <2>1, <2>2, <2>3, <2>4, <2>5
  <2>6. CASE i < at /\ j < at
    BY <2>0, <2>3, <2>4, <2>6
  <2>7. CASE i > at /\ j > at
    BY <2>0, <2>3, <2>4, <2>7
  <2>8. CASE i < at /\ j > at
    <3>1. i = j - 1
      BY <2>0, <2>3, <2>4, <2>8
    <3> QED
      BY <1>3, <2>8, <3>1
  <2>9. CASE i > at /\ j < at
    <3>1. j = i - 1
      BY <2>0, <2>3, <2>4, <2>9
    <3> QED
      BY <1>3, <2>9, <3>1
  <2> QED
    BY <2>2, <2>5, <2>6, <2>7, <2>8, <2>9
<1> QED
  BY <1>6, <1>7, <1>8, <1>9 DEF t

\* The same elements, each as often as before, from the highest rank to the lowest.
LEMMA SortIn ==
    ASSUME NEW q, IsSlice(q), NEW rank, \A y \in ToSet(q) : rank[y] \in Int
    PROVE  /\ IsSlice(StableSort(q, rank)) /\ ToSet(StableSort(q, rank)) = ToSet(q)
           /\ Descending(StableSort(q, rank), rank)
           /\ Distinct(q) => Distinct(StableSort(q, rank))
<1>0. Len(q) \in Nat /\ DOMAIN q = 1..Len(q)
  BY SliceIs
<1>1. PICK acc : /\ acc[0] = <<>> /\ StableSort(q, rank) = acc[Len(q)]
                 /\ \A k \in 1..Len(q) : acc[k] = Inserted(acc[k - 1], q[k], rank)
  BY SortRun
<1> DEFINE Good(k) == /\ IsSlice(acc[k]) /\ ToSet(acc[k]) = {q[j] : j \in 1..k} /\ Descending(acc[k], rank)
                      /\ Distinct(q) => Distinct(acc[k])
           G == {k \in Nat : Good(k)}
<1>2. 0 \in G
  <2>1. IsSlice(<<>>) /\ ToSet(<<>>) = {} /\ Distinct(<<>>) /\ Descending(<<>>, rank)
    BY DEF IsSlice, ToSet, Distinct, Descending
  <2> QED
    BY <1>1, <2>1
<1>3. ASSUME NEW k \in 0..Len(q) - 1, k \in G PROVE k + 1 \in G
  <2>1. k + 1 \in 1..Len(q) /\ (k + 1) - 1 = k /\ k \in Nat /\ k + 1 \in Nat
    BY <1>0
  <2>2. acc[k + 1] = Inserted(acc[k], q[k + 1], rank)
    BY <1>1, <2>1
  <2>3. Good(k)
    BY <1>3
  <2>4. \A y \in ToSet(acc[k]) \cup {q[k + 1]} : rank[y] \in Int
    <3>1. \A j \in 1..k + 1 : q[j] \in ToSet(q)
      BY <1>0, <2>1 DEF ToSet
    <3> QED
      BY <2>1, <2>3, <3>1
  <2>5. Distinct(q) => q[k + 1] \notin {q[j] : j \in 1..k}
    BY <1>0, <2>1 DEF Distinct
  <2>6. 1..k + 1 = 1..k \cup {k + 1}
    BY <2>1
  <2>7. Good(k + 1)
    <3>1. /\ IsSlice(acc[k + 1]) /\ ToSet(acc[k + 1]) = ToSet(acc[k]) \cup {q[k + 1]} /\ Descending(acc[k + 1], rank)
          /\ Distinct(acc[k]) /\ q[k + 1] \notin ToSet(acc[k]) => Distinct(acc[k + 1])
      BY <2>2, <2>3, <2>4, InsertedIn
    <3> QED
      BY <2>3, <2>5, <2>6, <3>1
  <2> HIDE DEF Good
  <2> QED
    BY <2>1, <2>7
<1>4. Good(Len(q))
  <2>1. G \in SUBSET Nat
    OBVIOUS
  <2> HIDE DEF G
  <2>2. \A k \in 0..Len(q) : k \in G
    BY <1>0, <1>2, <1>3, <2>1, UpTo
  <2>3. Len(q) \in G
    BY <1>0, <2>2
  <2> USE DEF G
  <2> HIDE DEF Good
  <2> QED
    BY <2>3
<1>5. ToSet(q) = {q[j] : j \in 1..Len(q)}
  BY <1>0 DEF ToSet
<1> QED
  BY <1>1, <1>4, <1>5
=============================================================================
