-------------------------- MODULE AccessScanProofs --------------------------
(***************************************************************************)
(* What holds of every access classification, whatever the probes report   *)
(* and whatever the rule files say.                                        *)
(***************************************************************************)
EXTENDS AccessScan, FoldInduction

-----------------------------------------------------------------------------
(* Loops. Every loop of the engine is one of these rounds repeated.        *)

Round(loop, b, x) ==
    CASE loop = "absorb"  -> Absorb(b, x)
      [] loop = "devices" -> AbsorbDevice(b, x)
      [] loop = "merge"   -> MergeOneDevice(b, x)
      [] loop = "store"   -> StoreDevice(b, x)
      [] loop = "unique"  -> AppendUnique(b, x)
      [] loop = "join"    -> b \o x
      [] loop = "sum"     -> b + x
      [] loop = "best"    -> IF GatewaySourceBetter(x, b) THEN x ELSE b

LEMMA Rounds ==
    \A b, x :
        /\ Round("absorb", b, x) = Absorb(b, x)
        /\ Round("devices", b, x) = AbsorbDevice(b, x)
        /\ Round("merge", b, x) = MergeOneDevice(b, x)
        /\ Round("store", b, x) = StoreDevice(b, x)
        /\ Round("unique", b, x) = AppendUnique(b, x)
        /\ Round("join", b, x) = b \o x
        /\ Round("sum", b, x) = b + x
        /\ Round("best", b, x) = IF GatewaySourceBetter(x, b) THEN x ELSE b
  BY DEF Round

\* h is the fold of the loop over q.
Solves(h, loop, base, q) ==
    h = [s \in SUBSET DOMAIN q |-> IF s = {} THEN base ELSE Round(loop, h[s \ {Max(s)}], q[Max(s)])]

\* acc is the loop's variable after each round.
Runs(acc, loop, base, q) ==
    acc[0] = base /\ \A k \in 1..Len(q) : acc[k] = Round(loop, acc[k - 1], q[k])

\* There is a fold, for any loop over any slice.
LEMMA LoopExists ==
    ASSUME NEW loop, NEW base, NEW q, IsSlice(q)
    PROVE  \E h : Solves(h, loop, base, q)
<1> DEFINE Sol(k, h) == h = [s \in SUBSET (1..k) |-> IF s = {} THEN base ELSE Round(loop, h[s \ {Max(s)}], q[Max(s)])]
           G == {k \in Nat : \E h : Sol(k, h)}
<1>0. Len(q) \in Nat /\ DOMAIN q = 1..Len(q)
  BY SliceIs
<1>1. 0 \in G
  <2>1. 1..0 = {} /\ SUBSET (1..0) = {{}}
    OBVIOUS
  <2>2. Sol(0, [s \in SUBSET (1..0) |-> base])
    BY <2>1
  <2> HIDE DEF Sol
  <2> QED
    BY <2>2
<1>2. ASSUME NEW k \in 0..Len(q) - 1, k \in G PROVE k + 1 \in G
  <2>0. k \in Nat
    BY <1>0
  <2> HIDE DEF Sol
  <2>1. PICK h : Sol(k, h)
    BY <1>2
  <2> USE DEF Sol
  <2> DEFINE g == [s \in SUBSET (1..k + 1) |-> IF s \in SUBSET (1..k) THEN h[s]
                                               ELSE Round(loop, h[s \ {k + 1}], q[k + 1])]
  <2>2. \A s \in SUBSET (1..k + 1) : s \notin SUBSET (1..k) => k + 1 \in s /\ s \ {k + 1} \in SUBSET (1..k)
    BY <2>0
  <2>5. ASSUME NEW s \in SUBSET (1..k + 1)
        PROVE  g[s] = IF s = {} THEN base ELSE Round(loop, g[s \ {Max(s)}], q[Max(s)])
    <3>1. CASE s \in SUBSET (1..k)
      <4>1. s \ {Max(s)} \in SUBSET (1..k) /\ s \in SUBSET (1..k + 1) /\ s \ {Max(s)} \in SUBSET (1..k + 1)
        BY <3>1
      <4>2. g[s] = h[s] /\ g[s \ {Max(s)}] = h[s \ {Max(s)}]
        BY <3>1, <4>1
      <4> HIDE DEF g
      <4>3. h[s] = IF s = {} THEN base ELSE Round(loop, h[s \ {Max(s)}], q[Max(s)])
        BY <2>1, <3>1
      <4> QED
        BY <4>2, <4>3
    <3>2. CASE s \notin SUBSET (1..k)
      <4>1. Max(s) = k + 1 /\ s # {}
        BY <2>0, <2>2, <3>2, MaxOfStep
      <4>2. s \ {k + 1} \in SUBSET (1..k) /\ s \ {k + 1} \in SUBSET (1..k + 1)
        BY <2>2, <3>2
      <4>3. g[s \ {k + 1}] = h[s \ {k + 1}]
        BY <4>2
      <4>4. g[s] = Round(loop, h[s \ {k + 1}], q[k + 1])
        BY <3>2
      <4> QED
        BY <4>1, <4>3, <4>4
    <3> QED
      BY <3>1, <3>2
  <2>6. Sol(k + 1, g)
    <3> DEFINE W(f) == [s \in SUBSET (1..k + 1) |-> IF s = {} THEN base ELSE Round(loop, f[s \ {Max(s)}], q[Max(s)])]
    <3>1. \A s \in SUBSET (1..k + 1) : g[s] = W(g)[s]
      BY <2>5
    <3>2. g = [s \in SUBSET (1..k + 1) |-> g[s]]
      OBVIOUS
    <3>3. W(g) = [s \in SUBSET (1..k + 1) |-> W(g)[s]]
      OBVIOUS
    <3> HIDE DEF W, g
    <3>4. g = W(g)
      BY <3>1, <3>2, <3>3
    <3> QED
      BY <3>4 DEF W
  <2> HIDE DEF g, Sol
  <2> QED
    BY <2>0, <2>6
<1>3. Len(q) \in G
  <2>1. G \in SUBSET Nat
    OBVIOUS
  <2> HIDE DEF G
  <2>2. \A k \in 0..Len(q) : k \in G
    BY <1>0, <1>1, <1>2, <2>1, UpTo
  <2> QED
    BY <1>0, <2>2
<1> QED
  BY <1>0, <1>3 DEF Solves

\* The fold's result is the loop's variable after the last round.
LEMMA LoopRuns ==
    ASSUME NEW loop, NEW base, NEW q, IsSlice(q), NEW f, Solves(f, loop, base, q)
    PROVE  \E acc : Runs(acc, loop, base, q) /\ acc[Len(q)] = f[DOMAIN q]
<1> DEFINE acc == [k \in 0..Len(q) |-> f[1..k]]
<1>0. Len(q) \in Nat /\ DOMAIN q = 1..Len(q)
  BY SliceIs
<1>1. 1..0 = {} /\ {} \in SUBSET DOMAIN q
  OBVIOUS
<1>2. f[{}] = base
  BY <1>1 DEF Solves
<1>3. ASSUME NEW k \in 1..Len(q) PROVE acc[k] = Round(loop, acc[k - 1], q[k])
  <2>1. k \in Nat /\ k # 0 /\ 1..k \in SUBSET DOMAIN q /\ k - 1 \in 0..Len(q) /\ k \in 0..Len(q)
    BY <1>0
  <2>2. 1..k # {} /\ Max(1..k) = k /\ (1..k) \ {Max(1..k)} = 1..k - 1
    BY <2>1, MaxOfPrefix
  <2>3. f[1..k] = Round(loop, f[(1..k) \ {Max(1..k)}], q[Max(1..k)])
    BY <2>1, <2>2 DEF Solves
  <2> QED
    BY <2>1, <2>2, <2>3
<1>4. acc[0] = base /\ acc[Len(q)] = f[DOMAIN q]
  BY <1>0, <1>1, <1>2
<1> HIDE DEF acc
<1> QED
  BY <1>3, <1>4 DEF Runs

-----------------------------------------------------------------------------
(* The loops, by their rounds.                                             *)

LEMMA GatherRun ==
    ASSUME NEW q, IsSlice(q)
    PROVE  \E acc : /\ acc[0] = NoEvidence /\ Gathered(q) = acc[Len(q)]
                    /\ \A k \in 1..Len(q) : acc[k] = Absorb(acc[k - 1], q[k])
<1> DEFINE Sol(g) == g = [s \in SUBSET DOMAIN q |-> IF s = {} THEN NoEvidence ELSE Absorb(g[s \ {Max(s)}], q[Max(s)])]
           f == CHOOSE g : Sol(g)
<1>1. Gathered(q) = f[DOMAIN q]
  BY Zenon DEF FoldLeft, MapThenFoldSet, Gathered
<1>11. \A x, y : Round("absorb", x, y) = Absorb(x, y)
  BY Rounds, Zenon
<1>2. \A g : Solves(g, "absorb", NoEvidence, q) <=> Sol(g)
  BY <1>11 DEF Solves
<1> HIDE DEF Sol
<1>3. \E g : Sol(g)
  BY <1>2, LoopExists
<1>4. Solves(f, "absorb", NoEvidence, q)
  BY <1>2, <1>3, Zenon
<1> HIDE DEF f
<1>5. PICK acc : Runs(acc, "absorb", NoEvidence, q) /\ acc[Len(q)] = f[DOMAIN q]
  BY <1>4, LoopRuns
<1> QED
  BY <1>1, <1>5, Rounds DEF Runs

LEMMA AbsorbRun ==
    ASSUME NEW b, NEW q, IsSlice(q)
    PROVE  \E acc : /\ acc[0] = b /\ AbsorbDevices(b, q) = acc[Len(q)]
                    /\ \A k \in 1..Len(q) : acc[k] = AbsorbDevice(acc[k - 1], q[k])
<1> DEFINE Sol(g) == g = [s \in SUBSET DOMAIN q |-> IF s = {} THEN b ELSE AbsorbDevice(g[s \ {Max(s)}], q[Max(s)])]
           f == CHOOSE g : Sol(g)
<1>1. AbsorbDevices(b, q) = f[DOMAIN q]
  BY Zenon DEF FoldLeft, MapThenFoldSet, AbsorbDevices
<1>2. \A g : Solves(g, "devices", b, q) <=> Sol(g)
  BY Rounds DEF Solves
<1> HIDE DEF Sol
<1>3. \E g : Sol(g)
  BY <1>2, LoopExists
<1>4. Solves(f, "devices", b, q)
  BY <1>2, <1>3, Zenon
<1> HIDE DEF f
<1>5. PICK acc : Runs(acc, "devices", b, q) /\ acc[Len(q)] = f[DOMAIN q]
  BY <1>4, LoopRuns
<1> QED
  BY <1>1, <1>5, Rounds DEF Runs

LEMMA MergeRun ==
    ASSUME NEW q, IsSlice(q)
    PROVE  \E acc : /\ acc[0] = <<>> /\ MergeByAddress(q) = acc[Len(q)]
                    /\ \A k \in 1..Len(q) : acc[k] = MergeOneDevice(acc[k - 1], q[k])
<1> DEFINE Sol(g) == g = [s \in SUBSET DOMAIN q |-> IF s = {} THEN <<>> ELSE MergeOneDevice(g[s \ {Max(s)}], q[Max(s)])]
           f == CHOOSE g : Sol(g)
<1>1. MergeByAddress(q) = f[DOMAIN q]
  BY Zenon DEF FoldLeft, MapThenFoldSet, MergeByAddress
<1>2. \A g : Solves(g, "merge", <<>>, q) <=> Sol(g)
  BY Rounds DEF Solves
<1> HIDE DEF Sol
<1>3. \E g : Sol(g)
  BY <1>2, LoopExists
<1>4. Solves(f, "merge", <<>>, q)
  BY <1>2, <1>3, Zenon
<1> HIDE DEF f
<1>5. PICK acc : Runs(acc, "merge", <<>>, q) /\ acc[Len(q)] = f[DOMAIN q]
  BY <1>4, LoopRuns
<1> QED
  BY <1>1, <1>5, Rounds DEF Runs

LEMMA StoreRun ==
    ASSUME NEW q, IsSlice(q)
    PROVE  \E acc : /\ acc[0] = <<>> /\ StoreDevices(q) = acc[Len(q)]
                    /\ \A k \in 1..Len(q) : acc[k] = StoreDevice(acc[k - 1], q[k])
<1> DEFINE Sol(g) == g = [s \in SUBSET DOMAIN q |-> IF s = {} THEN <<>> ELSE StoreDevice(g[s \ {Max(s)}], q[Max(s)])]
           f == CHOOSE g : Sol(g)
<1>1. StoreDevices(q) = f[DOMAIN q]
  BY Zenon DEF FoldLeft, MapThenFoldSet, StoreDevices
<1>2. \A g : Solves(g, "store", <<>>, q) <=> Sol(g)
  BY Rounds DEF Solves
<1> HIDE DEF Sol
<1>3. \E g : Sol(g)
  BY <1>2, LoopExists
<1>4. Solves(f, "store", <<>>, q)
  BY <1>2, <1>3, Zenon
<1> HIDE DEF f
<1>5. PICK acc : Runs(acc, "store", <<>>, q) /\ acc[Len(q)] = f[DOMAIN q]
  BY <1>4, LoopRuns
<1> QED
  BY <1>1, <1>5, Rounds DEF Runs

LEMMA UniqueRun ==
    ASSUME NEW b, NEW q, IsSlice(q)
    PROVE  \E acc : /\ acc[0] = b /\ AppendAllUnique(b, q) = acc[Len(q)]
                    /\ \A k \in 1..Len(q) : acc[k] = AppendUnique(acc[k - 1], q[k])
<1> DEFINE Sol(g) == g = [s \in SUBSET DOMAIN q |-> IF s = {} THEN b ELSE AppendUnique(g[s \ {Max(s)}], q[Max(s)])]
           f == CHOOSE g : Sol(g)
<1>1. AppendAllUnique(b, q) = f[DOMAIN q]
  BY Zenon DEF FoldLeft, MapThenFoldSet, AppendAllUnique
<1>11. \A x, y : Round("unique", x, y) = AppendUnique(x, y)
  BY Rounds, Zenon
<1>2. \A g : Solves(g, "unique", b, q) <=> Sol(g)
  BY <1>11 DEF Solves
<1> HIDE DEF Sol
<1>3. \E g : Sol(g)
  BY <1>2, LoopExists
<1>4. Solves(f, "unique", b, q)
  BY <1>2, <1>3, Zenon
<1> HIDE DEF f
<1>5. PICK acc : Runs(acc, "unique", b, q) /\ acc[Len(q)] = f[DOMAIN q]
  BY <1>4, LoopRuns
<1> QED
  BY <1>1, <1>5, Rounds DEF Runs

LEMMA JoinRun ==
    ASSUME NEW q, IsSlice(q)
    PROVE  \E acc : /\ acc[0] = <<>> /\ Flattened(q) = acc[Len(q)]
                    /\ \A k \in 1..Len(q) : acc[k] = acc[k - 1] \o q[k]
<1> DEFINE then(x, y) == x \o y
           Sol(g) == g = [s \in SUBSET DOMAIN q |-> IF s = {} THEN <<>> ELSE then(g[s \ {Max(s)}], q[Max(s)])]
           f == CHOOSE g : Sol(g)
<1>1. Flattened(q) = f[DOMAIN q]
  BY Zenon DEF FoldLeft, MapThenFoldSet, Flattened
<1>11. \A x, y : Round("join", x, y) = then(x, y)
  BY Rounds, Zenon
<1> HIDE DEF then
<1>2. \A g : Solves(g, "join", <<>>, q) <=> Sol(g)
  BY <1>11 DEF Solves
<1> HIDE DEF Sol
<1>3. \E g : Sol(g)
  BY <1>2, LoopExists
<1>4. Solves(f, "join", <<>>, q)
  BY <1>2, <1>3, Zenon
<1> HIDE DEF f
<1>5. PICK acc : Runs(acc, "join", <<>>, q) /\ acc[Len(q)] = f[DOMAIN q]
  BY <1>4, LoopRuns
<1>6. \A k \in 1..Len(q) : acc[k] = then(acc[k - 1], q[k])
  BY <1>5, <1>11 DEF Runs
<1>7. acc[0] = <<>> /\ Flattened(q) = acc[Len(q)]
  BY <1>1, <1>5, Zenon DEF Runs
<1> QED
  BY <1>6, <1>7, Zenon DEF then

LEMMA SumRun ==
    ASSUME NEW q, IsSlice(q)
    PROVE  \E acc : /\ acc[0] = 0 /\ SumOf(q) = acc[Len(q)]
                    /\ \A k \in 1..Len(q) : acc[k] = acc[k - 1] + q[k]
<1> DEFINE Sol(g) == g = [s \in SUBSET DOMAIN q |-> IF s = {} THEN 0 ELSE g[s \ {Max(s)}] + q[Max(s)]]
           f == CHOOSE g : Sol(g)
<1>1. SumOf(q) = f[DOMAIN q]
  BY Zenon DEF FoldLeft, MapThenFoldSet, SumOf
<1>11. \A x, y : Round("sum", x, y) = x + y
  BY Rounds, Zenon
<1>2. \A g : Solves(g, "sum", 0, q) <=> Sol(g)
  BY <1>11 DEF Solves
<1> HIDE DEF Sol
<1>3. \E g : Sol(g)
  BY <1>2, LoopExists
<1>4. Solves(f, "sum", 0, q)
  BY <1>2, <1>3, Zenon
<1> HIDE DEF f
<1>5. PICK acc : Runs(acc, "sum", 0, q) /\ acc[Len(q)] = f[DOMAIN q]
  BY <1>4, LoopRuns
<1> QED
  BY <1>1, <1>5, <1>11 DEF Runs

-----------------------------------------------------------------------------
(* What the loops over slices do.                                          *)

LEMMA UniqueStep ==
    ASSUME NEW s, IsSlice(s), NEW v
    PROVE  /\ IsSlice(AppendUnique(s, v)) /\ ToSet(AppendUnique(s, v)) = ToSet(s) \cup ({v} \ {""})
<1>1. Len(s) \in Nat /\ DOMAIN s = 1..Len(s)
  BY SliceIs
<1>2. Contains(s, v) => v \in ToSet(s)
  BY <1>1 DEF Contains, ToSet
<1> DEFINE blank == {""}
<1>3. v = "" <=> v \in blank
  BY Zenon
<1>4. AppendUnique(s, v) = IF v \in blank \/ Contains(s, v) THEN s ELSE Append(s, v)
  BY <1>3, Zenon DEF AppendUnique
<1> HIDE DEF blank
<1>5. /\ IsSlice(AppendUnique(s, v)) /\ ToSet(AppendUnique(s, v)) = ToSet(s) \cup ({v} \ blank)
  BY <1>2, <1>4, AppendIn
<1> QED
  BY <1>5, Zenon DEF blank

\* Every value with a text is in the list afterwards, and nothing else is new.
LEMMA UniqueIn ==
    ASSUME NEW s, IsSlice(s), NEW q, IsSlice(q)
    PROVE  IsSlice(AppendAllUnique(s, q)) /\ ToSet(AppendAllUnique(s, q)) = ToSet(s) \cup (ToSet(q) \ {""})
<1>0. Len(q) \in Nat /\ DOMAIN q = 1..Len(q)
  BY SliceIs
<1> DEFINE blank == {""}
<1>1. PICK acc : /\ acc[0] = s /\ AppendAllUnique(s, q) = acc[Len(q)]
                 /\ \A k \in 1..Len(q) : acc[k] = AppendUnique(acc[k - 1], q[k])
  BY UniqueRun
<1> DEFINE Good(k) == IsSlice(acc[k]) /\ ToSet(acc[k]) = ToSet(s) \cup ({q[j] : j \in 1..k} \ blank)
           G == {k \in Nat : Good(k)}
<1>2. 0 \in G
  <2> HIDE DEF blank
  <2> QED
    BY <1>1
<1>3. ASSUME NEW k \in 0..Len(q) - 1, k \in G PROVE k + 1 \in G
  <2>1. k + 1 \in 1..Len(q) /\ (k + 1) - 1 = k /\ k \in Nat /\ k + 1 \in Nat
    BY <1>0
  <2>2. acc[k + 1] = AppendUnique(acc[k], q[k + 1])
    BY <1>1, <2>1
  <2>3. IsSlice(acc[k + 1]) /\ ToSet(acc[k + 1]) = ToSet(acc[k]) \cup ({q[k + 1]} \ blank)
    <3>1. IsSlice(acc[k])
      <4> HIDE DEF blank
      <4> QED
        BY <1>3
    <3>2. /\ IsSlice(AppendUnique(acc[k], q[k + 1]))
          /\ ToSet(AppendUnique(acc[k], q[k + 1])) = ToSet(acc[k]) \cup ({q[k + 1]} \ blank)
      BY <3>1, UniqueStep, Zenon
    <3> HIDE DEF blank
    <3> QED
      BY <2>2, <3>2
  <2> HIDE DEF blank
  <2>4. {q[j] : j \in 1..k + 1} = {q[j] : j \in 1..k} \cup {q[k + 1]}
    BY <2>1
  <2>5. Good(k)
    BY <1>3
  <2>6. Good(k + 1)
    BY <2>3, <2>4, <2>5
  <2> HIDE DEF Good
  <2> QED
    BY <2>1, <2>6
<1>4. Good(Len(q))
  <2>1. G \in SUBSET Nat
    OBVIOUS
  <2> HIDE DEF G
  <2>2. \A k \in 0..Len(q) : k \in G
    BY <1>0, <1>2, <1>3, <2>1, UpTo
  <2>3. Len(q) \in G
    BY <1>0, <2>2
  <2> USE DEF G
  <2> HIDE DEF Good
  <2> QED
    BY <2>3
<1> HIDE DEF blank
<1>5. ToSet(q) = {q[j] : j \in 1..Len(q)}
  BY <1>0 DEF ToSet
<1>6. IsSlice(AppendAllUnique(s, q)) /\ ToSet(AppendAllUnique(s, q)) = ToSet(s) \cup (ToSet(q) \ blank)
  BY <1>1, <1>4, <1>5
<1> QED
  BY <1>6, Zenon DEF blank

LEMMA ThoseSlice ==
    ASSUME NEW q, IsSlice(q), NEW S
    PROVE  IsSlice(Those(q, S)) /\ ToSet(Those(q, S)) = ToSet(q) \cap S
<1>1. Those(q, S) \in Seq(ToSet(q)) /\ ToSet(Those(q, S)) = ToSet(q) \cap S
  BY ThoseIn DEF IsSlice
<1> QED
  BY <1>1, SliceOf

LEMMA JoinIn ==
    ASSUME NEW p, IsSlice(p), NEW q, IsSlice(q)
    PROVE  IsSlice(p \o q) /\ ToSet(p \o q) = ToSet(p) \cup ToSet(q)
<1> DEFINE A == ToSet(p) \cup ToSet(q)
<1>1. p \in Seq(A) /\ q \in Seq(A)
  BY DEF IsSlice
<1> HIDE DEF A
<1>2. p \o q \in Seq(A) /\ ToSet(p \o q) = ToSet(p) \cup ToSet(q)
  BY <1>1, Joined
<1> QED
  BY <1>2, SliceOf

LEMMA FlattenedIn ==
    ASSUME NEW q, IsSlice(q), \A i \in DOMAIN q : IsSlice(q[i])
    PROVE  IsSlice(Flattened(q)) /\ ToSet(Flattened(q)) = UNION {ToSet(q[i]) : i \in DOMAIN q}
<1>0. Len(q) \in Nat /\ DOMAIN q = 1..Len(q)
  BY SliceIs
<1>1. PICK acc : /\ acc[0] = <<>> /\ Flattened(q) = acc[Len(q)]
                 /\ \A k \in 1..Len(q) : acc[k] = acc[k - 1] \o q[k]
  BY JoinRun
<1> DEFINE Good(k) == IsSlice(acc[k]) /\ ToSet(acc[k]) = UNION {ToSet(q[j]) : j \in 1..k}
           G == {k \in Nat : Good(k)}
<1>2. 0 \in G
  <2>1. IsSlice(<<>>) /\ ToSet(<<>>) = {}
    BY DEF IsSlice, ToSet
  <2>2. UNION {ToSet(q[j]) : j \in 1..0} = {}
    OBVIOUS
  <2> QED
    BY <1>1, <2>1, <2>2
<1>3. ASSUME NEW k \in 0..Len(q) - 1, k \in G PROVE k + 1 \in G
  <2>1. k + 1 \in 1..Len(q) /\ (k + 1) - 1 = k /\ k \in Nat /\ k + 1 \in Nat
    BY <1>0
  <2>2. acc[k + 1] = acc[k] \o q[k + 1]
    BY <1>1, <2>1
  <2>3. IsSlice(acc[k + 1]) /\ ToSet(acc[k + 1]) = ToSet(acc[k]) \cup ToSet(q[k + 1])
    BY <1>0, <1>3, <2>1, <2>2, JoinIn
  <2>4. 1..k + 1 = 1..k \cup {k + 1}
    BY <2>1
  <2>5. Good(k)
    BY <1>3
  <2>6. Good(k + 1)
    BY <2>3, <2>4, <2>5
  <2> HIDE DEF Good
  <2> QED
    BY <2>1, <2>6
<1>4. Good(Len(q))
  <2>1. G \in SUBSET Nat
    OBVIOUS
  <2> HIDE DEF G
  <2>2. \A k \in 0..Len(q) : k \in G
    BY <1>0, <1>2, <1>3, <2>1, UpTo
  <2>3. Len(q) \in G
    BY <1>0, <2>2
  <2> USE DEF G
  <2> HIDE DEF Good
  <2> QED
    BY <2>3
<1> QED
  BY <1>0, <1>1, <1>4

LEMMA ThoseDistinct ==
    ASSUME NEW q, IsSlice(q), NEW S, Distinct(q)
    PROVE  Distinct(Those(q, S))
<1>0. Len(q) \in Nat /\ DOMAIN q = 1..Len(q)
  BY SliceIs
<1>1. PICK acc \in [0..Len(q) -> Seq(ToSet(q))] : KeepsThose(acc, q, S)
  BY ThoseRun DEF IsSlice
<1> DEFINE Good(k) == Distinct(acc[k]) /\ ToSet(acc[k]) \subseteq {q[j] : j \in 1..k}
           G == {k \in Nat : Good(k)}
<1>2. 0 \in G
  <2>1. Distinct(<<>>) /\ ToSet(<<>>) = {}
    BY DEF Distinct, ToSet
  <2> QED
    BY <1>1, <2>1 DEF KeepsThose
<1>3. ASSUME NEW k \in 0..Len(q) - 1, k \in G PROVE k + 1 \in G
  <2>1. k + 1 \in 1..Len(q) /\ (k + 1) - 1 = k /\ k \in Nat /\ k + 1 \in Nat /\ k \in 0..Len(q)
    BY <1>0
  <2>2. acc[k + 1] = IF q[k + 1] \in S THEN Append(acc[k], q[k + 1]) ELSE acc[k]
    BY <1>1, <2>1 DEF KeepsThose
  <2>3. IsSlice(acc[k])
    BY <2>1, SliceOf
  <2>4. q[k + 1] \notin {q[j] : j \in 1..k}
    BY <1>0, <2>1 DEF Distinct
  <2>5. Good(k)
    BY <1>3
  <2>6. Good(k + 1)
    <3>1. {q[j] : j \in 1..k + 1} = {q[j] : j \in 1..k} \cup {q[k + 1]}
      BY <2>1
    <3>2. q[k + 1] \notin ToSet(acc[k])
      BY <2>4, <2>5
    <3>3. ToSet(Append(acc[k], q[k + 1])) = ToSet(acc[k]) \cup {q[k + 1]} /\ Distinct(Append(acc[k], q[k + 1]))
      BY <2>3, <2>5, <3>2, AppendIn
    <3> QED
      BY <2>2, <2>5, <3>1, <3>3
  <2> HIDE DEF Good
  <2> QED
    BY <2>1, <2>6
<1>4. Good(Len(q))
  <2>1. G \in SUBSET Nat
    OBVIOUS
  <2> HIDE DEF G
  <2>2. \A k \in 0..Len(q) : k \in G
    BY <1>0, <1>2, <1>3, <2>1, UpTo
  <2>3. Len(q) \in G
    BY <1>0, <2>2
  <2> USE DEF G
  <2> HIDE DEF Good
  <2> QED
    BY <2>3
<1> QED
  BY <1>1, <1>4 DEF KeepsThose

-----------------------------------------------------------------------------
(* Sums.                                                                   *)

\* The running totals of q.
Totals(acc, q) ==
    acc[0] = 0 /\ SumOf(q) = acc[Len(q)] /\ \A k \in 1..Len(q) : acc[k] = acc[k - 1] + q[k]

LEMMA TotalsExist ==
    ASSUME NEW q \in Seq(Int)
    PROVE  \E acc : Totals(acc, q) /\ \A k \in 0..Len(q) : acc[k] \in Int
<1>0. Len(q) \in Nat /\ \A k \in 1..Len(q) : q[k] \in Int
  OBVIOUS
<1>1. PICK acc : Totals(acc, q)
  BY SliceOf, SumRun DEF Totals
<1> DEFINE G == {k \in Nat : acc[k] \in Int}
<1>2. 0 \in G
  BY <1>1 DEF Totals
<1>3. ASSUME NEW k \in 0..Len(q) - 1, k \in G PROVE k + 1 \in G
  <2>1. k + 1 \in 1..Len(q) /\ (k + 1) - 1 = k /\ k + 1 \in Nat
    BY <1>0
  <2>2. acc[k + 1] = acc[k] + q[k + 1]
    BY <1>1, <2>1 DEF Totals
  <2> QED
    BY <1>0, <1>3, <2>1, <2>2
<1>4. \A k \in 0..Len(q) : k \in G
  <2>1. G \in SUBSET Nat
    OBVIOUS
  <2> HIDE DEF G
  <2> QED
    BY <1>0, <1>2, <1>3, <2>1, UpTo
<1> QED
  BY <1>1, <1>4

LEMMA SumInt ==
    ASSUME NEW q \in Seq(Int)
    PROVE  SumOf(q) \in Int
<1>1. Len(q) \in 0..Len(q)
  OBVIOUS
<1> QED
  BY <1>1, TotalsExist DEF Totals

LEMMA SumJoin ==
    ASSUME NEW p \in Seq(Int), NEW q \in Seq(Int)
    PROVE  p \o q \in Seq(Int) /\ SumOf(p \o q) = SumOf(p) + SumOf(q)
<1> DEFINE m == Len(p)
           n == Len(q)
           t == p \o q
<1>0. m \in Nat /\ n \in Nat
  OBVIOUS
<1>1. /\ t \in Seq(Int) /\ Len(t) = m + n
      /\ \A i \in 1..m + n : t[i] = IF i <= m THEN p[i] ELSE q[i - m]
  OBVIOUS
<1> HIDE DEF t
<1>2. PICK a : Totals(a, p) /\ \A k \in 0..Len(p) : a[k] \in Int
  BY TotalsExist
<1>3. PICK b : Totals(b, q) /\ \A k \in 0..Len(q) : b[k] \in Int
  BY TotalsExist
<1>4. PICK c : Totals(c, t) /\ \A k \in 0..Len(t) : c[k] \in Int
  BY <1>1, TotalsExist
<1>5. /\ a[0] = 0 /\ SumOf(p) = a[m] /\ \A k \in 1..m : a[k] = a[k - 1] + p[k]
      /\ b[0] = 0 /\ SumOf(q) = b[n] /\ \A k \in 1..n : b[k] = b[k - 1] + q[k]
      /\ c[0] = 0 /\ SumOf(t) = c[m + n] /\ \A k \in 1..m + n : c[k] = c[k - 1] + t[k]
  BY <1>1, <1>2, <1>3, <1>4 DEF Totals
<1>6. /\ \A k \in 0..m : a[k] \in Int
      /\ \A k \in 0..n : b[k] \in Int
  BY <1>2, <1>3
<1> HIDE DEF m, n
<1>7. c[m] = a[m]
  <2> DEFINE G == {k \in Nat : c[k] = a[k]}
  <2>1. 0 \in G
    BY <1>5
  <2>2. ASSUME NEW k \in 0..m - 1, k \in G PROVE k + 1 \in G
    <3>1. k + 1 \in 1..m /\ k + 1 \in 1..m + n /\ (k + 1) - 1 = k /\ k + 1 \in Nat /\ k + 1 <= m
      BY <1>0
    <3>2. t[k + 1] = p[k + 1]
      BY <1>1, <3>1
    <3>3. c[k + 1] = c[k] + t[k + 1] /\ a[k + 1] = a[k] + p[k + 1]
      BY <1>5, <3>1
    <3> QED
      BY <2>2, <3>1, <3>2, <3>3
  <2>3. G \in SUBSET Nat
    OBVIOUS
  <2>4. \A k \in 0..m : k \in G
    <3> HIDE DEF G
    <3> QED
      BY <1>0, <2>1, <2>2, <2>3, UpTo
  <2> QED
    BY <1>0, <2>4
<1>8. c[m + n] = a[m] + b[n]
  <2> DEFINE G == {k \in Nat : c[m + k] = a[m] + b[k]}
  <2>1. 0 \in G
    BY <1>0, <1>5, <1>6, <1>7
  <2>2. ASSUME NEW k \in 0..n - 1, k \in G PROVE k + 1 \in G
    <3>1. /\ k + 1 \in 1..n /\ m + (k + 1) \in 1..m + n /\ (k + 1) - 1 = k /\ (m + (k + 1)) - 1 = m + k
          /\ k + 1 \in Nat /\ ~(m + (k + 1) <= m) /\ (m + (k + 1)) - m = k + 1
      BY <1>0
    <3>2. t[m + (k + 1)] = q[k + 1]
      BY <1>1, <3>1
    <3>3. c[m + (k + 1)] = c[m + k] + q[k + 1] /\ b[k + 1] = b[k] + q[k + 1]
      BY <1>5, <3>1, <3>2
    <3>4. c[m + k] = a[m] + b[k]
      BY <2>2
    <3>5. q[k + 1] \in Int /\ b[k] \in Int /\ a[m] \in Int
      BY <1>0, <1>6, <3>1 DEF n
    <3> QED
      BY <3>1, <3>3, <3>4, <3>5
  <2>3. G \in SUBSET Nat
    OBVIOUS
  <2>4. \A k \in 0..n : k \in G
    <3> HIDE DEF G
    <3> QED
      BY <1>0, <2>1, <2>2, <2>3, UpTo
  <2> QED
    BY <1>0, <2>4
<1> QED
  BY <1>1, <1>5, <1>8 DEF t

\* At most one of the numbers is not zero.
LEMMA SumSingle ==
    ASSUME NEW q \in Seq(Int), NEW j \in Nat, \A i \in DOMAIN q : i # j => q[i] = 0
    PROVE  SumOf(q) = IF j \in DOMAIN q THEN q[j] ELSE 0
<1>0. Len(q) \in Nat /\ DOMAIN q = 1..Len(q) /\ \A k \in 1..Len(q) : q[k] \in Int
  OBVIOUS
<1>1. PICK acc : Totals(acc, q) /\ \A k \in 0..Len(q) : acc[k] \in Int
  BY TotalsExist
<1> DEFINE G == {k \in Nat : acc[k] = IF j \in 1..k THEN q[j] ELSE 0}
<1>2. 0 \in G
  BY <1>1 DEF Totals
<1>3. ASSUME NEW k \in 0..Len(q) - 1, k \in G PROVE k + 1 \in G
  <2>1. k + 1 \in 1..Len(q) /\ (k + 1) - 1 = k /\ k + 1 \in Nat /\ k \in 0..Len(q)
    BY <1>0
  <2>2. acc[k + 1] = acc[k] + q[k + 1] /\ acc[k] \in Int /\ q[k + 1] \in Int
    BY <1>0, <1>1, <2>1 DEF Totals
  <2>3. acc[k] = IF j \in 1..k THEN q[j] ELSE 0
    BY <1>3
  <2>4. CASE j = k + 1
    <3>1. j \notin 1..k /\ j \in 1..k + 1
      BY <2>1, <2>4
    <3> QED
      BY <2>1, <2>2, <2>3, <2>4, <3>1
  <2>5. CASE j # k + 1
    <3>1. q[k + 1] = 0
      BY <1>0, <2>1, <2>5
    <3>2. j \in 1..k + 1 <=> j \in 1..k
      BY <2>1, <2>5
    <3> QED
      BY <2>1, <2>2, <2>3, <3>1, <3>2
  <2> QED
    BY <2>4, <2>5
<1>4. Len(q) \in G
  <2>1. G \in SUBSET Nat
    OBVIOUS
  <2> HIDE DEF G
  <2>2. \A k \in 0..Len(q) : k \in G
    BY <1>0, <1>2, <1>3, <2>1, UpTo
  <2> QED
    BY <1>0, <2>2
<1> QED
  BY <1>0, <1>1, <1>4 DEF Totals

LEMMA OccurrencesNat ==
    ASSUME NEW s, IsSlice(s), NEW v
    PROVE  Occurrences(s, v) \in Nat
<1>1. Len(s) \in Nat /\ DOMAIN s = 1..Len(s)
  BY SliceIs
<1>2. IsFiniteSet(DOMAIN s)
  BY <1>1, FS_Interval
<1>3. IsFiniteSet({i \in DOMAIN s : s[i] = v})
  BY <1>2, FS_Subset
<1> QED
  BY <1>3, FS_CardinalityType DEF Occurrences

\* As often n as there is a v.
LEMMA SumEach ==
    ASSUME NEW s, IsSlice(s), NEW v, NEW n \in Int
    PROVE  LET q == [i \in DOMAIN s |-> IF s[i] = v THEN n ELSE 0] IN q \in Seq(Int) /\ SumOf(q) = n * Occurrences(s, v)
<1> DEFINE q == [i \in DOMAIN s |-> IF s[i] = v THEN n ELSE 0]
           O(k) == {i \in 1..k : s[i] = v}
<1>0. Len(s) \in Nat /\ DOMAIN s = 1..Len(s)
  BY SliceIs
<1>1. q \in Seq(Int) /\ Len(q) = Len(s)
  BY <1>0
<1>2. \A k \in 1..Len(s) : q[k] = IF s[k] = v THEN n ELSE 0
  BY <1>0
<1> HIDE DEF q
<1>3. PICK acc : Totals(acc, q) /\ \A k \in 0..Len(q) : acc[k] \in Int
  BY <1>1, TotalsExist
<1> DEFINE G == {k \in Nat : acc[k] = n * Cardinality(O(k))}
<1>4. \A k \in Nat : IsFiniteSet(O(k)) /\ Cardinality(O(k)) \in Nat
  <2> SUFFICES ASSUME NEW k \in Nat PROVE IsFiniteSet(O(k))
    BY FS_CardinalityType
  <2>1. IsFiniteSet(1..k)
    BY FS_Interval
  <2>2. O(k) \subseteq 1..k
    OBVIOUS
  <2> HIDE DEF O
  <2> QED
    BY <2>1, <2>2, FS_Subset
<1>5. 0 \in G
  <2>1. O(0) = {}
    OBVIOUS
  <2>2. Cardinality(O(0)) = 0
    BY <2>1, FS_EmptySet
  <2> HIDE DEF O
  <2> QED
    BY <1>3, <2>2 DEF Totals
<1>6. ASSUME NEW k \in 0..Len(s) - 1, k \in G PROVE k + 1 \in G
  <2>1. k + 1 \in 1..Len(s) /\ (k + 1) - 1 = k /\ k + 1 \in Nat /\ k \in Nat
    BY <1>0
  <2>2. acc[k + 1] = acc[k] + q[k + 1]
    BY <1>1, <1>3, <2>1 DEF Totals
  <2>3. acc[k] = n * Cardinality(O(k))
    BY <1>6
  <2>4. CASE s[k + 1] = v
    <3>1. O(k + 1) = O(k) \cup {k + 1} /\ k + 1 \notin O(k)
      BY <2>1, <2>4
    <3> HIDE DEF O
    <3>2. Cardinality(O(k + 1)) = Cardinality(O(k)) + 1
      BY <1>4, <2>1, <3>1, FS_AddElement
    <3> DEFINE c == Cardinality(O(k))
    <3>3. c \in Nat
      BY <1>4, <2>1
    <3> HIDE DEF c
    <3>4. n * (c + 1) = n * c + n
      BY <3>3
    <3>5. q[k + 1] = n
      BY <1>2, <2>1, <2>4
    <3> QED
      BY <2>1, <2>2, <2>3, <3>2, <3>4, <3>5 DEF c
  <2>5. CASE s[k + 1] # v
    <3>1. O(k + 1) = O(k)
      BY <2>1, <2>5
    <3>2. q[k + 1] = 0
      BY <1>2, <2>1, <2>5
    <3> HIDE DEF O
    <3>3. n * Cardinality(O(k)) \in Int
      BY <1>4, <2>1
    <3> QED
      BY <2>1, <2>2, <2>3, <3>1, <3>2, <3>3
  <2> QED
    BY <2>4, <2>5
<1>7. Len(s) \in G
  <2>1. G \in SUBSET Nat
    OBVIOUS
  <2> HIDE DEF G
  <2>2. \A k \in 0..Len(s) : k \in G
    BY <1>0, <1>5, <1>6, <2>1, UpTo
  <2> QED
    BY <1>0, <2>2
<1>8. SumOf(q) = n * Occurrences(s, v)
  BY <1>0, <1>1, <1>3, <1>7 DEF Totals, Occurrences
<1> QED
  BY <1>1, <1>8 DEF q

-----------------------------------------------------------------------------
(* The evidence of a result.                                               *)

Signal == [text : SUBSET STRING, named : BOOLEAN, strong : BOOLEAN, conf : Nat]

\* What Reported says of the keys, one by one.
LEMMA Values ==
    /\ ValuesOf("hops") = Seq(STRING) /\ ValuesOf("gateway_chain") = Seq(STRING)
    /\ ValuesOf("gateway_devices") = Seq(Devices) /\ ValuesOf("nat_topology") = NATs
    /\ ValuesOf("wan_signals") = Seq(Signal)
    /\ ValuesOf("access_confidence") = Nat /\ ValuesOf("device_confidence") = Nat
    /\ ValuesOf("network_confidence") = Nat /\ ValuesOf("performance_confidence") = Nat
  BY DEF ValuesOf, Signal

LEMMA Setters ==
    /\ SetBy("hops") = {"traceroute_probe"} /\ SetBy("gateway_chain") = {"gateway_chain_probe", "upstream_private_cpe_probe"}
    /\ SetBy("gateway_devices") = {"gateway_chain_probe"} \cup DeviceProbes
    /\ SetBy("nat_topology") = {"stun_pcp_nat_probe"}
  BY DEF SetBy

LEMMA EvidenceTypes ==
    ASSUME NEW r, Reported(r.name, r)
    PROVE  /\ r.hints \in Seq(STRING)
           /\ Get(r.ev, "access_confidence", 0) \in Nat /\ Get(r.ev, "device_confidence", 0) \in Nat
           /\ Get(r.ev, "network_confidence", 0) \in Nat /\ Get(r.ev, "performance_confidence", 0) \in Nat
           /\ Get(r.ev, "wan_signals", <<>>) \in Seq(Signal)
           /\ Get(r.ev, "gateway_devices", <<>>) \in Seq(Devices)
           /\ Get(r.ev, "hops", <<>>) \in Seq(STRING) /\ Get(r.ev, "gateway_chain", <<>>) \in Seq(STRING)
           /\ "nat_topology" \in DOMAIN r.ev => r.ev["nat_topology"] \in NATs
<1>1. \A key \in TypedKeys : key \in DOMAIN r.ev => r.ev[key] \in ValuesOf(key)
  BY DEF Reported
<1>2. {"access_confidence", "device_confidence", "network_confidence", "performance_confidence", "wan_signals",
       "gateway_devices", "hops", "gateway_chain", "nat_topology"} \subseteq TypedKeys
  BY DEF TypedKeys
<1>3. \A T : <<>> \in Seq(T)
  OBVIOUS
<1> HIDE DEF ValuesOf
<1>4. \A key \in TypedKeys : \A zero : zero \in ValuesOf(key) => Get(r.ev, key, zero) \in ValuesOf(key)
  BY <1>1 DEF Get
<1> QED
  BY <1>1, <1>2, <1>3, <1>4, Values DEF Reported

\* Which probe a key tells of.
LEMMA EvidenceOf ==
    ASSUME NEW r, Reported(r.name, r)
    PROVE  /\ "hops" \in DOMAIN r.ev => r.name = "traceroute_probe"
           /\ "gateway_chain" \in DOMAIN r.ev => r.name \in {"gateway_chain_probe", "upstream_private_cpe_probe"}
           /\ "gateway_devices" \in DOMAIN r.ev => r.name \in {"gateway_chain_probe"} \cup DeviceProbes
           /\ "nat_topology" \in DOMAIN r.ev => r.name = "stun_pcp_nat_probe"
<1>1. \A key \in TypedKeys : key \in DOMAIN r.ev => r.name \in SetBy(key)
  BY DEF Reported
<1>2. {"hops", "gateway_chain", "gateway_devices", "nat_topology"} \subseteq TypedKeys
  BY DEF TypedKeys
<1> QED
  BY <1>1, <1>2, Setters

-----------------------------------------------------------------------------
(* The results of a scan.                                                  *)

\* One entry per slot so far, each as its probe reports it.
ResultsOK(rs) ==
    /\ IsSlice(rs)
    /\ \A i \in DOMAIN rs : i \in DOMAIN Slots /\ rs[i].name = Slots[i] /\ Reported(rs[i].name, rs[i])

LEMMA SuccessfulIn ==
    ASSUME NEW rs, ResultsOK(rs)
    PROVE  /\ IsSlice(Successful(rs)) /\ ToSet(Successful(rs)) \subseteq ToSet(rs)
           /\ \A i \in DOMAIN Successful(rs) : Successful(rs)[i] \in ToSet(Successful(rs))
           /\ \A r \in ToSet(Successful(rs)) : Reported(r.name, r)
<1>1. IsSlice(rs)
  BY DEF ResultsOK
<1>2. IsSlice(Successful(rs)) /\ ToSet(Successful(rs)) = ToSet(rs) \cap {r \in ToSet(rs) : r.ok}
  BY <1>1, ThoseSlice DEF Successful
<1>3. \A r \in ToSet(rs) : Reported(r.name, r)
  BY DEF ResultsOK, ToSet
<1>4. \A s : \A i \in DOMAIN s : s[i] \in ToSet(s)
  BY DEF ToSet
<1> QED
  BY <1>2, <1>3, <1>4

-----------------------------------------------------------------------------
(* Undisputed verdicts.                                                    *)

LEMMA WANTypesSlice ==
    ASSUME NEW r, Reported(r.name, r)
    PROVE  IsSlice(WANTypeValues(r))
<1> DEFINE sigs == NamedSignals(r)
           one(x) == <<x>>
           p == IF "wan_access_type" \in DOMAIN r.ev THEN one(InferTargetType(r.ev["wan_access_type"])) ELSE <<>>
           q == [i \in DOMAIN sigs |-> InferTargetType(sigs[i].text)]
           s == IF Get(r.ev, "direct_physical_evidence", FALSE) /\ FirstHintTarget(r.hints) # Unknown
                THEN one(FirstHintTarget(r.hints)) ELSE <<>>
<1>1. \A x : IsSlice(one(x))
  <2>1. \A x : one(x) \in Seq({x})
    OBVIOUS
  <2> HIDE DEF one
  <2> QED
    BY <2>1, SliceOf
<1>2. IsSlice(<<>>)
  BY DEF IsSlice
<1>3. IsSlice(sigs)
  <2> DEFINE all == Get(r.ev, "wan_signals", <<>>)
  <2>1. all \in Seq(Signal)
    BY EvidenceTypes
  <2> HIDE DEF all
  <2>2. IsSlice(all)
    BY <2>1, SliceOf
  <2>3. IsSlice(Those(all, {v \in ToSet(all) : v.named}))
    BY <2>2, ThoseSlice
  <2> QED
    BY <2>3, Zenon DEF NamedSignals, all
<1>4. WANTypeValues(r) = p \o (q \o s)
  BY Zenon DEF WANTypeValues
<1> HIDE DEF one, sigs
<1>5. IsSlice(q)
  <2>1. Len(sigs) \in Nat /\ DOMAIN sigs = 1..Len(sigs)
    BY <1>3, SliceIs
  <2> DEFINE f(i) == InferTargetType(sigs[i].text)
             B == {f(i) : i \in 1..Len(sigs)}
  <2>2. q = [i \in 1..Len(sigs) |-> f(i)]
    BY <2>1
  <2> HIDE DEF f, q
  <2>3. q \in Seq(B)
    BY <2>1, <2>2
  <2> HIDE DEF B
  <2> QED
    BY <2>3, SliceOf
<1>6. IsSlice(p) /\ IsSlice(s)
  BY <1>1, <1>2
<1> HIDE DEF p, q, s
<1> QED
  BY <1>4, <1>5, <1>6, JoinIn

Families(r) == {ConflictFamily(PublicTypeForTarget(t)) : t \in ToSet(WANTypeValues(r))} \ {Unknown}

LEMMA OneFamily ==
    ASSUME NEW rs, ResultsOK(rs), WANTypeConflicts(rs) = {}
    PROVE  \A r, q \in ToSet(Successful(rs)) : \A x \in Families(r), y \in Families(q) : x = y
<1> DEFINE ok == Successful(rs)
           parts == [i \in DOMAIN ok |-> WANTypeValues(ok[i])]
           values == Flattened(parts)
           F(t) == ConflictFamily(PublicTypeForTarget(t))
<1>1. IsSlice(ok) /\ \A i \in DOMAIN ok : Reported(ok[i].name, ok[i])
  BY SuccessfulIn
<1>2. \A i \in DOMAIN ok : IsSlice(WANTypeValues(ok[i]))
  BY <1>1, WANTypesSlice
<1>3. Len(ok) \in Nat /\ DOMAIN ok = 1..Len(ok)
  BY <1>1, SliceIs
<1>4. IsSlice(parts) /\ DOMAIN parts = DOMAIN ok
  <2>1. parts \in Seq({WANTypeValues(ok[i]) : i \in 1..Len(ok)})
    BY <1>3
  <2> HIDE DEF parts
  <2>2. IsSlice(parts)
    BY <2>1, SliceOf
  <2> USE DEF parts
  <2> QED
    BY <2>2
<1>5. \A i \in DOMAIN ok : parts[i] = WANTypeValues(ok[i])
  OBVIOUS
<1>6. \A i \in DOMAIN values \ {1} : F(values[i]) \in {Unknown, F(values[1])}
  <2> DEFINE bad == \E i \in DOMAIN values \ {1} : F(values[i]) \notin {Unknown, F(values[1])}
  <2>1. WANTypeConflicts(rs) = IF bad THEN {Conflict("wan_access_type", "high", "probes")} ELSE {}
    BY Zenon DEF WANTypeConflicts
  <2>2. ~bad
    <3> HIDE DEF bad
    <3> QED
      BY <2>1
  <2> HIDE DEF F, values
  <2> QED
    BY <2>2
<1> HIDE DEF parts, ok
<1>7. IsSlice(values) /\ ToSet(values) = UNION {ToSet(parts[i]) : i \in DOMAIN parts}
  BY <1>2, <1>4, <1>5, FlattenedIn
<1> HIDE DEF values, F
<1>8. \A t \in ToSet(values) : F(t) \in {Unknown, F(values[1])}
  BY <1>6 DEF ToSet
<1>9. \A r \in ToSet(ok) : ToSet(WANTypeValues(r)) \subseteq ToSet(values)
  <2>1. \A r \in ToSet(ok) : \E i \in DOMAIN ok : r = ok[i]
    BY DEF ToSet
  <2> QED
    BY <1>4, <1>5, <1>7, <2>1
<1>10. \A r \in ToSet(ok) : Families(r) \subseteq {F(values[1])}
  <2>1. \A r : Families(r) = {F(t) : t \in ToSet(WANTypeValues(r))} \ {Unknown}
    BY DEF Families, F
  <2> QED
    BY <1>8, <1>9, <2>1
<1> QED
  BY <1>10 DEF ok

ReachabilityProbes == {"gateway_reachability_diagnostics_probe", "gateway_reachability_probe"}

Undisputed(ok, b) ==
    /\ \A r, q \in ok : \A x \in Families(r), y \in Families(q) : x = y
    /\ \A r \in ok : DoubleNATValue(r) \subseteq {FinalDouble(b)}
    /\ \A r \in ok : \A d \in ToSet(b.devices) :
          r.name \in ReachabilityProbes /\ d.ip # "" /\ Diagnosed(r) = d.ip => d.reachable = Managed(r)

LEMMA NothingDisputed ==
    ASSUME NEW rs, ResultsOK(rs), NEW scores, NEW b, DetectConflicts(rs, scores, b) = {}
    PROVE  Undisputed(ToSet(Successful(rs)), b)
<1>1. WANTypeConflicts(rs) = {} /\ DoubleNATConflicts(rs, b) = {} /\ ReachabilityConflicts(rs, b) = {}
  <2> DEFINE wan == WANTypeConflicts(rs)
             nat == DoubleNATConflicts(rs, b)
             reach == ReachabilityConflicts(rs, b)
             chain == ChainConflicts(rs, b)
             kept == b.chainconflicts
             tie == IF HasEthernetWANSignal(b) /\ \E t \in {"DSL", "VDSL", "ADSL", "Fiber"} : Get(scores, t, 0) > 35
                    THEN {Conflict("classification.wan_access_type", "high", "scores")} ELSE {}
  <2>1. DetectConflicts(rs, scores, b) = reach \cup chain \cup nat \cup kept \cup wan \cup tie
    BY Zenon DEF DetectConflicts
  <2> HIDE DEF wan, nat, reach, chain, kept, tie
  <2>2. wan = {} /\ nat = {} /\ reach = {}
    BY <2>1
  <2> QED
    BY <2>2 DEF wan, nat, reach
<1>2. \A r, q \in ToSet(Successful(rs)) : \A x \in Families(r), y \in Families(q) : x = y
  BY <1>1, OneFamily
<1>3. ASSUME NEW r \in ToSet(Successful(rs)) PROVE DoubleNATValue(r) \subseteq {FinalDouble(b)}
  <2>1. DoubleNATValue(r) \in {{}, {FinalDouble(b)}}
    BY <1>1, Zenon DEF DoubleNATConflicts
  <2> QED
    BY <2>1
<1>4. ASSUME NEW r \in ToSet(Successful(rs)), NEW d \in ToSet(b.devices), r.name \in ReachabilityProbes, d.ip # "",
             Diagnosed(r) = d.ip
      PROVE  d.reachable = Managed(r)
  BY <1>1, <1>4, Zenon DEF ReachabilityConflicts, ReachabilityProbes
<1> QED
  BY <1>2, <1>3, <1>4, Zenon DEF Undisputed

-----------------------------------------------------------------------------
(* The stages of a classification.                                         *)

\* What each stage leaves behind is never touched again.
StageInv ==
    /\ stage \in {"probing", "merged", "scored", "decided", "published"}
    /\ ResultsOK(results)
    /\ stage # "probing" => Len(results) = Len(Slots)
    /\ stage \in {"merged", "scored", "decided", "published"} => bag = Reconcile(Aggregate(results))
    /\ stage \in {"scored", "decided", "published"} => board = RawScores(bag)
    /\ stage \in {"decided", "published"} => verdict = Decide(results, Normalize(board), bag)
    /\ stage = "published" => report = Publish(verdict, bag) /\ collection = Collect(bag)

LEMMA AppendResult ==
    ASSUME NEW rs, ResultsOK(rs), Len(rs) < Len(Slots), NEW x,
           x.name = Slots[Len(rs) + 1], Reported(x.name, x)
    PROVE  ResultsOK(Append(rs, x))
<1>0. Len(rs) \in Nat /\ DOMAIN rs = 1..Len(rs) /\ IsSlice(rs)
  BY SliceIs DEF ResultsOK
<1>1. DOMAIN Slots = 1..Len(Slots) /\ Len(Slots) \in Nat
  BY SlotsAssumption
<1> DEFINE t == Append(rs, x)
           n == Len(rs)
<1>2. rs \in Seq(ToSet(rs) \cup {x})
  BY <1>0 DEF IsSlice
<1>3. DOMAIN t = 1..n + 1 /\ (\A i \in 1..n : t[i] = rs[i]) /\ t[n + 1] = x
  BY <1>0, <1>2
<1>4. IsSlice(t)
  BY <1>0, AppendIn
<1> HIDE DEF t, n
<1>5. 1..n + 1 = 1..n \cup {n + 1} /\ n + 1 \in DOMAIN Slots
  BY <1>0, <1>1 DEF n
<1>6. \A i \in 1..n : i \in DOMAIN Slots /\ rs[i].name = Slots[i] /\ Reported(rs[i].name, rs[i])
  BY <1>0 DEF ResultsOK, n
<1>7. x.name = Slots[n + 1]
  BY DEF n
<1>8. \A i \in DOMAIN t : i \in DOMAIN Slots /\ t[i].name = Slots[i] /\ Reported(t[i].name, t[i])
  BY <1>3, <1>5, <1>6, <1>7
<1> QED
  BY <1>4, <1>8 DEF ResultsOK, t

\* Whatever a probe answers, its slot is filled as the assumption says.
LEMMA ReportStep ==
    ASSUME StageInv, ProbeReports
    PROVE  ResultsOK(results') /\ stage = "probing"
<1> DEFINE n == Slots[Len(results) + 1]
<1>0. Len(results) \in Nat /\ Len(results) < Len(Slots) /\ ResultsOK(results)
  BY SliceIs DEF ResultsOK, StageInv, ProbeReports
<1>1. Len(results) + 1 \in DOMAIN Slots
  BY <1>0, SlotsAssumption
<1>2. PICK x : results' = Append(results, x) /\ x.name = n /\ Reported(n, x)
  <2>1. CASE \E o \in Outcome(n) :
                results' = Append(results, [name |-> n, ok |-> TRUE, hints |-> o.hints, conf |-> o.conf, ev |-> o.ev])
    <3>1. PICK o \in Outcome(n) :
                results' = Append(results, [name |-> n, ok |-> TRUE, hints |-> o.hints, conf |-> o.conf, ev |-> o.ev])
      BY <2>1
    <3> DEFINE x == [name |-> n, ok |-> TRUE, hints |-> o.hints, conf |-> o.conf, ev |-> o.ev]
    <3>2. Reported(n, o)
      BY <1>1, OutcomeAssumption
    <3>3. x.name = n /\ x.hints = o.hints /\ x.conf = o.conf /\ x.ev = o.ev
      OBVIOUS
    <3> HIDE DEF x, n
    <3>4. Reported(n, x)
      BY <3>2, <3>3, Zenon DEF Reported
    <3> USE DEF x
    <3> QED
      BY <3>1, <3>3, <3>4
  <2>2. CASE results' = Append(results, [name |-> n, ok |-> FALSE, hints |-> <<>>, conf |-> 0, ev |-> <<>>])
    <3> DEFINE x == [name |-> n, ok |-> FALSE, hints |-> <<>>, conf |-> 0, ev |-> <<>>]
    <3>1. x.name = n /\ x.hints = <<>> /\ x.conf = 0 /\ x.ev = <<>>
      OBVIOUS
    <3> HIDE DEF x, n
    <3>2. Reported(n, x)
      <4>1. DOMAIN x.ev = {} /\ x.hints \in Seq(STRING) /\ x.conf \in Nat
        BY <3>1
      <4> QED
        BY <4>1 DEF Reported
    <3> USE DEF x
    <3> QED
      BY <2>2, <3>1, <3>2
  <2> QED
    BY <2>1, <2>2 DEF ProbeReports
<1>3. ResultsOK(results')
  BY <1>0, <1>2, AppendResult
<1>4. stage = "probing"
  BY <1>0 DEF StageInv
<1> QED
  BY <1>3, <1>4

LEMMA StageInvInit == Init => StageInv
<1> SUFFICES ASSUME Init PROVE StageInv
  OBVIOUS
<1>1. results = <<>> /\ stage = "probing"
  BY DEF Init
<1>2. ResultsOK(<<>>)
  BY DEF ResultsOK, IsSlice
<1> QED
  BY <1>1, <1>2 DEF StageInv

LEMMA StageInvNext == StageInv /\ [Next]_vars => StageInv'
<1> SUFFICES ASSUME StageInv, [Next]_vars PROVE StageInv'
  OBVIOUS
<1>1. CASE ProbeReports
  <2>1. ResultsOK(results') /\ stage = "probing"
    BY <1>1, ReportStep
  <2>2. stage' = "probing"
    BY <1>1, <2>1 DEF ProbeReports
  <2> QED
    BY <2>1, <2>2 DEF StageInv
<1>2. CASE Merge
  BY <1>2 DEF StageInv, Merge
<1>3. CASE Score
  BY <1>3 DEF StageInv, Score
<1>4. CASE Judge
  BY <1>4 DEF StageInv, Judge
<1>5. CASE PopulateOutputContract
  BY <1>5 DEF StageInv, PopulateOutputContract
<1>6. CASE UNCHANGED vars
  BY <1>6 DEF StageInv, vars
<1> QED
  BY <1>1, <1>2, <1>3, <1>4, <1>5, <1>6 DEF Next

LEMMA StageInvHolds == Spec => []StageInv
  BY StageInvInit, StageInvNext, PTL DEF Spec

-----------------------------------------------------------------------------
LEMMA SafeInv == StageInv => SafeIsUndisputed
<1> SUFFICES ASSUME StageInv, stage = "published", report.safe PROVE SafeIsUndisputed
  BY DEF SafeIsUndisputed
<1>1. ResultsOK(results) /\ report = Publish(verdict, bag) /\ verdict = Decide(results, Normalize(board), bag)
  BY DEF StageInv
<1>2. verdict.conflicts = {}
  <2>1. Publish(verdict, bag).safe
    BY <1>1
  <2> QED
    BY <2>1, Zenon DEF Publish
<1>3. verdict.conflicts = DetectConflicts(results, Normalize(board), bag)
  BY <1>1, Zenon DEF Decide, VerdictOn
<1>4. DetectConflicts(results, Normalize(board), bag) = {}
  BY <1>2, <1>3
<1>5. Undisputed(ToSet(Successful(results)), bag)
  BY <1>1, <1>4, NothingDisputed
<1> QED
  BY <1>5, Zenon DEF SafeIsUndisputed, Undisputed, Families, ReachabilityProbes

\* What is safe to display as final is undisputed, for any probes and any rule files: the
\* conflict detector leaves out no pair of probes.
THEOREM SafeAlwaysUndisputed == Spec => []SafeIsUndisputed
  BY StageInvHolds, SafeInv, PTL

-----------------------------------------------------------------------------
(* The evidence bag.                                                       *)

Fields ==
    {"hints", "strong", "sources", "model", "text", "devtext", "wantext", "cpetext", "cpekv", "interfaces", "me", "medium",
     "upnp", "tr064", "gateway", "chain", "double", "chainconflicts", "hops", "hopconf", "modem", "devices", "signals",
     "publicip", "cgnat", "ptr", "org", "avg", "perf", "ipv6", "globalipv6", "hasnat", "nat", "line", "phys", "dev", "net",
     "perfconf"}

Shaped(b) == b = [f \in Fields |-> b[f]]

NATFields == {"publicip", "stunip", "cgnat", "double", "internal", "control", "topology"}

NATShaped(n) == n = [f \in NATFields |-> n[f]]

\* Every field the bag begins with, and of the values what the engine computes with.
BagTyped(b) ==
    /\ Shaped(b) /\ NATShaped(b.nat)
    /\ IsSlice(b.hints) /\ IsSlice(b.strong) /\ b.signals \in Seq(Signal) /\ b.devices \in Seq(Devices)
    /\ b.sources \in Nat /\ b.dev \in Nat /\ b.phys \in Nat

\* c is b but for the fields in S.
Changes(b, c, S) == Shaped(c) /\ \A f \in Fields \ S : c[f] = b[f]

LEMMA SetField ==
    ASSUME NEW b, Shaped(b), NEW f \in Fields, NEW v
    PROVE  Changes(b, [b EXCEPT ![f] = v], {f}) /\ [b EXCEPT ![f] = v][f] = v
<1> DEFINE c == [b EXCEPT ![f] = v]
<1>1. b = [g \in Fields |-> b[g]]
  BY DEF Shaped
<1>2. c = [g \in Fields |-> IF g = f THEN v ELSE b[g]]
  BY <1>1
<1> HIDE DEF c
<1>3. Changes(b, c, {f}) /\ c[f] = v
  BY <1>2 DEF Changes, Shaped
<1> QED
  BY <1>3 DEF c

LEMMA SetTwo ==
    ASSUME NEW b, Shaped(b), NEW f \in Fields, NEW u, NEW g \in Fields, NEW v
    PROVE  Changes(b, [[b EXCEPT ![f] = u] EXCEPT ![g] = v], {f, g})
<1> DEFINE c == [b EXCEPT ![f] = u]
           d == [c EXCEPT ![g] = v]
<1>1. Changes(b, c, {f})
  BY SetField
<1> HIDE DEF c
<1>2. Changes(c, d, {g})
  BY <1>1, SetField DEF Changes
<1> HIDE DEF d
<1>3. Changes(b, d, {f, g})
  BY <1>1, <1>2 DEF Changes
<1> QED
  BY <1>3, Zenon DEF c, d

LEMMA SetThree ==
    ASSUME NEW b, Shaped(b), NEW f \in Fields, NEW u, NEW g \in Fields, NEW v, NEW h \in Fields, NEW w
    PROVE  Changes(b, [[[b EXCEPT ![f] = u] EXCEPT ![g] = v] EXCEPT ![h] = w], {f, g, h})
<1> DEFINE c == [[b EXCEPT ![f] = u] EXCEPT ![g] = v]
           d == [c EXCEPT ![h] = w]
<1>1. Changes(b, c, {f, g})
  BY SetTwo
<1> HIDE DEF c
<1>2. Changes(c, d, {h})
  BY <1>1, SetField DEF Changes
<1> HIDE DEF d
<1>3. Changes(b, d, {f, g, h})
  BY <1>1, <1>2 DEF Changes
<1> QED
  BY <1>3, Zenon DEF c, d

\* The fields whose values no type is claimed for.
Plain == Fields \ {"nat", "hints", "strong", "signals", "devices", "sources", "dev", "phys"}

\* The same devices as before.
Absorbs(b, c) == BagTyped(c) /\ c.devices = b.devices

LEMMA PlainChange ==
    ASSUME NEW b, BagTyped(b), NEW S \in SUBSET Plain, NEW c, Changes(b, c, S)
    PROVE  Absorbs(b, c)
<1>1. {"nat", "hints", "strong", "signals", "devices", "sources", "dev", "phys"} \subseteq Fields
  BY DEF Fields
<1>2. {"nat", "hints", "strong", "signals", "devices", "sources", "dev", "phys"} \cap S = {}
  BY DEF Plain
<1>3. \A f \in {"nat", "hints", "strong", "signals", "devices", "sources", "dev", "phys"} : c[f] = b[f]
  BY <1>1, <1>2, Zenon DEF Changes
<1> QED
  BY <1>3 DEF Absorbs, BagTyped, Changes

LEMMA PlainAbsorbs ==
    ASSUME NEW b, BagTyped(b), NEW ev
    PROVE  /\ Absorbs(b, AbsorbUPnP(b, ev))
           /\ Absorbs(b, AbsorbAdapters(b, ev))
           /\ Absorbs(b, AbsorbPublicIP(b, ev))
           /\ Absorbs(b, AbsorbASN(b, ev))
           /\ Absorbs(b, AbsorbLatency(b, ev))
           /\ Absorbs(b, AbsorbGateway(b, ev))
           /\ Absorbs(b, AbsorbTraceroute(b, ev))
           /\ Absorbs(b, AbsorbIPv6(b, ev))
           /\ Absorbs(b, AbsorbPerformance(b, ev))
           /\ Absorbs(b, AbsorbReachability(b, ev))
<1>0. Shaped(b)
  BY DEF BagTyped
<1>1. Absorbs(b, AbsorbUPnP(b, ev))
  <2>1. {"upnp", "model", "text"} \subseteq Fields /\ {"upnp", "model", "text"} \subseteq Plain
    BY DEF Fields, Plain
  <2>2. Changes(b, AbsorbUPnP(b, ev), {"upnp", "model", "text"})
    BY <1>0, <2>1, SetThree, Zenon DEF AbsorbUPnP
  <2> QED
    BY <2>1, <2>2, PlainChange
<1>2. Absorbs(b, AbsorbAdapters(b, ev))
  <2>1. {"me", "medium", "interfaces"} \subseteq Fields /\ {"me", "medium", "interfaces"} \subseteq Plain
    BY DEF Fields, Plain
  <2>2. Changes(b, AbsorbAdapters(b, ev), {"me", "medium", "interfaces"})
    BY <1>0, <2>1, SetThree, Zenon DEF AbsorbAdapters
  <2> QED
    BY <2>1, <2>2, PlainChange
<1>3. Absorbs(b, AbsorbPublicIP(b, ev))
  <2>1. {"publicip", "cgnat"} \subseteq Fields /\ {"publicip", "cgnat"} \subseteq Plain
    BY DEF Fields, Plain
  <2>2. Changes(b, AbsorbPublicIP(b, ev), {"publicip", "cgnat"})
    BY <1>0, <2>1, SetTwo, Zenon DEF AbsorbPublicIP
  <2> QED
    BY <2>1, <2>2, PlainChange
<1>4. Absorbs(b, AbsorbASN(b, ev))
  <2>1. {"ptr", "org", "text"} \subseteq Fields /\ {"ptr", "org", "text"} \subseteq Plain
    BY DEF Fields, Plain
  <2>2. Changes(b, AbsorbASN(b, ev), {"ptr", "org", "text"})
    BY <1>0, <2>1, SetThree, Zenon DEF AbsorbASN
  <2> QED
    BY <2>1, <2>2, PlainChange
<1>5. Absorbs(b, AbsorbLatency(b, ev))
  <2>1. {"avg"} \subseteq Fields /\ {"avg"} \subseteq Plain
    BY DEF Fields, Plain
  <2>2. Changes(b, AbsorbLatency(b, ev), {"avg"})
    BY <1>0, <2>1, SetField, Zenon DEF AbsorbLatency
  <2> QED
    BY <2>1, <2>2, PlainChange
<1>6. Absorbs(b, AbsorbGateway(b, ev))
  <2>1. {"gateway"} \subseteq Fields /\ {"gateway"} \subseteq Plain
    BY DEF Fields, Plain
  <2>2. Changes(b, AbsorbGateway(b, ev), {"gateway"})
    BY <1>0, <2>1, SetField, Zenon DEF AbsorbGateway
  <2> QED
    BY <2>1, <2>2, PlainChange
<1>7. Absorbs(b, AbsorbTraceroute(b, ev))
  <2>1. {"chain", "double"} \subseteq Fields /\ {"chain", "double"} \subseteq Plain
    BY DEF Fields, Plain
  <2>2. Changes(b, AbsorbTraceroute(b, ev), {"chain", "double"})
    BY <1>0, <2>1, SetTwo, Zenon DEF AbsorbTraceroute
  <2> QED
    BY <2>1, <2>2, PlainChange
<1>8. Absorbs(b, AbsorbIPv6(b, ev))
  <2>1. {"ipv6", "globalipv6", "net"} \subseteq Fields /\ {"ipv6", "globalipv6", "net"} \subseteq Plain
    BY DEF Fields, Plain
  <2>2. Changes(b, AbsorbIPv6(b, ev), {"ipv6", "globalipv6", "net"})
    BY <1>0, <2>1, SetThree, Zenon DEF AbsorbIPv6
  <2> QED
    BY <2>1, <2>2, PlainChange
<1>9. Absorbs(b, AbsorbPerformance(b, ev))
  <2>1. {"perf", "perfconf"} \subseteq Fields /\ {"perf", "perfconf"} \subseteq Plain
    BY DEF Fields, Plain
  <2>2. Changes(b, AbsorbPerformance(b, ev), {"perf", "perfconf"})
    BY <1>0, <2>1, SetTwo, Zenon DEF AbsorbPerformance
  <2> QED
    BY <2>1, <2>2, PlainChange
<1>10. Absorbs(b, AbsorbReachability(b, ev))
  <2>1. {"net"} \subseteq Fields /\ {"net"} \subseteq Plain
    BY DEF Fields, Plain
  <2>2. Changes(b, AbsorbReachability(b, ev), {"net"})
    BY <1>0, <2>1, SetField, Zenon DEF AbsorbReachability
  <2> QED
    BY <2>1, <2>2, PlainChange
<1> QED
  BY <1>1, <1>2, <1>3, <1>4, <1>5, <1>6, <1>7, <1>8, <1>9, <1>10

\* One field set to a value of its type.
LEMMA SetTyped ==
    ASSUME NEW b, BagTyped(b), NEW v
    PROVE  /\ \A f \in Plain : Absorbs(b, [b EXCEPT ![f] = v])
           /\ v \in Nat => \A f \in {"dev", "phys", "sources"} : Absorbs(b, [b EXCEPT ![f] = v])
           /\ IsSlice(v) => \A f \in {"hints", "strong"} : Absorbs(b, [b EXCEPT ![f] = v])
           /\ v \in Seq(Signal) => Absorbs(b, [b EXCEPT !.signals = v])
           /\ NATShaped(v) => Absorbs(b, [b EXCEPT !.nat = v])
           /\ v \in Seq(Devices) => BagTyped([b EXCEPT !.devices = v]) /\ [b EXCEPT !.devices = v].devices = v
<1> DEFINE T == {"nat", "hints", "strong", "signals", "devices", "sources", "dev", "phys"}
<1>0. Shaped(b) /\ T \subseteq Fields /\ Plain \subseteq Fields
  BY DEF BagTyped, Fields, Plain
<1>1. \A f \in Plain : Absorbs(b, [b EXCEPT ![f] = v])
  <2> SUFFICES ASSUME NEW f \in Plain PROVE Absorbs(b, [b EXCEPT ![f] = v])
    OBVIOUS
  <2>1. Changes(b, [b EXCEPT ![f] = v], {f})
    BY <1>0, SetField
  <2> QED
    BY <2>1, PlainChange
<1>2. ASSUME NEW f \in T, NEW c, Changes(b, c, {f}), c[f] = v
      PROVE  /\ v \in Nat /\ f \in {"dev", "phys", "sources"} => Absorbs(b, c)
             /\ IsSlice(v) /\ f \in {"hints", "strong"} => Absorbs(b, c)
             /\ v \in Seq(Signal) /\ f = "signals" => Absorbs(b, c)
             /\ NATShaped(v) /\ f = "nat" => Absorbs(b, c)
             /\ v \in Seq(Devices) /\ f = "devices" => BagTyped(c) /\ c.devices = v
  <2>1. \A g \in T : g # f => c[g] = b[g]
    BY <1>0, <1>2, Zenon DEF Changes
  <2>2. Shaped(c)
    BY <1>2 DEF Changes
  <2> QED
    BY <1>2, <2>1, <2>2 DEF BagTyped, Absorbs
<1>3. \A f \in T : Changes(b, [b EXCEPT ![f] = v], {f}) /\ [b EXCEPT ![f] = v][f] = v
  <2> SUFFICES ASSUME NEW f \in T PROVE Changes(b, [b EXCEPT ![f] = v], {f}) /\ [b EXCEPT ![f] = v][f] = v
    OBVIOUS
  <2>1. f \in Fields
    BY <1>0
  <2> QED
    BY <1>0, <2>1, SetField
<1>4. v \in Nat => \A f \in {"dev", "phys", "sources"} : Absorbs(b, [b EXCEPT ![f] = v])
  <2> SUFFICES ASSUME v \in Nat, NEW f \in {"dev", "phys", "sources"} PROVE Absorbs(b, [b EXCEPT ![f] = v])
    OBVIOUS
  <2>1. f \in T
    OBVIOUS
  <2>2. Changes(b, [b EXCEPT ![f] = v], {f}) /\ [b EXCEPT ![f] = v][f] = v
    BY <1>3, <2>1
  <2> QED
    BY <1>2, <2>1, <2>2
<1>5. IsSlice(v) => \A f \in {"hints", "strong"} : Absorbs(b, [b EXCEPT ![f] = v])
  <2> SUFFICES ASSUME IsSlice(v), NEW f \in {"hints", "strong"} PROVE Absorbs(b, [b EXCEPT ![f] = v])
    OBVIOUS
  <2>1. f \in T
    OBVIOUS
  <2>2. Changes(b, [b EXCEPT ![f] = v], {f}) /\ [b EXCEPT ![f] = v][f] = v
    BY <1>3, <2>1
  <2> QED
    BY <1>2, <2>1, <2>2
<1>6. v \in Seq(Signal) => Absorbs(b, [b EXCEPT !.signals = v])
  <2>1. Changes(b, [b EXCEPT !.signals = v], {"signals"}) /\ [b EXCEPT !.signals = v]["signals"] = v
    BY <1>3, Zenon
  <2> QED
    BY <1>2, <2>1, Zenon
<1>7. NATShaped(v) => Absorbs(b, [b EXCEPT !.nat = v])
  <2>1. Changes(b, [b EXCEPT !.nat = v], {"nat"}) /\ [b EXCEPT !.nat = v]["nat"] = v
    BY <1>3, Zenon
  <2> QED
    BY <1>2, <2>1, Zenon
<1>8. v \in Seq(Devices) => BagTyped([b EXCEPT !.devices = v]) /\ [b EXCEPT !.devices = v].devices = v
  <2>1. Changes(b, [b EXCEPT !.devices = v], {"devices"}) /\ [b EXCEPT !.devices = v]["devices"] = v
    BY <1>3, Zenon
  <2> QED
    BY <1>2, <2>1, Zenon
<1> QED
  BY <1>1, <1>4, <1>5, <1>6, <1>7, <1>8, Zenon

LEMMA DeviceTypes ==
    ASSUME NEW d \in Devices
    PROVE  /\ d.ip \in Private /\ d.devconf \in Nat /\ d.accconf \in Nat
           /\ IsSlice(d.hints) /\ IsSlice(d.physhints)
<1>1. d \in [ip : Private, role : STRING, reachable : BOOLEAN, rstate : {"", "unknown", "false", "true"},
             found : SUBSET STRING, tr064 : STRING, observed : BOOLEAN, wantype : SUBSET STRING, link : SUBSET STRING,
             access : SUBSET STRING, model : SUBSET STRING, services : SUBSET STRING, hints : Seq(STRING),
             physhints : Seq(STRING), devconf : Nat, accconf : Nat]
  BY Zenon DEF Devices
<1>2. d.ip \in Private /\ d.devconf \in Nat /\ d.accconf \in Nat /\ d.hints \in Seq(STRING) /\ d.physhints \in Seq(STRING)
  BY <1>1, Zenon
<1> QED
  BY <1>2, SliceOf

LEMMA AbsorbsChain ==
    ASSUME NEW b, NEW c, NEW d, Absorbs(b, c), Absorbs(c, d)
    PROVE  Absorbs(b, d)
  BY DEF Absorbs

LEMMA AbsorbDeviceTyped ==
    ASSUME NEW b, BagTyped(b), NEW d \in Devices
    PROVE  Absorbs(b, AbsorbDevice(b, d))
<1> DEFINE direct == GatewayDeviceHasDirectPhysicalEvidence(d) /\ d.accconf > 0
           dev == MaxOf(MaxOf(b.dev, d.devconf), IF direct THEN 0 ELSE d.accconf)
           phys == IF direct THEN MaxOf(b.phys, d.accconf) ELSE b.phys
           strong == IF direct THEN AppendAllUnique(b.strong, GatewayDevicePhysicalHints(d)) ELSE b.strong
           c1 == [b EXCEPT !.dev = dev]
           c2 == [c1 EXCEPT !.phys = phys]
           c3 == [c2 EXCEPT !.strong = strong]
<1>1. AbsorbDevice(b, d) = c3
  BY Zenon DEF AbsorbDevice
<1>2. dev \in Nat /\ phys \in Nat
  BY DeviceTypes DEF BagTyped, MaxOf
<1>3. IsSlice(strong)
  <2>1. IsSlice(GatewayDevicePhysicalHints(d))
    BY DeviceTypes DEF GatewayDevicePhysicalHints
  <2> QED
    BY <2>1, UniqueIn DEF BagTyped
<1> HIDE DEF dev, phys, strong
<1>4. Absorbs(b, c1)
  BY <1>2, SetTyped, Zenon
<1> HIDE DEF c1
<1>5. Absorbs(c1, c2)
  BY <1>2, <1>4, SetTyped, Zenon DEF Absorbs
<1> HIDE DEF c2
<1>6. Absorbs(c2, c3)
  BY <1>3, <1>5, SetTyped, Zenon DEF Absorbs
<1> HIDE DEF c3
<1> QED
  BY <1>1, <1>4, <1>5, <1>6, AbsorbsChain

LEMMA AbsorbDevicesTyped ==
    ASSUME NEW b, BagTyped(b), NEW q \in Seq(Devices)
    PROVE  Absorbs(b, AbsorbDevices(b, q))
<1>0. Len(q) \in Nat /\ IsSlice(q) /\ \A k \in 1..Len(q) : q[k] \in Devices
  BY SliceOf
<1>1. PICK acc : /\ acc[0] = b /\ AbsorbDevices(b, q) = acc[Len(q)]
                 /\ \A k \in 1..Len(q) : acc[k] = AbsorbDevice(acc[k - 1], q[k])
  BY <1>0, AbsorbRun
<1> DEFINE G == {k \in Nat : Absorbs(b, acc[k])}
<1>2. 0 \in G
  BY <1>1 DEF Absorbs
<1>3. ASSUME NEW k \in 0..Len(q) - 1, k \in G PROVE k + 1 \in G
  <2>1. k + 1 \in 1..Len(q) /\ (k + 1) - 1 = k /\ k + 1 \in Nat
    BY <1>0
  <2>2. acc[k + 1] = AbsorbDevice(acc[k], q[k + 1]) /\ q[k + 1] \in Devices
    BY <1>0, <1>1, <2>1
  <2>3. Absorbs(b, acc[k])
    BY <1>3
  <2>4. Absorbs(acc[k], acc[k + 1])
    BY <2>2, <2>3, AbsorbDeviceTyped DEF Absorbs
  <2> QED
    BY <2>1, <2>3, <2>4, AbsorbsChain
<1>4. Len(q) \in G
  <2>1. G \in SUBSET Nat
    OBVIOUS
  <2> HIDE DEF G
  <2>2. \A k \in 0..Len(q) : k \in G
    BY <1>0, <1>2, <1>3, <2>1, UpTo
  <2> QED
    BY <1>0, <2>2
<1> QED
  BY <1>1, <1>4

LEMMA DeviceProbeAbsorbs ==
    ASSUME NEW b, BagTyped(b), NEW r, Reported(r.name, r)
    PROVE  LET devs == Get(r.ev, "gateway_devices", <<>>)
           IN  /\ BagTyped(AbsorbChainProbe(b, r.ev)) /\ AbsorbChainProbe(b, r.ev).devices = devs
               /\ BagTyped(AbsorbDeviceProbe(b, r.ev)) /\ AbsorbDeviceProbe(b, r.ev).devices = b.devices \o devs
<1> DEFINE devs == Get(r.ev, "gateway_devices", <<>>)
           chain == Get(r.ev, "gateway_chain", <<>>)
           v1 == IF chain # <<>> THEN chain ELSE b.chain
           v2 == IF chain # <<>> THEN Get(r.ev, "double_nat_possible", FALSE) ELSE b.double
           v3 == Get(r.ev, "likely_modem_ip", "")
           v5 == IF devs # <<>> THEN GatewayDeviceText(devs) ELSE b.devtext
           c1 == [b EXCEPT !.chain = v1]
           c2 == [c1 EXCEPT !.double = v2]
           c3 == [c2 EXCEPT !.modem = v3]
           c4 == [c3 EXCEPT !.devices = devs]
           c5 == [c4 EXCEPT !.devtext = v5]
           more == b.devices \o devs
           w2 == b.devtext \cup GatewayDeviceText(devs)
           d1 == [b EXCEPT !.devices = more]
           d2 == [d1 EXCEPT !.devtext = w2]
<1>1. AbsorbChainProbe(b, r.ev) = AbsorbDevices(c5, devs)
  BY Zenon DEF AbsorbChainProbe
<1>2. AbsorbDeviceProbe(b, r.ev) = AbsorbDevices(d2, devs)
  BY Zenon DEF AbsorbDeviceProbe
<1>3. devs \in Seq(Devices) /\ more \in Seq(Devices)
  <2>1. devs \in Seq(Devices) /\ b.devices \in Seq(Devices)
    BY EvidenceTypes DEF BagTyped
  <2> HIDE DEF devs
  <2> QED
    BY <2>1
<1>4. {"chain", "double", "modem", "devtext"} \subseteq Plain
  BY DEF Plain, Fields
<1> HIDE DEF devs, v1, v2, v3, v5, more, w2
<1>5. Absorbs(b, c1)
  BY <1>4, SetTyped, Zenon
<1> HIDE DEF c1
<1>6. Absorbs(c1, c2)
  BY <1>4, <1>5, SetTyped, Zenon DEF Absorbs
<1> HIDE DEF c2
<1>7. Absorbs(c2, c3)
  BY <1>4, <1>6, SetTyped, Zenon DEF Absorbs
<1> HIDE DEF c3
<1>8. BagTyped(c4) /\ c4.devices = devs
  <2>1. BagTyped(c3) /\ devs \in Seq(Devices)
    BY <1>3, <1>7 DEF Absorbs
  <2> QED
    BY <2>1, SetTyped, Zenon
<1> HIDE DEF c4
<1>9. Absorbs(c4, c5)
  BY <1>4, <1>8, SetTyped, Zenon
<1> HIDE DEF c5
<1>10. Absorbs(c5, AbsorbDevices(c5, devs))
  BY <1>3, <1>9, AbsorbDevicesTyped DEF Absorbs
<1>11. BagTyped(d1) /\ d1.devices = more
  BY <1>3, SetTyped, Zenon
<1> HIDE DEF d1
<1>12. Absorbs(d1, d2)
  BY <1>4, <1>11, SetTyped, Zenon
<1> HIDE DEF d2
<1>13. Absorbs(d2, AbsorbDevices(d2, devs))
  BY <1>3, <1>12, AbsorbDevicesTyped DEF Absorbs
<1>14. /\ BagTyped(AbsorbChainProbe(b, r.ev)) /\ AbsorbChainProbe(b, r.ev).devices = devs
       /\ BagTyped(AbsorbDeviceProbe(b, r.ev)) /\ AbsorbDeviceProbe(b, r.ev).devices = more
  BY <1>1, <1>2, <1>8, <1>9, <1>10, <1>11, <1>12, <1>13 DEF Absorbs
<1> QED
  BY <1>14, Zenon DEF devs, more

LEMMA TypedAbsorbs ==
    ASSUME NEW b, BagTyped(b), NEW r, Reported(r.name, r)
    PROVE  /\ Absorbs(b, AbsorbOSInterface(b, r.ev)) /\ Absorbs(b, AbsorbLLDP(b, r))
           /\ "nat_topology" \in DOMAIN r.ev => Absorbs(b, AbsorbNAT(b, r.ev))
<1>0. {"medium", "net", "hasnat"} \subseteq Plain
  BY DEF Plain, Fields
<1>1. /\ Get(r.ev, "access_confidence", 0) \in Nat /\ Get(r.ev, "device_confidence", 0) \in Nat
      /\ b.dev \in Nat /\ b.phys \in Nat /\ IsSlice(r.hints) /\ IsSlice(b.strong)
  BY EvidenceTypes, SliceOf DEF BagTyped
<1>2. Absorbs(b, AbsorbOSInterface(b, r.ev))
  <2> DEFINE v1 == FirstNonEmpty(r.ev["local_medium"], b.medium)
             v2 == MaxOf(b.dev, Get(r.ev, "device_confidence", 0))
             v3 == IF Get(r.ev, "local_cellular_evidence", FALSE) THEN MaxOf(b.phys, Get(r.ev, "access_confidence", 0)) ELSE b.phys
             c1 == [b EXCEPT !.medium = v1]
             c2 == [c1 EXCEPT !.dev = v2]
             c3 == [c2 EXCEPT !.phys = v3]
  <2>1. AbsorbOSInterface(b, r.ev) = c3
    BY Zenon DEF AbsorbOSInterface
  <2>2. v2 \in Nat /\ v3 \in Nat
    BY <1>1 DEF MaxOf
  <2> HIDE DEF v1, v2, v3
  <2>3. Absorbs(b, c1)
    BY <1>0, SetTyped, Zenon
  <2> HIDE DEF c1
  <2>4. Absorbs(c1, c2)
    BY <2>2, <2>3, SetTyped, Zenon DEF Absorbs
  <2> HIDE DEF c2
  <2>5. Absorbs(c2, c3)
    BY <2>2, <2>4, SetTyped, Zenon DEF Absorbs
  <2> HIDE DEF c3
  <2> QED
    BY <2>1, <2>3, <2>4, <2>5, AbsorbsChain
<1>3. Absorbs(b, AbsorbLLDP(b, r))
  <2> DEFINE yes == Get(r.ev, "strong_access_evidence", FALSE) \/ Get(r.ev, "access_confidence", 0) > 0
             v1 == NetworkConfidence(b, r.ev)
             v2 == IF yes THEN MaxOf(b.phys, Get(r.ev, "access_confidence", 0)) ELSE b.phys
             v3 == IF yes THEN AppendAllUnique(b.strong, r.hints) ELSE b.strong
             c1 == [b EXCEPT !.net = v1]
             c2 == [c1 EXCEPT !.phys = v2]
             c3 == [c2 EXCEPT !.strong = v3]
  <2>1. AbsorbLLDP(b, r) = c3
    BY Zenon DEF AbsorbLLDP
  <2>2. v2 \in Nat
    BY <1>1 DEF MaxOf
  <2>3. IsSlice(v3)
    BY <1>1, UniqueIn
  <2> HIDE DEF v1, v2, v3
  <2>4. Absorbs(b, c1)
    BY <1>0, SetTyped, Zenon
  <2> HIDE DEF c1
  <2>5. Absorbs(c1, c2)
    BY <2>2, <2>4, SetTyped, Zenon DEF Absorbs
  <2> HIDE DEF c2
  <2>6. Absorbs(c2, c3)
    BY <2>3, <2>5, SetTyped, Zenon DEF Absorbs
  <2> HIDE DEF c3
  <2> QED
    BY <2>1, <2>4, <2>5, <2>6, AbsorbsChain
<1>4. ASSUME "nat_topology" \in DOMAIN r.ev PROVE Absorbs(b, AbsorbNAT(b, r.ev))
  <2> DEFINE v2 == r.ev["nat_topology"]
             v3 == NetworkConfidence(b, r.ev)
             v1 == TRUE
             c1 == [b EXCEPT !.hasnat = v1]
             c2 == [c1 EXCEPT !.nat = v2]
             c3 == [c2 EXCEPT !.net = v3]
  <2>1. AbsorbNAT(b, r.ev) = c3
    BY Zenon DEF AbsorbNAT
  <2>2. v2 \in NATs
    BY <1>4, EvidenceTypes
  <2>3. NATShaped(v2)
    <3> HIDE DEF v2
    <3> QED
      BY <2>2 DEF NATs, NATShaped, NATFields
  <2> HIDE DEF v1, v2, v3
  <2>4. Absorbs(b, c1)
    BY <1>0, SetTyped, Zenon
  <2> HIDE DEF c1
  <2>5. Absorbs(c1, c2)
    BY <2>3, <2>4, SetTyped, Zenon DEF Absorbs
  <2> HIDE DEF c2
  <2>6. Absorbs(c2, c3)
    BY <1>0, <2>5, SetTyped, Zenon DEF Absorbs
  <2> HIDE DEF c3
  <2> QED
    BY <2>1, <2>4, <2>5, <2>6, AbsorbsChain
<1> QED
  BY <1>2, <1>3, <1>4

\* What a probe that talks to the CPE itself reports.
LEMMA CPEAbsorbs ==
    ASSUME NEW b, BagTyped(b), NEW r, Reported(r.name, r)
    PROVE  Absorbs(b, AbsorbCPE(b, r))
<1> DEFINE direct  == DirectProbeHasPhysicalEvidence(r)
           acc     == Get(r.ev, "access_confidence", 0)
           model   == Get(r.ev, "model", {})
           signals == Get(r.ev, "wan_signals", <<>>)
           kv      == Get(r.ev, "cpe_kv", <<>>)
           v1 == b.tr064 \/ Get(r.ev, "tr064_found", FALSE)
           v2 == b.upnp \/ Get(r.ev, "igd_wan_common_found", FALSE)
           v3 == IF model # {} THEN model ELSE b.model
           v4 == b.text \cup model
           v5 == MaxOf(MaxOf(b.dev, Get(r.ev, "device_confidence", 0)), IF direct THEN 0 ELSE acc)
           v6 == IF direct THEN MaxOf(b.phys, acc) ELSE b.phys
           v7 == b.signals \o signals
           v8 == b.wantext \cup SignalsText(signals)
           v9 == [f \in DOMAIN kv \cup DOMAIN b.cpekv |-> IF f \in DOMAIN kv THEN kv[f] ELSE b.cpekv[f]]
           v10 == b.cpetext \cup Get(r.ev, "cpe_text", {})
           v11 == IF direct /\ (acc > 0 \/ Get(r.ev, "strong_access_evidence", FALSE))
                  THEN AppendAllUnique(b.strong, r.hints) ELSE b.strong
           c1 == [b EXCEPT !.tr064 = v1]
           c2 == [c1 EXCEPT !.upnp = v2]
           c3 == [c2 EXCEPT !.model = v3]
           c4 == [c3 EXCEPT !.text = v4]
           c5 == [c4 EXCEPT !.dev = v5]
           c6 == [c5 EXCEPT !.phys = v6]
           c7 == [c6 EXCEPT !.signals = v7]
           c8 == [c7 EXCEPT !.wantext = v8]
           c9 == [c8 EXCEPT !.cpekv = v9]
           c10 == [c9 EXCEPT !.cpetext = v10]
           c11 == [c10 EXCEPT !.strong = v11]
<1>1. AbsorbCPE(b, r) = c11
  BY Zenon DEF AbsorbCPE
<1>2. /\ acc \in Nat /\ Get(r.ev, "device_confidence", 0) \in Nat /\ signals \in Seq(Signal) /\ IsSlice(r.hints)
      /\ b.dev \in Nat /\ b.phys \in Nat /\ b.signals \in Seq(Signal) /\ IsSlice(b.strong)
  BY EvidenceTypes, SliceOf DEF BagTyped
<1> HIDE DEF acc, signals
<1>3. v5 \in Nat /\ v6 \in Nat
  BY <1>2 DEF MaxOf
<1>4. v7 \in Seq(Signal)
  BY <1>2
<1>5. IsSlice(v11)
  BY <1>2, UniqueIn
<1>6. {"tr064", "upnp", "model", "text", "wantext", "cpekv", "cpetext"} \subseteq Plain
  BY DEF Plain, Fields
<1> HIDE DEF v1, v2, v3, v4, v5, v6, v7, v8, v9, v10, v11
<1>7. Absorbs(b, c1)
  BY <1>6, SetTyped, Zenon
<1> HIDE DEF c1
<1>8. Absorbs(c1, c2)
  BY <1>6, <1>7, SetTyped, Zenon DEF Absorbs
<1> HIDE DEF c2
<1>9. Absorbs(c2, c3)
  BY <1>6, <1>8, SetTyped, Zenon DEF Absorbs
<1> HIDE DEF c3
<1>10. Absorbs(c3, c4)
  BY <1>6, <1>9, SetTyped, Zenon DEF Absorbs
<1> HIDE DEF c4
<1>11. Absorbs(c4, c5)
  BY <1>3, <1>10, SetTyped, Zenon DEF Absorbs
<1> HIDE DEF c5
<1>12. Absorbs(c5, c6)
  BY <1>3, <1>11, SetTyped, Zenon DEF Absorbs
<1> HIDE DEF c6
<1>13. Absorbs(c6, c7)
  BY <1>4, <1>12, SetTyped, Zenon DEF Absorbs
<1> HIDE DEF c7
<1>14. Absorbs(c7, c8)
  BY <1>6, <1>13, SetTyped, Zenon DEF Absorbs
<1> HIDE DEF c8
<1>15. Absorbs(c8, c9)
  BY <1>6, <1>14, SetTyped, Zenon DEF Absorbs
<1> HIDE DEF c9
<1>16. Absorbs(c9, c10)
  BY <1>6, <1>15, SetTyped, Zenon DEF Absorbs
<1> HIDE DEF c10
<1>17. Absorbs(c10, c11)
  BY <1>5, <1>16, SetTyped, Zenon DEF Absorbs
<1> HIDE DEF c11
<1>18. Absorbs(b, c5)
  BY <1>7, <1>8, <1>9, <1>10, <1>11, AbsorbsChain
<1>19. Absorbs(c5, c11)
  BY <1>12, <1>13, <1>14, <1>15, <1>16, <1>17, AbsorbsChain
<1> QED
  BY <1>1, <1>18, <1>19, AbsorbsChain

\* The devices after one probe: the chain probe's replace the others, the device probes add theirs.
DevicesAfter(devs, r) ==
    CASE r.name = "gateway_chain_probe" -> Get(r.ev, "gateway_devices", <<>>)
      [] r.name \in DeviceProbes        -> devs \o Get(r.ev, "gateway_devices", <<>>)
      [] OTHER                          -> devs

LEMMA NamedAbsorbs ==
    ASSUME NEW b, BagTyped(b), NEW r, Reported(r.name, r)
    PROVE  BagTyped(AbsorbByName(b, r)) /\ AbsorbByName(b, r).devices = DevicesAfter(b.devices, r)
<1> DEFINE c == AbsorbByName(b, r)
           e == r.ev
           devs == Get(r.ev, "gateway_devices", <<>>)
<1>0. Absorbs(b, b)
  BY DEF Absorbs
<1>1. CASE r.name = "gateway_chain_probe"
  <2>1. c = AbsorbChainProbe(b, r.ev)
    BY <1>1 DEF AbsorbByName, CPEProbes, DeviceProbes
  <2>2. DevicesAfter(b.devices, r) = devs
    BY <1>1 DEF DevicesAfter, DeviceProbes
  <2> QED
    BY <2>1, <2>2, DeviceProbeAbsorbs
<1>2. CASE r.name \in DeviceProbes
  <2>1. c = AbsorbDeviceProbe(b, r.ev)
    BY <1>2 DEF AbsorbByName, DeviceProbes, CPEProbes
  <2>2. DevicesAfter(b.devices, r) = b.devices \o devs
    BY <1>2 DEF DevicesAfter, DeviceProbes
  <2> QED
    BY <2>1, <2>2, DeviceProbeAbsorbs
<1>3. CASE r.name # "gateway_chain_probe" /\ r.name \notin DeviceProbes
  <2>1. DevicesAfter(b.devices, r) = b.devices
    BY <1>3 DEF DevicesAfter
  <2> SUFFICES Absorbs(b, c)
    BY <2>1 DEF Absorbs
  <2>2. CASE r.name \in CPEProbes
    <3>1. c = AbsorbCPE(b, r)
      BY <1>3, <2>2 DEF AbsorbByName, CPEProbes
    <3> QED
      BY <3>1, CPEAbsorbs
  <2>3. CASE r.name = "upnp_probe"
    <3>1. c = AbsorbUPnP(b, e)
      BY <1>3, <2>3 DEF AbsorbByName, CPEProbes
    <3> QED
      BY <3>1, <2>3, PlainAbsorbs
  <2>4. CASE r.name = "adapter_probe"
    <3>1. c = AbsorbAdapters(b, e)
      BY <1>3, <2>4 DEF AbsorbByName, CPEProbes
    <3> QED
      BY <3>1, <2>4, PlainAbsorbs
  <2>5. CASE r.name = "public_ip_probe"
    <3>1. c = AbsorbPublicIP(b, e)
      BY <1>3, <2>5 DEF AbsorbByName, CPEProbes
    <3> QED
      BY <3>1, <2>5, PlainAbsorbs
  <2>6. CASE r.name = "asn_probe"
    <3>1. c = AbsorbASN(b, e)
      BY <1>3, <2>6 DEF AbsorbByName, CPEProbes
    <3> QED
      BY <3>1, <2>6, PlainAbsorbs
  <2>7. CASE r.name = "latency_probe"
    <3>1. c = AbsorbLatency(b, e)
      BY <1>3, <2>7 DEF AbsorbByName, CPEProbes
    <3> QED
      BY <3>1, <2>7, PlainAbsorbs
  <2>8. CASE r.name = "gateway_probe"
    <3>1. c = AbsorbGateway(b, e)
      BY <1>3, <2>8 DEF AbsorbByName, CPEProbes
    <3> QED
      BY <3>1, <2>8, PlainAbsorbs
  <2>9. CASE r.name = "traceroute_probe"
    <3>1. c = AbsorbTraceroute(b, e)
      BY <1>3, <2>9 DEF AbsorbByName, CPEProbes
    <3> QED
      BY <3>1, <2>9, PlainAbsorbs
  <2>10. CASE r.name = "ipv6_transition_probe" /\ "ipv6_context" \in DOMAIN e
    <3>1. c = AbsorbIPv6(b, e)
      BY <1>3, <2>10 DEF AbsorbByName, CPEProbes
    <3> QED
      BY <3>1, <2>10, PlainAbsorbs
  <2>11. CASE r.name = "stun_pcp_nat_probe" /\ "nat_topology" \in DOMAIN e
    <3>1. c = AbsorbNAT(b, e)
      BY <1>3, <2>11 DEF AbsorbByName, CPEProbes
    <3> QED
      BY <3>1, <2>11, TypedAbsorbs
  <2>12. CASE r.name = "os_interface_probe_v2" /\ "local_medium" \in DOMAIN e
    <3>1. c = AbsorbOSInterface(b, e)
      BY <1>3, <2>12 DEF AbsorbByName, CPEProbes
    <3> QED
      BY <3>1, <2>12, TypedAbsorbs
  <2>13. CASE r.name = "lldp_cdp_passive_probe"
    <3>1. c = AbsorbLLDP(b, r)
      BY <1>3, <2>13 DEF AbsorbByName, CPEProbes
    <3> QED
      BY <3>1, <2>13, TypedAbsorbs
  <2>14. CASE r.name = "performance_profile_probe" /\ "performance_profile" \in DOMAIN e
    <3>1. c = AbsorbPerformance(b, e)
      BY <1>3, <2>14 DEF AbsorbByName, CPEProbes
    <3> QED
      BY <3>1, <2>14, PlainAbsorbs
  <2>15. CASE r.name = "gateway_reachability_diagnostics_probe"
    <3>1. c = AbsorbReachability(b, e)
      BY <1>3, <2>15 DEF AbsorbByName, CPEProbes
    <3> QED
      BY <3>1, <2>15, PlainAbsorbs
  <2>16. CASE /\ r.name \notin CPEProbes
               /\ r.name # "upnp_probe"
               /\ r.name # "adapter_probe"
               /\ r.name # "public_ip_probe"
               /\ r.name # "asn_probe"
               /\ r.name # "latency_probe"
               /\ r.name # "gateway_probe"
               /\ r.name # "traceroute_probe"
               /\ ~(r.name = "ipv6_transition_probe" /\ "ipv6_context" \in DOMAIN e)
               /\ ~(r.name = "stun_pcp_nat_probe" /\ "nat_topology" \in DOMAIN e)
               /\ ~(r.name = "os_interface_probe_v2" /\ "local_medium" \in DOMAIN e)
               /\ r.name # "lldp_cdp_passive_probe"
               /\ ~(r.name = "performance_profile_probe" /\ "performance_profile" \in DOMAIN e)
               /\ r.name # "gateway_reachability_diagnostics_probe"
    <3>1. c = b
      BY <1>3, <2>16 DEF AbsorbByName
    <3> QED
      BY <3>1, <1>0
  <2> QED
    BY <2>2, <2>3, <2>4, <2>5, <2>6, <2>7, <2>8, <2>9, <2>10, <2>11, <2>12, <2>13, <2>14, <2>15, <2>16
<1> QED
  BY <1>1, <1>2, <1>3

LEMMA AbsorbTyped ==
    ASSUME NEW b, BagTyped(b), NEW r, Reported(r.name, r)
    PROVE  BagTyped(Absorb(b, r)) /\ Absorb(b, r).devices = DevicesAfter(b.devices, r)
<1> DEFINE hints == AppendAllUnique(b.hints, r.hints)
           c1 == [b EXCEPT !.hints = hints]
           c2 == AbsorbByName(c1, r)
           sources == c2.sources + (IF Contributed(r) THEN 1 ELSE 0)
           c3 == [c2 EXCEPT !.sources = sources]
<1>1. Absorb(b, r) = c3
  BY Zenon DEF Absorb
<1>2. IsSlice(hints)
  <2>1. IsSlice(r.hints) /\ IsSlice(b.hints)
    BY EvidenceTypes, SliceOf DEF BagTyped
  <2> QED
    BY <2>1, UniqueIn
<1> HIDE DEF hints
<1>3. Absorbs(b, c1)
  BY <1>2, SetTyped, Zenon
<1> HIDE DEF c1
<1>4. BagTyped(c2) /\ c2.devices = DevicesAfter(b.devices, r)
  BY <1>3, NamedAbsorbs DEF Absorbs
<1> HIDE DEF c2
<1>5. sources \in Nat
  BY <1>4 DEF BagTyped
<1> HIDE DEF sources
<1>6. Absorbs(c2, c3)
  BY <1>4, <1>5, SetTyped, Zenon
<1> QED
  BY <1>1, <1>4, <1>6 DEF Absorbs

LEMMA NothingTyped == BagTyped(NoEvidence)
<1>1. Shaped(NoEvidence)
  BY DEF Shaped, Fields, NoEvidence
<1>2. NATShaped(NoEvidence.nat)
  BY DEF NATShaped, NATFields, NoEvidence, NoNAT
<1>3. /\ NoEvidence.hints = <<>> /\ NoEvidence.strong = <<>> /\ NoEvidence.signals = <<>> /\ NoEvidence.devices = <<>>
      /\ NoEvidence.sources = 0 /\ NoEvidence.dev = 0 /\ NoEvidence.phys = 0
  BY DEF NoEvidence
<1>4. IsSlice(<<>>) /\ <<>> \in Seq(Signal) /\ <<>> \in Seq(Devices) /\ 0 \in Nat
  BY DEF IsSlice
<1> QED
  BY <1>1, <1>2, <1>3, <1>4, Zenon DEF BagTyped

-----------------------------------------------------------------------------
(* The merged bag.                                                         *)

\* Whatever holds between any element of s and any later one.
Ordered(s, R) == \A i, j \in DOMAIN s : i < j => <<s[i], s[j]>> \in R

LEMMA AppendOrdered ==
    ASSUME NEW s, IsSlice(s), NEW x, NEW R, Ordered(s, R), \A y \in ToSet(s) : <<y, x>> \in R
    PROVE  Ordered(Append(s, x), R)
<1>1. Len(s) \in Nat /\ DOMAIN s = 1..Len(s) /\ \A i \in 1..Len(s) : s[i] \in ToSet(s)
  BY SliceIs DEF ToSet
<1> DEFINE t == Append(s, x)
<1>2. DOMAIN t = 1..Len(s) + 1 /\ t[Len(s) + 1] = x /\ \A i \in 1..Len(s) : t[i] = s[i]
  BY <1>1 DEF IsSlice
<1> HIDE DEF t
<1>3. \A i, j \in DOMAIN t : i < j => <<t[i], t[j]>> \in R
  <2> SUFFICES ASSUME NEW i \in DOMAIN t, NEW j \in DOMAIN t, i < j PROVE <<t[i], t[j]>> \in R
    OBVIOUS
  <2>1. i \in 1..Len(s) /\ t[i] = s[i]
    BY <1>1, <1>2
  <2>2. CASE j \in 1..Len(s)
    <3>1. <<s[i], s[j]>> \in R
      BY <1>1, <2>1, <2>2 DEF Ordered
    <3> QED
      BY <1>2, <2>1, <2>2, <3>1
  <2>3. CASE j = Len(s) + 1
    BY <1>1, <1>2, <2>1, <2>3
  <2> QED
    BY <1>1, <1>2, <2>2, <2>3
<1> QED
  BY <1>3 DEF Ordered, t

LEMMA ThoseOrdered ==
    ASSUME NEW q, IsSlice(q), NEW S, NEW R, Ordered(q, R)
    PROVE  Ordered(Those(q, S), R)
<1>0. Len(q) \in Nat /\ DOMAIN q = 1..Len(q)
  BY SliceIs
<1>1. PICK acc \in [0..Len(q) -> Seq(ToSet(q))] : KeepsThose(acc, q, S)
  BY ThoseRun DEF IsSlice
<1> DEFINE Good(k) == Ordered(acc[k], R) /\ ToSet(acc[k]) \subseteq {q[j] : j \in 1..k}
           G == {k \in Nat : Good(k)}
<1>2. 0 \in G
  <2>1. Ordered(<<>>, R) /\ ToSet(<<>>) = {}
    BY DEF Ordered, ToSet
  <2> QED
    BY <1>1, <2>1 DEF KeepsThose
<1>3. ASSUME NEW k \in 0..Len(q) - 1, k \in G PROVE k + 1 \in G
  <2>1. k + 1 \in 1..Len(q) /\ (k + 1) - 1 = k /\ k \in Nat /\ k + 1 \in Nat /\ k \in 0..Len(q)
    BY <1>0
  <2>2. acc[k + 1] = IF q[k + 1] \in S THEN Append(acc[k], q[k + 1]) ELSE acc[k]
    BY <1>1, <2>1 DEF KeepsThose
  <2>3. IsSlice(acc[k])
    BY <2>1, SliceOf
  <2>4. \A j \in 1..k : <<q[j], q[k + 1]>> \in R
    <3> TAKE j \in 1..k
    <3>1. j \in DOMAIN q /\ k + 1 \in DOMAIN q /\ j < k + 1
      BY <1>0, <2>1
    <3> QED
      BY <3>1 DEF Ordered
  <2>5. Good(k)
    BY <1>3
  <2>6. Good(k + 1)
    <3>1. {q[j] : j \in 1..k + 1} = {q[j] : j \in 1..k} \cup {q[k + 1]}
      BY <2>1
    <3>2. \A y \in ToSet(acc[k]) : <<y, q[k + 1]>> \in R
      BY <2>4, <2>5
    <3>3. ToSet(Append(acc[k], q[k + 1])) = ToSet(acc[k]) \cup {q[k + 1]}
      BY <2>3, AppendIn
    <3>4. Ordered(Append(acc[k], q[k + 1]), R)
      BY <2>3, <2>5, <3>2, AppendOrdered
    <3> QED
      BY <2>2, <2>5, <3>1, <3>3, <3>4
  <2> HIDE DEF Good
  <2> QED
    BY <2>1, <2>6
<1>4. Good(Len(q))
  <2>1. G \in SUBSET Nat
    OBVIOUS
  <2> HIDE DEF G
  <2>2. \A k \in 0..Len(q) : k \in G
    BY <1>0, <1>2, <1>3, <2>1, UpTo
  <2>3. Len(q) \in G
    BY <1>0, <2>2
  <2> USE DEF G
  <2> HIDE DEF Good
  <2> QED
    BY <2>3
<1> QED
  BY <1>1, <1>4 DEF KeepsThose

\* The chain probe runs before whoever adds to its devices.
ChainProbeFirst(rs) ==
    \A i, j \in DOMAIN rs :
        i < j /\ rs[j].name = "gateway_chain_probe" => rs[i].name \notin DeviceProbes \cup {"gateway_chain_probe"}

LEMMA SuccessfulOrdered ==
    ASSUME NEW rs, ResultsOK(rs)
    PROVE  ChainProbeFirst(Successful(rs))
<1> DEFINE before == {p \in ToSet(rs) \X ToSet(rs) :
                        p[2].name = "gateway_chain_probe" => p[1].name \notin DeviceProbes \cup {"gateway_chain_probe"}}
           ok == Successful(rs)
<1>1. Ordered(rs, before)
  <2> SUFFICES ASSUME NEW i \in DOMAIN rs, NEW j \in DOMAIN rs, i < j PROVE <<rs[i], rs[j]>> \in before
    BY DEF Ordered
  <2>1. rs[i] \in ToSet(rs) /\ rs[j] \in ToSet(rs)
    BY DEF ToSet
  <2>2. rs[j].name = "gateway_chain_probe" => rs[i].name \notin DeviceProbes \cup {"gateway_chain_probe"}
    BY SlotsAssumption DEF ResultsOK
  <2> QED
    BY <2>1, <2>2
<1> HIDE DEF before
<1>2. Ordered(ok, before)
  BY <1>1, ThoseOrdered DEF ResultsOK, Successful
<1> USE DEF before
<1> HIDE DEF ok
<1>3. ChainProbeFirst(ok)
  BY <1>2 DEF Ordered, ChainProbeFirst
<1> QED
  BY <1>3 DEF ok

\* The devices a result describes.
Described(r) == ToSet(Get(r.ev, "gateway_devices", <<>>))

LEMMA NoneDescribed ==
    ASSUME NEW r, Reported(r.name, r), r.name \notin DeviceProbes \cup {"gateway_chain_probe"}
    PROVE  Described(r) = {}
<1>1. "gateway_devices" \notin DOMAIN r.ev
  BY EvidenceOf
<1>2. Get(r.ev, "gateway_devices", <<>>) = <<>>
  BY <1>1 DEF Get
<1> QED
  BY <1>2 DEF Described, ToSet

LEMMA DescribedStep ==
    ASSUME NEW r, Reported(r.name, r), NEW devs \in Seq(Devices), NEW before,
           before \subseteq ToSet(devs), r.name = "gateway_chain_probe" => before = {}
    PROVE  before \cup Described(r) \subseteq ToSet(DevicesAfter(devs, r))
<1> DEFINE more == Get(r.ev, "gateway_devices", <<>>)
<1>1. more \in Seq(Devices)
  BY EvidenceTypes
<1>2. Described(r) = ToSet(more)
  BY DEF Described
<1> HIDE DEF more
<1>3. ToSet(devs \o more) = ToSet(devs) \cup ToSet(more)
  BY <1>1, Joined
<1>4. CASE r.name = "gateway_chain_probe"
  <2>1. DevicesAfter(devs, r) = more
    BY <1>4 DEF DevicesAfter, more, DeviceProbes
  <2> QED
    BY <1>2, <1>4, <2>1
<1>5. CASE r.name \in DeviceProbes
  <2>1. DevicesAfter(devs, r) = devs \o more
    BY <1>5 DEF DevicesAfter, more, DeviceProbes
  <2> QED
    BY <1>2, <1>3, <2>1
<1>6. CASE r.name \notin DeviceProbes \cup {"gateway_chain_probe"}
  <2>1. DevicesAfter(devs, r) = devs
    BY <1>6 DEF DevicesAfter
  <2>2. Described(r) = {}
    BY <1>6, NoneDescribed
  <2> QED
    BY <2>1, <2>2
<1> QED
  BY <1>4, <1>5, <1>6

\* The bag before the chain state: typed, with every device that any result describes.
LEMMA GatheredBag ==
    ASSUME NEW rs, ResultsOK(rs)
    PROVE  /\ BagTyped(Gathered(Successful(rs)))
           /\ \A r \in ToSet(Successful(rs)) : Described(r) \subseteq ToSet(Gathered(Successful(rs)).devices)
<1> DEFINE ok == Successful(rs)
<1>0. IsSlice(ok) /\ ChainProbeFirst(ok) /\ \A i \in DOMAIN ok : ok[i] \in ToSet(ok) /\ Reported(ok[i].name, ok[i])
  BY SuccessfulIn, SuccessfulOrdered
<1> HIDE DEF ok
<1>00. Len(ok) \in Nat /\ DOMAIN ok = 1..Len(ok)
  BY <1>0, SliceIs
<1>1. PICK acc : /\ acc[0] = NoEvidence /\ Gathered(ok) = acc[Len(ok)]
                 /\ \A k \in 1..Len(ok) : acc[k] = Absorb(acc[k - 1], ok[k])
  BY <1>0, GatherRun
<1> DEFINE seen(k) == UNION {Described(ok[j]) : j \in 1..k}
           Good(k) == BagTyped(acc[k]) /\ seen(k) \subseteq ToSet(acc[k].devices)
           G == {k \in Nat : Good(k)}
<1>2. 0 \in G
  <2>1. seen(0) = {}
    OBVIOUS
  <2> HIDE DEF seen
  <2> QED
    BY <1>1, <2>1, NothingTyped
<1>3. ASSUME NEW k \in 0..Len(ok) - 1, k \in G PROVE k + 1 \in G
  <2>1. k + 1 \in 1..Len(ok) /\ (k + 1) - 1 = k /\ k \in Nat /\ k + 1 \in Nat /\ 1..k \subseteq 1..Len(ok)
    BY <1>00
  <2>2. acc[k + 1] = Absorb(acc[k], ok[k + 1])
    BY <1>1, <2>1
  <2>3. Reported(ok[k + 1].name, ok[k + 1])
    BY <1>0, <1>00, <2>1
  <2>4. Good(k)
    BY <1>3
  <2>5. BagTyped(acc[k + 1]) /\ acc[k + 1].devices = DevicesAfter(acc[k].devices, ok[k + 1])
    BY <2>2, <2>3, <2>4, AbsorbTyped
  <2>6. ok[k + 1].name = "gateway_chain_probe" => seen(k) = {}
    <3> SUFFICES ASSUME ok[k + 1].name = "gateway_chain_probe", NEW j \in 1..k PROVE Described(ok[j]) = {}
      OBVIOUS
    <3>1. j < k + 1 /\ j \in DOMAIN ok /\ k + 1 \in DOMAIN ok
      BY <1>00, <2>1
    <3>2. ok[j].name \notin DeviceProbes \cup {"gateway_chain_probe"}
      BY <1>0, <3>1 DEF ChainProbeFirst
    <3> QED
      BY <1>0, <3>1, <3>2, NoneDescribed
  <2>7. seen(k + 1) = seen(k) \cup Described(ok[k + 1])
    BY <2>1
  <2>8. acc[k].devices \in Seq(Devices) /\ seen(k) \subseteq ToSet(acc[k].devices)
    BY <2>4 DEF BagTyped
  <2> HIDE DEF seen
  <2>9. seen(k) \cup Described(ok[k + 1]) \subseteq ToSet(DevicesAfter(acc[k].devices, ok[k + 1]))
    BY <2>3, <2>6, <2>8, DescribedStep
  <2>10. Good(k + 1)
    BY <2>5, <2>7, <2>9
  <2> HIDE DEF Good
  <2> QED
    BY <2>1, <2>10
<1>4. Good(Len(ok))
  <2>1. G \in SUBSET Nat
    OBVIOUS
  <2> HIDE DEF G
  <2>2. \A k \in 0..Len(ok) : k \in G
    BY <1>00, <1>2, <1>3, <2>1, UpTo
  <2>3. Len(ok) \in G
    BY <1>00, <2>2
  <2> USE DEF G
  <2> HIDE DEF Good
  <2> QED
    BY <2>3
<1>5. \A r \in ToSet(ok) : Described(r) \subseteq seen(Len(ok))
  BY <1>00 DEF ToSet
<1> HIDE DEF seen
<1>6. BagTyped(Gathered(ok)) /\ \A r \in ToSet(ok) : Described(r) \subseteq ToSet(Gathered(ok).devices)
  BY <1>1, <1>4, <1>5
<1> QED
  BY <1>6 DEF ok

LEMMA ChangesChain ==
    ASSUME NEW b, NEW c, NEW d, NEW S, NEW T, Changes(b, c, S), Changes(c, d, T)
    PROVE  Changes(b, d, S \cup T)
  BY DEF Changes

LEMMA TuplesAreSlices ==
    /\ IsSlice(<<>>) /\ \A x : IsSlice(<<x>>)
    /\ \A x, y : IsSlice(<<x, y>>)
    /\ \A x, y, z : IsSlice(<<x, y, z>>)
<1>1. <<>> \in Seq({})
  OBVIOUS
<1>2. \A x : <<x>> \in Seq({x})
  OBVIOUS
<1>3. \A x, y : <<x, y>> \in Seq({x, y})
  OBVIOUS
<1>4. \A x, y, z : <<x, y, z>> \in Seq({x, y, z})
  OBVIOUS
<1> QED
  BY <1>1, <1>2, <1>3, <1>4, SliceOf, Zenon

LEMMA ProfileTypes ==
    ASSUME NEW hay, NEW kv
    PROVE  Parse(hay, kv).conf \in Nat /\ IsSlice(AccessHints(Parse(hay, kv)))
<1>1. ParseDSL(hay, kv).conf \in Nat
  BY DEF ParseDSL, DSLConfidence, NoProfile
<1>2. ParseDOCSIS(hay, kv).conf \in Nat
  BY DEF ParseDOCSIS
<1>3. ParsePON(hay, kv).conf \in Nat
  BY DEF ParsePON, NoProfile
<1>4. NoProfile.conf \in Nat
  BY DEF NoProfile
<1>5. Parse(hay, kv) \in {ParseDSL(hay, kv), ParseDOCSIS(hay, kv), ParsePON(hay, kv), NoProfile}
  BY DEF Parse
<1>6. \A lp : IsSlice(AccessHints(lp))
  BY TuplesAreSlices DEF AccessHints
<1> QED
  BY <1>1, <1>2, <1>3, <1>4, <1>5, <1>6

LEMMA ChainStateBag ==
    ASSUME NEW b, Shaped(b), NEW rs
    PROVE  LET c     == WithChainState(b, rs)
               state == ResolveGatewayChainState(rs, b.gateway, b.me)
           IN  /\ Changes(b, c, {"chain", "double", "chainconflicts", "hops", "hopconf"})
               /\ c.hops = state.chain /\ c.hopconf = state.conf /\ (state.double => c.double)
<1> DEFINE state == ResolveGatewayChainState(rs, b.gateway, b.me)
           v1 == IF state.chain # <<>> THEN state.chain ELSE b.chain
           v2 == b.double \/ state.double
           v3 == state.conflicts
           v4 == state.chain
           v5 == state.conf
           c1 == [b EXCEPT !.chain = v1]
           c2 == [c1 EXCEPT !.double = v2]
           c3 == [c2 EXCEPT !.chainconflicts = v3]
           c4 == [c3 EXCEPT !.hops = v4]
           c5 == [c4 EXCEPT !.hopconf = v5]
<1>1. WithChainState(b, rs) = c5
  BY Zenon DEF WithChainState, OverrideChain
<1>2. state.double => v2
  OBVIOUS
<1>3. {"chain", "double", "chainconflicts", "hops", "hopconf"} \subseteq Fields
  BY DEF Fields
<1> HIDE DEF v1, v2, v3
<1>4. Changes(b, c1, {"chain"})
  BY <1>3, SetField
<1> HIDE DEF c1
<1>5. Changes(c1, c2, {"double"}) /\ c2.double = v2
  <2>1. Shaped(c1)
    BY <1>4 DEF Changes
  <2> QED
    BY <1>3, <2>1, SetField, Zenon
<1> HIDE DEF c2
<1>6. Changes(c2, c3, {"chainconflicts"})
  <2>1. Shaped(c2)
    BY <1>5 DEF Changes
  <2> QED
    BY <1>3, <2>1, SetField, Zenon
<1> HIDE DEF c3
<1>7. Changes(c3, c4, {"hops"}) /\ c4.hops = v4
  <2>1. Shaped(c3)
    BY <1>6 DEF Changes
  <2> QED
    BY <1>3, <2>1, SetField, Zenon
<1> HIDE DEF c4
<1>8. Changes(c4, c5, {"hopconf"}) /\ c5.hopconf = v5
  <2>1. Shaped(c4)
    BY <1>7 DEF Changes
  <2> QED
    BY <1>3, <2>1, SetField, Zenon
<1> HIDE DEF c5
<1>9. c5.hops = v4 /\ c5.double = v2
  BY <1>3, <1>5, <1>6, <1>7, <1>8 DEF Changes
<1>10. Changes(b, c5, {"chain", "double", "chainconflicts", "hops", "hopconf"})
  BY <1>4, <1>5, <1>6, <1>7, <1>8 DEF Changes
<1>11. /\ Changes(b, c5, {"chain", "double", "chainconflicts", "hops", "hopconf"})
       /\ c5.hops = state.chain /\ c5.hopconf = state.conf /\ (state.double => c5.double)
  BY <1>2, <1>8, <1>9, <1>10
<1> QED
  BY <1>1, <1>11, Zenon

\* m is n but for the field f.
NATChanges(n, m, f) == NATShaped(m) /\ \A g \in NATFields \ {f} : m[g] = n[g]

LEMMA SetNAT ==
    ASSUME NEW n, NATShaped(n), NEW f \in NATFields, NEW v
    PROVE  NATChanges(n, [n EXCEPT ![f] = v], f) /\ [n EXCEPT ![f] = v][f] = v
<1> DEFINE m == [n EXCEPT ![f] = v]
<1>1. n = [g \in NATFields |-> n[g]]
  BY DEF NATShaped
<1>2. m = [g \in NATFields |-> IF g = f THEN v ELSE n[g]]
  BY <1>1
<1> HIDE DEF m
<1>3. NATChanges(n, m, f) /\ m[f] = v
  BY <1>2 DEF NATShaped, NATChanges
<1> QED
  BY <1>3 DEF m

\* Both flags of a double NAT.
LEMMA SetDouble ==
    ASSUME NEW n, NATShaped(n), NEW int
    PROVE  LET m == [n EXCEPT !.internal = int, !.double = int]
           IN  NATShaped(m) /\ m.internal = int /\ m.double = int
<1> DEFINE m == [n EXCEPT !.internal = int]
           k == [m EXCEPT !.double = int]
<1>1. "internal" \in NATFields /\ "double" \in NATFields
  BY DEF NATFields
<1>2. NATChanges(n, m, "internal") /\ m.internal = int
  BY <1>1, SetNAT, Zenon
<1> HIDE DEF m
<1>3. NATShaped(m)
  BY <1>2 DEF NATChanges
<1>4. NATChanges(m, k, "double") /\ k.double = int
  BY <1>1, <1>3, SetNAT, Zenon
<1> HIDE DEF k
<1>5. NATShaped(k) /\ k.double = int /\ k.internal = int
  BY <1>1, <1>2, <1>4 DEF NATChanges
<1> QED
  BY <1>5, Zenon DEF m, k

LEMMA NATBag ==
    ASSUME NEW b, Shaped(b), NATShaped(b.nat)
    PROVE  LET c == WithNAT(b)
           IN  Changes(b, c, {"hasnat", "nat"}) /\ NATShaped(c.nat)
<1>0. {"hasnat", "nat"} \subseteq Fields
  BY DEF Fields
<1>1. CASE b.hasnat
  <2> DEFINE int == b.nat.internal \/ b.nat.double \/ b.double
             v == [b.nat EXCEPT !.internal = int, !.double = int]
             c == [b EXCEPT !.nat = v]
  <2>1. WithNAT(b) = c
    BY <1>1, Zenon DEF WithNAT
  <2>2. NATShaped(v)
    BY SetDouble, Zenon
  <2> HIDE DEF v
  <2>3. Changes(b, c, {"nat"}) /\ c.nat = v
    BY <1>0, SetField, Zenon
  <2> HIDE DEF c
  <2> QED
    BY <2>1, <2>2, <2>3 DEF Changes
<1>2. CASE ~b.hasnat /\ b.double
  <2> DEFINE yes == TRUE
             v == [NoNAT EXCEPT !.double = TRUE, !.internal = TRUE, !.topology = "double_nat_possible"]
             c1 == [b EXCEPT !.hasnat = yes]
             c2 == [c1 EXCEPT !.nat = v]
  <2>1. WithNAT(b) = c2
    BY <1>2, Zenon DEF WithNAT
  <2>2. NATShaped(v)
    BY DEF NATShaped, NATFields, NoNAT
  <2> HIDE DEF yes, v
  <2>3. Changes(b, c2, {"hasnat", "nat"})
    BY <1>0, SetTwo, Zenon
  <2>4. Changes(b, c1, {"hasnat"})
    BY <1>0, SetField, Zenon
  <2> HIDE DEF c1
  <2>5. c2.nat = v
    <3>1. Shaped(c1)
      BY <2>4 DEF Changes
    <3> QED
      BY <1>0, <3>1, SetField, Zenon
  <2> HIDE DEF c2
  <2> QED
    BY <2>1, <2>2, <2>3, <2>5
<1>3. CASE ~b.hasnat /\ ~b.double
  <2>1. WithNAT(b) = b
    BY <1>3, Zenon DEF WithNAT
  <2> QED
    BY <2>1 DEF Changes
<1> QED
  BY <1>1, <1>2, <1>3

LEMMA ProfileBag ==
    ASSUME NEW b, Shaped(b), IsSlice(b.strong), b.phys \in Nat
    PROVE  LET c == WithLineProfile(b)
           IN  /\ Changes(b, c, {"line", "strong", "phys"})
               /\ IsSlice(c.strong) /\ c.phys \in Nat /\ c.line.conf \in Nat
<1> DEFINE lp == Parse(b.wantext \cup b.cpetext \cup b.model, b.cpekv)
           strong == AppendAllUnique(b.strong, AccessHints(lp))
           phys == MaxOf(b.phys, lp.conf)
           c1 == [b EXCEPT !.line = lp]
           c2 == [c1 EXCEPT !.strong = strong]
           c3 == [c2 EXCEPT !.phys = phys]
<1>1. WithLineProfile(b) = c3
  BY Zenon DEF WithLineProfile
<1>2. lp.conf \in Nat /\ IsSlice(AccessHints(lp))
  BY ProfileTypes
<1> HIDE DEF lp
<1>3. IsSlice(strong) /\ phys \in Nat
  BY <1>2, UniqueIn DEF MaxOf
<1>4. {"line", "strong", "phys"} \subseteq Fields
  BY DEF Fields
<1> HIDE DEF strong, phys
<1>5. Changes(b, c1, {"line"}) /\ c1.line = lp
  BY <1>4, SetField, Zenon
<1> HIDE DEF c1
<1>6. Changes(c1, c2, {"strong"}) /\ c2.strong = strong
  <2>1. Shaped(c1)
    BY <1>5 DEF Changes
  <2> QED
    BY <1>4, <2>1, SetField, Zenon
<1> HIDE DEF c2
<1>7. Changes(c2, c3, {"phys"}) /\ c3.phys = phys
  <2>1. Shaped(c2)
    BY <1>6 DEF Changes
  <2> QED
    BY <1>4, <2>1, SetField, Zenon
<1> HIDE DEF c3
<1>8. c3.line = lp /\ c3.strong = strong
  BY <1>4, <1>5, <1>6, <1>7 DEF Changes
<1>9. Changes(b, c3, {"line", "strong", "phys"})
  BY <1>5, <1>6, <1>7 DEF Changes
<1>10. Changes(b, c3, {"line", "strong", "phys"}) /\ IsSlice(c3.strong) /\ c3.phys \in Nat /\ c3.line.conf \in Nat
  BY <1>2, <1>3, <1>7, <1>8, <1>9
<1> QED
  BY <1>1, <1>10, Zenon

LEMMA ResolvedNAT ==
    ASSUME NEW n, NATShaped(n), NEW publicip, NEW cgnat, NEW double, NEW global
    PROVE  LET m == ResolveNATTopology(n, publicip, cgnat, double, global)
           IN  m.internal = m.double /\ (double => m.internal)
<1> DEFINE ip  == FirstNonEmpty(n.publicip, publicip)
           cg  == n.cgnat \/ cgnat
           int == double \/ n.internal \/ n.double
           topology == IF cg THEN "cgnat_possible"
                        ELSE IF global /\ int THEN "dual_stack_with_internal_double_nat"
                        ELSE IF global /\ ip # "" THEN "dual_stack_public_ipv4"
                        ELSE IF global THEN "ipv6_only_transition"
                        ELSE IF int /\ ip # "" THEN "internal_double_nat_public_ipv4"
                        ELSE IF ip # "" THEN "single_private_gateway_public_ipv4"
                        ELSE "unknown"
           m1 == [n EXCEPT !.publicip = ip]
           m2 == [m1 EXCEPT !.cgnat = cg]
           m3 == [m2 EXCEPT !.internal = int]
           m4 == [m3 EXCEPT !.double = int]
           m5 == [m4 EXCEPT !.topology = topology]
<1>1. ResolveNATTopology(n, publicip, cgnat, double, global) = m5
  BY Zenon DEF ResolveNATTopology
<1>2. {"publicip", "cgnat", "internal", "double", "topology"} \subseteq NATFields
  BY DEF NATFields
<1>3. double => int
  OBVIOUS
<1> HIDE DEF ip, cg, int, topology
<1>4. NATChanges(n, m1, "publicip")
  BY <1>2, SetNAT, Zenon
<1> HIDE DEF m1
<1>5. NATChanges(m1, m2, "cgnat")
  <2>1. NATShaped(m1)
    BY <1>4 DEF NATChanges
  <2> QED
    BY <1>2, <2>1, SetNAT, Zenon
<1> HIDE DEF m2
<1>6. NATChanges(m2, m3, "internal") /\ m3.internal = int
  <2>1. NATShaped(m2)
    BY <1>5 DEF NATChanges
  <2> QED
    BY <1>2, <2>1, SetNAT, Zenon
<1> HIDE DEF m3
<1>7. NATChanges(m3, m4, "double") /\ m4.double = int
  <2>1. NATShaped(m3)
    BY <1>6 DEF NATChanges
  <2> QED
    BY <1>2, <2>1, SetNAT, Zenon
<1> HIDE DEF m4
<1>8. NATChanges(m4, m5, "topology")
  <2>1. NATShaped(m4)
    BY <1>7 DEF NATChanges
  <2> QED
    BY <1>2, <2>1, SetNAT, Zenon
<1> HIDE DEF m5
<1>9. m5.internal = int /\ m5.double = int
  BY <1>2, <1>6, <1>7, <1>8 DEF NATChanges
<1>10. m5.internal = m5.double /\ (double => m5.internal)
  BY <1>3, <1>9
<1> QED
  BY <1>1, <1>10, Zenon

LEMMA ReconcileBag ==
    ASSUME NEW b, Shaped(b), NATShaped(b.nat)
    PROVE  LET c == Reconcile(b)
           IN  /\ Changes(b, c, {"chain", "devices", "hasnat", "nat", "double"})
               /\ c.devices = MergeGatewayDevices(b.devices)
               /\ b.double => c.double /\ c.nat.internal /\ c.nat.double
               /\ FinalDouble(c) <=> (c.double \/ c.nat.double)
<1> DEFINE v1 == IF b.chain = <<>> /\ b.gateway # "" THEN <<b.gateway>> ELSE b.chain
           v2 == MergeGatewayDevices(b.devices)
           c1 == [b EXCEPT !.chain = v1]
           c2 == [c1 EXCEPT !.devices = v2]
           nat == ResolveNATTopology(c2.nat, c2.publicip, c2.cgnat, c2.double, c2.globalipv6)
           yes == TRUE
           no == FALSE
           int == nat.internal
           d1 == [c2 EXCEPT !.hasnat = yes]
           d2 == [d1 EXCEPT !.nat = nat]
           d3 == [d2 EXCEPT !.double = int]
           e1 == [c2 EXCEPT !.hasnat = no]
           e2 == [e1 EXCEPT !.nat = NoNAT]
<1>1. Reconcile(b) = IF HasUsefulNATContext(nat) THEN d3 ELSE e2
  BY Zenon DEF Reconcile
<1>2. {"chain", "devices", "hasnat", "nat", "double"} \subseteq Fields
  BY DEF Fields
<1>3. yes /\ ~no
  OBVIOUS
<1> HIDE DEF v1, v2, yes, no
<1>4. Changes(b, c1, {"chain"})
  BY <1>2, SetField, Zenon
<1> HIDE DEF c1
<1>5. Changes(c1, c2, {"devices"}) /\ c2.devices = v2
  <2>1. Shaped(c1)
    BY <1>4 DEF Changes
  <2> QED
    BY <1>2, <2>1, SetField, Zenon
<1> HIDE DEF c2
<1>6. Shaped(c2) /\ c2.nat = b.nat /\ c2.double = b.double
  BY <1>2, <1>4, <1>5 DEF Changes
<1>7. nat.internal = nat.double /\ (b.double => nat.internal)
  <2>1. NATShaped(c2.nat)
    BY <1>6
  <2>2. nat.internal = nat.double /\ (c2.double => nat.internal)
    BY <2>1, ResolvedNAT, Zenon
  <2> QED
    BY <1>6, <2>2
<1>8. nat.internal => HasUsefulNATContext(nat)
  BY Zenon DEF HasUsefulNATContext
<1> HIDE DEF nat, int
<1>9. Changes(c2, d1, {"hasnat"}) /\ d1.hasnat = yes
  BY <1>2, <1>6, SetField, Zenon
<1> HIDE DEF d1
<1>10. Changes(d1, d2, {"nat"}) /\ d2.nat = nat
  <2>1. Shaped(d1)
    BY <1>9 DEF Changes
  <2> QED
    BY <1>2, <2>1, SetField, Zenon
<1> HIDE DEF d2
<1>11. Changes(d2, d3, {"double"}) /\ d3.double = int
  <2>1. Shaped(d2)
    BY <1>10 DEF Changes
  <2> QED
    BY <1>2, <2>1, SetField, Zenon
<1> HIDE DEF d3
<1>12. Changes(c2, e1, {"hasnat"}) /\ e1.hasnat = no
  BY <1>2, <1>6, SetField, Zenon
<1> HIDE DEF e1
<1>13. Changes(e1, e2, {"nat"}) /\ e2.nat = NoNAT
  <2>1. Shaped(e1)
    BY <1>12 DEF Changes
  <2> QED
    BY <1>2, <2>1, SetField, Zenon
<1> HIDE DEF e2
<1>14. CASE HasUsefulNATContext(nat)
  <2>1. Changes(b, d3, {"chain", "devices", "hasnat", "nat", "double"})
    BY <1>4, <1>5, <1>9, <1>10, <1>11 DEF Changes
  <2>2. d3.nat = nat /\ d3.devices = v2 /\ d3.double = int
    BY <1>2, <1>5, <1>9, <1>10, <1>11 DEF Changes
  <2>3. FinalDouble(d3) <=> (d3.double \/ d3.nat.double)
    BY <1>7, <2>2 DEF FinalDouble, int
  <2>4. b.double => d3.double /\ d3.nat.internal /\ d3.nat.double
    BY <1>7, <2>2 DEF int
  <2>5. Reconcile(b) = d3
    BY <1>1, <1>14
  <2> QED
    BY <2>1, <2>2, <2>3, <2>4, <2>5, Zenon DEF v2
<1>15. CASE ~HasUsefulNATContext(nat)
  <2>1. Changes(b, e2, {"chain", "devices", "hasnat", "nat", "double"})
    BY <1>4, <1>5, <1>12, <1>13 DEF Changes
  <2>2. e2.nat = NoNAT /\ e2.devices = v2 /\ e2.hasnat = no
    BY <1>2, <1>5, <1>12, <1>13 DEF Changes
  <2>3. FinalDouble(e2) <=> (e2.double \/ e2.nat.double)
    <3>1. ~NoNAT.double
      BY DEF NoNAT
    <3> QED
      BY <1>3, <2>2, <3>1 DEF FinalDouble
  <2>4. ~b.double
    BY <1>7, <1>8, <1>15
  <2>5. Reconcile(b) = e2
    BY <1>1, <1>15
  <2> QED
    BY <2>1, <2>2, <2>3, <2>4, <2>5, Zenon DEF v2
<1> QED
  BY <1>14, <1>15

-----------------------------------------------------------------------------
\* What scoring reads, typed.
Scorable(b) ==
    /\ IsSlice(b.hints) /\ IsSlice(b.strong) /\ b.signals \in Seq(Signal)
    /\ b.sources \in Nat /\ b.dev \in Nat /\ b.phys \in Nat /\ b.line.conf \in Nat

\* The bag that is scored: f, from the results' bag g.
Scored(rs, g, f) ==
    LET state == ResolveGatewayChainState(rs, g.gateway, g.me)
    IN  /\ Scorable(f)
        /\ f.me = g.me /\ f.gateway = g.gateway /\ f.hops = state.chain /\ f.hopconf = state.conf
        /\ f.devices = MergeGatewayDevices(g.devices)
        /\ state.double => f.double /\ f.nat.internal /\ f.nat.double
        /\ FinalDouble(f) <=> (f.double \/ f.nat.double)

LEMMA FinalBag ==
    ASSUME NEW rs, ResultsOK(rs)
    PROVE  Scored(rs, Gathered(Successful(rs)), Reconcile(Aggregate(rs)))
<1> DEFINE g == Gathered(Successful(rs))
           state == ResolveGatewayChainState(rs, g.gateway, g.me)
           c == WithChainState(g, rs)
           n == WithNAT(c)
           l == WithLineProfile(n)
           f == Reconcile(l)
<1>1. Aggregate(rs) = l
  BY Zenon DEF Aggregate
<1>2. BagTyped(g)
  BY GatheredBag
<1> HIDE DEF g
<1>3. /\ Changes(g, c, {"chain", "double", "chainconflicts", "hops", "hopconf"})
      /\ c.hops = state.chain /\ c.hopconf = state.conf /\ (state.double => c.double)
  <2>1. Shaped(g)
    BY <1>2 DEF BagTyped
  <2> QED
    BY <2>1, ChainStateBag, Zenon
<1> HIDE DEF state, c
<1>4. Changes(c, n, {"hasnat", "nat"}) /\ NATShaped(n.nat)
  <2>1. Shaped(c) /\ c.nat = g.nat
    BY <1>3 DEF Changes, Fields
  <2>2. NATShaped(c.nat)
    BY <1>2, <2>1 DEF BagTyped
  <2> QED
    BY <2>1, <2>2, NATBag, Zenon
<1> HIDE DEF n
<1>5. Changes(n, l, {"line", "strong", "phys"}) /\ IsSlice(l.strong) /\ l.phys \in Nat /\ l.line.conf \in Nat
  <2>1. Changes(g, n, {"chain", "double", "chainconflicts", "hops", "hopconf", "hasnat", "nat"})
    BY <1>3, <1>4 DEF Changes
  <2>2. Shaped(n) /\ n.strong = g.strong /\ n.phys = g.phys
    BY <2>1 DEF Changes, Fields
  <2>3. IsSlice(n.strong) /\ n.phys \in Nat
    BY <1>2, <2>2 DEF BagTyped
  <2> QED
    BY <2>2, <2>3, ProfileBag, Zenon
<1> HIDE DEF l
<1>6. Shaped(l) /\ l.nat = n.nat /\ l.double = n.double /\ n.double = c.double
  BY <1>4, <1>5 DEF Changes, Fields
<1>7. /\ Changes(l, f, {"chain", "devices", "hasnat", "nat", "double"})
      /\ f.devices = MergeGatewayDevices(l.devices)
      /\ l.double => f.double /\ f.nat.internal /\ f.nat.double
      /\ FinalDouble(f) <=> (f.double \/ f.nat.double)
  <2>1. NATShaped(l.nat)
    BY <1>4, <1>6
  <2> QED
    BY <1>6, <2>1, ReconcileBag, Zenon
<1> HIDE DEF f
<1>8. Changes(g, l, {"chain", "double", "chainconflicts", "hops", "hopconf", "hasnat", "nat", "line", "strong", "phys"})
  BY <1>3, <1>4, <1>5 DEF Changes
<1>9. Changes(g, f, {"chain", "double", "chainconflicts", "hops", "hopconf", "hasnat", "nat", "line", "strong", "phys",
                     "devices"})
  BY <1>7, <1>8 DEF Changes
<1>10. /\ f.hints = g.hints /\ f.signals = g.signals /\ f.sources = g.sources /\ f.dev = g.dev
       /\ f.me = g.me /\ f.gateway = g.gateway /\ l.devices = g.devices
  <2> HIDE DEF Changes
  <2>1. {"hints", "signals", "sources", "dev", "me", "gateway"} \subseteq
          Fields \ {"chain", "double", "chainconflicts", "hops", "hopconf", "hasnat", "nat", "line", "strong", "phys",
                    "devices"}
    BY DEF Fields
  <2>2. "devices" \in Fields \ {"chain", "double", "chainconflicts", "hops", "hopconf", "hasnat", "nat", "line", "strong",
                                "phys"}
    BY DEF Fields
  <2> QED
    BY <1>8, <1>9, <2>1, <2>2, Zenon DEF Changes
<1>11. f.strong = l.strong /\ f.phys = l.phys /\ f.line = l.line
  BY <1>7 DEF Changes, Fields
<1>12. f.hops = c.hops /\ f.hopconf = c.hopconf
  <2>1. {"hops", "hopconf"} \subseteq Fields
    BY DEF Fields
  <2> QED
    BY <1>4, <1>5, <1>7, <2>1 DEF Changes
<1>13. Scorable(f)
  BY <1>2, <1>5, <1>10, <1>11 DEF Scorable, BagTyped
<1>14. /\ f.hops = state.chain /\ f.hopconf = state.conf /\ f.devices = MergeGatewayDevices(g.devices)
       /\ state.double => f.double /\ f.nat.internal /\ f.nat.double
  BY <1>3, <1>6, <1>7, <1>10, <1>12
<1>15. Scored(rs, g, f)
  BY <1>7, <1>10, <1>13, <1>14, Zenon DEF Scored, state
<1> QED
  BY <1>1, <1>15, Zenon DEF g, f

-----------------------------------------------------------------------------
(* Double NAT.                                                             *)

\* What a result that saw two private gateways, or brings a topology with two, says.
SawDouble(r, me) ==
    \/ Len(PrivateChain(Get(r.ev, "hops", <<>>) \o Get(r.ev, "gateway_chain", <<>>), {"", "*", me})) >= 2
    \/ "nat_topology" \in DOMAIN r.ev /\ (r.ev["nat_topology"].double \/ r.ev["nat_topology"].internal)

LEMMA NoChainOfNothing ==
    ASSUME NEW S
    PROVE  PrivateChain(<<>>, S) = <<>>
<1> DEFINE none == <<>>
           seen == Those(none, ToSet(none) \ S)
           public == {i \in DOMAIN seen : seen[i] \notin Private}
           chain == PrivateChain(none, S)
<1>1. IsSlice(none) /\ ToSet(none) = {}
  BY DEF IsSlice, ToSet
<1>2. IsSlice(seen) /\ ToSet(seen) = {}
  BY <1>1, ThoseSlice
<1>3. DOMAIN seen = {}
  BY <1>2 DEF ToSet
<1>4. public = {}
  BY <1>3
<1>5. chain = AppendAllUnique(<<>>, seen)
  BY <1>4, Zenon DEF PrivateChain
<1> HIDE DEF seen
<1>6. IsSlice(chain) /\ ToSet(chain) = {}
  <2>1. ToSet(AppendAllUnique(none, seen)) \subseteq ToSet(none) \cup ToSet(seen) /\ IsSlice(AppendAllUnique(none, seen))
    BY <1>1, <1>2, UniqueIn
  <2> QED
    BY <1>1, <1>2, <1>5, <2>1
<1> HIDE DEF chain
<1>7. chain = <<>>
  <2>1. DOMAIN chain = {}
    BY <1>6 DEF ToSet
  <2>2. Len(chain) = 0 /\ chain \in Seq({})
    BY <1>6, <2>1, SliceIs DEF IsSlice
  <2> QED
    BY <2>2
<1> QED
  BY <1>7 DEF chain

LEMMA ChainSourceIs ==
    ASSUME NEW source, NEW hops, NEW me, NEW conf
    PROVE  /\ IsSlice(ChainSource(source, hops, me, conf))
           /\ Len(PrivateChain(hops, {"", "*", me})) >= 2 => \E s \in ToSet(ChainSource(source, hops, me, conf)) : s.double
<1> DEFINE chain == PrivateChain(hops, {"", "*", me})
           x == [source |-> source, chain |-> chain, double |-> Len(chain) >= 2, conf |-> conf]
<1>1. ChainSource(source, hops, me, conf) = IF chain = <<>> THEN <<>> ELSE <<x>>
  BY Zenon DEF ChainSource
<1>2. x.double = (Len(chain) >= 2)
  BY Zenon
<1> HIDE DEF chain, x
<1>3. IsSlice(<<>>) /\ IsSlice(<<x>>) /\ x \in ToSet(<<x>>)
  BY TuplesAreSlices DEF ToSet
<1>4. Len(chain) >= 2 => chain # <<>>
  OBVIOUS
<1>5. /\ IsSlice(ChainSource(source, hops, me, conf))
      /\ Len(chain) >= 2 => \E s \in ToSet(ChainSource(source, hops, me, conf)) : s.double
  BY <1>1, <1>2, <1>3, <1>4
<1> QED
  BY <1>5, Zenon DEF chain

LEMMA SourceSlice ==
    ASSUME NEW r, NEW gw, NEW me
    PROVE  IsSlice(SourceOf(r, gw, me))
<1>1. \A source, hops, conf : IsSlice(ChainSource(source, hops, me, conf))
  BY ChainSourceIs
<1> QED
  BY <1>1, TuplesAreSlices DEF SourceOf

LEMMA DoubleSource ==
    ASSUME NEW r, Reported(r.name, r), NEW gw, NEW me, SawDouble(r, me)
    PROVE  \E s \in ToSet(SourceOf(r, gw, me)) : s.double
<1> DEFINE hops == Get(r.ev, "hops", <<>>)
           chain == Get(r.ev, "gateway_chain", <<>>)
<1>1. hops \in Seq(STRING) /\ chain \in Seq(STRING)
  BY EvidenceTypes
<1>2. CASE "nat_topology" \in DOMAIN r.ev /\ (r.ev["nat_topology"].double \/ r.ev["nat_topology"].internal)
  <2> DEFINE x == [source |-> r.name, chain |-> <<>>,
                   double |-> r.ev["nat_topology"].internal \/ r.ev["nat_topology"].double,
                   conf |-> MaxOf(r.conf, Get(r.ev, "network_confidence", 0))]
  <2>1. r.name = "stun_pcp_nat_probe"
    BY <1>2, EvidenceOf
  <2>2. SourceOf(r, gw, me) = <<x>>
    BY <1>2, <2>1 DEF SourceOf
  <2>3. x.double
    BY <1>2, Zenon
  <2> HIDE DEF x
  <2>4. x \in ToSet(<<x>>)
    BY DEF ToSet
  <2> QED
    BY <2>2, <2>3, <2>4
<1>3. CASE Len(PrivateChain(hops \o chain, {"", "*", me})) >= 2
  <2>1. CASE "hops" \in DOMAIN r.ev
    <3>1. r.name = "traceroute_probe" /\ "gateway_chain" \notin DOMAIN r.ev
      BY <2>1, EvidenceOf
    <3>2. chain = <<>>
      BY <3>1 DEF Get
    <3>3. hops \o chain = hops
      <4> HIDE DEF hops, chain
      <4> QED
        BY <1>1, <3>2
    <3>4. SourceOf(r, gw, me) = ChainSource(r.name, hops, me, MaxOf(r.conf, 65))
      BY <3>1 DEF SourceOf
    <3> HIDE DEF hops, chain
    <3> QED
      BY <1>3, <3>3, <3>4, ChainSourceIs
  <2>2. CASE "hops" \notin DOMAIN r.ev /\ "gateway_chain" \in DOMAIN r.ev
    <3>1. r.name \in {"gateway_chain_probe", "upstream_private_cpe_probe"}
      BY <2>2, EvidenceOf
    <3>2. hops = <<>>
      BY <2>2 DEF Get
    <3>3. hops \o chain = chain
      <4> HIDE DEF hops, chain
      <4> QED
        BY <1>1, <3>2
    <3>4. SourceOf(r, gw, me) = ChainSource(r.name, chain, me, MaxOf(r.conf, 45))
      BY <3>1 DEF SourceOf
    <3> HIDE DEF hops, chain
    <3> QED
      BY <1>3, <3>3, <3>4, ChainSourceIs
  <2>3. CASE "hops" \notin DOMAIN r.ev /\ "gateway_chain" \notin DOMAIN r.ev
    <3>1. hops = <<>> /\ chain = <<>>
      BY <2>3 DEF Get
    <3> HIDE DEF hops, chain
    <3>2. hops \o chain = <<>>
      BY <3>1
    <3>3. PrivateChain(hops \o chain, {"", "*", me}) = <<>>
      BY <3>2, NoChainOfNothing
    <3>4. ~(Len(<<>>) >= 2)
      OBVIOUS
    <3>5. ~(Len(PrivateChain(hops \o chain, {"", "*", me})) >= 2)
      BY <3>3, <3>4, Zenon
    <3> QED
      BY <1>3, <3>5, Zenon
  <2> QED
    BY <2>1, <2>2, <2>3
<1> QED
  BY <1>2, <1>3 DEF SawDouble

LEMMA StateDouble ==
    ASSUME NEW rs, ResultsOK(rs), NEW gw, NEW me, NEW r \in ToSet(Successful(rs)), SawDouble(r, me)
    PROVE  ResolveGatewayChainState(rs, gw, me).double
<1> DEFINE ok == Successful(rs)
           route == IF gw \in Private THEN ChainSource("route_table", <<gw>>, me, 40) ELSE <<>>
           parts == [i \in DOMAIN ok |-> SourceOf(ok[i], gw, me)]
           sources == route \o Flattened(parts)
<1>1. ResolveGatewayChainState(rs, gw, me).double = \E s \in ToSet(sources) : s.double
  BY Zenon DEF ResolveGatewayChainState, ChainState, ChainSources
<1>2. IsSlice(ok) /\ Reported(r.name, r)
  BY SuccessfulIn
<1>3. PICK i \in DOMAIN ok : ok[i] = r
  BY DEF ToSet
<1>4. PICK s \in ToSet(SourceOf(r, gw, me)) : s.double
  BY <1>2, DoubleSource
<1>5. IsSlice(route)
  BY ChainSourceIs, TuplesAreSlices
<1> HIDE DEF ok
<1>6. IsSlice(parts) /\ DOMAIN parts = DOMAIN ok
  <2>1. Len(ok) \in Nat /\ DOMAIN ok = 1..Len(ok)
    BY <1>2, SliceIs
  <2>2. parts \in Seq({SourceOf(ok[j], gw, me) : j \in DOMAIN ok})
    BY <2>1
  <2> QED
    BY <2>2, SliceOf
<1>7. \A j \in DOMAIN parts : IsSlice(parts[j])
  BY <1>6, SourceSlice
<1>8. s \in ToSet(parts[i])
  BY <1>3, <1>4
<1> HIDE DEF route, parts
<1>9. IsSlice(Flattened(parts)) /\ s \in ToSet(Flattened(parts))
  BY <1>3, <1>6, <1>7, <1>8, FlattenedIn
<1>10. s \in ToSet(sources)
  BY <1>5, <1>9, JoinIn
<1> HIDE DEF sources
<1> QED
  BY <1>1, <1>4, <1>10, Zenon

LEMMA DoubleInv == StageInv => DoubleNATNeverLost
<1> SUFFICES ASSUME StageInv, stage = "merged", NEW r \in ToSet(Successful(results)), SawDouble(r, bag.me)
             PROVE  bag.double /\ bag.nat.internal /\ bag.nat.double
  BY DEF DoubleNATNeverLost, Merged, SawDouble
<1> DEFINE g == Gathered(Successful(results))
<1>1. ResultsOK(results) /\ bag = Reconcile(Aggregate(results))
  BY DEF StageInv
<1>2. Scored(results, g, bag)
  BY <1>1, FinalBag
<1> HIDE DEF g
<1>3. bag.me = g.me
  BY <1>2, Zenon DEF Scored
<1>4. ResolveGatewayChainState(results, g.gateway, g.me).double
  BY <1>1, <1>3, StateDouble
<1> QED
  BY <1>2, <1>4, Zenon DEF Scored

\* A source that saw two private gateways is never overruled, whatever the other probes
\* report and in whatever order they are registered.
THEOREM DoubleNATKept == Spec => []DoubleNATNeverLost
  BY StageInvHolds, DoubleInv, PTL

-----------------------------------------------------------------------------
(* The audit list.                                                         *)

\* What the contributions of p add to the key t, one by one.
On(p, t) == [i \in DOMAIN p |-> IF p[i].target = t THEN p[i].amount ELSE 0]

\* The contributions of p add n to the key t.
Accounts(p, t, n) ==
    IsSlice(p) /\ (\A i \in DOMAIN p : p[i].amount \in Int) /\ SumOf(On(p, t)) = n /\ n \in Int

LEMMA OnTyped ==
    ASSUME NEW p, IsSlice(p), \A i \in DOMAIN p : p[i].amount \in Int, NEW t
    PROVE  On(p, t) \in Seq(Int) /\ Len(On(p, t)) = Len(p) /\ DOMAIN On(p, t) = 1..Len(p)
  BY SliceIs DEF On

LEMMA AccountsNothing ==
    ASSUME NEW t
    PROVE  Accounts(<<>>, t, 0)
<1> DEFINE none == <<>>
           q == On(none, t)
<1>1. IsSlice(none) /\ Len(none) = 0 /\ DOMAIN none = {}
  BY DEF IsSlice
<1>2. q \in Seq(Int) /\ DOMAIN q = 1..Len(none)
  BY <1>1, OnTyped
<1> HIDE DEF none, q
<1>3. DOMAIN q = {}
  BY <1>1, <1>2
<1>4. SumOf(q) = 0
  BY <1>2, <1>3, SumSingle
<1>5. Accounts(none, t, 0)
  BY <1>1, <1>4 DEF Accounts, q
<1> QED
  BY <1>5 DEF none

LEMMA AccountsJoin ==
    ASSUME NEW t, NEW p, NEW m, Accounts(p, t, m), NEW q, NEW n, Accounts(q, t, n)
    PROVE  Accounts(p \o q, t, m + n)
<1> DEFINE s == p \o q
<1>1. IsSlice(p) /\ IsSlice(q) /\ SumOf(On(p, t)) = m /\ SumOf(On(q, t)) = n /\ m \in Int /\ n \in Int
  BY DEF Accounts
<1>2. On(p, t) \in Seq(Int) /\ On(q, t) \in Seq(Int)
  BY OnTyped DEF Accounts
<1>3. Len(p) \in Nat /\ Len(q) \in Nat /\ DOMAIN p = 1..Len(p) /\ DOMAIN q = 1..Len(q)
  BY <1>1, SliceIs
<1>4. /\ DOMAIN s = 1..Len(p) + Len(q) /\ Len(s) = Len(p) + Len(q)
      /\ \A i \in 1..Len(p) + Len(q) : s[i] = IF i <= Len(p) THEN p[i] ELSE q[i - Len(p)]
  <2>1. p \in Seq(ToSet(p) \cup ToSet(q)) /\ q \in Seq(ToSet(p) \cup ToSet(q))
    BY <1>1, SliceIs DEF ToSet
  <2> QED
    BY <2>1
<1>5. IsSlice(s)
  BY <1>1, JoinIn
<1> HIDE DEF s
<1>6. \A i \in DOMAIN s : s[i].amount \in Int
  <2> SUFFICES ASSUME NEW i \in 1..Len(p) + Len(q) PROVE s[i].amount \in Int
    BY <1>4
  <2>1. CASE i <= Len(p)
    BY <1>3, <1>4, <2>1 DEF Accounts
  <2>2. CASE ~(i <= Len(p))
    <3>1. i - Len(p) \in 1..Len(q) /\ s[i] = q[i - Len(p)]
      BY <1>3, <1>4, <2>2
    <3> QED
      BY <1>3, <3>1 DEF Accounts
  <2> QED
    BY <2>1, <2>2
<1>7. On(s, t) = On(p, t) \o On(q, t)
  <2>1. On(s, t) \in Seq(Int) /\ Len(On(s, t)) = Len(p) + Len(q)
    BY <1>4, <1>5, <1>6, OnTyped
  <2>2. Len(On(p, t)) = Len(p) /\ Len(On(q, t)) = Len(q)
    BY OnTyped DEF Accounts
  <2>3. \A i \in 1..Len(p) + Len(q) :
          On(s, t)[i] = IF i <= Len(p) THEN On(p, t)[i] ELSE On(q, t)[i - Len(p)]
    <3> SUFFICES ASSUME NEW i \in 1..Len(p) + Len(q)
                 PROVE  On(s, t)[i] = IF i <= Len(p) THEN On(p, t)[i] ELSE On(q, t)[i - Len(p)]
      OBVIOUS
    <3>1. CASE i <= Len(p)
      BY <1>3, <1>4, <3>1 DEF On
    <3>2. CASE ~(i <= Len(p))
      <4>1. i - Len(p) \in 1..Len(q) /\ s[i] = q[i - Len(p)]
        BY <1>3, <1>4, <3>2
      <4> QED
        BY <1>3, <1>4, <3>2, <4>1 DEF On
    <3> QED
      BY <3>1, <3>2
  <2> DEFINE a == On(s, t)
             b == On(p, t)
             c == On(q, t)
  <2> HIDE DEF a, b, c
  <2>4. a \in Seq(Int) /\ b \in Seq(Int) /\ c \in Seq(Int) /\ Len(a) = Len(b) + Len(c)
    BY <1>2, <2>1, <2>2 DEF a, b, c
  <2>5. \A i \in 1..Len(b) + Len(c) : a[i] = IF i <= Len(b) THEN b[i] ELSE c[i - Len(b)]
    BY <2>2, <2>3 DEF a, b, c
  <2>6. a = b \o c
    <3> DEFINE d == b \o c
    <3>1. d \in Seq(Int) /\ Len(d) = Len(b) + Len(c) /\ Len(b) \in Nat /\ Len(c) \in Nat
      BY <2>4
    <3>2. \A i \in 1..Len(b) + Len(c) : d[i] = IF i <= Len(b) THEN b[i] ELSE c[i - Len(b)]
      BY <2>4
    <3> HIDE DEF d
    <3>3. a = [i \in 1..Len(b) + Len(c) |-> a[i]] /\ d = [i \in 1..Len(b) + Len(c) |-> d[i]]
      BY <2>4, <3>1
    <3>4. \A i \in 1..Len(b) + Len(c) : a[i] = d[i]
      BY <2>5, <3>2
    <3>5. a = d
      BY <3>3, <3>4
    <3> QED
      BY <3>5 DEF d
  <2> QED
    BY <2>6 DEF a, b, c
<1>8. SumOf(On(s, t)) = m + n
  BY <1>1, <1>2, <1>7, SumJoin
<1> QED
  BY <1>1, <1>5, <1>6, <1>8 DEF Accounts, s

LEMMA AccountsEach ==
    ASSUME NEW t, NEW hs, IsSlice(hs), NEW n \in Int, NEW class
    PROVE  Accounts(EachHint(hs, n, class), t, n * Occurrences(hs, t))
<1> DEFINE p == EachHint(hs, n, class)
           q == [i \in DOMAIN hs |-> IF hs[i] = t THEN n ELSE 0]
<1>1. DOMAIN p = DOMAIN hs /\ \A i \in DOMAIN hs : p[i].target = hs[i] /\ p[i].amount = n
  BY DEF EachHint, Contribution
<1>2. Len(hs) \in Nat /\ DOMAIN hs = 1..Len(hs)
  BY SliceIs
<1>3. IsSlice(p)
  <2>1. p = [i \in 1..Len(hs) |-> Contribution(hs[i], n, class)]
    BY <1>2 DEF EachHint
  <2>2. p \in Seq({Contribution(hs[i], n, class) : i \in 1..Len(hs)})
    BY <1>2, <2>1
  <2> QED
    BY <2>2, SliceOf
<1> HIDE DEF p
<1>4. On(p, t) = q
  BY <1>1 DEF On
<1>5. SumOf(q) = n * Occurrences(hs, t)
  BY SumEach
<1>6. n * Occurrences(hs, t) \in Int
  BY OccurrencesNat
<1> HIDE DEF q
<1>7. Accounts(p, t, n * Occurrences(hs, t))
  BY <1>1, <1>3, <1>4, <1>5, <1>6 DEF Accounts
<1> QED
  BY <1>7 DEF p

LEMMA KeysAre == IsSlice(Keys) /\ Distinct(Keys) /\ Unknown \notin ToSet(Keys) /\ IsFiniteSet(ToSet(Keys))
<1>1. Keys \in Seq(STRING \ {Unknown})
  BY KeysAssumption
<1>2. ToSet(Keys) \subseteq STRING \ {Unknown} /\ IsFiniteSet(ToSet(Keys))
  BY <1>1, FiniteRange
<1> QED
  BY <1>1, <1>2, KeysAssumption, SliceOf DEF Distinct

LEMMA AccountsRule ==
    ASSUME NEW r \in ToSet(Rules), NEW t \in ToSet(Keys)
    PROVE  Accounts(RuleContributions(r), t, Get(r.add, t, 0))
<1> DEFINE ts == Those(Keys, DOMAIN r.add)
           p == RuleContributions(r)
           q == On(p, t)
<1>0. \A u \in DOMAIN r.add : r.add[u] \in Int
  BY RulesAssumption DEF ToSet
<1>1. IsSlice(ts) /\ ToSet(ts) = ToSet(Keys) \cap DOMAIN r.add /\ Distinct(ts)
  BY KeysAre, ThoseSlice, ThoseDistinct
<1>2. p = [i \in DOMAIN ts |-> Contribution(ts[i], r.add[ts[i]], r.class)]
  BY Zenon DEF RuleContributions
<1> HIDE DEF ts, p
<1>3. Len(ts) \in Nat /\ DOMAIN ts = 1..Len(ts) /\ \A i \in DOMAIN ts : ts[i] \in DOMAIN r.add
  BY <1>1, SliceIs DEF ToSet
<1>4. DOMAIN p = DOMAIN ts /\ \A i \in DOMAIN ts : p[i].target = ts[i] /\ p[i].amount = r.add[ts[i]]
  BY <1>2 DEF Contribution
<1>5. IsSlice(p)
  <2>1. p \in Seq({Contribution(ts[i], r.add[ts[i]], r.class) : i \in 1..Len(ts)})
    BY <1>2, <1>3
  <2> QED
    BY <2>1, SliceOf
<1>6. \A i \in DOMAIN p : p[i].amount \in Int
  BY <1>0, <1>3, <1>4
<1>7. q \in Seq(Int)
  BY <1>5, <1>6, OnTyped
<1>8. DOMAIN q = DOMAIN ts /\ \A i \in DOMAIN ts : q[i] = IF ts[i] = t THEN r.add[t] ELSE 0
  BY <1>4 DEF On
<1> HIDE DEF q
<1>9. SumOf(q) = Get(r.add, t, 0)
  <2>1. CASE t \in DOMAIN r.add
    <3>1. PICK j \in DOMAIN ts : ts[j] = t
      BY <1>1, <2>1 DEF ToSet
    <3>2. \A i \in DOMAIN q : i # j => q[i] = 0
      BY <1>1, <1>8, <3>1 DEF Distinct
    <3>3. j \in Nat
      BY <1>3
    <3>4. SumOf(q) = q[j]
      BY <1>7, <1>8, <3>2, <3>3, SumSingle
    <3> QED
      BY <1>8, <2>1, <3>1, <3>4 DEF Get
  <2>2. CASE t \notin DOMAIN r.add
    <3>1. \A i \in DOMAIN q : q[i] = 0
      BY <1>3, <1>8, <2>2
    <3>2. 0 \notin DOMAIN q
      BY <1>3, <1>8
    <3>3. SumOf(q) = 0
      BY <1>7, <3>1, <3>2, SumSingle
    <3> QED
      BY <2>2, <3>3 DEF Get
  <2> QED
    BY <2>1, <2>2
<1>10. Get(r.add, t, 0) \in Int
  BY <1>0 DEF Get
<1>11. Accounts(p, t, Get(r.add, t, 0))
  BY <1>5, <1>6, <1>9, <1>10 DEF Accounts, q
<1> QED
  BY <1>11 DEF p

LEMMA AccountsAll ==
    ASSUME NEW t, NEW parts, IsSlice(parts), NEW ns \in Seq(Int), Len(ns) = Len(parts),
           \A i \in DOMAIN parts : Accounts(parts[i], t, ns[i])
    PROVE  Accounts(Flattened(parts), t, SumOf(ns))
<1>0. Len(parts) \in Nat /\ DOMAIN parts = 1..Len(parts)
  BY SliceIs
<1>1. PICK acc : /\ acc[0] = <<>> /\ Flattened(parts) = acc[Len(parts)]
                 /\ \A k \in 1..Len(parts) : acc[k] = acc[k - 1] \o parts[k]
  BY JoinRun
<1>2. PICK sum : Totals(sum, ns)
  BY TotalsExist
<1>3. sum[0] = 0 /\ SumOf(ns) = sum[Len(parts)] /\ \A k \in 1..Len(parts) : sum[k] = sum[k - 1] + ns[k]
  BY <1>2 DEF Totals
<1> DEFINE G == {k \in Nat : Accounts(acc[k], t, sum[k])}
<1>4. 0 \in G
  BY <1>1, <1>3, AccountsNothing
<1>5. ASSUME NEW k \in 0..Len(parts) - 1, k \in G PROVE k + 1 \in G
  <2>1. k + 1 \in 1..Len(parts) /\ (k + 1) - 1 = k /\ k + 1 \in Nat
    BY <1>0
  <2>2. acc[k + 1] = acc[k] \o parts[k + 1] /\ sum[k + 1] = sum[k] + ns[k + 1]
    BY <1>1, <1>3, <2>1
  <2>3. Accounts(acc[k], t, sum[k]) /\ Accounts(parts[k + 1], t, ns[k + 1])
    BY <1>0, <1>5, <2>1
  <2>4. Accounts(acc[k + 1], t, sum[k + 1])
    BY <2>2, <2>3, AccountsJoin
  <2> QED
    BY <2>1, <2>4
<1>6. Len(parts) \in G
  <2>1. G \in SUBSET Nat
    OBVIOUS
  <2> HIDE DEF G
  <2>2. \A k \in 0..Len(parts) : k \in G
    BY <1>0, <1>4, <1>5, <2>1, UpTo
  <2> QED
    BY <1>0, <2>2
<1> QED
  BY <1>1, <1>3, <1>6

Share(u, n, t) == IF u = t THEN n ELSE 0

LEMMA AccountsOne ==
    ASSUME NEW t, NEW u, NEW n \in Int, NEW class
    PROVE  Accounts(<<Contribution(u, n, class)>>, t, Share(u, n, t))
<1> DEFINE c == Contribution(u, n, class)
           p == <<c>>
           q == On(p, t)
<1>1. c.target = u /\ c.amount = n
  BY DEF Contribution
<1> HIDE DEF c
<1>2. IsSlice(p) /\ Len(p) = 1 /\ DOMAIN p = {1} /\ p[1] = c
  BY TuplesAreSlices
<1> HIDE DEF p
<1>3. \A i \in DOMAIN p : p[i].amount \in Int
  BY <1>1, <1>2
<1>4. q \in Seq(Int) /\ DOMAIN q = {1} /\ q[1] = Share(u, n, t)
  BY <1>1, <1>2, <1>3, OnTyped DEF On, Share
<1> HIDE DEF q
<1>5. SumOf(q) = Share(u, n, t)
  BY <1>4, SumSingle
<1>6. Accounts(p, t, Share(u, n, t))
  BY <1>2, <1>3, <1>5 DEF Accounts, q, Share
<1> QED
  BY <1>6 DEF p, c

\* The points the board gives for latency.
LatencyPoints(b, t) == IF t \in DOMAIN LatencySignal(b) THEN LatencySignal(b)[t] ELSE 0

LEMMA AccountsLatency ==
    ASSUME NEW b, NEW t
    PROVE  Accounts(LatencyContributions(b), t, LatencyPoints(b, t))
<1> DEFINE c(u, n) == Contribution(u, n, "performance")
           p == LatencyContributions(b)
           ms == b.avg
<1>0. \A x, y : <<x, y>> = <<x>> \o <<y>>
  <2> TAKE x, y
  <2> DEFINE d == <<x>> \o <<y>>
  <2>1. <<x>> \in Seq({x, y}) /\ <<y>> \in Seq({x, y})
    OBVIOUS
  <2>2. d \in Seq({x, y}) /\ Len(d) = 2 /\ d[1] = x /\ d[2] = y
    BY <2>1
  <2> HIDE DEF d
  <2>3. d = <<x, y>>
    BY <2>2
  <2> QED
    BY <2>3 DEF d
<1>00. \A x, y, u, v : <<x, y, u, v>> = <<x, y>> \o <<u, v>>
  OBVIOUS
<1>1. \A u, n : n \in Int => Accounts(<<c(u, n)>>, t, Share(u, n, t))
  BY AccountsOne
<1>2. \A u, v, n, m : n \in Int /\ m \in Int => Accounts(<<c(u, n), c(v, m)>>, t, Share(u, n, t) + Share(v, m, t))
  <2> SUFFICES ASSUME NEW u, NEW v, NEW n \in Int, NEW m \in Int
               PROVE  Accounts(<<c(u, n), c(v, m)>>, t, Share(u, n, t) + Share(v, m, t))
    OBVIOUS
  <2> HIDE DEF c
  <2>1. Accounts(<<c(u, n)>> \o <<c(v, m)>>, t, Share(u, n, t) + Share(v, m, t))
    BY <1>1, AccountsJoin
  <2>2. <<c(u, n), c(v, m)>> = <<c(u, n)>> \o <<c(v, m)>>
    BY <1>0
  <2> QED
    BY <2>1, <2>2
<1>3. CASE ~HasLatency(b)
  <2>1. p = <<>> /\ LatencySignal(b) = <<>>
    BY <1>3 DEF LatencyContributions, LatencySignal
  <2>2. LatencyPoints(b, t) = 0
    BY <2>1 DEF LatencyPoints
  <2> QED
    BY <2>1, <2>2, AccountsNothing
<1>4. CASE HasLatency(b) /\ ms <= 8
  <2>1. p = <<c("Fiber", 4), c("VDSL", 3)>> /\ LatencySignal(b) = [Fiber |-> 4, VDSL |-> 3]
    BY <1>4, Zenon DEF LatencyContributions, LatencySignal
  <2>2. LatencyPoints(b, t) = Share("Fiber", 4, t) + Share("VDSL", 3, t)
    BY <2>1 DEF LatencyPoints, Share
  <2>3. 4 \in Int /\ 3 \in Int
    OBVIOUS
  <2> HIDE DEF c
  <2> QED
    BY <1>2, <2>1, <2>2, <2>3, Zenon
<1>5. CASE HasLatency(b) /\ ~(ms <= 8) /\ ms <= 25
  <2>1. /\ p = <<c("DSL", 2), c("VDSL", 2), c("Fiber", 2), c("Cable", 2)>>
        /\ LatencySignal(b) = [u \in {"DSL", "VDSL", "Fiber", "Cable"} |-> 2]
    BY <1>5, Zenon DEF LatencyContributions, LatencySignal
  <2>2. LatencyPoints(b, t) = (Share("DSL", 2, t) + Share("VDSL", 2, t)) + (Share("Fiber", 2, t) + Share("Cable", 2, t))
    BY <2>1 DEF LatencyPoints, Share
  <2>3. 2 \in Int
    OBVIOUS
  <2> HIDE DEF c
  <2>4. /\ Accounts(<<c("DSL", 2), c("VDSL", 2)>>, t, Share("DSL", 2, t) + Share("VDSL", 2, t))
        /\ Accounts(<<c("Fiber", 2), c("Cable", 2)>>, t, Share("Fiber", 2, t) + Share("Cable", 2, t))
    BY <1>2, <2>3, Zenon
  <2>5. Accounts(<<c("DSL", 2), c("VDSL", 2)>> \o <<c("Fiber", 2), c("Cable", 2)>>, t, LatencyPoints(b, t))
    BY <2>2, <2>4, AccountsJoin
  <2>6. p = <<c("DSL", 2), c("VDSL", 2)>> \o <<c("Fiber", 2), c("Cable", 2)>>
    <3> DEFINE c1 == c("DSL", 2)
               c2 == c("VDSL", 2)
               c3 == c("Fiber", 2)
               c4 == c("Cable", 2)
    <3>1. p = <<c1, c2, c3, c4>>
      BY <2>1
    <3> HIDE DEF c1, c2, c3, c4, p
    <3>2. p = <<c1, c2>> \o <<c3, c4>>
      BY <1>00, <3>1
    <3> QED
      BY <3>2 DEF c1, c2, c3, c4
  <2> HIDE DEF p
  <2>7. Accounts(p, t, LatencyPoints(b, t))
    BY <2>5, <2>6
  <2> QED
    BY <2>7 DEF p
<1>6. CASE HasLatency(b) /\ ~(ms <= 8) /\ ~(ms <= 25) /\ ms <= 80
  <2>1. p = <<c("DSL", 2), c("FWA", 2)>> /\ LatencySignal(b) = [u \in {"DSL", "FWA"} |-> 2]
    BY <1>6, Zenon DEF LatencyContributions, LatencySignal
  <2>2. LatencyPoints(b, t) = Share("DSL", 2, t) + Share("FWA", 2, t)
    BY <2>1 DEF LatencyPoints, Share
  <2>3. 2 \in Int
    OBVIOUS
  <2> HIDE DEF c
  <2> QED
    BY <1>2, <2>1, <2>2, <2>3, Zenon
<1>7. CASE HasLatency(b) /\ ~(ms <= 8) /\ ~(ms <= 25) /\ ~(ms <= 80) /\ ms <= 200
  <2>1. p = <<c("Mobile", 4), c("FWA", 4)>> /\ LatencySignal(b) = [u \in {"Mobile", "FWA"} |-> 4]
    BY <1>7, Zenon DEF LatencyContributions, LatencySignal
  <2>2. LatencyPoints(b, t) = Share("Mobile", 4, t) + Share("FWA", 4, t)
    BY <2>1 DEF LatencyPoints, Share
  <2>3. 4 \in Int
    OBVIOUS
  <2> HIDE DEF c
  <2> QED
    BY <1>2, <2>1, <2>2, <2>3, Zenon
<1>8. CASE HasLatency(b) /\ ~(ms <= 8) /\ ~(ms <= 25) /\ ~(ms <= 80) /\ ~(ms <= 200) /\ ms >= 500
  <2>1. p = <<c("Satellite", 15)>> /\ LatencySignal(b) = [Satellite |-> 15]
    BY <1>8, Zenon DEF LatencyContributions, LatencySignal
  <2>2. LatencyPoints(b, t) = Share("Satellite", 15, t)
    BY <2>1 DEF LatencyPoints, Share
  <2>3. 15 \in Int
    OBVIOUS
  <2> HIDE DEF c
  <2> QED
    BY <1>1, <2>1, <2>2, <2>3, Zenon
<1>9. CASE HasLatency(b) /\ ~(ms <= 8) /\ ~(ms <= 25) /\ ~(ms <= 80) /\ ~(ms <= 200) /\ ~(ms >= 500)
  <2>1. p = <<>> /\ LatencySignal(b) = <<>>
    BY <1>9, Zenon DEF LatencyContributions, LatencySignal
  <2>2. LatencyPoints(b, t) = 0
    BY <2>1 DEF LatencyPoints
  <2> QED
    BY <2>1, <2>2, AccountsNothing
<1> QED
  BY <1>3, <1>4, <1>5, <1>6, <1>7, <1>8, <1>9

LEMMA FingerprintTypes ==
    ASSUME NEW b, MatchFingerprint(b) # <<>>
    PROVE  IsSlice(MatchFingerprint(b)[1].hints) /\ IsSlice(MatchFingerprint(b)[1].supports)
<1> DEFINE hits == {i \in DOMAIN Fingerprints : Fingerprints[i].match \cap MatchText(b) # {}}
<1>0. /\ Fingerprints \in Seq([match : SUBSET STRING, hints : Seq(STRING), supports : Seq(STRING)])
      /\ DOMAIN Fingerprints = 1..Len(Fingerprints) /\ Len(Fingerprints) \in Nat
  BY FingerprintsAssumption
<1>1. hits # {} /\ MatchFingerprint(b) = <<Fingerprints[Min(hits)]>>
  BY Zenon DEF MatchFingerprint
<1>2. hits \in SUBSET Nat /\ hits \subseteq DOMAIN Fingerprints
  BY <1>0
<1> HIDE DEF hits
<1>3. Min(hits) \in DOMAIN Fingerprints
  BY <1>1, <1>2, MinIn
<1> DEFINE f == Fingerprints[Min(hits)]
<1>4. f.hints \in Seq(STRING) /\ f.supports \in Seq(STRING)
  <2> DEFINE R == [match : SUBSET STRING, hints : Seq(STRING), supports : Seq(STRING)]
  <2>1. Fingerprints \in Seq(R)
    BY <1>0
  <2> HIDE DEF R
  <2>2. f \in R
    BY <1>3, <2>1
  <2> HIDE DEF f
  <2> QED
    BY <2>2, Zenon DEF R
<1> HIDE DEF f
<1>5. IsSlice(f.hints) /\ IsSlice(f.supports) /\ <<f>>[1] = f
  BY <1>4, SliceOf
<1> QED
  BY <1>1, <1>5, Zenon DEF f

\* The three parts of the board that are not counted hint by hint.
FingerprintPoints(b, t) ==
    IF MatchFingerprint(b) = <<>> THEN 0
    ELSE 40 * Occurrences(MatchFingerprint(b)[1].hints, t) + 15 * Occurrences(MatchFingerprint(b)[1].supports, t)

RulePoints(b, t) == SumOf([i \in DOMAIN Fired(b) |-> Get(Fired(b)[i].add, t, 0)])

LEMMA BoardIs ==
    ASSUME NEW b, NEW t \in ToSet(Keys)
    PROVE  RawScores(b)[t] = FingerprintPoints(b, t) + 25 * Occurrences(b.hints, t) + 45 * Occurrences(b.strong, t)
                             + LatencyPoints(b, t) + RulePoints(b, t)
  BY Zenon DEF RawScores, FingerprintPoints, RulePoints, LatencyPoints

LEMMA AccountsFired ==
    ASSUME NEW b, NEW t \in ToSet(Keys)
    PROVE  Accounts(Flattened([i \in DOMAIN Fired(b) |-> RuleContributions(Fired(b)[i])]), t, RulePoints(b, t))
<1> DEFINE fired == Fired(b)
           parts == [i \in DOMAIN fired |-> RuleContributions(fired[i])]
           ns == [i \in DOMAIN fired |-> Get(fired[i].add, t, 0)]
<1>1. IsSlice(fired) /\ ToSet(fired) \subseteq ToSet(Rules)
  <2>1. IsSlice(Rules)
    BY RulesAssumption DEF IsSlice
  <2> QED
    BY <2>1, ThoseSlice DEF Fired
<1>2. RulePoints(b, t) = SumOf(ns)
  BY DEF RulePoints
<1> HIDE DEF fired
<1>3. Len(fired) \in Nat /\ DOMAIN fired = 1..Len(fired) /\ \A i \in DOMAIN fired : fired[i] \in ToSet(Rules)
  BY <1>1, SliceIs DEF ToSet
<1>4. \A i \in DOMAIN fired : Accounts(RuleContributions(fired[i]), t, Get(fired[i].add, t, 0))
  BY <1>3, AccountsRule
<1>5. \A i \in DOMAIN fired : Get(fired[i].add, t, 0) \in Int
  BY <1>4 DEF Accounts
<1>6. ns \in Seq(Int) /\ Len(ns) = Len(fired)
  BY <1>3, <1>5
<1>7. IsSlice(parts) /\ Len(parts) = Len(fired) /\ DOMAIN parts = DOMAIN fired
  <2>1. parts \in Seq({RuleContributions(fired[i]) : i \in 1..Len(fired)}) /\ Len(parts) = Len(fired)
    BY <1>3
  <2> QED
    BY <2>1, SliceOf
<1>8. \A i \in DOMAIN parts : Accounts(parts[i], t, ns[i])
  BY <1>4, <1>7
<1> HIDE DEF parts, ns
<1>9. Accounts(Flattened(parts), t, SumOf(ns))
  BY <1>6, <1>7, <1>8, AccountsAll
<1>10. Accounts(Flattened(parts), t, RulePoints(b, t))
  BY <1>2, <1>9
<1> QED
  BY <1>10, Zenon DEF parts, fired

LEMMA AccountsBoard ==
    ASSUME NEW b, Scorable(b), NEW t \in ToSet(Keys)
    PROVE  Accounts(BuildContributions(b), t, RawScores(b)[t])
<1> DEFINE fp == MatchFingerprint(b)
           device == IF fp = <<>> THEN <<>>
                     ELSE EachHint(fp[1].hints, 40, "device") \o EachHint(fp[1].supports, 15, "device")
           hints == EachHint(b.hints, 25, "network")
           strong == EachHint(b.strong, 45, "physical")
           latency == LatencyContributions(b)
           rules == Flattened([i \in DOMAIN Fired(b) |-> RuleContributions(Fired(b)[i])])
           nd == FingerprintPoints(b, t)
           nh == 25 * Occurrences(b.hints, t)
           ns == 45 * Occurrences(b.strong, t)
           nl == LatencyPoints(b, t)
           nr == RulePoints(b, t)
<1>1. BuildContributions(b) = device \o hints \o strong \o latency \o rules
  BY Zenon DEF BuildContributions
<1>2. RawScores(b)[t] = nd + nh + ns + nl + nr
  BY BoardIs
<1>3. Accounts(device, t, nd)
  <2>1. CASE fp = <<>>
    <3>1. device = <<>> /\ nd = 0
      BY <2>1 DEF FingerprintPoints
    <3> QED
      BY <3>1, AccountsNothing
  <2>2. CASE fp # <<>>
    <3> DEFINE a == EachHint(fp[1].hints, 40, "device")
               c == EachHint(fp[1].supports, 15, "device")
               na == 40 * Occurrences(fp[1].hints, t)
               nc == 15 * Occurrences(fp[1].supports, t)
    <3>1. device = a \o c /\ nd = na + nc
      BY <2>2 DEF FingerprintPoints
    <3>2. IsSlice(fp[1].hints) /\ IsSlice(fp[1].supports)
      BY <2>2, FingerprintTypes
    <3>3. Accounts(a, t, na) /\ Accounts(c, t, nc)
      BY <3>2, AccountsEach
    <3> HIDE DEF a, c, na, nc
    <3>4. Accounts(a \o c, t, na + nc)
      BY <3>3, AccountsJoin
    <3> QED
      BY <3>1, <3>4
  <2> QED
    BY <2>1, <2>2
<1>4. Accounts(hints, t, nh) /\ Accounts(strong, t, ns)
  <2>1. IsSlice(b.hints) /\ IsSlice(b.strong)
    BY DEF Scorable
  <2> QED
    BY <2>1, AccountsEach
<1>5. Accounts(latency, t, nl)
  BY AccountsLatency
<1>6. Accounts(rules, t, nr)
  BY AccountsFired
<1> HIDE DEF device, hints, strong, latency, rules, nd, nh, ns, nl, nr
<1>7. Accounts(device \o hints, t, nd + nh)
  BY <1>3, <1>4, AccountsJoin
<1>8. Accounts((device \o hints) \o strong, t, (nd + nh) + ns)
  BY <1>4, <1>7, AccountsJoin
<1>9. Accounts(((device \o hints) \o strong) \o latency, t, ((nd + nh) + ns) + nl)
  BY <1>5, <1>8, AccountsJoin
<1>10. Accounts((((device \o hints) \o strong) \o latency) \o rules, t, (((nd + nh) + ns) + nl) + nr)
  BY <1>6, <1>9, AccountsJoin
<1> QED
  BY <1>1, <1>2, <1>10, Zenon

LEMMA ContributionsInv == StageInv => ContributionsAccountForScores
<1> SUFFICES ASSUME StageInv, stage = "scored", NEW t \in ToSet(Keys)
             PROVE  SumOf(On(BuildContributions(bag), t)) = board[t]
  BY Zenon DEF ContributionsAccountForScores, On
<1>1. ResultsOK(results) /\ bag = Reconcile(Aggregate(results)) /\ board = RawScores(bag)
  BY DEF StageInv
<1>2. Scorable(bag)
  <2>1. Scored(results, Gathered(Successful(results)), bag)
    BY <1>1, FinalBag
  <2> QED
    BY <2>1, Zenon DEF Scored
<1>3. Accounts(BuildContributions(bag), t, RawScores(bag)[t])
  BY <1>2, AccountsBoard
<1> QED
  BY <1>1, <1>3 DEF Accounts

\* The audit list, built by code of its own, accounts for every point on the board, for any
\* keys, fingerprints and rules.
THEOREM ContributionsAccount == Spec => []ContributionsAccountForScores
  BY StageInvHolds, ContributionsInv, PTL

-----------------------------------------------------------------------------
(* The gates.                                                              *)

Image(f, D) == {f[x] : x \in D}

LEMMA ImageFinite ==
    ASSUME NEW D, IsFiniteSet(D), NEW f, DOMAIN f = D, f = [x \in D |-> f[x]]
    PROVE  IsFiniteSet(Image(f, D))
<1>1. f \in Surjection(D, Image(f, D))
  BY DEF Surjection, Image
<1> QED
  BY <1>1, FS_Surjection

\* The maximum of finitely many values, and of zero.
LEMMA MaxOfImage ==
    ASSUME NEW D, IsFiniteSet(D), NEW f, \A x \in D : f[x] \in Int
    PROVE  /\ Max({0} \cup Image(f, D)) \in Int
           /\ D # {} => Max(Image(f, D)) \in Int
<1> DEFINE g == [x \in D |-> f[x]]
           T == Image(f, D)
           Z == {0} \cup T
<1>1. T = Image(g, D)
  BY DEF Image
<1>2. g = [x \in D |-> g[x]] /\ DOMAIN g = D
  OBVIOUS
<1> HIDE DEF g
<1>3. IsFiniteSet(Image(g, D))
  BY <1>2, ImageFinite
<1>4. IsFiniteSet(T) /\ T \in SUBSET Int
  BY <1>1, <1>3 DEF Image
<1>5. D # {} => T # {}
  BY DEF Image
<1> HIDE DEF T
<1>6. IsFiniteSet(Z)
  <2>1. IsFiniteSet({0})
    BY FS_Singleton
  <2> QED
    BY <1>4, <2>1, FS_Union
<1>60. Z \in SUBSET Int /\ Z # {}
  BY <1>4
<1> HIDE DEF Z
<1>7. Max(Z) \in Int
  BY <1>6, <1>60, MaxOfInts
<1>8. D # {} => Max(T) \in Int
  BY <1>4, <1>5, MaxOfInts
<1> QED
  BY <1>7, <1>8 DEF Z, T

LEMMA NormalBoard ==
    ASSUME NEW b, Scorable(b)
    PROVE  Normalize(RawScores(b)) \in [ToSet(Keys) -> Nat]
<1> DEFINE raw == RawScores(b)
<1>1. DOMAIN raw = ToSet(Keys)
  BY DEF RawScores
<1>2. \A t \in ToSet(Keys) : raw[t] \in Int
  BY AccountsBoard DEF Accounts
<1> HIDE DEF raw
<1>3. Normalize(raw) \in [ToSet(Keys) -> Nat]
  BY <1>1, <1>2 DEF Normalize
<1> QED
  BY <1>3 DEF raw

LEMMA CategoryBoard ==
    ASSUME NEW scores \in [ToSet(Keys) -> Nat]
    PROVE  /\ IsFiniteSet(DOMAIN CategoryScores(scores))
           /\ \A c \in DOMAIN CategoryScores(scores) : CategoryScores(scores)[c] \in Int
<1> DEFINE cat == CategoryScores(scores)
           f == [t \in ToSet(Keys) |-> ScoredCategory(t)]
           cs == {ScoredCategory(t) : t \in ToSet(Keys)}
           of(c) == {t \in ToSet(Keys) : ScoredCategory(t) = c}
<1>1. cs = Image(f, ToSet(Keys)) /\ DOMAIN f = ToSet(Keys) /\ f = [t \in ToSet(Keys) |-> f[t]]
  BY DEF Image
<1> HIDE DEF f
<1>2. IsFiniteSet(Image(f, ToSet(Keys)))
  BY <1>1, KeysAre, ImageFinite
<1>3. DOMAIN scores = ToSet(Keys)
  OBVIOUS
<1>4. cat = [c \in cs |-> Max({scores[t] : t \in of(c)})]
  BY <1>3 DEF CategoryScores
<1>5. \A c \in cs : Max({scores[t] : t \in of(c)}) \in Int
  <2> TAKE c \in cs
  <2>1. of(c) # {} /\ of(c) \in SUBSET ToSet(Keys)
    OBVIOUS
  <2>2. IsFiniteSet(of(c))
    BY <2>1, KeysAre, FS_Subset
  <2>3. \A t \in of(c) : scores[t] \in Int
    OBVIOUS
  <2>4. {scores[t] : t \in of(c)} = Image(scores, of(c))
    BY DEF Image
  <2> HIDE DEF of
  <2>5. Max(Image(scores, of(c))) \in Int
    BY <2>1, <2>2, <2>3, MaxOfImage
  <2> QED
    BY <2>4, <2>5
<1> HIDE DEF of
<1>6. DOMAIN cat = cs /\ \A c \in cs : cat[c] = Max({scores[t] : t \in of(c)})
  BY <1>4
<1> HIDE DEF cat
<1>7. IsFiniteSet(DOMAIN cat) /\ \A c \in DOMAIN cat : cat[c] \in Int
  BY <1>1, <1>2, <1>5, <1>6
<1> QED
  BY <1>7 DEF cat

LEMMA TopsInt ==
    ASSUME NEW m, IsFiniteSet(DOMAIN m), \A k \in DOMAIN m : m[k] \in Int
    PROVE  TopScore(m) \in Int /\ SecondScore(m) \in Int /\ Margin(m) \in Int
<1>1. TopScore(m) \in Int
  <2>1. TopScore(m) = Max({0} \cup Image(m, DOMAIN m))
    BY Zenon DEF TopScore, Image
  <2> QED
    BY <2>1, MaxOfImage
<1> DEFINE best == {k \in DOMAIN m : m[k] = TopScore(m)}
           rest == DOMAIN m \ best
<1>2. IsFiniteSet(rest) /\ \A k \in rest : m[k] \in Int
  BY FS_Subset
<1>3. SecondScore(m) = IF Cardinality(best) > 1 THEN TopScore(m) ELSE Max({0} \cup Image(m, rest))
  BY Zenon DEF SecondScore, Image
<1> HIDE DEF best, rest
<1>4. Max({0} \cup Image(m, rest)) \in Int
  BY <1>2, MaxOfImage
<1>5. SecondScore(m) \in Int
  BY <1>1, <1>3, <1>4
<1> QED
  BY <1>1, <1>5 DEF Margin

LEMMA ConfidenceInt ==
    ASSUME NEW scores \in [ToSet(Keys) -> Nat], NEW b, Scorable(b)
    PROVE  EvidenceConfidence(scores, b) \in Int
<1> DEFINE cat == CategoryScores(scores)
           top == TopScore(cat)
           margin == Margin(cat)
           matched == Matched(b)
           conf == ComputeConfidence(scores, b.sources, matched)
           strongest == StrongestSignal(b)
           proofs == {b.phys, strongest, b.line.conf}
           proof == Max(proofs)
<1>0. b.signals \in Seq(Signal) /\ b.sources \in Nat /\ b.dev \in Nat /\ b.phys \in Nat /\ b.line.conf \in Nat
  BY DEF Scorable
<1> DEFINE raised == AtMost(MaxOf(conf, IF proof >= 85 THEN 100 * proof ELSE 8000), 9800)
           known == 100 * MaxOf(b.dev, IF matched THEN 72 ELSE 0)
<1>5. EvidenceConfidence(scores, b) =
        IF HasDirectPhysicalEvidence(b) THEN IF EthernetWANOnlyEvidence(b) THEN AtMost(raised, 5900) ELSE raised
        ELSE IF HasDeviceModelEvidence(b) THEN AtMost(MaxOf(conf, known), 7500)
        ELSE IF HasTopologyEvidence(b) /\ ~HasPerformance(b) /\ ~HasRegional(b) THEN AtMost(conf, 3000)
        ELSE IF ~HasTopologyEvidence(b) /\ HasPerformance(b) /\ HasRegional(b) THEN AtMost(conf, 2500)
        ELSE AtMost(conf, 4000)
  BY SMTT(30) DEF EvidenceConfidence
<1> HIDE DEF raised, known
<1>1. top \in Int /\ margin \in Int
  BY CategoryBoard, TopsInt
<1>2. conf \in Int
  <2> HIDE DEF top, margin, matched
  <2>1. conf = IF top <= 0 THEN 0
               ELSE AtMost(60 * top + (2500 * margin) \div top + 375 * AtMost(b.sources, 4)
                           + (IF matched THEN 1000 ELSE 0), 10000)
    BY Zenon DEF ComputeConfidence, top, margin
  <2>2. top > 0 => (2500 * margin) \div top \in Int
    BY <1>1
  <2>3. AtMost(b.sources, 4) \in Int
    BY <1>0 DEF AtMost
  <2> HIDE DEF conf
  <2> QED
    BY <1>1, <2>1, <2>2, <2>3 DEF AtMost
<1>3. strongest \in Int
  <2> DEFINE D == {s \in ToSet(b.signals) : DirectSignal(s)}
             f == [s \in D |-> s.conf]
  <2>1. IsFiniteSet(ToSet(b.signals)) /\ ToSet(b.signals) \subseteq Signal
    BY <1>0, FiniteRange
  <2>2. IsFiniteSet(D)
    BY <2>1, FS_Subset
  <2>3. \A s \in D : s.conf \in Int
    BY <2>1 DEF Signal
  <2>4. \A s \in D : f[s] = s.conf
    OBVIOUS
  <2>5. strongest = Max({0} \cup {s.conf : s \in D})
    BY Zenon DEF StrongestSignal
  <2> HIDE DEF D, f
  <2>6. {s.conf : s \in D} = Image(f, D)
    BY <2>4 DEF Image
  <2>7. Max({0} \cup Image(f, D)) \in Int
    BY <2>2, <2>3, <2>4, MaxOfImage
  <2> QED
    BY <2>5, <2>6, <2>7
<1> HIDE DEF top, margin, conf, strongest, matched
<1>4. proof \in Int
  <2>1. proofs = ({b.phys} \cup {strongest}) \cup {b.line.conf} /\ proofs \in SUBSET Int /\ proofs # {}
    BY <1>0, <1>3
  <2>2. IsFiniteSet(proofs)
    <3>1. IsFiniteSet({b.phys}) /\ IsFiniteSet({strongest}) /\ IsFiniteSet({b.line.conf})
      BY FS_Singleton, Zenon
    <3>2. IsFiniteSet({b.phys} \cup {strongest})
      BY <3>1, FS_Union, Zenon
    <3>3. IsFiniteSet(({b.phys} \cup {strongest}) \cup {b.line.conf})
      BY <3>1, <3>2, FS_Union, Zenon
    <3> QED
      BY <2>1, <3>3, Zenon
  <2> HIDE DEF proofs
  <2> QED
    BY <2>1, <2>2, MaxOfInts
<1> HIDE DEF proof
<1>6. raised \in Int /\ known \in Int
  BY <1>0, <1>2, <1>4 DEF AtMost, MaxOf, raised, known
<1> QED
  BY <1>2, <1>5, <1>6 DEF AtMost, MaxOf

LEMMA RankedIn ==
    ASSUME NEW scores \in [ToSet(Keys) -> Nat], Ranked(scores) # <<>>
    PROVE  Ranked(scores)[1] # Unknown
<1> DEFINE scored == Those(Keys, {t \in ToSet(Keys) : scores[t] > 0})
           all == RankAll(scores)
           ranked == Ranked(scores)
<1>1. IsSlice(scored) /\ ToSet(scored) \subseteq ToSet(Keys)
  BY KeysAre, ThoseSlice
<1>2. all = StableSort(scored, scores)
  BY Zenon DEF RankAll
<1> HIDE DEF scored, all
<1>3. IsSlice(all) /\ ToSet(all) \subseteq ToSet(Keys)
  BY <1>1, <1>2, SortIn
<1>4. \E S : ranked = Those(all, S)
  BY Zenon DEF Ranked, CollapseParentSubtypeCandidates, all
<1> HIDE DEF ranked
<1>5. IsSlice(ranked) /\ ToSet(ranked) \subseteq ToSet(Keys)
  BY <1>3, <1>4, ThoseSlice
<1>6. ranked # <<>> => 1 \in DOMAIN ranked
  BY <1>5, SliceIs DEF IsSlice
<1>7. ranked # <<>> => ranked[1] \in ToSet(Keys)
  BY <1>5, <1>6 DEF ToSet
<1> QED
  BY <1>7, KeysAre DEF ranked

\* A verdict the gates agree on.
Agreed(v) == (v.primary = Unknown => v.quality = "low") /\ (HasHigh(v.conflicts) => v.primary = Unknown)

LEMMA DecideAgrees ==
    ASSUME NEW rs, NEW scores \in [ToSet(Keys) -> Nat], NEW b, Scorable(b)
    PROVE  Agreed(Decide(rs, scores, b))
<1> DEFINE v == Decide(rs, scores, b)
           ranked    == Ranked(scores)
           conflicts == DetectConflicts(rs, scores, b)
           direct    == HasDirectPhysicalEvidence(b)
           full      == ComputeClassificationConfidence(scores, b, conflicts)
           conf      == IF ranked = <<>> THEN 0 ELSE full
           unknown   == \/ ranked = <<>>
                        \/ ShouldReturnUnknown(scores, b, conf)
                        \/ HasHigh(conflicts) /\ (~direct \/ HasWANConflict(conflicts))
           cat == CategoryScores(scores)
<1>1. /\ v.primary = IF unknown THEN Unknown ELSE ranked[1]
      /\ v.quality = IF ranked = <<>> THEN "low" ELSE DecisionQuality(scores, b, conf)
      /\ v.conflicts = conflicts
  BY Zenon DEF Decide, VerdictOn
<1>2. ranked # <<>> => ranked[1] # Unknown
  BY RankedIn
<1>3. TopScore(cat) \in Int /\ Margin(cat) \in Int
  BY CategoryBoard, TopsInt
<1>4. full \in Int /\ (HasHigh(conflicts) => full <= 3500)
  <2>1. EvidenceConfidence(scores, b) \in Int
    BY ConfidenceInt
  <2> QED
    BY <2>1 DEF ComputeClassificationConfidence, MaxOf
<1> HIDE DEF v, ranked, conflicts, direct, full, cat
<1>5. conf \in Int /\ (HasHigh(conflicts) => conf <= 3500)
  BY <1>4
<1> HIDE DEF conf
<1>6. ShouldReturnUnknown(scores, b, conf) <=>
        \/ conf < 4000
        \/ TopScore(cat) < 35
        \/ Margin(cat) < 12 /\ ~direct
        \/ ~direct /\ ~HasDeviceModelEvidence(b)
  BY Zenon DEF ShouldReturnUnknown, cat, direct
<1>7. DecisionQuality(scores, b, conf) =
        IF direct /\ conf >= 8500 /\ TopScore(cat) >= 60 /\ Margin(cat) >= 20 THEN "high"
        ELSE IF (direct \/ HasDeviceModelEvidence(b)) /\ conf >= 4000 /\ Margin(cat) >= 12 /\ TopScore(cat) >= 35 THEN "medium"
        ELSE "low"
  BY Zenon DEF DecisionQuality, cat, direct
<1>8. HasHigh(conflicts) => unknown
  BY <1>5, <1>6
<1>9. ShouldReturnUnknown(scores, b, conf) => DecisionQuality(scores, b, conf) = "low"
  BY <1>3, <1>5, <1>6, <1>7
<1>10. HasHigh(conflicts) => DecisionQuality(scores, b, conf) = "low"
  BY <1>3, <1>5, <1>7
<1> QED
  BY <1>1, <1>2, <1>8, <1>9, <1>10 DEF Agreed, v

LEMMA GatesInv == StageInv => GatesAgree
<1> SUFFICES ASSUME StageInv, stage = "decided" PROVE Agreed(verdict)
  BY DEF GatesAgree, Decided, Agreed
<1>1. ResultsOK(results) /\ bag = Reconcile(Aggregate(results)) /\ board = RawScores(bag)
      /\ verdict = Decide(results, Normalize(board), bag)
  BY DEF StageInv
<1>2. Scorable(bag)
  <2>1. Scored(results, Gathered(Successful(results)), bag)
    BY <1>1, FinalBag
  <2> QED
    BY <2>1, Zenon DEF Scored
<1>3. Normalize(RawScores(bag)) \in [ToSet(Keys) -> Nat]
  BY <1>2, NormalBoard
<1>4. Agreed(Decide(results, Normalize(RawScores(bag)), bag))
  BY <1>2, <1>3, DecideAgrees
<1> QED
  BY <1>1, <1>4

\* The two gates agree on every verdict, and a high severity conflict never leaves a
\* committed one, for any evidence.
THEOREM GatesAlwaysAgree == Spec => []GatesAgree
  BY StageInvHolds, GatesInv, PTL


-----------------------------------------------------------------------------
(* Gateway devices.                                                        *)

\* No text; named, for the solver that knows no empty string.
Blank == ""

DeviceFields ==
    {"ip", "role", "reachable", "rstate", "found", "tr064", "observed", "wantype", "link", "access", "model", "services",
     "hints", "physhints", "devconf", "accconf"}

\* A description: the fields it has, and of the values what the merges compute with.
Description(d) ==
    /\ DOMAIN d = DeviceFields
    /\ IsSlice(d.hints) /\ IsSlice(d.physhints) /\ d.devconf \in Nat /\ d.accconf \in Nat
    /\ d.reachable \in BOOLEAN /\ d.observed \in BOOLEAN /\ (d.rstate = "true" => d.reachable)
    /\ d.rstate \in {Blank, "unknown", "false", "true"}

\* A description whose states follow from its findings.
Settled(d) ==
    /\ Description(d)
    /\ d.rstate \in {"unknown", "false", "true"} /\ (d.reachable => d.rstate = "true")
    /\ "tr064" \in d.found => d.tr064 = "found"

\* A description that leaves open the state of what it found.
Open(d) == Description(d) /\ ("tr064" \in d.found => d.tr064 = Blank)

\* m has everything positive that d has.
Keeps(m, d) ==
    /\ m.ip = d.ip
    /\ d.reachable => m.reachable /\ m.rstate = "true"
    /\ d.observed => m.observed
    /\ d.found \subseteq m.found /\ d.services \subseteq m.services /\ d.access \subseteq m.access
    /\ "tr064" \in d.found => m.tr064 = "found"
    /\ ToSet(d.hints) \ {Blank} \subseteq ToSet(m.hints) /\ ToSet(d.physhints) \ {Blank} \subseteq ToSet(m.physhints)
    /\ m.devconf >= d.devconf /\ m.accconf >= d.accconf
    /\ GatewayRolePriority(m.role) >= GatewayRolePriority(d.role)

LEMMA RolePriorities == \A role : GatewayRolePriority(role) \in Nat
  BY DEF GatewayRolePriority

LEMMA DevicesOpen ==
    ASSUME NEW d \in Devices
    PROVE  Open(d) /\ d.ip \in Private
<1>1. d \in [ip : Private, role : STRING, reachable : BOOLEAN, rstate : {"", "unknown", "false", "true"},
             found : SUBSET STRING, tr064 : STRING, observed : BOOLEAN, wantype : SUBSET STRING, link : SUBSET STRING,
             access : SUBSET STRING, model : SUBSET STRING, services : SUBSET STRING, hints : Seq(STRING),
             physhints : Seq(STRING), devconf : Nat, accconf : Nat]
  BY Zenon DEF Devices
<1>2. DOMAIN d = DeviceFields
  BY <1>1, Zenon DEF DeviceFields
<1>3. d.reachable \in BOOLEAN /\ d.observed \in BOOLEAN /\ d.rstate \in {"", "unknown", "false", "true"}
  BY <1>1, Zenon
<1>4. (d.rstate = "true" => d.reachable) /\ ("tr064" \in d.found => d.tr064 = "")
  BY Zenon DEF Devices
<1> QED
  BY <1>2, <1>3, <1>4, DeviceTypes, Zenon DEF Open, Description, Blank

LEMMA NormalizeIs ==
    ASSUME NEW d, DOMAIN d = DeviceFields
    PROVE  /\ DOMAIN NormalizeGatewayDevice(d) = DeviceFields
           /\ \A f \in DeviceFields \ {"rstate", "tr064"} : NormalizeGatewayDevice(d)[f] = d[f]
           /\ NormalizeGatewayDevice(d).rstate =
                 IF d.reachable THEN "true" ELSE IF d.rstate = Blank THEN "unknown" ELSE d.rstate
           /\ NormalizeGatewayDevice(d).tr064 =
                 IF d.tr064 # Blank THEN d.tr064
                 ELSE IF "tr064" \in d.found THEN "found"
                 ELSE IF "auth" \in d.found THEN "auth_required" ELSE "not_found"
<1> DEFINE v == IF d.reachable THEN "true" ELSE IF d.rstate = Blank THEN "unknown" ELSE d.rstate
           w == IF d.tr064 # Blank THEN d.tr064
                ELSE IF "tr064" \in d.found THEN "found"
                ELSE IF "auth" \in d.found THEN "auth_required" ELSE "not_found"
           n == [d EXCEPT !.rstate = v, !.tr064 = w]
<1>1. NormalizeGatewayDevice(d) = n
  <2> DEFINE v0 == IF d.reachable THEN "true" ELSE IF d.rstate = "" THEN "unknown" ELSE d.rstate
             w0(x) == IF x # "" THEN x
                      ELSE IF "tr064" \in d.found THEN "found"
                      ELSE IF "auth" \in d.found THEN "auth_required" ELSE "not_found"
  <2>1. NormalizeGatewayDevice(d) = [d EXCEPT !.rstate = v0, !.tr064 = w0(@)]
    BY Zenon DEF NormalizeGatewayDevice
  <2>2. v0 = v /\ w0(d.tr064) = w
    BY Zenon DEF Blank
  <2> HIDE DEF v0, w0
  <2>3. [d EXCEPT !.rstate = v0, !.tr064 = w0(@)] = [d EXCEPT !.rstate = v0, !.tr064 = w0(d.tr064)]
    OBVIOUS
  <2> QED
    BY <2>1, <2>2, <2>3
<1> HIDE DEF v, w
<1>2. "rstate" \in DeviceFields /\ "tr064" \in DeviceFields
  BY DEF DeviceFields
<1>3. /\ DOMAIN n = DeviceFields /\ n.rstate = v /\ n.tr064 = w
      /\ \A f \in DeviceFields \ {"rstate", "tr064"} : n[f] = d[f]
  BY <1>2
<1> HIDE DEF n
<1> QED
  BY <1>1, <1>3, Zenon DEF v, w

LEMMA NormalKeeps ==
    ASSUME NEW d, Settled(d) \/ Open(d)
    PROVE  Settled(NormalizeGatewayDevice(d)) /\ Keeps(NormalizeGatewayDevice(d), d)
<1> DEFINE n == NormalizeGatewayDevice(d)
<1>0. Description(d)
  BY DEF Settled, Open
<1>1. DOMAIN d = DeviceFields
  BY <1>0 DEF Description
<1>2. /\ DOMAIN n = DeviceFields
      /\ n.rstate = IF d.reachable THEN "true" ELSE IF d.rstate = Blank THEN "unknown" ELSE d.rstate
      /\ n.tr064 = IF d.tr064 # Blank THEN d.tr064
                   ELSE IF "tr064" \in d.found THEN "found"
                   ELSE IF "auth" \in d.found THEN "auth_required" ELSE "not_found"
  BY <1>1, NormalizeIs, Zenon
<1>3. /\ n.ip = d.ip /\ n.role = d.role /\ n.reachable = d.reachable /\ n.found = d.found /\ n.services = d.services
      /\ n.observed = d.observed /\ n.access = d.access
      /\ n.hints = d.hints /\ n.physhints = d.physhints /\ n.devconf = d.devconf /\ n.accconf = d.accconf
  <2>1. \A f \in DeviceFields \ {"rstate", "tr064"} : n[f] = d[f]
    BY <1>1, NormalizeIs, Zenon
  <2> HIDE DEF n
  <2>2. {"ip", "role", "reachable", "found", "observed", "access", "services", "hints", "physhints", "devconf", "accconf"}
          \subseteq DeviceFields \ {"rstate", "tr064"}
    BY DEF DeviceFields
  <2> QED
    BY <2>1, <2>2
<1> HIDE DEF n
<1>4. n.rstate \in {"unknown", "false", "true"} /\ (n.reachable <=> n.rstate = "true")
  BY <1>0, <1>2, <1>3 DEF Description
<1>5. "tr064" \in d.found => n.tr064 = "found"
  BY <1>2 DEF Settled, Open
<1>6. Settled(n)
  BY <1>0, <1>2, <1>3, <1>4, <1>5 DEF Settled, Description
<1>7. Keeps(n, d)
  <2>1. GatewayRolePriority(n.role) = GatewayRolePriority(d.role) /\ GatewayRolePriority(d.role) \in Nat
    BY <1>3, RolePriorities
  <2> QED
    BY <1>0, <1>3, <1>4, <1>5, <2>1 DEF Keeps, Description
<1> QED
  BY <1>6, <1>7, Zenon DEF n

LEMMA KeepsChain ==
    ASSUME NEW m, NEW x, NEW d, Description(m), Description(x), Description(d), Keeps(m, x), Keeps(x, d)
    PROVE  Keeps(m, d)
<1>1. /\ m.devconf \in Nat /\ x.devconf \in Nat /\ d.devconf \in Nat
      /\ m.accconf \in Nat /\ x.accconf \in Nat /\ d.accconf \in Nat
  BY DEF Description
<1>2. /\ GatewayRolePriority(m.role) \in Nat /\ GatewayRolePriority(x.role) \in Nat
      /\ GatewayRolePriority(d.role) \in Nat
  BY RolePriorities
<1> QED
  BY <1>1, <1>2 DEF Keeps

\* Of two descriptions of one address the merge keeps both.
LEMMA MergeKeeps ==
    ASSUME NEW x, Settled(x), NEW y, Settled(y) \/ Open(y), x.ip = y.ip
    PROVE  /\ Settled(MergeGatewayDevice(x, y))
           /\ Keeps(MergeGatewayDevice(x, y), x) /\ Keeps(MergeGatewayDevice(x, y), y)
<1> DEFINE a == NormalizeGatewayDevice(x)
           b == NormalizeGatewayDevice(y)
           role == IF GatewayRolePriority(b.role) > GatewayRolePriority(a.role) THEN b.role ELSE a.role
           found == a.found \cup b.found
           r == [ip        |-> a.ip,
                 role      |-> role,
                 reachable |-> a.reachable \/ b.reachable,
                 rstate    |-> MergeReachableState(a.rstate, b.rstate),
                 found     |-> found,
                 tr064     |-> MergeState(a.tr064, b.tr064, "tr064" \in found),
                 observed  |-> a.observed \/ b.observed,
                 wantype   |-> FirstNeedles(a.wantype, b.wantype),
                 link      |-> FirstNeedles(a.link, b.link),
                 access    |-> a.access \cup b.access,
                 model     |-> FirstNeedles(a.model, b.model),
                 services  |-> a.services \cup b.services,
                 hints     |-> AppendAllUnique(a.hints, b.hints),
                 physhints |-> AppendAllUnique(a.physhints, b.physhints),
                 devconf   |-> MaxOf(a.devconf, b.devconf),
                 accconf   |-> MaxOf(a.accconf, b.accconf)]
<1>1. MergeGatewayDevice(x, y) = NormalizeGatewayDevice(r)
  BY Zenon DEF MergeGatewayDevice
<1>2. Settled(a) /\ Keeps(a, x) /\ Settled(b) /\ Keeps(b, y)
  BY NormalKeeps
<1> HIDE DEF a, b
<1>3. a.ip = b.ip
  BY <1>2 DEF Keeps
<1>4. /\ DOMAIN r = DeviceFields /\ r.ip = a.ip /\ r.role = role /\ r.reachable = (a.reachable \/ b.reachable)
      /\ r.rstate = MergeReachableState(a.rstate, b.rstate) /\ r.found = found
      /\ r.tr064 = MergeState(a.tr064, b.tr064, "tr064" \in found)
      /\ r.services = a.services \cup b.services /\ r.access = a.access \cup b.access
      /\ r.observed = (a.observed \/ b.observed)
      /\ r.hints = AppendAllUnique(a.hints, b.hints) /\ r.physhints = AppendAllUnique(a.physhints, b.physhints)
      /\ r.devconf = MaxOf(a.devconf, b.devconf) /\ r.accconf = MaxOf(a.accconf, b.accconf)
  BY DEF DeviceFields
<1> HIDE DEF r
<1>5. Description(a) /\ Description(b) /\ Description(x)
  BY <1>2 DEF Settled
<1>51. Description(y)
  BY DEF Settled, Open
<1>6. /\ IsSlice(r.hints) /\ ToSet(r.hints) = ToSet(a.hints) \cup (ToSet(b.hints) \ {Blank})
      /\ IsSlice(r.physhints) /\ ToSet(r.physhints) = ToSet(a.physhints) \cup (ToSet(b.physhints) \ {Blank})
  <2>1. IsSlice(a.hints) /\ IsSlice(b.hints) /\ IsSlice(a.physhints) /\ IsSlice(b.physhints)
    BY <1>5, Zenon DEF Description
  <2>2. \A s, q : IsSlice(s) /\ IsSlice(q) =>
            /\ IsSlice(AppendAllUnique(s, q))
            /\ ToSet(AppendAllUnique(s, q)) = ToSet(s) \cup (ToSet(q) \ {Blank})
    BY UniqueIn, Zenon DEF Blank
  <2> QED
    BY <1>4, <2>1, <2>2
<1>7. /\ r.devconf \in Nat /\ r.devconf >= a.devconf /\ r.devconf >= b.devconf
      /\ r.accconf \in Nat /\ r.accconf >= a.accconf /\ r.accconf >= b.accconf
  BY <1>4, <1>5 DEF Description, MaxOf
<1>8. /\ a.reachable \in BOOLEAN /\ b.reachable \in BOOLEAN
      /\ (a.reachable <=> a.rstate = "true") /\ (b.reachable <=> b.rstate = "true")
  BY <1>2, <1>5 DEF Settled, Description
<1>9. /\ r.reachable \in BOOLEAN /\ r.rstate \in {"unknown", "false", "true"}
      /\ (r.reachable <=> r.rstate = "true")
  BY <1>4, <1>8 DEF MergeReachableState
<1>91. r.observed \in BOOLEAN /\ (a.observed => r.observed) /\ (b.observed => r.observed)
  BY <1>4, <1>5 DEF Description
<1>10. "tr064" \in r.found => r.tr064 = "found"
  BY <1>4 DEF MergeState
<1>11. Settled(r)
  BY <1>4, <1>6, <1>7, <1>9, <1>91, <1>10, Zenon DEF Settled, Description
<1>12. /\ GatewayRolePriority(r.role) >= GatewayRolePriority(a.role)
       /\ GatewayRolePriority(r.role) >= GatewayRolePriority(b.role)
  <2>1. GatewayRolePriority(a.role) \in Nat /\ GatewayRolePriority(b.role) \in Nat
    BY RolePriorities
  <2> QED
    BY <1>4, <2>1
<1>13. Keeps(r, a) /\ Keeps(r, b)
  <2>1. /\ ToSet(a.hints) \ {Blank} \subseteq ToSet(r.hints) /\ ToSet(b.hints) \ {Blank} \subseteq ToSet(r.hints)
        /\ ToSet(a.physhints) \ {Blank} \subseteq ToSet(r.physhints)
        /\ ToSet(b.physhints) \ {Blank} \subseteq ToSet(r.physhints)
    BY <1>6
  <2>2. /\ a.reachable => r.reachable /\ r.rstate = "true"
        /\ b.reachable => r.reachable /\ r.rstate = "true"
    BY <1>4, <1>9
  <2>3. /\ a.found \subseteq r.found /\ a.services \subseteq r.services /\ a.access \subseteq r.access
        /\ b.found \subseteq r.found /\ b.services \subseteq r.services /\ b.access \subseteq r.access
    BY <1>4
  <2> QED
    BY <1>3, <1>4, <1>7, <1>91, <1>10, <1>12, <2>1, <2>2, <2>3, Zenon DEF Keeps
<1>14. Settled(NormalizeGatewayDevice(r)) /\ Keeps(NormalizeGatewayDevice(r), r)
  BY <1>11, NormalKeeps
<1>15. Description(r) /\ Description(NormalizeGatewayDevice(r))
  BY <1>11, <1>14 DEF Settled
<1>16. Keeps(r, x) /\ Keeps(r, y)
  BY <1>2, <1>5, <1>51, <1>13, <1>15, KeepsChain
<1> QED
  BY <1>1, <1>5, <1>51, <1>14, <1>15, <1>16, KeepsChain

\* One settled description per address.
Directory(s) ==
    /\ IsSlice(s)
    /\ \A i \in DOMAIN s : Settled(s[i])
    /\ \A i, j \in DOMAIN s : s[i].ip = s[j].ip => i = j

LEMMA MergeOneKeeps ==
    ASSUME NEW s, Directory(s), NEW d, Settled(d) \/ Open(d)
    PROVE  /\ Directory(MergeOneDevice(s, d))
           /\ \E m \in ToSet(MergeOneDevice(s, d)) : Keeps(m, d)
           /\ \A x \in ToSet(s) : \E m \in ToSet(MergeOneDevice(s, d)) : Keeps(m, x)
           /\ \A m \in ToSet(MergeOneDevice(s, d)) : m.ip = d.ip \/ \E x \in ToSet(s) : m.ip = x.ip
<1> DEFINE at == {i \in DOMAIN s : s[i].ip = d.ip}
           n == NormalizeGatewayDevice(d)
           t == MergeOneDevice(s, d)
<1>0. Len(s) \in Nat /\ DOMAIN s = 1..Len(s) /\ s = [i \in 1..Len(s) |-> s[i]]
  BY SliceIs DEF Directory
<1>1. ToSet(s) = {s[i] : i \in 1..Len(s)}
  BY <1>0 DEF ToSet
<1>2. Settled(n) /\ Keeps(n, d) /\ n.ip = d.ip
  BY NormalKeeps DEF Keeps
<1>3. \A x \in ToSet(s) : Settled(x) /\ Keeps(x, x)
  <2> SUFFICES ASSUME NEW i \in 1..Len(s) PROVE Settled(s[i]) /\ Keeps(s[i], s[i])
    BY <1>1
  <2>1. Settled(s[i])
    BY <1>0 DEF Directory
  <2>2. GatewayRolePriority(s[i].role) \in Nat
    BY RolePriorities
  <2> QED
    BY <2>1, <2>2 DEF Keeps, Settled, Description
<1>4. CASE at = {}
  <2>1. t = Append(s, n)
    BY <1>4, Zenon DEF MergeOneDevice
  <2>2. IsSlice(t) /\ ToSet(t) = ToSet(s) \cup {n}
    BY <2>1, AppendIn DEF Directory
  <2>3. DOMAIN t = 1..Len(s) + 1 /\ t[Len(s) + 1] = n /\ \A i \in 1..Len(s) : t[i] = s[i]
    <3>1. s \in Seq(ToSet(s) \cup {n})
      BY DEF Directory, IsSlice
    <3> QED
      BY <1>0, <2>1, <3>1
  <2> HIDE DEF t, n
  <2>4. 1..Len(s) + 1 = 1..Len(s) \cup {Len(s) + 1}
    BY <1>0
  <2>5. Directory(t)
    <3>1. \A i \in DOMAIN t : Settled(t[i])
      BY <1>0, <1>2, <2>3, <2>4 DEF Directory
    <3>2. \A i \in 1..Len(s) : s[i].ip # n.ip
      BY <1>0, <1>2, <1>4
    <3>3. \A i, j \in 1..Len(s) : s[i].ip = s[j].ip => i = j
      BY <1>0 DEF Directory
    <3>4. \A i, j \in DOMAIN t : t[i].ip = t[j].ip => i = j
      BY <2>3, <2>4, <3>2, <3>3
    <3> QED
      BY <2>2, <3>1, <3>4 DEF Directory
  <2>6. /\ \E m \in ToSet(t) : Keeps(m, d)
        /\ \A x \in ToSet(s) : \E m \in ToSet(t) : Keeps(m, x)
        /\ \A m \in ToSet(t) : m.ip = d.ip \/ \E x \in ToSet(s) : m.ip = x.ip
    BY <1>2, <1>3, <2>2
  <2> QED
    BY <2>5, <2>6 DEF t
<1>5. CASE at # {}
  <2>1. Min(at) \in at
    <3>1. at \in SUBSET Nat
      BY <1>0
    <3> QED
      BY <1>5, <3>1, MinIn
  <2> DEFINE k == Min(at)
             merged == MergeGatewayDevice(s[k], d)
  <2>2. t = [s EXCEPT ![k] = merged]
    BY <1>5, Zenon DEF MergeOneDevice
  <2>3. k \in 1..Len(s) /\ s[k].ip = d.ip
    BY <1>0, <2>1
  <2> HIDE DEF t, at, n, k
  <2>4. Settled(merged) /\ Keeps(merged, s[k]) /\ Keeps(merged, d)
    <3>1. Settled(s[k])
      BY <1>0, <2>3 DEF Directory
    <3> QED
      BY <2>3, <3>1, MergeKeeps
  <2>5. merged.ip = d.ip
    BY <2>4 DEF Keeps
  <2> HIDE DEF merged
  <2>6. DOMAIN t = 1..Len(s) /\ t[k] = merged /\ \A i \in 1..Len(s) : i # k => t[i] = s[i]
    BY <1>0, <2>2, <2>3
  <2>7. ToSet(t) = {t[i] : i \in 1..Len(s)}
    BY <2>6 DEF ToSet
  <2>8. IsSlice(t)
    <3>1. t = [i \in 1..Len(s) |-> t[i]]
      BY <1>0, <2>2
    <3>2. t \in Seq(ToSet(t))
      BY <1>0, <2>7, <3>1
    <3> QED
      BY <3>2 DEF IsSlice
  <2>9. Directory(t)
    <3>1. \A i \in DOMAIN t : Settled(t[i])
      BY <1>0, <2>4, <2>6 DEF Directory
    <3>2. \A i \in 1..Len(s) : t[i].ip = s[i].ip
      BY <2>3, <2>5, <2>6
    <3>3. \A i, j \in DOMAIN t : t[i].ip = t[j].ip => i = j
      BY <1>0, <2>6, <3>2 DEF Directory
    <3> QED
      BY <2>8, <3>1, <3>3 DEF Directory
  <2>10. \E m \in ToSet(t) : Keeps(m, d)
    BY <2>3, <2>4, <2>6, <2>7
  <2>11. \A x \in ToSet(s) : \E m \in ToSet(t) : Keeps(m, x)
    <3> SUFFICES ASSUME NEW i \in 1..Len(s) PROVE \E m \in ToSet(t) : Keeps(m, s[i])
      BY <1>1
    <3>1. Keeps(t[i], s[i])
      BY <1>1, <1>3, <2>4, <2>6
    <3> QED
      BY <2>7, <3>1
  <2>12. \A m \in ToSet(t) : m.ip = d.ip \/ \E x \in ToSet(s) : m.ip = x.ip
    BY <1>1, <2>5, <2>6, <2>7
  <2> QED
    BY <2>9, <2>10, <2>11, <2>12 DEF t
<1> QED
  BY <1>4, <1>5

\* Merging by address leaves one device per address and keeps what any of them says.
LEMMA MergeByAddressKeeps ==
    ASSUME NEW q, IsSlice(q), \A i \in DOMAIN q : Settled(q[i]) \/ Open(q[i])
    PROVE  /\ Directory(MergeByAddress(q))
           /\ \A d \in ToSet(q) : \E m \in ToSet(MergeByAddress(q)) : Keeps(m, d)
           /\ \A m \in ToSet(MergeByAddress(q)) : \E d \in ToSet(q) : m.ip = d.ip
<1>0. Len(q) \in Nat /\ DOMAIN q = 1..Len(q)
  BY SliceIs
<1>1. PICK acc : /\ acc[0] = <<>> /\ MergeByAddress(q) = acc[Len(q)]
                 /\ \A k \in 1..Len(q) : acc[k] = MergeOneDevice(acc[k - 1], q[k])
  BY MergeRun
<1> DEFINE Good(k) == /\ Directory(acc[k])
                      /\ \A j \in 1..k : \E m \in ToSet(acc[k]) : Keeps(m, q[j])
                      /\ \A m \in ToSet(acc[k]) : \E j \in 1..k : m.ip = q[j].ip
           G == {k \in Nat : Good(k)}
<1>2. 0 \in G
  <2>1. IsSlice(<<>>) /\ ToSet(<<>>) = {} /\ DOMAIN <<>> = {}
    BY DEF IsSlice, ToSet
  <2> QED
    BY <1>1, <2>1 DEF Directory
<1>3. ASSUME NEW k \in 0..Len(q) - 1, k \in G PROVE k + 1 \in G
  <2>1. k + 1 \in 1..Len(q) /\ (k + 1) - 1 = k /\ k \in Nat /\ k + 1 \in Nat /\ 1..k \subseteq 1..Len(q)
    BY <1>0
  <2> DEFINE s == acc[k]
             t == acc[k + 1]
             d == q[k + 1]
  <2>2. t = MergeOneDevice(s, d)
    BY <1>1, <2>1
  <2>3. Good(k)
    BY <1>3
  <2>4. Settled(d) \/ Open(d)
    BY <1>0, <2>1
  <2>5. Directory(s)
    BY <2>3
  <2>6. /\ Directory(t)
        /\ \E m \in ToSet(t) : Keeps(m, d)
        /\ \A x \in ToSet(s) : \E m \in ToSet(t) : Keeps(m, x)
        /\ \A m \in ToSet(t) : m.ip = d.ip \/ \E x \in ToSet(s) : m.ip = x.ip
    <3> HIDE DEF s, t, d
    <3> QED
      BY <2>2, <2>4, <2>5, MergeOneKeeps
  <2>7. 1..k + 1 = 1..k \cup {k + 1}
    BY <2>1
  <2>8. ASSUME NEW j \in 1..k PROVE \E m \in ToSet(t) : Keeps(m, q[j])
    <3>1. PICK x \in ToSet(s) : Keeps(x, q[j])
      BY <2>3
    <3>2. PICK m \in ToSet(t) : Keeps(m, x)
      BY <2>6
    <3>3. Description(x) /\ Description(m)
      <4>1. \A u : Directory(u) => \A y \in ToSet(u) : Description(y)
        BY DEF Directory, ToSet, Settled
      <4> HIDE DEF s, t
      <4> QED
        BY <2>5, <2>6, <4>1
    <3>4. Description(q[j])
      BY <1>0, <2>1 DEF Settled, Open
    <3>5. Keeps(m, q[j])
      BY <3>1, <3>2, <3>3, <3>4, KeepsChain
    <3> QED
      BY <3>5
  <2>9. \A m \in ToSet(t) : \E j \in 1..k + 1 : m.ip = q[j].ip
    BY <2>3, <2>6, <2>7
  <2>10. \A j \in 1..k + 1 : \E m \in ToSet(t) : Keeps(m, q[j])
    <3> HIDE DEF t
    <3> QED
      BY <2>6, <2>7, <2>8 DEF d
  <2>11. Good(k + 1)
    BY <2>6, <2>9, <2>10
  <2> HIDE DEF Good
  <2> QED
    BY <2>1, <2>11
<1>4. Good(Len(q))
  <2>1. G \in SUBSET Nat
    OBVIOUS
  <2> HIDE DEF G
  <2>2. \A k \in 0..Len(q) : k \in G
    BY <1>0, <1>2, <1>3, <2>1, UpTo
  <2>3. Len(q) \in G
    BY <1>0, <2>2
  <2> USE DEF G
  <2> HIDE DEF Good
  <2> QED
    BY <2>3
<1>5. ToSet(q) = {q[j] : j \in 1..Len(q)}
  BY <1>0 DEF ToSet
<1> QED
  BY <1>1, <1>4, <1>5

\* Every device has an address: none goes behind the others.
LEMMA MergeDevicesKeeps ==
    ASSUME NEW q \in Seq(Devices)
    PROVE  /\ Directory(MergeGatewayDevices(q))
           /\ \A d \in ToSet(q) : \E m \in ToSet(MergeGatewayDevices(q)) : Keeps(m, d)
           /\ \A m \in ToSet(MergeGatewayDevices(q)) : m.ip \in Private
<1> DEFINE named == {d \in ToSet(q) : d.ip # ""}
<1>1. IsSlice(q) /\ ToSet(q) \subseteq Devices
  BY SliceOf DEF ToSet
<1>2. named = ToSet(q) /\ ToSet(q) \ named = {}
  <2>1. \A d \in ToSet(q) : d.ip # ""
    BY <1>1, DevicesOpen, PrivateAssumption, Zenon
  <2> QED
    BY <2>1, Zenon
<1>3. MergeGatewayDevices(q) = MergeByAddress(Those(q, named)) \o Those(q, ToSet(q) \ named)
  BY Zenon DEF MergeGatewayDevices
<1> DEFINE p == Those(q, ToSet(q))
           rest == Those(q, {})
<1>4. MergeGatewayDevices(q) = MergeByAddress(p) \o rest
  BY <1>2, <1>3, Zenon
<1> HIDE DEF named
<1>5. IsSlice(p) /\ ToSet(p) = ToSet(q) /\ IsSlice(rest) /\ ToSet(rest) = {}
  <2>1. \A S : IsSlice(Those(q, S)) /\ ToSet(Those(q, S)) = ToSet(q) \cap S
    BY <1>1, ThoseSlice
  <2>2. IsSlice(p) /\ ToSet(p) = ToSet(q) \cap ToSet(q)
    BY <2>1, Zenon
  <2>3. IsSlice(rest) /\ ToSet(rest) = ToSet(q) \cap {}
    BY <2>1, Zenon
  <2> QED
    BY <2>2, <2>3
<1> HIDE DEF p, rest
<1>6. \A i \in DOMAIN p : p[i] \in Devices
  BY <1>1, <1>5 DEF ToSet
<1>7. \A i \in DOMAIN p : Open(p[i])
  BY <1>6, DevicesOpen
<1> DEFINE merged == MergeByAddress(p)
<1>8. /\ Directory(merged)
      /\ \A d \in ToSet(p) : \E m \in ToSet(merged) : Keeps(m, d)
      /\ \A m \in ToSet(merged) : \E d \in ToSet(p) : m.ip = d.ip
  BY <1>5, <1>7, MergeByAddressKeeps
<1> HIDE DEF merged
<1>9. MergeGatewayDevices(q) = merged
  <2>1. rest = <<>>
    <3>1. Len(rest) \in Nat /\ DOMAIN rest = 1..Len(rest) /\ rest \in Seq({})
      BY <1>5, SliceIs DEF IsSlice
    <3> QED
      BY <3>1
  <2>2. merged \in Seq(ToSet(merged))
    BY <1>8 DEF Directory, IsSlice
  <2>3. merged \o <<>> = merged
    BY <2>2
  <2> QED
    BY <1>4, <2>1, <2>3 DEF merged
<1>10. \A m \in ToSet(merged) : m.ip \in Private
  <2>1. \A d \in ToSet(q) : d.ip \in Private
    BY <1>1, DevicesOpen
  <2> QED
    BY <1>5, <1>8, <2>1
<1> QED
  BY <1>5, <1>8, <1>9, <1>10

LEMMA FindingsInv == StageInv => GatewayFindingsKept
<1> SUFFICES ASSUME StageInv, stage = "merged" PROVE GatewayFindingsKept
  BY Zenon DEF GatewayFindingsKept, Merged
<1> DEFINE g == Gathered(Successful(results))
<1>1. ResultsOK(results) /\ bag = Reconcile(Aggregate(results))
  BY DEF StageInv
<1>2. bag.devices = MergeGatewayDevices(g.devices)
  BY <1>1, FinalBag, Zenon DEF Scored
<1>3. /\ g.devices \in Seq(Devices)
      /\ \A r \in ToSet(Successful(results)) : Described(r) \subseteq ToSet(g.devices)
  BY <1>1, GatheredBag, Zenon DEF BagTyped
<1> HIDE DEF g
<1>4. /\ Directory(bag.devices)
      /\ \A d \in ToSet(g.devices) : \E m \in ToSet(bag.devices) : Keeps(m, d)
  BY <1>2, <1>3, MergeDevicesKeeps
<1>5. \A i, j \in DOMAIN bag.devices : i # j /\ bag.devices[i].ip # "" => bag.devices[i].ip # bag.devices[j].ip
  BY <1>4, Zenon DEF Directory
<1>6. \A r \in ToSet(Successful(results)) : \A d \in ToSet(Get(r.ev, "gateway_devices", <<>>)) :
          \E m \in ToSet(bag.devices) : Keeps(m, d)
  BY <1>3, <1>4 DEF Described
<1> QED
  BY <1>5, <1>6, Zenon DEF GatewayFindingsKept, Keeps, Blank

\* The merge of the devices loses nothing: whatever the probes describe and however the
\* descriptions of one address contradict each other, every positive finding is in the one
\* device of that address.
THEOREM FindingsAlwaysKept == Spec => []GatewayFindingsKept
  BY StageInvHolds, FindingsInv, PTL

-----------------------------------------------------------------------------
(* The collection.                                                         *)

\* The source that is chosen is one of the sources.
LEMMA BestIn ==
    ASSUME NEW q, IsSlice(q), q # <<>>
    PROVE  BestSource(q) \in ToSet(q)
<1> DEFINE better(b, x) == IF GatewaySourceBetter(x, b) THEN x ELSE b
           base == Head(q)
           p == Tail(q)
           Sol(g) == g = [s \in SUBSET DOMAIN p |-> IF s = {} THEN base ELSE better(g[s \ {Max(s)}], p[Max(s)])]
           f == CHOOSE g : Sol(g)
<1>1. BestSource(q) = f[DOMAIN p]
  BY Zenon DEF FoldLeft, MapThenFoldSet, BestSource
<1>2. IsSlice(p) /\ base \in ToSet(q) /\ ToSet(p) \subseteq ToSet(q)
  <2>1. q \in Seq(ToSet(q)) /\ Len(q) \in Nat /\ DOMAIN q = 1..Len(q)
    BY SliceIs DEF IsSlice
  <2>2. p \in Seq(ToSet(q)) /\ base \in ToSet(q)
    BY <2>1
  <2> HIDE DEF p
  <2>3. ToSet(p) \subseteq ToSet(q)
    BY <2>2 DEF ToSet
  <2> QED
    BY <2>2, <2>3, SliceOf
<1> HIDE DEF base, p
<1>3. \A b, x : Round("best", b, x) = better(b, x)
  BY Rounds, Zenon
<1> HIDE DEF better
<1>4. \A g : Solves(g, "best", base, p) <=> Sol(g)
  BY <1>3 DEF Solves
<1> HIDE DEF Sol
<1>5. \E g : Sol(g)
  BY <1>2, <1>4, LoopExists
<1>6. Solves(f, "best", base, p)
  BY <1>4, <1>5, Zenon
<1> HIDE DEF f
<1>7. PICK acc : Runs(acc, "best", base, p) /\ acc[Len(p)] = f[DOMAIN p]
  BY <1>2, <1>6, LoopRuns
<1>0. Len(p) \in Nat /\ DOMAIN p = 1..Len(p)
  BY <1>2, SliceIs
<1> DEFINE G == {k \in Nat : acc[k] \in ToSet(q)}
<1>8. 0 \in G
  BY <1>2, <1>7 DEF Runs
<1>9. ASSUME NEW k \in 0..Len(p) - 1, k \in G PROVE k + 1 \in G
  <2>1. k + 1 \in 1..Len(p) /\ (k + 1) - 1 = k /\ k + 1 \in Nat
    BY <1>0
  <2>2. acc[k + 1] = better(acc[k], p[k + 1])
    BY <1>3, <1>7, <2>1 DEF Runs
  <2>3. p[k + 1] \in ToSet(q)
    BY <1>0, <1>2, <2>1 DEF ToSet
  <2>4. acc[k] \in ToSet(q)
    BY <1>9
  <2> QED
    BY <2>1, <2>2, <2>3, <2>4 DEF better
<1>10. Len(p) \in G
  <2>1. G \in SUBSET Nat
    OBVIOUS
  <2> HIDE DEF G
  <2>2. \A k \in 0..Len(p) : k \in G
    BY <1>0, <1>8, <1>9, <2>1, UpTo
  <2> QED
    BY <1>0, <2>2
<1> QED
  BY <1>1, <1>7, <1>10

LEMMA PrivateChainSlice ==
    ASSUME NEW hops, IsSlice(hops), NEW skipped
    PROVE  IsSlice(PrivateChain(hops, skipped))
<1> DEFINE seen == Those(hops, ToSet(hops) \ skipped)
           public == {i \in DOMAIN seen : seen[i] \notin Private}
           private == IF public = {} THEN seen ELSE SubSeq(seen, 1, Min(public) - 1)
<1>1. PrivateChain(hops, skipped) = AppendAllUnique(<<>>, private)
  BY Zenon DEF PrivateChain
<1>2. IsSlice(seen)
  BY ThoseSlice
<1> HIDE DEF seen
<1>3. Len(seen) \in Nat /\ DOMAIN seen = 1..Len(seen) /\ seen \in Seq(ToSet(seen))
  BY <1>2, SliceIs DEF IsSlice
<1>4. ASSUME public # {} PROVE Min(public) \in 1..Len(seen)
  <2>1. public \in SUBSET Nat /\ public \subseteq 1..Len(seen)
    BY <1>3
  <2>2. Min(public) \in public
    BY <1>4, <2>1, MinIn
  <2> QED
    BY <2>1, <2>2
<1> DEFINE m == Min(public)
<1>5. ASSUME public # {} PROVE IsSlice(SubSeq(seen, 1, m - 1))
  <2>1. m \in 1..Len(seen)
    BY <1>4, <1>5
  <2> HIDE DEF m
  <2>2. SubSeq(seen, 1, m - 1) \in Seq(ToSet(seen))
    BY <1>3, <2>1
  <2> QED
    BY <2>2, SliceOf
<1>6. IsSlice(private)
  BY <1>2, <1>5
<1> HIDE DEF private
<1>7. \A s, q : IsSlice(s) /\ IsSlice(q) => IsSlice(AppendAllUnique(s, q))
  BY UniqueIn, Zenon
<1>8. IsSlice(<<>>)
  BY TuplesAreSlices
<1> QED
  BY <1>1, <1>6, <1>7, <1>8, Zenon

\* The sources of a list bring slices for chains.
Chained(sources) == \A s \in ToSet(sources) : IsSlice(s.chain)

LEMMA ChainSourceChained ==
    ASSUME NEW source, NEW hops, IsSlice(hops), NEW me, NEW conf
    PROVE  Chained(ChainSource(source, hops, me, conf))
<1> DEFINE chain == PrivateChain(hops, {"", "*", me})
           x == [source |-> source, chain |-> chain, double |-> Len(chain) >= 2, conf |-> conf]
<1>1. ChainSource(source, hops, me, conf) = IF chain = <<>> THEN <<>> ELSE <<x>>
  BY Zenon DEF ChainSource
<1>2. x.chain = chain /\ IsSlice(chain)
  BY PrivateChainSlice, Zenon
<1> HIDE DEF chain, x
<1>3. ToSet(<<>>) = {} /\ ToSet(<<x>>) = {x}
  BY DEF ToSet
<1> QED
  BY <1>1, <1>2, <1>3 DEF Chained

LEMMA SourceChained ==
    ASSUME NEW r, Reported(r.name, r), NEW gw, NEW me
    PROVE  Chained(SourceOf(r, gw, me))
<1>1. \A source, hops, conf : IsSlice(hops) => Chained(ChainSource(source, hops, me, conf))
  BY ChainSourceChained
<1>2. IsSlice(Get(r.ev, "hops", <<>>)) /\ IsSlice(Get(r.ev, "gateway_chain", <<>>))
  <2>1. Get(r.ev, "hops", <<>>) \in Seq(STRING) /\ Get(r.ev, "gateway_chain", <<>>) \in Seq(STRING)
    BY EvidenceTypes
  <2> QED
    BY <2>1, SliceOf
<1>3. \A x : IsSlice(<<x>>)
  BY TuplesAreSlices, Zenon
<1> DEFINE x == [source |-> r.name, chain |-> <<>>,
                 double |-> r.ev["nat_topology"].internal \/ r.ev["nat_topology"].double,
                 conf |-> MaxOf(r.conf, Get(r.ev, "network_confidence", 0))]
<1>4. Chained(<<>>) /\ Chained(<<x>>)
  <2>1. x.chain = <<>> /\ IsSlice(<<>>)
    BY TuplesAreSlices
  <2> HIDE DEF x
  <2>2. ToSet(<<>>) = {} /\ ToSet(<<x>>) = {x}
    BY DEF ToSet
  <2> QED
    BY <2>1, <2>2 DEF Chained
<1>5. CASE r.name = "gateway_probe"
  <2> DEFINE hops == <<FirstNonEmpty(Get(r.ev, "gateway", ""), gw)>>
  <2>1. SourceOf(r, gw, me) = ChainSource(r.name, hops, me, MaxOf(r.conf, 35))
    BY <1>5, Zenon DEF SourceOf
  <2>2. IsSlice(hops)
    BY <1>3, Zenon
  <2> HIDE DEF hops
  <2> QED
    BY <1>1, <2>1, <2>2, Zenon
<1>6. CASE r.name = "traceroute_probe"
  BY <1>1, <1>2, <1>6 DEF SourceOf
<1>7. CASE r.name \in {"gateway_chain_probe", "upstream_private_cpe_probe"}
  BY <1>1, <1>2, <1>7 DEF SourceOf
<1>8. CASE r.name = "stun_pcp_nat_probe" /\ "nat_topology" \in DOMAIN r.ev
  <2>1. SourceOf(r, gw, me) = <<x>>
    BY <1>8 DEF SourceOf
  <2> HIDE DEF x
  <2> QED
    BY <1>4, <2>1
<1>9. CASE /\ r.name \notin {"gateway_probe", "traceroute_probe", "gateway_chain_probe", "upstream_private_cpe_probe"}
           /\ ~(r.name = "stun_pcp_nat_probe" /\ "nat_topology" \in DOMAIN r.ev)
  <2>1. SourceOf(r, gw, me) = <<>>
    BY <1>9, Zenon DEF SourceOf
  <2> QED
    BY <1>4, <2>1
<1> QED
  BY <1>5, <1>6, <1>7, <1>8, <1>9

LEMMA HopsSlice ==
    ASSUME NEW rs, ResultsOK(rs), NEW gw, NEW me
    PROVE  IsSlice(ResolveGatewayChainState(rs, gw, me).chain)
<1> DEFINE ok == Successful(rs)
           route == IF gw \in Private THEN ChainSource("route_table", <<gw>>, me, 40) ELSE <<>>
           parts == [i \in DOMAIN ok |-> SourceOf(ok[i], gw, me)]
           sources == route \o Flattened(parts)
           told == {s \in ToSet(sources) : s.chain # <<>>}
           chained == Those(sources, told)
           none == [chain |-> <<>>, conf |-> 0]
           best == IF chained = <<>> THEN none ELSE BestSource(chained)
<1>1. ResolveGatewayChainState(rs, gw, me).chain = best.chain
  BY Zenon DEF ResolveGatewayChainState, ChainState, ChainSources
<1>2. IsSlice(ok) /\ \A r \in ToSet(ok) : Reported(r.name, r)
  BY SuccessfulIn
<1> HIDE DEF ok
<1>0. Len(ok) \in Nat /\ DOMAIN ok = 1..Len(ok)
  BY <1>2, SliceIs
<1>3. \A i \in DOMAIN ok : ok[i] \in ToSet(ok)
  BY DEF ToSet
<1>4. IsSlice(route) /\ Chained(route)
  <2>1. IsSlice(<<>>) /\ IsSlice(<<gw>>) /\ ToSet(<<>>) = {}
    BY TuplesAreSlices DEF ToSet
  <2>2. \A source, hops, conf : IsSlice(hops) => /\ Chained(ChainSource(source, hops, me, conf))
                                                 /\ IsSlice(ChainSource(source, hops, me, conf))
    BY ChainSourceChained, ChainSourceIs, Zenon
  <2>3. Chained(<<>>)
    BY <2>1 DEF Chained
  <2> QED
    BY <2>1, <2>2, <2>3, Zenon
<1>5. IsSlice(parts) /\ DOMAIN parts = DOMAIN ok
  <2>1. parts \in Seq({SourceOf(ok[j], gw, me) : j \in DOMAIN ok})
    BY <1>0
  <2> QED
    BY <2>1, SliceOf
<1>6. \A j \in DOMAIN parts : IsSlice(parts[j]) /\ Chained(parts[j])
  BY <1>2, <1>3, <1>5, SourceSlice, SourceChained
<1> HIDE DEF route, parts
<1>7. /\ IsSlice(Flattened(parts))
      /\ ToSet(Flattened(parts)) = UNION {ToSet(parts[i]) : i \in DOMAIN parts}
  BY <1>5, <1>6, FlattenedIn
<1>8. IsSlice(sources) /\ ToSet(sources) = ToSet(route) \cup ToSet(Flattened(parts))
  BY <1>4, <1>7, JoinIn
<1> HIDE DEF sources
<1>9. Chained(sources)
  BY <1>4, <1>6, <1>7, <1>8 DEF Chained
<1>10. IsSlice(chained) /\ ToSet(chained) \subseteq ToSet(sources)
  <2>1. \A S : IsSlice(Those(sources, S)) /\ ToSet(Those(sources, S)) = ToSet(sources) \cap S
    BY <1>8, ThoseSlice
  <2>2. IsSlice(chained) /\ ToSet(chained) = ToSet(sources) \cap told
    BY <2>1, Zenon
  <2> QED
    BY <2>2
<1> HIDE DEF chained
<1>11. CASE chained = <<>>
  <2>1. best.chain = <<>>
    BY <1>11
  <2> QED
    BY <1>1, <2>1, TuplesAreSlices
<1>12. CASE chained # <<>>
  <2>1. BestSource(chained) \in ToSet(sources)
    BY <1>10, <1>12, BestIn
  <2>2. best = BestSource(chained)
    BY <1>12
  <2> HIDE DEF best
  <2> QED
    BY <1>1, <1>9, <2>1, <2>2 DEF Chained
<1> QED
  BY <1>11, <1>12

\* An entry of the store: the state follows from the reachability.
Entry(e) ==
    /\ DOMAIN e = DeviceFields
    /\ IsSlice(e.physhints) /\ e.reachable \in BOOLEAN /\ e.observed \in BOOLEAN
    /\ e.rstate \in {"unknown", "false", "true"} /\ (e.reachable <=> e.rstate = "true")

\* Nothing is known but the address, as of a hop.
Bare(e) ==
    /\ e.rstate = "unknown" /\ ~e.observed
    /\ e.found = {} /\ e.wantype = {} /\ e.access = {} /\ e.physhints = <<>>

\* e says of its address what the device d says.
Tells(e, d) ==
    /\ e.rstate = d.rstate /\ e.observed = d.observed
    /\ e.found = d.found /\ e.wantype = d.wantype /\ e.access = d.access
    /\ ToSet(d.physhints) \ {Blank} \subseteq ToSet(e.physhints) /\ ToSet(e.physhints) \subseteq ToSet(d.physhints)

LEMMA NormalEntry ==
    ASSUME NEW e, Entry(e)
    PROVE  /\ Entry(NormalizeDevice(e)) /\ NormalizeDevice(e).ip = e.ip
           /\ NormalizeDevice(e).rstate = e.rstate /\ NormalizeDevice(e).found = e.found
           /\ NormalizeDevice(e).wantype = e.wantype /\ NormalizeDevice(e).physhints = e.physhints
           /\ NormalizeDevice(e).reachable = e.reachable
           /\ NormalizeDevice(e).observed = e.observed /\ NormalizeDevice(e).access = e.access
<1> DEFINE v == IF e.reachable THEN "true" ELSE IF e.rstate = "" THEN "unknown" ELSE e.rstate
           w(x) == IF x # "" THEN x
                   ELSE IF "tr064" \in e.found THEN "true"
                   ELSE IF "auth" \in e.found THEN "auth_required" ELSE "unknown"
           n == [e EXCEPT !.rstate = v, !.tr064 = w(@)]
<1>1. NormalizeDevice(e) = n
  BY Zenon DEF NormalizeDevice
<1>2. v = e.rstate
  <2>1. e.rstate # Blank
    <3>1. "unknown" # Blank /\ "false" # Blank /\ "true" # Blank
      BY Zenon DEF Blank
    <3> QED
      BY <3>1 DEF Entry
  <2>2. v = IF e.reachable THEN "true" ELSE IF e.rstate = Blank THEN "unknown" ELSE e.rstate
    BY Zenon DEF Blank
  <2> HIDE DEF v
  <2> QED
    BY <2>1, <2>2 DEF Entry
<1> HIDE DEF v, w
<1>3. /\ DOMAIN e = DeviceFields
      /\ {"ip", "rstate", "tr064", "found", "observed", "wantype", "access", "physhints", "reachable"} \subseteq DeviceFields
  BY DEF Entry, DeviceFields
<1>4. /\ DOMAIN n = DeviceFields /\ n.ip = e.ip /\ n.rstate = v /\ n.found = e.found /\ n.wantype = e.wantype
      /\ n.physhints = e.physhints /\ n.reachable = e.reachable /\ n.observed = e.observed /\ n.access = e.access
  BY <1>3
<1> HIDE DEF n
<1>5. Entry(n)
  BY <1>2, <1>4 DEF Entry
<1> QED
  BY <1>1, <1>2, <1>4, <1>5

LEMMA MergeEntry ==
    ASSUME NEW x, Entry(x), NEW y, Entry(y)
    PROVE  /\ Entry(MergeDevice(x, y)) /\ MergeDevice(x, y).ip = x.ip
           /\ Bare(x) /\ Bare(y) => Bare(MergeDevice(x, y))
           /\ \A d : \/ Bare(x) /\ Tells(y, d)
                     \/ Tells(x, d) /\ (Bare(y) \/ Tells(y, d))
                     => Tells(MergeDevice(x, y), d)
<1> DEFINE a == NormalizeDevice(x)
           b == NormalizeDevice(y)
           found == a.found \cup b.found
           r == [ip        |-> a.ip,
                 role      |-> IF RolePriority(b.role) > RolePriority(a.role) THEN b.role ELSE a.role,
                 reachable |-> a.reachable \/ b.reachable,
                 rstate    |-> MergeReachableState(a.rstate, b.rstate),
                 found     |-> found,
                 tr064     |-> MergeFeatureState(a.tr064, b.tr064, "tr064" \in found),
                 observed  |-> a.observed \/ b.observed,
                 wantype   |-> FirstNeedles(a.wantype, b.wantype),
                 link      |-> FirstNeedles(a.link, b.link),
                 access    |-> a.access \cup b.access,
                 model     |-> FirstNeedles(a.model, b.model),
                 services  |-> a.services \cup b.services,
                 hints     |-> AppendAllUnique(a.hints, b.hints),
                 physhints |-> AppendAllUnique(a.physhints, b.physhints),
                 devconf   |-> MaxOf(a.devconf, b.devconf),
                 accconf   |-> MaxOf(a.accconf, b.accconf)]
           m == MergeDevice(x, y)
<1>1. m = NormalizeDevice(r)
  BY Zenon DEF MergeDevice
<1>2. /\ a.ip = x.ip /\ a.rstate = x.rstate /\ a.found = x.found /\ a.wantype = x.wantype
      /\ a.physhints = x.physhints /\ a.reachable = x.reachable /\ a.observed = x.observed /\ a.access = x.access
      /\ b.ip = y.ip /\ b.rstate = y.rstate /\ b.found = y.found /\ b.wantype = y.wantype
      /\ b.physhints = y.physhints /\ b.reachable = y.reachable /\ b.observed = y.observed /\ b.access = y.access
  BY NormalEntry
<1> HIDE DEF a, b
<1>3. /\ DOMAIN r = DeviceFields /\ r.ip = a.ip /\ r.reachable = (a.reachable \/ b.reachable)
      /\ r.rstate = MergeReachableState(a.rstate, b.rstate) /\ r.found = a.found \cup b.found
      /\ r.wantype = FirstNeedles(a.wantype, b.wantype) /\ r.physhints = AppendAllUnique(a.physhints, b.physhints)
      /\ r.observed = (a.observed \/ b.observed) /\ r.access = a.access \cup b.access
  BY DEF DeviceFields
<1> HIDE DEF r
<1>4. /\ r.ip = x.ip /\ r.reachable = (x.reachable \/ y.reachable)
      /\ r.rstate = MergeReachableState(x.rstate, y.rstate) /\ r.found = x.found \cup y.found
      /\ r.wantype = (IF x.wantype # {} THEN x.wantype ELSE y.wantype)
      /\ r.physhints = AppendAllUnique(x.physhints, y.physhints)
      /\ r.observed = (x.observed \/ y.observed) /\ r.access = x.access \cup y.access
  BY <1>2, <1>3 DEF FirstNeedles
<1>5. IsSlice(r.physhints) /\ ToSet(r.physhints) = ToSet(x.physhints) \cup (ToSet(y.physhints) \ {Blank})
  <2>1. IsSlice(x.physhints) /\ IsSlice(y.physhints)
    BY DEF Entry
  <2>2. \A s, q : IsSlice(s) /\ IsSlice(q) =>
            /\ IsSlice(AppendAllUnique(s, q))
            /\ ToSet(AppendAllUnique(s, q)) = ToSet(s) \cup (ToSet(q) \ {Blank})
    BY UniqueIn, Zenon DEF Blank
  <2> QED
    BY <1>4, <2>1, <2>2
<1>6. /\ r.rstate \in {"unknown", "false", "true"} /\ (r.reachable <=> r.rstate = "true") /\ r.reachable \in BOOLEAN
      /\ x.rstate = "unknown" => r.rstate = y.rstate
      /\ y.rstate = "unknown" => r.rstate = x.rstate
      /\ x.rstate = y.rstate => r.rstate = x.rstate
  BY <1>4 DEF Entry, MergeReachableState
<1>7. Entry(r) /\ x.observed \in BOOLEAN /\ y.observed \in BOOLEAN
  BY <1>3, <1>4, <1>5, <1>6 DEF Entry
<1>8. /\ Entry(m) /\ m.ip = r.ip /\ m.rstate = r.rstate /\ m.found = r.found /\ m.wantype = r.wantype
      /\ m.physhints = r.physhints /\ m.observed = r.observed /\ m.access = r.access
  BY <1>1, <1>7, NormalEntry
<1> HIDE DEF m
<1>9. ASSUME Bare(x), Bare(y) PROVE Bare(m)
  <2>1. ToSet(<<>>) = {}
    BY DEF ToSet
  <2>2. ToSet(r.physhints) = {}
    BY <1>5, <1>9, <2>1 DEF Bare
  <2>3. r.physhints = <<>>
    <3>1. r.physhints \in Seq({})
      BY <1>5, <2>2 DEF IsSlice
    <3> QED
      BY <3>1
  <2> QED
    BY <1>4, <1>6, <1>7, <1>8, <1>9, <2>3 DEF Bare
<1>10. ASSUME NEW d, Bare(x), Tells(y, d) PROVE Tells(m, d)
  <2>1. ToSet(<<>>) = {}
    BY DEF ToSet
  <2> QED
    BY <1>4, <1>5, <1>6, <1>7, <1>8, <1>10, <2>1 DEF Bare, Tells
<1>11. ASSUME NEW d, Tells(x, d), Bare(y) PROVE Tells(m, d)
  <2>1. ToSet(<<>>) = {}
    BY DEF ToSet
  <2> QED
    BY <1>4, <1>5, <1>6, <1>7, <1>8, <1>11, <2>1 DEF Bare, Tells
<1>12. ASSUME NEW d, Tells(x, d), Tells(y, d) PROVE Tells(m, d)
  BY <1>4, <1>5, <1>6, <1>7, <1>8, <1>12 DEF Tells
<1> QED
  BY <1>4, <1>8, <1>9, <1>10, <1>11, <1>12 DEF m

\* One entry per address.
Store(s) ==
    /\ IsSlice(s)
    /\ \A i \in DOMAIN s : Entry(s[i])
    /\ \A i, j \in DOMAIN s : s[i].ip = s[j].ip => i = j

LEMMA StoreOne ==
    ASSUME NEW s, Store(s), NEW y, Entry(y)
    PROVE  /\ Store(StoreDevice(s, y))
           /\ {e.ip : e \in ToSet(StoreDevice(s, y))} = {e.ip : e \in ToSet(s)} \cup {y.ip}
           /\ \A e \in ToSet(StoreDevice(s, y)) :
                 \/ e \in ToSet(s) /\ e.ip # y.ip
                 \/ e = NormalizeDevice(y) /\ \A x \in ToSet(s) : x.ip # y.ip
                 \/ \E x \in ToSet(s) : x.ip = y.ip /\ e = MergeDevice(x, y)
<1> DEFINE at == {i \in DOMAIN s : s[i].ip = y.ip}
           n == NormalizeDevice(y)
           t == StoreDevice(s, y)
<1>0. Len(s) \in Nat /\ DOMAIN s = 1..Len(s) /\ s = [i \in 1..Len(s) |-> s[i]]
  BY SliceIs DEF Store
<1>1. ToSet(s) = {s[i] : i \in 1..Len(s)}
  BY <1>0 DEF ToSet
<1>2. Entry(n) /\ n.ip = y.ip
  BY NormalEntry
<1>3. \A i, j \in 1..Len(s) : s[i].ip = s[j].ip => i = j
  BY <1>0 DEF Store
<1>4. CASE at = {}
  <2>1. t = Append(s, n)
    BY <1>4, Zenon DEF StoreDevice
  <2>2. IsSlice(t) /\ ToSet(t) = ToSet(s) \cup {n}
    BY <2>1, AppendIn DEF Store
  <2>3. DOMAIN t = 1..Len(s) + 1 /\ t[Len(s) + 1] = n /\ \A i \in 1..Len(s) : t[i] = s[i]
    <3>1. s \in Seq(ToSet(s) \cup {n})
      BY DEF Store, IsSlice
    <3> QED
      BY <1>0, <2>1, <3>1
  <2>4. 1..Len(s) + 1 = 1..Len(s) \cup {Len(s) + 1}
    BY <1>0
  <2>5. \A i \in 1..Len(s) : s[i].ip # y.ip
    BY <1>0, <1>4
  <2> HIDE DEF t, n, at
  <2>6. Store(t)
    <3>1. \A i \in DOMAIN t : Entry(t[i])
      BY <1>0, <1>2, <2>3, <2>4 DEF Store
    <3>2. \A i, j \in DOMAIN t : t[i].ip = t[j].ip => i = j
      BY <1>2, <1>3, <2>3, <2>4, <2>5
    <3> QED
      BY <2>2, <3>1, <3>2 DEF Store
  <2>7. {e.ip : e \in ToSet(t)} = {e.ip : e \in ToSet(s)} \cup {y.ip}
    BY <1>2, <2>2
  <2>8. \A e \in ToSet(t) : \/ e \in ToSet(s) /\ e.ip # y.ip
                            \/ e = n /\ \A x \in ToSet(s) : x.ip # y.ip
    BY <1>1, <2>2, <2>5
  <2> QED
    BY <2>6, <2>7, <2>8 DEF t, n
<1>5. CASE at # {}
  <2>1. Min(at) \in at
    <3>1. at \in SUBSET Nat
      BY <1>0
    <3> QED
      BY <1>5, <3>1, MinIn
  <2> DEFINE k == Min(at)
             merged == MergeDevice(s[k], y)
  <2>2. t = [s EXCEPT ![k] = merged]
    BY <1>5, Zenon DEF StoreDevice
  <2>3. k \in 1..Len(s) /\ s[k].ip = y.ip
    BY <1>0, <2>1
  <2> HIDE DEF t, at, n, k
  <2>4. Entry(merged) /\ merged.ip = y.ip
    <3>1. Entry(s[k])
      BY <1>0, <2>3 DEF Store
    <3> QED
      BY <2>3, <3>1, MergeEntry
  <2>5. \E x \in ToSet(s) : x.ip = y.ip /\ merged = MergeDevice(x, y)
    BY <1>1, <2>3
  <2> HIDE DEF merged
  <2>6. DOMAIN t = 1..Len(s) /\ t[k] = merged /\ \A i \in 1..Len(s) : i # k => t[i] = s[i]
    BY <1>0, <2>2, <2>3
  <2>7. ToSet(t) = {t[i] : i \in 1..Len(s)}
    BY <2>6 DEF ToSet
  <2>8. IsSlice(t)
    <3>1. t = [i \in 1..Len(s) |-> t[i]]
      BY <1>0, <2>2
    <3>2. t \in Seq(ToSet(t))
      BY <1>0, <2>7, <3>1
    <3> QED
      BY <3>2 DEF IsSlice
  <2>9. \A i \in 1..Len(s) : t[i].ip = s[i].ip
    BY <2>3, <2>4, <2>6
  <2>10. Store(t)
    <3>1. \A i \in DOMAIN t : Entry(t[i])
      BY <1>0, <2>4, <2>6 DEF Store
    <3>2. \A i, j \in DOMAIN t : t[i].ip = t[j].ip => i = j
      BY <1>3, <2>6, <2>9
    <3> QED
      BY <2>8, <3>1, <3>2 DEF Store
  <2>11. {e.ip : e \in ToSet(t)} = {e.ip : e \in ToSet(s)} \cup {y.ip}
    BY <1>1, <2>3, <2>7, <2>9
  <2>12. \A e \in ToSet(t) : \/ e \in ToSet(s) /\ e.ip # y.ip
                             \/ e = merged
    BY <1>1, <1>3, <2>3, <2>6, <2>7
  <2> QED
    BY <2>5, <2>10, <2>11, <2>12 DEF t
<1> QED
  BY <1>4, <1>5

\* What goes into the store: bare addresses, and what the devices of D say.
Feeds(y, D) == Entry(y) /\ (Bare(y) \/ \E d \in D : y.ip = d.ip /\ Tells(y, d))

\* The entries name every address of q once, and say of a device that q has what it says.
LEMMA StoreTells ==
    ASSUME NEW D, \A d, e \in D : d.ip = e.ip => d = e,
           NEW q, IsSlice(q), \A i \in DOMAIN q : Feeds(q[i], D)
    PROVE  /\ Store(StoreDevices(q))
           /\ {e.ip : e \in ToSet(StoreDevices(q))} = {y.ip : y \in ToSet(q)}
           /\ \A e \in ToSet(StoreDevices(q)) : \A y \in ToSet(q) : \A d \in D :
                 e.ip = d.ip /\ y.ip = d.ip /\ Tells(y, d) => Tells(e, d)
<1>0. Len(q) \in Nat /\ DOMAIN q = 1..Len(q)
  BY SliceIs
<1>1. PICK acc : /\ acc[0] = <<>> /\ StoreDevices(q) = acc[Len(q)]
                 /\ \A k \in 1..Len(q) : acc[k] = StoreDevice(acc[k - 1], q[k])
  BY StoreRun
<1> DEFINE Addresses(k) == {e.ip : e \in ToSet(acc[k])} = {q[j].ip : j \in 1..k}
           Known(k) == \A e \in ToSet(acc[k]) : \A d \in D : e.ip = d.ip => Bare(e) \/ Tells(e, d)
           Told(k) == \A e \in ToSet(acc[k]) : \A j \in 1..k : \A d \in D :
                         e.ip = d.ip /\ q[j].ip = d.ip /\ Tells(q[j], d) => Tells(e, d)
           Good(k) == Store(acc[k]) /\ Addresses(k) /\ Known(k) /\ Told(k)
           G == {k \in Nat : Good(k)}
<1>2. 0 \in G
  <2>1. IsSlice(<<>>) /\ ToSet(<<>>) = {} /\ DOMAIN <<>> = {}
    BY DEF IsSlice, ToSet
  <2> QED
    BY <1>1, <2>1 DEF Store
<1>3. ASSUME NEW k \in 0..Len(q) - 1, k \in G PROVE k + 1 \in G
  <2>1. k + 1 \in 1..Len(q) /\ (k + 1) - 1 = k /\ k \in Nat /\ k + 1 \in Nat /\ 1..k + 1 = 1..k \cup {k + 1}
    BY <1>0
  <2> DEFINE s == acc[k]
             t == acc[k + 1]
             y == q[k + 1]
  <2>2. t = StoreDevice(s, y)
    BY <1>1, <2>1
  <2>3. Feeds(y, D)
    BY <1>0, <2>1
  <2>4. Entry(y)
    BY <2>3 DEF Feeds
  <2>5. /\ Store(s)
        /\ {e.ip : e \in ToSet(s)} = {q[j].ip : j \in 1..k}
        /\ \A e \in ToSet(s) : \A d \in D : e.ip = d.ip => Bare(e) \/ Tells(e, d)
        /\ \A e \in ToSet(s) : \A j \in 1..k : \A d \in D :
              e.ip = d.ip /\ q[j].ip = d.ip /\ Tells(q[j], d) => Tells(e, d)
    BY <1>3
  <2> HIDE DEF s, t, y
  <2>6. /\ Store(t)
        /\ {e.ip : e \in ToSet(t)} = {e.ip : e \in ToSet(s)} \cup {y.ip}
        /\ \A e \in ToSet(t) :
              \/ e \in ToSet(s) /\ e.ip # y.ip
              \/ e = NormalizeDevice(y) /\ \A x \in ToSet(s) : x.ip # y.ip
              \/ \E x \in ToSet(s) : x.ip = y.ip /\ e = MergeDevice(x, y)
    BY <2>2, <2>4, <2>5, StoreOne
  <2>7. \A x \in ToSet(s) : Entry(x)
    BY <2>5 DEF Store, ToSet
  <2>8. ASSUME NEW e \in ToSet(t), NEW d \in D, e.ip = d.ip
        PROVE  /\ Bare(e) \/ Tells(e, d)
               /\ \A j \in 1..k + 1 : q[j].ip = d.ip /\ Tells(q[j], d) => Tells(e, d)
    <3>1. CASE e \in ToSet(s) /\ e.ip # y.ip
      <4>1. Bare(e) \/ Tells(e, d)
        BY <2>5, <2>8, <3>1
      <4>2. \A j \in 1..k : q[j].ip = d.ip /\ Tells(q[j], d) => Tells(e, d)
        BY <2>5, <2>8, <3>1
      <4>3. q[k + 1].ip # d.ip
        BY <2>8, <3>1 DEF y
      <4> QED
        BY <2>1, <4>1, <4>2, <4>3
    <3>2. y.ip = d.ip => Bare(y) \/ Tells(y, d)
      BY <2>3 DEF Feeds
    <3>3. CASE e = NormalizeDevice(y) /\ \A x \in ToSet(s) : x.ip # y.ip
      <4>1. y.ip = d.ip /\ (Bare(y) => Bare(e)) /\ (Tells(y, d) => Tells(e, d))
        BY <2>4, <2>8, <3>3, NormalEntry DEF Bare, Tells
      <4>2. \A j \in 1..k : q[j].ip # d.ip
        BY <2>5, <3>3, <4>1
      <4>3. q[k + 1].ip = d.ip /\ Tells(q[k + 1], d) => Tells(e, d)
        BY <4>1 DEF y
      <4> QED
        BY <2>1, <3>2, <4>1, <4>2, <4>3
    <3>4. CASE \E x \in ToSet(s) : x.ip = y.ip /\ e = MergeDevice(x, y)
      <4>1. PICK x \in ToSet(s) : x.ip = y.ip /\ e = MergeDevice(x, y)
        BY <3>4
      <4>2. /\ e.ip = x.ip /\ (Bare(x) /\ Bare(y) => Bare(e))
            /\ Bare(x) /\ Tells(y, d) => Tells(e, d)
            /\ Tells(x, d) /\ (Bare(y) \/ Tells(y, d)) => Tells(e, d)
        BY <2>4, <2>7, <4>1, MergeEntry
      <4>3. x.ip = d.ip /\ y.ip = d.ip
        BY <2>8, <4>1, <4>2
      <4>4. /\ Bare(x) \/ Tells(x, d)
            /\ \A j \in 1..k : q[j].ip = d.ip /\ Tells(q[j], d) => Tells(x, d)
        BY <2>5, <4>3
      <4>5. q[k + 1].ip = d.ip /\ Tells(q[k + 1], d) => Tells(e, d)
        BY <4>2, <4>4 DEF y
      <4> QED
        BY <2>1, <3>2, <4>2, <4>3, <4>4, <4>5
    <3> QED
      BY <2>6, <3>1, <3>3, <3>4
  <2>9. {e.ip : e \in ToSet(t)} = {q[j].ip : j \in 1..k + 1}
    <3>1. {q[j].ip : j \in 1..k + 1} = {q[j].ip : j \in 1..k} \cup {q[k + 1].ip}
      BY <2>1
    <3> QED
      BY <2>5, <2>6, <3>1 DEF y
  <2>10. Good(k + 1)
    <3>1. Known(k + 1) /\ Told(k + 1)
      BY <2>8 DEF t
    <3> QED
      BY <2>6, <2>9, <3>1 DEF t
  <2> HIDE DEF Good
  <2> QED
    BY <2>1, <2>10
<1>4. Good(Len(q))
  <2>1. G \in SUBSET Nat
    OBVIOUS
  <2> HIDE DEF G
  <2>2. \A k \in 0..Len(q) : k \in G
    BY <1>0, <1>2, <1>3, <2>1, UpTo
  <2>3. Len(q) \in G
    BY <1>0, <2>2
  <2> USE DEF G
  <2> HIDE DEF Good
  <2> QED
    BY <2>3
<1>5. ToSet(q) = {q[j] : j \in 1..Len(q)}
  BY <1>0 DEF ToSet
<1>6. {y.ip : y \in ToSet(q)} = {q[j].ip : j \in 1..Len(q)}
  BY <1>5
<1> DEFINE t == acc[Len(q)]
<1>7. Store(t) /\ {e.ip : e \in ToSet(t)} = {q[j].ip : j \in 1..Len(q)}
  BY <1>4
<1>8. \A e \in ToSet(t) : \A y \in ToSet(q) : \A d \in D :
         e.ip = d.ip /\ y.ip = d.ip /\ Tells(y, d) => Tells(e, d)
  BY <1>4, <1>5
<1> HIDE DEF t
<1>9. StoreDevices(q) = t
  BY <1>1 DEF t
<1> QED
  BY <1>6, <1>7, <1>8, <1>9

LEMMA HopBare ==
    ASSUME NEW ip, NEW role, NEW conf
    PROVE  Entry(Hop(ip, role, conf)) /\ Bare(Hop(ip, role, conf)) /\ Hop(ip, role, conf).ip = ip
<1> DEFINE h == Hop(ip, role, conf)
<1>1. DOMAIN h = DeviceFields
  BY DEF Hop, DeviceFields
<1>2. /\ h.ip = ip /\ h.reachable = FALSE /\ h.rstate = "unknown" /\ h.found = {} /\ h.wantype = {}
      /\ h.physhints = <<>> /\ h.observed = FALSE /\ h.access = {}
  BY Zenon DEF Hop
<1> HIDE DEF h
<1>5. Entry(h) /\ Bare(h)
  BY <1>1, <1>2, TuplesAreSlices DEF Entry, Bare
<1> QED
  BY <1>2, <1>5, Zenon DEF h

\* A device on its way to the collection: its role, when the report has none, from what was found.
Roled(d) == [d EXCEPT !.role = FirstNonEmpty(@, RoleFromEvidence(d))]

LEMMA RoledTells ==
    ASSUME NEW d, Settled(d)
    PROVE  Entry(Roled(d)) /\ Tells(Roled(d), d) /\ Roled(d).ip = d.ip
<1> DEFINE r == Roled(d)
<1>1. DOMAIN d = DeviceFields
  BY DEF Settled, Description
<1>2. {"ip", "reachable", "rstate", "found", "observed", "wantype", "access", "physhints"} \subseteq DeviceFields \ {"role"}
  BY DEF DeviceFields
<1>3. DOMAIN r = DeviceFields /\ \A f \in DeviceFields \ {"role"} : r[f] = d[f]
  BY <1>1 DEF Roled
<1> HIDE DEF r
<1>4. /\ r.ip = d.ip /\ r.reachable = d.reachable /\ r.rstate = d.rstate /\ r.found = d.found
      /\ r.wantype = d.wantype /\ r.physhints = d.physhints /\ r.observed = d.observed /\ r.access = d.access
  BY <1>2, <1>3
<1>5. Entry(r) /\ Tells(r, d)
  BY <1>3, <1>4 DEF Settled, Description, Entry, Tells
<1> QED
  BY <1>4, <1>5 DEF r

\* The devices of the collection: every private address of the bag once, and what the bag
\* says of those that are devices.
LEMMA CollectedDevices ==
    ASSUME NEW b, IsSlice(b.hops), Directory(b.devices), \A d \in ToSet(b.devices) : d.ip \in Private
    PROVE  /\ Store(CollectDevices(b))
           /\ {e.ip : e \in ToSet(CollectDevices(b))}
                = ({b.gateway} \cup ToSet(b.hops) \cup {d.ip : d \in ToSet(b.devices)}) \cap Private
           /\ \A e \in ToSet(CollectDevices(b)) : \A d \in ToSet(b.devices) : e.ip = d.ip => Tells(e, d)
<1> DEFINE D == ToSet(b.devices)
           roleOf(i) == IF i = 1 THEN "default_gateway" ELSE "upstream_private_gateway"
           first == <<Hop(b.gateway, "default_gateway", 40)>>
           hops == [i \in DOMAIN b.hops |-> Hop(b.hops[i], roleOf(i), b.hopconf)]
           roled == [i \in DOMAIN b.devices |-> Roled(b.devices[i])]
           seen == first \o hops \o roled
           q == Those(seen, {y \in ToSet(seen) : y.ip \in Private})
<1>1. CollectDevices(b) = StoreDevices(q)
  BY Zenon DEF CollectDevices, Roled
<1>2. \A d, e \in D : d.ip = e.ip => d = e
  BY DEF Directory, ToSet
<1>3. \A d \in D : Settled(d)
  BY DEF Directory, ToSet
<1> HIDE DEF roleOf
<1>4. /\ Len(b.hops) \in Nat /\ DOMAIN b.hops = 1..Len(b.hops)
      /\ Len(b.devices) \in Nat /\ DOMAIN b.devices = 1..Len(b.devices)
  BY SliceIs DEF Directory
<1>5. IsSlice(first) /\ ToSet(first) = {Hop(b.gateway, "default_gateway", 40)}
  BY TuplesAreSlices DEF ToSet
<1>6. IsSlice(hops) /\ ToSet(hops) = {Hop(b.hops[i], roleOf(i), b.hopconf) : i \in DOMAIN b.hops}
  <2>1. hops \in Seq({Hop(b.hops[i], roleOf(i), b.hopconf) : i \in DOMAIN b.hops})
    BY <1>4
  <2>2. IsSlice(hops)
    BY <2>1, SliceOf
  <2> QED
    BY <2>2 DEF ToSet
<1>7. IsSlice(roled) /\ ToSet(roled) = {Roled(b.devices[i]) : i \in DOMAIN b.devices}
  <2>1. roled \in Seq({Roled(b.devices[i]) : i \in DOMAIN b.devices})
    BY <1>4
  <2>2. IsSlice(roled)
    BY <2>1, SliceOf
  <2> QED
    BY <2>2 DEF ToSet
<1> HIDE DEF first, hops, roled
<1>8. IsSlice(seen) /\ ToSet(seen) = ToSet(first) \cup ToSet(hops) \cup ToSet(roled)
  <2>1. IsSlice(first \o hops) /\ ToSet(first \o hops) = ToSet(first) \cup ToSet(hops)
    BY <1>5, <1>6, JoinIn
  <2> QED
    BY <1>7, <2>1, JoinIn
<1> HIDE DEF seen
<1>9. IsSlice(q) /\ ToSet(q) = {y \in ToSet(seen) : y.ip \in Private}
  <2>1. \A S : IsSlice(Those(seen, S)) /\ ToSet(Those(seen, S)) = ToSet(seen) \cap S
    BY <1>8, ThoseSlice
  <2>2. IsSlice(q) /\ ToSet(q) = ToSet(seen) \cap {y \in ToSet(seen) : y.ip \in Private}
    BY <2>1, Zenon
  <2> QED
    BY <2>2
<1> HIDE DEF q
<1>10. \A d \in D : \E i \in DOMAIN b.devices : b.devices[i] = d
  BY DEF ToSet
<1>101. \A i \in DOMAIN b.devices : b.devices[i] \in D
  BY DEF ToSet
<1>11. ToSet(roled) = {Roled(d) : d \in D}
  BY <1>7, <1>10, <1>101
<1> HIDE DEF D
<1>12. \A y \in ToSet(seen) : Feeds(y, D)
  <2>1. \A y \in ToSet(first) \cup ToSet(hops) : Feeds(y, D)
    BY <1>5, <1>6, HopBare DEF Feeds
  <2>2. \A y \in ToSet(roled) : Feeds(y, D)
    BY <1>3, <1>11, RoledTells DEF Feeds
  <2> QED
    BY <1>8, <2>1, <2>2
<1>13. \A i \in DOMAIN q : Feeds(q[i], D)
  <2>1. \A i \in DOMAIN q : q[i] \in ToSet(q)
    BY DEF ToSet
  <2> QED
    BY <1>9, <1>12, <2>1
<1>14. /\ Store(StoreDevices(q))
       /\ {e.ip : e \in ToSet(StoreDevices(q))} = {y.ip : y \in ToSet(q)}
       /\ \A e \in ToSet(StoreDevices(q)) : \A y \in ToSet(q) : \A d \in D :
             e.ip = d.ip /\ y.ip = d.ip /\ Tells(y, d) => Tells(e, d)
  BY <1>2, <1>9, <1>13, StoreTells
<1>15. \A d \in D : Roled(d) \in ToSet(q) /\ Roled(d).ip = d.ip /\ Tells(Roled(d), d)
  <2>1. \A d \in D : d.ip \in Private
    BY DEF D
  <2> QED
    BY <1>3, <1>8, <1>9, <1>11, <2>1, RoledTells
<1>16. \A e \in ToSet(StoreDevices(q)) : \A d \in D : e.ip = d.ip => Tells(e, d)
  BY <1>14, <1>15
<1>17. {y.ip : y \in ToSet(q)} = ({b.gateway} \cup ToSet(b.hops) \cup {d.ip : d \in D}) \cap Private
  <2>1. \A x : x \in {y.ip : y \in ToSet(q)} <=> x \in Private /\ \E y \in ToSet(seen) : y.ip = x
    BY <1>9
  <2>2. \A x : (\E y \in ToSet(first) : y.ip = x) <=> x = b.gateway
    BY <1>5, HopBare
  <2>3. \A x : (\E y \in ToSet(hops) : y.ip = x) <=> x \in ToSet(b.hops)
    <3>1. ToSet(b.hops) = {b.hops[i] : i \in DOMAIN b.hops}
      BY DEF ToSet
    <3> QED
      BY <1>6, <3>1, HopBare
  <2>4. \A x : (\E y \in ToSet(roled) : y.ip = x) <=> x \in {d.ip : d \in D}
    BY <1>3, <1>11, RoledTells
  <2> QED
    BY <1>8, <2>1, <2>2, <2>3, <2>4
<1> QED
  BY <1>1, <1>14, <1>16, <1>17 DEF D

LEMMA Priorities ==
    /\ \A role : RolePriority(role) \in 1..5
    /\ \A e : PriorityForDevice(e) \in 1..3
  BY DEF RolePriority, PriorityForDevice

\* The candidates are the entries of the store, the likely modem before the gateways.
LEMMA CandidatesIn ==
    ASSUME NEW s, Store(s), NEW devices, devices = StoreList(s), NEW cs,
           cs = SortCandidates([i \in DOMAIN devices |-> CandidateFromDevice(devices[i])])
    PROVE  /\ ToSet(cs) = {CandidateFromDevice(e) : e \in ToSet(s)}
           /\ \A i, j \in DOMAIN cs : i < j => cs[i].ip # cs[j].ip /\ cs[i].priority >= cs[j].priority
<1> DEFINE rank == [d \in ToSet(s) |-> RolePriority(d.role)]
           made == [i \in DOMAIN devices |-> CandidateFromDevice(devices[i])]
           order == [c \in ToSet(made) |-> 10 * c.priority + RolePriority(c.role)]
<1>1. IsSlice(s) /\ Distinct(s) /\ \A e, f \in ToSet(s) : e.ip = f.ip => e = f
  BY DEF Store, Distinct, ToSet
<1>2. IsSlice(devices) /\ ToSet(devices) = ToSet(s) /\ Distinct(devices)
  <2>1. \A d \in ToSet(s) : rank[d] \in Int
    BY Priorities
  <2>2. devices = StableSort(s, rank)
    BY Zenon DEF StoreList
  <2> HIDE DEF rank
  <2> QED
    BY <1>1, <2>1, <2>2, SortIn
<1>3. Len(devices) \in Nat /\ DOMAIN devices = 1..Len(devices)
  BY <1>2, SliceIs
<1>4. \A e : /\ CandidateFromDevice(e).ip = e.ip
             /\ CandidateFromDevice(e).priority = PriorityForDevice(e)
  BY Zenon DEF CandidateFromDevice
<1>5. \A i \in DOMAIN devices : devices[i] \in ToSet(s)
  BY <1>2 DEF ToSet
<1>6. /\ IsSlice(made) /\ DOMAIN made = DOMAIN devices
      /\ ToSet(made) = {CandidateFromDevice(devices[i]) : i \in DOMAIN devices}
  <2>1. made \in Seq({CandidateFromDevice(devices[i]) : i \in DOMAIN devices})
    BY <1>3
  <2>2. IsSlice(made)
    BY <2>1, SliceOf
  <2> QED
    BY <2>2 DEF ToSet
<1>7. ToSet(made) = {CandidateFromDevice(e) : e \in ToSet(s)}
  <2>1. \A e \in ToSet(s) : \E i \in DOMAIN devices : devices[i] = e
    BY <1>2 DEF ToSet
  <2> QED
    BY <1>5, <1>6, <2>1
<1>8. \A c, d \in ToSet(made) : c.ip = d.ip => c = d
  BY <1>1, <1>4, <1>7
<1>9. Distinct(made)
  <2> SUFFICES ASSUME NEW i \in DOMAIN devices, NEW j \in DOMAIN devices, made[i] = made[j] PROVE i = j
    BY <1>6 DEF Distinct
  <2>1. devices[i].ip = devices[j].ip
    <3>1. CandidateFromDevice(devices[i]) = CandidateFromDevice(devices[j])
      OBVIOUS
    <3> QED
      BY <1>4, <3>1
  <2>2. devices[i] = devices[j]
    BY <1>1, <1>5, <2>1
  <2> QED
    BY <1>2, <2>2 DEF Distinct
<1>10. \A c \in ToSet(made) : c.priority \in 1..3 /\ RolePriority(c.role) \in 1..5
  BY <1>4, <1>7, Priorities
<1>11. cs = StableSort(made, order)
  BY Zenon DEF SortCandidates
<1>12. \A c \in ToSet(made) : order[c] = 10 * c.priority + RolePriority(c.role) /\ order[c] \in Int
  BY <1>10
<1> HIDE DEF made, order
<1>13. IsSlice(cs) /\ ToSet(cs) = ToSet(made) /\ Descending(cs, order) /\ Distinct(cs)
  BY <1>6, <1>9, <1>11, <1>12, SortIn
<1>0. Len(cs) \in Nat /\ DOMAIN cs = 1..Len(cs)
  BY <1>13, SliceIs
<1>14. ASSUME NEW i \in DOMAIN cs, NEW j \in DOMAIN cs, i < j
       PROVE  cs[i].ip # cs[j].ip /\ cs[i].priority >= cs[j].priority
  <2>1. cs[i] \in ToSet(made) /\ cs[j] \in ToSet(made)
    BY <1>13 DEF ToSet
  <2>2. cs[i] # cs[j]
    BY <1>0, <1>13, <1>14 DEF Distinct
  <2>3. order[cs[i]] >= order[cs[j]]
    BY <1>13, <1>14 DEF Descending
  <2>4. cs[i].ip # cs[j].ip
    BY <1>8, <2>1, <2>2
  <2> DEFINE p == cs[i].priority
             r == RolePriority(cs[i].role)
             u == cs[j].priority
             v == RolePriority(cs[j].role)
  <2>5. 10 * p + r >= 10 * u + v /\ p \in 1..3 /\ r \in 1..5 /\ u \in 1..3 /\ v \in 1..5
    BY <1>10, <1>12, <2>1, <2>3
  <2> HIDE DEF p, r, u, v
  <2>6. p >= u
    BY <2>5
  <2> QED
    BY <2>4, <2>6 DEF p, u
<1> QED
  BY <1>7, <1>13, <1>14

\* What the collection says of a device when the two mergers agree on it.
SameStory(c, d) ==
    LET claimed == d.access \cap {"physical", "strong"} # {}
    IN  /\ d.reachable => c.reachable = "true"
        /\ c.reachable = "true" => d.reachable \/ d.observed
        /\ c.reachable = "false" <=> d.rstate = "false"
        /\ ToSet(d.physhints) \ {""} # {} \/ claimed => c.physical = "present"
        /\ c.physical = "present" => claimed \/ GatewayDeviceHasDirectPhysicalEvidence(d)

LEMMA CandidateTells ==
    ASSUME NEW e, Entry(e), NEW d, Settled(d), Tells(e, d)
    PROVE  SameStory(CandidateFromDevice(e), d)
<1> DEFINE c == CandidateFromDevice(e)
           claimed == d.access \cap {"physical", "strong"} # {}
<1>1. c.reachable = CandidateReachable(e) /\ c.physical = PhysicalEvidenceStatus(e)
  BY Zenon DEF CandidateFromDevice
<1> HIDE DEF c
<1>2. /\ d.reachable => c.reachable = "true"
      /\ c.reachable = "true" => d.reachable \/ d.observed
      /\ c.reachable = "false" <=> d.rstate = "false"
  <2>1. /\ e.rstate = d.rstate /\ e.observed = d.observed /\ (e.reachable <=> e.rstate = "true")
        /\ (d.reachable <=> d.rstate = "true") /\ d.rstate \in {"unknown", "false", "true"}
    BY DEF Tells, Entry, Settled, Description
  <2> QED
    BY <1>1, <2>1 DEF CandidateReachable
<1>3. PhysicalEvidenceStatus(e) = "present" <=>
         \/ "wancommon" \in d.found /\ d.wantype # {}
         \/ claimed
         \/ e.physhints # <<>>
  <2>1. "present" # "missing"
    OBVIOUS
  <2>2. e.found = d.found /\ e.wantype = d.wantype /\ e.access = d.access
    BY DEF Tells
  <2> QED
    BY <2>1, <2>2, Zenon DEF PhysicalEvidenceStatus
<1>4. e.physhints # <<>> => d.physhints # <<>>
  <2> SUFFICES ASSUME d.physhints = <<>> PROVE e.physhints = <<>>
    OBVIOUS
  <2>1. ToSet(d.physhints) = {}
    BY DEF ToSet
  <2>2. e.physhints \in Seq({})
    BY <2>1 DEF Tells, Entry, IsSlice
  <2> QED
    BY <2>2
<1>5. ToSet(d.physhints) \ {Blank} # {} => e.physhints # <<>>
  <2>1. ToSet(<<>>) = {}
    BY DEF ToSet
  <2> QED
    BY <2>1 DEF Tells
<1>6. ToSet(d.physhints) \ {""} # {} => e.physhints # <<>>
  BY <1>5, Zenon DEF Blank
<1>7. c.physical = "present" => claimed \/ GatewayDeviceHasDirectPhysicalEvidence(d)
  BY <1>1, <1>3, <1>4, Zenon DEF GatewayDeviceHasDirectPhysicalEvidence
<1> QED
  BY <1>1, <1>2, <1>3, <1>6, <1>7, Zenon DEF SameStory, c

LEMMA CollectionInv == StageInv => CollectionMatchesContext
<1> SUFFICES ASSUME StageInv, stage = "published" PROVE CollectionMatchesContext
  BY Zenon DEF CollectionMatchesContext
<1> DEFINE g == Gathered(Successful(results))
           store == CollectDevices(bag)
           devices == StoreList(store)
           made == [i \in DOMAIN devices |-> CandidateFromDevice(devices[i])]
           cs == SortCandidates(made)
           known == {bag.gateway} \cup ToSet(bag.hops) \cup {d.ip : d \in ToSet(bag.devices)}
<1>1. ResultsOK(results) /\ bag = Reconcile(Aggregate(results)) /\ collection = Collect(bag)
  BY DEF StageInv
<1>2. /\ bag.devices = MergeGatewayDevices(g.devices) /\ (FinalDouble(bag) <=> (bag.double \/ bag.nat.double))
      /\ bag.hops = ResolveGatewayChainState(results, g.gateway, g.me).chain
  BY <1>1, FinalBag, Zenon DEF Scored
<1>3. g.devices \in Seq(Devices)
  BY <1>1, GatheredBag, Zenon DEF BagTyped
<1> HIDE DEF g
<1>4. IsSlice(bag.hops) /\ Directory(bag.devices) /\ \A d \in ToSet(bag.devices) : d.ip \in Private
  BY <1>1, <1>2, <1>3, HopsSlice, MergeDevicesKeeps
<1>5. /\ Store(store) /\ {e.ip : e \in ToSet(store)} = known \cap Private
      /\ \A e \in ToSet(store) : \A d \in ToSet(bag.devices) : e.ip = d.ip => Tells(e, d)
  BY <1>4, CollectedDevices
<1>6. collection.candidates = cs /\ collection.nat = NATState(bag)
  BY <1>1, Zenon DEF Collect
<1> HIDE DEF store
<1>7. /\ ToSet(cs) = {CandidateFromDevice(e) : e \in ToSet(store)}
      /\ \A i, j \in DOMAIN cs : i < j => cs[i].ip # cs[j].ip /\ cs[i].priority >= cs[j].priority
  BY <1>5, CandidatesIn
<1> HIDE DEF cs, known
<1>8. \A e : CandidateFromDevice(e).ip = e.ip
  BY Zenon DEF CandidateFromDevice
<1>9. {c.ip : c \in ToSet(cs)} = known \cap Private
  <2>1. {c.ip : c \in ToSet(cs)} = {e.ip : e \in ToSet(store)}
    BY <1>7, <1>8
  <2> QED
    BY <1>5, <2>1
<1>10. \A c \in ToSet(cs) : \A d \in ToSet(bag.devices) :
          c.ip = d.ip => SameStory(c, d)
  <2>1. \A e \in ToSet(store) : Entry(e)
    BY <1>5 DEF Store, ToSet
  <2>2. \A d \in ToSet(bag.devices) : Settled(d)
    BY <1>4 DEF Directory, ToSet
  <2> QED
    BY <1>5, <1>7, <1>8, <2>1, <2>2, CandidateTells
<1>11. (collection.nat.double = "true") <=> FinalDouble(bag)
  <2>1. NATState(bag).double = IF bag.double \/ bag.nat.double THEN "true" ELSE "unknown"
    BY Zenon DEF NATState
  <2> QED
    BY <1>2, <1>6, <2>1
<1> QED
  BY <1>6, <1>7, <1>9, <1>10, <1>11, Zenon DEF CollectionMatchesContext, SameStory, known

\* modemcollector/output.go:120-233 against the engine's merge: the collection names every
\* private address of the report once and in order, and calls it reachable or proven only
\* from what the merged device of the report shows, whatever the probes report.
THEOREM CollectionAlwaysMatches == Spec => []CollectionMatchesContext
  BY StageInvHolds, CollectionInv, PTL
=============================================================================
