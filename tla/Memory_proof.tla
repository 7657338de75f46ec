---------------------------- MODULE Memory_proof ----------------------------
(***************************************************************************)
(* Proofs about the modules that own memory: WddmAdapter, for any pool of  *)
(* blocks, contexts and allocations and any display, and VidMem, for any   *)
(* number of processes, page lists and buffers and any table.  Both count  *)
(* bytes, and share what is proved here about sums.                        *)
(***************************************************************************)
EXTENDS WddmAdapter, VidMem, FiniteSetTheorems, WellFoundedInduction, TLAPS

-----------------------------------------------------------------------------
(* Sums *)

\* A set of numbers has a least one.
LEMMA LeastOf ==
  ASSUME NEW S \in SUBSET Nat, S # {}
  PROVE  \E x \in S : \A y \in S : x <= y
<1> DEFINE R == OpToRel(<, Nat)
<1>1. PICK x \in S : \A y \in S : ~ (<<y, x>> \in R)
  <2> HIDE DEF R
  <2>1. IsWellFoundedOn(R, Nat)
    BY NatLessThanWellFounded DEF R
  <2>2. QED
    BY <2>1, WFMin
<1>2. ASSUME NEW y \in S PROVE x <= y
  <2>1. x \in Nat /\ y \in Nat
    OBVIOUS
  <2>2. y < x => <<y, x>> \in R
    BY <2>1 DEF OpToRel
  <2>3. ~(y < x)
    BY <1>1, <2>2
  <2>4. QED
    BY <2>1, <2>3
<1>3. QED
  BY <1>2

\* The least of a set of places in a table is one of them.
LEMMA LeastPlace ==
  ASSUME NEW n \in Nat, NEW S \in SUBSET (1..n), S # {}
  PROVE  Min(S) \in S
<1>1. S \in SUBSET Nat
  OBVIOUS
<1>2. \E x \in S : \A y \in S : x <= y
  BY <1>1, LeastOf
<1>3. QED
  BY <1>2 DEF Min

\* Of finite sets one is smallest.
LEMMA SmallestOf ==
  ASSUME NEW W, W # {}, \A s \in W : IsFiniteSet(s)
  PROVE  \E s \in W : \A t \in W : Cardinality(s) <= Cardinality(t)
<1> DEFINE N == {Cardinality(s) : s \in W}
<1>1. N \in SUBSET Nat /\ N # {}
  BY FS_CardinalityType
<1>2. PICK n \in N : \A m \in N : n <= m
  <2> HIDE DEF N
  <2>1. QED
    BY <1>1, LeastOf
<1>3. QED
  BY <1>2

Pick(s) == CHOOSE x \in s : TRUE

\* g sums the weights of every subset of T, in the order of Pick.
Sums(w, T, g) ==
  g = [s \in SUBSET T |-> IF s = {} THEN 0 ELSE w[Pick(s)] + g[s \ {Pick(s)}]]

\* A set less one of its elements.
LEMMA Less ==
  ASSUME NEW s, IsFiniteSet(s), NEW x \in s
  PROVE  /\ IsFiniteSet(s \ {x}) /\ Cardinality(s) \in Nat
         /\ Cardinality(s \ {x}) \in Nat
         /\ Cardinality(s) = Cardinality(s \ {x}) + 1
<1>1. IsFiniteSet(s \ {x}) /\ Cardinality(s \ {x}) = Cardinality(s) - 1
  BY FS_RemoveElement
<1>2. Cardinality(s) \in Nat /\ Cardinality(s \ {x}) \in Nat
  BY <1>1, FS_CardinalityType
<1>3. QED
  BY <1>1, <1>2

LEMMA PickIn == ASSUME NEW s, s # {} PROVE Pick(s) \in s
BY DEF Pick

\* There is such a g.
LEMMA SumsExist ==
  ASSUME NEW T, IsFiniteSet(T), NEW w, \A x \in T : w[x] \in Nat
  PROVE  \E g : Sums(w, T, g)
<1> DEFINE Up(k) == {s \in SUBSET T : Cardinality(s) <= k}
           Right(g, s) == g[s] = IF s = {} THEN 0 ELSE w[Pick(s)] + g[s \ {Pick(s)}]
           Good(k) == \E g \in [Up(k) -> Nat] : \A s \in Up(k) : Right(g, s)
           Bad == {k \in Nat : ~Good(k)}
<1>1. \A s \in SUBSET T : IsFiniteSet(s) /\ Cardinality(s) \in Nat
  BY FS_Subset, FS_CardinalityType
<1>2. Good(0)
  <2>1. \A s \in Up(0) : s = {}
    BY <1>1, FS_EmptySet
  <2>2. [s \in Up(0) |-> 0] \in [Up(0) -> Nat]
    OBVIOUS
  <2>3. \A s \in Up(0) : Right([t \in Up(0) |-> 0], s)
    BY <2>1
  <2>4. QED
    BY <2>2, <2>3
<1>3. ASSUME NEW k \in Nat, Good(k) PROVE Good(k + 1)
  <2>1. PICK g \in [Up(k) -> Nat] : \A s \in Up(k) : Right(g, s)
    BY <1>3
  <2> DEFINE h == [s \in Up(k + 1) |->
                     IF s \in Up(k) THEN g[s] ELSE w[Pick(s)] + g[s \ {Pick(s)}]]
  <2>2. ASSUME NEW s \in Up(k + 1), s # {}
        PROVE  Pick(s) \in T /\ s \ {Pick(s)} \in Up(k)
    <3>1. Pick(s) \in s
      BY <2>2, PickIn
    <3>2. s \in SUBSET T /\ Cardinality(s) <= k + 1 /\ IsFiniteSet(s)
      BY <1>1
    <3>3. /\ Cardinality(s) \in Nat /\ Cardinality(s \ {Pick(s)}) \in Nat
          /\ Cardinality(s) = Cardinality(s \ {Pick(s)}) + 1
      BY <3>1, <3>2, Less
    <3>4. QED
      BY <3>1, <3>2, <3>3
  <2>3. Up(k) \subseteq Up(k + 1) /\ {} \in Up(k)
    <3>1. Cardinality({}) = 0
      BY FS_EmptySet
    <3>2. QED
      BY <1>1, <3>1
  <2>4. ASSUME NEW s \in Up(k + 1) PROVE h[s] \in Nat
    <3>1. CASE s \in Up(k)
      BY <3>1
    <3>2. CASE s \notin Up(k)
      <4>1. s # {}
        BY <2>3, <3>2
      <4>2. w[Pick(s)] \in Nat /\ g[s \ {Pick(s)}] \in Nat
        BY <2>2, <4>1
      <4>3. QED
        BY <3>2, <4>2
    <3>3. QED
      BY <3>1, <3>2
  <2>5. h \in [Up(k + 1) -> Nat]
    BY <2>4
  <2>6. ASSUME NEW s \in Up(k + 1) PROVE Right(h, s)
    <3>1. CASE s = {}
      BY <2>1, <2>3, <3>1
    <3>2. CASE s # {}
      <4>1. s \ {Pick(s)} \in Up(k) /\ s \ {Pick(s)} \in Up(k + 1)
        BY <2>2, <2>3, <3>2
      <4>2. h[s \ {Pick(s)}] = g[s \ {Pick(s)}]
        BY <4>1
      <4>3. h[s] = w[Pick(s)] + g[s \ {Pick(s)}]
        BY <2>1, <3>2
      <4>4. QED
        BY <3>2, <4>2, <4>3
    <3>3. QED
      BY <3>1, <3>2
  <2>7. QED
    BY <2>5, <2>6
<1>4. \A k \in Nat : Good(k)
  <2> HIDE DEF Good
  <2> SUFFICES ASSUME Bad # {} PROVE FALSE
    OBVIOUS
  <2>1. PICK k \in Bad : \A j \in Bad : k <= j
    <3>1. Bad \in SUBSET Nat
      OBVIOUS
    <3> HIDE DEF Bad
    <3>2. QED
      BY <3>1, LeastOf
  <2>2. k \in Nat /\ k # 0 /\ ~Good(k)
    BY <1>2, <2>1
  <2>3. k - 1 \in Nat /\ k = (k - 1) + 1 /\ ~(k <= k - 1)
    BY <2>2
  <2>4. Good(k - 1)
    BY <2>1, <2>3
  <2>5. Good((k - 1) + 1)
    BY <1>3, <2>3, <2>4
  <2>6. QED
    BY <2>2, <2>3, <2>5
<1>5. Up(Cardinality(T)) = SUBSET T /\ Cardinality(T) \in Nat
  BY FS_Subset, FS_CardinalityType
<1>6. PICK g \in [SUBSET T -> Nat] : \A s \in SUBSET T : Right(g, s)
  BY <1>4, <1>5
<1>7. Sums(w, T, g)
  BY <1>6 DEF Sums
<1>8. QED
  BY <1>7

\* The sum of one subset, step by step.
LEMMA SumsStep ==
  ASSUME NEW T, NEW w, NEW g, Sums(w, T, g), NEW s \in SUBSET T
  PROVE  g[s] = IF s = {} THEN 0 ELSE w[Pick(s)] + g[s \ {Pick(s)}]
<1> DEFINE e(t) == IF t = {} THEN 0 ELSE w[Pick(t)] + g[t \ {Pick(t)}]
<1>1. g = [t \in SUBSET T |-> e(t)]
  BY Zenon DEF Sums
<1> HIDE DEF e
<1>2. g[s] = e(s)
  <2>1. [t \in SUBSET T |-> e(t)][s] = e(s)
    OBVIOUS
  <2>2. QED
    BY <1>1, <2>1, Zenon
<1>3. QED
  BY <1>2, Zenon DEF e

\* Sums are numbers.
LEMMA SumsNat ==
  ASSUME NEW T, IsFiniteSet(T), NEW w, \A x \in T : w[x] \in Nat, NEW g, Sums(w, T, g)
  PROVE  \A s \in SUBSET T : g[s] \in Nat
<1> DEFINE Bad == {s \in SUBSET T : g[s] \notin Nat}
<1> SUFFICES ASSUME Bad # {} PROVE FALSE
  OBVIOUS
<1>1. \A s \in SUBSET T : IsFiniteSet(s)
  BY FS_Subset
<1>2. PICK s \in Bad : \A t \in Bad : Cardinality(s) <= Cardinality(t)
  <2>1. \A s \in Bad : IsFiniteSet(s)
    BY <1>1
  <2> HIDE DEF Bad
  <2>2. QED
    BY <2>1, SmallestOf
<1>3. s # {}
  <2>1. g[s] = IF s = {} THEN 0 ELSE w[Pick(s)] + g[s \ {Pick(s)}]
    BY SumsStep
  <2>2. g[s] \notin Nat
    OBVIOUS
  <2>3. QED
    BY <2>1, <2>2
<1>4. Pick(s) \in s /\ s \in SUBSET T
  BY <1>2, <1>3, PickIn
<1>5. s \ {Pick(s)} \in SUBSET T /\ ~(Cardinality(s) <= Cardinality(s \ {Pick(s)}))
  <2>1. /\ Cardinality(s) \in Nat /\ Cardinality(s \ {Pick(s)}) \in Nat
        /\ Cardinality(s) = Cardinality(s \ {Pick(s)}) + 1
    BY <1>1, <1>4, Less
  <2>2. QED
    BY <1>4, <2>1
<1>6. g[s \ {Pick(s)}] \in Nat
  BY <1>2, <1>5
<1>7. g[s] = w[Pick(s)] + g[s \ {Pick(s)}]
  BY <1>3, <1>4, SumsStep
<1>8. QED
  BY <1>2, <1>4, <1>6, <1>7

\* A sum depends on nothing but the weights of what it adds up.
LEMMA SumsAgree ==
  ASSUME NEW T, IsFiniteSet(T), NEW w, NEW g, Sums(w, T, g),
         NEW U, NEW v, NEW h, Sums(v, U, h)
  PROVE  \A s \in SUBSET T : s \subseteq U /\ (\A x \in s : w[x] = v[x]) => g[s] = h[s]
<1>a. \A t \in SUBSET U : h[t] = IF t = {} THEN 0 ELSE v[Pick(t)] + h[t \ {Pick(t)}]
  <2> SUFFICES ASSUME NEW t \in SUBSET U
               PROVE  h[t] = IF t = {} THEN 0 ELSE v[Pick(t)] + h[t \ {Pick(t)}]
    OBVIOUS
  <2>1. Sums(v, U, h)
    OBVIOUS
  <2>2. QED
    BY ONLY <2>1, SumsStep
<1> DEFINE Bad == {s \in SUBSET T : s \subseteq U /\ (\A x \in s : w[x] = v[x]) /\ g[s] # h[s]}
<1> SUFFICES ASSUME Bad # {} PROVE FALSE
  OBVIOUS
<1>1. \A s \in SUBSET T : IsFiniteSet(s)
  BY FS_Subset
<1>2. PICK s \in Bad : \A t \in Bad : Cardinality(s) <= Cardinality(t)
  <2>1. \A s \in Bad : IsFiniteSet(s)
    BY <1>1
  <2> HIDE DEF Bad
  <2>2. QED
    BY <2>1, SmallestOf
<1>3. s \in SUBSET T /\ s \in SUBSET U /\ (\A x \in s : w[x] = v[x]) /\ g[s] # h[s]
  BY <1>2
<1>4. /\ g[s] = IF s = {} THEN 0 ELSE w[Pick(s)] + g[s \ {Pick(s)}]
      /\ h[s] = IF s = {} THEN 0 ELSE v[Pick(s)] + h[s \ {Pick(s)}]
  <2>1. s \in SUBSET T /\ s \in SUBSET U
    BY <1>3, Zenon
  <2> HIDE DEF Bad
  <2>2. g[s] = IF s = {} THEN 0 ELSE w[Pick(s)] + g[s \ {Pick(s)}]
    BY <2>1, SumsStep
  <2>3. h[s] = IF s = {} THEN 0 ELSE v[Pick(s)] + h[s \ {Pick(s)}]
    BY <1>a, <2>1
  <2>4. QED
    BY <2>2, <2>3, Zenon
<1>5. s # {}
  BY <1>3, <1>4
<1>6. Pick(s) \in s
  BY <1>5, PickIn
<1> DEFINE r == s \ {Pick(s)}
<1>7. r \in SUBSET T /\ r \subseteq U /\ (\A x \in r : w[x] = v[x])
      /\ ~(Cardinality(s) <= Cardinality(r))
  BY <1>1, <1>3, <1>6, Less
<1>8. r \notin Bad
  BY <1>2, <1>7, Zenon
<1>9. g[r] = h[r]
  BY <1>7, <1>8, Zenon
<1>10. QED
  BY <1>3, <1>4, <1>5, <1>6, <1>9, Zenon

\* Nor does it on the order.
Summed(w, T, g) == IsFiniteSet(T) /\ (\A x \in T : w[x] \in Nat) /\ Sums(w, T, g)

Ordered(w, T, g) == \A s \in SUBSET T : \A y \in s : g[s] = w[y] + g[s \ {y}]

LEMMA SumsOrder ==
  ASSUME NEW T, NEW w, NEW g, Summed(w, T, g)
  PROVE  Ordered(w, T, g)
<1>a. IsFiniteSet(T) /\ (\A x \in T : w[x] \in Nat) /\ Sums(w, T, g)
  BY DEF Summed
<1> DEFINE Bad == {u \in SUBSET T : \E z \in u : g[u] # w[z] + g[u \ {z}]}
<1>0. SUFFICES ASSUME Bad # {} PROVE FALSE
  BY DEF Ordered
<1>1. \A u \in SUBSET T : IsFiniteSet(u)
  BY <1>a, FS_Subset
<1>2. PICK u \in Bad : \A t \in Bad : Cardinality(u) <= Cardinality(t)
  <2>1. \A u \in Bad : IsFiniteSet(u)
    BY <1>1
  <2> HIDE DEF Bad
  <2>2. QED
    BY <1>0, <2>1, SmallestOf
<1>3. PICK z \in u : g[u] # w[z] + g[u \ {z}]
  BY <1>2
<1> DEFINE x == Pick(u)
<1>4. u \in SUBSET T /\ x \in u /\ z \in u /\ g[u] = w[x] + g[u \ {x}]
  <2>1. u \in SUBSET T /\ z \in u
    BY <1>2, <1>3
  <2>2. u # {}
    BY <2>1
  <2>3. Pick(u) \in u
    BY <2>2, PickIn
  <2> HIDE DEF Bad
  <2>4. g[u] = IF u = {} THEN 0 ELSE w[Pick(u)] + g[u \ {Pick(u)}]
    BY <1>a, <2>1, SumsStep
  <2>5. QED
    BY <2>1, <2>2, <2>3, <2>4, Zenon
<1> HIDE DEF x
<1>5. x # z
  BY <1>3, <1>4
<1> DEFINE Smaller(y1) == Cardinality(u \ {y1}) < Cardinality(u) /\ u \ {y1} \in SUBSET u
<1>5a. \A y1 \in u : Smaller(y1)
  <2> SUFFICES ASSUME NEW y1 \in u PROVE Smaller(y1)
    OBVIOUS
  <2>1. IsFiniteSet(u)
    BY <1>1, <1>4
  <2> HIDE DEF Bad
  <2>2. /\ Cardinality(u) \in Nat /\ Cardinality(u \ {y1}) \in Nat
        /\ Cardinality(u) = Cardinality(u \ {y1}) + 1
    BY <2>1, Less
  <2>3. QED
    BY <2>2
<1>6. \A t \in SUBSET u : Cardinality(t) < Cardinality(u) => \A v \in t : g[t] = w[v] + g[t \ {v}]
  <2> SUFFICES ASSUME NEW t \in SUBSET u, Cardinality(t) < Cardinality(u)
               PROVE  t \notin Bad
    BY <1>4
  <2>1. Cardinality(t) \in Nat /\ Cardinality(u) \in Nat
    BY <1>1, <1>4, FS_CardinalityType
  <2>2. QED
    BY <1>2, <2>1
<1> DEFINE both == (u \ {x}) \ {z}
<1>7. g[u \ {x}] = w[z] + g[both]
  <2>1. Smaller(x)
    BY <1>4, <1>5a
  <2>2. QED
    BY <1>5, <1>6, <1>4, <2>1, Zenon
<1>8. g[u \ {z}] = w[x] + g[both]
  <2>1. Smaller(z)
    BY <1>4, <1>5a
  <2>2. (u \ {z}) \ {x} = both
    OBVIOUS
  <2>3. x \in u \ {z}
    BY <1>4, <1>5
  <2>4. g[u \ {z}] = w[x] + g[(u \ {z}) \ {x}]
    BY <1>6, <2>1, <2>3, Zenon
  <2>5. QED
    BY <2>2, <2>4, Zenon
<1>9. w[x] \in Nat /\ w[z] \in Nat /\ g[both] \in Nat
  BY <1>a, <1>4, SumsNat
<1> HIDE DEF both
<1>10. QED
  BY <1>3, <1>4, <1>7, <1>8, <1>9

\* The sizes of the things in T, of describes.
Total(of, T) == MapThenSumSet(LAMBDA a : of[a].size, T)

Weights(of, T) == [x \in T |-> of[x].size]

\* There are finitely many of them.
Sized(of, T) == IsFiniteSet(T) /\ \A x \in T : of[x].size \in Nat

\* MapThenSumSet is such a sum.
LEMMA TotalIs ==
  ASSUME NEW T, IsFiniteSet(T), NEW of, \A x \in T : of[x].size \in Nat
  PROVE  \E g : Sums(Weights(of, T), T, g) /\ Total(of, T) = g[T]
<1> DEFINE w == Weights(of, T)
           Adds(g) == g = [s \in SUBSET T |-> IF s = {} THEN 0
                                                ELSE of[Pick(s)].size + g[s \ {Pick(s)}]]
           iter == CHOOSE g : Adds(g)
<1>1. \A x \in T : w[x] = of[x].size
  BY DEF Weights
<1>2. \A g : Sums(w, T, g) <=> Adds(g)
  <2> SUFFICES ASSUME NEW g PROVE Sums(w, T, g) <=> Adds(g)
    OBVIOUS
  <2> DEFINE a(s) == IF s = {} THEN 0 ELSE w[Pick(s)] + g[s \ {Pick(s)}]
             b(s) == IF s = {} THEN 0 ELSE of[Pick(s)].size + g[s \ {Pick(s)}]
  <2>1. \A s \in SUBSET T : a(s) = b(s)
    <3> SUFFICES ASSUME NEW s \in SUBSET T, s # {} PROVE w[Pick(s)] = of[Pick(s)].size
      OBVIOUS
    <3>1. Pick(s) \in s
      BY PickIn
    <3>2. QED
      BY <1>1, <3>1
  <2>2. Sums(w, T, g) <=> g = [s \in SUBSET T |-> a(s)]
    BY Zenon DEF Sums
  <2>3. Adds(g) <=> g = [s \in SUBSET T |-> b(s)]
    BY Zenon
  <2> HIDE DEF a, b, Adds
  <2>4. [s \in SUBSET T |-> a(s)] = [s \in SUBSET T |-> b(s)]
    BY <2>1
  <2>5. QED
    BY <2>2, <2>3, <2>4, Zenon
<1>3. \E g : Sums(w, T, g)
  BY <1>1, SumsExist
<1>4. Total(of, T) = iter[T]
  BY DEF Total, MapThenSumSet, MapThenFoldSet, Pick
<1> HIDE DEF Adds
<1>5. Adds(iter)
  BY <1>2, <1>3, Zenon
<1>6. QED
  BY <1>2, <1>4, <1>5, Zenon

\* A total is a number, that of nothing is zero.
LEMMA TotalNat ==
  ASSUME NEW T, NEW of, Sized(of, T)
  PROVE  Total(of, T) \in Nat /\ (T = {} => Total(of, T) = 0)
<1>0. IsFiniteSet(T) /\ \A x \in T : of[x].size \in Nat
  BY DEF Sized
<1>1. PICK g : Sums(Weights(of, T), T, g) /\ Total(of, T) = g[T]
  BY <1>0, TotalIs
<1>2. \A x \in T : Weights(of, T)[x] \in Nat
  BY <1>0 DEF Weights
<1>3. g[T] \in Nat
  BY <1>0, <1>1, <1>2, SumsNat
<1>4. T = {} => g[T] = 0
  BY <1>1, SumsStep
<1>5. QED
  BY <1>1, <1>3, <1>4

\* It is that of the sizes alone.
LEMMA TotalSame ==
  ASSUME NEW T, NEW of, NEW bs, Sized(of, T), \A x \in T : of[x].size = bs[x].size
  PROVE  Total(of, T) = Total(bs, T)
<1>0. IsFiniteSet(T) /\ \A x \in T : of[x].size \in Nat /\ bs[x].size \in Nat
  BY DEF Sized
<1>1. PICK g : Sums(Weights(of, T), T, g) /\ Total(of, T) = g[T]
  BY <1>0, TotalIs
<1>2. PICK h : Sums(Weights(bs, T), T, h) /\ Total(bs, T) = h[T]
  BY <1>0, TotalIs
<1>3. \A x \in T : Weights(of, T)[x] = Weights(bs, T)[x]
  BY DEF Weights
<1>4. \A s \in SUBSET T : s \subseteq T /\ (\A x \in s : Weights(of, T)[x] = Weights(bs, T)[x])
                            => g[s] = h[s]
  <2> DEFINE w == Weights(of, T)
             v == Weights(bs, T)
  <2>1. Sums(w, T, g) /\ Sums(v, T, h) /\ IsFiniteSet(T)
    BY <1>0, <1>1, <1>2
  <2> HIDE DEF w, v
  <2>2. \A s \in SUBSET T : s \subseteq T /\ (\A x \in s : w[x] = v[x]) => g[s] = h[s]
    BY ONLY <2>1, SumsAgree
  <2>3. QED
    BY <2>2, Zenon DEF w, v
<1>5. QED
  BY <1>1, <1>2, <1>3, <1>4

\* One thing more adds its size.
LEMMA TotalAdds ==
  ASSUME NEW T, NEW of, NEW y, y \notin T, Sized(of, T \cup {y})
  PROVE  Total(of, T \cup {y}) = Total(of, T) + of[y].size
<1> DEFINE U == T \cup {y}
           w == Weights(of, U)
           v == Weights(of, T)
<1>0. IsFiniteSet(U) /\ IsFiniteSet(T) /\ \A x \in U : of[x].size \in Nat
  BY FS_Subset DEF Sized
<1>1. PICK g : Sums(v, T, g) /\ Total(of, T) = g[T]
  BY <1>0, TotalIs
<1>2. PICK h : Sums(w, U, h) /\ Total(of, U) = h[U]
  BY <1>0, TotalIs
<1>3. (\A x \in U : w[x] = of[x].size) /\ (\A x \in T : v[x] = of[x].size)
  BY DEF Weights
<1> HIDE DEF w, v
<1>4. h[U] = w[y] + h[U \ {y}]
  <2>1. Summed(w, U, h)
    BY <1>0, <1>2, <1>3 DEF Summed
  <2>2. U \in SUBSET U /\ y \in U
    OBVIOUS
  <2> HIDE DEF U
  <2>3. QED
    <3>1. Ordered(w, U, h)
      BY <2>1, SumsOrder, Zenon
    <3>2. QED
      BY <2>2, <3>1 DEF Ordered
<1>5. U \ {y} = T
  OBVIOUS
<1>6. g[T] = h[T]
  <2>1. \A s \in SUBSET T : s \subseteq U /\ (\A x \in s : v[x] = w[x]) => g[s] = h[s]
    <3>1. Sums(v, T, g) /\ Sums(w, U, h) /\ IsFiniteSet(T)
      BY <1>0, <1>1, <1>2
    <3> HIDE DEF U
    <3>2. QED
      BY ONLY <3>1, SumsAgree
  <2>2. QED
    BY <1>3, <2>1
<1>7. g[T] \in Nat
  <2>1. \A x \in T : v[x] \in Nat
    BY <1>0, <1>3
  <2>2. QED
    BY <1>0, <1>1, <2>1, SumsNat
<1>8. of[y].size \in Nat /\ w[y] = of[y].size
  BY <1>0, <1>3
<1>9. Total(of, U) = of[y].size + g[T]
  BY <1>2, <1>4, <1>5, <1>6, <1>8
<1>10. of[y].size + g[T] = g[T] + of[y].size
  <2>1. \A a, b \in Nat : a + b = b + a
    OBVIOUS
  <2>2. QED
    BY <1>7, <1>8, <2>1, Zenon
<1>11. QED
  BY <1>1, <1>9, <1>10, Zenon

-----------------------------------------------------------------------------
(* Counting modulo a number *)

\* A multiple of n that is nearer to 0 than n is 0.
LEMMA NoMultiple ==
  ASSUME NEW n \in Nat \ {0}, NEW d \in Int, NEW r \in Int, n * d = r, -n < r, r < n
  PROVE  r = 0
<1>1. CASE d >= 1
  <2>1. PICK c \in Nat : d = c + 1
    <3>1. d - 1 \in Nat /\ d = (d - 1) + 1
      BY <1>1
    <3>2. QED
      BY <3>1
  <2>2. n * c \in Nat
    OBVIOUS
  <2>3. n * (c + 1) = n * c + n
    OBVIOUS
  <2>4. QED
    BY <2>1, <2>2, <2>3
<1>2. CASE d <= -1
  <2>1. PICK c \in Nat : d = -c - 1
    <3>1. -d - 1 \in Nat /\ d = -(-d - 1) - 1
      BY <1>2
    <3>2. QED
      BY <3>1
  <2>2. n * c \in Nat
    OBVIOUS
  <2>3. n * (-c - 1) = -(n * c) - n
    OBVIOUS
  <2>4. QED
    BY <2>1, <2>2, <2>3
<1>3. CASE d = 0
  BY <1>3
<1>4. QED
  BY <1>1, <1>2, <1>3

\* Division with remainder.
LEMMA DivMod ==
  ASSUME NEW n \in Nat \ {0}, NEW x \in Int
  PROVE  \E q \in Int : x = n * q + (x % n) /\ x % n \in Nat /\ x % n < n
<1>1. x \div n \in Int /\ x = n * (x \div n) + (x % n) /\ x % n \in Nat /\ x % n < n
  OBVIOUS
<1>2. QED
  BY <1>1

\* Numbers that leave the same remainder differ by a multiple, and conversely.
ApartBy(n, x, y) == \E k \in Int : x - y = n * k

LEMMA SameRemainder ==
  ASSUME NEW n \in Nat \ {0}, NEW x \in Int, NEW y \in Int
  PROVE  x % n = y % n <=> ApartBy(n, x, y)
<1>1. PICK p \in Int : x = n * p + (x % n) /\ x % n \in Nat /\ x % n < n
  BY DivMod
<1>2. PICK q \in Int : y = n * q + (y % n) /\ y % n \in Nat /\ y % n < n
  BY DivMod
<1> DEFINE r == x % n
           s == y % n
<1>3. r \in Nat /\ s \in Nat /\ r < n /\ s < n /\ x = n * p + r /\ y = n * q + s
  BY <1>1, <1>2
<1> HIDE DEF r, s
<1>4. n * p \in Int /\ n * q \in Int
  OBVIOUS
<1>5. ASSUME r = s PROVE \E k \in Int : x - y = n * k
  <2>1. n * (p - q) = n * p - n * q
    OBVIOUS
  <2>2. x - y = n * (p - q)
    BY <1>3, <1>4, <1>5, <2>1
  <2>3. p - q \in Int
    OBVIOUS
  <2>4. QED
    BY <2>2, <2>3
<1>6. ASSUME NEW k \in Int, x - y = n * k PROVE r = s
  <2> DEFINE d == k - p + q
  <2>1. n * d = n * k - n * p + n * q
    OBVIOUS
  <2>2. n * k \in Int
    OBVIOUS
  <2>3. n * d = r - s
    BY <1>3, <1>4, <1>6, <2>1, <2>2
  <2>4. d \in Int /\ r - s \in Int /\ -n < r - s /\ r - s < n
    BY <1>3
  <2> HIDE DEF d
  <2>5. r - s = 0
    BY <2>3, <2>4, NoMultiple
  <2>6. QED
    BY <1>3, <2>5
<1>7. QED
  BY <1>5, <1>6 DEF r, s, ApartBy

\* Counting modulo n: c and e together stand for s.
Stands(n, c, e, s) ==
  /\ n \in Nat \ {0} /\ c \in Int /\ e \in Int /\ s \in Int
  /\ (c + e) % n = s % n

Counts(n, c, e, s, d) ==
  /\ (((c + d) % n) + e) % n = (s + d) % n
  /\ (c + ((e + d) % n)) % n = (s + d) % n
  /\ (((c + d) % n) + ((e - d) % n)) % n = s % n

LEMMA CountedOn ==
  ASSUME NEW n, NEW c, NEW e, NEW s, Stands(n, c, e, s), NEW d \in Int
  PROVE  Counts(n, c, e, s, d)
<1>0. /\ n \in Nat \ {0} /\ c \in Int /\ e \in Int /\ s \in Int
      /\ (c + e) % n = s % n
  BY DEF Stands
<1>1. PICK k \in Int : (c + e) - s = n * k
  <2>1. c + e \in Int
    BY <1>0
  <2>2. QED
    BY <1>0, <2>1, SameRemainder DEF ApartBy
<1>2. PICK p \in Int : c + d = n * p + ((c + d) % n) /\ (c + d) % n \in Nat
  <2>1. c + d \in Int
    BY <1>0
  <2>2. QED
    BY <1>0, <2>1, DivMod
<1>3. PICK q \in Int : e + d = n * q + ((e + d) % n) /\ (e + d) % n \in Nat
  <2>1. e + d \in Int
    BY <1>0
  <2>2. QED
    BY <1>0, <2>1, DivMod
<1>4. PICK o \in Int : e - d = n * o + ((e - d) % n) /\ (e - d) % n \in Nat
  <2>1. e - d \in Int
    BY <1>0
  <2>2. QED
    BY <1>0, <2>1, DivMod
<1> DEFINE x == (c + d) % n
           y == (e + d) % n
           z == (e - d) % n
<1>5. /\ x \in Int /\ y \in Int /\ z \in Int
      /\ c + d = n * p + x /\ e + d = n * q + y /\ e - d = n * o + z
  BY <1>2, <1>3, <1>4
<1> HIDE DEF x, y, z
<1>6. n * k \in Int /\ n * p \in Int /\ n * q \in Int /\ n * o \in Int
  BY <1>0
<1>7. (x + e) % n = (s + d) % n
  <2>1. n * (k - p) = n * k - n * p
    BY <1>0
  <2>2. (x + e) - (s + d) = n * (k - p) /\ k - p \in Int /\ x + e \in Int /\ s + d \in Int
    BY <1>0, <1>1, <1>5, <1>6, <2>1
  <2>3. ApartBy(n, x + e, s + d)
    BY <2>2 DEF ApartBy
  <2>4. QED
    BY <1>0, <2>2, <2>3, SameRemainder, Zenon
<1>8. (c + y) % n = (s + d) % n
  <2>1. n * (k - q) = n * k - n * q
    BY <1>0
  <2>2. (c + y) - (s + d) = n * (k - q) /\ k - q \in Int /\ c + y \in Int /\ s + d \in Int
    BY <1>0, <1>1, <1>5, <1>6, <2>1
  <2>3. ApartBy(n, c + y, s + d)
    BY <2>2 DEF ApartBy
  <2>4. QED
    BY <1>0, <2>2, <2>3, SameRemainder, Zenon
<1>9. (x + z) % n = s % n
  <2>1. n * (k - p - o) = n * k - n * p - n * o
    BY <1>0
  <2>2. (x + z) - s = n * (k - p - o) /\ k - p - o \in Int /\ x + z \in Int
    BY <1>0, <1>1, <1>5, <1>6, <2>1
  <2>3. ApartBy(n, x + z, s)
    BY <2>2 DEF ApartBy
  <2>4. QED
    BY <1>0, <2>2, <2>3, SameRemainder, Zenon
<1>10. QED
  BY <1>7, <1>8, <1>9, Zenon DEF x, y, z, Counts

\* A remainder stands for its number in a sum.
LEMMA CountedUp ==
  ASSUME NEW n \in Nat \ {0}, NEW c, NEW s \in Int, NEW d \in Int, c = s % n
  PROVE  (c + d) % n = (s + d) % n
<1>1. PICK q \in Int : s = n * q + (s % n) /\ s % n \in Nat
  BY DivMod
<1>2. c \in Int /\ s = n * q + c
  BY <1>1
<1>3. n * q \in Int /\ n * (-q) = -(n * q) /\ -q \in Int
  OBVIOUS
<1>4. (c + d) - (s + d) = n * (-q) /\ c + d \in Int /\ s + d \in Int
  BY ONLY <1>2, <1>3, s \in Int, d \in Int
<1>5. ApartBy(n, c + d, s + d)
  BY <1>3, <1>4 DEF ApartBy
<1>6. QED
  BY <1>4, <1>5, SameRemainder, Zenon

-----------------------------------------------------------------------------
(* Contiguous memory *)

Users == Rings \cup {"fence"}

\* What mem may be.
Mem == [ptr : [Users -> Page \cup {None}], init : [Rings -> BOOLEAN],
        live : SUBSET Page, wild : BOOLEAN, starved : BOOLEAN]

\* Every block that is allocated has a name.
Kept(m) == \A b \in m.live : \E p \in Users : m.ptr[p] = b

\* An initialised ring has one.
Backed(m) == \A r \in Rings : m.init[r] => m.ptr[r] # None

\* No block has two names, and what is named is allocated.
Single(m) ==
  /\ \A p \in Users : m.ptr[p] # None => m.ptr[p] \in m.live
  /\ \A p, q \in Users : m.ptr[p] # None /\ m.ptr[p] = m.ptr[q] => p = q

\* No block was freed twice, and none will be, but for the failure of the fence
\* page.
Tame(m) == ~m.wild /\ (~m.starved => Single(m))

\* The ring that a pointer belongs to.
RingOf(p) == IF p = "fence" THEN "gfx" ELSE p

\* Between two callbacks a block belongs to a ring that is initialised, and only
\* the pointer of the GFX ring outlives that: without a ring HwInitialize, which
\* looks at the rings, has nothing to take back.
Settled(m) ==
  /\ \A b \in m.live : \E p \in Users : m.ptr[p] = b /\ m.init[RingOf(p)]
  /\ \A p \in Users \ {"gfx"} : m.ptr[p] # None => m.init[RingOf(p)]

Owned(m) == Kept(m) /\ Backed(m) /\ Tame(m)

\* Nothing is allocated or named.
Nothing(m) ==
  /\ m.live = {}
  /\ \A p \in Users : m.ptr[p] = None
  /\ \A r \in Rings : ~m.init[r]

\* RingsOwned is that.
LEMMA OwnedIs == ASSUME AdapterAssumption, mem \in Mem PROVE Owned(mem) <=> RingsOwned
<1>1. DOMAIN mem.ptr = Users
  BY DEF Mem
<1>2. (None \notin Page) /\ mem.live \subseteq Page
  BY AdapterAssumption DEF Mem
<1>3. Kept(mem) <=> mem.live \subseteq {mem.ptr[p] : p \in {p \in Users : mem.ptr[p] # None}}
  BY <1>2 DEF Kept
<1>4. Single(mem) <=>
        /\ {mem.ptr[p] : p \in {p \in Users : mem.ptr[p] # None}} \subseteq mem.live
        /\ \A p, q \in {p \in Users : mem.ptr[p] # None} : mem.ptr[p] = mem.ptr[q] => p = q
  BY <1>2 DEF Single
<1>5. QED
  BY <1>1, <1>3, <1>4, Zenon DEF RingsOwned, Owned, Tame, Backed

\* Freeing a block: what is left.
LEMMA FreeIs ==
  ASSUME AdapterAssumption, NEW m \in Mem, NEW p \in Users
  PROVE  /\ Free(m, p) \in Mem
         /\ Free(m, p).ptr = [m.ptr EXCEPT ![p] = None]
         /\ Free(m, p).init = m.init
         /\ Free(m, p).live = m.live \ {m.ptr[p]}
         /\ Free(m, p).starved = m.starved
         /\ Free(m, p).wild = (m.wild \/ (~m.starved /\ m.ptr[p] # None /\ m.ptr[p] \notin m.live))
<1>1. CASE m.ptr[p] = None
  <2>1. Free(m, p) = m
    BY <1>1 DEF Free
  <2>2. m.ptr = [m.ptr EXCEPT ![p] = None]
    BY <1>1 DEF Mem
  <2>3. m.live = m.live \ {m.ptr[p]}
    BY <1>1, AdapterAssumption DEF Mem
  <2>4. m.wild = (m.wild \/ (~m.starved /\ m.ptr[p] # None /\ m.ptr[p] \notin m.live))
    BY <1>1, Zenon DEF Mem
  <2>5. QED
    BY <2>1, <2>2, <2>3, <2>4, Zenon
<1>2. CASE m.ptr[p] # None
  <2>1. Free(m, p) = [m EXCEPT !.ptr = [m.ptr EXCEPT ![p] = None],
                               !.live = m.live \ {m.ptr[p]},
                               !.wild = m.wild \/ (~m.starved /\ m.ptr[p] \notin m.live)]
    BY <1>2, Zenon DEF Free
  <2>2. /\ [m.ptr EXCEPT ![p] = None] \in [Users -> Page \cup {None}]
        /\ m.live \ {m.ptr[p]} \in SUBSET Page
        /\ (m.wild \/ (~m.starved /\ m.ptr[p] \notin m.live)) \in BOOLEAN
    BY DEF Mem
  <2>3. DEFINE W == (m.wild \/ (~m.starved /\ m.ptr[p] \notin m.live))
               P == [m.ptr EXCEPT ![p] = None]
               L == m.live \ {m.ptr[p]}
  <2>4. (m.wild \/ (~m.starved /\ m.ptr[p] # None /\ m.ptr[p] \notin m.live)) = W
    BY <1>2, Zenon
  <2>5. /\ Free(m, p) = [m EXCEPT !.ptr = P, !.live = L, !.wild = W]
        /\ P \in [Users -> Page \cup {None}] /\ L \in SUBSET Page /\ W \in BOOLEAN
    BY <2>1, <2>2, Zenon
  <2> HIDE DEF W, P, L
  <2>6. /\ Free(m, p) \in Mem
        /\ Free(m, p).ptr = P /\ Free(m, p).init = m.init
        /\ Free(m, p).live = L /\ Free(m, p).starved = m.starved
        /\ Free(m, p).wild = W
    BY <2>5 DEF Mem
  <2>7. QED
    BY <2>4, <2>6, Zenon DEF P, L
<1>3. QED
  BY <1>1, <1>2

\* Freeing loses no block, and no block twice.
LEMMA FreeKeeps ==
  ASSUME AdapterAssumption, NEW m \in Mem, NEW p \in Users
  PROVE  /\ Kept(m) => Kept(Free(m, p))
         /\ Tame(m) => Tame(Free(m, p))
<1>1. /\ Free(m, p).ptr = [m.ptr EXCEPT ![p] = None]
      /\ Free(m, p).live = m.live \ {m.ptr[p]}
      /\ Free(m, p).wild = (m.wild \/ (~m.starved /\ m.ptr[p] # None /\ m.ptr[p] \notin m.live))
      /\ Free(m, p).starved = m.starved
  BY FreeIs
<1>2. m.ptr \in [Users -> Page \cup {None}] /\ m.live \subseteq Page /\ (None \notin Page)
  BY AdapterAssumption DEF Mem
<1>3. Kept(m) => Kept(Free(m, p))
  BY <1>1, <1>2 DEF Kept
<1>4. ASSUME Single(m) PROVE Single(Free(m, p))
  <2>1. ASSUME NEW q \in Users, Free(m, p).ptr[q] # None
        PROVE  q # p /\ Free(m, p).ptr[q] = m.ptr[q]
    BY <1>1, <1>2, <2>1
  <2>2. QED
    BY <1>1, <1>2, <1>4, <2>1 DEF Single
<1>5. ASSUME Tame(m) PROVE ~Free(m, p).wild
  BY <1>1, <1>5, Zenon DEF Tame, Single
<1>6. QED
  BY <1>1, <1>3, <1>4, <1>5, Zenon DEF Tame

\* What is allocated has a name other than p.
Spared(m, p) == \A b \in m.live : \E q \in Users \ {p} : m.ptr[q] = b

\* Allocating a block: there is one that is free while three are not named.
LEMMA AllocateIs ==
  ASSUME AdapterAssumption, NEW m \in Mem, NEW p \in Users, Spared(m, p)
  PROVE  \E b \in Page \ m.live :
           Allocate(m, p) = [m EXCEPT !.ptr = [m.ptr EXCEPT ![p] = b], !.live = m.live \cup {b}]
<1>1. \E b \in Page : b \notin m.live
  <2>1. PICK d \in Page : TRUE
    BY AdapterAssumption
  <2>2. PICK u, v, w \in Users : Users = {p, u, v, w}
    BY DEF Users, Rings
  <2>3. PICK f \in [Users -> Page] : \A q \in Users : m.ptr[q] # None => f[q] = m.ptr[q]
    <3>1. [q \in Users |-> IF m.ptr[q] # None THEN m.ptr[q] ELSE d] \in [Users -> Page]
      BY DEF Mem
    <3>2. QED
      BY <3>1
  <2>4. m.live \subseteq {f[u], f[v], f[w]}
    <3> SUFFICES ASSUME NEW b \in m.live PROVE b \in {f[u], f[v], f[w]}
      OBVIOUS
    <3>1. b \in Page /\ b # None
      BY AdapterAssumption DEF Mem
    <3>2. PICK q \in Users \ {p} : m.ptr[q] = b
      BY Zenon DEF Spared
    <3>3. q # p /\ f[q] = b
      BY <2>3, <3>1, <3>2
    <3>4. QED
      BY <2>2, <3>3
  <2>5. Page # {f[u], f[v], f[w]}
    BY AdapterAssumption
  <2>6. {f[u], f[v], f[w]} \subseteq Page /\ m.live \subseteq Page
    BY DEF Mem
  <2>7. QED
    BY <2>4, <2>5, <2>6
<1>2. PICK b \in Page : b = (CHOOSE x \in Page : x \notin m.live) /\ b \notin m.live
  BY <1>1
<1>3. Allocate(m, p) = [m EXCEPT !.ptr = [m.ptr EXCEPT ![p] = b], !.live = m.live \cup {b}]
  BY <1>2, Zenon DEF Allocate
<1>4. QED
  BY <1>2, <1>3

\* A block that is allocated has one name and no other block loses its own.
LEMMA AllocateKeeps ==
  ASSUME AdapterAssumption, NEW m \in Mem, NEW p \in Users, Spared(m, p)
  PROVE  /\ Allocate(m, p) \in Mem
         /\ Kept(Allocate(m, p))
         /\ Backed(m) => Backed(Allocate(m, p))
         /\ Single(m) => Single(Allocate(m, p))
         /\ Tame(m) => Tame(Allocate(m, p))
         /\ \A b \in Allocate(m, p).live : b = Allocate(m, p).ptr[p] \/ b \in m.live
         /\ Allocate(m, p).ptr[p] \in Page
         /\ \A q \in Users \ {p} : Allocate(m, p).ptr[q] = m.ptr[q]
         /\ Allocate(m, p).init = m.init
         /\ Allocate(m, p).starved = m.starved
<1>1. PICK b \in Page \ m.live :
        Allocate(m, p) = [m EXCEPT !.ptr = [m.ptr EXCEPT ![p] = b], !.live = m.live \cup {b}]
  BY AllocateIs
<1> DEFINE n == Allocate(m, p)
           P == [m.ptr EXCEPT ![p] = b]
           L == m.live \cup {b}
<1>2. m.ptr \in [Users -> Page \cup {None}] /\ m.live \subseteq Page /\ (None \notin Page)
  BY AdapterAssumption DEF Mem
<1>3. /\ P \in [Users -> Page \cup {None}] /\ L \in SUBSET Page
      /\ P[p] = b /\ (\A q \in Users \ {p} : P[q] = m.ptr[q])
      /\ (\A x \in L : x = b \/ x \in m.live) /\ b \in L /\ m.live \subseteq L
  BY <1>2
<1>4. n = [m EXCEPT !.ptr = P, !.live = L]
  BY <1>1, Zenon
<1> HIDE DEF n, P, L
<1>5. /\ n \in Mem /\ n.ptr = P /\ n.live = L
      /\ n.init = m.init /\ n.starved = m.starved /\ n.wild = m.wild
  BY <1>3, <1>4 DEF Mem
<1>6. Kept(n)
  <2> SUFFICES ASSUME NEW x \in L PROVE \E q \in Users : P[q] = x
    BY <1>5, Zenon DEF Kept
  <2>1. CASE x = b
    BY <1>3, <2>1, Zenon
  <2>2. CASE x \in m.live
    <3>1. PICK q \in Users \ {p} : m.ptr[q] = x
      BY <2>2, Zenon DEF Spared
    <3>2. QED
      BY <1>3, <3>1, Zenon
  <2>3. QED
    BY <1>3, <2>1, <2>2, Zenon
<1>7. Backed(m) => Backed(n)
  BY <1>2, <1>3, <1>5 DEF Backed, Users
<1>8. Single(m) => Single(n)
  <2> SUFFICES ASSUME Single(m) PROVE Single(n)
    OBVIOUS
  <2>2. \A q \in Users \ {p} : P[q] # None => P[q] \in m.live
    BY <1>3, Zenon DEF Single
  <2>3. \A q \in Users : P[q] # None => P[q] \in L
    BY <1>3, <2>2, Zenon
  <2>4. ASSUME NEW q \in Users, NEW r \in Users, P[q] # None, P[q] = P[r]
        PROVE  q = r
    <3>1. q = p => r = p
      BY <1>1, <1>3, <2>2, <2>4, Zenon
    <3>2. r = p => q = p
      BY <1>1, <1>3, <2>2, <2>4, Zenon
    <3>3. q # p /\ r # p => q = r
      BY <1>3, <2>4, Zenon DEF Single
    <3>4. QED
      BY <3>1, <3>2, <3>3
  <2>5. QED
    BY <1>5, <2>3, <2>4, Zenon DEF Single
<1>9. n.ptr[p] \in Page /\ \A q \in Users \ {p} : n.ptr[q] = m.ptr[q]
  BY <1>3, <1>5
<1>10. Tame(m) => Tame(n)
  BY <1>5, <1>8, Zenon DEF Tame
<1>11. \A x \in n.live : x = n.ptr[p] \/ x \in m.live
  BY <1>3, <1>5, Zenon
<1>12. QED
  BY <1>5, <1>6, <1>7, <1>8, <1>9, <1>10, <1>11, Zenon DEF n

\* A ring is initialised, or no longer.
LEMMA SwitchIs ==
  ASSUME NEW I \in [Rings -> BOOLEAN], NEW r \in Rings
  PROVE  /\ [I EXCEPT ![r] = TRUE] \in [Rings -> BOOLEAN]
         /\ [I EXCEPT ![r] = TRUE][r]
         /\ \A q \in Rings \ {r} : [I EXCEPT ![r] = TRUE][q] = I[q]
         /\ [I EXCEPT ![r] = FALSE] \in [Rings -> BOOLEAN]
         /\ ~[I EXCEPT ![r] = FALSE][r]
         /\ \A q \in Rings \ {r} : [I EXCEPT ![r] = FALSE][q] = I[q]
<1>1. [I EXCEPT ![r] = TRUE] \in [Rings -> BOOLEAN]
  OBVIOUS
<1>2. [I EXCEPT ![r] = FALSE] \in [Rings -> BOOLEAN]
  OBVIOUS
<1>3. [I EXCEPT ![r] = TRUE][r] /\ \A q \in Rings \ {r} : [I EXCEPT ![r] = TRUE][q] = I[q]
  BY Zenon
<1>4. ~[I EXCEPT ![r] = FALSE][r] /\ \A q \in Rings \ {r} : [I EXCEPT ![r] = FALSE][q] = I[q]
  BY Zenon
<1>5. QED
  BY <1>1, <1>2, <1>3, <1>4, Zenon

\* An initialised ring has a block then as before.
WithInit(m, I) == [m EXCEPT !.init = I]

LEMMA WithInitKeeps ==
  ASSUME NEW m \in Mem, NEW I \in [Rings -> BOOLEAN],
         \A r \in Rings : I[r] => m.ptr[r] # None
  PROVE  /\ WithInit(m, I) \in Mem
         /\ WithInit(m, I).ptr = m.ptr /\ WithInit(m, I).live = m.live
         /\ WithInit(m, I).init = I
         /\ Kept(m) => Kept(WithInit(m, I))
         /\ Backed(WithInit(m, I))
         /\ Tame(m) => Tame(WithInit(m, I))
<1> DEFINE n == WithInit(m, I)
<1>1. /\ n \in Mem /\ n.ptr = m.ptr /\ n.starved = m.starved
      /\ n.live = m.live /\ n.wild = m.wild /\ n.init = I
  BY DEF Mem, WithInit
<1> HIDE DEF n
<1>2. Kept(m) => Kept(n)
  BY <1>1, Zenon DEF Kept
<1>3. Backed(n)
  BY <1>1, Zenon DEF Backed
<1>4. Tame(m) => Tame(n)
  BY <1>1, Zenon DEF Tame, Single
<1>5. QED
  BY <1>1, <1>2, <1>3, <1>4, Zenon DEF n

\* HwShutdown gives back everything.
LEMMA HwShutdownEmpties ==
  ASSUME AdapterAssumption, NEW m \in Mem, Kept(m), Tame(m)
  PROVE  /\ HwShutdown(m) \in Mem
         /\ Nothing(HwShutdown(m))
         /\ Owned(HwShutdown(m)) /\ Settled(HwShutdown(m))
<1> DEFINE m1 == Free(m, "gfx")
           m2 == Free(m1, "sdma")
           m3 == Free(m2, "ih")
           m4 == Free(m3, "fence")
           off == [r \in Rings |-> FALSE]
           n == [m4 EXCEPT !.init = off, !.starved = FALSE]
<1>0. "gfx" \in Users /\ "sdma" \in Users /\ "ih" \in Users /\ "fence" \in Users
  BY DEF Users, Rings
<1>1. m1 \in Mem /\ m1.ptr = [m.ptr EXCEPT !["gfx"] = None] /\ m1.starved = m.starved
      /\ Kept(m1) /\ Tame(m1)
  BY <1>0, FreeIs, FreeKeeps
<1> HIDE DEF m1
<1>2. m2 \in Mem /\ m2.ptr = [m1.ptr EXCEPT !["sdma"] = None] /\ m2.starved = m1.starved
      /\ Kept(m2) /\ Tame(m2)
  BY <1>0, <1>1, FreeIs, FreeKeeps
<1> HIDE DEF m2
<1>3. m3 \in Mem /\ m3.ptr = [m2.ptr EXCEPT !["ih"] = None] /\ m3.starved = m2.starved
      /\ Kept(m3) /\ Tame(m3)
  BY <1>0, <1>2, FreeIs, FreeKeeps
<1> HIDE DEF m3
<1>4. m4 \in Mem /\ m4.ptr = [m3.ptr EXCEPT !["fence"] = None] /\ m4.starved = m3.starved
      /\ Kept(m4) /\ Tame(m4)
  BY <1>0, <1>3, FreeIs, FreeKeeps
<1> HIDE DEF m4
<1>5. \A p \in Users : m4.ptr[p] = None
  BY <1>1, <1>2, <1>3, <1>4 DEF Mem, Users, Rings
<1>6. off \in [Rings -> BOOLEAN] /\ \A r \in Rings : ~off[r]
  OBVIOUS
<1> HIDE DEF off
<1>7. /\ n \in Mem /\ n.ptr = m4.ptr /\ n.live = m4.live /\ n.wild = m4.wild
      /\ n.starved = FALSE /\ n.init = off
  BY <1>4, <1>6 DEF Mem
<1>8. HwShutdown(m) = n
  BY Zenon DEF HwShutdown, n, m4, m3, m2, m1, off
<1> HIDE DEF n
<1>9. n.live = {}
  <2> SUFFICES ASSUME NEW b \in n.live PROVE FALSE
    BY Zenon
  <2>1. b \in Page /\ b # None
    BY <1>7, AdapterAssumption DEF Mem
  <2>2. \E p \in Users : m4.ptr[p] = b
    BY <1>4, <1>7, Zenon DEF Kept
  <2>3. QED
    BY <1>5, <2>1, <2>2
<1>10. Nothing(n)
  BY <1>5, <1>6, <1>7, <1>9, Zenon DEF Nothing
<1>11. Kept(n) /\ Backed(n) /\ Settled(n)
  BY <1>5, <1>6, <1>7, <1>9, Zenon DEF Kept, Backed, Settled
<1>12. Tame(n)
  BY <1>4, <1>5, <1>7, Zenon DEF Tame, Single
<1>13. QED
  BY <1>7, <1>8, <1>10, <1>11, <1>12, Zenon DEF Owned

\* InitIhRing and InitSdmaRing.
LEMMA InitRingKeeps ==
  ASSUME AdapterAssumption, NEW m \in Mem, NEW r \in {"ih", "sdma"}, NEW fails \in BOOLEAN,
         ~m.init[r], Owned(m), Settled(m)
  PROVE  /\ InitRing(m, r, fails) \in Mem
         /\ Owned(InitRing(m, r, fails)) /\ Settled(InitRing(m, r, fails))
         /\ \A q \in Rings \ {r} : InitRing(m, r, fails).init[q] = m.init[q]
<1> DEFINE a == Allocate(m, r)
           I == [a.init EXCEPT ![r] = TRUE]
           n == WithInit(a, I)
<1>1. /\ r \in Users /\ r \in Rings /\ RingOf(r) = r /\ (None \notin Page)
      /\ \A q \in Users : RingOf(q) = r => q = r
      /\ \A q \in Users \ {r} : RingOf(q) \in Rings \ {r}
  BY AdapterAssumption DEF Users, Rings, RingOf
<1>2. CASE fails
  BY <1>2 DEF InitRing
<1>3. CASE ~fails
  <2>1. Kept(m) /\ Backed(m) /\ Tame(m) /\ Spared(m, r)
    BY <1>1, Zenon DEF Owned, Settled, Spared
  <2>2. /\ a \in Mem /\ Kept(a) /\ Backed(a) /\ Tame(a)
        /\ a.ptr[r] # None /\ a.init = m.init
        /\ \A q \in Users \ {r} : a.ptr[q] = m.ptr[q]
        /\ \A b \in a.live : b = a.ptr[r] \/ b \in m.live
    BY <1>1, <2>1, AllocateKeeps
  <2> HIDE DEF a
  <2>3. /\ n \in Mem /\ n.ptr = a.ptr /\ n.live = a.live
        /\ Kept(n) /\ Backed(n) /\ Tame(n)
        /\ n.init[r] /\ \A q \in Rings \ {r} : n.init[q] = m.init[q]
    <3>1. a.init \in [Rings -> BOOLEAN]
      BY <2>2 DEF Mem
    <3>2. I \in [Rings -> BOOLEAN] /\ I[r] /\ \A q \in Rings \ {r} : I[q] = a.init[q]
      BY <1>1, <3>1, SwitchIs, Zenon
    <3> HIDE DEF I
    <3>3. \A q \in Rings : I[q] => a.ptr[q] # None
      BY <2>2, <3>2, Zenon DEF Backed
    <3>4. QED
      BY <2>2, <3>2, <3>3, WithInitKeeps, Zenon
  <2>4. InitRing(m, r, fails) = n
    BY <1>3, Zenon DEF InitRing, a, n, I, WithInit
  <2> HIDE DEF n
  <2>5. \A b \in n.live : \E p \in Users : n.ptr[p] = b /\ n.init[RingOf(p)]
    <3> SUFFICES ASSUME NEW b \in n.live
                 PROVE  \E p \in Users : n.ptr[p] = b /\ n.init[RingOf(p)]
      OBVIOUS
    <3>1. CASE b = n.ptr[r]
      BY <1>1, <2>3, <3>1, Zenon
    <3>2. CASE b \in m.live
      <4>1. PICK p \in Users : m.ptr[p] = b /\ m.init[RingOf(p)]
        BY <3>2, Zenon DEF Settled
      <4>2. p # r
        BY <1>1, <4>1
      <4>3. n.ptr[p] = b /\ n.init[RingOf(p)]
        BY <1>1, <2>2, <2>3, <4>1, <4>2
      <4>4. QED
        BY <4>3, Zenon
    <3>3. b \in a.live /\ n.ptr[r] = a.ptr[r]
      BY <2>3, Zenon
    <3>4. QED
      BY <2>2, <3>1, <3>2, <3>3, Zenon
  <2>6. ASSUME NEW p \in Users \ {"gfx"}, n.ptr[p] # None PROVE n.init[RingOf(p)]
    <3>1. CASE p = r
      BY <1>1, <2>3, <3>1, Zenon
    <3>2. CASE p # r
      BY <1>1, <2>2, <2>3, <2>6, <3>2, Zenon DEF Settled
    <3>3. QED
      BY <3>1, <3>2
  <2>7. QED
    BY <2>3, <2>4, <2>5, <2>6, Zenon DEF Owned, Settled
<1>4. QED
  BY <1>2, <1>3

\* Without a fence page the block of the ring is back and its name stays.
LEMMA FenceFails ==
  ASSUME AdapterAssumption, NEW ring \in Mem, Kept(ring), Backed(ring), Tame(ring),
         ~ring.init["gfx"]
  PROVE  LET n == [Free([ring EXCEPT !.starved = TRUE], "gfx")
                     EXCEPT !.ptr["gfx"] = ring.ptr["gfx"]]
         IN /\ n \in Mem /\ Owned(n)
            /\ n.ptr = ring.ptr /\ n.init = ring.init
            /\ n.live = ring.live \ {ring.ptr["gfx"]}
<1> DEFINE e == [ring EXCEPT !.starved = TRUE]
           f == Free(e, "gfx")
           P == [f.ptr EXCEPT !["gfx"] = ring.ptr["gfx"]]
           n == [f EXCEPT !.ptr["gfx"] = ring.ptr["gfx"]]
<1>0. "gfx" \in Users
  BY DEF Users, Rings
<1>1. /\ e \in Mem /\ e.ptr = ring.ptr /\ e.init = ring.init /\ e.live = ring.live
      /\ e.wild = ring.wild /\ e.starved
  BY DEF Mem
<1> HIDE DEF e
<1>2. /\ f \in Mem /\ f.ptr = [e.ptr EXCEPT !["gfx"] = None] /\ f.init = e.init
      /\ f.live = e.live \ {e.ptr["gfx"]} /\ f.starved = e.starved
      /\ f.wild = (e.wild \/ (~e.starved /\ e.ptr["gfx"] # None /\ e.ptr["gfx"] \notin e.live))
  BY <1>0, <1>1, FreeIs
<1>3. ~f.wild /\ f.starved
  BY <1>1, <1>2, Zenon DEF Tame
<1>4. n = [f EXCEPT !.ptr = P]
  BY Zenon
<1> HIDE DEF f, n
<1>5. P = ring.ptr
  BY <1>0, <1>1, <1>2 DEF Mem
<1> HIDE DEF P
<1>6. /\ n \in Mem /\ n.ptr = ring.ptr /\ n.init = ring.init /\ n.starved /\ ~n.wild
      /\ n.live = ring.live \ {ring.ptr["gfx"]}
  BY <1>1, <1>2, <1>3, <1>4, <1>5 DEF Mem
<1>7. Kept(n) /\ Backed(n) /\ Tame(n)
  BY <1>6, Zenon DEF Kept, Backed, Tame
<1>8. QED
  BY <1>6, <1>7, Zenon DEF Owned, n, f, e

\* InitGfxRing, whatever fails.
LEMMA InitGfxRingKeeps ==
  ASSUME AdapterAssumption, NEW m \in Mem, NEW fail,
         ~m.init["gfx"], Owned(m), Settled(m)
  PROVE  /\ InitGfxRing(m, fail) \in Mem
         /\ Owned(InitGfxRing(m, fail)) /\ Settled(InitGfxRing(m, fail))
         /\ \A q \in Rings \ {"gfx"} : InitGfxRing(m, fail).init[q] = m.init[q]
<1> DEFINE a == Allocate(m, "gfx")
           down == [a.init EXCEPT !["gfx"] = FALSE]
           ring == WithInit(a, down)
           both == Allocate(ring, "fence")
           others == {"sdma", "ih"}
<1>0. /\ "gfx" \in Users /\ "fence" \in Users /\ "gfx" \in Rings
      /\ Users = {"gfx", "fence"} \cup others /\ Rings \ {"gfx"} = others
      /\ "fence" \in Users \ {"gfx"} /\ \A q \in others : q \in Users \ {"gfx"}
      /\ "gfx" \notin others /\ "fence" \notin others /\ "gfx" # "fence"
      /\ RingOf("gfx") = "gfx" /\ RingOf("fence") = "gfx" /\ \A q \in others : RingOf(q) = q
      /\ (None \notin Page)
  BY AdapterAssumption DEF Users, Rings, RingOf
<1>r. "gfx" \in Rings /\ \A q \in others : q \in Rings \ {"gfx"}
  BY <1>0, Zenon
<1>f. /\ "fence" \in Users \ {"gfx"} /\ RingOf("fence") = "gfx"
      /\ \A q \in others : q \in Users \ {"gfx"} /\ RingOf(q) = q
  BY <1>0, Zenon
<1>a. /\ Kept(m) /\ Backed(m) /\ Tame(m) /\ m.ptr["fence"] = None
      /\ \A q \in others : m.ptr[q] # None => m.init[q]
      /\ \A b \in m.live : \E q \in others : m.ptr[q] = b /\ m.init[q]
  <2>1. Kept(m) /\ Backed(m) /\ Tame(m) /\ m.ptr["fence"] = None
    <3>1. m.ptr["fence"] # None => m.init[RingOf("fence")]
      BY <1>f, Zenon DEF Settled
    <3>2. QED
      BY <1>f, <3>1, Zenon DEF Owned
  <2>2. ASSUME NEW q \in others, m.ptr[q] # None PROVE m.init[q]
    <3>1. m.init[RingOf(q)]
      BY <1>f, <2>2, Zenon DEF Settled
    <3>2. QED
      BY <1>f, <3>1, Zenon
  <2>3. ASSUME NEW b \in m.live PROVE \E q \in others : m.ptr[q] = b /\ m.init[q]
    <3>1. PICK p \in Users : m.ptr[p] = b /\ m.init[RingOf(p)]
      BY <2>3, Zenon DEF Settled
    <3>2. p \in others /\ RingOf(p) = p
      <4>1. ~m.init["gfx"]
        OBVIOUS
      <4>2. p # "gfx" /\ p # "fence"
        BY <1>0, <3>1, <4>1, Zenon
      <4>3. QED
        BY <1>0, <4>2, Zenon
    <3>3. QED
      BY <3>1, <3>2
  <2>4. QED
    BY <2>1, <2>2, <2>3, Zenon
<1>b. Spared(m, "gfx")
  BY <1>0, <1>a, Zenon DEF Spared
<1>2. /\ a \in Mem /\ Kept(a) /\ Backed(a) /\ Tame(a)
      /\ a.ptr["gfx"] # None /\ a.ptr["fence"] = None /\ \A q \in others : a.ptr[q] = m.ptr[q]
      /\ a.init = m.init
      /\ \A b \in a.live : b = a.ptr["gfx"] \/ b \in m.live
  <2>1. /\ a \in Mem /\ Kept(a) /\ (Backed(m) => Backed(a)) /\ (Tame(m) => Tame(a))
        /\ a.ptr["gfx"] \in Page /\ (\A q \in Users \ {"gfx"} : a.ptr[q] = m.ptr[q])
        /\ a.init = m.init
        /\ \A b \in a.live : b = a.ptr["gfx"] \/ b \in m.live
    BY <1>0, <1>b, AllocateKeeps
  <2>2. QED
    BY <1>0, <1>a, <2>1, Zenon
<1> HIDE DEF a
<1>3. /\ ring \in Mem /\ ring.ptr = a.ptr /\ ring.live = a.live
      /\ Kept(ring) /\ Backed(ring) /\ Tame(ring)
      /\ ~ring.init["gfx"] /\ \A q \in others : ring.init[q] = m.init[q]
  <2>1. a.init \in [Rings -> BOOLEAN]
    BY <1>2 DEF Mem
  <2>2. /\ down \in [Rings -> BOOLEAN] /\ ~down["gfx"]
        /\ \A q \in Rings \ {"gfx"} : down[q] = a.init[q]
    <3>1. /\ [a.init EXCEPT !["gfx"] = FALSE] \in [Rings -> BOOLEAN]
          /\ ~[a.init EXCEPT !["gfx"] = FALSE]["gfx"]
      BY <1>r, <2>1
    <3>2. \A q \in Rings \ {"gfx"} : [a.init EXCEPT !["gfx"] = FALSE][q] = a.init[q]
      BY <1>r, <2>1, Zenon
    <3>3. QED
      BY <3>1, <3>2, Zenon
  <2> HIDE DEF down
  <2>3. \A q \in Rings : down[q] => a.ptr[q] # None
    BY <1>2, <2>2, Zenon DEF Backed
  <2>4. QED
    <3>1. /\ ring \in Mem /\ ring.ptr = a.ptr /\ ring.live = a.live /\ ring.init = down
          /\ (Kept(a) => Kept(ring)) /\ Backed(ring) /\ (Tame(a) => Tame(ring))
      BY <1>2, <2>2, <2>3, WithInitKeeps, Zenon
    <3> HIDE DEF ring
    <3>2. QED
      BY <1>r, <1>2, <2>2, <3>1, Zenon
<1> HIDE DEF ring
<1>4. /\ both \in Mem /\ Kept(both) /\ Backed(both) /\ Tame(both)
      /\ both.ptr["gfx"] = ring.ptr["gfx"] /\ \A q \in others : both.ptr[q] = m.ptr[q]
      /\ both.init = ring.init
      /\ \A b \in both.live : b \in {both.ptr["gfx"], both.ptr["fence"]} \/ b \in m.live
  <2>1. Spared(ring, "fence")
    <3>1. ring.ptr["fence"] = None /\ \A b \in ring.live : b # None
      BY <1>0, <1>2, <1>3 DEF Mem
    <3>2. QED
      BY <1>3, <3>1, Zenon DEF Kept, Spared
  <2>2. /\ both \in Mem /\ Kept(both) /\ (Backed(ring) => Backed(both))
        /\ (Tame(ring) => Tame(both))
        /\ (\A q \in Users \ {"fence"} : both.ptr[q] = ring.ptr[q])
        /\ both.init = ring.init
        /\ \A b \in both.live : b = both.ptr["fence"] \/ b \in ring.live
    BY <1>0, <1>3, <2>1, AllocateKeeps
  <2>3. QED
    BY <1>0, <1>2, <1>3, <2>2, Zenon
<1> HIDE DEF both
\* A result that keeps the other rings as they are.
<1>5. ASSUME NEW n \in Mem, Owned(n), n.ptr["fence"] # None => n.init["gfx"],
             \A q \in others : n.ptr[q] = m.ptr[q] /\ n.init[q] = m.init[q],
             \A b \in n.live : \/ b \in m.live
                               \/ n.init["gfx"] /\ b \in {n.ptr["gfx"], n.ptr["fence"]},
             InitGfxRing(m, fail) = n
      PROVE  /\ InitGfxRing(m, fail) \in Mem
             /\ Owned(InitGfxRing(m, fail)) /\ Settled(InitGfxRing(m, fail))
             /\ \A q \in Rings \ {"gfx"} : InitGfxRing(m, fail).init[q] = m.init[q]
  <2>1. \A b \in n.live : \E p \in Users : n.ptr[p] = b /\ n.init[RingOf(p)]
    <3> SUFFICES ASSUME NEW b \in n.live
                 PROVE  \E p \in Users : n.ptr[p] = b /\ n.init[RingOf(p)]
      OBVIOUS
    <3>1. CASE b \in m.live
      <4>1. PICK q \in others : m.ptr[q] = b /\ m.init[q]
        BY <1>a, <3>1, Zenon
      <4>2. QED
        BY <1>0, <1>5, <4>1
    <3>2. CASE n.init["gfx"] /\ b \in {n.ptr["gfx"], n.ptr["fence"]}
      BY <1>0, <3>2
    <3>3. QED
      BY <1>5, <3>1, <3>2, Zenon
  <2>2. ASSUME NEW p \in Users \ {"gfx"}, n.ptr[p] # None PROVE n.init[RingOf(p)]
    <3>1. CASE p = "fence"
      BY <1>0, <1>5, <2>2, <3>1, Zenon
    <3>2. CASE p \in others
      BY <1>0, <1>a, <1>5, <2>2, <3>2, Zenon
    <3>3. QED
      BY <1>0, <3>1, <3>2
  <2>3. Settled(n)
    BY <2>1, <2>2, Zenon DEF Settled
  <2>4. QED
    BY <1>0, <1>5, <2>3, Zenon
<1>6. CASE fail = "ring"
  <2>1. InitGfxRing(m, fail) = m
    BY <1>6 DEF InitGfxRing
  <2>2. QED
    BY <2>1, Zenon
<1>7. CASE fail = "fence"
  <2> DEFINE n == [Free([ring EXCEPT !.starved = TRUE], "gfx")
                     EXCEPT !.ptr["gfx"] = ring.ptr["gfx"]]
  <2>1. InitGfxRing(m, fail) = n
    BY <1>7 DEF InitGfxRing, ring, down, a, WithInit
  <2>2. /\ n \in Mem /\ Owned(n) /\ n.ptr = ring.ptr /\ n.init = ring.init
        /\ n.live = ring.live \ {ring.ptr["gfx"]}
    BY <1>3, FenceFails
  <2> HIDE DEF n
  <2>3. \A b \in n.live : b \in m.live
    BY <1>2, <1>3, <2>2
  <2>4. QED
    BY <1>2, <1>3, <1>5, <2>1, <2>2, <2>3, Zenon
<1>8. CASE fail = "handshake"
  <2> DEFINE f == Free(both, "fence")
             g == Free(f, "gfx")
  <2>1. /\ f \in Mem /\ f.ptr = [both.ptr EXCEPT !["fence"] = None] /\ f.init = both.init
        /\ f.live = both.live \ {both.ptr["fence"]}
        /\ Kept(f) /\ Tame(f)
    BY <1>0, <1>4, FreeIs, FreeKeeps
  <2> HIDE DEF f
  <2>2. /\ g \in Mem /\ g.ptr = [f.ptr EXCEPT !["gfx"] = None] /\ g.init = f.init
        /\ g.live = f.live \ {f.ptr["gfx"]}
        /\ Kept(g) /\ Tame(g)
    BY <1>0, <2>1, FreeIs, FreeKeeps
  <2>3. InitGfxRing(m, fail) = g
    BY <1>8 DEF InitGfxRing, g, f, both, ring, down, a, WithInit
  <2> HIDE DEF g
  <2>4. /\ f.ptr["gfx"] = both.ptr["gfx"] /\ g.ptr["fence"] = None
        /\ \A q \in others : g.ptr[q] = both.ptr[q]
    BY <1>0, <1>4, <2>1, <2>2 DEF Mem
  <2>5. \A b \in g.live : b \in m.live
    BY <1>4, <2>1, <2>2, <2>4
  <2>6. Backed(g)
    <3>1. g.init = both.init /\ ~both.init["gfx"]
      BY <1>3, <1>4, <2>1, <2>2, Zenon
    <3>2. QED
      BY <1>0, <1>4, <2>4, <3>1 DEF Backed
  <2>7. \A q \in others : g.ptr[q] = m.ptr[q] /\ g.init[q] = m.init[q]
    BY <1>3, <1>4, <2>1, <2>2, <2>4, Zenon
  <2>8. Owned(g)
    BY <2>2, <2>6, Zenon DEF Owned
  <2>9. QED
    BY <1>5, <2>2, <2>3, <2>4, <2>5, <2>7, <2>8, Zenon
<1>9. CASE fail \notin {"ring", "fence", "handshake"}
  <2> DEFINE up == [both.init EXCEPT !["gfx"] = TRUE]
             n == WithInit(both, up)
  <2>1. both.ptr["gfx"] # None
    BY <1>2, <1>3, <1>4
  <2>2. /\ n \in Mem /\ n.ptr = both.ptr /\ n.live = both.live
        /\ Kept(n) /\ Backed(n) /\ Tame(n)
        /\ n.init["gfx"] /\ \A q \in others : n.init[q] = both.init[q]
    <3>1. both.init \in [Rings -> BOOLEAN]
      BY <1>4 DEF Mem
    <3>2. /\ up \in [Rings -> BOOLEAN] /\ up["gfx"]
          /\ \A q \in Rings \ {"gfx"} : up[q] = both.init[q]
      <4>1. /\ [both.init EXCEPT !["gfx"] = TRUE] \in [Rings -> BOOLEAN]
            /\ [both.init EXCEPT !["gfx"] = TRUE]["gfx"]
        BY <1>r, <3>1
      <4>2. \A q \in Rings \ {"gfx"} : [both.init EXCEPT !["gfx"] = TRUE][q] = both.init[q]
        BY <1>r, <3>1, Zenon
      <4>3. QED
        BY <4>1, <4>2, Zenon
    <3> HIDE DEF up
    <3>3. \A q \in Rings : up[q] => both.ptr[q] # None
      BY <1>4, <2>1, <3>2, Zenon DEF Backed
    <3>4. QED
      <4>1. /\ n \in Mem /\ n.ptr = both.ptr /\ n.live = both.live /\ n.init = up
            /\ (Kept(both) => Kept(n)) /\ Backed(n) /\ (Tame(both) => Tame(n))
        BY <1>4, <3>2, <3>3, WithInitKeeps, Zenon
      <4> HIDE DEF n
      <4>2. QED
        BY <1>r, <1>4, <3>2, <4>1, Zenon
  <2>3. InitGfxRing(m, fail) = n
    BY <1>9 DEF InitGfxRing, n, up, both, ring, down, a, WithInit
  <2> HIDE DEF n
  <2>4. Owned(n)
    BY <2>2, Zenon DEF Owned
  <2>5. \A q \in others : n.ptr[q] = m.ptr[q] /\ n.init[q] = m.init[q]
    BY <1>3, <1>4, <2>2, Zenon
  <2>6. QED
    BY <1>4, <1>5, <2>2, <2>3, <2>4, <2>5, Zenon
<1>10. QED
  BY <1>6, <1>7, <1>8, <1>9, Zenon

\* HwInitialize, over what there is and whatever fails.
LEMMA HwInitOwns ==
  ASSUME AdapterAssumption, NEW m \in Mem, NEW o \in Outcomes, Owned(m), Settled(m)
  PROVE  HwInitMem(m, o) \in Mem /\ Owned(HwInitMem(m, o)) /\ Settled(HwInitMem(m, o))
<1>0. /\ o.kmdod \in BOOLEAN /\ o.ih \in BOOLEAN /\ o.sdma \in BOOLEAN
      /\ Rings = {"ih", "gfx", "sdma"}
  BY DEF Outcomes, Rings
<1>1. CASE o.kmdod
  BY <1>1 DEF HwInitMem
<1>2. CASE ~o.kmdod
  <2> DEFINE m0 == IF \E r \in Rings : m.init[r] THEN HwShutdown(m) ELSE m
             m1 == InitRing(m0, "ih", o.ih)
             m2 == InitGfxRing(m1, o.gfx)
             m3 == InitRing(m2, "sdma", o.sdma)
  <2>1. m0 \in Mem /\ Owned(m0) /\ Settled(m0) /\ \A r \in Rings : ~m0.init[r]
    <3>1. CASE \E r \in Rings : m.init[r]
      <4>1. Kept(m) /\ Tame(m)
        BY Zenon DEF Owned
      <4>2. /\ HwShutdown(m) \in Mem /\ Nothing(HwShutdown(m))
            /\ Owned(HwShutdown(m)) /\ Settled(HwShutdown(m))
        BY <4>1, HwShutdownEmpties
      <4>3. QED
        BY <3>1, <4>2, Zenon DEF Nothing
    <3>2. CASE ~\E r \in Rings : m.init[r]
      BY <3>2, Zenon
    <3>3. QED
      BY <3>1, <3>2
  <2> HIDE DEF m0
  <2>2. /\ m1 \in Mem /\ Owned(m1) /\ Settled(m1) /\ ~m1.init["gfx"] /\ ~m1.init["sdma"]
    BY <1>0, <2>1, InitRingKeeps
  <2> HIDE DEF m1
  <2>3. m2 \in Mem /\ Owned(m2) /\ Settled(m2) /\ ~m2.init["sdma"]
    BY <1>0, <2>2, InitGfxRingKeeps
  <2> HIDE DEF m2
  <2>4. m3 \in Mem /\ Owned(m3) /\ Settled(m3)
    BY <1>0, <2>3, InitRingKeeps
  <2>5. HwInitMem(m, o) = m3
    BY <1>2, Zenon DEF HwInitMem, m3, m2, m1, m0
  <2>6. QED
    BY <2>4, <2>5
<1>3. QED
  BY <1>1, <1>2

-----------------------------------------------------------------------------
(* The inductive invariant *)

Mappings == {"mmio", "bell", "fb"}

Type ==
  /\ pnp \in {"absent", "added", "started", "stopped", "released"} /\ hw \in BOOLEAN
  /\ mem \in Mem
  /\ mapped \in SUBSET Mappings
  /\ fb \in [info : Displays \cup {NoDisplay}, size : Nat]
  /\ table \in [1..Slots -> Ctx \cup {None}]
  /\ liveCtx \in SUBSET Ctx
  /\ kept \in [maps : SUBSET Mappings, ctx : SUBSET Ctx] /\ lost = {}

\* A device that is started has HardwareInitialized up: StopDevice takes the
\* rings back under it.  One that is not has no mapping or context but those
\* that StopAndRelease has left, and nothing at all after StopDevice.
Quiet ==
  /\ pnp \in {"started", "released"} => hw
  /\ pnp # "started" => mapped \subseteq kept.maps /\ liveCtx \subseteq kept.ctx
  /\ pnp \in {"absent", "added", "stopped"} => ~hw /\ Nothing(mem) /\ mapped = {}

\* StopDevice frees the contexts it finds in the table.
Listed == \A c \in liveCtx \ kept.ctx : \E s \in 1..Slots : table[s] = c

\* What CommitVidPn has mapped since is a display that was acquired, all of it.
FbWhole ==
  "fb" \in mapped \ kept.maps =>
    /\ fb.info \in Displays /\ fb.size = FbBytes
    /\ FbBytes > 0 /\ FbBytes <= MaxFbBytes

IInv == /\ Type /\ Owned(mem) /\ Settled(mem) /\ Quiet /\ Listed
        /\ MmioIsBar5 /\ FbWhole

LEMMA InitInv == AdapterAssumption /\ Init => IInv
<1> SUFFICES ASSUME AdapterAssumption, Init PROVE IInv
  OBVIOUS
<1>1. mem \in Mem /\ Nothing(mem) /\ Owned(mem) /\ Settled(mem)
  BY AdapterAssumption
     DEF Init, NoMem, Mem, Users, Nothing, Owned, Kept, Backed, Tame, Single, Settled
<1>2. Type
  BY <1>1 DEF Init, Type, Fresh
<1>3. Quiet /\ Listed /\ MmioIsBar5 /\ FbWhole
  BY <1>1 DEF Init, Quiet, Listed, MmioIsBar5, FbWhole
<1>4. QED
  BY <1>1, <1>2, <1>3 DEF IInv

\* What StartDevice makes of the resources, over what a StopAndRelease left.
LEMMA StartKeeps == AdapterAssumption /\ IInv /\ StartDevice => IInv'
<1> SUFFICES ASSUME AdapterAssumption, IInv, StartDevice PROVE IInv'
  OBVIOUS
<1>1. /\ Type /\ Owned(mem) /\ Settled(mem)
      /\ mapped \subseteq kept.maps /\ liveCtx \subseteq kept.ctx
      /\ pnp' = "started" /\ hw' = TRUE
      /\ UNCHANGED <<allocs, table, num, liveCtx>>
  BY DEF StartDevice, IInv, Quiet, memory
<1>2. ASSUME mem' \in Mem, Owned(mem'), Settled(mem'),
             fb' \in [info : Displays \cup {NoDisplay}, size : Nat],
             mapped' \in SUBSET Mappings, lost' = lost,
             kept' \in [maps : SUBSET Mappings, ctx : SUBSET Ctx], kept'.ctx = kept.ctx,
             "fb" \in mapped' => "fb" \in kept'.maps,
             "mmio" \in mapped' \ kept'.maps /\ Bar5 \in ToSet(bus') => bar'.mmio = Bar5
      PROVE  IInv'
  <2>1. Type'
    BY <1>1, <1>2 DEF Type
  <2>2. Quiet' /\ Listed'
    BY <1>1, <1>2 DEF Quiet, Listed
  <2>3. MmioIsBar5' /\ FbWhole'
    BY <1>2 DEF MmioIsBar5, FbWhole
  <2>4. QED
    BY <1>2, <2>1, <2>2, <2>3 DEF IInv
<1>3. ASSUME NEW maps \in SUBSET Mappings, Forget(maps)
      PROVE  /\ lost' = lost
             /\ kept' \in [maps : SUBSET Mappings, ctx : SUBSET Ctx]
             /\ kept'.maps = kept.maps \ maps /\ kept'.ctx = kept.ctx
  BY <1>1, <1>3 DEF Forget, Type
<1>4. CASE StartFull
  <2>0. PICK o \in Outcomes : mem' = HwInitMem(mem, o)
    BY <1>4 DEF StartFull
  <2>1. PICK list \in Lists, d \in Displays \cup {None}, bellFails \in BOOLEAN :
          LET b == MapDoorbell(ParseResources(list), bellFails) IN
          /\ bus' = list
          /\ bar' = b
          /\ mapped' = (mapped \cap {"fb"}) \cup {"mmio"} \cup (IF b.bell = None THEN {} ELSE {"bell"})
          /\ Forget({"mmio", "bell"})
          /\ fb' = AcquirePostDisplay(d)
    BY <1>4 DEF StartFull
  <2>2. mem' \in Mem /\ Owned(mem') /\ Settled(mem')
    BY <1>1, <2>0, HwInitOwns DEF Type
  <2>3. /\ lost' = lost
        /\ kept' \in [maps : SUBSET Mappings, ctx : SUBSET Ctx]
        /\ kept'.maps = kept.maps \ {"mmio", "bell"} /\ kept'.ctx = kept.ctx
    BY <1>3, <2>1 DEF Mappings
  <2>4. mapped' \in SUBSET Mappings /\ ("fb" \in mapped' => "fb" \in kept'.maps)
    BY <1>1, <2>1, <2>3 DEF Mappings
  <2>5. fb' \in [info : Displays \cup {NoDisplay}, size : Nat]
    BY <1>1, <2>1 DEF AcquirePostDisplay, Type
  <2>6. Bar5 \in ToSet(bus') => bar'.mmio = Bar5
    BY <2>1 DEF MapDoorbell, ParseResources
  <2>7. QED
    BY <1>2, <2>2, <2>3, <2>4, <2>5, <2>6
<1>5. CASE StartCompatible
  <2>1. UNCHANGED <<mem, fb>>
    BY <1>5 DEF StartCompatible
  <2>2. CASE UNCHANGED <<bar, mapped, past>>
    BY <1>1, <1>2, <2>1, <2>2 DEF Type, IInv, past
  <2>3. CASE mapped' = mapped \ {"mmio"} /\ Forget({"mmio"})
    <3>1. /\ lost' = lost
          /\ kept' \in [maps : SUBSET Mappings, ctx : SUBSET Ctx]
          /\ kept'.maps = kept.maps \ {"mmio"} /\ kept'.ctx = kept.ctx
      BY <1>3, <2>3 DEF Mappings
    <3>2. QED
      BY <1>1, <1>2, <2>1, <2>3, <3>1 DEF Type, IInv
  <2>4. QED
    BY <1>5, <2>2, <2>3 DEF StartCompatible
<1>6. QED
  BY <1>4, <1>5 DEF StartDevice

\* StopDevice gives back what the others have taken and can still be named.
LEMMA StopKeeps == AdapterAssumption /\ IInv /\ StopDevice => IInv'
<1> SUFFICES ASSUME AdapterAssumption, IInv, StopDevice PROVE IInv'
  OBVIOUS
<1>1. /\ Type /\ Owned(mem) /\ Listed /\ pnp = "started" /\ hw
  BY DEF StopDevice, IInv, Quiet
<1>2. /\ pnp' = "stopped" /\ hw' = FALSE /\ mem' = HwShutdown(mem)
      /\ table' = Fresh.table /\ liveCtx' = liveCtx \ ToSet(table)
      /\ kept' = [maps |-> {}, ctx |-> kept.ctx \ ToSet(table)]
      /\ mapped' = {} /\ UNCHANGED <<fb, lost>>
  BY <1>1 DEF StopDevice
<1>3. mem' \in Mem /\ Nothing(mem') /\ Owned(mem') /\ Settled(mem')
  <2>1. Kept(mem) /\ Tame(mem) /\ mem \in Mem
    BY <1>1, Zenon DEF Owned, Type
  <2>2. QED
    BY <1>2, <2>1, HwShutdownEmpties
<1>4. liveCtx' \in SUBSET Ctx /\ liveCtx' \subseteq kept'.ctx
      /\ kept' \in [maps : SUBSET Mappings, ctx : SUBSET Ctx]
  BY <1>1, <1>2 DEF Listed, Type, ToSet
<1>5. table' \in [1..Slots -> Ctx \cup {None}]
  BY <1>2 DEF Fresh
<1>6. Type'
  BY <1>1, <1>2, <1>3, <1>4, <1>5 DEF Type
<1>7. Quiet'
  BY <1>2, <1>3, <1>4 DEF Quiet
<1>8. QED
  BY <1>2, <1>3, <1>4, <1>6, <1>7 DEF IInv, Listed, MmioIsBar5, FbWhole

\* StopAndRelease leaves everything.
LEMMA ReleaseKeeps == IInv /\ StopAndRelease => IInv'
<1> SUFFICES ASSUME IInv, StopAndRelease PROVE IInv'
  OBVIOUS
<1>1. /\ pnp = "started" /\ pnp' = "released" /\ kept' = [maps |-> mapped, ctx |-> liveCtx]
      /\ UNCHANGED <<hw, bar, mapped, mem, fb, table, liveCtx, lost>>
  BY DEF StopAndRelease, memory
<1>2. kept' \in [maps : SUBSET Mappings, ctx : SUBSET Ctx]
      /\ kept'.maps = mapped /\ kept'.ctx = liveCtx
  BY <1>1 DEF IInv, Type
<1>3. QED
  BY <1>1, <1>2 DEF IInv, Type, Quiet, Listed, MmioIsBar5, FbWhole

\* RemoveDevice gives back the blocks, and knows of nothing that was not left.
LEMMA RemoveKeeps == AdapterAssumption /\ IInv /\ RemoveDevice => IInv'
<1> SUFFICES ASSUME AdapterAssumption, IInv, RemoveDevice PROVE IInv'
  OBVIOUS
<1>1. /\ Type /\ Owned(mem) /\ mapped \subseteq kept.maps /\ liveCtx \subseteq kept.ctx
      /\ (hw \/ Nothing(mem))
  BY DEF RemoveDevice, IInv, Quiet
<1> DEFINE m == IF hw THEN HwShutdown(mem) ELSE mem
<1>2. /\ pnp' = "absent" /\ hw' = FALSE
      /\ mem' = [m EXCEPT !.ptr = NoMem.ptr, !.init = NoMem.init]
      /\ table' = Fresh.table /\ liveCtx' = liveCtx /\ mapped' = {}
      /\ lost' = lost \cup ((mapped \cap {"fb"}) \ kept.maps)
      /\ kept' = [kept EXCEPT !.maps = {}] /\ fb' = Fresh.fb
  BY DEF RemoveDevice
<1>3. m \in Mem /\ Nothing(m) /\ ~m.wild
  <2>1. Kept(mem) /\ Tame(mem) /\ mem \in Mem
    BY <1>1, Zenon DEF Owned, Type
  <2>2. HwShutdown(mem) \in Mem /\ Nothing(HwShutdown(mem)) /\ Owned(HwShutdown(mem))
    BY <2>1, HwShutdownEmpties
  <2>3. QED
    BY <1>1, <2>1, <2>2, Zenon DEF Owned, Tame
<1> HIDE DEF m
<1>4. /\ NoMem.ptr \in [Users -> Page \cup {None}] /\ (\A p \in Users : NoMem.ptr[p] = None)
      /\ NoMem.init \in [Rings -> BOOLEAN] /\ (\A r \in Rings : ~NoMem.init[r])
  BY DEF NoMem, Users
<1>5. /\ mem' \in Mem /\ mem'.live = {} /\ ~mem'.wild
      /\ (\A p \in Users : mem'.ptr[p] = None) /\ (\A r \in Rings : ~mem'.init[r])
  <2>1. mem' \in Mem /\ mem'.live = m.live /\ mem'.wild = m.wild
        /\ mem'.ptr = NoMem.ptr /\ mem'.init = NoMem.init
    BY <1>2, <1>3, <1>4 DEF Mem
  <2>2. QED
    BY <1>3, <1>4, <2>1, Zenon DEF Nothing
<1>6. Nothing(mem') /\ Owned(mem') /\ Settled(mem')
  BY <1>5, Zenon DEF Nothing, Owned, Settled, Kept, Backed, Tame, Single
<1>7. Type'
  BY <1>1, <1>2, <1>5 DEF Type, Fresh
<1>8. Quiet'
  BY <1>1, <1>2, <1>6 DEF Quiet, Type
<1>9. Listed'
  BY <1>1, <1>2 DEF Listed, Type
<1>10. QED
  BY <1>2, <1>6, <1>7, <1>8, <1>9 DEF IInv, MmioIsBar5, FbWhole

\* ResetDevice takes the rings down and brings them up.
LEMMA ResetKeeps == AdapterAssumption /\ IInv /\ ResetDevice => IInv'
<1> SUFFICES ASSUME AdapterAssumption, IInv, ResetDevice PROVE IInv'
  OBVIOUS
<1>1. PICK o \in Outcomes : mem' = HwInitMem(HwShutdown(mem), o)
  BY DEF ResetDevice
<1>2. /\ pnp = "started" /\ UNCHANGED <<pnp, bus, hw, bar, mapped, fb, table, liveCtx, kept, lost>>
  BY DEF ResetDevice, memory, past
<1>3. Kept(mem) /\ Tame(mem) /\ mem \in Mem
  BY Zenon DEF IInv, Owned, Type
<1>4. /\ HwShutdown(mem) \in Mem /\ Owned(HwShutdown(mem)) /\ Settled(HwShutdown(mem))
  BY <1>3, HwShutdownEmpties
<1>5. mem' \in Mem /\ Owned(mem') /\ Settled(mem')
  BY <1>1, <1>4, HwInitOwns
<1>6. QED
  BY <1>2, <1>5 DEF IInv, Type, Quiet, Listed, MmioIsBar5, FbWhole, FbBytes

\* Contexts.
LEMMA ContextKeeps ==
  AdapterAssumption /\ IInv /\ (CreateContext \/ DestroyContext) => IInv'
<1> SUFFICES ASSUME AdapterAssumption, IInv, CreateContext \/ DestroyContext PROVE IInv'
  OBVIOUS
<1>1. /\ pnp = "started" /\ UNCHANGED <<pnp, bus, hw, bar, mapped, mem, fb, kept, lost>>
  BY DEF CreateContext, DestroyContext, past
<1>2. /\ table \in [1..Slots -> Ctx \cup {None}] /\ liveCtx \in SUBSET Ctx /\ Listed
      /\ (None \notin Ctx)
  BY AdapterAssumption DEF IInv, Type
<1>3. table' \in [1..Slots -> Ctx \cup {None}] /\ liveCtx' \in SUBSET Ctx /\ Listed'
  <2>1. CASE CreateContext
    <3>1. PICK c \in Ctx \ liveCtx :
            /\ FreeSlots # {} /\ liveCtx' = liveCtx \cup {c}
            /\ table' = [table EXCEPT ![Min(FreeSlots)] = c]
      BY <2>1 DEF CreateContext
    <3>2. Min(FreeSlots) \in 1..Slots /\ table[Min(FreeSlots)] = None
      <4>1. FreeSlots \in SUBSET (1..Slots)
        BY DEF FreeSlots
      <4>2. Min(FreeSlots) \in FreeSlots
        BY <3>1, <4>1, AdapterAssumption, LeastPlace
      <4>3. QED
        BY <4>2, Zenon DEF FreeSlots
    <3>3. QED
      BY <1>1, <1>2, <3>1, <3>2 DEF Listed
  <2>2. CASE DestroyContext
    <3>1. PICK c \in liveCtx :
            /\ table' = [s \in 1..Slots |-> IF table[s] = c THEN None ELSE table[s]]
            /\ liveCtx' = liveCtx \ {c}
      BY <2>2 DEF DestroyContext
    <3>2. QED
      BY <1>1, <1>2, <3>1 DEF Listed
  <2>3. QED
    BY <2>1, <2>2
<1>4. Type'
  BY <1>1, <1>3 DEF IInv, Type
<1>5. QED
  BY <1>1, <1>3, <1>4 DEF IInv, Quiet, MmioIsBar5, FbWhole, FbBytes

\* The framebuffer's mapping, which may fail.
LEMMA DisplayKeeps ==
  AdapterAssumption /\ DisplayAssumption /\ IInv /\ CommitVidPn => IInv'
<1> SUFFICES ASSUME DisplayAssumption, IInv, CommitVidPn PROVE IInv'
  OBVIOUS
<1>1. /\ pnp = "started" /\ fb.info.base # None /\ "fb" \notin mapped
      /\ FbBytes > 0 /\ FbBytes <= MaxFbBytes
      /\ fb' = [fb EXCEPT !.size = FbBytes]
      /\ mapped' \in {mapped, mapped \cup {"fb"}}
      /\ UNCHANGED <<pnp, bus, hw, bar, mem, table, liveCtx, kept, lost>>
  BY DEF CommitVidPn, memory, past
<1>2. fb.info \in Displays
  BY <1>1 DEF IInv, Type, NoDisplay
<1>3. /\ fb'.info = fb.info /\ fb'.size = FbBytes
      /\ fb' \in [info : Displays \cup {NoDisplay}, size : Nat]
  <2>1. fb.info.pitch \in Nat /\ fb.info.h \in Nat
    BY <1>2 DEF DisplayAssumption
  <2>2. FbBytes \in Nat
    BY <2>1 DEF FbBytes
  <2>3. QED
    BY <1>1, <2>2 DEF IInv, Type
<1>4. FbBytes' = FbBytes
  BY <1>3 DEF FbBytes
<1>5. FbWhole'
  BY <1>1, <1>2, <1>3, <1>4 DEF FbWhole
<1>6. MmioIsBar5'
  BY <1>1 DEF IInv, MmioIsBar5
<1>7. Type'
  BY <1>1, <1>2, <1>3 DEF IInv, Type, Mappings
<1>8. QED
  BY <1>1, <1>5, <1>6, <1>7 DEF IInv, Quiet, Listed

LEMMA NextInv == AdapterAssumption /\ DisplayAssumption /\ IInv /\ [Next]_vars => IInv'
<1> SUFFICES ASSUME AdapterAssumption, DisplayAssumption, IInv, [Next]_vars PROVE IInv'
  OBVIOUS
<1>1. ASSUME pnp' = pnp \/ (pnp = "absent" /\ pnp' = "added"),
             UNCHANGED <<bus, hw, bar, mapped, mem, fb, table, liveCtx, kept, lost>>
      PROVE  IInv'
  BY <1>1 DEF IInv, Type, Quiet, Listed, MmioIsBar5, FbWhole, FbBytes
<1>2. CASE AddDevice
  BY <1>1, <1>2 DEF AddDevice, memory, past
<1>3. CASE StartDevice
  BY <1>3, StartKeeps
<1>4. CASE StopDevice
  BY <1>4, StopKeeps
<1>5. CASE StopAndRelease
  BY <1>5, ReleaseKeeps
<1>6. CASE RemoveDevice
  BY <1>6, RemoveKeeps
<1>7. CASE ResetDevice
  BY <1>7, ResetKeeps
<1>8. CASE CreateContext \/ DestroyContext
  BY <1>8, ContextKeeps
<1>9. CASE CreateAllocation \/ DestroyAllocation
  BY <1>1, <1>9 DEF CreateAllocation, DestroyAllocation, past
<1>10. CASE CommitVidPn
  BY <1>10, DisplayKeeps
<1>11. CASE UNCHANGED vars
  BY <1>1, <1>11 DEF vars
<1>12. QED
  BY <1>2, <1>3, <1>4, <1>5, <1>6, <1>7, <1>8, <1>9, <1>10, <1>11 DEF Next

-----------------------------------------------------------------------------
(* The modes *)

\* The loop's break and its skip leave the modes that fit.
LEMMA OfferedFits ==
  ASSUME DisplayAssumption, fb.info \in Displays \cup {NoDisplay}
  PROVE  Offered = {m \in ToSet(Modes) : m.w <= Size.w /\ m.h <= Size.h}
<1>1. /\ Modes \in Seq([w : Nat, h : Nat])
      /\ \A i, j \in DOMAIN Modes : i < j =>
           \/ Modes[i].w < Modes[j].w
           \/ Modes[i].w = Modes[j].w /\ Modes[i].h <= Modes[j].h
  BY DEF DisplayAssumption
<1>2. Size.w \in Nat /\ Size.h \in Nat
  BY DEF DisplayAssumption, Size, NoDisplay
<1>3. /\ DOMAIN Modes = 1..Len(Modes) /\ Len(Modes) \in Nat
      /\ \A i \in DOMAIN Modes : Modes[i].w \in Nat /\ Modes[i].h \in Nat
  <2>1. DOMAIN Modes = 1..Len(Modes) /\ Len(Modes) \in Nat
    BY <1>1
  <2>2. \A i \in DOMAIN Modes : Modes[i] \in [w : Nat, h : Nat]
    <3> DEFINE S == [w : Nat, h : Nat]
    <3>1. Modes \in Seq(S)
      BY <1>1
    <3> HIDE DEF S
    <3>2. \A i \in 1..Len(Modes) : Modes[i] \in S
      BY <3>1
    <3>3. QED
      BY <2>1, <3>2, Zenon DEF S
  <2>3. QED
    BY <2>1, <2>2
<1>4. ASSUME NEW i \in DOMAIN Modes
      PROVE  ((\A j \in 1..i : ~Ends(Modes[j])) /\ ~Skips(Modes[i]))
               <=> (Modes[i].w <= Size.w /\ Modes[i].h <= Size.h)
  <2>1. i \in Nat /\ i \in 1..i /\ 1..i \subseteq DOMAIN Modes
    BY <1>3
  <2>2. ASSUME \A j \in 1..i : ~Ends(Modes[j]), ~Skips(Modes[i])
        PROVE  Modes[i].w <= Size.w /\ Modes[i].h <= Size.h
    <3>1. ~Ends(Modes[i])
      BY <2>1, <2>2, Zenon
    <3> DEFINE wi == Modes[i].w  hi == Modes[i].h
               w == Size.w       h == Size.h
    <3>2. wi \in Nat /\ hi \in Nat /\ w \in Nat /\ h \in Nat
      BY <1>2, <1>3
    <3>3. ~(wi > w \/ (wi = w /\ hi > h)) /\ ~(wi < w /\ hi > h)
      BY <2>2, <3>1, Zenon DEF Ends, Skips
    <3> HIDE DEF wi, hi, w, h
    <3>4. wi <= w /\ hi <= h
      BY <3>2, <3>3
    <3>5. QED
      BY <3>4, Zenon DEF wi, hi, w, h
  <2>3. ASSUME Modes[i].w <= Size.w /\ Modes[i].h <= Size.h, NEW j \in 1..i
        PROVE  ~Ends(Modes[j])
    <3>1. j \in DOMAIN Modes /\ (j = i \/ j < i)
      BY <2>1
    <3>2. \/ Modes[j].w < Modes[i].w
          \/ Modes[j].w = Modes[i].w /\ Modes[j].h <= Modes[i].h
      <4>1. CASE j = i
        BY <1>3, <4>1
      <4>2. CASE j < i
        BY <1>1, <3>1, <4>2, Zenon
      <4>3. QED
        BY <3>1, <4>1, <4>2
    <3>3. Modes[i].w \in Nat /\ Modes[i].h \in Nat /\ Modes[j].w \in Nat /\ Modes[j].h \in Nat
      BY <1>3, <3>1
    <3>4. Ends(Modes[j]) <=> (Modes[j].w > Size.w \/ (Modes[j].w = Size.w /\ Modes[j].h > Size.h))
      BY Zenon DEF Ends
    <3> DEFINE wi == Modes[i].w  hi == Modes[i].h
               wj == Modes[j].w  hj == Modes[j].h
               w == Size.w       h == Size.h
    <3>5. /\ wi \in Nat /\ hi \in Nat /\ wj \in Nat /\ hj \in Nat /\ w \in Nat /\ h \in Nat
          /\ wi <= w /\ hi <= h /\ (wj < wi \/ (wj = wi /\ hj <= hi))
      BY <1>2, <2>3, <3>2, <3>3, Zenon
    <3> HIDE DEF wi, hi, wj, hj, w, h
    <3>6. ~(wj > w \/ (wj = w /\ hj > h))
      BY <3>5
    <3>7. QED
      BY <3>4, <3>6, Zenon DEF wj, hj, w, h
  <2>4. Modes[i].w <= Size.w /\ Modes[i].h <= Size.h => ~Skips(Modes[i])
    BY <1>2, <1>3 DEF Skips
  <2>5. QED
    BY <2>2, <2>3, <2>4
<1>5. QED
  BY <1>4, Zenon DEF Offered, ToSet

-----------------------------------------------------------------------------
(* The framebuffer *)

\* Reduction of what is out of range by less than the modulus.
LEMMA ModIs ==
  ASSUME NEW b \in Nat \ {0}, NEW a \in Int
  PROVE  /\ 0 <= a /\ a < b => a % b = a
         /\ b <= a /\ a < 2 * b => a % b = a - b
         /\ -b <= a /\ a < 0 => a % b = a + b
<1>1. ASSUME 0 <= a, a < b PROVE a % b = a
  BY <1>1
<1>2. ASSUME b <= a, a < 2 * b PROVE a % b = a - b
  BY <1>2
<1>3. ASSUME -b <= a, a < 0 PROVE a % b = a + b
  BY <1>3
<1>4. QED
  BY <1>1, <1>2, <1>3

\* What Clip leaves of n units from at on, if that does not stay beyond the size.
LEMMA ClipIs ==
  ASSUME DisplayAssumption, Wrap \in Nat \ {0},
         NEW at \in 0..Wrap - 1, NEW n \in 0..Wrap - 1, NEW size \in 0..Wrap - 1
  PROVE  /\ Clip(at, n, size) \in Nat
         /\ at + n <= size => Clip(at, n, size) = n
         /\ at + n > size /\ at <= size =>
              Clip(at, n, size) = size - at \/ (at + n >= Wrap /\ Clip(at, n, size) = n)
         /\ at > size => at + Clip(at, n, size) >= Wrap
<1>1. at \in Int /\ n \in Int /\ size \in Int /\ at + n \in Int /\ size - at \in Int
  OBVIOUS
<1>2. (at + n) % Wrap = IF at + n < Wrap THEN at + n ELSE at + n - Wrap
  <2> DEFINE a == at + n
  <2>1. a \in Int /\ 0 <= a /\ a < 2 * Wrap
    OBVIOUS
  <2> HIDE DEF a
  <2>2. /\ 0 <= a /\ a < Wrap => a % Wrap = a
        /\ Wrap <= a /\ a < 2 * Wrap => a % Wrap = a - Wrap
    BY <2>1, ModIs, Zenon
  <2>3. a % Wrap = IF a < Wrap THEN a ELSE a - Wrap
    <3>1. CASE a < Wrap
      BY <2>1, <2>2, <3>1, Zenon
    <3>2. CASE ~(a < Wrap)
      <4>1. Wrap <= a
        BY <2>1, <3>2
      <4>2. QED
        BY <2>1, <2>2, <3>2, <4>1, Zenon
    <3>3. QED
      BY <3>1, <3>2
  <2>4. QED
    BY <2>3 DEF a
<1>3. (size - at) % Wrap = IF at <= size THEN size - at ELSE size - at + Wrap
  <2> DEFINE a == size - at
  <2>1. a \in Int /\ -Wrap <= a /\ a < Wrap /\ (at <= size <=> 0 <= a)
    OBVIOUS
  <2> HIDE DEF a
  <2>2. /\ 0 <= a /\ a < Wrap => a % Wrap = a
        /\ -Wrap <= a /\ a < 0 => a % Wrap = a + Wrap
    BY <2>1, ModIs, Zenon
  <2>3. a % Wrap = IF 0 <= a THEN a ELSE a + Wrap
    <3>1. CASE 0 <= a
      BY <2>1, <2>2, <3>1, Zenon
    <3>2. CASE ~(0 <= a)
      <4>1. a < 0
        BY <2>1, <3>2
      <4>2. QED
        BY <2>1, <2>2, <3>2, <4>1, Zenon
    <3>3. QED
      BY <3>1, <3>2
  <2>4. QED
    BY <2>1, <2>3, Zenon DEF a
<1> DEFINE c == Clip(at, n, size)
<1>4. c = IF (IF at + n < Wrap THEN at + n ELSE at + n - Wrap) > size
          THEN (IF at <= size THEN size - at ELSE size - at + Wrap) ELSE n
  BY <1>2, <1>3, Zenon DEF Clip
<1> HIDE DEF c
<1>5. QED
  <2>1. /\ c \in Nat
        /\ at + n <= size => c = n
        /\ at + n > size /\ at <= size => c = size - at \/ (at + n >= Wrap /\ c = n)
        /\ at > size => at + c >= Wrap
    BY <1>4
  <2>2. QED
    BY <2>1, Zenon DEF c

\* Products of lines and their pitch.
LEMMA PitchIs ==
  ASSUME NEW P \in Nat, NEW a \in Nat, NEW b \in Nat
  PROVE  /\ a * P \in Nat
         /\ a <= b => a * P <= b * P
         /\ (a + 1) * P = a * P + P
<1>1. a * P \in Nat
  OBVIOUS
<1>2. ASSUME a <= b PROVE a * P <= b * P
  <2>1. PICK c \in Nat : b = a + c
    <3>1. b - a \in Nat /\ b = a + (b - a)
      BY <1>2
    <3>2. QED
      BY <3>1
  <2>2. c * P \in Nat
    OBVIOUS
  <2>3. (a + c) * P = a * P + c * P
    OBVIOUS
  <2>4. QED
    BY <1>1, <2>1, <2>2, <2>3
<1>3. (a + 1) * P = a * P + P
  OBVIOUS
<1>4. QED
  BY <1>1, <1>2, <1>3

LEMMA TimesCommutes ==
  ASSUME NEW a \in Nat, NEW b \in Nat
  PROVE  a * b = b * a /\ (a * b > 0 => a > 0)
<1>1. a * b = b * a
  OBVIOUS
<1>2. a = 0 => a * b = 0
  OBVIOUS
<1>3. QED
  BY <1>1, <1>2

\* SystemDisplayWrite draws what of a rectangle is on the screen.
LEMMA DrawsClipped ==
  ASSUME AdapterAssumption, DisplayAssumption, NEW r \in Rects,
         fb.info \in Displays, fb.size = FbBytes, FbBytes > 0, FbBytes <= MaxFbBytes
  PROVE  SystemDisplayWrite(r) = {p \in (0..fb.info.w - 1) \X (0..fb.info.h - 1) :
                                    /\ p[1] \in r.x..r.x + r.w - 1
                                    /\ p[2] \in r.y..r.y + r.h - 1}
<1> DEFINE W == fb.info.w
           H == fb.info.h
           P == fb.info.pitch
           x == r.x  y == r.y  w == r.w  h == r.h
           cX == Clip(x, w, W)
           cY == Clip(y, h, H)
           end(n) == (y + n) * P + x * 4 + cX * 4
           lines == {n \in 0..cY - 1 : \A k \in 0..n : end(k) <= fb.size}
<1>1. Wrap \in Nat \ {0} /\ MaxFbBytes \in Nat
  BY DEF AdapterAssumption
<1>2. /\ W \in 0..Wrap - 1 /\ H \in 0..Wrap - 1 /\ P \in 0..Wrap - 1 /\ 4 * W <= P
      /\ x \in 0..Wrap - 1 /\ y \in 0..Wrap - 1 /\ w \in 0..Wrap - 1 /\ h \in 0..Wrap - 1
      /\ MaxFbBytes < 4 * Wrap
      /\ W + w <= Wrap /\ H + h <= Wrap
  <2>1. r \in [x : 0..Wrap - 1, y : 0..Wrap - 1, w : 0..Wrap - 1, h : 0..Wrap - 1]
    BY Zenon DEF DisplayAssumption
  <2>2. {W, H, P} \subseteq 0..Wrap - 1 /\ 4 * W <= P /\ MaxFbBytes < 4 * Wrap
        /\ W + w <= Wrap /\ H + h <= Wrap
    BY Zenon DEF DisplayAssumption
  <2>3. QED
    BY <2>1, <2>2
<1>3. /\ cX \in Nat
      /\ x + w <= W => cX = w
      /\ x + w > W /\ x <= W => cX = W - x \/ (x + w >= Wrap /\ cX = w)
      /\ x > W => x + cX >= Wrap
  BY <1>1, <1>2, ClipIs
<1>4. /\ cY \in Nat
      /\ y + h <= H => cY = h
      /\ y + h > H /\ y <= H => cY = H - y \/ (y + h >= Wrap /\ cY = h)
      /\ y > H => y + cY >= Wrap
  BY <1>1, <1>2, ClipIs
<1>5. fb.size = P * H /\ P * H > 0 /\ P * H <= MaxFbBytes /\ P * H = H * P /\ P > 0
  <2>1. fb.size = P * H /\ P * H > 0 /\ P * H <= MaxFbBytes
    BY Zenon DEF FbBytes
  <2>2. P * H = H * P /\ (P * H > 0 => P > 0)
    <3>1. P \in Nat /\ H \in Nat
      BY <1>2
    <3> HIDE DEF P, H
    <3>2. QED
      BY ONLY <3>1, TimesCommutes
  <2>3. QED
    BY <2>1, <2>2, Zenon
<1> DEFINE drawn == {<<x + i, y + n>> : i \in 0..cX - 1, n \in lines}
<1>6. SystemDisplayWrite(r) = drawn
  BY SMT DEF SystemDisplayWrite
<1> HIDE DEF W, H, P, x, y, w, h, cX, cY
<1>7. ASSUME NEW i \in 0..cX - 1, NEW n \in lines
      PROVE  /\ x + i \in 0..W - 1 /\ x + i \in x..x + w - 1
             /\ y + n \in 0..H - 1 /\ y + n \in y..y + h - 1
  <2>1. n \in Nat /\ n < cY /\ end(n) <= P * H /\ i \in Nat /\ i < cX
    <3>1. n \in 0..cY - 1 /\ \A k \in 0..n : end(k) <= fb.size
      BY Zenon
    <3>2. n \in Nat /\ n < cY /\ n \in 0..n /\ i \in Nat /\ i < cX
      <4> HIDE DEF lines, end
      <4>1. QED
        BY ONLY <1>3, <1>4, <3>1, i \in 0..cX - 1
    <3>3. end(n) <= P * H
      BY <1>5, <3>1, <3>2, Zenon
    <3>4. QED
      BY <3>2, <3>3, Zenon
  <2>2. (y + n) * P \in Nat /\ (H <= y + n => H * P <= (y + n) * P)
    BY <1>2, <2>1, PitchIs
  <2> DEFINE A == (y + n) * P
             B == P * H
  <2>3. /\ A \in Nat /\ (H <= y + n => B <= A) /\ A + x * 4 + cX * 4 <= B
        /\ B <= MaxFbBytes /\ MaxFbBytes < 4 * Wrap
    BY <1>2, <1>5, <2>1, <2>2
  <2> HIDE DEF A, B
  <2>4. y + n < H /\ x + cX < Wrap
    <3>1. /\ x \in Nat /\ y \in Nat /\ n \in Nat /\ H \in Nat /\ cX \in Nat /\ cX > 0
          /\ Wrap \in Nat /\ B \in Int
      BY <1>1, <1>2, <1>3, <1>5, <2>1 DEF B
    <3>2. QED
      BY <1>1, <2>3, <3>1
  <2>5. x + i < W /\ i < w
    BY <1>1, <1>2, <1>3, <2>1, <2>4
  <2>6. n < h
    BY <1>1, <1>2, <1>4, <2>1, <2>4
  <2>7. QED
    BY <1>2, <2>1, <2>4, <2>5, <2>6
<1>8. ASSUME NEW a \in 0..W - 1, NEW b \in 0..H - 1, a \in x..x + w - 1, b \in y..y + h - 1
      PROVE  a - x \in 0..cX - 1 /\ b - y \in lines
  <2>1. x + cX <= W /\ a - x < cX /\ a - x \in Nat
    BY <1>1, <1>2, <1>3, <1>8
  <2>2. b - y \in Nat /\ b - y < cY
    BY <1>1, <1>2, <1>4, <1>8
  <2>3. ASSUME NEW k \in 0..b - y PROVE end(k) <= P * H
    <3>1. y + k \in Nat /\ y + k + 1 <= H /\ k \in Nat /\ y + k + 1 \in Nat
      BY <1>2, <1>8, <2>2
    <3>2. /\ (y + k) * P \in Nat /\ (y + k + 1) * P = (y + k) * P + P
      BY <1>2, <3>1, PitchIs
    <3>3. (y + k + 1) * P <= H * P
      BY <1>2, <3>1, PitchIs
    <3> DEFINE A == (y + k) * P
               B == H * P
    <3>4. A \in Nat /\ A + P <= B /\ B = P * H
      BY <1>5, <3>2, <3>3
    <3>5. end(k) = A + x * 4 + cX * 4
      OBVIOUS
    <3> HIDE DEF A
    <3>6. A + x * 4 + cX * 4 <= A + P
      BY <1>2, <1>3, <2>1, <3>4
    <3> HIDE DEF B
    <3>7. B \in Nat
      BY <1>2, <1>5, <3>4
    <3>8. A + x * 4 + cX * 4 <= B
      BY <1>2, <1>3, <3>4, <3>6, <3>7
    <3>9. QED
      BY <3>4, <3>5, <3>8, Zenon
  <2>4. b - y \in lines
    BY <1>4, <1>5, <2>2, <2>3
  <2>5. QED
    BY <1>3, <2>1, <2>4
<1> HIDE DEF lines
<1> DEFINE shown == {p \in (0..W - 1) \X (0..H - 1) :
                       p[1] \in x..x + w - 1 /\ p[2] \in y..y + h - 1}
<1>9. drawn = shown
  <2>1. ASSUME NEW i \in 0..cX - 1, NEW n \in lines
        PROVE  <<x + i, y + n>> \in {p \in (0..W - 1) \X (0..H - 1) :
                                       p[1] \in x..x + w - 1 /\ p[2] \in y..y + h - 1}
    BY <1>7
  <2>2. ASSUME NEW p \in (0..W - 1) \X (0..H - 1), p[1] \in x..x + w - 1, p[2] \in y..y + h - 1
        PROVE  \E i \in 0..cX - 1, n \in lines : p = <<x + i, y + n>>
    <3>1. p[1] - x \in 0..cX - 1 /\ p[2] - y \in lines
      BY <1>8, <2>2
    <3>2. p = <<x + (p[1] - x), y + (p[2] - y)>>
      BY <1>2
    <3>3. QED
      BY <3>1, <3>2, Zenon
  <2>3. QED
    BY <2>1, <2>2, SMT
<1> HIDE DEF drawn, shown
<1>10. SystemDisplayWrite(r) = shown
  BY <1>6, <1>9, Zenon
<1>11. QED
  BY <1>10, Zenon DEF shown, W, H, x, y, w, h

-----------------------------------------------------------------------------
(* The mode-set callbacks *)

\* One call more: what it hands out and takes back.
LEMMA CountStep ==
  ASSUME NEW calls, NEW i \in Nat, NEW kinds
  PROVE  /\ Count(calls, i, kinds) \in Nat
         /\ Count(calls, 0, kinds) = 0
         /\ Count(calls, i + 1, kinds) =
              Count(calls, i, kinds) + (IF calls[i + 1] \in kinds THEN 1 ELSE 0)
<1> DEFINE In(n) == {j \in 1..n : calls[j] \in kinds}
<1>1. IsFiniteSet(In(i))
  <2>1. IsFiniteSet(1..i)
    BY FS_Interval
  <2>2. In(i) \subseteq 1..i
    OBVIOUS
  <2>3. QED
    BY <2>1, <2>2, FS_Subset
<1>2. Cardinality(In(i)) \in Nat
  BY <1>1, FS_CardinalityType
<1>3. Cardinality(In(0)) = 0
  <2>1. In(0) = {}
    OBVIOUS
  <2>2. QED
    BY <2>1, FS_EmptySet
<1>4. Cardinality(In(i + 1)) = Cardinality(In(i)) + (IF calls[i + 1] \in kinds THEN 1 ELSE 0)
  <2>1. CASE calls[i + 1] \in kinds
    <3>1. In(i + 1) = In(i) \cup {i + 1} /\ i + 1 \notin In(i)
      BY <2>1
    <3>2. QED
      BY <1>1, <2>1, <3>1, FS_AddElement
  <2>2. CASE calls[i + 1] \notin kinds
    <3>1. In(i + 1) = In(i)
      BY <2>2, 1..i + 1 = 1..i \cup {i + 1}
    <3>2. QED
      BY <1>2, <2>2, <3>1
  <2>3. QED
    BY <2>1, <2>2
<1>5. QED
  BY <1>2, <1>3, <1>4 DEF Count

TakesSet == {"acquireSet", "createSet"}
GivesSet == {"releaseSet", "assignSet"}
TakesMode == {"acquirePin", "createMode"}
GivesMode == {"releaseMode", "addMode"}

Calls == TakesSet \cup GivesSet \cup TakesMode \cup GivesMode

\* One call more, by its kind.
LEMMA OutStep ==
  ASSUME NEW calls, NEW i \in Nat
  PROVE  /\ SetsOut(calls, i) \in Int /\ ModesOut(calls, i) \in Int
         /\ SetsOut(calls, 0) = 0 /\ ModesOut(calls, 0) = 0
         /\ calls[i + 1] \in TakesSet =>
              /\ SetsOut(calls, i + 1) = SetsOut(calls, i) + 1
              /\ ModesOut(calls, i + 1) = ModesOut(calls, i)
         /\ calls[i + 1] \in GivesSet =>
              /\ SetsOut(calls, i + 1) = SetsOut(calls, i) - 1
              /\ ModesOut(calls, i + 1) = ModesOut(calls, i)
         /\ calls[i + 1] \in TakesMode =>
              /\ SetsOut(calls, i + 1) = SetsOut(calls, i)
              /\ ModesOut(calls, i + 1) = ModesOut(calls, i) + 1
         /\ calls[i + 1] \in GivesMode =>
              /\ SetsOut(calls, i + 1) = SetsOut(calls, i)
              /\ ModesOut(calls, i + 1) = ModesOut(calls, i) - 1
<1> DEFINE c == calls[i + 1]
           one(K) == IF c \in K THEN 1 ELSE 0
           C(j, K) == Count(calls, j, K)
<1>1. \A K \in {TakesSet, GivesSet, TakesMode, GivesMode} :
        C(i, K) \in Nat /\ C(0, K) = 0 /\ C(i + 1, K) = C(i, K) + one(K)
  BY CountStep
<1> HIDE DEF C, one
<1>2. \A j : /\ SetsOut(calls, j) = C(j, TakesSet) - C(j, GivesSet)
             /\ ModesOut(calls, j) = C(j, TakesMode) - C(j, GivesMode)
  BY Zenon DEF SetsOut, ModesOut, C, TakesSet, GivesSet, TakesMode, GivesMode
<1> DEFINE a == C(i, TakesSet)   a1 == C(i + 1, TakesSet)
           b == C(i, GivesSet)   b1 == C(i + 1, GivesSet)
           d == C(i, TakesMode)  d1 == C(i + 1, TakesMode)
           e == C(i, GivesMode)  e1 == C(i + 1, GivesMode)
<1>3. /\ a \in Nat /\ a1 = a + one(TakesSet) /\ b \in Nat /\ b1 = b + one(GivesSet)
      /\ d \in Nat /\ d1 = d + one(TakesMode) /\ e \in Nat /\ e1 = e + one(GivesMode)
  BY <1>1
<1>4. /\ SetsOut(calls, i) = a - b /\ SetsOut(calls, i + 1) = a1 - b1
      /\ ModesOut(calls, i) = d - e /\ ModesOut(calls, i + 1) = d1 - e1
  BY <1>2, Zenon
<1>5. SetsOut(calls, 0) = 0 /\ ModesOut(calls, 0) = 0
  BY <1>1, <1>2
<1> HIDE DEF a, b, d, e, a1, b1, d1, e1
<1>6. /\ c \in TakesSet => one(TakesSet) = 1 /\ one(GivesSet) = 0 /\ one(TakesMode) = 0 /\ one(GivesMode) = 0
      /\ c \in GivesSet => one(TakesSet) = 0 /\ one(GivesSet) = 1 /\ one(TakesMode) = 0 /\ one(GivesMode) = 0
      /\ c \in TakesMode => one(TakesSet) = 0 /\ one(GivesSet) = 0 /\ one(TakesMode) = 1 /\ one(GivesMode) = 0
      /\ c \in GivesMode => one(TakesSet) = 0 /\ one(GivesSet) = 0 /\ one(TakesMode) = 0 /\ one(GivesMode) = 1
  BY DEF one, TakesSet, GivesSet, TakesMode, GivesMode
<1> HIDE DEF c
<1>7. /\ SetsOut(calls, i) \in Int /\ ModesOut(calls, i) \in Int
      /\ c \in TakesSet => a1 - b1 = a - b + 1 /\ d1 - e1 = d - e
      /\ c \in GivesSet => a1 - b1 = a - b - 1 /\ d1 - e1 = d - e
      /\ c \in TakesMode => a1 - b1 = a - b /\ d1 - e1 = d - e + 1
      /\ c \in GivesMode => a1 - b1 = a - b /\ d1 - e1 = d - e - 1
  BY <1>3, <1>4, <1>6
<1>8. QED
  BY <1>4, <1>5, <1>7, Zenon DEF c

\* A set is taken, modes are taken and given one by one, and the set is given.
Round(calls, o, K) ==
  /\ K \in Nat /\ K >= 2 /\ K % 2 = 0
  /\ calls[o + 1] \in TakesSet
  /\ \A k \in 2..K - 1 : IF k % 2 = 0 THEN calls[o + k] \in TakesMode
                                      ELSE calls[o + k] \in GivesMode
  /\ calls[o + K] \in GivesSet

\* What is out during a round, and that nothing is after it.
LEMMA RoundReturns ==
  ASSUME NEW calls, NEW o \in Nat, NEW K, Round(calls, o, K),
         SetsOut(calls, o) = 0, ModesOut(calls, o) = 0
  PROVE  \A k \in 0..K :
           /\ SetsOut(calls, o + k) = IF 1 <= k /\ k < K THEN 1 ELSE 0
           /\ ModesOut(calls, o + k) = IF 1 <= k /\ k < K /\ k % 2 = 0 THEN 1 ELSE 0
<1> DEFINE Right(k) ==
           /\ SetsOut(calls, o + k) = IF 1 <= k /\ k < K THEN 1 ELSE 0
           /\ ModesOut(calls, o + k) = IF 1 <= k /\ k < K /\ k % 2 = 0 THEN 1 ELSE 0
           Wrong == {k \in 0..K : ~Right(k)}
           R == OpToRel(<, Nat)
<1>0. K \in Nat /\ K >= 2 /\ K % 2 = 0
  BY DEF Round
<1>1. SUFFICES ASSUME Wrong # {} PROVE FALSE
  OBVIOUS
<1>2. PICK x \in Wrong : \A y \in Wrong : ~ (<<y, x>> \in R)
  <2> HIDE DEF R
  <2>1. IsWellFoundedOn(R, Nat)
    BY NatLessThanWellFounded DEF R
  <2>2. Wrong \subseteq Nat
    BY <1>0
  <2> HIDE DEF Wrong
  <2>3. QED
    BY <1>1, <2>1, <2>2, WFMin
<1>3. Right(0)
  BY <1>0
<1>4. x \in 0..K /\ x # 0
  BY <1>2, <1>3
<1> DEFINE y == x - 1
<1>5. y \in Nat /\ x = y + 1 /\ y \in 0..K /\ y < K /\ y < x /\ o + y \in Nat /\ o + x = (o + y) + 1
      /\ x \in Nat
  BY <1>0, <1>4
<1> HIDE DEF y
<1>6. Right(y)
  <2>1. <<y, x>> \in R
    BY <1>5 DEF OpToRel
  <2>2. y \notin Wrong
    BY <1>2, <2>1, Zenon
  <2>3. QED
    BY <1>5, <2>2, Zenon
<1>7. /\ x = 1 => calls[(o + y) + 1] \in TakesSet
      /\ x = K => calls[(o + y) + 1] \in GivesSet
      /\ 1 < x /\ x < K /\ x % 2 = 0 => calls[(o + y) + 1] \in TakesMode
      /\ 1 < x /\ x < K /\ x % 2 # 0 => calls[(o + y) + 1] \in GivesMode
  BY <1>0, <1>5 DEF Round
<1> DEFINE s == SetsOut(calls, o + y)
           t == ModesOut(calls, o + y)
           s1 == SetsOut(calls, (o + y) + 1)
           t1 == ModesOut(calls, (o + y) + 1)
<1>8. /\ x = 1 => s1 = s + 1 /\ t1 = t
      /\ x = K => s1 = s - 1 /\ t1 = t
      /\ 1 < x /\ x < K /\ x % 2 = 0 => s1 = s /\ t1 = t + 1
      /\ 1 < x /\ x < K /\ x % 2 # 0 => s1 = s /\ t1 = t - 1
  BY <1>5, <1>7, OutStep, Zenon
<1>9. s1 = SetsOut(calls, o + x) /\ t1 = ModesOut(calls, o + x)
  BY <1>5, Zenon
<1>10. /\ s = IF 1 <= y /\ y < K THEN 1 ELSE 0
       /\ t = IF 1 <= y /\ y < K /\ y % 2 = 0 THEN 1 ELSE 0
  BY <1>6, Zenon
<1> HIDE DEF s, t, s1, t1
<1>11. /\ s1 = IF 1 <= x /\ x < K THEN 1 ELSE 0
       /\ t1 = IF 1 <= x /\ x < K /\ x % 2 = 0 THEN 1 ELSE 0
  BY <1>0, <1>4, <1>5, <1>8, <1>10
<1>12. Right(x)
  BY <1>9, <1>11, Zenon
<1>13. QED
  BY <1>2, <1>12, Zenon

\* Two sequences in one.
LEMMA ConcatIs ==
  ASSUME NEW S, NEW a \in Seq(S), NEW b \in Seq(S)
  PROVE  /\ a \o b \in Seq(S) /\ Len(a \o b) = Len(a) + Len(b)
         /\ \A i \in 1..Len(a) : (a \o b)[i] = a[i]
         /\ \A i \in 1..Len(b) : (a \o b)[Len(a) + i] = b[i]
<1>1. /\ a \o b \in Seq(S) /\ Len(a \o b) = Len(a) + Len(b)
      /\ Len(a) \in Nat /\ Len(b) \in Nat
  OBVIOUS
<1>2. \A i \in 1..Len(a) : (a \o b)[i] = a[i]
  OBVIOUS
<1>3. ASSUME NEW i \in 1..Len(b) PROVE (a \o b)[Len(a) + i] = b[i]
  <2>1. Len(a) + i \in 1..Len(a) + Len(b) /\ ~(Len(a) + i <= Len(a)) /\ Len(a) + i - Len(a) = i
    BY <1>1
  <2>2. QED
    BY <1>1, <2>1
<1>4. QED
  BY <1>1, <1>2, <1>3

\* Nothing at all, or one round.
Rounds == {s \in Seq(Calls) : s = <<>> \/ Round(s, 0, Len(s))}

LEMMA LookIs == \A found \in Found : Look(found) \in Rounds
<1>1. <<>> \in Rounds
  BY DEF Rounds
<1>2. <<"acquireSet", "releaseSet">> \in Rounds
  <2> DEFINE s == <<"acquireSet", "releaseSet">>
  <2>1. s \in Seq(Calls) /\ Len(s) = 2 /\ s[1] = "acquireSet" /\ s[2] = "releaseSet"
    BY DEF Calls, TakesSet, GivesSet
  <2> HIDE DEF s
  <2>2. Round(s, 0, 2)
    BY <2>1 DEF Round, TakesSet, GivesSet
  <2>3. s \in Rounds
    BY <2>1, <2>2 DEF Rounds
  <2>4. QED
    BY <2>3 DEF s
<1>3. <<"acquireSet", "acquirePin", "releaseMode", "releaseSet">> \in Rounds
  <2> DEFINE s == <<"acquireSet", "acquirePin", "releaseMode", "releaseSet">>
  <2>1. /\ s \in Seq(Calls) /\ Len(s) = 4 /\ s[1] = "acquireSet" /\ s[2] = "acquirePin"
        /\ s[3] = "releaseMode" /\ s[4] = "releaseSet"
    BY DEF Calls, TakesSet, GivesSet, TakesMode, GivesMode
  <2> HIDE DEF s
  <2>2. Round(s, 0, 4)
    BY <2>1 DEF Round, TakesSet, GivesSet, TakesMode, GivesMode
  <2>3. s \in Rounds
    BY <2>1, <2>2 DEF Rounds
  <2>4. QED
    BY <2>3 DEF s
<1>4. QED
  BY <1>1, <1>2, <1>3 DEF Look, Found

\* The loop that fills a set makes a round with whatever ends it.
LEMMA FilledIs ==
  ASSUME NEW q \in Nat, NEW rest \in Seq(Calls),
         \/ Len(rest) = 1 /\ rest[1] \in GivesSet
         \/ /\ Len(rest) = 3 /\ rest[1] \in TakesMode /\ rest[2] \in GivesMode
            /\ rest[3] \in GivesSet
  PROVE  <<"createSet">> \o Fill(q) \o rest \in Rounds
<1> DEFINE f == Fill(q)
           s == <<"createSet">> \o f \o rest
<1>1. /\ f \in Seq(Calls) /\ Len(f) = 2 * q
      /\ \A i \in 1..2 * q : f[i] = IF i % 2 = 1 THEN "createMode" ELSE "addMode"
  <2>1. f = [i \in 1..2 * q |-> IF i % 2 = 1 THEN "createMode" ELSE "addMode"] /\ 2 * q \in Nat
    BY DEF Fill
  <2>2. \A i \in 1..2 * q : f[i] \in Calls
    BY <2>1 DEF Calls, TakesMode, GivesMode
  <2>3. f \in [1..2 * q -> Calls]
    BY <2>1, <2>2
  <2>4. QED
    BY <2>1, <2>3
<1> HIDE DEF f
<1>2. /\ s \in Seq(Calls) /\ Len(s) = 1 + 2 * q + Len(rest)
      /\ s[1] = "createSet"
      /\ \A i \in 1..2 * q : s[i + 1] = f[i]
      /\ \A i \in 1..Len(rest) : s[1 + 2 * q + i] = rest[i]
  <2>1. PICK c \in Seq(Calls) : c = <<"createSet">> /\ Len(c) = 1 /\ c[1] = "createSet"
    <3>1. <<"createSet">> \in Seq(Calls) /\ Len(<<"createSet">>) = 1
      BY DEF Calls, TakesSet
    <3>2. QED
      BY <3>1
  <2>2. PICK g \in Seq(Calls) : /\ g = c \o f /\ Len(g) = Len(c) + Len(f)
                                /\ \A i \in 1..Len(c) : g[i] = c[i]
                                /\ \A i \in 1..Len(f) : g[Len(c) + i] = f[i]
    <3>1. f \in Seq(Calls)
      BY <1>1
    <3>2. /\ c \o f \in Seq(Calls) /\ Len(c \o f) = Len(c) + Len(f)
          /\ \A i \in 1..Len(c) : (c \o f)[i] = c[i]
          /\ \A i \in 1..Len(f) : (c \o f)[Len(c) + i] = f[i]
      BY <3>1, ConcatIs
    <3>3. QED
      BY <3>2, Zenon
  <2>3. /\ g \o rest \in Seq(Calls) /\ Len(g \o rest) = Len(g) + Len(rest)
        /\ \A i \in 1..Len(g) : (g \o rest)[i] = g[i]
        /\ \A i \in 1..Len(rest) : (g \o rest)[Len(g) + i] = rest[i]
    BY ConcatIs
  <2>4. s = g \o rest
    BY <2>1, <2>2
  <2> HIDE DEF s
  <2>5. /\ Len(g) = 1 + 2 * q /\ g[1] = "createSet"
        /\ \A i \in 1..2 * q : g[i + 1] = f[i]
    BY <1>1, <2>1, <2>2
  <2>6. \A i \in 1..2 * q : i + 1 \in 1..1 + 2 * q
    OBVIOUS
  <2>7. QED
    BY <2>3, <2>4, <2>5, <2>6
<1> HIDE DEF s
<1> DEFINE K == Len(s)
<1>3. K \in Nat /\ K >= 2 /\ K % 2 = 0 /\ s[K] \in GivesSet
  <2>1. 1 + 2 * q + 1 = 2 * (q + 1) /\ 1 + 2 * q + 3 = 2 * (q + 2)
    OBVIOUS
  <2>2. CASE Len(rest) = 1 /\ rest[1] \in GivesSet
    <3>1. K = 1 + 2 * q + 1 /\ s[1 + 2 * q + 1] = rest[1]
      BY <1>2, <2>2
    <3>2. K = 2 * (q + 1) /\ s[K] \in GivesSet
      BY <2>1, <2>2, <3>1, Zenon
    <3> HIDE DEF K
    <3>3. QED
      BY <3>2
  <2>3. CASE Len(rest) = 3 /\ rest[3] \in GivesSet
    <3>1. K = 1 + 2 * q + 3 /\ s[1 + 2 * q + 3] = rest[3]
      BY <1>2, <2>3
    <3>2. K = 2 * (q + 2) /\ s[K] \in GivesSet
      BY <2>1, <2>3, <3>1, Zenon
    <3> HIDE DEF K
    <3>3. QED
      BY <3>2
  <2>4. QED
    BY <2>2, <2>3, Zenon
<1>4. ASSUME NEW k \in 2..K - 1
      PROVE  IF k % 2 = 0 THEN s[k] \in TakesMode ELSE s[k] \in GivesMode
  <2>1. CASE k - 1 <= 2 * q
    <3> DEFINE i == k - 1
    <3>1. i \in 1..2 * q /\ k = i + 1 /\ (k % 2 = 0 <=> i % 2 = 1)
      BY <2>1
    <3> HIDE DEF i
    <3>2. s[k] = IF i % 2 = 1 THEN "createMode" ELSE "addMode"
      BY <1>1, <1>2, <3>1
    <3>3. QED
      BY <3>1, <3>2 DEF TakesMode, GivesMode
  <2>2. CASE k - 1 > 2 * q
    <3>1. /\ Len(rest) = 3 /\ rest[1] \in TakesMode /\ rest[2] \in GivesMode
          /\ k = 1 + 2 * q + 1 \/ k = 1 + 2 * q + 2
      BY <1>2, <2>2
    <3>2. s[1 + 2 * q + 1] = rest[1] /\ s[1 + 2 * q + 2] = rest[2]
      BY <1>2, <3>1
    <3>3. CASE k = 1 + 2 * q + 1
      BY <3>1, <3>2, <3>3
    <3>4. CASE k = 1 + 2 * q + 2
      BY <3>1, <3>2, <3>4
    <3>5. QED
      BY <3>1, <3>3, <3>4
  <2>3. QED
    BY <1>2, <2>1, <2>2
<1>5. Round(s, 0, K)
  BY <1>2, <1>3, <1>4 DEF Round, TakesSet
<1>6. s \in Rounds
  BY <1>2, <1>5 DEF Rounds
<1>7. QED
  BY <1>6 DEF s, f

LEMMA BuildIs ==
  ASSUME NEW n \in Nat, NEW fail \in Fails(n)
  PROVE  Build(fail, n) \in Rounds
<1>1. <<>> \in Rounds
  BY DEF Rounds
<1> DEFINE back == <<"releaseSet">>
           done == <<"assignSet">>
           half == <<"createMode", "releaseMode", "releaseSet">>
<1>2. /\ back \in Seq(Calls) /\ Len(back) = 1 /\ back[1] \in GivesSet
      /\ done \in Seq(Calls) /\ Len(done) = 1 /\ done[1] \in GivesSet
      /\ half \in Seq(Calls) /\ Len(half) = 3 /\ half[1] \in TakesMode
      /\ half[2] \in GivesMode /\ half[3] \in GivesSet
  BY DEF Calls, TakesSet, GivesSet, TakesMode, GivesMode
<1> HIDE DEF back, done, half
<1>3. \A q \in Nat : /\ <<"createSet">> \o Fill(q) \o back \in Rounds
                     /\ <<"createSet">> \o Fill(q) \o done \in Rounds
                     /\ <<"createSet">> \o Fill(q) \o half \in Rounds
  BY <1>2, FilledIs
<1>4. CASE fail = <<"create", 1>>
  BY <1>1, <1>4 DEF Build
<1>5. CASE fail = <<"assign", 1>>
  BY <1>3, <1>5 DEF Build, back
<1>6. CASE fail = <<"never", 1>>
  BY <1>3, <1>6 DEF Build, done
<1>7. CASE fail \in {"mode"} \X (1..n)
  <2>1. fail[1] = "mode" /\ fail[2] - 1 \in Nat
    BY <1>7
  <2>2. Build(fail, n) = <<"createSet">> \o Fill(fail[2] - 1) \o back
    BY <2>1 DEF Build, back
  <2>3. QED
    BY <1>3, <2>1, <2>2
<1>8. CASE fail \in {"add"} \X (1..n)
  <2>1. fail[1] = "add" /\ fail[2] - 1 \in Nat
    BY <1>8
  <2>2. Build(fail, n) = <<"createSet">> \o Fill(fail[2] - 1) \o half
    BY <2>1 DEF Build, half
  <2>3. QED
    BY <1>3, <2>1, <2>2
<1>9. QED
  BY <1>4, <1>5, <1>6, <1>7, <1>8 DEF Fails

\* Two rounds return what they take.
LEMMA RoundsReturn ==
  ASSUME NEW a \in Rounds, NEW b \in Rounds
  PROVE  LET calls == a \o b IN
         /\ SetsOut(calls, Len(calls)) = 0
         /\ \A i \in DOMAIN calls : 0 <= ModesOut(calls, i) /\ ModesOut(calls, i) <= SetsOut(calls, i)
<1> DEFINE calls == a \o b
           Good(i) == 0 <= ModesOut(calls, i) /\ ModesOut(calls, i) <= SetsOut(calls, i)
           Clear(i) == SetsOut(calls, i) = 0 /\ ModesOut(calls, i) = 0
           m == Len(a)  n == Len(b)
<1>1. /\ a \in Seq(Calls) /\ b \in Seq(Calls) /\ m \in Nat /\ n \in Nat
      /\ a = <<>> \/ Round(a, 0, m)
      /\ b = <<>> \/ Round(b, 0, n)
  BY DEF Rounds
<1>2. /\ Len(calls) = m + n /\ DOMAIN calls = 1..m + n
      /\ \A i \in 1..m : calls[i] = a[i]
      /\ \A i \in 1..n : calls[m + i] = b[i]
  BY <1>1, ConcatIs
<1>3. (m = 0 \/ Round(calls, 0, m)) /\ (n = 0 \/ Round(calls, m, n))
  <2>1. a = <<>> => m = 0
    OBVIOUS
  <2>2. b = <<>> => n = 0
    OBVIOUS
  <2> HIDE DEF calls, m, n
  <2>3. ASSUME Round(a, 0, m) PROVE Round(calls, 0, m)
    <3>1. /\ m >= 2 /\ m % 2 = 0 /\ a[1] \in TakesSet /\ a[m] \in GivesSet
          /\ \A k \in 2..m - 1 : IF k % 2 = 0 THEN a[k] \in TakesMode ELSE a[k] \in GivesMode
      BY <1>1, <2>3 DEF Round
    <3>2. calls[1] = a[1] /\ calls[m] = a[m] /\ \A k \in 2..m - 1 : calls[k] = a[k]
      BY <1>1, <1>2, <3>1
    <3>3. QED
      BY <1>1, <3>1, <3>2 DEF Round
  <2>4. ASSUME Round(b, 0, n) PROVE Round(calls, m, n)
    <3>1. /\ n >= 2 /\ n % 2 = 0 /\ b[1] \in TakesSet /\ b[n] \in GivesSet
          /\ \A k \in 2..n - 1 : IF k % 2 = 0 THEN b[k] \in TakesMode ELSE b[k] \in GivesMode
      BY <1>1, <2>4 DEF Round
    <3>2. calls[m + 1] = b[1] /\ calls[m + n] = b[n] /\ \A k \in 2..n - 1 : calls[m + k] = b[k]
      <4>1. 1 \in 1..n /\ n \in 1..n /\ \A k \in 2..n - 1 : k \in 1..n
        BY <1>1, <3>1
      <4>2. QED
        BY <1>2, <4>1, Zenon
    <3>3. QED
      BY <1>1, <3>1, <3>2 DEF Round
  <2>5. QED
    BY <1>1, <2>1, <2>2, <2>3, <2>4
<1> HIDE DEF calls, m, n
<1>4. Clear(0)
  BY OutStep
<1>5. (\A i \in 1..m : Good(i)) /\ Clear(m)
  <2>1. CASE m = 0
    BY <1>4, <2>1
  <2>2. CASE Round(calls, 0, m)
    <3>1. \A k \in 0..m :
           /\ SetsOut(calls, 0 + k) = IF 1 <= k /\ k < m THEN 1 ELSE 0
           /\ ModesOut(calls, 0 + k) = IF 1 <= k /\ k < m /\ k % 2 = 0 THEN 1 ELSE 0
      BY <1>4, <2>2, RoundReturns
    <3>2. QED
      BY <1>1, <3>1
  <2>3. QED
    BY <1>3, <2>1, <2>2
<1>6. (\A i \in m + 1..m + n : Good(i)) /\ Clear(m + n)
  <2>1. CASE n = 0
    BY <1>1, <1>5, <2>1
  <2>2. CASE Round(calls, m, n)
    <3>1. \A k \in 0..n :
           /\ SetsOut(calls, m + k) = IF 1 <= k /\ k < n THEN 1 ELSE 0
           /\ ModesOut(calls, m + k) = IF 1 <= k /\ k < n /\ k % 2 = 0 THEN 1 ELSE 0
      BY <1>1, <1>5, <2>2, RoundReturns
    <3>2. Clear(m + n)
      BY <1>1, <3>1
    <3>3. ASSUME NEW i \in m + 1..m + n PROVE Good(i)
      <4>1. i - m \in 0..n /\ m + (i - m) = i
        BY <1>1
      <4>2. QED
        BY <3>1, <4>1
    <3>4. QED
      BY <3>2, <3>3
  <2>3. QED
    BY <1>3, <2>1, <2>2
<1>7. \A i \in 1..m + n : Good(i)
  BY <1>1, <1>5, <1>6
<1>8. QED
  BY <1>2, <1>6, <1>7 DEF calls

\* Whatever is found and whatever fails, for any number of modes.
LEMMA EnsureReturns ==
  ASSUME NEW n \in Nat, NEW found \in Found, NEW fail \in Fails(n)
  PROVE  LET calls == EnsureModeSet(found, fail, n) IN
         /\ SetsOut(calls, Len(calls)) = 0
         /\ \A i \in DOMAIN calls : 0 <= ModesOut(calls, i) /\ ModesOut(calls, i) <= SetsOut(calls, i)
<1>1. PICK b \in Rounds : EnsureModeSet(found, fail, n) = Look(found) \o b
  <2>1. CASE found = "pinned"
    <3>1. <<>> \in Rounds
      BY DEF Rounds
    <3>2. Look(found) \in Seq(Calls)
      BY LookIs DEF Rounds
    <3>3. Look(found) = Look(found) \o <<>>
      BY <3>2
    <3>4. QED
      BY <2>1, <3>1, <3>3, Zenon DEF EnsureModeSet
  <2>2. CASE found # "pinned"
    BY <2>2, BuildIs, Zenon DEF EnsureModeSet
  <2>3. QED
    BY <2>1, <2>2
<1>2. QED
  BY <1>1, LookIs, RoundsReturn, Zenon

-----------------------------------------------------------------------------
(* Video memory *)

Allocs == [Alloc -> [size : Nat, local : BOOLEAN]]

\* UsedVramBytes is right, unless it was set to zero under allocations; and
\* nothing is local while there is no video memory.
Accounted(v, al) ==
  /\ al \in Allocs
  /\ v \in [total : {0, Vram}, used : Nat, clean : BOOLEAN]
  /\ v.total = 0 => Local(al) = {}
  /\ v.clean => v.used = VramInUse(al)

\* What is in use is a total.
LEMMA InUseIs ==
  ASSUME AdapterAssumption, NEW al \in Allocs
  PROVE  /\ VramInUse(al) = Total(al, Local(al))
         /\ IsFiniteSet(Local(al)) /\ VramInUse(al) \in Nat
         /\ Local(al) = {} => VramInUse(al) = 0
<1>1. VramInUse(al) = Total(al, Local(al))
  BY DEF VramInUse, Total
<1>2. IsFiniteSet(Alloc) /\ Local(al) \subseteq Alloc
  BY AdapterAssumption DEF Local
<1>3. IsFiniteSet(Local(al))
  BY <1>2, FS_Subset
<1>4. Sized(al, Local(al))
  BY <1>2, <1>3 DEF Allocs, Sized
<1>5. Total(al, Local(al)) \in Nat /\ (Local(al) = {} => Total(al, Local(al)) = 0)
  BY <1>4, TotalNat
<1>6. QED
  BY <1>1, <1>3, <1>5

\* One entry that comes to be local adds what it takes.
LEMMA InUseAdds ==
  ASSUME AdapterAssumption, NEW al \in Allocs, NEW cl \in Allocs, NEW a \in Alloc,
         ~al[a].local, cl[a].local, \A b \in Alloc \ {a} : cl[b] = al[b]
  PROVE  VramInUse(cl) = VramInUse(al) + cl[a].size
<1> DEFINE T == Local(al)
<1>1. IsFiniteSet(T) /\ VramInUse(al) = Total(al, T) /\ VramInUse(cl) = Total(cl, Local(cl))
  BY InUseIs
<1>2. a \notin T /\ Local(cl) = T \cup {a}
  BY DEF Local
<1>3. \A b \in T \cup {a} : al[b].size \in Nat /\ cl[b].size \in Nat
  BY DEF Local, Allocs
<1>4. \A b \in T : cl[b].size = al[b].size
  BY <1>2 DEF Local
<1> HIDE DEF T
<1>5. Total(al, T) = Total(cl, T)
  <2>1. Sized(al, T) /\ \A b \in T : al[b].size = cl[b].size
    BY <1>1, <1>3, <1>4 DEF Sized
  <2>2. QED
    BY ONLY <2>1, TotalSame
<1>6. Total(cl, T \cup {a}) = Total(cl, T) + cl[a].size
  <2>1. Sized(cl, T \cup {a})
    <3>1. IsFiniteSet(T \cup {a})
      BY <1>1, FS_AddElement
    <3>2. QED
      BY <1>3, <3>1 DEF Sized
  <2>2. a \notin T
    BY <1>2
  <2>3. QED
    BY ONLY <2>1, <2>2, TotalAdds, Zenon
<1>7. QED
  BY <1>1, <1>2, <1>5, <1>6

\* One that changes and is local neither before nor after adds nothing.
LEMMA InUseStays ==
  ASSUME AdapterAssumption, NEW al \in Allocs, NEW cl \in Allocs, NEW a \in Alloc,
         ~al[a].local, ~cl[a].local, \A b \in Alloc \ {a} : cl[b] = al[b]
  PROVE  Local(cl) = Local(al) /\ VramInUse(cl) = VramInUse(al)
<1> DEFINE T == Local(al)
<1>1. IsFiniteSet(T) /\ VramInUse(al) = Total(al, T) /\ VramInUse(cl) = Total(cl, Local(cl))
  BY InUseIs
<1>2. Local(cl) = T
  BY DEF Local
<1>3. Sized(al, T) /\ \A b \in T : al[b].size = cl[b].size
  BY <1>1 DEF Local, Allocs, Sized
<1> HIDE DEF T
<1>4. Total(al, T) = Total(cl, T)
  BY ONLY <1>3, TotalSame
<1>5. QED
  BY <1>1, <1>2, <1>4 DEF T

\* CreateAllocation counts what it places in video memory.
LEMMA PlaceKeeps ==
  ASSUME AdapterAssumption, NEW v, NEW al, Accounted(v, al),
         NEW a \in Alloc, ~al[a].local, NEW size \in Nat
  PROVE  Accounted(Place(v, al, a, size).vram, Place(v, al, a, size).allocs)
<1> DEFINE bytes == IF size = 0 THEN 1 ELSE size
           fits == v.used < v.total /\ bytes <= v.total - v.used
           one == [size |-> bytes, local |-> fits]
           cl == [al EXCEPT ![a] = one]
           u == IF fits THEN [v EXCEPT !.used = v.used + bytes] ELSE v
<1>1. Place(v, al, a, size).vram = u /\ Place(v, al, a, size).allocs = cl
  BY DEF Place
<1>2. bytes \in Nat /\ fits \in BOOLEAN /\ v.used \in Nat /\ v.total \in {0, Vram} /\ Vram \in Nat
  BY AdapterAssumption DEF Accounted
<1>3. one \in [size : Nat, local : BOOLEAN]
  BY <1>2
<1>4. /\ al \in Allocs /\ cl \in Allocs /\ cl[a] = one
      /\ \A b \in Alloc \ {a} : cl[b] = al[b]
  BY <1>3 DEF Accounted, Allocs
<1>5. v.total = 0 => ~fits
  BY <1>2
<1>5a. (one.local <=> fits) /\ one.size = bytes
  <2> HIDE DEF fits, bytes
  <2>1. QED
    BY Zenon
<1> HIDE DEF bytes, cl, one
<1>6. CASE fits
  <2>1. VramInUse(cl) = VramInUse(al) + bytes
    <3>1. cl[a].local /\ cl[a].size = bytes
      BY <1>4, <1>5a, <1>6, Zenon
    <3>2. QED
      BY <1>4, <3>1, InUseAdds
  <2>2. u \in [total : {0, Vram}, used : Nat, clean : BOOLEAN] /\ u.total = v.total
        /\ u.used = v.used + bytes /\ u.clean = v.clean
    BY <1>2, <1>6 DEF Accounted
  <2> HIDE DEF u
  <2>3. QED
    BY <1>1, <1>4, <1>5, <1>6, <2>1, <2>2 DEF Accounted
<1>7. CASE ~fits
  <2>1. ~cl[a].local
    BY <1>4, <1>5a, <1>7, Zenon
  <2>2. Local(cl) = Local(al) /\ VramInUse(cl) = VramInUse(al)
    BY <1>4, <2>1, InUseStays
  <2>3. QED
    BY <1>1, <1>4, <1>7, <2>2 DEF Accounted
<1>8. QED
  BY <1>6, <1>7

\* What is given back is taken off.
LEMMA DiscardKeeps ==
  ASSUME AdapterAssumption, NEW v, NEW al, Accounted(v, al), NEW a \in Alloc
  PROVE  /\ Accounted(Discard(v, al, a).vram, Discard(v, al, a).allocs)
         /\ Discard(v, al, a).allocs = [al EXCEPT ![a] = Unused]
<1> DEFINE cl == [al EXCEPT ![a] = Unused]
           u == IF al[a].local /\ v.used >= al[a].size
                THEN [v EXCEPT !.used = v.used - al[a].size] ELSE v
<1>1. Discard(v, al, a).vram = u /\ Discard(v, al, a).allocs = cl
  BY DEF Discard
<1>2. /\ al \in Allocs /\ cl \in Allocs /\ ~cl[a].local /\ al[a].size \in Nat /\ v.used \in Nat
      /\ \A b \in Alloc \ {a} : cl[b] = al[b]
      /\ \A b \in Alloc \ {a} : al[b] = cl[b]
  BY DEF Accounted, Allocs, Unused
<1>3. Local(cl) \subseteq Local(al)
  BY <1>2 DEF Local
<1>4. VramInUse(cl) \in Nat
  BY <1>2, InUseIs
<1>5. u \in [total : {0, Vram}, used : Nat, clean : BOOLEAN] /\ u.total = v.total /\ u.clean = v.clean
  <2>1. v \in [total : {0, Vram}, used : Nat, clean : BOOLEAN]
    BY DEF Accounted
  <2>2. CASE al[a].local /\ v.used >= al[a].size
    <3> DEFINE rest == v.used - al[a].size
    <3>1. u = [v EXCEPT !.used = rest]
      BY <2>2, Zenon
    <3>2. rest \in Nat
      BY <1>2, <2>2
    <3> HIDE DEF u, rest
    <3>3. QED
      BY ONLY <2>1, <3>1, <3>2
  <2>3. CASE ~(al[a].local /\ v.used >= al[a].size)
    <3>1. u = v
      BY <2>3, Zenon
    <3> HIDE DEF u
    <3>2. QED
      BY <2>1, <3>1
  <2>4. QED
    BY <2>2, <2>3
<1> HIDE DEF cl
<1>6. CASE al[a].local
  <2>1. VramInUse(al) = VramInUse(cl) + al[a].size
    BY <1>2, <1>6, InUseAdds
  <2>2. v.clean => u.used = VramInUse(cl)
    BY <1>2, <1>4, <1>6, <2>1 DEF Accounted
  <2> HIDE DEF u
  <2>3. QED
    BY <1>1, <1>2, <1>3, <1>5, <2>2 DEF Accounted, cl
<1>7. CASE ~al[a].local
  <2>1. Local(cl) = Local(al) /\ VramInUse(cl) = VramInUse(al)
    BY <1>2, <1>7, InUseStays
  <2>2. u = v
    BY <1>7
  <2> HIDE DEF u
  <2>3. QED
    BY <1>1, <1>2, <2>1, <2>2 DEF Accounted, cl
<1>8. QED
  BY <1>6, <1>7

\* A call makes one allocation or two, or one that it takes back.
LEMMA CreateAllocationKeeps ==
  AdapterAssumption /\ Accounted(vram, allocs) /\ CreateAllocation => Accounted(vram, allocs)'
<1> SUFFICES ASSUME AdapterAssumption, Accounted(vram, allocs), CreateAllocation
             PROVE  Accounted(vram', allocs')
  OBVIOUS
<1>1. PICK a \in FreeAllocs, s \in Sizes :
        LET one == Place(vram, allocs, a, s) IN
        \/ vram' = one.vram /\ allocs' = one.allocs
        \/ \E b \in FreeAllocs \ {a}, t \in Sizes :
             LET two == Place(one.vram, one.allocs, b, t)
             IN vram' = two.vram /\ allocs' = two.allocs
        \/ LET back == Discard(one.vram, one.allocs, a)
           IN vram' = back.vram /\ allocs' = back.allocs
  BY DEF CreateAllocation
<1> DEFINE v == Place(vram, allocs, a, s).vram
           al == Place(vram, allocs, a, s).allocs
<1>2. s \in Nat /\ Sizes \subseteq Nat
  BY AdapterAssumption
<1>3. a \in Alloc /\ ~allocs[a].local /\ \A b \in FreeAllocs \ {a} : b \in Alloc /\ ~allocs[b].local
  BY DEF FreeAllocs, Unused
<1>4. Accounted(v, al)
  BY <1>2, <1>3, PlaceKeeps
<1>5. \A b \in Alloc \ {a} : al[b] = allocs[b]
  BY <1>3 DEF Place, Accounted, Allocs
<1>6. \/ vram' = v /\ allocs' = al
      \/ \E b \in FreeAllocs \ {a}, t \in Sizes :
           vram' = Place(v, al, b, t).vram /\ allocs' = Place(v, al, b, t).allocs
      \/ vram' = Discard(v, al, a).vram /\ allocs' = Discard(v, al, a).allocs
  BY <1>1
<1> HIDE DEF v, al
<1>7. CASE vram' = v /\ allocs' = al
  BY <1>4, <1>7
<1>8. CASE \E b \in FreeAllocs \ {a}, t \in Sizes :
             vram' = Place(v, al, b, t).vram /\ allocs' = Place(v, al, b, t).allocs
  <2>1. PICK b \in FreeAllocs \ {a}, t \in Sizes :
          vram' = Place(v, al, b, t).vram /\ allocs' = Place(v, al, b, t).allocs
    BY <1>8
  <2>2. b \in Alloc /\ ~al[b].local /\ t \in Nat
    BY <1>2, <1>3, <1>5
  <2>3. Accounted(Place(v, al, b, t).vram, Place(v, al, b, t).allocs)
    BY <1>4, <2>2, PlaceKeeps
  <2>4. QED
    BY <2>1, <2>3
<1>9. CASE vram' = Discard(v, al, a).vram /\ allocs' = Discard(v, al, a).allocs
  <2>1. Accounted(Discard(v, al, a).vram, Discard(v, al, a).allocs)
    BY <1>3, <1>4, DiscardKeeps
  <2>2. QED
    BY <1>9, <2>1
<1>10. QED
  BY <1>6, <1>7, <1>8, <1>9

LEMMA DestroyAllocationKeeps ==
  AdapterAssumption /\ Accounted(vram, allocs) /\ DestroyAllocation => Accounted(vram, allocs)'
<1> SUFFICES ASSUME AdapterAssumption, Accounted(vram, allocs), DestroyAllocation
             PROVE  Accounted(vram', allocs')
  OBVIOUS
<1>1. PICK a \in Alloc : /\ vram' = Discard(vram, allocs, a).vram
                         /\ allocs' = Discard(vram, allocs, a).allocs
  BY DEF DestroyAllocation
<1>2. Accounted(Discard(vram, allocs, a).vram, Discard(vram, allocs, a).allocs)
  BY DiscardKeeps
<1>3. QED
  BY <1>1, <1>2

\* Bring-up sets the count to zero, whatever is allocated.
LEMMA HwInitVramKeeps ==
  ASSUME AdapterAssumption, Accounted(vram, allocs), NEW o
  PROVE  Accounted(HwInitVram(vram, o), allocs)
<1>1. CASE o.kmdod
  BY <1>1 DEF HwInitVram
<1>2. CASE ~o.kmdod
  <2> DEFINE u == [total |-> Vram, used |-> 0, clean |-> vram.clean /\ Local(allocs) = {}]
             clean == vram.clean /\ Local(allocs) = {}
  <2>1. HwInitVram(vram, o) = u
    BY <1>2 DEF HwInitVram
  <2>2. clean \in BOOLEAN
    OBVIOUS
  <2>3. u \in [total : {0, Vram}, used : Nat, clean : BOOLEAN]
    <3> HIDE DEF clean
    <3>1. [total |-> Vram, used |-> 0, clean |-> clean] \in [total : {0, Vram}, used : Nat, clean : BOOLEAN]
      BY <2>2
    <3>2. QED
      BY <3>1, Zenon DEF clean
  <2>4. u.total = Vram /\ u.used = 0 /\ (u.clean <=> clean)
    OBVIOUS
  <2>5. Vram = 0 => Local(allocs) = {}
    BY DEF Accounted
  <2>6. Local(allocs) = {} => VramInUse(allocs) = 0
    BY InUseIs DEF Accounted
  <2> HIDE DEF u
  <2>7. QED
    BY <2>1, <2>3, <2>4, <2>5, <2>6 DEF Accounted, clean
<1>3. QED
  BY <1>1, <1>2

\* Nothing is allocated, nothing is used.
LEMMA UnusedIsAccounted == AdapterAssumption => Accounted(Fresh.vram, [a \in Alloc |-> Unused])
<1> SUFFICES ASSUME AdapterAssumption PROVE Accounted(Fresh.vram, [a \in Alloc |-> Unused])
  OBVIOUS
<1> DEFINE al == [a \in Alloc |-> Unused]
<1>1. al \in Allocs /\ Local(al) = {}
  BY DEF Allocs, Local, Unused
<1> HIDE DEF al
<1>2. VramInUse(al) = 0
  BY <1>1, InUseIs
<1>3. Fresh.vram = [total |-> 0, used |-> 0, clean |-> TRUE]
  BY DEF Fresh
<1>4. Accounted(Fresh.vram, al)
  BY <1>1, <1>2, <1>3 DEF Accounted
<1>5. QED
  BY <1>4 DEF al

LEMMA AccountedNext ==
  AdapterAssumption /\ Accounted(vram, allocs) /\ [Next]_vars => Accounted(vram, allocs)'
<1> SUFFICES ASSUME AdapterAssumption, Accounted(vram, allocs), [Next]_vars
             PROVE  Accounted(vram', allocs')
  OBVIOUS
<1>1. CASE UNCHANGED <<vram, allocs>>
  BY <1>1
<1>2. ASSUME NEW o, vram' = HwInitVram(vram, o), allocs' = allocs PROVE Accounted(vram', allocs')
  BY <1>2, HwInitVramKeeps
<1>3. CASE StartDevice
  <2>1. allocs' = allocs
    BY <1>3 DEF StartDevice, memory
  <2>2. CASE StartFull
    <3>1. PICK o \in Outcomes : vram' = HwInitVram(vram, o)
      BY <2>2 DEF StartFull
    <3>2. QED
      BY <1>2, <2>1, <3>1
  <2>3. CASE StartCompatible
    <3>1. vram' = IF vram.total = 0 THEN [vram EXCEPT !.total = Vram, !.used = 0] ELSE vram
      BY <2>3 DEF StartCompatible
    <3>2. CASE vram.total = 0
      <4>1. vram' = [vram EXCEPT !.total = Vram, !.used = 0]
        BY <3>1, <3>2
      <4>2. /\ vram' \in [total : {0, Vram}, used : Nat, clean : BOOLEAN]
            /\ vram'.used = 0 /\ Local(allocs) = {}
        BY <3>2, <4>1 DEF Accounted
      <4>3. VramInUse(allocs) = 0
        BY <4>2, InUseIs DEF Accounted
      <4>4. QED
        BY <2>1, <4>2, <4>3 DEF Accounted
    <3>3. CASE vram.total # 0
      BY <1>1, <2>1, <3>1, <3>3
    <3>4. QED
      BY <3>2, <3>3
  <2>4. QED
    BY <1>3, <2>2, <2>3 DEF StartDevice
<1>4. CASE ResetDevice
  <2>1. \E o : vram' = HwInitVram(vram, o)
    BY <1>4 DEF ResetDevice
  <2>2. allocs' = allocs
    BY <1>4 DEF ResetDevice, memory
  <2>3. QED
    BY <1>2, <2>1, <2>2
<1>5. CASE RemoveDevice
  <2>1. vram' = Fresh.vram /\ allocs' = [a \in Alloc |-> Unused]
    BY <1>5 DEF RemoveDevice
  <2>2. QED
    BY <2>1, UnusedIsAccounted
<1>6. CASE CreateAllocation
  BY <1>6, CreateAllocationKeeps
<1>7. CASE DestroyAllocation
  BY <1>7, DestroyAllocationKeeps
<1>8. CASE AddDevice \/ StopDevice \/ StopAndRelease \/ CreateContext \/ DestroyContext
             \/ CommitVidPn \/ UNCHANGED vars
  <2>1. UNCHANGED <<vram, allocs>>
    BY <1>8 DEF AddDevice, StopDevice, StopAndRelease, CreateContext, DestroyContext,
                CommitVidPn, memory, vars
  <2>2. QED
    BY <1>1, <2>1
<1>9. QED
  BY <1>3, <1>4, <1>5, <1>6, <1>7, <1>8 DEF Next

-----------------------------------------------------------------------------
(* Theorems about WddmAdapter *)

\* The invariant holds in every state.
LEMMA AdapterInvariant == Spec => [](IInv /\ Accounted(vram, allocs))
<1>1. Init => IInv /\ Accounted(vram, allocs)
  BY AdapterAssumption, InitInv, UnusedIsAccounted DEF Init
<1>2. IInv /\ Accounted(vram, allocs) /\ [Next]_vars => (IInv /\ Accounted(vram, allocs))'
  BY AdapterAssumption, DisplayAssumption, NextInv, AccountedNext
<1>3. QED
  BY <1>1, <1>2, PTL DEF Spec

\* For any pool of blocks, whatever fails in bring-up and however often the
\* device is reset or restarted: no block leaks, none is freed twice and none
\* has two names, but for the failure of the fence page.
THEOREM BlocksOwned == Spec => []RingsOwned
<1>1. IInv => RingsOwned
  BY AdapterAssumption, OwnedIs DEF IInv, Type
<1>2. QED
  BY <1>1, AdapterInvariant, PTL

\* StopDevice and RemoveDevice give back what every path of the others took,
\* but for what a StopDeviceAndReleasePostDisplayOwnership has left and no
\* pointer names any more.
THEOREM StoppedIsEmpty == Spec => []StoppedHoldsNothing
<1>1. IInv => StoppedHoldsNothing
  BY DEF IInv, Type, Quiet, Nothing, StoppedHoldsNothing
<1>2. QED
  BY <1>1, AdapterInvariant, PTL

\* Whichever resources an earlier start had, BAR5 is mapped if it is assigned.
THEOREM Bar5IsMapped == Spec => []MmioIsBar5
<1>1. IInv => MmioIsBar5
  BY DEF IInv
<1>2. QED
  BY <1>1, AdapterInvariant, PTL

\* UsedVramBytes is the sum of what is placed in video memory, for any sizes
\* and any number of allocations, until a bring-up sets it to zero.
THEOREM VramIsAccounted == Spec => []VramAccounted
<1>1. Accounted(vram, allocs) => VramAccounted
  BY DEF Accounted, VramAccounted
<1>2. QED
  BY <1>1, AdapterInvariant, PTL

\* For every display and every table of modes that ascends as the source's
\* does, the modes offered are those that fit; and whichever callback fails, in
\* a set of any size, what was acquired and created is given back.
THEOREM ModesRight == Spec => []ModeSetsRight
<1>1. IInv => ModeSetsRight
  <2> SUFFICES ASSUME IInv PROVE ModeSetsRight
    OBVIOUS
  <2>1. fb.info \in Displays \cup {NoDisplay}
    BY DEF IInv, Type
  <2>2. ModesFit
    BY <2>1, DisplayAssumption, OfferedFits DEF ModesFit
  <2>3. ModeSetsReturned
    <3>1. \A n \in 0..Len(Modes) : n \in Nat
      OBVIOUS
    <3>2. QED
      BY <3>1, EnsureReturns, Zenon DEF ModeSetsReturned
  <2>4. QED
    BY <2>2, <2>3 DEF ModeSetsRight
<1>2. QED
  BY <1>1, AdapterInvariant, PTL

\* Neither Present nor SystemDisplayWrite leaves the framebuffer CommitVidPn has
\* mapped, and the latter draws what of each rectangle is on the screen; and it
\* stays inside also in the mapping a StopDeviceAndReleasePostDisplayOwnership
\* has left to a start with another display.
THEOREM WritesInside == Spec => []FbWritesInside
<1>1. ASSUME IInv, "fb" \in mapped \ kept.maps
      PROVE  /\ PresentBytes <= fb.size
             /\ \A r \in Rects :
                  SystemDisplayWrite(r) = {p \in (0..fb.info.w - 1) \X (0..fb.info.h - 1) :
                                             /\ p[1] \in r.x..r.x + r.w - 1
                                             /\ p[2] \in r.y..r.y + r.h - 1}
  <2>1. /\ fb.info \in Displays /\ fb.size = FbBytes /\ fb.size \in Nat
        /\ FbBytes > 0 /\ FbBytes <= MaxFbBytes
    BY <1>1 DEF IInv, FbWhole, Type
  <2>2. PresentBytes <= fb.size
    BY <2>1 DEF PresentBytes
  <2>3. ASSUME NEW r \in Rects
        PROVE  SystemDisplayWrite(r) = {p \in (0..fb.info.w - 1) \X (0..fb.info.h - 1) :
                                          /\ p[1] \in r.x..r.x + r.w - 1
                                          /\ p[2] \in r.y..r.y + r.h - 1}
    BY <2>1, AdapterAssumption, DisplayAssumption, DrawsClipped
  <2>4. QED
    BY <2>2, <2>3, Zenon
<1>2. IInv => SystemWriteInside
  <2> SUFFICES ASSUME IInv, NEW r \in Rects, NEW p \in SystemDisplayWrite(r)
               PROVE  p[2] * fb.info.pitch + p[1] * 4 + 4 <= fb.size
    BY DEF SystemWriteInside
  <2> DEFINE P == fb.info.pitch
             cX == Clip(r.x, r.w, fb.info.w)
             cY == Clip(r.y, r.h, fb.info.h)
  <2>1. /\ fb.info.w \in 0..Wrap - 1 /\ fb.info.h \in 0..Wrap - 1 /\ P \in 0..Wrap - 1
        /\ fb.size \in Nat /\ Wrap \in Nat \ {0}
    <3>1. fb.info \in Displays \cup {NoDisplay} /\ fb.size \in Nat /\ Wrap \in Nat \ {0}
      BY AdapterAssumption DEF IInv, Type
    <3>2. QED
      BY <3>1, DisplayAssumption DEF NoDisplay
  <2>2. r.x \in 0..Wrap - 1 /\ r.y \in 0..Wrap - 1 /\ r.w \in 0..Wrap - 1 /\ r.h \in 0..Wrap - 1
    <3>1. r \in [x : 0..Wrap - 1, y : 0..Wrap - 1, w : 0..Wrap - 1, h : 0..Wrap - 1]
      BY DisplayAssumption
    <3>2. QED
      BY <3>1
  <2>3. cX \in Nat /\ cY \in Nat
    BY <2>1, <2>2, DisplayAssumption, ClipIs
  <2>4. PICK i \in 0..cX - 1, n \in 0..cY - 1 :
          /\ p = <<r.x + i, r.y + n>>
          /\ \A k \in 0..n : (r.y + k) * P + r.x * 4 + cX * 4 <= fb.size
    BY DEF SystemDisplayWrite
  <2> HIDE DEF cX, cY
  <2>5. (r.y + n) * P + r.x * 4 + cX * 4 <= fb.size
    BY <2>3, <2>4
  <2>6. (r.y + n) * P \in Int
    BY <2>1, <2>2, <2>3, <2>4
  <2> DEFINE L == (r.y + n) * P
  <2>7. p[2] * P = L /\ p[1] = r.x + i
    BY <2>4
  <2> HIDE DEF L
  <2>8. L + r.x * 4 + cX * 4 <= fb.size /\ L \in Int
    BY <2>5, <2>6, Zenon DEF L
  <2>9. L + (r.x + i) * 4 + 4 <= fb.size
    BY <2>1, <2>2, <2>3, <2>4, <2>8
  <2>10. QED
    BY <2>7, <2>9, Zenon DEF P
<1>3. IInv => FbWritesInside
  BY <1>1, <1>2, Zenon DEF FbWritesInside, PresentStaysInFb, SystemWriteClips
<1>4. QED
  BY <1>3, AdapterInvariant, PTL

-----------------------------------------------------------------------------
(* VidMem *)

\* What VidMem assumes of its constants.
VidAssumption == ThreadAssumption /\ MdlAssumption /\ NullAssumption /\ BytesAssumption

LEMMA VidAssumed == VidAssumption
BY ThreadAssumption, MdlAssumption, NullAssumption, BytesAssumption DEF VidAssumption

LEMMA OwnerIs ==
  ASSUME VidAssumption, NEW t \in Thread
  PROVE  ProcOf[t] \in Proc /\ (ProcOf[t] \in Radv => ProcOf[t] \notin D3d)
BY DEF VidAssumption, ThreadAssumption

LEMMA SlotsIs == ASSUME VidAssumption PROVE MdlSlots \in Nat
BY DEF VidAssumption, MdlAssumption

LEMMA NullIs ==
  ASSUME VidAssumption
  PROVE  Null \notin Proc \cup Va \cup Mdl \cup [va : Va, mdl : Mdl]
           \cup [proc : Proc \cup {Null}, va : Va]
           \cup [mdl : Mdl, va : Va, size : BoSizes, local : BOOLEAN]
           \cup [proc : Proc, mdl : Mdl \cup {Null}, handle : Va \cup {Null}, size : BoSizes,
                 local : BOOLEAN, virtual : BOOLEAN, counted : BOOLEAN]
           \cup [op : {"create", "destroy"}, step : {"read", "write"}, bo : Bo, value : Nat]
BY DEF VidAssumption, NullAssumption

LEMMA SizesAre ==
  ASSUME VidAssumption
  PROVE  IsFiniteSet(Bo) /\ BoSizes \subseteq Nat /\ CounterWrap \in Nat \ {0}
BY DEF VidAssumption, BytesAssumption

\* The sums VidMem takes.
LEMMA VidSum ==
  ASSUME NEW of, NEW T
  PROVE  MapThenSumSet(LAMBDA b : of[b].size, T) = Total(of, T)
BY DEF Total

-----------------------------------------------------------------------------
(* VidMem: the inductive invariant *)

Entry == [va : Va, mdl : Mdl]
Mapping == [proc : Proc \cup {Null}, va : Va]
VidCall == [mdl : Mdl, va : Va, size : BoSizes, local : BOOLEAN]
Buffer == [proc : Proc, mdl : Mdl \cup {Null}, handle : Va \cup {Null}, size : BoSizes,
           local : BOOLEAN, virtual : BOOLEAN, counted : BOOLEAN]
Update == [op : {"create", "destroy"}, step : {"read", "write"}, bo : Bo, value : Nat]

VidType ==
  /\ mdlTable \in [1..MdlSlots -> Entry \cup {Null}]
  /\ pages \in [Mdl -> Mapping \cup {Null}]
  /\ call \in [Thread -> VidCall \cup {Null}]
  /\ bo \in [Bo -> Buffer \cup {Null}]
  /\ \A b \in Bo : bo[b] # Null /\ bo[b].handle # Null => bo[b].mdl # Null
  /\ foreign \in BOOLEAN

\* An entry names pages that are allocated, at the address it has for them,
\* and no other entry names them.
Named ==
  \A i \in 1..MdlSlots : mdlTable[i] # Null =>
    /\ pages[mdlTable[i].mdl] # Null
    /\ pages[mdlTable[i].mdl].va = mdlTable[i].va
    /\ \A j \in 1..MdlSlots : mdlTable[j] # Null /\ mdlTable[j].mdl = mdlTable[i].mdl => j = i

\* Pages that are allocated are in the table, on their way to it, or came when
\* it was full.
Placed ==
  \A m \in Mdl : pages[m] # Null =>
    \/ m \in untracked
    \/ \E i \in 1..MdlSlots : mdlTable[i] # Null /\ mdlTable[i].mdl = m
    \/ \E t \in Thread : call[t] # Null /\ call[t].mdl = m

\* A process has no two pages at one address.
Apart ==
  \A m, n \in Mdl :
    pages[m] # Null /\ pages[n] = pages[m] /\ n # m => pages[m].proc = Null

\* The pages of an ALLOC_VIDMEM under way are its process's, in no entry and in
\* no other call.
InCalls ==
  \A t \in Thread : call[t] # Null =>
    /\ pages[call[t].mdl] # Null
    /\ pages[call[t].mdl].proc = ProcOf[t]
    /\ pages[call[t].mdl].va = call[t].va
    /\ \A i \in 1..MdlSlots : mdlTable[i] # Null => mdlTable[i].mdl # call[t].mdl
    /\ \A u \in Thread : call[u] # Null /\ call[u].mdl = call[t].mdl => u = t

\* A buffer with pages.
HasPages(b) == bo[b] # Null /\ bo[b].handle # Null

\* The pages of a buffer are its own.
OwnPages ==
  ~foreign =>
    \A b \in Bo : HasPages(b) =>
      /\ pages[bo[b].mdl] # Null
      /\ pages[bo[b].mdl].proc = bo[b].proc
      /\ pages[bo[b].mdl].va = bo[b].handle
      /\ \A c \in Bo : HasPages(c) /\ bo[c].mdl = bo[b].mdl => c = b
      /\ \A t \in Thread : call[t] # Null => call[t].mdl # bo[b].mdl

VidInv == VidType /\ Named /\ Placed /\ Apart /\ InCalls /\ OwnPages

\* A thread of RADV that is about to change a counter has a buffer of its
\* process for that, which is not in the counter yet, or on its way out of it.
About(t, b) == update[t] # Null /\ update[t].bo = b

Doing(t) ==
  LET b == bo[update[t].bo] IN
  /\ ProcOf[t] \in Radv /\ b # Null /\ b.proc = ProcOf[t]
  /\ update[t].op = "create" => ~b.counted /\ ~b.virtual
  /\ update[t].op = "destroy" => b.handle = Null /\ (b.virtual \/ b.counted)

\* Virtual buffers are in no counter, other buffers of RADV in theirs unless
\* a thread is about to count them.
Counted(b) ==
  bo[b] # Null =>
    /\ bo[b].virtual => ~bo[b].local /\ ~bo[b].counted
    /\ bo[b].proc \in Radv /\ ~bo[b].virtual /\ ~bo[b].counted =>
         \E t \in Thread : About(t, b) /\ update[t].op = "create"

\* A thread that has a call under way has no update.
OneThing == \A t \in Thread : call[t] = Null \/ update[t] = Null

Updates ==
  /\ update \in [Thread -> Update \cup {Null}]
  /\ \A t \in Thread : update[t] # Null => Doing(t)
  /\ \A t, u \in Thread, b \in Bo : About(t, b) /\ About(u, b) => u = t
  /\ \A b \in Bo : Counted(b)

-----------------------------------------------------------------------------
(* VidMem: the table *)

\* FREE_VIDMEM takes one entry with the address out, and its pages with it.
LEMMA FreeEffect ==
  ASSUME VidAssumption, VidType, NEW p, NEW handle, FreeVidMem(p, handle)
  PROVE  \/ UNCHANGED <<mdlTable, pages, foreign>>
         \/ \E i \in 1..MdlSlots :
              /\ mdlTable[i] # Null /\ mdlTable[i].va = handle
              /\ mdlTable' = [mdlTable EXCEPT ![i] = Null]
              /\ pages' = [pages EXCEPT ![mdlTable[i].mdl] = Null]
              /\ foreign' = (foreign \/ pages[mdlTable[i].mdl].proc # p)
<1> DEFINE found == {i \in Entries : mdlTable[i].va = handle}
           first == Min(found)
<1>1. found \in SUBSET (1..MdlSlots)
  BY DEF Entries
<1>2. CASE found = {}
  BY <1>2 DEF FreeVidMem
<1>3. CASE found # {}
  <2>1. first \in found
    <3> HIDE DEF found
    <3>1. QED
      BY <1>1, <1>3, SlotsIs, LeastPlace
  <2>2. /\ mdlTable' = [mdlTable EXCEPT ![first] = Null]
        /\ pages' = [pages EXCEPT ![mdlTable[first].mdl] = Null]
        /\ foreign' = (foreign \/ pages[mdlTable[first].mdl].proc # p)
    BY <1>3 DEF FreeVidMem
  <2>3. first \in 1..MdlSlots /\ mdlTable[first] # Null /\ mdlTable[first].va = handle
    BY <2>1 DEF Entries
  <2> HIDE DEF first
  <2>4. QED
    BY <2>2, <2>3
<1>4. QED
  BY <1>2, <1>3

\* New pages go to a free entry, or nowhere when there is none.
LEMMA EnterEffect ==
  ASSUME VidAssumption, NEW entry, Enter(entry)
  PROVE  \/ mdlTable' = mdlTable /\ untracked' = untracked \cup {entry.mdl}
         \/ \E i \in 1..MdlSlots : /\ mdlTable[i] = Null
                                /\ mdlTable' = [mdlTable EXCEPT ![i] = entry]
                                /\ untracked' = untracked
<1> DEFINE free == (1..MdlSlots) \ Entries
           first == Min(free)
<1>1. CASE Cardinality(Entries) = MdlSlots
  BY <1>1 DEF Enter
<1>2. CASE Cardinality(Entries) # MdlSlots
  <2>1. Cardinality(1..MdlSlots) = MdlSlots
    BY SlotsIs, FS_Interval
  <2>2. Entries # 1..MdlSlots
    BY <1>2, <2>1
  <2>3. free \in SUBSET (1..MdlSlots) /\ free # {}
    BY <2>2 DEF Entries
  <2>4. first \in free
    <3> HIDE DEF free
    <3>1. QED
      BY <2>3, SlotsIs, LeastPlace
  <2>5. first \in 1..MdlSlots /\ mdlTable[first] = Null
    BY <2>4 DEF Entries
  <2>6. mdlTable' = [mdlTable EXCEPT ![first] = entry] /\ untracked' = untracked
    BY <1>2 DEF Enter
  <2> HIDE DEF first
  <2>7. QED
    BY <2>5, <2>6
<1>3. QED
  BY <1>1, <1>2
-----------------------------------------------------------------------------
(* VidMem: every step preserves the invariant *)

\* Steps that leave the memory, the calls and the buffers with pages alone.
LEMMA OthersKeep ==
  ASSUME VidAssumption, VidInv, UNCHANGED <<mdlTable, pages, call, untracked, foreign>>,
         VidType', \A b \in Bo : HasPages(b)' => /\ HasPages(b) /\ bo'[b].mdl = bo[b].mdl
                                                /\ bo'[b].proc = bo[b].proc
                                                /\ bo'[b].handle = bo[b].handle
  PROVE  VidInv'
<1>1. Named' /\ Placed' /\ Apart' /\ InCalls'
  BY DEF VidInv, Named, Placed, Apart, InCalls
<1>2. OwnPages'
  BY DEF VidInv, OwnPages
<1>3. QED
  BY <1>1, <1>2 DEF VidInv

\* A buffer without a handle.
LEMMA PlainKeeps ==
  ASSUME VidAssumption, VidInv, UNCHANGED <<mdlTable, pages, call, untracked, foreign>>,
         NEW b \in Bo, NEW v \in Buffer, v.handle = Null,
         bo[b] = Null, bo' = [bo EXCEPT ![b] = v]
  PROVE  VidInv'
<1>1. VidType'
  BY DEF VidInv, VidType
<1>2. \A c \in Bo : HasPages(c)' => HasPages(c) /\ bo'[c] = bo[c]
  BY DEF VidInv, VidType, HasPages
<1>3. QED
  BY <1>1, <1>2, OthersKeep

\* CreateAfterInit keeps a heap without a handle, or nothing.
LEMMA CreateAfterInitKeeps ==
  ASSUME VidAssumption, VidInv, NEW t \in Thread, CreateAfterInit(t)
  PROVE  VidInv'
<1>1. UNCHANGED <<mdlTable, pages, call, untracked, foreign>>
  BY DEF CreateAfterInit
<1>2. CASE ProcOf[t] \in Radv
  <2>1. bo' = bo
    BY <1>2 DEF CreateAfterInit
  <2>2. QED
    BY <1>1, <2>1, OthersKeep DEF VidInv, VidType, HasPages
<1>3. CASE ProcOf[t] \notin Radv
  <2>1. PICK b \in Bo \ Held, size \in BoSizes :
          bo' = [bo EXCEPT ![b] = [proc |-> ProcOf[t], mdl |-> Null, handle |-> Null,
                   size |-> size, local |-> TRUE, virtual |-> FALSE, counted |-> FALSE]]
    BY <1>3 DEF CreateAfterInit
  <2> DEFINE v == [proc |-> ProcOf[t], mdl |-> Null, handle |-> Null,
                   size |-> size, local |-> TRUE, virtual |-> FALSE, counted |-> FALSE]
  <2>2. v \in Buffer /\ v.handle = Null
    BY OwnerIs DEF Buffer
  <2>3. b \in Bo /\ bo[b] = Null /\ bo' = [bo EXCEPT ![b] = v]
    BY <2>1 DEF Held
  <2> HIDE DEF v
  <2>4. QED
    BY <1>1, <2>2, <2>3, PlainKeeps
<1>4. QED
  BY <1>2, <1>3

\* Nor has a sparse buffer a handle.
LEMMA CreateVirtualKeeps ==
  ASSUME VidAssumption, VidInv, NEW t \in Thread, CreateVirtual(t)
  PROVE  VidInv'
<1>1. UNCHANGED <<mdlTable, pages, call, untracked, foreign>>
  BY DEF CreateVirtual, pool
<1>2. PICK b \in Bo \ Held, size \in BoSizes :
        bo' = [bo EXCEPT ![b] = [proc |-> ProcOf[t], mdl |-> Null, handle |-> Null,
                 size |-> size, local |-> FALSE, virtual |-> TRUE, counted |-> FALSE]]
  BY DEF CreateVirtual
<1> DEFINE v == [proc |-> ProcOf[t], mdl |-> Null, handle |-> Null,
                 size |-> size, local |-> FALSE, virtual |-> TRUE, counted |-> FALSE]
<1>3. v \in Buffer /\ v.handle = Null
  BY OwnerIs DEF Buffer
<1>4. b \in Bo /\ bo[b] = Null /\ bo' = [bo EXCEPT ![b] = v]
  BY <1>2 DEF Held
<1> HIDE DEF v
<1>5. QED
  BY <1>1, <1>3, <1>4, PlainKeeps

\* Pages that were free go to a call that begins.
LEMMA BeginKeeps ==
  ASSUME VidAssumption, VidInv, NEW t \in Thread, Begin(t)
  PROVE  VidInv'
<1>1. PICK size \in BoSizes, local \in BOOLEAN : AllocPages(t, size, local)
  BY DEF Begin
<1>2. PICK p : p = ProcOf[t]
  OBVIOUS
<1>3. PICK m \in Mdl \ Allocated, va \in Va :
        /\ \A n \in Allocated : pages[n] # [proc |-> p, va |-> va]
        /\ pages' = [pages EXCEPT ![m] = [proc |-> p, va |-> va]]
        /\ call' = [call EXCEPT ![t] = [mdl |-> m, va |-> va, size |-> size, local |-> local]]
  BY <1>1, <1>2 DEF AllocPages
<1> DEFINE x == [proc |-> p, va |-> va]
           c == [mdl |-> m, va |-> va, size |-> size, local |-> local]
<1>4. m \in Mdl /\ pages[m] = Null /\ call[t] = Null
  <2>1. m \in Mdl /\ pages[m] = Null
    BY DEF Allocated
  <2>2. Idle(t)
    BY <1>1 DEF AllocPages
  <2>3. QED
    BY <2>1, <2>2 DEF Idle
<1>5. x \in Mapping /\ x # Null /\ x.proc = p /\ x.va = va
  BY <1>2, NullIs, OwnerIs DEF Mapping
<1>6. c \in VidCall /\ c # Null /\ c.mdl = m /\ c.va = va
  BY <1>4, NullIs DEF VidCall
<1>7. \A n \in Mdl : pages[n] # Null => pages[n] # x
  BY <1>3 DEF Allocated
<1>8. pages' = [pages EXCEPT ![m] = x] /\ call' = [call EXCEPT ![t] = c]
  BY <1>3
<1>9. UNCHANGED <<mdlTable, untracked, foreign, bo>>
  BY <1>1 DEF AllocPages, client
<1> HIDE DEF x, c
<1> USE <1>2, <1>4, <1>5, <1>6, <1>8, <1>9 DEF VidInv, VidType
<1>10. VidType'
  OBVIOUS
<1>11. Named'
  BY DEF Named
<1>12. Placed'
  BY DEF Placed
<1>13. Apart'
  BY <1>7 DEF Apart
<1>14. InCalls'
  BY DEF InCalls, Named
<1>15. OwnPages'
  BY DEF OwnPages, HasPages
<1>16. QED
  BY <1>10, <1>11, <1>12, <1>13, <1>14, <1>15

\* The pages of a call go to the table, if it has room, and to a buffer.
LEMMA CreateKeeps ==
  ASSUME VidAssumption, VidInv, NEW t \in Thread, Create(t)
  PROVE  VidInv'
<1>0. PICK p : p = ProcOf[t]
  OBVIOUS
<1> DEFINE c == call[t]
           entry == [va |-> c.va, mdl |-> c.mdl]
<1>1. PICK b \in Bo \ Held :
        bo' = [bo EXCEPT ![b] = [proc |-> p, mdl |-> c.mdl, handle |-> c.va, size |-> c.size,
                                 local |-> c.local, virtual |-> FALSE, counted |-> FALSE]]
  BY <1>0 DEF Create
<1> DEFINE v == [proc |-> p, mdl |-> c.mdl, handle |-> c.va, size |-> c.size,
                 local |-> c.local, virtual |-> FALSE, counted |-> FALSE]
<1>2. c \in VidCall /\ c # Null
  BY DEF Create, VidInv, VidType
<1>3. c.mdl \in Mdl /\ c.va \in Va /\ c.va # Null /\ c.mdl # Null /\ p \in Proc
  BY <1>0, <1>2, NullIs, OwnerIs DEF VidCall
<1>4. entry \in Entry /\ entry # Null /\ entry.va = c.va /\ entry.mdl = c.mdl
  BY <1>3, NullIs DEF Entry
<1>5. v \in Buffer /\ v # Null /\ v.proc = p /\ v.mdl = c.mdl /\ v.handle = c.va
  <2>1. c.size \in BoSizes /\ c.local \in BOOLEAN
    BY <1>2 DEF VidCall
  <2> HIDE DEF c
  <2>2. v \in Buffer
    BY <1>3, <2>1 DEF Buffer
  <2>3. v # Null
    BY <2>2, NullIs DEF Buffer
  <2>4. QED
    BY <2>2, <2>3
<1>6. b \in Bo /\ bo[b] = Null /\ bo' = [bo EXCEPT ![b] = v]
  BY <1>1 DEF Held
<1>7. Enter(entry) /\ call' = [call EXCEPT ![t] = Null] /\ UNCHANGED <<pages, foreign>>
  BY DEF Create
<1> HIDE DEF entry, v
<1>8. \/ mdlTable' = mdlTable /\ untracked' = untracked \cup {c.mdl}
      \/ \E i \in 1..MdlSlots : /\ mdlTable[i] = Null
                             /\ mdlTable' = [mdlTable EXCEPT ![i] = entry]
                             /\ untracked' = untracked
  BY <1>4, <1>7, EnterEffect
<1>9. \A i \in 1..MdlSlots : mdlTable[i] # Null => mdlTable[i].mdl # c.mdl
  BY <1>2 DEF VidInv, InCalls
<1>10. /\ pages[c.mdl] # Null /\ pages[c.mdl].va = c.va /\ pages[c.mdl].proc = p
       /\ \A u \in Thread : call[u] # Null /\ call[u].mdl = c.mdl => u = t
  BY <1>0, <1>2 DEF VidInv, InCalls
<1>11. OwnPages' /\ Apart'
  <2>1. Apart'
    BY <1>7 DEF VidInv, Apart
  <2>2. \A a \in Bo : ~foreign /\ HasPages(a) => bo[a].mdl # c.mdl
    BY <1>2 DEF VidInv, OwnPages
  <2>3. \A a \in Bo : HasPages(a)' => a = b \/ (HasPages(a) /\ bo'[a] = bo[a])
    <3>1. \A a \in Bo \ {b} : bo'[a] = bo[a]
      BY <1>6 DEF VidInv, VidType
    <3>2. QED
      BY <3>1 DEF HasPages
  <2>4. bo'[b] = v
    BY <1>6 DEF VidInv, VidType
  <2>5. \A u \in Thread : call'[u] # Null => call[u] # Null /\ call'[u] = call[u] /\ u # t
    BY <1>7 DEF VidInv, VidType
  <2> HIDE DEF c
  <2>6. OwnPages'
    BY <1>5, <1>7, <1>10, <2>2, <2>3, <2>4, <2>5 DEF VidInv, OwnPages
  <2>7. QED
    BY <2>1, <2>6
<1> HIDE DEF c
<1> USE <1>2, <1>3, <1>4, <1>5, <1>6, <1>7 DEF VidInv, VidType
<1>12. CASE mdlTable' = mdlTable /\ untracked' = untracked \cup {c.mdl}
  <2>1. VidType' /\ Named' /\ InCalls'
    BY <1>12 DEF Named, InCalls
  <2>2. Placed'
    BY <1>12 DEF Placed, c
  <2>3. QED
    BY <1>11, <2>1, <2>2
<1>13. CASE \E i \in 1..MdlSlots : /\ mdlTable[i] = Null
                                /\ mdlTable' = [mdlTable EXCEPT ![i] = entry]
                                /\ untracked' = untracked
  <2>1. PICK i \in 1..MdlSlots : /\ mdlTable[i] = Null
                              /\ mdlTable' = [mdlTable EXCEPT ![i] = entry]
                              /\ untracked' = untracked
    BY <1>13
  <2>2. VidType'
    BY <2>1
  <2>3. Named'
    BY <1>9, <1>10, <2>1 DEF Named
  <2>4. Placed'
    BY <2>1 DEF Placed, c
  <2>5. InCalls'
    BY <1>10, <2>1 DEF InCalls
  <2>6. QED
    BY <1>11, <2>2, <2>3, <2>4, <2>5
<1>14. QED
  BY <1>8, <1>12, <1>13

\* What a destroyed buffer takes with it is its own, or foreign is set.
LEMMA DestroyKeeps ==
  ASSUME VidAssumption, VidInv, NEW t \in Thread, NEW b \in Bo, Destroy(t, b)
  PROVE  VidInv'
<1> DEFINE p == bo[b].proc
           v == [bo[b] EXCEPT !.handle = Null]
<1>1. /\ bo[b] # Null /\ bo' = [bo EXCEPT ![b] = v]
      /\ UNCHANGED <<call, untracked>>
      /\ bo[b] \in Buffer
  BY DEF Destroy, VidInv, VidType
<1>1a. v \in Buffer /\ v.handle = Null
  BY <1>1 DEF Buffer
<1> HIDE DEF v
<1>2. CASE UNCHANGED <<mdlTable, pages, foreign>>
  <2>1. VidType'
    BY <1>1, <1>1a, <1>2 DEF VidInv, VidType
  <2>2. \A a \in Bo : HasPages(a)' => HasPages(a) /\ bo'[a] = bo[a]
    BY <1>1, <1>1a DEF VidInv, VidType, HasPages
  <2>3. QED
    BY <1>1, <1>2, <2>1, <2>2, OthersKeep
<1>3. CASE ~ UNCHANGED <<mdlTable, pages, foreign>>
  <2>1. bo[b].handle # Null /\ FreeVidMem(p, bo[b].handle)
    <3>1. ProcOf[t] = bo[b].proc
      BY DEF Destroy
    <3>2. QED
      BY <1>3, <3>1 DEF Destroy
  <2>2. PICK i \in 1..MdlSlots :
          /\ mdlTable[i] # Null /\ mdlTable[i].va = bo[b].handle
          /\ mdlTable' = [mdlTable EXCEPT ![i] = Null]
          /\ pages' = [pages EXCEPT ![mdlTable[i].mdl] = Null]
          /\ foreign' = (foreign \/ pages[mdlTable[i].mdl].proc # p)
    <3>1. VidType
      BY DEF VidInv
    <3>2. QED
      BY <1>3, <2>1, <3>1, FreeEffect
  <2> DEFINE m == mdlTable[i].mdl
  <2>3. m \in Mdl /\ mdlTable[i] \in Entry
    BY <2>2 DEF VidInv, VidType, Entry
  <2>4. pages[m] # Null /\ pages[m].va = bo[b].handle /\ pages[m] \in Mapping
    BY <2>2, <2>3 DEF VidInv, VidType, Named
  <2>5. /\ mdlTable' = [mdlTable EXCEPT ![i] = Null] /\ pages' = [pages EXCEPT ![m] = Null]
        /\ foreign' = (foreign \/ pages[m].proc # p)
        /\ mdlTable[i] # Null /\ mdlTable[i].mdl = m
    BY <2>2
  <2> HIDE DEF m
  <2>6. ~foreign' => m = bo[b].mdl
    <3> SUFFICES ASSUME ~foreign' PROVE m = bo[b].mdl
      OBVIOUS
    <3>1. ~foreign /\ pages[m].proc = p
      BY <2>5 DEF VidInv, VidType
    <3> DEFINE n == bo[b].mdl
    <3>2. n \in Mdl
      BY <1>1, <2>1 DEF VidInv, VidType, Buffer
    <3>3. pages[n] # Null /\ pages[n].proc = p /\ pages[n].va = bo[b].handle /\ pages[n] \in Mapping
      BY <1>1, <2>1, <3>1, <3>2 DEF VidInv, VidType, OwnPages, HasPages
    <3>4. p # Null
      BY <1>1, NullIs DEF Buffer
    <3> HIDE DEF n
    <3>5. pages[m] = pages[n]
      BY <2>4, <3>1, <3>3 DEF Mapping
    <3>6. m = n
      BY <2>3, <2>4, <3>1, <3>2, <3>4, <3>5 DEF VidInv, Apart
    <3>7. QED
      BY <3>6 DEF n
  <2> USE <1>1, <1>1a, <2>3, <2>4, <2>5 DEF VidInv, VidType
  <2>7. VidType'
    OBVIOUS
  <2>8. Named'
    BY DEF Named
  <2>9. Placed'
    BY DEF Placed, Named
  <2>10. Apart'
    BY DEF Apart
  <2>11. InCalls'
    BY DEF InCalls
  <2>12. OwnPages'
    BY <2>1, <2>6 DEF OwnPages, HasPages
  <2>13. QED
    BY <2>7, <2>8, <2>9, <2>10, <2>11, <2>12
<1>4. QED
  BY <1>2, <1>3

\* A heap goes, its pages stay where they are.
LEMMA CloseHeapKeeps ==
  ASSUME VidAssumption, VidInv, NEW b \in Bo, CloseHeap(b)
  PROVE  VidInv'
<1>1. bo' = [bo EXCEPT ![b] = Null] /\ UNCHANGED <<mdlTable, pages, call, untracked, foreign>>
  BY DEF CloseHeap, pool
<1>2. VidType'
  BY <1>1 DEF VidInv, VidType
<1>3. \A a \in Bo : HasPages(a)' => HasPages(a) /\ bo'[a] = bo[a]
  BY <1>1 DEF VidInv, VidType, HasPages
<1>4. QED
  BY <1>1, <1>2, <1>3, OthersKeep

\* A process takes its buffers with it and leaves its pages to nobody.
LEMMA ExitKeeps ==
  ASSUME VidAssumption, VidInv, NEW p \in Proc, Exit(p)
  PROVE  VidInv'
<1> DEFINE left(m) == [pages[m] EXCEPT !.proc = Null]
<1>1. /\ \A t \in Thread : ProcOf[t] = p => call[t] = Null
      /\ pages' = [m \in Mdl |-> IF pages[m] # Null /\ pages[m].proc = p THEN left(m) ELSE pages[m]]
      /\ bo' = [b \in Bo |-> IF bo[b] # Null /\ bo[b].proc = p THEN Null ELSE bo[b]]
      /\ UNCHANGED <<mdlTable, untracked, foreign, call>>
  BY DEF Exit, Allocated, Held
<1>2. \A m \in Mdl : pages[m] # Null =>
        /\ left(m) \in Mapping /\ left(m) # Null
        /\ left(m).proc = Null /\ left(m).va = pages[m].va
  BY NullIs DEF VidInv, VidType, Mapping
<1>3. p # Null
  BY NullIs
<1> HIDE DEF left
<1> USE <1>1, <1>2, <1>3 DEF VidInv, VidType
<1>4. VidType'
  OBVIOUS
<1>5. Named'
  BY DEF Named, Entry
<1>6. Placed'
  BY DEF Placed
<1>7. Apart'
  BY DEF Apart
<1>8. InCalls'
  BY DEF InCalls, VidCall
<1>9. OwnPages'
  BY DEF OwnPages, HasPages, Buffer
<1>10. QED
  BY <1>4, <1>5, <1>6, <1>7, <1>8, <1>9

\* An unload finds neither calls nor buffers, and frees what the table names.
LEMMA UnloadKeeps ==
  ASSUME VidAssumption, VidInv, Unload
  PROVE  VidInv'
<1>1. /\ \A b \in Bo : bo[b] = Null
      /\ \A t \in Thread : call[t] = Null
      /\ pages' = [m \in Mdl |-> IF m \in Tracked THEN Null ELSE pages[m]]
      /\ mdlTable' = [i \in 1..MdlSlots |-> Null]
      /\ UNCHANGED <<call, bo, untracked, foreign>>
  BY DEF Unload, Held, InFlight, client
<1> USE <1>1 DEF VidInv, VidType
<1>2. VidType'
  OBVIOUS
<1>3. Named' /\ Apart' /\ InCalls'
  BY DEF Named, Apart, InCalls
<1>4. Placed'
  BY DEF Placed, Tracked, Entries
<1>5. OwnPages'
  BY DEF OwnPages, HasPages
<1>6. QED
  BY <1>2, <1>3, <1>4, <1>5

\* A thread that has written a counter has counted its buffer, or is done with it.
LEMMA WriteKeeps ==
  ASSUME VidAssumption, VidInv, Updates, NEW t \in Thread, WriteCounter(t)
  PROVE  VidInv'
<1>1. PICK b : b = update[t].bo
  OBVIOUS
<1>2. /\ update[t] # Null /\ UNCHANGED <<mdlTable, pages, call, untracked, foreign>>
      /\ bo' = [bo EXCEPT ![b] = IF update[t].op = "create" THEN [@ EXCEPT !.counted = TRUE] ELSE Null]
  BY <1>1 DEF WriteCounter, pool
<1>3. b \in Bo /\ bo[b] # Null /\ bo[b] \in Buffer
  BY <1>1, <1>2 DEF Updates, Update, Doing, VidInv, VidType
<1> DEFINE v == [bo[b] EXCEPT !.counted = TRUE]
<1>4. v \in Buffer /\ v.mdl = bo[b].mdl /\ v.proc = bo[b].proc /\ v.handle = bo[b].handle
  BY <1>3 DEF Buffer
<1>5. bo' = [bo EXCEPT ![b] = v] \/ bo' = [bo EXCEPT ![b] = Null]
  BY <1>2
<1> HIDE DEF v
<1>6. VidType'
  BY <1>2, <1>3, <1>4, <1>5 DEF VidInv, VidType
<1>7. \A a \in Bo : HasPages(a)' => /\ HasPages(a) /\ bo'[a].mdl = bo[a].mdl
                                    /\ bo'[a].proc = bo[a].proc /\ bo'[a].handle = bo[a].handle
  BY <1>3, <1>4, <1>5 DEF VidInv, VidType, HasPages
<1>8. QED
  BY <1>2, <1>6, <1>7, OthersKeep

-----------------------------------------------------------------------------
(* VidMem: the updates of the counters *)

\* No step gives a thread both.
LEMMA OneThingNext ==
  ASSUME VidInv, Updates, OneThing, [VMNext]_vmVars
  PROVE  OneThing'
<1> USE DEF VidInv, VidType, Updates, OneThing
<1>1. ASSUME NEW t \in Thread, Begin(t) \/ Create(t) \/ CreateAfterInit(t) \/ CreateVirtual(t)
      PROVE  OneThing'
  <2>1. CASE Begin(t)
    <3>1. PICK size \in BoSizes, local \in BOOLEAN : AllocPages(t, size, local)
      BY <2>1 DEF Begin
    <3>2. Idle(t) /\ update' = update /\ \E c : call' = [call EXCEPT ![t] = c]
      BY <3>1 DEF AllocPages, client
    <3>3. QED
      BY <3>2 DEF Idle
  <2>2. CASE Create(t)
    <3>1. call' = [call EXCEPT ![t] = Null] /\ \A u \in Thread \ {t} : update'[u] = update[u]
      BY <2>2 DEF Create
    <3>2. QED
      BY <3>1
  <2>3. CASE CreateAfterInit(t) \/ CreateVirtual(t)
    BY <2>3 DEF CreateAfterInit, CreateVirtual
  <2>4. QED
    BY <1>1, <2>1, <2>2, <2>3
<1>2. ASSUME NEW t \in Thread,
             ReadCounter(t) \/ WriteCounter(t) \/ \E b \in Bo : Destroy(t, b)
      PROVE  OneThing'
  <2>1. call' = call /\ (Idle(t) \/ update[t] # Null)
    BY <1>2 DEF ReadCounter, WriteCounter, Destroy
  <2>2. \E u : update' = [update EXCEPT ![t] = u]
    BY <1>2 DEF ReadCounter, WriteCounter, Destroy
  <2>3. QED
    BY <2>1, <2>2 DEF Idle
<1>3. ASSUME NEW p \in Proc, Exit(p) PROVE OneThing'
  BY <1>3 DEF Exit
<1>4. CASE InitHardware \/ Unload \/ UNCHANGED vmVars \/ \E b \in Bo : CloseHeap(b)
  BY <1>4 DEF InitHardware, Unload, CloseHeap, vmVars, client
<1>5. QED
  BY <1>1, <1>2, <1>3, <1>4 DEF VMNext

\* Steps that touch neither buffers nor updates.
LEMMA UpdatesSame == ASSUME Updates, UNCHANGED <<bo, update>> PROVE Updates'
BY DEF Updates, Doing, About, Counted

\* A buffer of another driver, or a virtual one, comes without an update.
LEMMA UpdatesPlain ==
  ASSUME VidAssumption, VidInv, Updates, update' = update, NEW b \in Bo, NEW v \in Buffer,
         bo[b] = Null, bo' = [bo EXCEPT ![b] = v],
         v.proc \notin Radv \/ v.virtual, v.virtual => ~v.local /\ ~v.counted
  PROVE  Updates'
<1>1. bo'[b] = v /\ \A a \in Bo \ {b} : bo'[a] = bo[a]
  BY DEF VidInv, VidType
<1>2. \A t \in Thread : update[t] # Null => update[t].bo \in Bo \ {b}
  BY DEF Updates, Doing, Update
<1>3. \A t \in Thread : update'[t] # Null => Doing(t)'
  BY <1>1, <1>2 DEF Updates, Doing
<1>4. \A a \in Bo : Counted(a)'
  BY <1>1 DEF Updates, Counted, About
<1>5. QED
  BY <1>3, <1>4 DEF Updates, About

LEMMA CreateAfterInitUpdates ==
  ASSUME VidAssumption, VidInv, Updates, NEW t \in Thread, CreateAfterInit(t)
  PROVE  Updates'
<1>1. update' = update
  BY DEF CreateAfterInit
<1>2. CASE ProcOf[t] \in Radv
  BY <1>1, <1>2, UpdatesSame DEF CreateAfterInit
<1>3. CASE ProcOf[t] \notin Radv
  <2>1. PICK b \in Bo \ Held, size \in BoSizes :
          bo' = [bo EXCEPT ![b] = [proc |-> ProcOf[t], mdl |-> Null, handle |-> Null,
                   size |-> size, local |-> TRUE, virtual |-> FALSE, counted |-> FALSE]]
    BY <1>3 DEF CreateAfterInit
  <2> DEFINE v == [proc |-> ProcOf[t], mdl |-> Null, handle |-> Null,
                   size |-> size, local |-> TRUE, virtual |-> FALSE, counted |-> FALSE]
  <2>2. v \in Buffer /\ v.proc \notin Radv /\ ~v.virtual
    BY <1>3, OwnerIs DEF Buffer
  <2>3. b \in Bo /\ bo[b] = Null /\ bo' = [bo EXCEPT ![b] = v]
    BY <2>1 DEF Held
  <2> HIDE DEF v
  <2>4. QED
    BY <1>1, <2>2, <2>3, UpdatesPlain
<1>4. QED
  BY <1>2, <1>3

LEMMA CreateVirtualUpdates ==
  ASSUME VidAssumption, VidInv, Updates, NEW t \in Thread, CreateVirtual(t)
  PROVE  Updates'
<1>1. update' = update
  BY DEF CreateVirtual
<1>2. PICK b \in Bo \ Held, size \in BoSizes :
        bo' = [bo EXCEPT ![b] = [proc |-> ProcOf[t], mdl |-> Null, handle |-> Null,
                 size |-> size, local |-> FALSE, virtual |-> TRUE, counted |-> FALSE]]
  BY DEF CreateVirtual
<1> DEFINE v == [proc |-> ProcOf[t], mdl |-> Null, handle |-> Null,
                 size |-> size, local |-> FALSE, virtual |-> TRUE, counted |-> FALSE]
<1>3. v \in Buffer /\ v.virtual /\ ~v.local /\ ~v.counted
  BY OwnerIs DEF Buffer
<1>4. b \in Bo /\ bo[b] = Null /\ bo' = [bo EXCEPT ![b] = v]
  BY <1>2 DEF Held
<1> HIDE DEF v
<1>5. QED
  BY <1>1, <1>3, <1>4, UpdatesPlain

\* A buffer with pages comes with an update if RADV has it.
LEMMA CreateUpdates ==
  ASSUME VidAssumption, VidInv, Updates, NEW t \in Thread, Create(t), update[t] = Null
  PROVE  Updates'
<1>1. PICK p : p = ProcOf[t]
  OBVIOUS
<1> DEFINE c == call[t]
<1>2. PICK b \in Bo \ Held :
        /\ bo' = [bo EXCEPT ![b] = [proc |-> p, mdl |-> c.mdl, handle |-> c.va, size |-> c.size,
                                    local |-> c.local, virtual |-> FALSE, counted |-> FALSE]]
        /\ update' = IF p \in Radv THEN [update EXCEPT ![t] = Pending("create", b)] ELSE update
  BY <1>1 DEF Create
<1> DEFINE v == [proc |-> p, mdl |-> c.mdl, handle |-> c.va, size |-> c.size,
                 local |-> c.local, virtual |-> FALSE, counted |-> FALSE]
           w == Pending("create", b)
<1>3. c \in VidCall /\ p \in Proc
  BY <1>1, OwnerIs DEF Create, VidInv, VidType
<1>4. v \in Buffer /\ v.proc = p /\ ~v.virtual /\ ~v.counted /\ v # Null
  <2>1. c.size \in BoSizes /\ c.local \in BOOLEAN /\ c.mdl \in Mdl /\ c.va \in Va
    BY <1>3 DEF VidCall
  <2> HIDE DEF c
  <2>2. v \in Buffer
    BY <1>3, <2>1 DEF Buffer
  <2>3. QED
    BY <2>2, NullIs DEF Buffer
<1>5. w \in Update /\ w.op = "create" /\ w.bo = b /\ w # Null
  <2>1. w \in Update
    BY DEF Pending, Update
  <2>2. QED
    BY <2>1, NullIs DEF Pending, Update
<1>6. b \in Bo /\ bo[b] = Null /\ bo' = [bo EXCEPT ![b] = v]
  BY <1>2 DEF Held
<1>7. CASE p \notin Radv
  <2>1. update' = update
    BY <1>2, <1>7
  <2> HIDE DEF v
  <2>2. QED
    BY <1>4, <1>6, <1>7, <2>1, UpdatesPlain
<1>8. CASE p \in Radv
  <2>1. update' = [update EXCEPT ![t] = w]
    BY <1>2, <1>8
  <2> HIDE DEF v, w, c
  <2>2. bo'[b] = v /\ \A a \in Bo \ {b} : bo'[a] = bo[a]
    BY <1>6 DEF VidInv, VidType
  <2>3. \A u \in Thread : update[u] # Null => update[u].bo \in Bo \ {b} /\ u # t
    BY <1>6 DEF Updates, Doing, Update
  <2>4. update'[t] = w /\ \A u \in Thread \ {t} : update'[u] = update[u]
    BY <2>1 DEF Updates
  <2>5. update' \in [Thread -> Update \cup {Null}]
    BY <1>5, <2>1 DEF Updates
  <2>6. \A u \in Thread : update'[u] # Null => Doing(u)'
    BY <1>1, <1>4, <1>5, <1>8, <2>2, <2>3, <2>4 DEF Updates, Doing
  <2>7. \A u, x \in Thread, a \in Bo : About(u, a)' /\ About(x, a)' => x = u
    BY <1>5, <2>3, <2>4 DEF Updates, About
  <2>8. \A a \in Bo : Counted(a)'
    <3>1. About(t, b)' /\ update'[t].op = "create"
      BY <1>5, <2>4 DEF About
    <3>2. Counted(b)'
      BY <1>4, <2>2, <3>1 DEF Counted
    <3>3. \A u \in Thread, a \in Bo : About(u, a) => About(u, a)' /\ update'[u] = update[u]
      BY <2>3, <2>4 DEF About
    <3>4. ASSUME NEW a \in Bo \ {b} PROVE Counted(a)'
      BY <2>2, <3>3 DEF Updates, Counted
    <3>5. QED
      BY <3>2, <3>4
  <2>9. QED
    BY <2>5, <2>6, <2>7, <2>8 DEF Updates
<1>9. QED
  BY <1>7, <1>8

\* What is destroyed is counted, or virtual, for nobody is about to count it.
LEMMA DestroyUpdates ==
  ASSUME VidAssumption, VidInv, Updates, NEW t \in Thread, NEW b \in Bo, Destroy(t, b)
  PROVE  Updates'
<1> DEFINE v == [bo[b] EXCEPT !.handle = Null]
           w == Pending("destroy", b)
<1>1. /\ update[t] = Null /\ bo[b] # Null /\ bo[b].proc = ProcOf[t] /\ ProcOf[t] \in Radv
      /\ \A u \in Thread : ~About(u, b)
      /\ bo' = [bo EXCEPT ![b] = v] /\ update' = [update EXCEPT ![t] = w]
      /\ bo[b] \in Buffer
  <2>1. Idle(t) /\ \A u \in Thread : update[u] # Null => update[u].bo # b
    BY DEF Destroy
  <2>2. /\ bo[b] # Null /\ bo[b].proc = ProcOf[t] /\ ProcOf[t] \in Radv
        /\ bo' = [bo EXCEPT ![b] = v] /\ update' = [update EXCEPT ![t] = w]
    BY DEF Destroy
  <2>3. QED
    BY <2>1, <2>2 DEF Idle, About, VidInv, VidType
<1>2. /\ v \in Buffer /\ v.handle = Null /\ v.proc = bo[b].proc /\ v.virtual = bo[b].virtual
      /\ v.counted = bo[b].counted /\ v.local = bo[b].local /\ v # Null
  <2>1. v \in Buffer /\ v.handle = Null /\ v.proc = bo[b].proc /\ v.virtual = bo[b].virtual
        /\ v.counted = bo[b].counted /\ v.local = bo[b].local
    BY <1>1 DEF Buffer
  <2>2. QED
    BY <2>1, NullIs DEF Buffer
<1>3. w \in Update /\ w.op = "destroy" /\ w.bo = b /\ w # Null
  <2>1. w \in Update
    BY DEF Pending, Update
  <2>2. QED
    BY <2>1, NullIs DEF Pending, Update
<1> HIDE DEF v, w
<1>4. bo'[b] = v /\ \A a \in Bo \ {b} : bo'[a] = bo[a]
  BY <1>1 DEF VidInv, VidType
<1>5. update'[t] = w /\ \A u \in Thread \ {t} : update'[u] = update[u]
  BY <1>1 DEF Updates
<1>6. \A u \in Thread : update[u] # Null => update[u].bo \in Bo \ {b} /\ u # t
  BY <1>1 DEF Updates, About, Update
<1>7. bo[b].virtual \/ bo[b].counted
  BY <1>1 DEF Updates, Counted
<1>8. update' \in [Thread -> Update \cup {Null}]
  BY <1>1, <1>3 DEF Updates
<1>9. \A u \in Thread : update'[u] # Null => Doing(u)'
  BY <1>1, <1>2, <1>3, <1>4, <1>5, <1>6, <1>7 DEF Updates, Doing
<1>10. \A u, x \in Thread, a \in Bo : About(u, a)' /\ About(x, a)' => x = u
  BY <1>3, <1>5, <1>6 DEF Updates, About
<1>11. \A a \in Bo : Counted(a)'
  <2>1. \A u \in Thread, a \in Bo : About(u, a) => About(u, a)' /\ update'[u] = update[u]
    BY <1>5, <1>6 DEF About
  <2>2. Counted(b)'
    BY <1>1, <1>2, <1>4, <1>7 DEF Updates, Counted
  <2>3. ASSUME NEW a \in Bo \ {b} PROVE Counted(a)'
    BY <1>4, <2>1 DEF Updates, Counted
  <2>4. QED
    BY <2>2, <2>3
<1>12. QED
  BY <1>8, <1>9, <1>10, <1>11 DEF Updates

\* Reading a counter changes what a thread will write, not to which buffer's end.
LEMMA ReadUpdates ==
  ASSUME VidAssumption, VidInv, Updates, NEW t \in Thread, ReadCounter(t),
         counter \in [Proc -> [vram : Nat, gtt : Nat]]
  PROVE  Updates'
<1>1. PICK n : n = Bytes(ProcOf[t], bo[update[t].bo].local)
  OBVIOUS
<1> DEFINE w == [update[t] EXCEPT !.step = "write", !.value = n]
<1>2. update[t] # Null /\ update' = [update EXCEPT ![t] = w] /\ bo' = bo
  BY <1>1 DEF ReadCounter
<1>3. n \in Nat
  BY <1>1, OwnerIs DEF Bytes
<1>4. update[t] \in Update
  BY <1>2 DEF Updates
<1>5. w \in Update /\ w.op = update[t].op /\ w.bo = update[t].bo /\ w # Null
  <2> DEFINE x == update[t]
             a == "write"
  <2>1. x \in Update /\ a \in {"read", "write"}
    BY <1>4
  <2> HIDE DEF x, a
  <2>2. [x EXCEPT !.step = a, !.value = n] \in Update
    BY <1>3, <2>1 DEF Update
  <2>3. [x EXCEPT !.step = a, !.value = n].op = x.op /\ [x EXCEPT !.step = a, !.value = n].bo = x.bo
    BY <2>1 DEF Update
  <2>4. w = [x EXCEPT !.step = a, !.value = n]
    BY DEF x, a
  <2> HIDE DEF w
  <2>5. w # Null
    BY <2>2, <2>4, NullIs DEF Update
  <2>6. QED
    BY <2>2, <2>3, <2>4, <2>5 DEF x
<1> HIDE DEF w
<1>6. update'[t] = w /\ \A u \in Thread \ {t} : update'[u] = update[u]
  BY <1>2 DEF Updates
<1>7. \A u \in Thread : /\ update'[u] # Null <=> update[u] # Null
                        /\ update[u] # Null => /\ update'[u].bo = update[u].bo
                                              /\ update'[u].op = update[u].op
  BY <1>2, <1>5, <1>6
<1>8. update' \in [Thread -> Update \cup {Null}]
  BY <1>2, <1>5 DEF Updates
<1>9. \A u \in Thread : update'[u] # Null => Doing(u)'
  BY <1>2, <1>7 DEF Updates, Doing
<1>10. \A u \in Thread, a \in Bo : About(u, a)' <=> About(u, a)
  BY <1>7 DEF About
<1>11. \A a \in Bo : Counted(a)'
  BY <1>2, <1>7, <1>10 DEF Updates, Counted, About
<1>12. QED
  BY <1>8, <1>9, <1>10, <1>11 DEF Updates

\* A written counter ends an update: its buffer is counted, or gone.
LEMMA WriteUpdates ==
  ASSUME VidAssumption, VidInv, Updates, NEW t \in Thread, WriteCounter(t)
  PROVE  Updates'
<1>1. PICK b : b = update[t].bo
  OBVIOUS
<1> DEFINE v == [bo[b] EXCEPT !.counted = TRUE]
<1>2. /\ update[t] # Null /\ update' = [update EXCEPT ![t] = Null]
      /\ bo' = [bo EXCEPT ![b] = IF update[t].op = "create" THEN v ELSE Null]
  BY <1>1 DEF WriteCounter
<1>3. b \in Bo /\ bo[b] # Null /\ bo[b] \in Buffer /\ Doing(t) /\ About(t, b)
  BY <1>1, <1>2 DEF Updates, Update, Doing, About, VidInv, VidType
<1>4. v.virtual = bo[b].virtual /\ v.counted
  BY <1>3 DEF Buffer
<1> HIDE DEF v
<1>5. /\ update'[t] = Null /\ \A u \in Thread \ {t} : update'[u] = update[u]
      /\ \A a \in Bo \ {b} : bo'[a] = bo[a]
      /\ bo'[b] = IF update[t].op = "create" THEN v ELSE Null
  BY <1>2, <1>3 DEF Updates, VidInv, VidType
<1>6. \A u \in Thread \ {t} : update[u] # Null => update[u].bo \in Bo \ {b}
  BY <1>3 DEF Updates, About, Update
<1>7. update' \in [Thread -> Update \cup {Null}]
  BY <1>2 DEF Updates
<1>8. \A u \in Thread : update'[u] # Null => Doing(u)'
  BY <1>5, <1>6 DEF Updates, Doing
<1>9. \A u, x \in Thread, a \in Bo : About(u, a)' /\ About(x, a)' => x = u
  BY <1>5 DEF Updates, About
<1>10. \A a \in Bo : Counted(a)'
  <2>1. \A u \in Thread, a \in Bo \ {b} : About(u, a) => About(u, a)' /\ update'[u] = update[u]
    BY <1>3, <1>5 DEF About
  <2>2. Counted(b)'
    <3>1. update[t].op = "create" => ~bo[b].virtual
      BY <1>1, <1>3 DEF Doing
    <3>2. QED
      BY <1>4, <1>5, <3>1 DEF Counted
  <2>3. ASSUME NEW a \in Bo \ {b} PROVE Counted(a)'
    BY <1>5, <2>1 DEF Updates, Counted
  <2>4. QED
    BY <2>2, <2>3
<1>11. QED
  BY <1>7, <1>8, <1>9, <1>10 DEF Updates

\* A process takes its updates with it.
LEMMA ExitUpdates ==
  ASSUME VidAssumption, VidInv, Updates, NEW p \in Proc, Exit(p)
  PROVE  Updates'
<1>1. /\ bo' = [b \in Bo |-> IF bo[b] # Null /\ bo[b].proc = p THEN Null ELSE bo[b]]
      /\ update' = [t \in Thread |-> IF ProcOf[t] = p THEN Null ELSE update[t]]
  BY DEF Exit, Held
<1>2. update' \in [Thread -> Update \cup {Null}]
  BY <1>1 DEF Updates
<1>3. \A t \in Thread : update'[t] # Null => update'[t] = update[t] /\ ProcOf[t] # p
  BY <1>1
<1>4. \A b \in Bo : /\ bo'[b] # Null => bo'[b] = bo[b] /\ bo[b].proc # p
                    /\ bo[b] # Null /\ bo[b].proc # p => bo'[b] = bo[b]
  BY <1>1
<1>5. \A t \in Thread : update'[t] # Null => Doing(t)'
  BY <1>3, <1>4 DEF Updates, Doing, Update
<1>6. \A t, u \in Thread, b \in Bo : About(t, b)' /\ About(u, b)' => u = t
  BY <1>3 DEF Updates, About
<1>7. \A b \in Bo : Counted(b)'
  <2>1. \A t \in Thread, b \in Bo : About(t, b) /\ bo[b].proc # p
                                   => About(t, b)' /\ update'[t] = update[t]
    BY <1>1 DEF Updates, About, Doing
  <2>2. QED
    BY <1>4, <2>1 DEF Updates, Counted
<1>8. QED
  BY <1>2, <1>5, <1>6, <1>7 DEF Updates

\* A heap is in no update.
LEMMA CloseUpdates ==
  ASSUME VidAssumption, VidInv, Updates, NEW b \in Bo, CloseHeap(b)
  PROVE  Updates'
<1>1. bo[b].proc \in D3d /\ bo' = [bo EXCEPT ![b] = Null] /\ update' = update
  BY DEF CloseHeap
<1>2. bo'[b] = Null /\ \A a \in Bo \ {b} : bo'[a] = bo[a]
  BY <1>1 DEF VidInv, VidType
<1>3. \A t \in Thread : update[t] # Null => update[t].bo \in Bo \ {b}
  BY <1>1, OwnerIs DEF Updates, Doing, Update
<1>4. \A t \in Thread : update'[t] # Null => Doing(t)'
  BY <1>1, <1>2, <1>3 DEF Updates, Doing
<1>5. \A a \in Bo : Counted(a)'
  BY <1>1, <1>2 DEF Updates, Counted, About
<1>6. QED
  BY <1>1, <1>4, <1>5 DEF Updates, About

-----------------------------------------------------------------------------
(* Theorems about VidMem *)

VidBooks == counter \in [Proc -> [vram : Nat, gtt : Nat]] /\ owed \in [Proc -> Nat]

\* The counters are numbers.
LEMMA SetIs ==
  ASSUME VidAssumption, counter \in [Proc -> [vram : Nat, gtt : Nat]],
         NEW p \in Proc, NEW local \in BOOLEAN, NEW n \in Int, SetBytes(p, local, n)
  PROVE  /\ counter' \in [Proc -> [vram : Nat, gtt : Nat]]
         /\ \A q \in Proc : q # p => counter'[q] = counter[q]
         /\ local => counter'[p].vram = n % CounterWrap /\ counter'[p].gtt = counter[p].gtt
         /\ ~local => counter'[p].gtt = n % CounterWrap /\ counter'[p].vram = counter[p].vram
<1> DEFINE m == n % CounterWrap
<1>1. m \in Nat
  BY SizesAre
<1>2. CASE local
  <2>1. counter' = [counter EXCEPT ![p] = [counter[p] EXCEPT !.vram = m]]
    BY <1>2 DEF SetBytes
  <2> HIDE DEF m
  <2>2. QED
    BY <1>1, <1>2, <2>1 DEF m
<1>3. CASE ~local
  <2>1. counter' = [counter EXCEPT ![p] = [counter[p] EXCEPT !.gtt = m]]
    BY <1>3 DEF SetBytes
  <2> HIDE DEF m
  <2>2. QED
    BY <1>1, <1>3, <2>1 DEF m
<1>4. QED
  BY <1>2, <1>3

\* What a thread writes.
LEMMA WriteIs ==
  ASSUME VidAssumption, VidInv, Updates, VidBooks, NEW t \in Thread, WriteCounter(t),
         NEW b, b = update[t].bo, NEW p, p = ProcOf[t], NEW v, v = bo[b],
         NEW d, d = Delta(update[t].op, v.size)
  PROVE  /\ b \in Bo /\ v \in Buffer /\ v.proc = p /\ p \in Radv /\ p \in Proc
         /\ v.size \in Nat /\ d \in Int /\ update[t].value \in Nat
         /\ SetBytes(p, v.local, update[t].value + d)
         /\ torn' = IF update[t].value = Bytes(p, v.local) THEN torn ELSE torn \cup {p}
         /\ owed' = IF update[t].op = "destroy" /\ v.virtual
                    THEN [owed EXCEPT ![p] = (@ + v.size) % CounterWrap] ELSE owed
         /\ update[t].op = "create" =>
              /\ ~v.counted /\ d = v.size /\ bo' = [bo EXCEPT ![b] = [v EXCEPT !.counted = TRUE]]
         /\ update[t].op # "create" =>
              /\ update[t].op = "destroy" /\ d = -v.size /\ bo' = [bo EXCEPT ![b] = Null]
<1>1. update[t] \in Update /\ Doing(t)
  BY DEF WriteCounter, Updates
<1>2. b \in Bo /\ v \in Buffer /\ v.proc = p /\ p \in Radv /\ p \in Proc /\ v # Null
  BY <1>1, OwnerIs DEF Update, Doing, VidInv, VidType
<1>3. v.size \in Nat /\ d \in Int
  BY <1>2, SizesAre DEF Buffer, Delta
<1>4. /\ SetBytes(p, v.local, update[t].value + d)
      /\ torn' = IF update[t].value = Bytes(p, v.local) THEN torn ELSE torn \cup {p}
      /\ owed' = IF update[t].op = "destroy" /\ v.virtual
                 THEN [owed EXCEPT ![p] = (@ + v.size) % CounterWrap] ELSE owed
      /\ bo' = [bo EXCEPT ![b] = IF update[t].op = "create" THEN [v EXCEPT !.counted = TRUE] ELSE Null]
  BY DEF WriteCounter
<1>5. update[t].op \in {"create", "destroy"} /\ update[t].value \in Nat
  BY <1>1 DEF Update
<1>6. update[t].op = "create" => ~v.counted /\ d = v.size
  BY <1>1 DEF Doing, Delta
<1>7. update[t].op # "create" => d = -v.size
  BY DEF Delta
<1>8. QED
  BY <1>2, <1>3, <1>4, <1>5, <1>6, <1>7

LEMMA OwedIs ==
  ASSUME VidAssumption, NEW n \in Nat, NEW k \in Nat
  PROVE  (n + k) % CounterWrap \in Nat
<1>1. n + k \in Nat /\ CounterWrap \in Nat \ {0}
  BY SizesAre
<1>2. QED
  BY ONLY <1>1

LEMMA VidBooksNext ==
  ASSUME VidAssumption, VidInv, Updates, VidBooks, [VMNext]_vmVars
  PROVE  VidBooks'
<1>1. ASSUME NEW t \in Thread, WriteCounter(t) PROVE VidBooks'
  <2>1. PICK b, p, v, d : b = update[t].bo /\ p = ProcOf[t] /\ v = bo[b]
                          /\ d = Delta(update[t].op, v.size)
    OBVIOUS
  <2>2. /\ p \in Proc /\ v.size \in Nat /\ d \in Int /\ update[t].value \in Nat
        /\ SetBytes(p, v.local, update[t].value + d) /\ v.local \in BOOLEAN
        /\ \/ owed' = [owed EXCEPT ![p] = (@ + v.size) % CounterWrap]
           \/ owed' = owed
    BY <1>1, <2>1, WriteIs DEF Buffer
  <2>3. update[t].value + d \in Int
    BY <2>2
  <2>4. counter' \in [Proc -> [vram : Nat, gtt : Nat]]
    BY <2>2, <2>3, SetIs DEF VidBooks
  <2>5. owed' \in [Proc -> Nat]
    <3>1. (owed[p] + v.size) % CounterWrap \in Nat
      BY <2>2, OwedIs DEF VidBooks
    <3>2. QED
      BY <2>2, <3>1 DEF VidBooks
  <2>6. QED
    BY <2>4, <2>5 DEF VidBooks
<1>2. ASSUME NEW p \in Proc, Exit(p) PROVE VidBooks'
  BY <1>2 DEF Exit, VidBooks, Empty
<1>3. ASSUME UNCHANGED counts PROVE VidBooks'
  BY <1>3 DEF VidBooks, counts
<1>4. CASE \E t \in Thread : \/ Begin(t) \/ Create(t) \/ CreateAfterInit(t) \/ CreateVirtual(t)
                            \/ ReadCounter(t) \/ \E b \in Bo : Destroy(t, b)
  BY <1>3, <1>4 DEF Begin, AllocPages, Create, CreateAfterInit, CreateVirtual, ReadCounter, Destroy,
                    client, counts
<1>5. CASE InitHardware \/ Unload \/ UNCHANGED vmVars \/ \E b \in Bo : CloseHeap(b)
  BY <1>3, <1>5 DEF InitHardware, Unload, CloseHeap, vmVars, client, counts
<1>6. QED
  BY <1>1, <1>2, <1>4, <1>5 DEF VMNext

VidAll == VidInv /\ OneThing /\ Updates /\ VidBooks

\* The inductive invariant holds in every state.
LEMMA VidInvariant == VMSpec => []VidAll
<1> USE VidAssumed
<1>1. VMInit => VidAll
  <2> SUFFICES ASSUME VMInit PROVE VidAll
    OBVIOUS
  <2>1. VidInv
    BY DEF VMInit, VidInv, VidType, Named, Placed, Apart, InCalls, OwnPages, HasPages
  <2>2. Updates /\ OneThing
    BY DEF VMInit, Updates, OneThing, About, Counted
  <2>3. VidBooks
    BY DEF VMInit, VidBooks, Empty
  <2>4. QED
    BY <2>1, <2>2, <2>3 DEF VidAll
<1>2. VidAll /\ [VMNext]_vmVars => VidAll'
  <2> SUFFICES ASSUME VidInv, OneThing, Updates, VidBooks, [VMNext]_vmVars
               PROVE  VidInv' /\ Updates'
    BY VidBooksNext, OneThingNext DEF VidAll
  <2>1. CASE UNCHANGED vmVars \/ InitHardware
    <3>1. UNCHANGED <<mdlTable, pages, call, bo, update, untracked, foreign>>
      BY <2>1 DEF vmVars, InitHardware, pool, client
    <3>2. QED
      BY <3>1, OthersKeep, UpdatesSame DEF VidInv, VidType, HasPages
  <2>2. CASE Unload
    <3>1. UNCHANGED <<bo, update>>
      BY <2>2 DEF Unload, client
    <3>2. QED
      BY <2>2, <3>1, UnloadKeeps, UpdatesSame
  <2>3. ASSUME NEW t \in Thread, Begin(t) PROVE VidInv' /\ Updates'
    <3>1. UNCHANGED <<bo, update>>
      BY <2>3 DEF Begin, AllocPages, client
    <3>2. QED
      BY <2>3, <3>1, BeginKeeps, UpdatesSame
  <2>4. ASSUME NEW t \in Thread, Create(t) PROVE VidInv' /\ Updates'
    <3>1. update[t] = Null
      BY <2>4 DEF Create, OneThing
    <3>2. QED
      BY <2>4, <3>1, CreateKeeps, CreateUpdates
  <2>5. ASSUME NEW t \in Thread, CreateAfterInit(t) PROVE VidInv' /\ Updates'
    BY <2>5, CreateAfterInitKeeps, CreateAfterInitUpdates
  <2>6. ASSUME NEW t \in Thread, CreateVirtual(t) PROVE VidInv' /\ Updates'
    BY <2>6, CreateVirtualKeeps, CreateVirtualUpdates
  <2>7. ASSUME NEW t \in Thread, ReadCounter(t) PROVE VidInv' /\ Updates'
    <3>1. UNCHANGED <<mdlTable, pages, call, bo, untracked, foreign>>
      BY <2>7 DEF ReadCounter, pool
    <3>2. VidInv'
      BY <3>1, OthersKeep DEF VidInv, VidType, HasPages
    <3>3. QED
      BY <2>7, <3>2, ReadUpdates DEF VidBooks
  <2>8. ASSUME NEW t \in Thread, WriteCounter(t) PROVE VidInv' /\ Updates'
    BY <2>8, WriteKeeps, WriteUpdates
  <2>9. ASSUME NEW t \in Thread, NEW b \in Bo, Destroy(t, b) PROVE VidInv' /\ Updates'
    BY <2>9, DestroyKeeps, DestroyUpdates
  <2>10. ASSUME NEW p \in Proc, Exit(p) PROVE VidInv' /\ Updates'
    BY <2>10, ExitKeeps, ExitUpdates
  <2>11. ASSUME NEW b \in Bo, CloseHeap(b) PROVE VidInv' /\ Updates'
    BY <2>11, CloseHeapKeeps, CloseUpdates
  <2>12. QED
    BY <2>1, <2>2, <2>3, <2>4, <2>5, <2>6, <2>7, <2>8, <2>9, <2>10, <2>11 DEF VMNext
<1>3. QED
  BY <1>1, <1>2, PTL DEF VMSpec

\* For tables of every size: pages that are given out are in the table once, or
\* came when it was full, and the table names none that have been freed.
THEOREM TableIsRight == VMSpec => []TableTracks
<1> USE VidAssumed
<1>1. VidInv => TableTracks
  BY DEF VidInv, VidType, Entry, Named, Placed, TableTracks, Entries, Tracked, Allocated, InFlight
<1>2. VidAll => VidInv
  BY DEF VidAll
<1>3. QED
  BY <1>1, <1>2, VidInvariant, PTL

\* A buffer keeps its pages, at its handle, until it is destroyed, as long as no
\* process has freed another one's under the same address.
THEOREM BuffersBacked == VMSpec => []BoBacked
<1> USE VidAssumed
<1>1. VidInv => BoBacked
  <2> SUFFICES ASSUME VidInv, ~foreign, NEW b \in Bo, HasPages(b)
               PROVE  pages[bo[b].mdl] = [proc |-> bo[b].proc, va |-> bo[b].handle]
    BY DEF BoBacked, Held, HasPages
  <2>1. bo[b].mdl \in Mdl /\ pages[bo[b].mdl] \in Mapping \cup {Null}
    BY DEF VidInv, VidType, HasPages, Buffer
  <2>2. /\ pages[bo[b].mdl] # Null /\ pages[bo[b].mdl].proc = bo[b].proc
        /\ pages[bo[b].mdl].va = bo[b].handle
    BY DEF VidInv, OwnPages
  <2>3. QED
    BY <2>1, <2>2 DEF Mapping
<1>2. VidAll => VidInv
  BY DEF VidAll
<1>3. QED
  BY <1>1, <1>2, VidInvariant, PTL

-----------------------------------------------------------------------------
(* VidMem: the counters *)

Objects == [Bo -> Buffer \cup {Null}]

\* The buffers of p in video memory, or outside it, that are counted; and what
\* they take.
Of(v, p, local) == v.proc = p /\ v.counted /\ v.local = local
Holds(x, p, local) == {b \in Bo : x[b] # Null /\ Of(x[b], p, local)}
Takes(x, p, local) == Total(x, Holds(x, p, local))

\* A counter agrees with it, but for the virtual buffers that were destroyed.
Agrees(p) ==
  /\ counter[p].vram = Takes(bo, p, TRUE) % CounterWrap
  /\ (counter[p].gtt + owed[p]) % CounterWrap = Takes(bo, p, FALSE) % CounterWrap

\* They do in every process that has lost no update.
Books == \A p \in Radv \ torn : Agrees(p)

LEMMA AccountingIs == Accounting <=> \A p \in Radv \ torn : Agrees(p)
<1> DEFINE S(p, local) == {b \in Held : bo[b].proc = p /\ bo[b].counted /\ bo[b].local = local}
           V(p, local) == MapThenSumSet(LAMBDA b : bo[b].size, S(p, local))
<1>1. ASSUME NEW p, NEW local PROVE V(p, local) = Takes(bo, p, local)
  <2>1. S(p, local) = Holds(bo, p, local)
    BY DEF Held, Holds, Of
  <2>2. V(p, local) = Total(bo, S(p, local))
    BY VidSum
  <2>3. QED
    BY <2>1, <2>2, Zenon DEF Takes
<1>2. Accounting <=>
        \A p \in Radv \ torn : /\ counter[p].vram = V(p, TRUE) % CounterWrap
                        /\ (counter[p].gtt + owed[p]) % CounterWrap = V(p, FALSE) % CounterWrap
  BY Zenon DEF Accounting
<1> HIDE DEF V
<1>3. QED
  BY <1>1, <1>2, Zenon DEF Agrees

\* What buffers take is a number; it depends on those that are counted.
LEMMA TakesIs ==
  ASSUME VidAssumption, NEW x \in Objects, NEW p, NEW local
  PROVE  /\ Sized(x, Holds(x, p, local)) /\ Takes(x, p, local) \in Nat
         /\ Holds(x, p, local) = {} => Takes(x, p, local) = 0
<1>1. IsFiniteSet(Bo) /\ BoSizes \subseteq Nat
  BY SizesAre
<1>2. IsFiniteSet(Holds(x, p, local))
  BY <1>1, FS_Subset DEF Holds
<1>3. Sized(x, Holds(x, p, local))
  BY <1>1, <1>2 DEF Sized, Holds, Objects, Buffer
<1>4. QED
  BY <1>3, TotalNat DEF Takes

LEMMA TakesSame ==
  ASSUME VidAssumption, NEW x \in Objects, NEW y \in Objects, NEW p, NEW local,
         Holds(y, p, local) = Holds(x, p, local), \A b \in Holds(x, p, local) : y[b].size = x[b].size
  PROVE  Takes(y, p, local) = Takes(x, p, local)
<1>1. Sized(x, Holds(x, p, local)) /\ \A b \in Holds(x, p, local) : x[b].size = y[b].size
  BY TakesIs
<1>2. Total(x, Holds(x, p, local)) = Total(y, Holds(x, p, local))
  BY ONLY <1>1, TotalSame
<1>3. QED
  BY <1>2 DEF Takes

\* One buffer more.
LEMMA TakesAdds ==
  ASSUME VidAssumption, NEW x \in Objects, NEW y \in Objects, NEW b \in Bo, NEW v \in Buffer,
         x[b] = Null \/ ~x[b].counted, y[b] = v, \A c \in Bo \ {b} : y[c] = x[c], NEW p, NEW local
  PROVE  /\ Takes(x, p, local) \in Nat /\ v.size \in Nat
         /\ Of(v, p, local) => Takes(y, p, local) = Takes(x, p, local) + v.size
         /\ ~Of(v, p, local) => Takes(y, p, local) = Takes(x, p, local)
<1> DEFINE T == Holds(x, p, local)
           U == Holds(y, p, local)
<1>1. b \notin T /\ \A c \in T : y[c] = x[c] /\ c # b
  BY DEF Holds, Of
<1>2. v # Null
  BY NullIs DEF Buffer
<1>3. CASE Of(v, p, local)
  <2>1. U = T \cup {b}
    BY <1>2, <1>3 DEF Holds, Of
  <2>2. Sized(x, T) /\ Sized(y, U)
    BY TakesIs
  <2> HIDE DEF T, U
  <2>3. Total(x, T) = Total(y, T)
    <3>1. Sized(x, T) /\ \A c \in T : x[c].size = y[c].size
      BY <1>1, <2>2
    <3>2. QED
      BY ONLY <3>1, TotalSame
  <2>4. Total(y, T \cup {b}) = Total(y, T) + y[b].size
    <3>1. Sized(y, T \cup {b}) /\ b \notin T
      BY <1>1, <2>1, <2>2
    <3>2. QED
      BY ONLY <3>1, TotalAdds, Zenon
  <2>5. Takes(y, p, local) = Takes(x, p, local) + v.size
    BY <2>1, <2>3, <2>4 DEF Takes, T, U
  <2>6. QED
    BY <1>3, <2>5, TakesIs, SizesAre DEF Buffer
<1>4. CASE ~Of(v, p, local)
  <2>1. U = T
    BY <1>4 DEF Holds, Of
  <2>2. Takes(y, p, local) = Takes(x, p, local)
    BY <1>1, <2>1, TakesSame
  <2>3. QED
    BY <1>4, <2>2, TakesIs, SizesAre DEF Buffer
<1>5. QED
  BY <1>3, <1>4

\* The counters of a process and the buffers it counts change together.
LEMMA AgreesOn ==
  ASSUME VidAssumption, NEW p \in Radv, Agrees(p), NEW d \in Int,
         counter[p] \in [vram : Nat, gtt : Nat], owed[p] \in Nat,
         Takes(bo, p, TRUE) \in Nat, Takes(bo, p, FALSE) \in Nat
  PROVE  /\ (counter[p].vram + d) % CounterWrap = (Takes(bo, p, TRUE) + d) % CounterWrap
         /\ (((counter[p].gtt + d) % CounterWrap) + owed[p]) % CounterWrap
              = (Takes(bo, p, FALSE) + d) % CounterWrap
         /\ (((counter[p].gtt + d) % CounterWrap) + ((owed[p] - d) % CounterWrap)) % CounterWrap
              = Takes(bo, p, FALSE) % CounterWrap
<1> DEFINE n == CounterWrap
           v == counter[p].vram
           c == counter[p].gtt
           e == owed[p]
           s == Takes(bo, p, TRUE)
           t == Takes(bo, p, FALSE)
<1>1. /\ n \in Nat \ {0} /\ v \in Int /\ c \in Int /\ e \in Int /\ s \in Int /\ t \in Int
      /\ v = s % n /\ (c + e) % n = t % n
  <2>1. n \in Nat \ {0} /\ v \in Int /\ c \in Int /\ e \in Int /\ s \in Int /\ t \in Int
    <3>1. n \in Nat \ {0}
      BY SizesAre
    <3>2. /\ counter[p].vram \in Nat /\ counter[p].gtt \in Nat /\ owed[p] \in Nat
          /\ Takes(bo, p, TRUE) \in Nat /\ Takes(bo, p, FALSE) \in Nat
      OBVIOUS
    <3>3. \A x \in Nat : x \in Int
      OBVIOUS
    <3>4. QED
      BY <3>1, <3>2, <3>3, Zenon
  <2>2. v = s % n /\ (c + e) % n = t % n
    BY Zenon DEF Agrees
  <2>3. QED
    BY <2>1, <2>2, Zenon
<1> HIDE DEF n, v, c, e, s, t
<1>2. (v + d) % n = (s + d) % n
  BY <1>1, CountedUp
<1>3. /\ (((c + d) % n) + e) % n = (t + d) % n
      /\ (((c + d) % n) + ((e - d) % n)) % n = t % n
  <2>1. Stands(n, c, e, t)
    BY <1>1 DEF Stands
  <2>2. Counts(n, c, e, t, d)
    BY <2>1, CountedOn, Zenon
  <2>3. QED
    BY <2>2, Zenon DEF Counts
<1>4. QED
  BY <1>2, <1>3, Zenon DEF n, v, c, e, s, t

\* A buffer that is, or becomes, part of what RADV has counted.
InBooks(v) == v # Null /\ v.proc \in Radv /\ v.counted

\* Steps that change neither the counters nor what is counted.
LEMMA BooksKept ==
  ASSUME VidAssumption, VidInv, VidInv', Books, UNCHANGED counts,
         \A b \in Bo : InBooks(bo[b]) \/ InBooks(bo'[b]) =>
           /\ bo[b] # Null /\ bo'[b] # Null
           /\ bo'[b].proc = bo[b].proc /\ bo'[b].counted = bo[b].counted
           /\ bo'[b].local = bo[b].local /\ bo'[b].size = bo[b].size
  PROVE  Books'
<1> DEFINE y == bo'
<1>1. bo \in Objects /\ y \in Objects
  BY DEF VidInv, VidType, Objects
<1>2. \A b \in Bo : InBooks(bo[b]) \/ InBooks(y[b]) =>
           /\ bo[b] # Null /\ y[b] # Null
           /\ y[b].proc = bo[b].proc /\ y[b].counted = bo[b].counted
           /\ y[b].local = bo[b].local /\ y[b].size = bo[b].size
  OBVIOUS
<1> HIDE DEF y
<1>3. ASSUME NEW q \in Radv, Agrees(q) PROVE Agrees(q)'
  <2>1. ASSUME NEW local PROVE Takes(y, q, local) = Takes(bo, q, local)
    <3>1. \A b \in Holds(bo, q, local) \cup Holds(y, q, local) :
            b \in Bo /\ (InBooks(bo[b]) \/ InBooks(y[b]))
      BY <1>3 DEF Holds, Of, InBooks
    <3>2. Holds(y, q, local) = Holds(bo, q, local)
      BY <1>2, <3>1 DEF Holds, Of
    <3>3. \A b \in Holds(bo, q, local) : y[b].size = bo[b].size
      BY <1>2, <3>1
    <3>4. QED
      BY <1>1, <3>2, <3>3, TakesSame
  <2>2. Takes(bo', q, TRUE) = Takes(bo, q, TRUE) /\ Takes(bo', q, FALSE) = Takes(bo, q, FALSE)
    BY <2>1, Zenon DEF y
  <2>3. counter' = counter /\ owed' = owed
    BY DEF counts
  <2>4. QED
    BY <1>3, <2>2, <2>3, Zenon DEF Agrees
<1>4. torn' = torn
  BY DEF counts
<1>5. QED
  BY <1>3, <1>4 DEF Books

\* A buffer comes uncounted, or loses its handle.
LEMMA ClientBooks ==
  ASSUME VidAssumption, VidInv, VidInv', Books, NEW t \in Thread,
         \/ Create(t) \/ CreateAfterInit(t) \/ CreateVirtual(t)
         \/ \E b \in Bo : Destroy(t, b)
  PROVE  Books'
<1>1. UNCHANGED counts
  BY DEF Create, CreateAfterInit, CreateVirtual, Destroy
<1>2. bo' \in Objects /\ bo \in Objects
  BY DEF VidInv, VidType, Objects
<1>3. CASE Create(t) \/ CreateAfterInit(t) \/ CreateVirtual(t)
  <2> DEFINE Comes == \E b \in Bo : bo[b] = Null /\ \E v : bo' = [bo EXCEPT ![b] = v] /\ ~v.counted
  <2>1. bo' = bo \/ Comes
    <3>1. ASSUME Create(t) PROVE Comes
      <4>1. PICK b \in Bo \ Held :
              bo' = [bo EXCEPT ![b] = [proc |-> ProcOf[t], mdl |-> call[t].mdl, handle |-> call[t].va,
                       size |-> call[t].size, local |-> call[t].local, virtual |-> FALSE,
                       counted |-> FALSE]]
        BY <3>1 DEF Create
      <4>2. PICK v : v = [proc |-> ProcOf[t], mdl |-> call[t].mdl, handle |-> call[t].va,
                      size |-> call[t].size, local |-> call[t].local, virtual |-> FALSE,
                      counted |-> FALSE]
        OBVIOUS
      <4>3. ~v.counted
        BY <4>2
      <4>4. b \in Bo /\ bo[b] = Null /\ bo' = [bo EXCEPT ![b] = v]
        BY <4>1, <4>2 DEF Held
      <4>5. QED
        BY <4>3, <4>4, Zenon
    <3>2. ASSUME CreateAfterInit(t), bo' # bo PROVE Comes
      <4>1. PICK b \in Bo \ Held, size \in BoSizes :
              bo' = [bo EXCEPT ![b] = [proc |-> ProcOf[t], mdl |-> Null, handle |-> Null,
                       size |-> size, local |-> TRUE, virtual |-> FALSE, counted |-> FALSE]]
        BY <3>2 DEF CreateAfterInit
      <4>2. PICK v : v = [proc |-> ProcOf[t], mdl |-> Null, handle |-> Null,
                      size |-> size, local |-> TRUE, virtual |-> FALSE, counted |-> FALSE]
        OBVIOUS
      <4>3. ~v.counted
        BY <4>2
      <4>4. b \in Bo /\ bo[b] = Null /\ bo' = [bo EXCEPT ![b] = v]
        BY <4>1, <4>2 DEF Held
      <4>5. QED
        BY <4>3, <4>4, Zenon
    <3>3. ASSUME CreateVirtual(t) PROVE Comes
      <4>1. PICK b \in Bo \ Held, size \in BoSizes :
              bo' = [bo EXCEPT ![b] = [proc |-> ProcOf[t], mdl |-> Null, handle |-> Null,
                       size |-> size, local |-> FALSE, virtual |-> TRUE, counted |-> FALSE]]
        BY <3>3 DEF CreateVirtual
      <4>2. PICK v : v = [proc |-> ProcOf[t], mdl |-> Null, handle |-> Null,
                      size |-> size, local |-> FALSE, virtual |-> TRUE, counted |-> FALSE]
        OBVIOUS
      <4>3. ~v.counted
        BY <4>2
      <4>4. b \in Bo /\ bo[b] = Null /\ bo' = [bo EXCEPT ![b] = v]
        BY <4>1, <4>2 DEF Held
      <4>5. QED
        BY <4>3, <4>4, Zenon
    <3>4. QED
      BY <1>3, <3>1, <3>2, <3>3
  <2>2. \A b \in Bo : bo'[b] = bo[b] \/ (bo[b] = Null /\ ~bo'[b].counted)
    BY <1>2, <2>1 DEF Objects
  <2>3. QED
    BY <1>1, <2>2, BooksKept DEF InBooks
<1>4. ASSUME NEW b \in Bo, Destroy(t, b) PROVE Books'
  <2>1. bo[b] # Null /\ bo' = [bo EXCEPT ![b] = [bo[b] EXCEPT !.handle = Null]]
    BY <1>4 DEF Destroy
  <2>2. bo[b] \in Buffer
    BY <2>1 DEF VidInv, VidType
  <2> DEFINE v == [bo[b] EXCEPT !.handle = Null]
  <2>3. /\ v \in Buffer /\ v.proc = bo[b].proc /\ v.counted = bo[b].counted
        /\ v.local = bo[b].local /\ v.size = bo[b].size
    BY <2>2 DEF Buffer
  <2>4. v # Null
    BY <2>3, NullIs DEF Buffer
  <2>5. bo' = [bo EXCEPT ![b] = v]
    BY <2>1
  <2> HIDE DEF v
  <2>6. bo'[b] = v /\ \A a \in Bo \ {b} : bo'[a] = bo[a]
    BY <1>2, <2>5 DEF Objects
  <2>7. QED
    BY <1>1, <2>1, <2>3, <2>4, <2>6, BooksKept DEF InBooks
<1>5. QED
  BY <1>3, <1>4

\* A heap is not in the books.
LEMMA CloseBooks ==
  ASSUME VidAssumption, VidInv, VidInv', Books, NEW b \in Bo, CloseHeap(b)
  PROVE  Books'
<1>1. bo[b].proc \notin Radv /\ bo' = [bo EXCEPT ![b] = Null] /\ UNCHANGED counts
  BY DEF CloseHeap, VidAssumption, ThreadAssumption
<1>2. bo'[b] = Null /\ \A a \in Bo \ {b} : bo'[a] = bo[a]
  BY <1>1 DEF VidInv, VidType
<1>3. QED
  BY <1>1, <1>2, BooksKept DEF InBooks

\* A written counter follows what is counted, unless another update came
\* between; a virtual buffer is taken off the wrong counter: that is owed.
LEMMA WriteBooks ==
  ASSUME VidAssumption, VidInv, VidInv', Updates, VidBooks, Books, NEW t \in Thread, WriteCounter(t)
  PROVE  Books'
<1>0. PICK b, p, v, d, op : /\ b = update[t].bo /\ p = ProcOf[t] /\ v = bo[b]
                            /\ d = Delta(update[t].op, v.size) /\ op = update[t].op
  OBVIOUS
<1> DEFINE y == bo'
           n == update[t].value
           gone == op = "destroy" /\ v.virtual
<1>1. /\ b \in Bo /\ v \in Buffer /\ v.proc = p /\ p \in Radv /\ p \in Proc
      /\ v.size \in Nat /\ d \in Int /\ n \in Nat
      /\ SetBytes(p, v.local, n + d)
      /\ torn' = IF n = Bytes(p, v.local) THEN torn ELSE torn \cup {p}
      /\ owed' = IF gone THEN [owed EXCEPT ![p] = (@ + v.size) % CounterWrap] ELSE owed
      /\ op = "create" =>
           /\ ~v.counted /\ d = v.size /\ bo' = [bo EXCEPT ![b] = [v EXCEPT !.counted = TRUE]]
      /\ op # "create" =>
           /\ op = "destroy" /\ d = -v.size /\ bo' = [bo EXCEPT ![b] = Null]
  <2>1. WriteCounter(t) /\ t \in Thread
    OBVIOUS
  <2>2. /\ b \in Bo /\ v \in Buffer /\ v.proc = p /\ p \in Radv /\ p \in Proc
        /\ v.size \in Nat /\ d \in Int /\ update[t].value \in Nat
        /\ SetBytes(p, v.local, update[t].value + d)
    BY <1>0, <2>1, WriteIs
  <2>3. /\ torn' = IF update[t].value = Bytes(p, v.local) THEN torn ELSE torn \cup {p}
        /\ owed' = IF update[t].op = "destroy" /\ v.virtual
                   THEN [owed EXCEPT ![p] = (@ + v.size) % CounterWrap] ELSE owed
    BY <1>0, <2>1, WriteIs
  <2>4. /\ update[t].op = "create" =>
             /\ ~v.counted /\ d = v.size /\ bo' = [bo EXCEPT ![b] = [v EXCEPT !.counted = TRUE]]
        /\ update[t].op # "create" =>
             /\ update[t].op = "destroy" /\ d = -v.size /\ bo' = [bo EXCEPT ![b] = Null]
    <3>1. bo' = [bo EXCEPT ![b] = IF op = "create" THEN [v EXCEPT !.counted = TRUE] ELSE Null]
      BY <1>0 DEF WriteCounter
    <3>2. op \in {"create", "destroy"} /\ Doing(t)
      BY <1>0 DEF WriteCounter, Updates, Update
    <3>3. QED
      BY <1>0, <3>1, <3>2 DEF Doing, Delta
  <2>5. QED
    BY <1>0, <2>2, <2>3, <2>4, Zenon
<1>2. /\ op = "create" => ~v.virtual
      /\ op = "destroy" => v.virtual \/ v.counted
      /\ v.virtual => ~v.local /\ ~v.counted
      /\ v # Null /\ v.local \in BOOLEAN /\ v.virtual \in BOOLEAN /\ v.counted \in BOOLEAN
  <2>1. Doing(t) /\ Counted(b)
    BY <1>1 DEF Updates, WriteCounter
  <2>2. v \in Buffer
    BY <1>1
  <2>3. QED
    BY <1>0, <2>1, <2>2 DEF Doing, Counted, Buffer
<1>3. bo \in Objects /\ y \in Objects /\ bo[b] = v
  BY <1>0 DEF VidInv, VidType, Objects
<1>4. \A q, local :
        /\ Takes(bo, q, local) \in Nat /\ Takes(y, q, local) \in Nat
        /\ q = p /\ v.local = local /\ ~gone => Takes(y, q, local) = Takes(bo, q, local) + d
        /\ q # p \/ v.local # local \/ gone => Takes(y, q, local) = Takes(bo, q, local)
  <2> TAKE q, local
  <2>1. Takes(bo, q, local) \in Nat /\ Takes(y, q, local) \in Nat
    BY <1>3, TakesIs
  <2>2. CASE op = "create"
    <3> DEFINE w == [v EXCEPT !.counted = TRUE]
    <3>1. w \in Buffer /\ w.proc = p /\ w.counted /\ w.local = v.local /\ w.size = v.size
      BY <1>1 DEF Buffer
    <3>2. y = [bo EXCEPT ![b] = w]
      BY <1>1, <2>2
    <3> HIDE DEF w, y
    <3>3. y[b] = w /\ (\A c \in Bo \ {b} : y[c] = bo[c]) /\ ~bo[b].counted
      BY <1>1, <1>3, <2>2, <3>2 DEF Objects
    <3>4. /\ Of(w, q, local) => Takes(y, q, local) = Takes(bo, q, local) + w.size
          /\ ~Of(w, q, local) => Takes(y, q, local) = Takes(bo, q, local)
      <4>1. bo \in Objects /\ y \in Objects /\ b \in Bo /\ w \in Buffer
        BY <1>1, <1>3, <3>1
      <4>2. QED
        BY ONLY VidAssumption, <4>1, <3>3, TakesAdds
    <3>5. Of(w, q, local) <=> q = p /\ v.local = local
      BY <3>1 DEF Of
    <3>6. w.size = d /\ ~gone
      BY <1>1, <2>2, <3>1
    <3>7. QED
      BY <2>1, <3>4, <3>5, <3>6
  <2>3. CASE op # "create"
    <3>1. y = [bo EXCEPT ![b] = Null] /\ d = -v.size /\ op = "destroy"
      BY <1>1, <2>3
    <3> HIDE DEF y
    <3>2. y[b] = Null /\ \A c \in Bo \ {b} : bo[c] = y[c]
      BY <1>1, <1>3, <3>1 DEF Objects
    <3>3. /\ Of(v, q, local) => Takes(bo, q, local) = Takes(y, q, local) + v.size
          /\ ~Of(v, q, local) => Takes(bo, q, local) = Takes(y, q, local)
      <4>1. bo \in Objects /\ y \in Objects /\ b \in Bo /\ v \in Buffer /\ bo[b] = v
        BY <1>1, <1>3
      <4>2. QED
        BY ONLY VidAssumption, <4>1, <3>2, TakesAdds
    <3>4. Of(v, q, local) <=> q = p /\ v.local = local /\ ~gone
      BY <1>1, <1>2, <3>1 DEF Of
    <3>5. v.size \in Nat
      BY <1>1
    <3>6. QED
      BY <2>1, <3>1, <3>3, <3>4, <3>5
  <2>4. QED
    BY <2>2, <2>3
<1> HIDE DEF y, n, gone
<1>5. counter \in [Proc -> [vram : Nat, gtt : Nat]] /\ owed \in [Proc -> Nat] /\ n + d \in Int
  BY <1>1 DEF VidBooks
<1>6. /\ counter' \in [Proc -> [vram : Nat, gtt : Nat]]
      /\ \A q \in Proc : q # p => counter'[q] = counter[q]
      /\ v.local => counter'[p].vram = (n + d) % CounterWrap /\ counter'[p].gtt = counter[p].gtt
      /\ ~v.local => counter'[p].gtt = (n + d) % CounterWrap /\ counter'[p].vram = counter[p].vram
  BY <1>1, <1>2, <1>5, SetIs
<1>7. /\ \A q \in Proc : q # p => owed'[q] = owed[q]
      /\ gone => owed'[p] = (owed[p] + v.size) % CounterWrap
      /\ ~gone => owed'[p] = owed[p]
  BY <1>1, <1>5
<1>8. ASSUME NEW q \in Radv \ torn', q # p PROVE Agrees(q)'
  <2>1. q \in Proc /\ Agrees(q)
    BY <1>1, <1>8 DEF Books, Proc
  <2>2. counter'[q] = counter[q] /\ owed'[q] = owed[q]
    BY <1>6, <1>7, <1>8, <2>1
  <2>3. Takes(bo', q, TRUE) = Takes(bo, q, TRUE) /\ Takes(bo', q, FALSE) = Takes(bo, q, FALSE)
    BY <1>4, <1>8, Zenon DEF y
  <2>4. QED
    BY <2>1, <2>2, <2>3, Zenon DEF Agrees
<1>9. ASSUME p \notin torn' PROVE Agrees(p)'
  <2>1. n = Bytes(p, v.local) /\ Agrees(p)
    BY <1>1, <1>9 DEF Books
  <2>2. /\ counter[p] \in [vram : Nat, gtt : Nat] /\ owed[p] \in Nat
        /\ Takes(bo, p, TRUE) \in Nat /\ Takes(bo, p, FALSE) \in Nat
    BY <1>1, <1>4, <1>5
  <2>3. /\ (counter[p].vram + d) % CounterWrap = (Takes(bo, p, TRUE) + d) % CounterWrap
        /\ (((counter[p].gtt + d) % CounterWrap) + owed[p]) % CounterWrap
             = (Takes(bo, p, FALSE) + d) % CounterWrap
        /\ (((counter[p].gtt + d) % CounterWrap) + ((owed[p] - d) % CounterWrap)) % CounterWrap
             = Takes(bo, p, FALSE) % CounterWrap
    BY <1>1, <2>1, <2>2, AgreesOn
  <2>4. Agrees(p)' <=>
          /\ counter'[p].vram = Takes(y, p, TRUE) % CounterWrap
          /\ (counter'[p].gtt + owed'[p]) % CounterWrap = Takes(y, p, FALSE) % CounterWrap
    BY DEF Agrees, y
  <2>5. /\ counter[p].vram = Takes(bo, p, TRUE) % CounterWrap
        /\ (counter[p].gtt + owed[p]) % CounterWrap = Takes(bo, p, FALSE) % CounterWrap
    BY <2>1, Zenon DEF Agrees
  <2>6. CASE v.local
    <3>1. ~gone
      BY <1>2, <2>6 DEF gone
    <3>2. /\ Takes(y, p, TRUE) = Takes(bo, p, TRUE) + d
          /\ Takes(y, p, FALSE) = Takes(bo, p, FALSE)
      BY <1>2, <1>4, <2>6, <3>1
    <3>3. /\ counter'[p].vram = (counter[p].vram + d) % CounterWrap
          /\ counter'[p].gtt = counter[p].gtt /\ owed'[p] = owed[p]
      BY <1>6, <1>7, <2>1, <2>6, <3>1 DEF Bytes
    <3>4. QED
      BY <2>3, <2>4, <2>5, <3>2, <3>3, Zenon
  <2>7. CASE ~v.local /\ ~gone
    <3>1. /\ Takes(y, p, FALSE) = Takes(bo, p, FALSE) + d
          /\ Takes(y, p, TRUE) = Takes(bo, p, TRUE)
      BY <1>2, <1>4, <2>7
    <3>2. /\ counter'[p].gtt = (counter[p].gtt + d) % CounterWrap
          /\ counter'[p].vram = counter[p].vram /\ owed'[p] = owed[p]
      BY <1>6, <1>7, <2>1, <2>7 DEF Bytes
    <3>3. QED
      BY <2>3, <2>4, <2>5, <3>1, <3>2, Zenon
  <2>8. CASE ~v.local /\ gone
    <3>1. /\ Takes(y, p, FALSE) = Takes(bo, p, FALSE)
          /\ Takes(y, p, TRUE) = Takes(bo, p, TRUE)
      BY <1>4, <2>8
    <3>2. owed[p] - d = owed[p] + v.size
      BY <1>1, <2>2, <2>8 DEF gone
    <3>3. /\ counter'[p].gtt = (counter[p].gtt + d) % CounterWrap
          /\ counter'[p].vram = counter[p].vram
          /\ owed'[p] = (owed[p] + v.size) % CounterWrap
      BY <1>6, <1>7, <2>1, <2>8 DEF Bytes
    <3>4. QED
      BY <2>3, <2>4, <2>5, <3>1, <3>2, <3>3, Zenon
  <2>9. QED
    BY <2>6, <2>7, <2>8
<1>10. QED
  BY <1>8, <1>9 DEF Books

\* A process that ends takes its buffers and its counters with it.
LEMMA ExitBooks ==
  ASSUME VidAssumption, VidInv, VidInv', VidBooks, Books, NEW p \in Proc, Exit(p)
  PROVE  Books'
<1> DEFINE y == bo'
<1>1. /\ y = [b \in Bo |-> IF bo[b] # Null /\ bo[b].proc = p THEN Null ELSE bo[b]]
      /\ counter' = [counter EXCEPT ![p] = [vram |-> 0, gtt |-> 0]]
      /\ owed' = [owed EXCEPT ![p] = 0] /\ torn' = torn \ {p}
  BY DEF Exit, Held, Empty
<1>2. bo \in Objects /\ y \in Objects
  BY DEF VidInv, VidType, Objects
<1>3. /\ counter' \in [Proc -> [vram : Nat, gtt : Nat]] /\ owed' \in [Proc -> Nat]
      /\ counter'[p] = [vram |-> 0, gtt |-> 0] /\ owed'[p] = 0
      /\ \A q \in Proc \ {p} : counter'[q] = counter[q] /\ owed'[q] = owed[q]
  BY <1>1 DEF VidBooks
<1>4. \A b \in Bo : y[b] # Null => y[b] = bo[b] /\ y[b].proc # p
  BY <1>1
<1>5. \A b \in Bo : bo[b] # Null /\ bo[b].proc # p => y[b] = bo[b]
  BY <1>1
<1> HIDE DEF y
<1>6. ASSUME NEW q \in Radv \ torn', q # p PROVE Agrees(q)'
  <2>1. ASSUME NEW local PROVE Takes(y, q, local) = Takes(bo, q, local)
    <3>1. Holds(y, q, local) = Holds(bo, q, local) /\ \A b \in Holds(bo, q, local) : y[b] = bo[b]
      BY <1>4, <1>5, <1>6 DEF Holds, Of
    <3>2. QED
      BY <1>2, <3>1, TakesSame
  <2>2. Agrees(q) /\ counter'[q] = counter[q] /\ owed'[q] = owed[q]
    BY <1>1, <1>3, <1>6 DEF Books, Proc
  <2>3. Takes(bo', q, TRUE) = Takes(bo, q, TRUE) /\ Takes(bo', q, FALSE) = Takes(bo, q, FALSE)
    BY <2>1, Zenon DEF y
  <2>4. QED
    BY <2>2, <2>3, Zenon DEF Agrees
<1>7. ASSUME p \in Radv PROVE Agrees(p)'
  <2>1. ASSUME NEW local PROVE Takes(y, p, local) = 0
    <3>1. Holds(y, p, local) = {}
      BY <1>4 DEF Holds, Of
    <3>2. QED
      BY <1>2, <3>1, TakesIs
  <2>2. Takes(bo', p, TRUE) = 0 /\ Takes(bo', p, FALSE) = 0
    BY <2>1, Zenon DEF y
  <2>3. 0 % CounterWrap = 0 /\ 0 + 0 = 0
    BY SizesAre
  <2>4. counter'[p].vram = 0 /\ counter'[p].gtt = 0 /\ owed'[p] = 0
    BY <1>3
  <2>5. QED
    BY <2>2, <2>3, <2>4, Zenon DEF Agrees
<1>8. QED
  BY <1>6, <1>7 DEF Books

\* The counters of every RADV process in which no update was lost are what its
\* counted buffers take, for any sizes, any number of buffers and threads and any
\* width of the counters, but for the virtual buffers that were destroyed.
THEOREM CountersAgree == VMSpec => []Accounting
<1> USE VidAssumed
<1>1. VMInit => Books
  <2> SUFFICES ASSUME VMInit PROVE Books
    OBVIOUS
  <2>1. /\ counter = [p \in Proc |-> [vram |-> 0, gtt |-> 0]]
        /\ owed = [p \in Proc |-> 0] /\ bo = [b \in Bo |-> Null]
    BY DEF VMInit, Empty
  <2>2. ASSUME NEW p \in Radv PROVE Agrees(p)
    <3>1. ASSUME NEW local PROVE Takes(bo, p, local) = 0
      <4>1. bo \in Objects /\ Holds(bo, p, local) = {}
        BY <2>1 DEF Objects, Holds, Of
      <4>2. QED
        BY <4>1, TakesIs
    <3>2. Takes(bo, p, TRUE) = 0 /\ Takes(bo, p, FALSE) = 0
      BY <3>1, Zenon
    <3>3. 0 % CounterWrap = 0 /\ 0 + 0 = 0
      BY SizesAre
    <3>4. counter[p].vram = 0 /\ counter[p].gtt = 0 /\ owed[p] = 0
      BY <2>1, <2>2 DEF Proc
    <3>5. QED
      BY <3>2, <3>3, <3>4, Zenon DEF Agrees
  <2>3. QED
    BY <2>2 DEF Books
<1>2. VidAll /\ VidAll' /\ Books /\ [VMNext]_vmVars => Books'
  <2> SUFFICES ASSUME VidInv, VidInv', Updates, VidBooks, Books, [VMNext]_vmVars PROVE Books'
    BY DEF VidAll
  <2>1. ASSUME UNCHANGED <<bo, counts>> PROVE Books'
    <3>1. bo' = bo /\ counter' = counter /\ owed' = owed /\ torn' = torn
      BY <2>1 DEF counts
    <3>2. ASSUME NEW p \in Radv \ torn PROVE Agrees(p)'
      BY <3>1, Zenon DEF Books, Agrees
    <3>3. QED
      BY <3>1, <3>2 DEF Books
  <2>2. CASE UNCHANGED vmVars \/ InitHardware \/ Unload
    <3>1. UNCHANGED <<bo, counts>>
      BY <2>2 DEF vmVars, counts, InitHardware, Unload, client
    <3>2. QED
      BY <2>1, <3>1
  <2>3. CASE \E t \in Thread : Begin(t) \/ ReadCounter(t)
    <3>1. UNCHANGED <<bo, counts>>
      BY <2>3 DEF Begin, AllocPages, ReadCounter, client
    <3>2. QED
      BY <2>1, <3>1
  <2>4. ASSUME NEW t \in Thread, WriteCounter(t) PROVE Books'
    BY <2>4, WriteBooks
  <2>5. ASSUME NEW p \in Proc, Exit(p) PROVE Books'
    BY <2>5, ExitBooks
  <2>6. ASSUME NEW t \in Thread,
               \/ Create(t) \/ CreateAfterInit(t) \/ CreateVirtual(t)
               \/ \E b \in Bo : Destroy(t, b)
        PROVE  Books'
    BY <2>6, ClientBooks
  <2>7. ASSUME NEW b \in Bo, CloseHeap(b) PROVE Books'
    BY <2>7, CloseBooks
  <2>8. QED
    BY <2>2, <2>3, <2>4, <2>5, <2>6, <2>7 DEF VMNext
<1>3. Books => Accounting
  BY AccountingIs DEF Books
<1>4. QED
  BY <1>1, <1>2, <1>3, VidInvariant, PTL DEF VMSpec

=============================================================================
