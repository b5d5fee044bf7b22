--------------------------- MODULE NaturalsLemmas ---------------------------
(***************************************************************************)
(* Induction over the naturals for a set, not an operator, so that the     *)
(* provers can use it, and what follows from it: least and greatest        *)
(* elements, and that what recursive definitions define exists.            *)
(***************************************************************************)
EXTENDS Integers, FiniteSetsExt, WellFoundedInduction, TLAPS

\* A set that has 0, and the successor of each natural it has, has them all.
THEOREM SetInduction ==
  ASSUME NEW S, 0 \in S, \A n \in Nat : n \in S => n + 1 \in S
  PROVE  \A n \in Nat : n \in S
<1>. DEFINE T == Nat \ S
            R == OpToRel(<, Nat)
<1>1. SUFFICES ASSUME T # {}  PROVE FALSE
  OBVIOUS
<1>2. IsWellFoundedOn(R, Nat)
  BY Zenon, NatLessThanWellFounded
<1>3. T \subseteq Nat
  OBVIOUS
<1>4. ASSUME NEW x \in Nat, NEW y \in Nat, y < x  PROVE <<y, x>> \in R
  BY <1>4, Zenon DEF OpToRel
<1>. HIDE DEF R, T
<1>5. PICK x \in T : \A y \in T : <<y, x>> \notin R
  BY <1>1, <1>2, <1>3, WFMin
<1>6. x \in Nat /\ x \notin S
  BY DEF T
<1>7. x # 0
  BY <1>6
<1>8. x - 1 \in Nat /\ x - 1 < x /\ (x - 1) + 1 = x
  BY <1>6, <1>7
<1>9. x - 1 \in T
  BY <1>6, <1>8 DEF T
<1>. QED  BY <1>4, <1>5, <1>6, <1>8, <1>9

\* A set of naturals that is not empty has a least element, and Min is it.
THEOREM LeastNatural ==
  ASSUME NEW S, S \subseteq Nat, S # {}
  PROVE  Min(S) \in S /\ \A y \in S : Min(S) <= y
<1>. DEFINE B == {n \in Nat : \A y \in S : n <= y}
<1>1. \E x \in S : \A y \in S : x <= y
  <2>. SUFFICES ASSUME \A x \in S : \E y \in S : y < x  PROVE FALSE
    OBVIOUS
  <2>1. 0 \in B
    OBVIOUS
  <2>2. ASSUME NEW n \in Nat, n \in B  PROVE n + 1 \in B
    <3>1. n \notin S
      BY <2>2
    <3>. QED  BY <2>2, <3>1
  <2>. HIDE DEF B
  <2>3. \A n \in Nat : n \in B
    BY <2>1, <2>2, SetInduction
  <2>4. PICK x \in S : TRUE
    OBVIOUS
  <2>5. x + 1 \in B
    BY <2>3
  <2>. QED  BY <2>5 DEF B
<1>. QED  BY <1>1 DEF Min

\* A bounded set of naturals that is not empty has a greatest element, and Max is it.
THEOREM GreatestNatural ==
  ASSUME NEW n \in Nat, NEW S, S \subseteq 0..n, S # {}
  PROVE  Max(S) \in S /\ \A y \in S : y <= Max(S)
<1>. DEFINE T == {n - x : x \in S}
            x == n - Min(T)
<1>1. \A y \in S : y \in 0..n
  OBVIOUS
<1>2. T \subseteq Nat /\ T # {} /\ \A t \in T : n - t \in S
  <2>1. \A y \in S : n - y \in Nat /\ n - (n - y) = y
    BY <1>1
  <2>. QED  BY <2>1
<1>3. \A y \in S : n - y \in T
  OBVIOUS
<1>. HIDE DEF T
<1>4. Min(T) \in T /\ \A t \in T : Min(T) <= t
  BY <1>2, LeastNatural
<1>5. x \in S
  BY <1>2, <1>4
<1>6. \A y \in S : y <= x
  <2>. TAKE y \in S
  <2>1. Min(T) \in Nat /\ Min(T) <= n - y /\ y \in 0..n
    BY <1>1, <1>2, <1>3, <1>4
  <2>. QED  BY <2>1
<1>. HIDE DEF x
<1>7. \E m \in S : \A y \in S : m >= y
  BY <1>1, <1>5, <1>6
<1>8. Max(S) \in S /\ \A y \in S : Max(S) >= y
  BY <1>7 DEF Max
<1>. QED  BY <1>1, <1>8

\* From the place behind a sequence of length L to the first.
THEOREM DownInduction ==
  ASSUME NEW L \in Nat, NEW S,
         \A i \in 1..(L + 1) : (\A k \in (i + 1)..(L + 1) : k \in S) => i \in S
  PROVE  \A i \in 1..(L + 1) : i \in S
<1>. DEFINE U == {n \in Nat : \A i \in 1..(L + 1) : L + 1 - i <= n => i \in S}
<1>1. 0 \in U
  <2>1. \A i \in 1..(L + 1) : L + 1 - i <= 0 => i = L + 1
    OBVIOUS
  <2>2. L + 1 \in 1..(L + 1) /\ \A k \in ((L + 1) + 1)..(L + 1) : k \in S
    OBVIOUS
  <2>3. L + 1 \in S
    BY <2>2
  <2>. QED  BY <2>1, <2>3
<1>2. ASSUME NEW n \in Nat, n \in U  PROVE n + 1 \in U
  <2>1. ASSUME NEW i \in 1..(L + 1), L + 1 - i <= n + 1  PROVE i \in S
    <3>1. \A k \in (i + 1)..(L + 1) : k \in 1..(L + 1) /\ L + 1 - k <= n
      BY <2>1
    <3>. QED  BY <1>2, <3>1
  <2>. QED  BY <2>1
<1>. HIDE DEF U
<1>3. \A n \in Nat : n \in U
  BY <1>1, <1>2, SetInduction
<1>4. \A i \in 1..(L + 1) : L + 1 - i \in Nat /\ L + 1 - i <= L + 1 - i
  OBVIOUS
<1>. QED  BY <1>3, <1>4 DEF U

\* Values of D given one after the other, each by those before it: G[n][f] is the n-th
\* value if those before it are f's.
Recursion(D, G) ==
  /\ G \in [Nat -> [[Nat -> D] -> D]]
  /\ \A n \in Nat : \A f, g \in [Nat -> D] :
       (\A k \in 0..(n - 1) : f[k] = g[k]) => G[n][f] = G[n][g]

Solution(D, G, f) == f \in [Nat -> D] /\ \A n \in Nat : f[n] = G[n][f]

\* They are a function.
THEOREM RecursionExists ==
  ASSUME NEW D, D # {}, NEW G, Recursion(D, G)
  PROVE  \E f : Solution(D, G, f)
<1>0. PICK d : d \in D
  OBVIOUS
<1>. DEFINE F == [Nat -> D]
            Solves(f, n) == f \in F /\ \A k \in 0..n : f[k] = G[k][f]
            S == {n \in Nat : \E f : Solves(f, n)}
<1>1. \A n \in Nat : \A f \in F : G[n][f] \in D
  BY DEF Recursion
<1>2. \A n \in Nat : \A f, g \in F : (\A k \in 0..(n - 1) : f[k] = g[k]) => G[n][f] = G[n][g]
  BY DEF Recursion
<1>3. ASSUME NEW f \in F, NEW n \in Nat, \A k \in 0..(n - 1) : f[k] = G[k][f]
      PROVE  \E g : Solves(g, n)
  <2>. DEFINE g == [k \in Nat |-> IF k = n THEN G[n][f] ELSE f[k]]
  <2>1. g \in F /\ g[n] = G[n][f] /\ \A k \in Nat : k # n => g[k] = f[k]
    BY <1>1
  <2>. HIDE DEF g, F
  <2>2. ASSUME NEW k \in 0..n  PROVE g[k] = G[k][g]
    <3>1. k \in Nat /\ \A j \in 0..(k - 1) : j \in Nat /\ j # n
      OBVIOUS
    <3>2. \A j \in 0..(k - 1) : f[j] = g[j]
      BY <2>1, <3>1
    <3>3. G[k][f] = G[k][g]
      BY <1>2, <2>1, <3>1, <3>2
    <3>4. CASE k = n
      BY <2>1, <3>3, <3>4
    <3>5. CASE k # n
      <4>1. k \in 0..(n - 1) /\ g[k] = f[k]
        BY <2>1, <3>1, <3>5
      <4>. QED  BY <1>3, <3>3, <4>1
    <3>. QED  BY <3>4, <3>5
  <2>. QED  BY <2>1, <2>2
<1>4. \A n \in Nat : n \in S
  <2>1. 0 \in S
    <3>1. [k \in Nat |-> d] \in F /\ 0..(0 - 1) = {}
      BY <1>0
    <3>. HIDE DEF F, Solves
    <3>. QED  BY <1>3, <3>1
  <2>2. ASSUME NEW n \in Nat, n \in S  PROVE n + 1 \in S
    <3>1. PICK f : Solves(f, n)
      BY <2>2
    <3>2. (n + 1) - 1 = n /\ n + 1 \in Nat
      OBVIOUS
    <3>3. f \in F /\ \A k \in 0..((n + 1) - 1) : f[k] = G[k][f]
      BY <3>1, <3>2
    <3>4. \E g : Solves(g, n + 1)
      <4>. HIDE DEF F, Solves
      <4>. QED  BY <1>3, <3>2, <3>3
    <3>. QED  BY <3>2, <3>4
  <2>. HIDE DEF S
  <2>. QED  BY <2>1, <2>2, SetInduction
\* What two solutions agree on.
<1>5. ASSUME NEW f, NEW a \in Nat, Solves(f, a), NEW g, NEW b \in Nat, Solves(g, b)
      PROVE  \A k \in Nat : k <= a /\ k <= b => f[k] = g[k]
  <2>. DEFINE U == {n \in Nat : n <= a /\ n <= b => \A k \in 0..n : f[k] = g[k]}
  <2>1. f \in F /\ g \in F /\ (\A k \in 0..a : f[k] = G[k][f]) /\ (\A k \in 0..b : g[k] = G[k][g])
    BY <1>5
  <2>. HIDE DEF F, Solves
  <2>2. ASSUME NEW n \in Nat, n <= a, n <= b, \A k \in 0..(n - 1) : f[k] = g[k]
        PROVE  \A k \in 0..n : f[k] = g[k]
    <3>1. G[n][f] = G[n][g]
      BY <1>2, <2>1, <2>2
    <3>2. n \in 0..a /\ n \in 0..b
      BY <2>2
    <3>3. f[n] = g[n]
      BY <2>1, <3>1, <3>2
    <3>4. \A k \in 0..n : k = n \/ k \in 0..(n - 1)
      OBVIOUS
    <3>. QED  BY <2>2, <3>3, <3>4, Zenon
  <2>3. 0 \in U
    <3>1. \A k \in 0..(0 - 1) : f[k] = g[k]
      OBVIOUS
    <3>. QED  BY <2>2, <3>1
  <2>4. ASSUME NEW n \in Nat, n \in U  PROVE n + 1 \in U
    <3>1. (n + 1) - 1 = n /\ n + 1 \in Nat
      OBVIOUS
    <3>. SUFFICES ASSUME n + 1 <= a, n + 1 <= b  PROVE \A k \in 0..(n + 1) : f[k] = g[k]
      OBVIOUS
    <3>2. \A k \in 0..n : f[k] = g[k]
      BY <2>4
    <3>. QED  BY <2>2, <3>1, <3>2
  <2>. HIDE DEF U
  <2>5. \A n \in Nat : n \in U
    BY <2>3, <2>4, SetInduction
  <2>. QED  BY <2>5 DEF U
<1>. DEFINE T(n) == CHOOSE f : Solves(f, n)
            h == [n \in Nat |-> T(n)[n]]
<1>6. \A n \in Nat : Solves(T(n), n)
  <2>1. \A n \in Nat : \E f : Solves(f, n)
    BY <1>4
  <2>. HIDE DEF Solves
  <2>. QED  BY <2>1
<1>7. h \in F
  <2>1. \A n \in Nat : T(n)[n] \in D
    <3>. HIDE DEF T
    <3>. QED  BY <1>6
  <2>. HIDE DEF T
  <2>. QED  BY <2>1
<1>8. ASSUME NEW n \in Nat  PROVE h[n] = G[n][h]
  <2>. HIDE DEF T, Solves, S
  <2>1. \A k \in 0..n : h[k] = T(n)[k]
    BY <1>5, <1>6
  <2>2. T(n) \in F /\ T(n)[n] = G[n][T(n)]
    <3>1. n \in 0..n
      OBVIOUS
    <3>. QED  BY <1>6, <3>1 DEF Solves
  <2>. HIDE DEF h, F
  <2>3. \A k \in 0..(n - 1) : h[k] = T(n)[k]
    BY <2>1
  <2>4. G[n][h] = G[n][T(n)]
    BY <1>2, <1>7, <2>2, <2>3
  <2>5. h[n] = T(n)[n]
    BY <2>1
  <2>. QED  BY <2>2, <2>4, <2>5
<1>. QED  BY <1>7, <1>8 DEF Solution

\* The same from the place behind a sequence of length L to the first.
RecursionDown(D, L, G) ==
  /\ G \in [1..(L + 1) -> [[1..(L + 1) -> D] -> D]]
  /\ \A i \in 1..(L + 1) : \A f, g \in [1..(L + 1) -> D] :
       (\A k \in (i + 1)..(L + 1) : f[k] = g[k]) => G[i][f] = G[i][g]

SolutionDown(D, L, G, f) == f \in [1..(L + 1) -> D] /\ \A i \in 1..(L + 1) : f[i] = G[i][f]

THEOREM RecursionDownExists ==
  ASSUME NEW D, D # {}, NEW L \in Nat, NEW G, RecursionDown(D, L, G)
  PROVE  \E f : SolutionDown(D, L, G, f)
<1>0. PICK d : d \in D
  OBVIOUS
<1>. DEFINE P == 1..(L + 1)
            Turned(h) == [i \in P |-> h[L + 1 - i]]
            H == [n \in Nat |-> [h \in [Nat -> D] |-> IF n <= L THEN G[L + 1 - n][Turned(h)] ELSE d]]
<1>1. \A h \in [Nat -> D] : Turned(h) \in [P -> D]
  <2>1. \A i \in P : L + 1 - i \in Nat
    OBVIOUS
  <2>. QED  BY <2>1
<1>2. \A n \in Nat : n <= L => L + 1 - n \in P
  OBVIOUS
<1>3. \A i \in P : \A f \in [P -> D] : G[i][f] \in D
  BY DEF RecursionDown
<1>4. \A i \in P : \A f, g \in [P -> D] :
        (\A k \in (i + 1)..(L + 1) : f[k] = g[k]) => G[i][f] = G[i][g]
  BY DEF RecursionDown
<1>5. H \in [Nat -> [[Nat -> D] -> D]]
  <2>. HIDE DEF Turned, P
  <2>1. \A n \in Nat : \A h \in [Nat -> D] : (IF n <= L THEN G[L + 1 - n][Turned(h)] ELSE d) \in D
    BY <1>0, <1>1, <1>2, <1>3
  <2>. QED  BY <2>1
<1>6. \A n \in Nat : \A h \in [Nat -> D] : H[n][h] = IF n <= L THEN G[L + 1 - n][Turned(h)] ELSE d
  OBVIOUS
<1>7. ASSUME NEW n \in Nat, NEW f \in [Nat -> D], NEW g \in [Nat -> D], \A k \in 0..(n - 1) : f[k] = g[k]
      PROVE  H[n][f] = H[n][g]
  <2>1. CASE n <= L
    <3>1. \A k \in ((L + 1 - n) + 1)..(L + 1) : k \in P /\ L + 1 - k \in 0..(n - 1)
      BY <2>1
    <3>2. \A k \in ((L + 1 - n) + 1)..(L + 1) : Turned(f)[k] = Turned(g)[k]
      BY <1>7, <3>1
    <3>. HIDE DEF H, Turned, P
    <3>3. G[L + 1 - n][Turned(f)] = G[L + 1 - n][Turned(g)]
      BY <1>1, <1>2, <1>4, <2>1, <3>2
    <3>. QED  BY <1>6, <2>1, <3>3
  <2>2. CASE ~(n <= L)
    <3>. HIDE DEF H, Turned, P
    <3>. QED  BY <1>6, <2>2
  <2>. QED  BY <2>1, <2>2
<1>. HIDE DEF H
<1>8. PICK h \in [Nat -> D] : \A n \in Nat : h[n] = H[n][h]
  <2>1. Recursion(D, H)
    BY <1>5, <1>7 DEF Recursion
  <2>2. \E h : Solution(D, H, h)
    BY <1>0, <2>1, RecursionExists
  <2>. QED  BY <2>2 DEF Solution
<1>9. ASSUME NEW i \in P  PROVE Turned(h)[i] = G[i][Turned(h)]
  <2>1. L + 1 - i \in Nat /\ L + 1 - i <= L /\ L + 1 - (L + 1 - i) = i
    OBVIOUS
  <2>2. Turned(h)[i] = h[L + 1 - i]
    OBVIOUS
  <2>. HIDE DEF Turned, P
  <2>. QED  BY <1>6, <1>8, <2>1, <2>2
<1>. QED  BY <1>1, <1>9 DEF SolutionDown

\* The same up to N.
RecursionTo(D, N, G) ==
  /\ G \in [0..N -> [[0..N -> D] -> D]]
  /\ \A i \in 0..N : \A f, g \in [0..N -> D] :
       (\A k \in 0..(i - 1) : f[k] = g[k]) => G[i][f] = G[i][g]

SolutionTo(D, N, G, f) == f \in [0..N -> D] /\ \A i \in 0..N : f[i] = G[i][f]

THEOREM RecursionToExists ==
  ASSUME NEW D, D # {}, NEW N \in Nat, NEW G, RecursionTo(D, N, G)
  PROVE  \E f : SolutionTo(D, N, G, f)
<1>0. PICK d : d \in D
  OBVIOUS
<1>. DEFINE P == 0..N
            Cut(h) == [i \in P |-> h[i]]
            H == [n \in Nat |-> [h \in [Nat -> D] |-> IF n <= N THEN G[n][Cut(h)] ELSE d]]
<1>1. \A h \in [Nat -> D] : Cut(h) \in [P -> D]
  OBVIOUS
<1>2. \A n \in Nat : n <= N => n \in P
  OBVIOUS
<1>3. \A i \in P : \A f \in [P -> D] : G[i][f] \in D
  BY DEF RecursionTo
<1>4. \A i \in P : \A f, g \in [P -> D] : (\A k \in 0..(i - 1) : f[k] = g[k]) => G[i][f] = G[i][g]
  BY DEF RecursionTo
<1>5. H \in [Nat -> [[Nat -> D] -> D]]
  <2>. HIDE DEF Cut, P
  <2>1. \A n \in Nat : \A h \in [Nat -> D] : (IF n <= N THEN G[n][Cut(h)] ELSE d) \in D
    BY <1>0, <1>1, <1>2, <1>3
  <2>. QED  BY <2>1
<1>6. \A n \in Nat : \A h \in [Nat -> D] : H[n][h] = IF n <= N THEN G[n][Cut(h)] ELSE d
  OBVIOUS
<1>7. ASSUME NEW n \in Nat, NEW f \in [Nat -> D], NEW g \in [Nat -> D], \A k \in 0..(n - 1) : f[k] = g[k]
      PROVE  H[n][f] = H[n][g]
  <2>1. CASE n <= N
    <3>1. \A k \in 0..(n - 1) : Cut(f)[k] = Cut(g)[k]
      BY <1>7, <2>1
    <3>. HIDE DEF H, Cut, P
    <3>2. G[n][Cut(f)] = G[n][Cut(g)]
      BY <1>1, <1>2, <1>4, <2>1, <3>1
    <3>. QED  BY <1>6, <2>1, <3>2
  <2>2. CASE ~(n <= N)
    <3>. HIDE DEF H, Cut, P
    <3>. QED  BY <1>6, <2>2
  <2>. QED  BY <2>1, <2>2
<1>. HIDE DEF H
<1>8. PICK h \in [Nat -> D] : \A n \in Nat : h[n] = H[n][h]
  <2>1. Recursion(D, H)
    BY <1>5, <1>7 DEF Recursion
  <2>2. \E h : Solution(D, H, h)
    BY <1>0, <2>1, RecursionExists
  <2>. QED  BY <2>2 DEF Solution
<1>9. ASSUME NEW i \in P  PROVE Cut(h)[i] = G[i][Cut(h)]
  <2>1. i \in Nat /\ i <= N /\ Cut(h)[i] = h[i]
    OBVIOUS
  <2>. HIDE DEF Cut, P
  <2>. QED  BY <1>6, <1>8, <2>1
<1>. QED  BY <1>1, <1>9 DEF SolutionTo
=============================================================================
