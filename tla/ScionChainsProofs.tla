-------------------------- MODULE ScionChainsProofs --------------------------
(***************************************************************************)
(* What is proved of the two loops along the chain: the searches of        *)
(* ScionScan, and the expansion of blocks of ScionBlockExpansion, for      *)
(* every template and every block table.                                   *)
(*                                                                         *)
(* The searches find the first place that the formulas of ScionChain name. *)
(* Their inductive invariant is ScanTypeOK /\ StackCounts /\ FindsFirst:   *)
(* that the counter separates the openers from the ends seen so far is     *)
(* what makes "counter is one" the same as "closes as many as were         *)
(* opened".                                                                *)
(*                                                                         *)
(* In the expansion everything goes by the depth of a place: how many      *)
(* blocks begin up to it and do not end up to it.  The end of a block is   *)
(* the first place that is less deep than the block, and a replacement     *)
(* leaves the depth of what is around it as it was.                        *)
(***************************************************************************)
EXTENDS ScionScan, ScionBlockExpansion, NaturalsLemmas, FiniteSetTheorems, SequenceTheorems, TLAPS

-----------------------------------------------------------------------------
(* The searches. *)

\* A count is a number.
LEMMA CountIsNat ==
  ASSUME NEW c, NEW kind, NEW from \in Nat, NEW to \in Int
  PROVE  CountOf(c, kind, from, to) \in Nat
<1>1. from \in Int /\ IsFiniteSet(from..to)
  BY FS_Interval
<1>2. IsFiniteSet({p \in from..to : c[p].kind = kind})
  BY <1>1, FS_Subset
<1> QED BY <1>2, FS_CardinalityType DEF CountOf

\* Over no places it is zero.
LEMMA CountNone ==
  ASSUME NEW c, NEW kind, NEW from \in Nat
  PROVE  CountOf(c, kind, from, from - 1) = 0
<1>1. {p \in from..(from - 1) : c[p].kind = kind} = {}
  OBVIOUS
<1> QED BY <1>1, FS_EmptySet DEF CountOf

\* The next place adds one if it is of that kind.
LEMMA CountStep ==
  ASSUME NEW c, NEW kind, NEW from \in Nat, NEW at \in Nat, from <= at
  PROVE  CountOf(c, kind, from, at)
           = CountOf(c, kind, from, at - 1) + (IF c[at].kind = kind THEN 1 ELSE 0)
<1> DEFINE Before == {p \in from..(at - 1) : c[p].kind = kind}
           Now    == {p \in from..at : c[p].kind = kind}
<1>1. IsFiniteSet(Before)
  <2>1. from \in Int /\ at - 1 \in Int /\ IsFiniteSet(from..(at - 1))
    BY FS_Interval
  <2> QED BY <2>1, FS_Subset
<1>2. Cardinality(Before) \in Nat
  BY <1>1, FS_CardinalityType
<1>3. CASE c[at].kind = kind
  <2>1. Now = Before \cup {at} /\ at \notin Before
    BY <1>3
  <2>2. Cardinality(Now) = Cardinality(Before) + 1
    BY <2>1, <1>1, FS_AddElement
  <2> QED BY <2>2, <1>3 DEF CountOf
<1>4. CASE c[at].kind # kind
  <2>1. Now = Before
    BY <1>4
  <2> QED BY <2>1, <1>2, <1>4 DEF CountOf
<1> QED BY <1>3, <1>4

\* The first of some places is the one that no other is in front of.
LEMMA FirstMeets ==
  ASSUME NEW places \in SUBSET Nat, NEW p \in places, \A q \in places : p <= q
  PROVE  First(places) = p
<1>1. places # {}
  OBVIOUS
<1>2. \A m \in places : (\A q \in places : m <= q) => m = p
  BY SMT
<1>3. Min(places) = p
  BY <1>2 DEF Min
<1> QED BY <1>1, <1>3 DEF First

\* The class of a command, of its else and of its end are three classes.
LEMMA KindsDiffer ==
  ASSUME NEW kind \in Openers
  PROVE  /\ kind # terminatorClass(kind)
         /\ kind # elseClass(kind)
         /\ elseClass(kind) # terminatorClass(kind)
         /\ terminatorClass(kind) # NoClass
BY DEF Openers, terminatorClass, elseClass, NoClass

-----------------------------------------------------------------------------
ScanInv ==
  /\ ScanTypeOK
  /\ StackCounts
  /\ FindsFirst
  /\ start = Nowhere => curr = Nowhere

\* While an object is looked at, it lies in the part of the chain that is
\* searched.
LEMMA LookingAt ==
  ASSUME ScanInv, Looking
  PROVE  /\ start \in Nat /\ start # Nowhere /\ curr \in Nat /\ Len(chain) \in Nat
         /\ start <= curr /\ curr <= Len(chain)
         /\ Frontier = curr
         /\ Kind = chain[curr].kind
<1>1. chain \in Seq(Nodes) /\ Len(chain) \in Nat /\ DOMAIN chain = 1..Len(chain)
  BY DEF ScanInv, ScanTypeOK
<1>2. curr \in 1..Len(chain) /\ start \in 1..Len(chain)
  BY <1>1 DEF ScanInv, ScanTypeOK, Looking, Nowhere
<1>3. Frontier = curr /\ Kind = chain[curr].kind
  BY <1>2 DEF Frontier, Kind, KindAt, Looking
<1>4. Frontier \in start..(Len(chain) + 1) /\ start # Nowhere
  BY DEF ScanInv, StackCounts, Looking
<1> QED BY <1>1, <1>2, <1>3, <1>4

\* The loop stops at an object exactly when it is one of the places the formulas
\* name.
LEMMA StopsWhereItShould ==
  ASSUME ScanInv, Looking
  PROVE  curr \in Stops <=> IsOwnEnd \/ IsOwnElse
<1> DEFINE T  == terminatorClass(self)
           E  == elseClass(self)
           S0 == CountOf(chain, self, start, curr - 1)
           T0 == CountOf(chain, T, start, curr - 1)
           S1 == CountOf(chain, self, start, curr)
           T1 == CountOf(chain, T, start, curr)
<1>1. /\ start \in Nat /\ start # Nowhere /\ curr \in Nat /\ Len(chain) \in Nat
      /\ start <= curr /\ curr <= Len(chain) /\ Frontier = curr /\ Kind = chain[curr].kind
  BY LookingAt
<1>2. self # T /\ self # E /\ E # T
  BY KindsDiffer DEF ScanInv, ScanTypeOK
<1>3. S0 \in Nat /\ T0 \in Nat
  BY <1>1, CountIsNat
<1>4. S1 = S0 + (IF Kind = self THEN 1 ELSE 0) /\ T1 = T0 + (IF Kind = T THEN 1 ELSE 0)
  BY <1>1, CountStep
<1>5. stack \in Nat /\ stack + T0 = 1 + S0
  BY <1>1 DEF ScanInv, StackCounts, ScanTypeOK, Looking
<1>6. \A p \in start..(curr - 1) : p \notin Stops
  BY <1>1 DEF ScanInv, StackCounts, Looking
<1>7. curr \in Ends(chain, self, start) <=> Kind = T /\ 1 + S1 = T1
  BY <1>1 DEF Ends
<1>8. curr \in OwnElses(chain, self, start)
        <=> Kind = E /\ S1 = T1 /\ \A e \in Ends(chain, self, start) : curr < e
  BY <1>1 DEF OwnElses
<1>9. Kind # T => \A e \in Ends(chain, self, start) : curr < e
  <2> SUFFICES ASSUME Kind # T, NEW e \in Ends(chain, self, start) PROVE curr < e
    OBVIOUS
  <2>1. e \in start..Len(chain) /\ e \in Stops
    BY <1>1 DEF Ends, Stops
  <2>2. e # curr
    BY <1>7
  <2> QED BY <2>1, <2>2, <1>1, <1>6
<1>10. IsOwnEnd <=> Kind = T /\ stack = 1
  BY DEF IsOwnEnd
<1>11. IsOwnElse <=> search = "else" /\ Kind = E /\ stack = 1
  BY DEF IsOwnElse
<1>12. curr \in Stops
         <=> \/ curr \in Ends(chain, self, start)
             \/ search = "else" /\ curr \in OwnElses(chain, self, start)
  BY DEF Stops
<1> HIDE DEF T, E, S0, T0, S1, T1
<1>13. CASE Kind = T
  <2>1. 1 + S1 = T1 <=> stack = 1
    BY <1>13, <1>2, <1>3, <1>4, <1>5
  <2> QED BY <2>1, <1>13, <1>2, <1>7, <1>8, <1>10, <1>11, <1>12
<1>14. CASE Kind = E
  <2>1. S1 = T1 <=> stack = 1
    BY <1>14, <1>2, <1>3, <1>4, <1>5
  <2> QED BY <2>1, <1>14, <1>2, <1>7, <1>8, <1>9, <1>10, <1>11, <1>12
<1>15. CASE Kind # T /\ Kind # E
  BY <1>15, <1>7, <1>8, <1>10, <1>11, <1>12
<1> QED BY <1>13, <1>14, <1>15

\* There is no place to stop at outside of the part that is searched.
LEMMA StopsAreBehindStart ==
  Stops \subseteq (IF start = Nowhere THEN {} ELSE start..Len(chain))
BY DEF Stops, Ends, OwnElses

-----------------------------------------------------------------------------
\* The invariant holds first.
LEMMA ScanInvInit == ASSUME Init PROVE ScanInv
<1>1. chain \in Seq(Nodes) /\ Len(chain) \in Nat /\ DOMAIN chain = 1..Len(chain)
  BY ScanChainsAssumption DEF Init
<1>2. ScanTypeOK
  BY <1>1 DEF Init, ScanTypeOK
<1>3. StackCounts
  <2> SUFFICES ASSUME start # Nowhere PROVE StackCounts
    BY DEF StackCounts
  <2>1. start \in 1..Len(chain) /\ Frontier = start
    BY <1>1 DEF Init, Frontier
  <2>2. CountOf(chain, self, start, start - 1) = 0
    BY <2>1, CountNone
  <2>3. CountOf(chain, terminatorClass(self), start, start - 1) = 0
    BY <2>1, CountNone
  <2>4. Frontier \in start..(Len(chain) + 1) /\ start..(Frontier - 1) = {}
    BY <1>1, <2>1
  <2>5. stack = 1
    BY DEF Init
  <2> QED BY <2>1, <2>2, <2>3, <2>4, <2>5 DEF StackCounts
<1> QED BY <1>2, <1>3 DEF Init, ScanInv, FindsFirst

\* Returning from a place that is one to stop at, or from the end of the chain.
LEMMA ScanInvReturn ==
  ASSUME ScanInv, Return, scanning,
         \/ Looking /\ (IsOwnEnd \/ IsOwnElse)
         \/ curr = Nowhere
  PROVE  ScanInv'
<1>1. ScanTypeOK' /\ (start = Nowhere => curr = Nowhere)'
  BY DEF ScanInv, ScanTypeOK, Return, given
<1>2. StackCounts'
  BY DEF Return, StackCounts
<1>3. curr = First(Stops)
  <2>1. CASE curr = Nowhere
    <3>1. Stops = {}
      <4>1. CASE start = Nowhere
        BY <4>1, StopsAreBehindStart
      <4>2. CASE start # Nowhere
        <5>1. \A p \in start..((Len(chain) + 1) - 1) : p \notin Stops
          BY <2>1, <4>2 DEF ScanInv, StackCounts, Frontier
        <5>2. Len(chain) \in Nat
          BY DEF ScanInv, ScanTypeOK
        <5> HIDE DEF Stops
        <5> QED BY <4>2, <5>1, <5>2, StopsAreBehindStart
      <4> QED BY <4>1, <4>2
    <3> QED BY <2>1, <3>1 DEF First
  <2>2. CASE Looking /\ (IsOwnEnd \/ IsOwnElse)
    <3>1. curr \in Stops
      BY <2>2, StopsWhereItShould
    <3>2. /\ start \in Nat /\ start # Nowhere /\ curr \in Nat /\ Len(chain) \in Nat
          /\ Frontier = curr
      BY <2>2, LookingAt
    <3>3. Stops \subseteq start..Len(chain)
      BY <3>2, StopsAreBehindStart
    <3>4. \A q \in Stops : curr <= q
      BY <3>2, <3>3 DEF ScanInv, StackCounts
    <3>5. Stops \in SUBSET Nat
      BY <3>2, <3>3
    <3> QED BY <3>1, <3>4, <3>5, FirstMeets
  <2> QED BY <2>1, <2>2
<1>4. curr = IF search = "else" THEN terminateToElse(chain, self, start)
             ELSE terminateToEnd(chain, self, start)
  BY <1>3 DEF Stops, terminateToElse, terminateToEnd
<1>5. FindsFirst'
  BY <1>4 DEF Return, given, FindsFirst
<1> QED BY <1>1, <1>2, <1>5 DEF ScanInv

\* Going on to the next object with the counter the class of this one gives.
LEMMA ScanInvGoOn ==
  ASSUME ScanInv, Looking, NEW depth, GoOn(depth), ~IsOwnEnd, ~IsOwnElse,
         depth = (stack + (IF Kind = self THEN 1 ELSE 0))
                   - (IF Kind = terminatorClass(self) THEN 1 ELSE 0)
  PROVE  ScanInv'
<1> DEFINE T  == terminatorClass(self)
           S0 == CountOf(chain, self, start, curr - 1)
           T0 == CountOf(chain, T, start, curr - 1)
           S1 == CountOf(chain, self, start, curr)
           T1 == CountOf(chain, T, start, curr)
<1>1. /\ start \in Nat /\ start # Nowhere /\ curr \in Nat /\ Len(chain) \in Nat
      /\ start <= curr /\ curr <= Len(chain) /\ Frontier = curr /\ Kind = chain[curr].kind
  BY LookingAt
<1>2. self # T
  BY KindsDiffer DEF ScanInv, ScanTypeOK
<1>3. S0 \in Nat /\ T0 \in Nat
  BY <1>1, CountIsNat
<1>4. S1 = S0 + (IF Kind = self THEN 1 ELSE 0) /\ T1 = T0 + (IF Kind = T THEN 1 ELSE 0)
  BY <1>1, CountStep
<1>5. stack \in Nat /\ stack > 0 /\ stack + T0 = 1 + S0
  BY <1>1 DEF ScanInv, StackCounts, ScanTypeOK, Looking
<1>6. Kind = T => stack # 1
  BY DEF IsOwnEnd
<1>7. stack' \in Nat /\ stack' > 0 /\ stack' + T1 = 1 + S1
  <2>1. stack' = depth
    BY DEF GoOn
  <2> HIDE DEF T, S0, T0, S1, T1
  <2>2. depth = (stack + (IF Kind = self THEN 1 ELSE 0)) - (IF Kind = T THEN 1 ELSE 0)
    BY DEF T
  <2> QED BY <2>1, <2>2, <1>2, <1>3, <1>4, <1>5, <1>6
<1>8. curr' = (IF curr < Len(chain) THEN curr + 1 ELSE Nowhere) /\ Frontier' = curr + 1
  <2>1. curr' = (IF curr < Len(chain) THEN curr + 1 ELSE Nowhere) /\ chain' = chain
    BY DEF GoOn, next_, given
  <2> QED BY <2>1, <1>1 DEF Frontier, Nowhere
<1>9. ScanTypeOK' /\ (start = Nowhere => curr = Nowhere)'
  <2>1. curr' \in {Nowhere} \cup DOMAIN chain
    BY <1>1, <1>8 DEF ScanInv, ScanTypeOK
  <2> QED BY <2>1, <1>1, <1>7 DEF ScanInv, ScanTypeOK, GoOn, given
<1>10. Stops' = Stops /\ UNCHANGED <<chain, self, start>>
  BY DEF GoOn, given, Stops
<1>11. \A p \in start..curr : p \notin Stops
  <2>1. curr \notin Stops
    BY StopsWhereItShould
  <2>2. \A p \in start..(curr - 1) : p \notin Stops
    BY <1>1 DEF ScanInv, StackCounts, Looking
  <2> QED BY <2>1, <2>2, <1>1
<1>12. StackCounts'
  <2>1. Frontier' \in start..(Len(chain) + 1) /\ Frontier' - 1 = curr
    BY <1>1, <1>8
  <2> HIDE DEF T0, S0
  <2> QED BY <2>1, <1>7, <1>10, <1>11 DEF StackCounts
<1>13. FindsFirst'
  BY DEF GoOn, Looking, FindsFirst
<1> QED BY <1>9, <1>12, <1>13 DEF ScanInv

\* Every step keeps it.
LEMMA ScanInvNext == ASSUME ScanInv, [Next]_vars PROVE ScanInv'
<1>1. CASE Deeper
  <2>1. self # terminatorClass(self) /\ self # elseClass(self)
    BY KindsDiffer DEF ScanInv, ScanTypeOK
  <2>2. stack \in Nat
    BY DEF ScanInv, ScanTypeOK
  <2> QED BY <1>1, <2>1, <2>2, ScanInvGoOn DEF Deeper, IsOwnEnd, IsOwnElse
<1>2. CASE FindElse
  BY <1>2, ScanInvReturn DEF FindElse, Looking
<1>3. CASE FindEnd
  BY <1>3, ScanInvReturn DEF FindEnd, Looking
<1>4. CASE Shallower
  <2>1. self # terminatorClass(self) /\ elseClass(self) # terminatorClass(self)
    BY KindsDiffer DEF ScanInv, ScanTypeOK
  <2>2. stack \in Nat
    BY DEF ScanInv, ScanTypeOK
  <2> QED BY <1>4, <2>1, <2>2, ScanInvGoOn DEF Shallower, IsOwnElse
<1>5. CASE PassOver
  <2>1. stack \in Nat
    BY DEF ScanInv, ScanTypeOK
  <2> QED BY <1>5, <2>1, ScanInvGoOn DEF PassOver, IsOwnEnd
<1>6. CASE Exhausted
  BY <1>6, ScanInvReturn DEF Exhausted
<1>7. CASE UNCHANGED vars
  BY <1>7 DEF vars, ScanInv, ScanTypeOK, StackCounts, FindsFirst, Frontier, Stops
<1> QED BY <1>1, <1>2, <1>3, <1>4, <1>5, <1>6, <1>7 DEF Next

\* For every chain, however its commands nest, terminateToEnd: and
\* terminateToElse: return the first end that closes as many commands of the
\* class as were opened, or the first else in front of it that is not nested.
THEOREM ScanFindsFirst == Spec => []FindsFirst
<1>1. Init => ScanInv
  BY ScanInvInit
<1>2. ScanInv /\ [Next]_vars => ScanInv'
  BY ScanInvNext
<1>3. ScanInv => FindsFirst
  BY DEF ScanInv
<1> QED BY <1>1, <1>2, <1>3, PTL DEF Spec

\* The unsigned counter of the searches never wraps, and what they look at is an
\* object of the chain.
THEOREM ScanStackCounts == Spec => [](ScanTypeOK /\ StackCounts)
<1>1. Init => ScanInv
  BY ScanInvInit
<1>2. ScanInv /\ [Next]_vars => ScanInv'
  BY ScanInvNext
<1>3. ScanInv => ScanTypeOK /\ StackCounts
  BY DEF ScanInv
<1> QED BY <1>1, <1>2, <1>3, PTL DEF Spec

-----------------------------------------------------------------------------
(* Counting. *)

\* The places of a kind are finitely many.
LEMMA CountFinite ==
  ASSUME NEW c, NEW kind, NEW from \in Nat, NEW to \in Int
  PROVE  /\ IsFiniteSet({p \in from..to : c[p].kind = kind})
         /\ CountOf(c, kind, from, to) \in Nat
<1>1. from \in Int /\ IsFiniteSet(from..to)
  BY FS_Interval
<1>2. IsFiniteSet({p \in from..to : c[p].kind = kind})
  BY <1>1, FS_Subset
<1>. QED  BY <1>2, FS_CardinalityType DEF CountOf

\* A count from a place on is the difference of two counts from the beginning.
LEMMA CountSplit ==
  ASSUME NEW c, NEW kind, NEW b \in Nat, NEW p \in Nat, b <= p
  PROVE  CountOf(c, kind, 1, p) = CountOf(c, kind, 1, b) + CountOf(c, kind, b + 1, p)
<1>. DEFINE Of(from, to) == {x \in from..to : c[x].kind = kind}
<1>1. IsFiniteSet(Of(1, b)) /\ IsFiniteSet(Of(b + 1, p))
  <2>1. 1 \in Nat /\ b \in Int /\ b + 1 \in Nat /\ p \in Int
    OBVIOUS
  <2>2. ASSUME NEW from \in Nat, NEW to \in Int  PROVE IsFiniteSet(Of(from, to))
    BY CountFinite
  <2>. HIDE DEF Of
  <2>. QED  BY <2>1, <2>2
<1>2. Of(1, b) \cup Of(b + 1, p) = Of(1, p) /\ Of(1, b) \cap Of(b + 1, p) = {}
  OBVIOUS
<1>3. Cardinality(Of(1, p)) = Cardinality(Of(1, b)) + Cardinality(Of(b + 1, p)) - Cardinality({})
  BY <1>1, <1>2, FS_Union
<1>4. /\ Cardinality({}) = 0
      /\ Cardinality(Of(1, b)) \in Nat /\ Cardinality(Of(b + 1, p)) \in Nat
  BY <1>1, FS_EmptySet, FS_CardinalityType
<1>. QED  BY <1>3, <1>4 DEF CountOf

\* Counts from the beginning are numbers.
LEMMA CountNat ==
  ASSUME NEW c, NEW at \in Nat
  PROVE  CountOf(c, "block", 1, at) \in Nat /\ CountOf(c, "endblock", 1, at) \in Nat
<1>1. 1 \in Nat /\ at \in Int
  OBVIOUS
<1>. QED  BY <1>1, CountFinite, Zenon

\* What a node does to the depth.
Bump(kind) == IF kind = "block" THEN 1 ELSE IF kind = "endblock" THEN -1 ELSE 0

\* What one place adds to a count.
LEMMA CountOne ==
  ASSUME NEW c, NEW kind, NEW at \in Nat
  PROVE  CountOf(c, kind, at, at) = IF c[at].kind = kind THEN 1 ELSE 0
<1>1. CASE c[at].kind = kind
  <2>1. {p \in at..at : c[p].kind = kind} = {at}
    BY <1>1
  <2>. QED  BY <1>1, <2>1, FS_Singleton DEF CountOf
<1>2. CASE c[at].kind # kind
  <2>1. {p \in at..at : c[p].kind = kind} = {}
    BY <1>2
  <2>. QED  BY <1>2, <2>1, FS_EmptySet DEF CountOf
<1>. QED  BY <1>1, <1>2

\* The depth begins with zero and changes by one with a block and an endblock.
LEMMA DepthStep ==
  ASSUME NEW c
  PROVE  /\ Depth(c, 0) = 0
         /\ \A at \in Nat : Depth(c, at) \in Int
         /\ \A at \in Nat : at > 0 => Depth(c, at) = Depth(c, at - 1) + Bump(c[at].kind)
<1>1. \A kind : CountOf(c, kind, 1, 0) = 0
  <2>1. \A kind : {p \in 1..0 : c[p].kind = kind} = {}
    OBVIOUS
  <2>. QED  BY <2>1, FS_EmptySet DEF CountOf
<1>2. \A at \in Nat : CountOf(c, "block", 1, at) \in Nat /\ CountOf(c, "endblock", 1, at) \in Nat
  BY CountNat
<1>3. ASSUME NEW at \in Nat, at > 0
      PROVE  Depth(c, at) = Depth(c, at - 1) + Bump(c[at].kind)
  <2>1. at - 1 \in Nat /\ at - 1 <= at /\ (at - 1) + 1 = at
    BY <1>3
  <2>2. ASSUME NEW kind
        PROVE  CountOf(c, kind, 1, at)
                 = CountOf(c, kind, 1, at - 1) + (IF c[at].kind = kind THEN 1 ELSE 0)
    BY <2>1, CountSplit, CountOne
  <2>3. /\ CountOf(c, "block", 1, at)
             = CountOf(c, "block", 1, at - 1) + (IF c[at].kind = "block" THEN 1 ELSE 0)
        /\ CountOf(c, "endblock", 1, at)
             = CountOf(c, "endblock", 1, at - 1) + (IF c[at].kind = "endblock" THEN 1 ELSE 0)
    BY <2>2
  <2>. QED  BY <1>2, <2>1, <2>3 DEF Depth, Bump
<1>. QED  BY <1>1, <1>2, <1>3 DEF Depth

\* The k nodes of c behind i are of the same kinds as those of d behind j.
Alike(c, i, d, j, k) == \A x \in 1..k : c[i + x].kind = d[j + x].kind

\* The k nodes of c behind i change the depth by as much as those of d behind j.
SameChange(c, i, d, j, k) == Depth(c, i + k) - Depth(c, i) = Depth(d, j + k) - Depth(d, j)

\* Pieces of the same kinds change the depth by the same.
LEMMA DepthShift ==
  ASSUME NEW c, NEW d, NEW i \in Nat, NEW j \in Nat, NEW k \in Nat, Alike(c, i, d, j, k)
  PROVE  SameChange(c, i, d, j, k)
<1>. DEFINE S == {n \in Nat : n <= k => SameChange(c, i, d, j, n)}
<1>1. 0 \in S
  <2>1. i + 0 = i /\ j + 0 = j
    OBVIOUS
  <2>2. Depth(c, i) \in Int /\ Depth(d, j) \in Int
    BY DepthStep
  <2>. QED  BY <2>1, <2>2 DEF SameChange
<1>2. ASSUME NEW n \in Nat, n \in S  PROVE n + 1 \in S
  <2>. SUFFICES ASSUME n + 1 <= k
                PROVE  Depth(c, i + (n + 1)) - Depth(c, i) = Depth(d, j + (n + 1)) - Depth(d, j)
    BY DEF SameChange
  <2>1. /\ i + (n + 1) \in Nat /\ i + (n + 1) > 0 /\ (i + (n + 1)) - 1 = i + n /\ i + n \in Nat
        /\ j + (n + 1) \in Nat /\ j + (n + 1) > 0 /\ (j + (n + 1)) - 1 = j + n /\ j + n \in Nat
    OBVIOUS
  <2>2. /\ Depth(c, i + (n + 1)) = Depth(c, i + n) + Bump(c[i + (n + 1)].kind)
        /\ Depth(d, j + (n + 1)) = Depth(d, j + n) + Bump(d[j + (n + 1)].kind)
    BY <2>1, DepthStep
  <2>3. n + 1 \in 1..k /\ Depth(c, i + n) - Depth(c, i) = Depth(d, j + n) - Depth(d, j)
    BY <1>2 DEF SameChange
  <2>4. c[i + (n + 1)].kind = d[j + (n + 1)].kind
    BY <2>3 DEF Alike
  <2>5. /\ Depth(c, i + n) \in Int /\ Depth(c, i) \in Int
        /\ Depth(d, j + n) \in Int /\ Depth(d, j) \in Int
    BY <2>1, DepthStep
  <2>6. Bump(c[i + (n + 1)].kind) \in Int
    BY DEF Bump
  <2>. QED  BY <2>2, <2>3, <2>4, <2>5, <2>6
<1>. HIDE DEF S
<1>3. k \in S
  BY <1>1, <1>2, SetInduction
<1>. QED  BY <1>3 DEF S

\* A chain is balanced if it is never less than zero deep and comes back to zero.
LEMMA BalancedDepth ==
  ASSUME NEW c \in Seq(Nodes)
  PROVE  Balanced(c) <=> /\ \A at \in 0..Len(c) : Depth(c, at) >= 0
                         /\ Depth(c, Len(c)) = 0
<1>1. Len(c) \in Nat /\ DOMAIN c = 1..Len(c)
  BY LenProperties
<1>2. ASSUME NEW at \in Nat
      PROVE  /\ (CountOf(c, "endblock", 1, at) <= CountOf(c, "block", 1, at)) <=> (Depth(c, at) >= 0)
             /\ (CountOf(c, "block", 1, at) = CountOf(c, "endblock", 1, at)) <=> (Depth(c, at) = 0)
  BY CountNat DEF Depth
<1>4. Depth(c, 0) = 0
  BY DepthStep
<1>5. \A at \in 0..Len(c) : at = 0 \/ at \in 1..Len(c)
  BY <1>1
<1>. QED  BY <1>1, <1>2, <1>4, <1>5 DEF Balanced

-----------------------------------------------------------------------------
(* The end of a block. *)

\* The chain is not less deep than at b from there to at.
Inside(c, b, at) == \A q \in b..at : Depth(c, q) >= Depth(c, b)

End(c, b) == terminateToEnd(c, "block", next_(c, b))

\* The places a block may end at are the endblocks that are as deep as what is around it.
LEMMA EndsAre ==
  ASSUME NEW c \in Seq(Nodes), NEW b \in DOMAIN c
  PROVE  Ends(c, "block", next_(c, b))
           = {p \in (b + 1)..Len(c) : c[p].kind = "endblock" /\ Depth(c, p) = Depth(c, b) - 1}
<1>1. Len(c) \in Nat /\ b \in 1..Len(c)
  BY LenProperties
<1>2. terminatorClass("block") = "endblock"
  BY DEF terminatorClass
<1>3. CASE b = Len(c)
  <2>1. next_(c, b) = Nowhere /\ (b + 1)..Len(c) = {}
    BY <1>1, <1>3 DEF next_
  <2>. QED  BY <2>1 DEF Ends
<1>4. CASE b # Len(c)
  <2>1. next_(c, b) = b + 1 /\ b + 1 # Nowhere
    BY <1>1, <1>4 DEF next_, Nowhere
  <2>2. ASSUME NEW p \in (b + 1)..Len(c)
        PROVE  (1 + CountOf(c, "block", b + 1, p) = CountOf(c, "endblock", b + 1, p))
                 <=> Depth(c, p) = Depth(c, b) - 1
    <3>1. b \in Nat /\ p \in Nat /\ b <= p /\ b + 1 \in Nat /\ p \in Int
      BY <1>1
    <3>2. /\ CountOf(c, "block", 1, p) = CountOf(c, "block", 1, b) + CountOf(c, "block", b + 1, p)
          /\ CountOf(c, "endblock", 1, p) = CountOf(c, "endblock", 1, b) + CountOf(c, "endblock", b + 1, p)
      BY <3>1, CountSplit
    <3>3. /\ CountOf(c, "block", 1, b) \in Nat /\ CountOf(c, "endblock", 1, b) \in Nat
          /\ CountOf(c, "block", b + 1, p) \in Nat /\ CountOf(c, "endblock", b + 1, p) \in Nat
      BY <3>1, CountNat, CountFinite, Zenon
    <3>. QED  BY <3>2, <3>3 DEF Depth
  <2>3. Ends(c, "block", b + 1)
          = {p \in (b + 1)..Len(c) :
               /\ c[p].kind = "endblock"
               /\ 1 + CountOf(c, "block", b + 1, p) = CountOf(c, "endblock", b + 1, p)}
    BY <1>2, <2>1 DEF Ends
  <2>. QED  BY <2>1, <2>2, <2>3
<1>. QED  BY <1>3, <1>4

\* The first of some places is the one that no other is in front of.
LEMMA FirstIsLeast ==
  ASSUME NEW places \in SUBSET Nat, NEW p \in places, \A q \in places : p <= q
  PROVE  First(places) = p
<1>1. places # {}
  OBVIOUS
<1>2. Min(places) \in places /\ \A q \in places : Min(places) <= q
  BY <1>1, LeastNatural
<1>3. Min(places) <= p /\ p <= Min(places) /\ p \in Nat /\ Min(places) \in Nat
  BY <1>2
<1>. QED  BY <1>1, <1>3 DEF First

\* A block ends where the chain is less deep for the first time.
LEMMA EndFound ==
  ASSUME NEW c \in Seq(Nodes), NEW b \in DOMAIN c, NEW e \in (b + 1)..Len(c),
         Depth(c, e) < Depth(c, b), Inside(c, b, e - 1)
  PROVE  /\ End(c, b) = e
         /\ c[e].kind = "endblock"
         /\ Depth(c, e) = Depth(c, b) - 1
<1>1. Len(c) \in Nat /\ b \in 1..Len(c) /\ e \in Nat /\ e > 0 /\ e - 1 \in b..(e - 1) /\ b \in Nat
      /\ e - 1 \in Nat
  BY LenProperties
<1>2. Depth(c, e - 1) >= Depth(c, b)
  BY <1>1 DEF Inside
<1>3. /\ Depth(c, e) = Depth(c, e - 1) + Bump(c[e].kind)
      /\ Depth(c, e) \in Int /\ Depth(c, e - 1) \in Int /\ Depth(c, b) \in Int
  BY <1>1, DepthStep
<1>4. c[e].kind = "endblock" /\ Depth(c, e) = Depth(c, b) - 1
  BY <1>2, <1>3 DEF Bump
<1>. DEFINE ends == {p \in (b + 1)..Len(c) : c[p].kind = "endblock" /\ Depth(c, p) = Depth(c, b) - 1}
<1>5. e \in ends /\ ends \in SUBSET Nat
  BY <1>1, <1>4
<1>6. ASSUME NEW q \in ends  PROVE e <= q
  <2>. SUFFICES ASSUME q < e PROVE FALSE
    BY <1>1
  <2>1. q \in b..(e - 1) /\ Depth(c, q) = Depth(c, b) - 1
    BY <1>1
  <2>2. Depth(c, q) >= Depth(c, b)
    BY <2>1 DEF Inside
  <2>. QED  BY <1>3, <2>1, <2>2
<1>7. Ends(c, "block", next_(c, b)) = ends
  BY EndsAre
<1>. HIDE DEF ends
<1>8. First(ends) = e
  BY <1>5, <1>6, FirstIsLeast
<1>. QED  BY <1>4, <1>7, <1>8 DEF End, terminateToEnd

\* What is known of the end of a block: it is there or the chain never gets less deep.
LEMMA EndIs ==
  ASSUME NEW c \in Seq(Nodes), NEW b \in DOMAIN c
  PROVE  \/ End(c, b) = Nowhere /\ Inside(c, b, Len(c))
         \/ /\ End(c, b) \in (b + 1)..Len(c)
            /\ Depth(c, End(c, b)) = Depth(c, b) - 1
            /\ c[End(c, b)].kind = "endblock"
            /\ Inside(c, b, End(c, b) - 1)
<1>. DEFINE less == {q \in b..Len(c) : Depth(c, q) < Depth(c, b)}
            e == Min(less)
<1>1. Len(c) \in Nat /\ b \in 1..Len(c) /\ b \in Nat
  BY LenProperties
<1>2. \A at \in Nat : Depth(c, at) \in Int
  BY DepthStep
<1>3. CASE less = {}
  <2>1. Inside(c, b, Len(c))
    BY <1>1, <1>2, <1>3, SMTT(40) DEF Inside
  <2>2. Ends(c, "block", next_(c, b)) = {}
    <3>1. \A p \in (b + 1)..Len(c) : p \in b..Len(c) /\ p \in Nat
      BY <1>1
    <3>2. \A p \in (b + 1)..Len(c) : Depth(c, p) # Depth(c, b) - 1
      BY <1>1, <1>2, <2>1, <3>1 DEF Inside
    <3>. QED  BY <3>2, EndsAre
  <2>. QED  BY <2>1, <2>2 DEF End, terminateToEnd, First
<1>4. CASE less # {}
  <2>1. less \subseteq Nat
    BY <1>1
  <2>2. e \in less /\ \A q \in less : e <= q
    BY <1>4, <2>1, LeastNatural
  <2>. HIDE DEF e
  <2>3. e \in b..Len(c) /\ e # b /\ Depth(c, e) < Depth(c, b)
    BY <1>1, <1>2, <2>2
  <2>4. Inside(c, b, e - 1)
    <3>. SUFFICES ASSUME NEW q \in b..(e - 1)  PROVE Depth(c, q) >= Depth(c, b)
      BY DEF Inside
    <3>1. q \in b..Len(c) /\ ~(e <= q) /\ q \in Nat
      BY <1>1, <2>3
    <3>. QED  BY <1>1, <1>2, <2>2, <3>1
  <2>5. e \in (b + 1)..Len(c)
    BY <1>1, <2>3
  <2>6. End(c, b) = e /\ c[e].kind = "endblock" /\ Depth(c, e) = Depth(c, b) - 1
    BY <2>3, <2>4, <2>5, EndFound
  <2>. QED  BY <2>4, <2>5, <2>6
<1>. QED  BY <1>3, <1>4

-----------------------------------------------------------------------------
(* Replacing a block. *)

\* A piece that begins with a block and ends with its own endblock.
Whole(t) ==
  /\ t \in Seq(Nodes) /\ Len(t) > 1
  /\ \A at \in 1..(Len(t) - 1) : Depth(t, at) > 0
  /\ Depth(t, Len(t)) = 0

\* The chain c with t in place of what is from b to e.
Spliced(c, b, e, t) == SubSeq(c, 1, b - 1) \o t \o SubSeq(c, e + 1, Len(c))

\* The nodes of a chain that a piece was put into: those in front of it, its own, and
\* those that were behind what it replaces.
LEMMA SplicedNodes ==
  ASSUME NEW c \in Seq(Nodes), NEW t \in Seq(Nodes),
         NEW b \in DOMAIN c, NEW e \in b..Len(c)
  PROVE  /\ Spliced(c, b, e, t) \in Seq(Nodes)
         /\ Len(Spliced(c, b, e, t)) = (b - 1) + Len(t) + (Len(c) - e)
         /\ \A i \in 1..(b - 1) : Spliced(c, b, e, t)[i] = c[i]
         /\ \A i \in 1..Len(t) : Spliced(c, b, e, t)[(b - 1) + i] = t[i]
         /\ \A i \in 1..(Len(c) - e) : Spliced(c, b, e, t)[(b - 1) + Len(t) + i] = c[e + i]
<1>. DEFINE front == SubSeq(c, 1, b - 1)
            back == SubSeq(c, e + 1, Len(c))
            n == Len(c)
            m == Len(t)
<1>1. n \in Nat /\ m \in Nat /\ b \in 1..n /\ e \in b..n
  BY LenProperties
<1>2. \A i \in 1..n : c[i] \in Nodes
  BY ElementOfSeq
<1>3. /\ front \in Seq(Nodes) /\ Len(front) = b - 1
      /\ \A i \in 1..(b - 1) : front[i] = c[i]
  <2>1. 1 \in Int /\ b - 1 \in Int /\ \A i \in 1..(b - 1) : c[i] \in Nodes
    BY <1>1, <1>2
  <2>2. /\ front \in Seq(Nodes)
        /\ Len(front) = IF 1 <= b - 1 THEN (b - 1) - 1 + 1 ELSE 0
        /\ \A i \in 1..((b - 1) - 1 + 1) : front[i] = c[1 + i - 1]
    BY <2>1, SubSeqProperties
  <2>3. (b - 1) - 1 + 1 = b - 1 /\ \A i \in 1..(b - 1) : 1 + i - 1 = i
    BY <1>1
  <2>. HIDE DEF front
  <2>. QED  BY <1>1, <2>2, <2>3
<1>4. /\ back \in Seq(Nodes) /\ Len(back) = n - e
      /\ \A i \in 1..(n - e) : back[i] = c[e + i]
  <2>1. e + 1 \in Int /\ n \in Int /\ \A i \in (e + 1)..n : c[i] \in Nodes
    BY <1>1, <1>2
  <2>2. /\ back \in Seq(Nodes)
        /\ Len(back) = IF e + 1 <= n THEN n - (e + 1) + 1 ELSE 0
        /\ \A i \in 1..(n - (e + 1) + 1) : back[i] = c[(e + 1) + i - 1]
    BY <2>1, SubSeqProperties
  <2>. HIDE DEF back, n
  <2>3. Len(back) = n - e
    BY <1>1, <2>2
  <2>4. ASSUME NEW i \in 1..(n - e)  PROVE back[i] = c[e + i]
    <3>1. i \in 1..(n - (e + 1) + 1) /\ (e + 1) + i - 1 = e + i
      BY <1>1
    <3>. QED  BY <2>2, <3>1
  <2>. QED  BY <2>2, <2>3, <2>4
<1>. HIDE DEF front, back, n
<1>5. /\ front \o t \in Seq(Nodes) /\ Len(front \o t) = (b - 1) + m
      /\ \A i \in 1..((b - 1) + m) : (front \o t)[i] = IF i <= b - 1 THEN front[i] ELSE t[i - (b - 1)]
  BY <1>3, ConcatProperties, SMTT(40)
<1>. DEFINE s == (front \o t) \o back
<1>6. /\ s \in Seq(Nodes) /\ Len(s) = (b - 1) + m + (n - e)
      /\ \A i \in 1..((b - 1) + m + (n - e)) :
           s[i] = IF i <= (b - 1) + m THEN (front \o t)[i] ELSE back[i - ((b - 1) + m)]
  <2>. DEFINE ft == front \o t
  <2>1. Len(ft) = (b - 1) + m
    BY <1>5
  <2>0. ft \in Seq(Nodes) /\ back \in Seq(Nodes)
    BY <1>4, <1>5
  <2>. HIDE DEF ft
  <2>2. /\ ft \o back \in Seq(Nodes) /\ Len(ft \o back) = Len(ft) + Len(back)
        /\ \A i \in 1..(Len(ft) + Len(back)) :
             (ft \o back)[i] = IF i <= Len(ft) THEN ft[i] ELSE back[i - Len(ft)]
    BY <2>0, ConcatProperties
  <2>3. ft \o back = s
    BY DEF ft
  <2>. HIDE DEF s, m
  <2>4. /\ s \in Seq(Nodes) /\ Len(s) = (b - 1) + m + (n - e)
        /\ \A i \in 1..((b - 1) + m + (n - e)) :
             s[i] = IF i <= (b - 1) + m THEN ft[i] ELSE back[i - ((b - 1) + m)]
    BY <1>4, <2>1, <2>2, <2>3
  <2>. QED  BY <2>4 DEF ft
<1>7. Spliced(c, b, e, t) = s
  BY DEF Spliced, front, back
<1>. HIDE DEF s, n, m
<1>8. ASSUME NEW i \in 1..(b - 1)  PROVE s[i] = c[i]
  <2>1. i \in 1..((b - 1) + m + (n - e)) /\ i <= (b - 1) + m /\ i <= b - 1 /\ i \in 1..((b - 1) + m)
    BY <1>1
  <2>. QED  BY <1>3, <1>5, <1>6, <2>1 DEF s
<1>9. ASSUME NEW i \in 1..m  PROVE s[(b - 1) + i] = t[i]
  <2>1. /\ (b - 1) + i \in 1..((b - 1) + m + (n - e)) /\ (b - 1) + i <= (b - 1) + m
        /\ ~((b - 1) + i <= b - 1) /\ (b - 1) + i \in 1..((b - 1) + m) /\ ((b - 1) + i) - (b - 1) = i
    BY <1>1
  <2>. QED  BY <1>5, <1>6, <2>1 DEF s
<1>10. ASSUME NEW i \in 1..(n - e)  PROVE s[(b - 1) + m + i] = c[e + i]
  <2>1. /\ (b - 1) + m + i \in 1..((b - 1) + m + (n - e)) /\ ~((b - 1) + m + i <= (b - 1) + m)
        /\ ((b - 1) + m + i) - ((b - 1) + m) = i
    BY <1>1
  <2>. QED  BY <1>4, <1>6, <2>1 DEF s
<1>. QED  BY <1>6, <1>7, <1>8, <1>9, <1>10 DEF s, n, m

\* Its depths are those in front, those of the piece on top of that, and those behind.
LEMMA SplicedDepth ==
  ASSUME NEW c \in Seq(Nodes), NEW t, Whole(t), NEW b \in DOMAIN c, NEW e \in b..Len(c),
         Depth(c, e) = Depth(c, b - 1)
  PROVE  LET s == Spliced(c, b, e, t)
         IN  /\ \A i \in 0..(b - 1) : Depth(s, i) = Depth(c, i)
             /\ \A i \in 0..Len(t) : Depth(s, (b - 1) + i) = Depth(c, b - 1) + Depth(t, i)
             /\ \A i \in 0..(Len(c) - e) : Depth(s, (b - 1) + Len(t) + i) = Depth(c, e + i)
<1>. DEFINE s == Spliced(c, b, e, t)
            n == Len(c)
            m == Len(t)
<1>1. n \in Nat /\ m \in Nat /\ b \in 1..n /\ e \in b..n /\ t \in Seq(Nodes) /\ Depth(t, m) = 0
  BY LenProperties DEF Whole
<1>2. /\ \A i \in 1..(b - 1) : s[i] = c[i]
      /\ \A i \in 1..m : s[(b - 1) + i] = t[i]
      /\ \A i \in 1..(n - e) : s[(b - 1) + m + i] = c[e + i]
  <2>1. t \in Seq(Nodes)
    BY <1>1
  <2>. QED  BY <2>1, SplicedNodes, Zenon
<1>. HIDE DEF s, n, m
<1>3. /\ Depth(s, 0) = 0 /\ Depth(c, 0) = 0 /\ Depth(t, 0) = 0
      /\ \A at \in Nat : Depth(s, at) \in Int /\ Depth(c, at) \in Int /\ Depth(t, at) \in Int
  BY DepthStep
<1>4. ASSUME NEW i \in 0..(b - 1)  PROVE Depth(s, i) = Depth(c, i)
  <2>1. 0 \in Nat /\ i \in Nat /\ i = 0 + i
    BY <1>1
  <2>2. Alike(s, 0, c, 0, i)
    <3>1. \A x \in 1..i : x \in 1..(b - 1) /\ 0 + x = x
      BY <1>1
    <3>. QED  BY <1>2, <3>1 DEF Alike
  <2>3. SameChange(s, 0, c, 0, i)
    BY <2>1, <2>2, DepthShift, Zenon
  <2>. QED  BY <1>3, <2>1, <2>3 DEF SameChange
<1>5. ASSUME NEW i \in 0..m  PROVE Depth(s, (b - 1) + i) = Depth(c, b - 1) + Depth(t, i)
  <2>1. 0 \in Nat /\ b - 1 \in Nat /\ i \in Nat /\ i = 0 + i /\ (b - 1) + i \in Nat /\ b - 1 \in 0..(b - 1)
    BY <1>1
  <2>2. Alike(s, b - 1, t, 0, i)
    <3>1. \A x \in 1..i : x \in 1..m /\ 0 + x = x
      BY <1>1
    <3>. QED  BY <1>2, <3>1 DEF Alike
  <2>3. SameChange(s, b - 1, t, 0, i)
    BY <2>1, <2>2, DepthShift, Zenon
  <2>4. Depth(s, b - 1) = Depth(c, b - 1)
    BY <2>1, <1>4
  <2>5. /\ Depth(s, (b - 1) + i) \in Int /\ Depth(c, b - 1) \in Int /\ Depth(t, i) \in Int
        /\ Depth(t, 0) = 0
    BY <2>1, <1>3
  <2>. QED  BY <2>1, <2>3, <2>4, <2>5 DEF SameChange
<1>6. ASSUME NEW i \in 0..(n - e)  PROVE Depth(s, (b - 1) + m + i) = Depth(c, e + i)
  <2>1. /\ (b - 1) + m \in Nat /\ e \in Nat /\ i \in Nat /\ e + i \in Nat /\ (b - 1) + m + i \in Nat
        /\ (b - 1) + m + i = ((b - 1) + m) + i /\ m \in 0..m /\ b - 1 \in Nat
    BY <1>1, SMTT(40)
  <2>2. Alike(s, (b - 1) + m, c, e, i)
    <3>1. \A x \in 1..i : x \in 1..(n - e)
      BY <1>1
    <3>. QED  BY <1>2, <3>1 DEF Alike
  <2>3. SameChange(s, (b - 1) + m, c, e, i)
    BY <2>1, <2>2, DepthShift, Zenon
  <2>4. Depth(s, (b - 1) + m) = Depth(c, b - 1) + Depth(t, m)
    BY <2>1, <1>5
  <2>5. /\ Depth(s, (b - 1) + m + i) \in Int /\ Depth(c, b - 1) \in Int /\ Depth(c, e + i) \in Int
        /\ Depth(t, m) = 0 /\ Depth(c, e) = Depth(c, b - 1)
    BY <2>1, <1>1, <1>3
  <2>. QED  BY <2>1, <2>3, <2>4, <2>5, SMTT(40) DEF SameChange
<1>. QED  BY <1>4, <1>5, <1>6 DEF s, n, m

\* A block is less deep in front of it than at it, and as deep there as at its end.
LEMMA BlockDepth ==
  ASSUME NEW c \in Seq(Nodes), NEW b \in DOMAIN c, c[b].kind = "block"
  PROVE  /\ Depth(c, b) = Depth(c, b - 1) + 1
         /\ Depth(c, b - 1) \in Int
         /\ b - 1 \in Nat
<1>1. b \in Nat /\ b > 0 /\ b - 1 \in Nat
  BY LenProperties
<1>. QED  BY <1>1, DepthStep DEF Bump

\* A place behind the piece, counted from the end of it.
LEMMA Behind ==
  ASSUME NEW n \in Nat, NEW e \in Nat, NEW k \in Nat, NEW at \in Nat,
         e <= n, k < at, at <= k + (n - e)
  PROVE  /\ at - k \in 0..(n - e)
         /\ k + (at - k) = at
         /\ e + (at - k) \in 0..n
OBVIOUS

\* A chain is balanced after a block was replaced exactly if it was before.
LEMMA SplicedBalanced ==
  ASSUME NEW c \in Seq(Nodes), NEW t, Whole(t), NEW b \in DOMAIN c, c[b].kind = "block",
         End(c, b) # Nowhere
  PROVE  Balanced(Spliced(c, b, End(c, b), t)) <=> Balanced(c)
<1>. DEFINE e == End(c, b)
            s == Spliced(c, b, e, t)
            n == Len(c)
            m == Len(t)
            l == Len(s)
<1>1. n \in Nat /\ m \in Nat /\ m > 1 /\ b \in 1..n /\ t \in Seq(Nodes)
  BY LenProperties DEF Whole
<1>2. /\ e \in (b + 1)..n
      /\ Depth(c, e) = Depth(c, b) - 1
      /\ Inside(c, b, e - 1)
  BY EndIs
<1>. HIDE DEF e
<1>3. /\ Depth(c, b) = Depth(c, b - 1) + 1
      /\ Depth(c, b - 1) \in Int
  BY BlockDepth
<1>4. e \in b..n /\ e \in Nat /\ b - 1 \in Nat /\ Depth(c, e) = Depth(c, b - 1)
  BY <1>1, <1>2, <1>3
<1>13. /\ \A at \in Nat : Depth(c, at) \in Int /\ Depth(t, at) \in Int
       /\ Depth(t, 0) = 0
  BY DepthStep
<1>5. s \in Seq(Nodes) /\ l = (b - 1) + m + (n - e)
  BY <1>1, <1>4, SplicedNodes
<1>6. /\ \A i \in 0..(b - 1) : Depth(s, i) = Depth(c, i)
      /\ \A i \in 0..m : Depth(s, (b - 1) + i) = Depth(c, b - 1) + Depth(t, i)
      /\ \A i \in 0..(n - e) : Depth(s, (b - 1) + m + i) = Depth(c, e + i)
  BY <1>4, SplicedDepth
<1>7. ASSUME NEW i \in 0..m  PROVE Depth(t, i) >= 0
  <2>1. i = 0 \/ i \in 1..(m - 1) \/ i = m
    BY <1>1
  <2>2. /\ \A at \in 1..(m - 1) : Depth(t, at) > 0
        /\ Depth(t, m) = 0 /\ Depth(t, 0) = 0
    BY <1>13 DEF Whole
  <2>3. i \in Nat /\ Depth(t, i) \in Int
    BY <1>1, <1>13
  <2>. QED  BY <2>1, <2>2, <2>3
<1>14. /\ n \in Nat /\ m \in Nat /\ b \in Nat /\ e \in Nat /\ l \in Nat
       /\ 1 <= b /\ b < e /\ e <= n /\ l = (b - 1) + m + (n - e)
  <2>1. l \in Nat
    BY <1>5, LenProperties
  <2>. QED  BY <1>1, <1>2, <1>5, <2>1, SMTT(40)
<1>. HIDE DEF s, l, n, m
<1>8. Depth(s, l) = Depth(c, n)
  <2>1. n - e \in 0..(n - e) /\ e + (n - e) = n
    BY <1>14
  <2>. QED  BY <1>5, <1>6, <2>1
<1>9. ASSUME \A at \in 0..n : Depth(c, at) >= 0, NEW at \in 0..l  PROVE Depth(s, at) >= 0
  <2>1. CASE at <= b - 1
    <3>1. at \in 0..(b - 1) /\ at \in 0..n
      BY <1>14, <2>1
    <3>. QED  BY <1>6, <1>9, <3>1
  <2>2. CASE at > b - 1 /\ at <= (b - 1) + m
    <3>1. at - (b - 1) \in 0..m /\ (b - 1) + (at - (b - 1)) = at /\ b - 1 \in 0..n
      BY <1>14, <2>2, SMTT(40)
    <3>2. Depth(s, at) = Depth(c, b - 1) + Depth(t, at - (b - 1))
      BY <1>6, <3>1
    <3>3. Depth(c, b - 1) >= 0 /\ Depth(t, at - (b - 1)) >= 0
      BY <1>7, <1>9, <3>1
    <3>4. at - (b - 1) \in Nat
      BY <1>14, <3>1
    <3>5. Depth(t, at - (b - 1)) \in Int
      BY <1>13, <3>4
    <3>. QED  BY <1>3, <3>2, <3>3, <3>5
  <2>3. CASE at > (b - 1) + m
    <3>. DEFINE k == (b - 1) + m
                x == at - k
    <3>1. k \in Nat /\ at \in Nat /\ k < at /\ at <= k + (n - e) /\ e <= n
      BY <1>14, <2>3
    <3>4. \A i \in 0..(n - e) : Depth(s, k + i) = Depth(c, e + i)
      BY <1>6
    <3>5. n \in Nat /\ e \in Nat
      BY <1>14
    <3>. HIDE DEF k
    <3>2. x \in 0..(n - e) /\ k + x = at /\ e + x \in 0..n
      BY <3>1, <3>5, Behind
    <3>3. Depth(s, k + x) = Depth(c, e + x)
      BY <3>2, <3>4
    <3>. HIDE DEF x
    <3>. QED  BY <1>9, <3>2, <3>3
  <2>. QED  BY <1>14, <2>1, <2>2, <2>3
<1>10. ASSUME \A at \in 0..l : Depth(s, at) >= 0, NEW at \in 0..n  PROVE Depth(c, at) >= 0
  <2>0. b - 1 \in 0..l /\ b - 1 \in 0..(b - 1)
    BY <1>14
  <2>1. CASE at <= b - 1
    <3>1. at \in 0..(b - 1) /\ at \in 0..l
      BY <1>14, <2>1
    <3>. QED  BY <1>6, <1>10, <3>1
  <2>2. CASE at > b - 1 /\ at < e
    <3>1. at \in b..(e - 1) /\ at \in Nat /\ b \in Nat
      BY <1>14, <2>2
    <3>2. Depth(c, at) >= Depth(c, b) /\ Depth(c, b - 1) >= 0
      BY <1>2, <1>6, <1>10, <2>0, <3>1 DEF Inside
    <3>3. Depth(c, at) \in Int
      BY <1>13, <3>1
    <3>. QED  BY <1>3, <3>2, <3>3
  <2>3. CASE at >= e
    <3>1. at - e \in 0..(n - e) /\ e + (at - e) = at /\ (b - 1) + m + (at - e) \in 0..l
      BY <1>14, <2>3, SMTT(40)
    <3>. QED  BY <1>6, <1>10, <3>1
  <2>. QED  BY <1>14, <2>1, <2>2, <2>3
<1>11. /\ Balanced(s) <=> (\A at \in 0..l : Depth(s, at) >= 0) /\ Depth(s, l) = 0
       /\ Balanced(c) <=> (\A at \in 0..n : Depth(c, at) >= 0) /\ Depth(c, n) = 0
  BY <1>5, BalancedDepth DEF l, n
<1>12. Balanced(s) <=> Balanced(c)
  BY <1>8, <1>9, <1>10, <1>11
<1>. QED  BY <1>12 DEF s, e

-----------------------------------------------------------------------------
(* The blocks around a place. *)

\* The blocks that begin up to a place and do not end up to it.
Openings(c, at) == {x \in 1..at : c[x].kind = "block" /\ Inside(c, x, at)}

\* Of two of them the outer one is less deep.
LEMMA OuterIsLessDeep ==
  ASSUME NEW c \in Seq(Nodes), NEW at \in Nat, at <= Len(c),
         NEW x \in Openings(c, at), NEW y \in Openings(c, at), x < y
  PROVE  Depth(c, x) < Depth(c, y)
<1>1. Len(c) \in Nat /\ x \in 1..at /\ y \in 1..at /\ c[y].kind = "block" /\ Inside(c, x, at)
  BY LenProperties DEF Openings
<1>2. x \in Nat /\ y \in Nat /\ y - 1 \in x..at /\ y \in DOMAIN c
  BY <1>1, LenProperties
<1>3. Depth(c, y - 1) >= Depth(c, x)
  BY <1>1, <1>2 DEF Inside
<1>4. Depth(c, y) = Depth(c, y - 1) + 1 /\ Depth(c, y - 1) \in Int
  BY <1>1, <1>2, BlockDepth
<1>5. Depth(c, x) \in Int
  BY <1>2, DepthStep
<1>. QED  BY <1>3, <1>4, <1>5

\* Every depth up to that of the place is that of one of them.
LEMMA EveryDepthOpens ==
  ASSUME NEW c \in Seq(Nodes), NEW at \in Nat, at <= Len(c), NEW d \in 1..Depth(c, at)
  PROVE  \E x \in Openings(c, at) : Depth(c, x) = d
<1>. DEFINE from == {x \in 0..at : \A q \in x..at : Depth(c, q) >= d}
            x == Min(from)
<1>1. /\ Depth(c, 0) = 0
      /\ \A p \in Nat : Depth(c, p) \in Int
  BY DepthStep
<1>2. d \in Int /\ 1 <= d /\ d <= Depth(c, at)
  BY <1>1
<1>3. at \in from
  <2>1. at \in 0..at /\ \A q \in at..at : q = at
    OBVIOUS
  <2>2. Depth(c, at) >= d
    BY <1>1, <1>2
  <2>. QED  BY <2>1, <2>2
<1>4. from \subseteq Nat
  OBVIOUS
<1>5. x \in from /\ \A y \in from : x <= y
  BY <1>3, <1>4, LeastNatural
<1>. HIDE DEF x
<1>6. x \in 0..at /\ \A q \in x..at : Depth(c, q) >= d
  BY <1>5
<1>7. x \in Nat /\ x <= at /\ x \in x..at
  BY <1>6
<1>8. Depth(c, x) >= d
  BY <1>6, <1>7
<1>9. x # 0
  BY <1>1, <1>2, <1>8
<1>10. x - 1 \in Nat /\ x - 1 \in 0..at /\ ~(x <= x - 1) /\ \A q \in (x - 1)..at : q = x - 1 \/ q \in x..at
  BY <1>7, <1>9
<1>11. ~(Depth(c, x - 1) >= d)
  BY <1>5, <1>6, <1>10
<1>12. Depth(c, x) = Depth(c, x - 1) + Bump(c[x].kind)
  BY <1>7, <1>9, DepthStep
<1>13. Depth(c, x) \in Int /\ Depth(c, x - 1) \in Int
  BY <1>1, <1>7, <1>10
<1>14. c[x].kind = "block" /\ Depth(c, x) = d
  BY <1>2, <1>8, <1>11, <1>12, <1>13 DEF Bump
<1>15. x \in 1..at
  BY <1>7, <1>9
<1>. QED  BY <1>6, <1>14, <1>15 DEF Openings, Inside

\* They are as many as the place is deep, and each is as deep as it has of them up to it.
LEMMA OpeningsCounted ==
  ASSUME NEW c \in Seq(Nodes), NEW at \in Nat, at <= Len(c), \A q \in 0..at : Depth(c, q) >= 0
  PROVE  /\ Cardinality(Openings(c, at)) = Depth(c, at)
         /\ \A x \in Openings(c, at) :
              /\ Depth(c, x) \in 1..Depth(c, at)
              /\ Cardinality({y \in Openings(c, at) : y <= x}) = Depth(c, x)
<1>. DEFINE O == Openings(c, at)
<1>1. \A p \in Nat : Depth(c, p) \in Int
  BY DepthStep
<1>2. Len(c) \in Nat /\ DOMAIN c = 1..Len(c)
  BY LenProperties
<1>3. ASSUME NEW x \in O  PROVE x \in Nat /\ Depth(c, x) \in 1..Depth(c, at)
  <2>1. x \in 1..at /\ c[x].kind = "block" /\ Inside(c, x, at)
    BY DEF Openings
  <2>2. x \in Nat /\ x \in DOMAIN c /\ x - 1 \in 0..at /\ at \in x..at
    BY <1>2, <2>1
  <2>3. Depth(c, x) = Depth(c, x - 1) + 1 /\ Depth(c, x - 1) >= 0 /\ Depth(c, x - 1) \in Int
    BY <2>1, <2>2, BlockDepth
  <2>4. Depth(c, at) >= Depth(c, x)
    BY <2>1, <2>2 DEF Inside
  <2>5. Depth(c, at) \in Int
    BY <1>1
  <2>. QED  BY <2>2, <2>3, <2>4, <2>5
<1>4. ASSUME NEW k \in Nat, k <= Depth(c, at), NEW S \in SUBSET O,
             \A x \in S : Depth(c, x) <= k, \A x \in O : Depth(c, x) <= k => x \in S
      PROVE  Cardinality(S) = k
  <2>. DEFINE f == [x \in S |-> Depth(c, x)]
  <2>1. ASSUME NEW x \in S  PROVE f[x] \in 1..k
    <3>1. Depth(c, x) \in 1..Depth(c, at) /\ Depth(c, x) <= k
      BY <1>3, <1>4
    <3>2. Depth(c, at) \in Int
      BY <1>1
    <3>3. Depth(c, x) \in 1..k
      BY <3>1, <3>2
    <3>. QED  BY <3>3
  <2>2. \A x, y \in S : f[x] = f[y] => x = y
    <3>. SUFFICES ASSUME NEW x \in S, NEW y \in S, x # y  PROVE f[x] # f[y]
      OBVIOUS
    <3>1. x \in Nat /\ y \in Nat /\ Depth(c, x) \in Int /\ Depth(c, y) \in Int
      BY <1>1, <1>3
    <3>2. CASE x < y
      <4>1. Depth(c, x) < Depth(c, y)
        BY <3>2, OuterIsLessDeep
      <4>. QED  BY <3>1, <4>1
    <3>3. CASE y < x
      <4>1. Depth(c, y) < Depth(c, x)
        BY <3>3, OuterIsLessDeep
      <4>. QED  BY <3>1, <4>1
    <3>. QED  BY <3>1, <3>2, <3>3
  <2>3. \A d \in 1..k : \E x \in S : f[x] = d
    <3>. SUFFICES ASSUME NEW d \in 1..k  PROVE \E x \in S : Depth(c, x) = d
      OBVIOUS
    <3>1. d \in 1..Depth(c, at)
      BY <1>1, <1>4
    <3>2. PICK x \in O : Depth(c, x) = d
      BY <3>1, EveryDepthOpens
    <3>3. x \in S
      BY <1>4, <3>2
    <3>. QED  BY <3>2, <3>3
  <2>4. f \in Bijection(S, 1..k)
    BY <2>1, <2>2, <2>3 DEF Bijection, Injection, Surjection, IsInjective
  <2>5. IsFiniteSet(1..k) /\ Cardinality(1..k) = k
    <3>1. 1 \in Int /\ k \in Int /\ (IF 1 > k THEN 0 ELSE k - 1 + 1) = k
      OBVIOUS
    <3>. QED  BY <3>1, FS_Interval
  <2>6. IsFiniteSet(S)
    <3>1. 1 \in Int /\ at \in Int
      OBVIOUS
    <3>2. IsFiniteSet(1..at)
      BY <3>1, FS_Interval
    <3>3. S \in SUBSET (1..at)
      BY DEF Openings
    <3>. QED  BY <3>2, <3>3, FS_Subset
  <2>7. ExistsBijection(S, 1..k)
    BY <2>4 DEF ExistsBijection
  <2>8. Cardinality(S) = Cardinality(1..k)
    BY <2>5, <2>6, <2>7, FS_Bijection
  <2>. QED  BY <2>5, <2>8
<1>5. Cardinality(O) = Depth(c, at)
  <2>1. Depth(c, at) \in Nat
    BY <1>1
  <2>2. \A x \in O : Depth(c, x) <= Depth(c, at)
    BY <1>3, <2>1
  <2>. QED  BY <1>4, <2>1, <2>2
<1>6. ASSUME NEW x \in O  PROVE Cardinality({y \in O : y <= x}) = Depth(c, x)
  <2>1. Depth(c, x) \in Nat /\ Depth(c, x) <= Depth(c, at) /\ x \in Nat
    BY <1>1, <1>3
  <2>2. ASSUME NEW y \in O  PROVE (Depth(c, y) <= Depth(c, x)) <=> y <= x
    <3>1. y \in Nat /\ Depth(c, y) \in Int
      BY <1>1, <1>3
    <3>2. x < y => Depth(c, x) < Depth(c, y)
      BY OuterIsLessDeep
    <3>3. y < x => Depth(c, y) < Depth(c, x)
      BY OuterIsLessDeep
    <3>. QED  BY <2>1, <3>1, <3>2, <3>3
  <2>. QED  BY <1>4, <2>1, <2>2
<1>. QED  BY <1>3, <1>5, <1>6

\* In a balanced chain every block has an end.
LEMMA BlockEnds ==
  ASSUME NEW c \in Seq(Nodes), Balanced(c), NEW b \in DOMAIN c, c[b].kind = "block"
  PROVE  /\ End(c, b) \in (b + 1)..Len(c)
         /\ Depth(c, End(c, b)) = Depth(c, b) - 1
         /\ c[End(c, b)].kind = "endblock"
         /\ Inside(c, b, End(c, b) - 1)
<1>1. Len(c) \in Nat /\ b \in 1..Len(c) /\ b - 1 \in 0..Len(c) /\ Len(c) \in b..Len(c)
  BY LenProperties
<1>2. Depth(c, b - 1) >= 0 /\ Depth(c, Len(c)) = 0
  BY <1>1, BalancedDepth
<1>3. Depth(c, b) = Depth(c, b - 1) + 1 /\ Depth(c, b - 1) \in Int
  BY BlockDepth
<1>4. ~(Depth(c, Len(c)) >= Depth(c, b))
  BY <1>2, <1>3
<1>5. ~Inside(c, b, Len(c))
  BY <1>1, <1>4 DEF Inside
<1>. QED  BY <1>5, EndIs

\* What is called around a place are the blocks the chain has been inside of from their
\* beginning on.
LEMMA AroundIs ==
  ASSUME template \in Seq(Nodes), Balanced(template), NEW at \in DOMAIN template
  PROVE  Around(at) = Openings(template, at)
<1>1. Len(template) \in Nat /\ at \in 1..Len(template) /\ DOMAIN template = 1..Len(template)
  BY LenProperties
<1>2. ASSUME NEW b \in 1..at, template[b].kind = "block"
      PROVE  EndOf(b) > at <=> Inside(template, b, at)
  <2>. DEFINE e == End(template, b)
  <2>1. b \in DOMAIN template /\ b \in Nat
    BY <1>1
  <2>2. /\ e \in (b + 1)..Len(template)
        /\ Depth(template, e) = Depth(template, b) - 1
        /\ Inside(template, b, e - 1)
    BY <1>2, <2>1, BlockEnds
  <2>3. EndOf(b) = e
    BY DEF EndOf, End
  <2>. HIDE DEF e
  <2>4. Depth(template, b) \in Int
    BY <2>1, DepthStep
  <2>5. e \in Nat /\ at \in Nat /\ b <= at
    BY <1>1, <2>1, <2>2
  <2>6. CASE e > at
    <3>1. \A q \in b..at : q \in b..(e - 1)
      BY <2>1, <2>5, <2>6
    <3>. QED  BY <2>2, <2>3, <2>6, <3>1 DEF Inside
  <2>7. CASE ~(e > at)
    <3>1. e \in b..at
      BY <2>1, <2>2, <2>5, <2>7
    <3>2. ~(Depth(template, e) >= Depth(template, b))
      BY <2>2, <2>4
    <3>. QED  BY <2>3, <2>7, <3>1, <3>2 DEF Inside
  <2>. QED  BY <2>6, <2>7
<1>3. \A b \in 1..at : IsBlock(b) <=> template[b].kind = "block"
  BY <1>1 DEF IsBlock
<1>. QED  BY <1>2, <1>3 DEF Around, Openings

-----------------------------------------------------------------------------
(* From one block or endblock to the next. *)

\* No block and no endblock behind from and up to to.
Plain(c, from, to) == \A q \in (from + 1)..to : c[q].kind \notin {"block", "endblock"}

\* The depth is the same all the way.
LEMMA PlainIsLevel ==
  ASSUME NEW c, NEW from \in Nat, NEW to \in Nat, Plain(c, from, to), NEW q \in from..to
  PROVE  Depth(c, q) = Depth(c, from)
<1>. DEFINE S == {n \in Nat : from + n <= to => Depth(c, from + n) = Depth(c, from)}
<1>1. 0 \in S
  <2>1. from + 0 = from
    OBVIOUS
  <2>. QED  BY <2>1
<1>2. ASSUME NEW n \in Nat, n \in S  PROVE n + 1 \in S
  <2>. SUFFICES ASSUME from + (n + 1) <= to
                PROVE  Depth(c, from + (n + 1)) = Depth(c, from)
    OBVIOUS
  <2>1. /\ from + (n + 1) \in Nat /\ from + (n + 1) > 0 /\ (from + (n + 1)) - 1 = from + n
        /\ from + (n + 1) \in (from + 1)..to /\ from + n <= to /\ from + n \in Nat
    OBVIOUS
  <2>2. Depth(c, from + (n + 1)) = Depth(c, from + n) + Bump(c[from + (n + 1)].kind)
    BY <2>1, DepthStep
  <2>3. Bump(c[from + (n + 1)].kind) = 0
    BY <2>1 DEF Plain, Bump
  <2>4. Depth(c, from + n) = Depth(c, from)
    BY <1>2, <2>1
  <2>5. Depth(c, from + n) \in Int
    BY <2>1, DepthStep
  <2>. QED  BY <2>2, <2>3, <2>4, <2>5
<1>. HIDE DEF S
<1>3. q - from \in Nat /\ from + (q - from) = q /\ q <= to
  OBVIOUS
<1>4. q - from \in S
  BY <1>1, <1>2, <1>3, SetInduction
<1>. QED  BY <1>3, <1>4 DEF S

\* The next owner is the place in front of the next block or endblock.
LEMMA NextOwner ==
  ASSUME template \in Seq(Nodes), Nil \notin Nat, NEW from \in DOMAIN template
  PROVE  \/ nextOwnerOfBlockCommand(from) = Nil /\ Plain(template, from, Len(template))
         \/ LET at == nextOwnerOfBlockCommand(from)
            IN  /\ at # Nil /\ at \in from..(Len(template) - 1)
                /\ IsBlock(at + 1) \/ IsEndBlock(at + 1)
                /\ Plain(template, from, at)
<1>. DEFINE owners == OwnersFrom(from)
<1>1. Len(template) \in Nat /\ from \in 1..Len(template) /\ DOMAIN template = 1..Len(template) /\ from \in Nat
  BY LenProperties
<1>2. ASSUME NEW p \in from..Len(template), p \notin owners, NEW q, q = p + 1, q <= Len(template)
      PROVE  template[q].kind \notin {"block", "endblock"}
  <2>1. q \in DOMAIN template
    BY <1>1, <1>2
  <2>. QED  BY <1>2, <2>1 DEF OwnersFrom, IsBlock, IsEndBlock
<1>3. CASE owners = {}
  <2>1. \A q \in (from + 1)..Len(template) : q - 1 \in from..Len(template) /\ q = (q - 1) + 1 /\ q <= Len(template)
    BY <1>1
  <2>2. Plain(template, from, Len(template))
    BY <1>2, <1>3, <2>1 DEF Plain
  <2>. QED  BY <1>3, <2>2 DEF nextOwnerOfBlockCommand
<1>4. CASE owners # {}
  <2>. DEFINE at == Min(owners)
  <2>1. owners \subseteq Nat
    BY <1>1 DEF OwnersFrom
  <2>2. at \in owners /\ \A p \in owners : at <= p
    BY <1>4, <2>1, LeastNatural
  <2>3. nextOwnerOfBlockCommand(from) = at
    BY <1>4 DEF nextOwnerOfBlockCommand
  <2>. HIDE DEF at
  <2>4. at \in from..Len(template) /\ (IsBlock(at + 1) \/ IsEndBlock(at + 1))
    BY <2>2 DEF OwnersFrom
  <2>5. at + 1 \in 1..Len(template)
    BY <1>1, <2>4 DEF IsBlock, IsEndBlock
  <2>6. at \in Nat /\ at \in from..(Len(template) - 1)
    BY <1>1, <2>4, <2>5
  <2>7. Plain(template, from, at)
    <3>. SUFFICES ASSUME NEW q \in (from + 1)..at
                  PROVE  template[q].kind \notin {"block", "endblock"}
      BY DEF Plain
    <3>1. q - 1 \in from..Len(template) /\ q = (q - 1) + 1 /\ q <= Len(template) /\ ~(at <= q - 1)
      BY <1>1, <2>6
    <3>2. q - 1 \notin owners
      BY <2>2, <3>1
    <3>. QED  BY <1>2, <3>1, <3>2
  <2>. QED  BY <2>3, <2>4, <2>6, <2>7
<1>. QED  BY <1>3, <1>4

-----------------------------------------------------------------------------
(* The ends of blocks in a chain that a piece was put into. *)

\* The piece ends the block it begins with.
LEMMA SplicedSelf ==
  ASSUME NEW c \in Seq(Nodes), NEW t, Whole(t), NEW b \in DOMAIN c, NEW e \in b..Len(c),
         Depth(c, e) = Depth(c, b - 1), t[1].kind = "block"
  PROVE  End(Spliced(c, b, e, t), b) = b + Len(t) - 1
<1>. DEFINE s == Spliced(c, b, e, t)
            n == Len(c)
            m == Len(t)
            l == Len(s)
            f == b + m - 1
<1>0. t \in Seq(Nodes)
  BY DEF Whole
<1>1. n \in Nat /\ m \in Nat /\ m > 1 /\ b \in Nat /\ e \in Nat /\ 1 <= b /\ b <= e /\ e <= n
  BY <1>0, LenProperties DEF Whole
<1>2. s \in Seq(Nodes) /\ l = (b - 1) + m + (n - e)
  BY <1>0, SplicedNodes
<1>3. \A i \in 0..m : Depth(s, (b - 1) + i) = Depth(c, b - 1) + Depth(t, i)
  BY SplicedDepth
<1>4. /\ \A at \in 1..(m - 1) : Depth(t, at) > 0
      /\ Depth(t, m) = 0
  BY DEF Whole
<1>5. Depth(t, 1) = 1
  <2>1. 1 \in DOMAIN t /\ 1 - 1 = 0
    BY <1>0, <1>1, LenProperties
  <2>2. Depth(t, 0) = 0
    BY DepthStep
  <2>. QED  BY <1>0, <2>1, <2>2, BlockDepth
<1>. HIDE DEF s, n, m, l
<1>6. b \in 1..l /\ f \in (b + 1)..l
  BY <1>1, <1>2
<1>7. b \in DOMAIN s
  BY <1>2, <1>6, LenProperties DEF l
<1>8. Depth(s, b) = Depth(c, b - 1) + 1
  <2>1. 1 \in 0..m /\ (b - 1) + 1 = b
    BY <1>1
  <2>. QED  BY <1>3, <1>5, <2>1
<1>9. Depth(c, b - 1) \in Int
  <2>1. b - 1 \in Nat
    BY <1>1
  <2>. QED  BY <2>1, DepthStep
<1>10. Depth(s, f) < Depth(s, b)
  <2>1. m \in 0..m /\ (b - 1) + m = f
    BY <1>1
  <2>2. Depth(s, f) = Depth(c, b - 1) + 0
    BY <1>3, <1>4, <2>1
  <2>. QED  BY <1>8, <1>9, <2>2
<1>11. Inside(s, b, f - 1)
  <2>. SUFFICES ASSUME NEW q \in b..(f - 1)  PROVE Depth(s, q) >= Depth(s, b)
    BY DEF Inside
  <2>. DEFINE i == q - (b - 1)
  <2>1. i \in 1..(m - 1) /\ i \in 0..m /\ i \in Nat /\ (b - 1) + i = q
    BY <1>1, SMTT(40)
  <2>. HIDE DEF i, f
  <2>2. Depth(s, q) = Depth(c, b - 1) + Depth(t, i)
    BY <1>3, <2>1
  <2>3. Depth(t, i) > 0
    BY <1>4, <2>1
  <2>4. Depth(t, i) \in Int
    BY <2>1, DepthStep
  <2>. QED  BY <1>8, <1>9, <2>2, <2>3, <2>4
<1>12. End(s, b) = f
  <2>. HIDE DEF f
  <2>1. f \in (b + 1)..Len(s)
    BY <1>6 DEF l
  <2>. QED  BY <1>2, <1>7, <1>10, <1>11, <2>1, EndFound
<1>. QED  BY <1>12 DEF s, m

\* A place behind k is as far behind it as a place from x to f is behind e.
ShiftedFrom(k, e, n, x, f) ==
  \A q \in Nat : k < q /\ q < k + (f - e) =>
    q - k \in 0..(n - e) /\ k + (q - k) = q /\ e + (q - k) \in x..(f - 1)

\* The places from b to k are m.
Counted(b, k, m) ==
  \A q \in Nat : b - 1 < q /\ q <= k =>
    q - (b - 1) \in 0..m /\ (b - 1) + (q - (b - 1)) = q /\ q - (b - 1) \in Nat

\* A block at x of n nodes ends at f, behind e, the end of the one at b; m nodes are put in
\* the place of that, up to k; the end at f will be at g.
Moved(n, m, b, e, x, f, k, g) ==
  /\ n \in Nat /\ m \in Nat /\ b \in Nat /\ e \in Nat /\ x \in Nat /\ f \in Nat
  /\ x < b /\ b < e /\ e < f /\ f <= n
  /\ k = (b - 1) + m /\ g = k + (f - e)

\* The places of what is behind the piece, before and after it was put in.
LEMMA BehindPiece ==
  ASSUME NEW n, NEW m, NEW b, NEW e, NEW x, NEW f, NEW k, NEW g, Moved(n, m, b, e, x, f, k, g)
  PROVE  /\ k \in Nat /\ g \in Nat
         /\ f - e \in 0..(n - e) /\ e + (f - e) = f
         /\ g \in (x + 1)..((b - 1) + m + (n - e))
         /\ ShiftedFrom(k, e, n, x, f) /\ Counted(b, k, m)
<1>. USE DEF Moved
<1>1. /\ k \in Nat /\ g \in Nat
      /\ f - e \in 0..(n - e) /\ e + (f - e) = f
      /\ g \in (x + 1)..((b - 1) + m + (n - e))
  OBVIOUS
<1>2. ASSUME NEW q \in Nat, k < q, q < k + (f - e)
      PROVE  q - k \in 0..(n - e) /\ k + (q - k) = q /\ e + (q - k) \in x..(f - 1)
  BY <1>2
<1>3. ASSUME NEW q \in Nat, b - 1 < q, q <= k
      PROVE  q - (b - 1) \in 0..m /\ (b - 1) + (q - (b - 1)) = q /\ q - (b - 1) \in Nat
  BY <1>3
<1>. QED  BY <1>1, <1>2, <1>3 DEF ShiftedFrom, Counted

\* A block in front of it ends where it did: in front of the piece, or behind it.
LEMMA SplicedEnd ==
  ASSUME NEW c \in Seq(Nodes), NEW t, Whole(t), NEW b \in DOMAIN c, c[b].kind = "block",
         NEW e \in (b + 1)..Len(c), Depth(c, e) = Depth(c, b) - 1, Inside(c, b, e - 1),
         NEW x \in 1..(b - 1), NEW f \in (x + 1)..Len(c), Depth(c, f) = Depth(c, x) - 1,
         Inside(c, x, f - 1), c[f].kind = "endblock"
  PROVE  \/ f < b /\ End(Spliced(c, b, e, t), x) = f
         \/ f > e /\ End(Spliced(c, b, e, t), x) = (b - 1) + Len(t) + (f - e)
<1>. DEFINE s == Spliced(c, b, e, t)
            n == Len(c)
            m == Len(t)
            l == Len(s)
<1>0. t \in Seq(Nodes)
  BY DEF Whole
<1>1. /\ n \in Nat /\ m \in Nat /\ m > 1 /\ b \in Nat /\ e \in Nat /\ x \in Nat /\ f \in Nat
      /\ 1 <= x /\ x < b /\ b < e /\ e <= n /\ x < f /\ f <= n
  BY <1>0, LenProperties DEF Whole
<1>2. Depth(c, b) = Depth(c, b - 1) + 1 /\ b - 1 \in Nat
  BY BlockDepth
<1>3. \A at \in Nat : Depth(c, at) \in Int /\ Depth(t, at) \in Int /\ Depth(s, at) \in Int
  BY DepthStep
<1>4. e \in b..n /\ Depth(c, e) = Depth(c, b - 1)
  <2>1. Depth(c, b - 1) \in Int
    BY <1>2, <1>3
  <2>. QED  BY <1>1, <1>2, <2>1
<1>5. s \in Seq(Nodes) /\ l = (b - 1) + m + (n - e)
  BY <1>0, <1>4, SplicedNodes
<1>6. /\ \A i \in 0..(b - 1) : Depth(s, i) = Depth(c, i)
      /\ \A i \in 0..m : Depth(s, (b - 1) + i) = Depth(c, b - 1) + Depth(t, i)
      /\ \A i \in 0..(n - e) : Depth(s, (b - 1) + m + i) = Depth(c, e + i)
  BY <1>4, SplicedDepth
<1>7. ASSUME NEW i \in 0..m  PROVE Depth(t, i) >= 0
  <2>1. i = 0 \/ i \in 1..(m - 1) \/ i = m
    BY <1>1
  <2>2. Depth(t, 0) = 0
    BY DepthStep
  <2>3. /\ \A at \in 1..(m - 1) : Depth(t, at) > 0
        /\ Depth(t, m) = 0
    BY DEF Whole
  <2>4. i \in Nat
    BY <1>1
  <2>5. Depth(t, i) \in Int
    BY <1>3, <2>4
  <2>. QED  BY <2>1, <2>2, <2>3, <2>5
<1>. HIDE DEF s, n, m, l
<1>14. l = (b - 1) + m + (n - e)
  BY <1>5
<1>8. x \in 0..(b - 1) /\ x \in DOMAIN s /\ Depth(s, x) = Depth(c, x)
  <2>1. x \in 0..(b - 1) /\ x \in 1..l
    BY <1>1, <1>14, SMTT(40)
  <2>. QED  BY <1>5, <1>6, <2>1, LenProperties DEF l
<1>9. Depth(c, x) \in Int /\ Depth(c, b) \in Int /\ Depth(c, b - 1) \in Int /\ Depth(c, f) \in Int
  BY <1>1, <1>2, <1>3
<1>10. CASE f < b
  <2>1. f \in 0..(b - 1) /\ f \in (x + 1)..l
    BY <1>1, <1>14, <1>10, SMTT(40)
  <2>2. Depth(s, f) < Depth(s, x)
    BY <1>6, <1>8, <1>9, <2>1
  <2>3. Inside(s, x, f - 1)
    <3>1. \A q \in x..(f - 1) : q \in 0..(b - 1)
      BY <1>1, <1>10, SMTT(40)
    <3>. QED  BY <1>6, <1>8, <3>1 DEF Inside
  <2>4. End(s, x) = f
    BY <1>5, <1>8, <2>1, <2>2, <2>3, EndFound DEF l
  <2>. QED  BY <1>10, <2>4 DEF s
<1>11. CASE f >= b /\ f <= e
  <2>1. b - 1 \in x..(f - 1)
    BY <1>1, <1>11
  <2>2. Depth(c, b - 1) >= Depth(c, x)
    BY <2>1 DEF Inside
  <2>3. Depth(c, f) >= Depth(c, b - 1)
    <3>1. CASE f = e
      BY <1>4, <1>9, <3>1
    <3>2. CASE f # e
      <4>1. f \in b..(e - 1)
        BY <1>1, <1>11, <3>2
      <4>2. Depth(c, f) >= Depth(c, b)
        BY <4>1 DEF Inside
      <4>. QED  BY <1>2, <1>9, <4>2
    <3>. QED  BY <3>1, <3>2
  <2>. QED  BY <1>9, <2>2, <2>3
<1>12. CASE f > e
  <2>. DEFINE k == (b - 1) + m
              g == k + (f - e)
  <2>a. k = (b - 1) + m /\ g = k + (f - e) /\ e < f
    BY <1>12
  <2>. HIDE DEF g, k
  <2>0. /\ k \in Nat /\ g \in Nat
        /\ f - e \in 0..(n - e) /\ e + (f - e) = f
        /\ g \in (x + 1)..((b - 1) + m + (n - e))
        /\ ShiftedFrom(k, e, n, x, f) /\ Counted(b, k, m)
    <3>1. /\ n \in Nat /\ m \in Nat /\ b \in Nat /\ e \in Nat /\ x \in Nat /\ f \in Nat
          /\ x < b /\ b < e /\ f <= n
      BY <1>1
    <3>2. Moved(n, m, b, e, x, f, k, g)
      BY <2>a, <3>1 DEF Moved
    <3>. QED  BY <3>2, BehindPiece, Zenon
  <2>1. k \in Nat /\ g \in Nat /\ f - e \in 0..(n - e) /\ e + (f - e) = f /\ g \in (x + 1)..l
    BY <1>14, <2>0
  <2>2. \A i \in 0..(n - e) : Depth(s, k + i) = Depth(c, e + i)
    BY <1>6 DEF k
  <2>3. b - 1 \in x..(f - 1)
    BY <1>1, <1>12
  <2>4. Depth(c, b - 1) >= Depth(c, x)
    BY <2>3 DEF Inside
  <2>5. Depth(s, g) < Depth(s, x)
    <3>1. Depth(s, g) = Depth(c, f)
      BY <2>1, <2>2 DEF g
    <3>. QED  BY <1>8, <1>9, <3>1
  <2>6. Inside(s, x, g - 1)
    <3>. SUFFICES ASSUME NEW q \in x..(g - 1)  PROVE Depth(s, q) >= Depth(c, x)
      BY <1>8 DEF Inside
    <3>0. q \in Nat /\ x <= q /\ q <= g - 1
      BY <1>1, <2>1
    <3>1. CASE q <= b - 1
      <4>1. q \in 0..(b - 1) /\ q \in x..(f - 1)
        BY <1>1, <1>12, <3>0, <3>1
      <4>2. Depth(s, q) = Depth(c, q)
        BY <1>6, <4>1
      <4>. QED  BY <4>1, <4>2 DEF Inside
    <3>2. CASE q > b - 1 /\ q <= k
      <4>. DEFINE i == q - (b - 1)
      <4>1. i \in 0..m /\ (b - 1) + i = q /\ i \in Nat
        BY <2>0, <3>0, <3>2 DEF Counted
      <4>. HIDE DEF i
      <4>2. Depth(s, q) = Depth(c, b - 1) + Depth(t, i)
        BY <1>6, <4>1
      <4>3. Depth(t, i) >= 0 /\ Depth(t, i) \in Int
        BY <1>3, <1>7, <4>1
      <4>. QED  BY <1>9, <2>4, <4>2, <4>3
    <3>3. CASE q > k
      <4>. DEFINE i == q - k
      <4>1. i \in 0..(n - e) /\ k + i = q /\ e + i \in x..(f - 1)
        <5>1. q < k + (f - e)
          BY <1>1, <2>a, <2>1, <3>0
        <5>. QED  BY <2>0, <3>0, <3>3, <5>1 DEF ShiftedFrom
      <4>. HIDE DEF i
      <4>2. Depth(s, q) = Depth(c, e + i)
        BY <2>2, <4>1
      <4>. QED  BY <4>1, <4>2 DEF Inside
    <3>4. q <= b - 1 \/ (q > b - 1 /\ q <= k) \/ q > k
      <4>. QED  BY <1>1, <2>1, <3>0
    <3>. QED  BY <3>1, <3>2, <3>3, <3>4
  <2>7. End(s, x) = g
    BY <1>5, <1>8, <2>1, <2>5, <2>6, EndFound DEF l
  <2>. QED  BY <1>12, <2>7 DEF s, m, g, k
<1>. QED  BY <1>1, <1>10, <1>11, <1>12

-----------------------------------------------------------------------------
(* The stack. *)

\* A stack names the blocks around a place, each at the depth it has.
Stacked(c, st, at) ==
  /\ Len(st) = Depth(c, at)
  /\ \A b \in Openings(c, at) : st[Depth(c, b)] = c[b].id

\* Two chains are the same up to a place.
SameUpTo(c, s, at) ==
  /\ \A q \in 1..at : s[q] = c[q]
  /\ \A q \in 0..at : Depth(s, q) = Depth(c, q)

\* A block in front of what is behind a plain piece is one in front of the piece.
LEMMA OpeningsKept ==
  ASSUME NEW c \in Seq(Nodes), NEW s \in Seq(Nodes), NEW from \in Nat, NEW at \in Nat,
         from <= at, Plain(c, from, at), SameUpTo(c, s, at),
         NEW b \in Openings(s, at + 1), b # at + 1
  PROVE  b \in Openings(c, from) /\ Depth(s, b) = Depth(c, b) /\ s[b] = c[b] /\ b \in Nat
<1>1. b \in 1..(at + 1) /\ s[b].kind = "block" /\ Inside(s, b, at + 1)
  BY DEF Openings
<1>2. b \in 1..at /\ b \in 0..at /\ b \in Nat
  BY <1>1
<1>3. s[b] = c[b] /\ Depth(s, b) = Depth(c, b)
  BY <1>2 DEF SameUpTo
<1>4. b \in 1..from
  <2>. SUFFICES ASSUME b > from  PROVE FALSE
    BY <1>2
  <2>1. b \in (from + 1)..at
    BY <1>2
  <2>. QED  BY <1>1, <1>3, <2>1 DEF Plain
<1>5. Inside(c, b, from)
  <2>. SUFFICES ASSUME NEW q \in b..from  PROVE Depth(c, q) >= Depth(c, b)
    BY DEF Inside
  <2>1. q \in b..(at + 1) /\ q \in 0..at
    BY <1>2
  <2>2. Depth(s, q) >= Depth(s, b) /\ Depth(s, q) = Depth(c, q)
    BY <1>1, <2>1 DEF Inside, SameUpTo
  <2>. QED  BY <1>3, <2>2
<1>. QED  BY <1>1, <1>2, <1>3, <1>4, <1>5 DEF Openings

\* Going into the next block, kept or put in, puts it on the stack.
LEMMA Pushed ==
  ASSUME NEW c \in Seq(Nodes), NEW s \in Seq(Nodes), NEW st \in Seq(Identifiers),
         NEW from \in Nat, NEW at \in Nat, from <= at, at <= Len(c), Balanced(c),
         Stacked(c, st, from), Plain(c, from, at), SameUpTo(c, s, at),
         at + 1 \in DOMAIN s, s[at + 1].kind = "block", NEW id \in Identifiers, id = s[at + 1].id
  PROVE  Stacked(s, Append(st, id), at + 1)
<1>. DEFINE d == Depth(c, from)
            new == Append(st, id)
<1>1. d \in Nat /\ Len(st) = d /\ Len(c) \in Nat
  <2>1. from \in 0..Len(c) /\ Len(c) \in Nat
    BY LenProperties
  <2>2. d >= 0 /\ d \in Int
    BY <2>1, BalancedDepth, DepthStep
  <2>. QED  BY <2>1, <2>2 DEF Stacked
<1>2. Depth(s, at + 1) = d + 1
  <2>1. at \in from..at /\ at \in 0..at /\ (at + 1) - 1 = at
    OBVIOUS
  <2>2. Depth(c, at) = d
    BY <2>1, PlainIsLevel
  <2>3. Depth(s, at) = d
    BY <2>1, <2>2 DEF SameUpTo
  <2>. QED  BY <2>1, <2>3, BlockDepth
<1>3. /\ Len(new) = Len(st) + 1
      /\ \A i \in 1..Len(st) : new[i] = st[i]
      /\ new[Len(st) + 1] = id
  BY AppendProperties
<1>. HIDE DEF d, new
<1>4. ASSUME NEW b \in Openings(s, at + 1)  PROVE new[Depth(s, b)] = s[b].id
  <2>1. CASE b = at + 1
    BY <1>1, <1>2, <1>3, <2>1
  <2>2. CASE b # at + 1
    <3>1. b \in Openings(c, from) /\ Depth(s, b) = Depth(c, b) /\ s[b] = c[b] /\ b \in Nat
      BY <2>2, OpeningsKept
    <3>2. Depth(c, b) \in 1..d
      <4>1. from <= Len(c) /\ \A q \in 0..from : q \in 0..Len(c)
        BY <1>1
      <4>2. \A q \in 0..from : Depth(c, q) >= 0
        BY <4>1, BalancedDepth
      <4>. QED  BY <3>1, <4>1, <4>2, OpeningsCounted DEF d
    <3>3. st[Depth(c, b)] = c[b].id
      BY <3>1 DEF Stacked
    <3>. QED  BY <1>1, <1>3, <3>1, <3>2, <3>3
  <2>. QED  BY <2>1, <2>2
<1>. QED  BY <1>1, <1>2, <1>3, <1>4 DEF Stacked, new

\* Going behind the next endblock takes the last one off, and there is one.
LEMMA Popped ==
  ASSUME NEW c \in Seq(Nodes), NEW st \in Seq(Identifiers),
         NEW from \in Nat, NEW at \in Nat, from <= at, at + 1 <= Len(c), Balanced(c),
         Stacked(c, st, from), Plain(c, from, at), c[at + 1].kind = "endblock"
  PROVE  /\ st # <<>>
         /\ Stacked(c, SubSeq(st, 1, Len(st) - 1), at + 1)
<1>. DEFINE d == Depth(c, from)
            new == SubSeq(st, 1, Len(st) - 1)
<1>1. Depth(c, at + 1) = d - 1 /\ d \in Int /\ d - 1 >= 0 /\ Len(st) = d
  <2>1. at \in from..at /\ (at + 1) - 1 = at /\ at + 1 > 0 /\ at + 1 \in Nat /\ at + 1 \in 0..Len(c)
    BY LenProperties
  <2>2. Depth(c, at) = d
    BY <2>1, PlainIsLevel
  <2>3. Depth(c, at + 1) = Depth(c, at) + Bump(c[at + 1].kind) /\ d \in Int
    BY <2>1, DepthStep
  <2>4. Bump(c[at + 1].kind) = -1
    BY DEF Bump
  <2>5. Depth(c, at + 1) >= 0
    BY <2>1, BalancedDepth
  <2>. QED  BY <2>2, <2>3, <2>4, <2>5 DEF Stacked
<1>2. st # <<>>
  <2>. HIDE DEF d
  <2>. QED  BY <1>1
<1>3. /\ Len(new) = d - 1
      /\ \A i \in 1..(d - 1) : new[i] = st[i]
  <2>. HIDE DEF d
  <2>1. /\ 1 \in Int /\ Len(st) - 1 \in Int
        /\ \A i \in 1..(Len(st) - 1) : st[i] \in Identifiers
    BY <1>1, ElementOfSeq
  <2>2. /\ Len(new) = IF 1 <= Len(st) - 1 THEN (Len(st) - 1) - 1 + 1 ELSE 0
        /\ \A i \in 1..((Len(st) - 1) - 1 + 1) : new[i] = st[1 + i - 1]
    BY <2>1, SubSeqProperties
  <2>. HIDE DEF new
  <2>3. (Len(st) - 1) - 1 + 1 = d - 1 /\ \A i \in 1..(d - 1) : 1 + i - 1 = i
    BY <1>1
  <2>. QED  BY <1>1, <2>2, <2>3
<1>. HIDE DEF d, new
<1>4. ASSUME NEW b \in Openings(c, at + 1)  PROVE new[Depth(c, b)] = c[b].id
  <2>1. b # at + 1
    BY DEF Openings
  <2>2. SameUpTo(c, c, at)
    BY DEF SameUpTo
  <2>3. b \in Openings(c, from)
    BY <2>1, <2>2, OpeningsKept
  <2>4. Depth(c, b) \in 1..(d - 1)
    <3>1. Len(c) \in Nat
      BY LenProperties
    <3>2. \A q \in 0..(at + 1) : q \in 0..Len(c)
      BY <3>1
    <3>3. \A q \in 0..(at + 1) : Depth(c, q) >= 0
      BY <3>2, BalancedDepth
    <3>4. at + 1 \in Nat
      OBVIOUS
    <3>. QED  BY <1>1, <3>3, <3>4, OpeningsCounted
  <2>5. st[Depth(c, b)] = c[b].id
    BY <2>3 DEF Stacked
  <2>. QED  BY <1>3, <2>4, <2>5
<1>. QED  BY <1>1, <1>2, <1>3, <1>4 DEF Stacked, new

-----------------------------------------------------------------------------
(* What is overridden. *)

\* The blocks up to a place that the table has are all of the file of the table.
Overriding(c, tab, upto) ==
  \A b \in 1..upto : c[b].kind = "block" /\ c[b].id \in DOMAIN tab =>
    \A p \in b..End(c, b) : c[p].file = child

\* They still are behind a plain piece and a node that is not a block of the table.
LEMMA OverridingGrows ==
  ASSUME NEW c, NEW tab, NEW from \in Nat, NEW at \in Nat, from <= at, Plain(c, from, at),
         Overriding(c, tab, from)
  PROVE  /\ Overriding(c, tab, at)
         /\ ~(c[at + 1].kind = "block" /\ c[at + 1].id \in DOMAIN tab) => Overriding(c, tab, at + 1)
<1>1. ASSUME NEW b \in 1..at, c[b].kind = "block"  PROVE b \in 1..from
  <2>. SUFFICES ASSUME b > from  PROVE FALSE
    OBVIOUS
  <2>1. b \in (from + 1)..at
    OBVIOUS
  <2>. QED  BY <1>1, <2>1 DEF Plain
<1>2. Overriding(c, tab, at)
  BY <1>1 DEF Overriding
<1>3. \A b \in 1..(at + 1) : b = at + 1 \/ b \in 1..at
  OBVIOUS
<1>. QED  BY <1>2, <1>3 DEF Overriding

\* What was put in in the place of a block is the table's, and so is still what was in
\* front of it, whether it ended before that or has it in the middle.
LEMMA PutInOverrides ==
  ASSUME NEW c \in Seq(Nodes), Balanced(c), NEW b \in DOMAIN c, c[b].kind = "block",
         NEW t, Whole(t), t[1].kind = "block", \A i \in DOMAIN t : t[i].file = child,
         NEW tab, Overriding(c, tab, b - 1)
  PROVE  Overriding(Spliced(c, b, End(c, b), t), tab, b)
<1>. DEFINE e == End(c, b)
            s == Spliced(c, b, e, t)
            n == Len(c)
            m == Len(t)
<1>0. t \in Seq(Nodes) /\ DOMAIN t = 1..m
  BY LenProperties DEF Whole
<1>1. n \in Nat /\ m \in Nat /\ m > 1 /\ b \in Nat /\ 1 <= b /\ b <= n /\ DOMAIN c = 1..n
  BY <1>0, LenProperties DEF Whole
<1>2. /\ e \in (b + 1)..n
      /\ Depth(c, e) = Depth(c, b) - 1
      /\ Inside(c, b, e - 1)
  BY BlockEnds
<1>. HIDE DEF e
<1>3. Depth(c, b) = Depth(c, b - 1) + 1 /\ Depth(c, b - 1) \in Int
  BY BlockDepth
<1>4. e \in b..n /\ e \in Nat /\ b < e /\ e <= n /\ Depth(c, e) = Depth(c, b - 1)
  BY <1>1, <1>2, <1>3
<1>5. /\ \A i \in 1..(b - 1) : s[i] = c[i]
      /\ \A i \in 1..m : s[(b - 1) + i] = t[i]
      /\ \A i \in 1..(n - e) : s[(b - 1) + m + i] = c[e + i]
  BY <1>0, <1>4, SplicedNodes
<1>6. \A i \in 1..m : t[i].file = child
  BY <1>0
<1>. HIDE DEF s, n, m
<1>7. End(s, b) = b + m - 1
  BY <1>4, SplicedSelf DEF s, m, n
<1>8. ASSUME NEW p \in Nat, b <= p, p <= b + m - 1  PROVE s[p].file = child
  <2>1. p - (b - 1) \in 1..m /\ (b - 1) + (p - (b - 1)) = p
    BY <1>1, <1>8
  <2>. QED  BY <1>5, <1>6, <2>1
<1>9. ASSUME NEW x \in 1..(b - 1), s[x].kind = "block", s[x].id \in DOMAIN tab,
             NEW p \in x..End(s, x)
      PROVE  s[p].file = child
  <2>. DEFINE f == End(c, x)
  <2>1. s[x] = c[x] /\ x \in DOMAIN c /\ x \in Nat /\ x \in 1..(b - 1) /\ x < b /\ 1 <= x
    BY <1>1, <1>5
  <2>2. \A q \in x..f : c[q].file = child
    BY <1>9, <2>1 DEF Overriding
  <2>3. /\ f \in (x + 1)..n
        /\ Depth(c, f) = Depth(c, x) - 1
        /\ c[f].kind = "endblock"
        /\ Inside(c, x, f - 1)
    BY <1>9, <2>1, BlockEnds DEF n
  <2>. HIDE DEF f
  <2>4. \/ f < b /\ End(s, x) = f
        \/ f > e /\ End(s, x) = (b - 1) + m + (f - e)
    BY <1>2, <2>1, <2>3, SplicedEnd DEF s, n, m
  <2>5. f \in Nat /\ x < f /\ f <= n
    BY <1>1, <2>1, <2>3
  <2>6. CASE f < b /\ End(s, x) = f
    <3>1. p \in x..f /\ p \in 1..(b - 1)
      BY <1>1, <2>1, <2>5, <2>6
    <3>. QED  BY <1>5, <2>2, <3>1
  <2>7. CASE f > e /\ End(s, x) = (b - 1) + m + (f - e)
    <3>0. p \in Nat /\ x <= p /\ p <= (b - 1) + m + (f - e)
      BY <1>1, <1>4, <2>1, <2>5, <2>7
    <3>1. CASE p < b
      <4>1. p \in x..f /\ p \in 1..(b - 1)
        BY <1>1, <1>4, <2>1, <2>5, <2>7, <3>0, <3>1
      <4>. QED  BY <1>5, <2>2, <4>1
    <3>2. CASE b <= p /\ p <= b + m - 1
      BY <1>8, <3>0, <3>2
    <3>3. CASE p > b + m - 1
      <4>. DEFINE k == (b - 1) + m
      <4>1. k \in Nat /\ \A i \in 1..(n - e) : s[k + i] = c[e + i]
        BY <1>1, <1>5
      <4>2. k < p /\ p <= k + (f - e)
        BY <1>1, <3>0, <3>3
      <4>. HIDE DEF k
      <4>. DEFINE i == p - k
      <4>3. i \in 1..(n - e) /\ k + i = p /\ e + i \in x..f
        BY <1>1, <1>4, <2>1, <2>5, <2>7, <3>0, <4>1, <4>2
      <4>. HIDE DEF i
      <4>4. s[p] = c[e + i]
        BY <4>1, <4>3
      <4>. QED  BY <2>2, <4>3, <4>4
    <3>. QED  BY <1>1, <3>0, <3>1, <3>2, <3>3
  <2>. QED  BY <2>4, <2>6, <2>7
<1>10. ASSUME NEW p \in b..End(s, b)  PROVE s[p].file = child
  BY <1>1, <1>7, <1>8
<1>11. \A x \in 1..b : x = b \/ x \in 1..(b - 1)
  BY <1>1
<1>12. Overriding(s, tab, b)
  BY <1>9, <1>10, <1>11 DEF Overriding
<1>. QED  BY <1>12 DEF s, e

\* In front of the piece nothing has changed.
LEMMA SplicedSame ==
  ASSUME NEW c \in Seq(Nodes), Balanced(c), NEW b \in DOMAIN c, c[b].kind = "block", NEW t, Whole(t)
  PROVE  SameUpTo(c, Spliced(c, b, End(c, b), t), b - 1)
<1>1. End(c, b) \in (b + 1)..Len(c) /\ Depth(c, End(c, b)) = Depth(c, b) - 1
  BY BlockEnds
<1>2. Depth(c, b) = Depth(c, b - 1) + 1 /\ Depth(c, b - 1) \in Int
  BY BlockDepth
<1>3. Len(c) \in Nat /\ b \in Nat /\ t \in Seq(Nodes)
  BY LenProperties DEF Whole
<1>4. End(c, b) \in b..Len(c) /\ Depth(c, End(c, b)) = Depth(c, b - 1)
  BY <1>1, <1>2, <1>3
<1>5. \A i \in 1..(b - 1) : Spliced(c, b, End(c, b), t)[i] = c[i]
  BY <1>3, <1>4, SplicedNodes
<1>6. \A i \in 0..(b - 1) : Depth(Spliced(c, b, End(c, b), t), i) = Depth(c, i)
  BY <1>4, SplicedDepth
<1>. QED  BY <1>5, <1>6 DEF SameUpTo

\* What the parser puts in the table is a whole block.
LEMMA TableIsWhole ==
  ASSUME InputsSound, NEW tab \in Tables, NEW id \in DOMAIN tab
  PROVE  /\ id \in Identifiers /\ Whole(tab[id])
         /\ tab[id][1].kind = "block" /\ tab[id][1].id = id
         /\ \A i \in DOMAIN tab[id] : tab[id][i].file = child
BY DEF InputsSound, Whole

-----------------------------------------------------------------------------
(* The invariant. *)

Types == table \in Tables /\ TypeOK

\* How far the expansion has come.
Visited == IF owner = Nil THEN Len(template) ELSE owner

IInv ==
  /\ Types
  /\ Balanced(template) => /\ Working => Stacked(template, open, owner)
                        /\ Overriding(template, table, Visited)
                        /\ RefusedOnlyIfRecursive

\* A node carries an identifier.
LEMMA NodeNames ==
  ASSUME NEW c \in Seq(Nodes), NEW at \in DOMAIN c
  PROVE  c[at].id \in Identifiers
<1>1. at \in 1..Len(c)
  BY LenProperties
<1>2. c[at] \in Nodes
  BY <1>1, ElementOfSeq
<1>. QED  BY <1>2 DEF Nodes

\* The place in front of the next block or endblock.
LEMMA NextPlace ==
  ASSUME InputsSound, TypeOK, Working, NEW at, at = nextOwnerOfBlockCommand(owner), at # Nil
  PROVE  /\ owner \in DOMAIN template /\ owner \in Nat /\ at \in Nat /\ owner <= at
         /\ at + 1 \in DOMAIN template /\ at + 1 <= Len(template) /\ at <= Len(template)
         /\ Plain(template, owner, at)
<1>1. template \in Seq(Nodes) /\ owner \in DOMAIN template /\ Nil \notin Nat
  BY DEF TypeOK, Working, InputsSound
<1>2. Len(template) \in Nat /\ DOMAIN template = 1..Len(template)
  BY <1>1, LenProperties
<1>3. at \in owner..(Len(template) - 1) /\ Plain(template, owner, at)
  BY <1>1, NextOwner
<1>4. owner \in 1..Len(template)
  BY <1>1, <1>2
<1>. QED  BY <1>1, <1>2, <1>3, <1>4

\* What a replacement makes of the chain.
LEMMA Replaced ==
  ASSUME InputsSound, Types, ReplaceBlock, raised' = "no"
  PROVE  LET at == nextOwnerOfBlockCommand(owner)
             b == at + 1
             id == template[b].id
         IN  /\ at # Nil /\ IsBlock(b) /\ id \in DOMAIN table
             /\ template[b].kind = "block" /\ End(template, b) # Nowhere
             /\ template' = Spliced(template, b, End(template, b), table[id])
             /\ owner' = b /\ open' = Append(open, id) /\ table' = table
             /\ template' \in Seq(Nodes) /\ b \in DOMAIN template'
             /\ template'[b] = table[id][1]
<1>. DEFINE at == nextOwnerOfBlockCommand(owner)
            b == at + 1
            id == template[b].id
            t == table[id]
            e == End(template, b)
<1>1. /\ at # Nil /\ IsBlock(b) /\ id \in DOMAIN table /\ e # Nowhere
      /\ template' = Spliced(template, b, e, t)
      /\ owner' = b /\ open' = Append(open, id) /\ table' = table
  BY DEF ReplaceBlock, EndOf, End, Splice, Spliced
<1>2. template \in Seq(Nodes) /\ b \in DOMAIN template /\ template[b].kind = "block"
  BY <1>1 DEF Types, TypeOK, IsBlock
<1>3. t \in Seq(Nodes) /\ Len(t) \in Nat /\ Len(t) > 1
  <2>1. Whole(t)
    BY <1>1, TableIsWhole DEF Types
  <2>. QED  BY <2>1, LenProperties DEF Whole
<1>4. Len(template) \in Nat /\ b \in 1..Len(template)
  BY <1>2, LenProperties
<1>. HIDE DEF b, id, t
<1>5. e \in (b + 1)..Len(template)
  BY <1>1, <1>2, EndIs
<1>6. e \in b..Len(template)
  BY <1>4, <1>5
<1>. HIDE DEF e
<1>7. /\ template' \in Seq(Nodes)
      /\ Len(template') = (b - 1) + Len(t) + (Len(template) - e)
      /\ \A i \in 1..Len(t) : template'[(b - 1) + i] = t[i]
  BY <1>1, <1>2, <1>3, <1>6, SplicedNodes
<1>8. b \in DOMAIN template' /\ template'[b] = t[1]
  <2>1. 1 \in 1..Len(t) /\ (b - 1) + 1 = b
    BY <1>3, <1>4
  <2>2. b \in 1..Len(template')
    BY <1>3, <1>4, <1>6, <1>7
  <2>. QED  BY <1>7, <2>1, <2>2, LenProperties
<1>. QED  BY <1>1, <1>2, <1>7, <1>8 DEF b, id, t, e

\* The types are inductive.
LEMMA TypesStep ==
  ASSUME InputsSound, Types, [ExpansionNext]_expansionVars
  PROVE  Types'
<1>1. template \in Seq(Nodes) /\ open \in Seq(Identifiers) /\ owner \in DOMAIN template \cup {Nil}
  BY DEF Types, TypeOK
<1>2. CASE Finish
  BY <1>1, <1>2 DEF Finish, Types, TypeOK
<1>3. CASE LeaveBlock
  <2>1. /\ UNCHANGED <<template, table>>
        /\ \/ raised' = "empty stack" /\ UNCHANGED <<owner, open>>
           \/ /\ open # <<>> /\ open' = SubSeq(open, 1, Len(open) - 1)
              /\ owner' \in DOMAIN template /\ UNCHANGED raised
    BY <1>3 DEF LeaveBlock, IsEndBlock
  <2>2. open # <<>> => SubSeq(open, 1, Len(open) - 1) \in Seq(Identifiers)
    BY <1>1
  <2>. QED  BY <2>1, <2>2 DEF Types, TypeOK
<1>4. CASE RefuseBlock
  BY <1>4 DEF RefuseBlock, Types, TypeOK
<1>5. CASE KeepBlock
  <2>. DEFINE b == nextOwnerOfBlockCommand(owner) + 1
  <2>1. /\ b \in DOMAIN template /\ open' = Append(open, template[b].id) /\ owner' = b
        /\ UNCHANGED <<template, table, raised>>
    BY <1>5 DEF KeepBlock, IsBlock
  <2>. HIDE DEF b
  <2>2. template[b].id \in Identifiers
    BY <1>1, <2>1, NodeNames
  <2>. QED  BY <2>1, <2>2, AppendProperties DEF Types, TypeOK
<1>6. CASE ReplaceBlock
  <2>. DEFINE id == template[nextOwnerOfBlockCommand(owner) + 1].id
  <2>1. /\ id \in DOMAIN table /\ open' = Append(open, id) /\ table' = table
        /\ \/ raised' = "no endblock" /\ UNCHANGED <<template, owner>>
           \/ raised' = "no"
    BY <1>6 DEF ReplaceBlock, Working
  <2>2. raised' = "no" => template' \in Seq(Nodes) /\ owner' \in DOMAIN template'
    BY <1>6, Replaced
  <2>. HIDE DEF id
  <2>3. id \in Identifiers
    BY <2>1 DEF Types, TypeOK
  <2>4. Append(open, id) \in Seq(Identifiers)
    BY <1>1, <2>3, AppendProperties
  <2>. QED  BY <2>1, <2>2, <2>4 DEF Types, TypeOK
<1>7. CASE UNCHANGED expansionVars
  BY <1>7 DEF expansionVars, Types, TypeOK
<1>. QED  BY <1>2, <1>3, <1>4, <1>5, <1>6, <1>7 DEF ExpansionNext

\* A step neither breaks nor mends the balance.
LEMMA BalanceStep ==
  ASSUME InputsSound, Types, [ExpansionNext]_expansionVars
  PROVE  Balanced(template') <=> Balanced(template)
<1>1. CASE template' = template
  BY <1>1
<1>2. CASE ReplaceBlock /\ raised' = "no"
  <2>. DEFINE b == nextOwnerOfBlockCommand(owner) + 1
              t == table[template[b].id]
  <2>1. /\ template[b].kind = "block" /\ End(template, b) # Nowhere /\ IsBlock(b)
        /\ template[b].id \in DOMAIN table
        /\ template' = Spliced(template, b, End(template, b), t)
    BY <1>2, Replaced
  <2>2. Whole(t)
    BY <2>1, TableIsWhole DEF Types
  <2>3. template \in Seq(Nodes) /\ b \in DOMAIN template
    BY <2>1 DEF Types, TypeOK, IsBlock
  <2>. HIDE DEF b, t
  <2>. QED  BY <2>1, <2>2, <2>3, SplicedBalanced
<1>3. template' = template \/ (ReplaceBlock /\ raised' = "no")
  BY DEF ExpansionNext, expansionVars, Finish, LeaveBlock, RefuseBlock, KeepBlock, ReplaceBlock, Working
<1>. QED  BY <1>1, <1>2, <1>3

\* The first place is the root of the template, with no block around it.
LEMMA IInvInit ==
  ASSUME InputsSound, ExpansionInit
  PROVE  IInv
<1>1. /\ template \in Seq(Nodes) /\ template # <<>> /\ template[1].kind = "template"
      /\ table \in Tables /\ owner = 1 /\ open = <<>> /\ raised = "no" /\ owner # Nil
  BY DEF InputsSound, ExpansionInit
<1>2. 1 \in DOMAIN template
  <2>1. Len(template) \in Nat /\ Len(template) # 0 /\ DOMAIN template = 1..Len(template)
    BY <1>1, EmptySeq, LenProperties
  <2>. QED  BY <2>1
<1>3. Types
  <2>1. \A id \in DOMAIN table : id \in Identifiers /\ table[id] \in Seq(Nodes)
    BY <1>1, TableIsWhole DEF Whole
  <2>2. open \in Seq(Identifiers)
    BY <1>1
  <2>. QED  BY <1>1, <1>2, <2>1, <2>2 DEF Types, TypeOK
<1>4. Stacked(template, open, owner)
  <2>1. Depth(template, 1) = 0
    <3>1. 1 \in Nat /\ 1 > 0 /\ 1 - 1 = 0
      OBVIOUS
    <3>2. Depth(template, 1) = Depth(template, 0) + Bump(template[1].kind) /\ Depth(template, 0) = 0
      BY <3>1, DepthStep
    <3>. QED  BY <1>1, <3>2 DEF Bump
  <2>2. Openings(template, 1) = {}
    <3>1. \A b \in 1..1 : b = 1
      OBVIOUS
    <3>. QED  BY <1>1, <3>1 DEF Openings
  <2>. QED  BY <1>1, <2>1, <2>2 DEF Stacked
<1>5. Overriding(template, table, Visited)
  <2>1. \A b \in 1..1 : b = 1
    OBVIOUS
  <2>. QED  BY <1>1, <2>1 DEF Overriding, Visited
<1>. QED  BY <1>1, <1>3, <1>4, <1>5 DEF IInv, RefusedOnlyIfRecursive

\* A block is refused because one around it has its name.
LEMMA RefusedIsInside ==
  ASSUME InputsSound, TypeOK, Balanced(template), Stacked(template, open, owner), RefuseBlock
  PROVE  LET at == nextOwnerOfBlockCommand(owner)
         IN  /\ at # Nil /\ IsBlock(at + 1)
             /\ \E b \in Around(owner) : template[b].id = template[at + 1].id
<1>. DEFINE at == nextOwnerOfBlockCommand(owner)
            id == template[at + 1].id
<1>1. Working /\ at # Nil /\ IsBlock(at + 1) /\ \E i \in DOMAIN open : open[i] = id
  BY DEF RefuseBlock, Expanding
<1>2. PICK i \in DOMAIN open : open[i] = id
  BY <1>1
<1>3. owner \in DOMAIN template /\ owner \in Nat /\ template \in Seq(Nodes) /\ open \in Seq(Identifiers)
  BY <1>1, LenProperties DEF TypeOK, Working
<1>4. owner <= Len(template)
  BY <1>3, LenProperties
<1>. HIDE DEF at
<1>5. i \in 1..Depth(template, owner)
  BY <1>2, <1>3, LenProperties DEF Stacked
<1>6. PICK b \in Openings(template, owner) : Depth(template, b) = i
  BY <1>3, <1>4, <1>5, EveryDepthOpens
<1>7. open[i] = template[b].id
  BY <1>6 DEF Stacked
<1>8. b \in Around(owner)
  BY <1>3, <1>6, AroundIs
<1>. QED  BY <1>1, <1>2, <1>7, <1>8 DEF at

\* The invariant is inductive.
LEMMA IInvStep ==
  ASSUME InputsSound, IInv, [ExpansionNext]_expansionVars
  PROVE  IInv'
<1>1. Types' /\ (Balanced(template') <=> Balanced(template))
  BY TypesStep, BalanceStep DEF IInv
<1>. SUFFICES ASSUME Balanced(template)
              PROVE  /\ Working' => Stacked(template', open', owner')
                     /\ Overriding(template', table', Visited')
                     /\ RefusedOnlyIfRecursive'
  BY <1>1 DEF IInv
<1>2. /\ Types /\ TypeOK /\ (Working => Stacked(template, open, owner))
      /\ Overriding(template, table, Visited) /\ RefusedOnlyIfRecursive
  BY DEF IInv, Types
<1>3. template \in Seq(Nodes) /\ open \in Seq(Identifiers) /\ Nil \notin Nat
  BY <1>2 DEF TypeOK, InputsSound
<1>4. ASSUME Working  PROVE /\ owner \in DOMAIN template /\ owner \in Nat /\ Visited = owner /\ raised = "no"
                            /\ Overriding(template, table, owner)
  <2>1. owner \in DOMAIN template /\ owner # Nil /\ raised = "no"
    BY <1>2, <1>4 DEF Working, TypeOK
  <2>. QED  BY <1>2, <1>3, <2>1, LenProperties DEF Visited
<1>5. raised' = "no" => RefusedOnlyIfRecursive'
  BY DEF RefusedOnlyIfRecursive
<1>6. CASE Finish
  <2>1. /\ Working /\ owner' = Nil /\ UNCHANGED <<template, table, open, raised>>
        /\ nextOwnerOfBlockCommand(owner) = Nil
    BY <1>6 DEF Finish
  <2>2. Plain(template, owner, Len(template))
    BY <1>3, <1>4, <2>1, NextOwner
  <2>3. owner <= Len(template) /\ Len(template) \in Nat
    BY <1>3, <1>4, <2>1, LenProperties
  <2>4. Overriding(template, table, Len(template))
    BY <1>4, <2>1, <2>2, <2>3, OverridingGrows
  <2>. QED  BY <1>4, <1>5, <2>1, <2>4 DEF Working, Visited
<1>. DEFINE at == nextOwnerOfBlockCommand(owner)
<1>7. CASE LeaveBlock
  <2>1. Working /\ at # Nil /\ IsEndBlock(at + 1) /\ UNCHANGED <<template, table>>
    BY <1>7 DEF LeaveBlock
  <2>. HIDE DEF at
  <2>2. /\ owner \in Nat /\ at \in Nat /\ owner <= at /\ at + 1 \in Nat
        /\ at + 1 <= Len(template) /\ Plain(template, owner, at)
    BY <1>2, <2>1, NextPlace DEF at
  <2>3. template[at + 1].kind = "endblock"
    BY <2>1 DEF IsEndBlock
  <2>4. open # <<>> /\ Stacked(template, SubSeq(open, 1, Len(open) - 1), at + 1)
    BY <1>2, <1>3, <2>1, <2>2, <2>3, Popped
  <2>5. /\ open' = SubSeq(open, 1, Len(open) - 1) /\ owner' = at + 1 /\ raised' = "no"
    BY <1>4, <1>7, <2>1, <2>4 DEF LeaveBlock, at
  <2>6. Overriding(template, table, at + 1)
    BY <1>4, <2>1, <2>2, <2>3, OverridingGrows
  <2>. QED  BY <1>3, <1>5, <2>1, <2>2, <2>4, <2>5, <2>6 DEF Visited
<1>8. CASE RefuseBlock
  <2>1. Working /\ raised' = "already expanded" /\ UNCHANGED <<template, table, owner, open>>
    BY <1>8 DEF RefuseBlock
  <2>2. at # Nil /\ IsBlock(at + 1) /\ \E b \in Around(owner) : template[b].id = template[at + 1].id
    BY <1>2, <1>8, <2>1, RefusedIsInside
  <2>3. RefusedOnlyIfRecursive'
    BY <2>1, <2>2 DEF RefusedOnlyIfRecursive, nextOwnerOfBlockCommand, OwnersFrom, IsBlock,
                      IsEndBlock, Around, EndOf
  <2>. QED  BY <1>2, <2>1, <2>3 DEF Working, Visited
<1>9. CASE KeepBlock
  <2>. DEFINE id == template[at + 1].id
  <2>1. /\ Working /\ at # Nil /\ IsBlock(at + 1) /\ id \notin DOMAIN table
        /\ open' = Append(open, id) /\ owner' = at + 1 /\ UNCHANGED <<template, table, raised>>
    BY <1>9 DEF KeepBlock
  <2>. HIDE DEF at
  <2>2. /\ owner \in Nat /\ at \in Nat /\ owner <= at /\ at + 1 \in Nat /\ at + 1 \in DOMAIN template
        /\ at <= Len(template) /\ Plain(template, owner, at)
    BY <1>2, <2>1, NextPlace DEF at
  <2>3. template[at + 1].kind = "block"
    BY <2>1 DEF IsBlock
  <2>4. id \in Identifiers
    BY <1>3, <2>2, NodeNames
  <2>5. SameUpTo(template, template, at)
    BY DEF SameUpTo
  <2>6. Stacked(template, Append(open, id), at + 1)
    <3>. HIDE DEF id
    <3>1. id = template[at + 1].id
      BY DEF id
    <3>. QED  BY <1>2, <1>3, <2>1, <2>2, <2>3, <2>4, <2>5, <3>1, Pushed
  <2>7. Overriding(template, table, at + 1)
    BY <1>4, <2>1, <2>2, OverridingGrows
  <2>. QED  BY <1>3, <1>4, <1>5, <2>1, <2>2, <2>6, <2>7 DEF Visited
<1>10. CASE ReplaceBlock
  <2>. DEFINE id == template[at + 1].id
              t == table[id]
              s == Spliced(template, at + 1, End(template, at + 1), t)
  <2>1. /\ Working /\ at # Nil /\ IsBlock(at + 1) /\ id \in DOMAIN table
        /\ End(template, at + 1) # Nowhere => raised' = "no"
    BY <1>4, <1>10 DEF ReplaceBlock, EndOf, End
  <2>. HIDE DEF at
  <2>2. /\ owner \in Nat /\ at \in Nat /\ owner <= at /\ at + 1 \in Nat /\ at + 1 \in DOMAIN template
        /\ at <= Len(template) /\ Plain(template, owner, at) /\ (at + 1) - 1 = at
    BY <1>2, <2>1, NextPlace DEF at
  <2>3. template[at + 1].kind = "block"
    BY <2>1 DEF IsBlock
  <2>4. End(template, at + 1) # Nowhere
    <3>1. End(template, at + 1) \in ((at + 1) + 1)..Len(template)
      BY <1>3, <2>2, <2>3, BlockEnds
    <3>. QED  BY <2>2, <3>1 DEF Nowhere
  <2>5. /\ template' = s /\ owner' = at + 1 /\ open' = Append(open, id) /\ table' = table
        /\ s \in Seq(Nodes) /\ at + 1 \in DOMAIN s /\ s[at + 1] = t[1] /\ raised' = "no"
    BY <1>2, <1>10, <2>1, <2>4, Replaced DEF at
  <2>6. /\ id \in Identifiers /\ Whole(t) /\ t[1].kind = "block" /\ t[1].id = id
        /\ \A i \in DOMAIN t : t[i].file = child
    BY <1>2, <2>1, TableIsWhole DEF Types
  <2>7. SameUpTo(template, s, at)
    BY <1>3, <2>2, <2>3, <2>6, SplicedSame
  <2>8. Overriding(template, table, at)
    BY <1>4, <2>1, <2>2, OverridingGrows
  <2>9. Overriding(s, table, at + 1)
    BY <1>3, <2>2, <2>3, <2>6, <2>8, PutInOverrides
  <2>. HIDE DEF s, t, id
  <2>10. Stacked(s, Append(open, id), at + 1)
    BY <1>2, <1>3, <2>1, <2>2, <2>5, <2>6, <2>7, Pushed
  <2>. QED  BY <1>3, <1>5, <2>2, <2>5, <2>9, <2>10 DEF Visited
<1>11. CASE UNCHANGED expansionVars
  BY <1>2, <1>11 DEF expansionVars, Working, Visited, RefusedOnlyIfRecursive, nextOwnerOfBlockCommand,
                     OwnersFrom, IsBlock, IsEndBlock, Around, EndOf
<1>. QED  BY <1>6, <1>7, <1>8, <1>9, <1>10, <1>11 DEF ExpansionNext

\* The parts together hold all the time.
LEMMA IInvHolds == ExpansionSpec => []IInv
<1>1. ExpansionInit => IInv
  BY InputsAssumption, IInvInit
<1>2. IInv /\ [ExpansionNext]_expansionVars => IInv'
  BY InputsAssumption, IInvStep
<1>. QED  BY <1>1, <1>2, PTL DEF ExpansionSpec

-----------------------------------------------------------------------------
(* The properties. *)

\* The stack of the expansion names exactly the blocks around the place it is at, outermost
\* first, however often blocks were replaced on the way; its state has the types of the code.
THEOREM StackNamesNesting == ExpansionSpec => []ExpansionInv
<1>1. ASSUME IInv, Working, Balanced(template)
      PROVE  /\ Len(open) = Cardinality(Around(owner))
             /\ \A b \in Around(owner) :
                  open[Cardinality({x \in Around(owner) : x <= b})] = template[b].id
  <2>1. template \in Seq(Nodes) /\ owner \in DOMAIN template /\ Stacked(template, open, owner)
    BY <1>1 DEF IInv, Types, TypeOK, Working
  <2>2. owner \in Nat /\ owner <= Len(template) /\ \A q \in 0..owner : q \in 0..Len(template)
    BY <2>1, LenProperties
  <2>3. \A q \in 0..owner : Depth(template, q) >= 0
    BY <1>1, <2>1, <2>2, BalancedDepth
  <2>4. Around(owner) = Openings(template, owner)
    BY <1>1, <2>1, AroundIs
  <2>5. /\ Cardinality(Openings(template, owner)) = Depth(template, owner)
        /\ \A x \in Openings(template, owner) :
             Cardinality({y \in Openings(template, owner) : y <= x}) = Depth(template, x)
    BY <2>1, <2>2, <2>3, OpeningsCounted
  <2>. QED  BY <2>1, <2>4, <2>5 DEF Stacked
<1>2. IInv => ExpansionInv
  BY <1>1 DEF IInv, Types, StackIsNesting, ExpansionInv
<1>. QED  BY <1>2, IInvHolds, PTL

\* When the expansion is through, every block with an entry in the table is the table's
\* with all that is inside of it: nothing of what was overridden is left.
THEOREM OverriddenIsReplaced == ExpansionSpec => []Overridden
<1>1. IInv => Overridden
  <2>. SUFFICES ASSUME IInv, owner = Nil, Balanced(template),
                       NEW b \in DOMAIN template, IsBlock(b), template[b].id \in DOMAIN table,
                       NEW p \in b..EndOf(b)
                PROVE  template[p].file = child
    BY DEF Overridden
  <2>1. Overriding(template, table, Len(template))
    BY DEF IInv, Visited
  <2>2. b \in 1..Len(template) /\ template[b].kind = "block"
    BY LenProperties DEF IInv, Types, TypeOK, IsBlock
  <2>. QED  BY <2>1, <2>2 DEF Overriding, EndOf, End
<1>. QED  BY <1>1, IInvHolds, PTL

\* In a balanced template only a block inside of one of its own name is refused: the
\* stack is never empty at an endblock, and a block that is replaced has an end.
THEOREM OnlyRecursionIsRefused == ExpansionSpec => []RefusedOnlyIfRecursive
<1>1. IInv => RefusedOnlyIfRecursive
  BY DEF IInv, RefusedOnlyIfRecursive
<1>. QED  BY <1>1, IInvHolds, PTL

\* Putting a block in the place of another one never breaks the nesting.
THEOREM ReplacingKeepsBalance == ExpansionSpec => StaysBalanced
<1>1. IInv /\ [ExpansionNext]_expansionVars => [Balanced(template) => Balanced(template')]_expansionVars
  <2>. SUFFICES ASSUME IInv, [ExpansionNext]_expansionVars  PROVE Balanced(template) => Balanced(template')
    OBVIOUS
  <2>. QED  BY InputsAssumption, BalanceStep DEF IInv
<1>. QED  BY <1>1, IInvHolds, PTL DEF ExpansionSpec, StaysBalanced

=============================================================================
