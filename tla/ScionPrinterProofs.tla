------------------------- MODULE ScionPrinterProofs -------------------------
(***************************************************************************)
(* What is proved of the printer for every properly nested template,       *)
(* however large: that the searches along the chain find the end that      *)
(* matches, and from it that nothing is found stray, that the variables of *)
(* the loops and __FILE__ are what they should be, and that the printer    *)
(* implements the bracketed flow of ScionFlow.                             *)
(*                                                                         *)
(* The first part is about chains alone.  Nesting gives each place the     *)
(* stack of the commands that are open there; its height is what the       *)
(* searches count.                                                         *)
(***************************************************************************)
EXTENDS ScionPrinter, NaturalsLemmas, FiniteSetTheorems, SequenceTheorems, TLAPS

\* One place of the recursive definition of Nesting.
NestingAt(ch, open, p) ==
  IF p = 1 THEN <<>>
  ELSE IF ch[p - 1].kind \in Openers THEN Append(open[p - 1], p - 1)
  ELSE IF ch[p - 1].kind \in Closers /\ open[p - 1] # <<>>
       THEN SubSeq(open[p - 1], 1, Len(open[p - 1]) - 1)
  ELSE open[p - 1]

NestedUpTo(ch, n, open) == open = [p \in 1..(n + 1) |-> NestingAt(ch, open, p)]

\* The recursion has a solution.
LEMMA NestingExists ==
  ASSUME NEW ch, NEW n \in Nat
  PROVE  \E open : NestedUpTo(ch, n, open)
<1>. DEFINE S == {m \in Nat : \E open : NestedUpTo(ch, m, open)}
<1>1. 0 \in S
  <2>. DEFINE first == [p \in 1..(0 + 1) |-> <<>>]
  <2>1. \A p \in 1..(0 + 1) : NestingAt(ch, first, p) = <<>>
    BY DEF NestingAt
  <2>2. first = [p \in 1..(0 + 1) |-> NestingAt(ch, first, p)]
    BY <2>1
  <2>. HIDE DEF first
  <2>. QED  BY <2>2 DEF NestedUpTo
<1>2. ASSUME NEW m \in Nat, m \in S  PROVE m + 1 \in S
  <2>1. PICK w : NestedUpTo(ch, m, w)
    BY <1>2
  <2>. DEFINE next == [p \in 1..((m + 1) + 1) |-> IF p = m + 2 THEN NestingAt(ch, w, p) ELSE w[p]]
  <2>2. DOMAIN next = 1..((m + 1) + 1) /\ next = [p \in 1..((m + 1) + 1) |-> next[p]]
    OBVIOUS
  <2>3. ASSUME NEW p \in 1..((m + 1) + 1)  PROVE next[p] = NestingAt(ch, next, p)
    <3>1. next[p] = NestingAt(ch, w, p)
      <4>1. CASE p = m + 2
        BY <4>1
      <4>2. CASE p # m + 2
        <5>1. p \in 1..(m + 1) /\ next[p] = w[p]
          BY <4>2
        <5>2. \A q \in 1..(m + 1) : w[q] = NestingAt(ch, w, q)
          BY <2>1 DEF NestedUpTo
        <5>. QED  BY <5>1, <5>2, Zenon
      <4>. QED  BY <4>1, <4>2
    <3>2. p # 1 => next[p - 1] = w[p - 1]
      OBVIOUS
    <3>. HIDE DEF next
    <3>. QED  BY <3>1, <3>2 DEF NestingAt
  <2>. HIDE DEF next
  <2>4. NestedUpTo(ch, m + 1, next)
    BY <2>2, <2>3 DEF NestedUpTo
  <2>. QED  BY <2>4
<1>. HIDE DEF S
<1>3. n \in S
  BY <1>1, <1>2, SetInduction
<1>. QED  BY <1>3 DEF S

\* Nesting is the solution.
LEMMA NestingIs ==
  ASSUME NEW ch \in Seq(Nodes)
  PROVE  /\ DOMAIN Nesting(ch) = 1..(Len(ch) + 1)
         /\ \A p \in 1..(Len(ch) + 1) : Nesting(ch)[p] = NestingAt(ch, Nesting(ch), p)
<1>. DEFINE w == CHOOSE open : open = [p \in 1..(Len(ch) + 1) |->
          IF p = 1 THEN <<>>
          ELSE IF ch[p - 1].kind \in Openers THEN Append(open[p - 1], p - 1)
          ELSE IF ch[p - 1].kind \in Closers /\ open[p - 1] # <<>>
               THEN SubSeq(open[p - 1], 1, Len(open[p - 1]) - 1)
          ELSE open[p - 1]]
<1>1. Nesting(ch) = w
  BY DEF Nesting
<1>2. Len(ch) \in Nat
  OBVIOUS
<1>3. PICK f : NestedUpTo(ch, Len(ch), f)
  BY <1>2, NestingExists
<1>4. \E open : open = [p \in 1..(Len(ch) + 1) |->
          IF p = 1 THEN <<>>
          ELSE IF ch[p - 1].kind \in Openers THEN Append(open[p - 1], p - 1)
          ELSE IF ch[p - 1].kind \in Closers /\ open[p - 1] # <<>>
               THEN SubSeq(open[p - 1], 1, Len(open[p - 1]) - 1)
          ELSE open[p - 1]]
  BY <1>3, ZenonT(60) DEF NestedUpTo, NestingAt
<1>5. w = [p \in 1..(Len(ch) + 1) |->
          IF p = 1 THEN <<>>
          ELSE IF ch[p - 1].kind \in Openers THEN Append(w[p - 1], p - 1)
          ELSE IF ch[p - 1].kind \in Closers /\ w[p - 1] # <<>>
               THEN SubSeq(w[p - 1], 1, Len(w[p - 1]) - 1)
          ELSE w[p - 1]]
  BY <1>4
<1>. HIDE DEF w
<1>6. w = [p \in 1..(Len(ch) + 1) |-> NestingAt(ch, w, p)]
  BY <1>5 DEF NestingAt
<1>7. DOMAIN w = 1..(Len(ch) + 1) /\ \A p \in 1..(Len(ch) + 1) : w[p] = NestingAt(ch, w, p)
  <2>. DEFINE g == [p \in 1..(Len(ch) + 1) |-> NestingAt(ch, w, p)]
  <2>1. DOMAIN g = 1..(Len(ch) + 1) /\ \A p \in 1..(Len(ch) + 1) : g[p] = NestingAt(ch, w, p)
    OBVIOUS
  <2>2. g = w
    BY <1>6
  <2>. QED  BY <2>1, <2>2, Zenon
<1>. QED  BY <1>1, <1>7

-----------------------------------------------------------------------------
(* The stack at each place of a properly nested template. *)

Grows(s, u, x) == Len(u) = Len(s) + 1 /\ u[Len(s) + 1] = x /\ \A j \in 1..Len(s) : u[j] = s[j]

Shrinks(s, u) == Len(s) > 0 /\ Len(u) = Len(s) - 1 /\ \A j \in 1..Len(u) : u[j] = s[j]

\* What an object does to the stack, and what it has to do with the innermost
\* open command.
StepAt(ch, S, p) ==
  /\ ch[p].kind \in Openers => Grows(S[p], S[p + 1], p)
  /\ ch[p].kind \in Closers =>
       Shrinks(S[p], S[p + 1]) /\ ch[p].kind = terminatorClass(ch[Innermost(S[p])].kind)
  /\ isElse(ch[p].kind) =>
       Len(S[p]) > 0 /\ S[p + 1] = S[p] /\ ch[p].kind = elseClass(ch[Innermost(S[p])].kind)
  /\ ch[p].kind \in {"text", "template"} => S[p + 1] = S[p]
  /\ ch[p].kind = "template" => Len(S[p]) = 0

Bracketed(ch, S) ==
  /\ ch \in Seq(Nodes)
  /\ \A p \in 1..(Len(ch) + 1) : S[p] \in Seq(1..Len(ch))
  /\ Len(S[1]) = 0 /\ Len(S[Len(ch) + 1]) = 0
  /\ \A p \in 1..Len(ch) : StepAt(ch, S, p)

\* What is left of a sequence without its last element.
LEMMA FrontShrinks ==
  ASSUME NEW T, NEW s \in Seq(T), Len(s) > 0
  PROVE  /\ SubSeq(s, 1, Len(s) - 1) \in Seq(T)
         /\ Shrinks(s, SubSeq(s, 1, Len(s) - 1))
<1>. DEFINE n == Len(s)
            f == SubSeq(s, 1, n - 1)
<1>1. n \in Nat /\ n > 0 /\ 1 \in Int /\ n - 1 \in Int
  BY LenProperties
<1>2. \A i \in 1..n : s[i] \in T
  BY ElementOfSeq
<1>. HIDE DEF n
<1>3. \A i \in 1..(n - 1) : s[i] \in T
  BY <1>1, <1>2
<1>4. /\ f \in Seq(T)
      /\ Len(f) = IF 1 <= n - 1 THEN (n - 1) - 1 + 1 ELSE 0
      /\ \A i \in 1..((n - 1) - 1 + 1) : f[i] = s[1 + i - 1]
  BY <1>1, <1>3, SubSeqProperties
<1>. HIDE DEF f
<1>5. Len(f) = n - 1
  BY <1>1, <1>4
<1>6. \A i \in 1..(n - 1) : f[i] = s[i]
  <2>. TAKE i \in 1..(n - 1)
  <2>1. i \in 1..((n - 1) - 1 + 1) /\ 1 + i - 1 = i
    BY <1>1
  <2>. QED  BY <1>4, <2>1
<1>. QED  BY <1>1, <1>4, <1>5, <1>6 DEF Shrinks, n, f

\* What one object does to a stack of places.
LEMMA NestingSteps ==
  ASSUME NEW ch \in Seq(Nodes), NEW p \in 1..Len(ch), Nesting(ch)[p] \in Seq(1..Len(ch))
  PROVE  /\ Nesting(ch)[p + 1] \in Seq(1..Len(ch))
         /\ ch[p].kind \in Openers => Grows(Nesting(ch)[p], Nesting(ch)[p + 1], p)
         /\ ch[p].kind \in Closers /\ Len(Nesting(ch)[p]) > 0 =>
              Shrinks(Nesting(ch)[p], Nesting(ch)[p + 1])
         /\ ch[p].kind \notin Openers \cup Closers => Nesting(ch)[p + 1] = Nesting(ch)[p]
<1>. DEFINE L == Len(ch)
            s == Nesting(ch)[p]
            u == Nesting(ch)[p + 1]
<1>1. L \in Nat /\ p \in 1..L /\ p + 1 \in 1..(L + 1) /\ p + 1 # 1 /\ (p + 1) - 1 = p
  OBVIOUS
<1>2. u = IF ch[p].kind \in Openers THEN Append(s, p)
          ELSE IF ch[p].kind \in Closers /\ s # <<>> THEN SubSeq(s, 1, Len(s) - 1) ELSE s
  <2>1. Nesting(ch)[p + 1] = NestingAt(ch, Nesting(ch), p + 1)
    BY <1>1, NestingIs
  <2>2. NestingAt(ch, Nesting(ch), p + 1) =
          IF ch[p].kind \in Openers THEN Append(Nesting(ch)[p], p)
          ELSE IF ch[p].kind \in Closers /\ Nesting(ch)[p] # <<>>
               THEN SubSeq(Nesting(ch)[p], 1, Len(Nesting(ch)[p]) - 1)
          ELSE Nesting(ch)[p]
    BY <1>1, Zenon DEF NestingAt
  <2>. QED  BY <2>1, <2>2
<1>3. s \in Seq(1..L)
  OBVIOUS
<1>. HIDE DEF L, s, u
<1>4. /\ Append(s, p) \in Seq(1..L) /\ Grows(s, Append(s, p), p)
  BY <1>1, <1>3, AppendProperties DEF Grows
<1>5. ASSUME s # <<>>
      PROVE  SubSeq(s, 1, Len(s) - 1) \in Seq(1..L) /\ Shrinks(s, SubSeq(s, 1, Len(s) - 1))
  <2>1. Len(s) > 0
    BY <1>3, <1>5, EmptySeq, LenProperties
  <2>. QED  BY <1>3, <2>1, FrontShrinks
<1>6. Openers \cap Closers = {}
  BY DEF Openers, Closers
<1>7. Len(s) > 0 => s # <<>>
  BY <1>3, EmptySeq
<1>8. u \in Seq(1..L)
  BY <1>2, <1>3, <1>4, <1>5
<1>9. ch[p].kind \in Openers => Grows(s, u, p)
  BY <1>2, <1>4
<1>10. ch[p].kind \in Closers /\ Len(s) > 0 => Shrinks(s, u)
  BY <1>2, <1>5, <1>6, <1>7
<1>11. ch[p].kind \notin Openers \cup Closers => u = s
  BY <1>2
<1>. QED  BY <1>8, <1>9, <1>10, <1>11 DEF s, u, L

\* The stacks are sequences of places.
LEMMA NestingType ==
  ASSUME NEW ch \in Seq(Nodes), NEW p \in 1..(Len(ch) + 1)
  PROVE  Nesting(ch)[p] \in Seq(1..Len(ch)) /\ Len(Nesting(ch)[1]) = 0
<1>. DEFINE T == {n \in Nat : n + 1 \in 1..(Len(ch) + 1) => Nesting(ch)[n + 1] \in Seq(1..Len(ch))}
<1>1. Nesting(ch)[1] = <<>>
  BY NestingIs DEF NestingAt
<1>2. 0 \in T
  <2>1. 0 + 1 = 1 /\ <<>> \in Seq(1..Len(ch))
    OBVIOUS
  <2>. QED  BY <1>1, <2>1
<1>3. ASSUME NEW n \in Nat, n \in T  PROVE n + 1 \in T
  <2>. SUFFICES ASSUME (n + 1) + 1 \in 1..(Len(ch) + 1)
                PROVE  Nesting(ch)[(n + 1) + 1] \in Seq(1..Len(ch))
    OBVIOUS
  <2>1. n + 1 \in 1..Len(ch) /\ n + 1 \in 1..(Len(ch) + 1)
    OBVIOUS
  <2>2. Nesting(ch)[n + 1] \in Seq(1..Len(ch))
    BY <1>3, <2>1
  <2>. QED  BY <2>1, <2>2, NestingSteps
<1>. HIDE DEF T
<1>4. \A n \in Nat : n \in T
  BY <1>2, <1>3, SetInduction
<1>5. p - 1 \in Nat /\ (p - 1) + 1 = p /\ Len(<<>>) = 0
  OBVIOUS
<1>. QED  BY <1>1, <1>4, <1>5 DEF T

\* In a properly nested template every object fits the stack.
LEMMA ProperBracketed ==
  ASSUME NEW ch \in Seq(Nodes), Proper(ch)
  PROVE  Bracketed(ch, Nesting(ch))
<1>. DEFINE S == Nesting(ch)
<1>1. EndsMatch(ch, S) /\ ElsesMatch(ch, S) /\ IncludesOutside(ch, S)
  BY DEF Proper
<1>2. \A p \in 1..(Len(ch) + 1) : S[p] \in Seq(1..Len(ch))
  BY NestingType
<1>3. Len(S[1]) = 0 /\ Len(S[Len(ch) + 1]) = 0
  <2>1. Len(ch) \in Nat /\ 1 \in 1..(Len(ch) + 1) /\ Len(<<>>) = 0
    OBVIOUS
  <2>. QED  BY <1>1, <2>1, NestingType DEF EndsMatch
<1>4. ASSUME NEW p \in 1..Len(ch)  PROVE StepAt(ch, S, p)
  <2>1. p \in DOMAIN ch /\ p \in 1..(Len(ch) + 1)
    OBVIOUS
  <2>2. S[p] \in Seq(1..Len(ch)) /\ (S[p] = <<>> <=> Len(S[p]) = 0) /\ Len(S[p]) \in Nat
    BY <1>2, <2>1, EmptySeq
  <2>3. ch[p].kind \in Openers => Grows(S[p], S[p + 1], p)
    BY <2>2, NestingSteps
  <2>4. ASSUME ch[p].kind \in Closers
        PROVE  Shrinks(S[p], S[p + 1]) /\ ch[p].kind = terminatorClass(ch[Innermost(S[p])].kind)
    <3>1. PICK c \in DOMAIN ch : Owns(S, c, p) /\ ch[p].kind = terminatorClass(ch[c].kind)
      BY <1>1, <2>1, <2>4 DEF EndsMatch
    <3>2. S[p] # <<>> /\ Innermost(S[p]) = c
      BY <3>1 DEF Owns
    <3>3. Len(S[p]) > 0
      BY <2>2, <3>2
    <3>4. Shrinks(S[p], S[p + 1])
      BY <2>2, <2>4, <3>3, NestingSteps
    <3>. QED  BY <3>1, <3>2, <3>4
  <2>5. ASSUME isElse(ch[p].kind)
        PROVE  /\ Len(S[p]) > 0 /\ S[p + 1] = S[p]
               /\ ch[p].kind = elseClass(ch[Innermost(S[p])].kind)
    <3>1. PICK c \in DOMAIN ch : Owns(S, c, p) /\ ch[p].kind = elseClass(ch[c].kind)
      BY <1>1, <2>1, <2>5 DEF ElsesMatch
    <3>2. S[p] # <<>> /\ Innermost(S[p]) = c
      BY <3>1 DEF Owns
    <3>3. Len(S[p]) > 0
      BY <2>2, <3>2
    <3>4. ch[p].kind \notin Openers \cup Closers
      BY <2>5 DEF isElse, Elses, Openers, Closers
    <3>5. S[p + 1] = S[p]
      BY <2>2, <3>4, NestingSteps
    <3>. QED  BY <3>1, <3>2, <3>3, <3>5
  <2>6. ch[p].kind \in {"text", "template"} => S[p + 1] = S[p]
    <3>1. ch[p].kind \in {"text", "template"} => ch[p].kind \notin Openers \cup Closers
      BY DEF Openers, Closers
    <3>. QED  BY <2>2, <3>1, NestingSteps
  <2>7. ch[p].kind = "template" => Len(S[p]) = 0
    BY <1>1, <2>1, <2>2 DEF IncludesOutside
  <2>. HIDE DEF S
  <2>. QED  BY <2>3, <2>4, <2>5, <2>6, <2>7 DEF StepAt
<1>. HIDE DEF S
<1>5. Bracketed(ch, S)
  BY <1>2, <1>3, <1>4 DEF Bracketed
<1>. QED  BY <1>5 DEF S

-----------------------------------------------------------------------------
(* The commands on the stack. *)

\* The facts about one place that the proofs need again and again.
LEMMA AtPlace ==
  ASSUME NEW ch, NEW S, Bracketed(ch, S)
  PROVE  /\ Len(ch) \in Nat
         /\ \A p \in 1..(Len(ch) + 1) : Len(S[p]) \in Nat
         /\ \A p \in 1..(Len(ch) + 1) : \A i \in 1..Len(S[p]) : S[p][i] \in 1..Len(ch)
         /\ \A p \in 1..Len(ch) : ch[p] \in Nodes /\ StepAt(ch, S, p)
         /\ Len(S[1]) = 0 /\ Len(S[Len(ch) + 1]) = 0
<1>1. ch \in Seq(Nodes) /\ Len(ch) \in Nat
  BY LenProperties DEF Bracketed
<1>2. \A p \in 1..(Len(ch) + 1) : S[p] \in Seq(1..Len(ch))
  BY DEF Bracketed
<1>3. \A p \in 1..(Len(ch) + 1) : Len(S[p]) \in Nat
  BY <1>2, LenProperties
<1>4. \A p \in 1..(Len(ch) + 1) : \A i \in 1..Len(S[p]) : S[p][i] \in 1..Len(ch)
  BY <1>2, ElementOfSeq
<1>5. \A p \in 1..Len(ch) : ch[p] \in Nodes
  BY <1>1, ElementOfSeq
<1>. QED  BY <1>1, <1>3, <1>4, <1>5 DEF Bracketed

\* The stack behind an object keeps what it had in front of it, up to the command
\* the object opens.
LEMMA StepShape ==
  ASSUME NEW ch, NEW S, Bracketed(ch, S), NEW p \in 1..Len(ch), NEW i \in 1..Len(S[p + 1])
  PROVE  \/ i \in 1..Len(S[p]) /\ \A j \in 1..i : S[p + 1][j] = S[p][j]
         \/ /\ ch[p].kind \in Openers /\ i = Len(S[p]) + 1 /\ S[p + 1][i] = p
            /\ \A j \in 1..(i - 1) : S[p + 1][j] = S[p][j]
<1>. DEFINE s == S[p]
            u == S[p + 1]
<1>1. /\ Len(s) \in Nat /\ Len(u) \in Nat /\ StepAt(ch, S, p) /\ ch[p] \in Nodes
  BY AtPlace
<1>2. ch[p].kind \in Openers \/ ch[p].kind \in Closers \/ isElse(ch[p].kind)
      \/ ch[p].kind \in {"text", "template"}
  BY <1>1 DEF Nodes, Kinds, isElse
<1>3. i \in 1..Len(u)
  OBVIOUS
<1>4. CASE ch[p].kind \in Openers
  <2>1. Grows(s, u, p)
    BY <1>1, <1>4 DEF StepAt
  <2>. HIDE DEF s, u
  <2>2. \/ i \in 1..Len(s) /\ \A j \in 1..i : u[j] = s[j]
        \/ i = Len(s) + 1 /\ u[i] = p /\ \A j \in 1..(i - 1) : u[j] = s[j]
    BY <1>1, <1>3, <2>1 DEF Grows
  <2>. QED  BY <1>4, <2>2 DEF s, u
<1>5. CASE ch[p].kind \in Closers
  <2>1. Shrinks(s, u)
    BY <1>1, <1>5 DEF StepAt
  <2>. HIDE DEF s, u
  <2>2. i \in 1..Len(s) /\ \A j \in 1..i : u[j] = s[j]
    BY <1>1, <1>3, <2>1 DEF Shrinks
  <2>. QED  BY <2>2 DEF s, u
<1>6. CASE isElse(ch[p].kind) \/ ch[p].kind \in {"text", "template"}
  <2>1. u = s
    BY <1>1, <1>6 DEF StepAt
  <2>. QED  BY <1>3, <2>1
<1>. QED  BY <1>2, <1>4, <1>5, <1>6

\* c is open at p, i deep.
IsOpen(ch, S, c, i, p) ==
  /\ c \in 1..(p - 1) /\ c \in 1..Len(ch)
  /\ ch[c].kind \in Openers
  /\ Len(S[c]) = i - 1
  /\ \A j \in 1..(i - 1) : S[c][j] = S[p][j]
  /\ \A r \in (c + 1)..p : i <= Len(S[r])

\* What is on the stack has been opened and not closed since.
LEMMA Opened ==
  ASSUME NEW ch, NEW S, Bracketed(ch, S), NEW p \in 1..(Len(ch) + 1), NEW i \in 1..Len(S[p])
  PROVE  IsOpen(ch, S, S[p][i], i, p)
<1>. DEFINE Good(q) == \A k \in 1..Len(S[q]) : IsOpen(ch, S, S[q][k], k, q)
            T == {n \in Nat : n + 1 \in 1..(Len(ch) + 1) => Good(n + 1)}
<1>0. Len(ch) \in Nat
  BY AtPlace
<1>1. 0 \in T
  <2>1. Len(S[0 + 1]) = 0
    BY AtPlace
  <2>. QED  BY <2>1
<1>2. ASSUME NEW n \in Nat, n \in T  PROVE n + 1 \in T
  <2>. SUFFICES ASSUME (n + 1) + 1 \in 1..(Len(ch) + 1)  PROVE Good((n + 1) + 1)
    OBVIOUS
  <2>. DEFINE q == n + 1
  <2>1. q \in 1..Len(ch) /\ q \in 1..(Len(ch) + 1) /\ q + 1 \in 1..(Len(ch) + 1)
    BY <1>0
  <2>2. Good(q)
    BY <1>2, <2>1
  <2>. HIDE DEF q
  <2>3. ASSUME NEW k \in 1..Len(S[q + 1])  PROVE IsOpen(ch, S, S[q + 1][k], k, q + 1)
    <3>. DEFINE c == S[q + 1][k]
    <3>1. Len(S[q]) \in Nat /\ Len(S[q + 1]) \in Nat
      BY <2>1, AtPlace
    <3>2. CASE k \in 1..Len(S[q]) /\ \A j \in 1..k : S[q + 1][j] = S[q][j]
      <4>1. c = S[q][k]
        BY <3>2
      <4>2. IsOpen(ch, S, c, k, q)
        BY <2>2, <3>2, <4>1
      <4>. HIDE DEF c
      <4>3. c \in 1..((q + 1) - 1) /\ c \in 1..Len(ch) /\ ch[c].kind \in Openers /\ Len(S[c]) = k - 1
        BY <2>1, <4>2 DEF IsOpen
      <4>4. \A j \in 1..(k - 1) : S[c][j] = S[q + 1][j]
        BY <3>2, <4>2 DEF IsOpen
      <4>5. \A r \in (c + 1)..(q + 1) : k <= Len(S[r])
        <5>1. \A r \in (c + 1)..q : k <= Len(S[r])
          BY <4>2 DEF IsOpen
        <5>2. k <= Len(S[q + 1])
          BY <3>1
        <5>. QED  BY <2>1, <5>1, <5>2
      <4>6. IsOpen(ch, S, c, k, q + 1)
        BY <4>3, <4>4, <4>5 DEF IsOpen
      <4>. QED  BY <4>6 DEF c
    <3>3. CASE /\ ch[q].kind \in Openers /\ k = Len(S[q]) + 1 /\ S[q + 1][k] = q
               /\ \A j \in 1..(k - 1) : S[q + 1][j] = S[q][j]
      <4>1. c = q
        BY <3>3
      <4>. HIDE DEF c
      <4>2. c \in 1..((q + 1) - 1) /\ c \in 1..Len(ch) /\ ch[c].kind \in Openers
        BY <2>1, <3>3, <4>1
      <4>3. Len(S[c]) = k - 1
        BY <3>1, <3>3, <4>1
      <4>4. \A j \in 1..(k - 1) : S[c][j] = S[q + 1][j]
        BY <3>3, <4>1
      <4>5. \A r \in (c + 1)..(q + 1) : k <= Len(S[r])
        <5>1. \A r \in (q + 1)..(q + 1) : r = q + 1
          BY <2>1
        <5>2. k <= Len(S[q + 1])
          BY <3>1
        <5>. QED  BY <4>1, <5>1, <5>2
      <4>6. IsOpen(ch, S, c, k, q + 1)
        BY <4>2, <4>3, <4>4, <4>5 DEF IsOpen
      <4>. QED  BY <4>6 DEF c
    <3>. QED  BY <2>1, <3>2, <3>3, StepShape
  <2>. QED  BY <2>3 DEF q
<1>. HIDE DEF T
<1>3. \A n \in Nat : n \in T
  BY <1>1, <1>2, SetInduction
<1>4. p - 1 \in Nat /\ (p - 1) + 1 = p
  BY <1>0
<1>. QED  BY <1>3, <1>4 DEF T

\* All the way from a to b the stack is m high.
Holds(S, m, a, b) == \A r \in a..b : m <= Len(S[r])

\* As long as the stack is that high, it stays the same below.
LEMMA Stays ==
  ASSUME NEW ch, NEW S, Bracketed(ch, S), NEW a \in 1..(Len(ch) + 1), NEW m \in Nat,
         NEW b \in a..(Len(ch) + 1), Holds(S, m, a, b)
  PROVE  \A j \in 1..m : S[b][j] = S[a][j]
<1>. DEFINE Good(q) == \A j \in 1..m : S[q][j] = S[a][j]
            T == {n \in Nat : a + n \in a..b => Good(a + n)}
<1>. \A r \in a..b : m <= Len(S[r])
  BY DEF Holds
<1>0. Len(ch) \in Nat /\ a \in Nat /\ b \in Nat
  BY AtPlace
<1>1. 0 \in T
  <2>1. a + 0 = a
    BY <1>0
  <2>. QED  BY <2>1
<1>2. ASSUME NEW n \in Nat, n \in T  PROVE n + 1 \in T
  <2>. SUFFICES ASSUME a + (n + 1) \in a..b  PROVE Good(a + (n + 1))
    OBVIOUS
  <2>. DEFINE q == a + n
  <2>1. q \in a..b /\ q \in 1..Len(ch) /\ q + 1 \in a..b /\ a + (n + 1) = q + 1 /\ q \in 1..(Len(ch) + 1)
        /\ q + 1 \in 1..(Len(ch) + 1)
    BY <1>0
  <2>2. Good(q)
    BY <1>2, <2>1
  <2>. HIDE DEF q
  <2>3. m <= Len(S[q]) /\ m <= Len(S[q + 1]) /\ Len(S[q]) \in Nat /\ Len(S[q + 1]) \in Nat
    BY <2>1, AtPlace
  <2>4. ASSUME NEW j \in 1..m  PROVE S[q + 1][j] = S[a][j]
    <3>1. j \in 1..Len(S[q + 1]) /\ j \in 1..j /\ j <= Len(S[q])
      BY <2>3
    <3>2. j # Len(S[q]) + 1
      BY <2>3, <3>1
    <3>3. S[q + 1][j] = S[q][j]
      BY <2>1, <3>1, <3>2, StepShape
    <3>. QED  BY <2>2, <3>3
  <2>. QED  BY <2>1, <2>4
<1>. HIDE DEF T
<1>3. \A n \in Nat : n \in T
  BY <1>1, <1>2, SetInduction
<1>4. b - a \in Nat /\ a + (b - a) = b /\ b \in a..b
  BY <1>0
<1>. QED  BY <1>3, <1>4 DEF T

-----------------------------------------------------------------------------
(* Counting.  What the searches count is how many commands of a kind are   *)
(* open above a height of the stack.                                       *)

\* How many objects of these kinds there are from one place to another.
NumIn(ch, kinds, from, to) == Cardinality({p \in from..to : ch[p].kind \in kinds})

\* How many commands of these kinds a stack has above d.
NumAbove(ch, kinds, d, s) == Cardinality({i \in (d + 1)..Len(s) : ch[s[i]].kind \in kinds})

Ending(kinds) == {terminatorClass(kind) : kind \in kinds}

\* One more object.
LEMMA NumStep ==
  ASSUME NEW ch, NEW kinds, NEW a \in Nat, NEW b \in Nat, a <= b + 1
  PROVE  /\ NumIn(ch, kinds, a, b) \in Nat
         /\ NumIn(ch, kinds, a, b + 1) =
              IF a <= b + 1 /\ ch[b + 1].kind \in kinds THEN NumIn(ch, kinds, a, b) + 1
              ELSE NumIn(ch, kinds, a, b)
<1>. DEFINE A == {p \in a..b : ch[p].kind \in kinds}
            B == {p \in a..(b + 1) : ch[p].kind \in kinds}
<1>1. IsFiniteSet(A)
  <2>1. IsFiniteSet(a..b)
    BY FS_Interval
  <2>. QED  BY <2>1, FS_Subset
<1>2. Cardinality(A) \in Nat
  BY <1>1, FS_CardinalityType
<1>3. CASE ch[b + 1].kind \in kinds
  <2>1. B = A \cup {b + 1} /\ b + 1 \notin A
    BY <1>3
  <2>. HIDE DEF A, B
  <2>2. Cardinality(B) = Cardinality(A) + 1
    BY <1>1, <2>1, FS_AddElement
  <2>. QED  BY <1>2, <1>3, <2>2 DEF NumIn, A, B
<1>4. CASE ch[b + 1].kind \notin kinds
  <2>1. B = A
    BY <1>4
  <2>. QED  BY <1>2, <1>4, <2>1 DEF NumIn
<1>. QED  BY <1>3, <1>4

\* No object.
LEMMA NumNone ==
  ASSUME NEW ch, NEW kinds, NEW a \in Nat, NEW b \in Int, b < a
  PROVE  NumIn(ch, kinds, a, b) = 0
<1>1. {p \in a..b : ch[p].kind \in kinds} = {}
  OBVIOUS
<1>. QED  BY <1>1, FS_EmptySet DEF NumIn

\* The stack above d is a finite number of commands.
LEMMA AboveType ==
  ASSUME NEW ch, NEW kinds, NEW d \in Nat, NEW s, Len(s) \in Nat
  PROVE  /\ IsFiniteSet({i \in (d + 1)..Len(s) : ch[s[i]].kind \in kinds})
         /\ NumAbove(ch, kinds, d, s) \in Nat
         /\ NumAbove(ch, kinds, d, s) = 0 => \A i \in (d + 1)..Len(s) : ch[s[i]].kind \notin kinds
         /\ Len(s) <= d => NumAbove(ch, kinds, d, s) = 0
<1>. DEFINE A == {i \in (d + 1)..Len(s) : ch[s[i]].kind \in kinds}
<1>1. IsFiniteSet(A)
  <2>1. IsFiniteSet((d + 1)..Len(s))
    BY FS_Interval
  <2>. QED  BY <2>1, FS_Subset
<1>2. Cardinality(A) \in Nat /\ (Cardinality(A) = 0 <=> A = {})
  BY <1>1, FS_CardinalityType, FS_EmptySet
<1>3. Len(s) <= d => A = {}
  OBVIOUS
<1>. QED  BY <1>1, <1>2, <1>3 DEF NumAbove

\* The kinds of ends tell the kinds of commands apart.
LEMMA EndingTells ==
  ASSUME NEW kinds, kinds \subseteq Openers, NEW kind \in Openers
  PROVE  /\ terminatorClass(kind) \in Ending(kinds) <=> kind \in kinds
         /\ terminatorClass(kind) \in Closers
<1>1. \A k, l \in Openers : terminatorClass(k) = terminatorClass(l) => k = l
  BY DEF Openers, terminatorClass
<1>2. \A k \in Openers : terminatorClass(k) \in Closers
  BY DEF Openers, Closers, terminatorClass
<1>. QED  BY <1>1, <1>2 DEF Ending

\* One more command on the stack.
LEMMA GrownAbove ==
  ASSUME NEW ch, NEW kinds, NEW d \in Nat, NEW s, NEW u, NEW x, Len(s) \in Nat, d <= Len(s),
         Grows(s, u, x)
  PROVE  NumAbove(ch, kinds, d, u) = NumAbove(ch, kinds, d, s) + (IF ch[x].kind \in kinds THEN 1 ELSE 0)
<1>. DEFINE n == Len(s)
            A == {i \in (d + 1)..n : ch[s[i]].kind \in kinds}
            B == {i \in (d + 1)..(n + 1) : ch[u[i]].kind \in kinds}
<1>1. n \in Nat /\ d <= n
  OBVIOUS
<1>2. Len(u) = n + 1 /\ u[n + 1] = x /\ \A j \in 1..n : u[j] = s[j]
  BY DEF Grows
<1>3. IsFiniteSet(A) /\ Cardinality(A) \in Nat
  BY AboveType, FS_CardinalityType
<1>4. NumAbove(ch, kinds, d, s) = Cardinality(A) /\ NumAbove(ch, kinds, d, u) = Cardinality(B)
  BY <1>2 DEF NumAbove
<1>. HIDE DEF n
<1>5. /\ n + 1 \in (d + 1)..(n + 1) /\ n + 1 \notin (d + 1)..n
      /\ \A i \in (d + 1)..n : i \in (d + 1)..(n + 1) /\ i \in 1..n
      /\ \A i \in (d + 1)..(n + 1) : i # n + 1 => i \in (d + 1)..n
  BY <1>1
<1>6. \A i \in (d + 1)..n : u[i] = s[i]
  BY <1>2, <1>5
<1>7. CASE ch[x].kind \in kinds
  <2>1. B = A \cup {n + 1} /\ n + 1 \notin A
    <3>1. n + 1 \in B /\ n + 1 \notin A
      BY <1>2, <1>5, <1>7
    <3>2. \A i \in A : i \in B
      BY <1>5, <1>6
    <3>3. \A i \in B : i # n + 1 => i \in A
      BY <1>5, <1>6
    <3>. HIDE DEF A, B
    <3>. QED  BY <3>1, <3>2, <3>3
  <2>. HIDE DEF A, B
  <2>2. Cardinality(B) = Cardinality(A) + 1
    BY <1>3, <2>1, FS_AddElement
  <2>. QED  BY <1>3, <1>4, <1>7, <2>2
<1>8. CASE ch[x].kind \notin kinds
  <2>1. B = A
    <3>1. n + 1 \notin B
      BY <1>2, <1>5, <1>8
    <3>2. \A i \in A : i \in B
      BY <1>5, <1>6
    <3>3. \A i \in B : i # n + 1 => i \in A
      BY <1>5, <1>6
    <3>. HIDE DEF A, B
    <3>. QED  BY <3>1, <3>2, <3>3
  <2>. HIDE DEF A, B
  <2>. QED  BY <1>3, <1>4, <1>8, <2>1
<1>. QED  BY <1>7, <1>8

\* What an object adds to the commands on the stack above d, or takes away.
LEMMA AboveStep ==
  ASSUME NEW ch, NEW S, Bracketed(ch, S), NEW kinds, kinds \subseteq Openers,
         NEW p \in 1..Len(ch), NEW d \in Nat, d <= Len(S[p]), d <= Len(S[p + 1])
  PROVE  NumAbove(ch, kinds, d, S[p + 1]) + (IF ch[p].kind \in Ending(kinds) THEN 1 ELSE 0)
           = NumAbove(ch, kinds, d, S[p]) + (IF ch[p].kind \in kinds THEN 1 ELSE 0)
<1>. DEFINE s == S[p]
            u == S[p + 1]
            n == Len(s)
            x == s[n]
            a == NumAbove(ch, kinds, d, s)
            b == NumAbove(ch, kinds, d, u)
<1>1. /\ Len(s) \in Nat /\ Len(u) \in Nat /\ StepAt(ch, S, p) /\ ch[p] \in Nodes
      /\ p \in 1..(Len(ch) + 1)
  BY AtPlace
<1>2. a \in Nat /\ b \in Nat
  BY <1>1, AboveType
<1>3. Ending(kinds) \subseteq Closers
  BY EndingTells DEF Ending
<1>4. Openers \cap Closers = {} /\ Openers \cap Elses = {} /\ Closers \cap Elses = {}
      /\ (Openers \cup Closers) \cap {"text", "template"} = {}
  BY DEF Openers, Closers, Elses
<1>6. ch[p].kind \in Openers \/ ch[p].kind \in Closers \/ ch[p].kind \in Elses
      \/ ch[p].kind \in {"text", "template"}
  BY <1>1 DEF Nodes, Kinds
<1>7. CASE ch[p].kind \in Openers
  <2>1. Grows(s, u, p) /\ ch[p].kind \notin Ending(kinds)
    BY <1>1, <1>3, <1>4, <1>7 DEF StepAt
  <2>2. b = a + (IF ch[p].kind \in kinds THEN 1 ELSE 0)
    BY <1>1, <2>1, GrownAbove
  <2>. HIDE DEF a, b
  <2>3. b + 0 = a + (IF ch[p].kind \in kinds THEN 1 ELSE 0)
    BY <1>2, <2>2
  <2>. QED  BY <2>1, <2>3 DEF a, b
<1>8. CASE ch[p].kind \in Closers
  <2>1. /\ Shrinks(s, u) /\ ch[p].kind = terminatorClass(ch[Innermost(s)].kind)
        /\ ch[p].kind \notin kinds
    BY <1>1, <1>4, <1>8 DEF StepAt
  <2>2. n > 0 /\ Len(u) = n - 1 /\ (\A j \in 1..Len(u) : u[j] = s[j]) /\ Innermost(s) = x
    BY <1>1, <2>1 DEF Shrinks, Innermost
  <2>3. Grows(u, s, x) /\ d <= Len(u)
    BY <1>1, <2>2 DEF Grows
  <2>4. ch[x].kind \in Openers
    <3>1. n \in 1..Len(S[p])
      BY <1>1, <2>2
    <3>. QED  BY <1>1, <3>1, Opened DEF IsOpen
  <2>5. ch[p].kind \in Ending(kinds) <=> ch[x].kind \in kinds
    BY <2>1, <2>2, <2>4, EndingTells, SMTT(40)
  <2>6. a = b + (IF ch[x].kind \in kinds THEN 1 ELSE 0)
    BY <1>1, <2>3, GrownAbove
  <2>. HIDE DEF a, b, x
  <2>7. b + (IF ch[p].kind \in Ending(kinds) THEN 1 ELSE 0) = a + 0
    BY <1>2, <2>5, <2>6
  <2>. QED  BY <2>1, <2>7 DEF a, b
<1>9. CASE ch[p].kind \in Elses \/ ch[p].kind \in {"text", "template"}
  <2>1. u = s
    BY <1>1, <1>9 DEF StepAt, isElse
  <2>2. ch[p].kind \notin Ending(kinds) /\ ch[p].kind \notin kinds
    BY <1>3, <1>4, <1>9
  <2>3. b = a
    BY <2>1
  <2>. QED  BY <2>2, <2>3
<1>. QED  BY <1>6, <1>7, <1>8, <1>9

\* What is open above the height at a: what was opened since and not ended.
LEMMA AboveCounts ==
  ASSUME NEW ch, NEW S, Bracketed(ch, S), NEW kinds, kinds \subseteq Openers,
         NEW a \in 1..(Len(ch) + 1), NEW b \in a..(Len(ch) + 1), NEW d \in Nat, d = Len(S[a]),
         \A r \in a..b : d <= Len(S[r])
  PROVE  NumAbove(ch, kinds, d, S[b]) + NumIn(ch, Ending(kinds), a, b - 1) = NumIn(ch, kinds, a, b - 1)
<1>. DEFINE Good(q) == NumAbove(ch, kinds, d, S[q]) + NumIn(ch, Ending(kinds), a, q - 1)
                         = NumIn(ch, kinds, a, q - 1)
            T == {n \in Nat : a + n \in a..b => Good(a + n)}
<1>0. Len(ch) \in Nat /\ a \in Nat /\ b \in Nat /\ a > 0
  BY AtPlace
<1>1. 0 \in T
  <2>1. a + 0 = a /\ a - 1 \in Int /\ a - 1 < a
    BY <1>0
  <2>2. NumIn(ch, kinds, a, a - 1) = 0 /\ NumIn(ch, Ending(kinds), a, a - 1) = 0
    BY <1>0, <2>1, NumNone
  <2>3. NumAbove(ch, kinds, d, S[a]) = 0
    <3>1. Len(S[a]) \in Nat /\ Len(S[a]) <= d
      OBVIOUS
    <3>. QED  BY <3>1, AboveType
  <2>4. Good(a)
    BY <2>2, <2>3
  <2>. HIDE DEF Good
  <2>. QED  BY <2>1, <2>4
<1>2. ASSUME NEW n \in Nat, n \in T  PROVE n + 1 \in T
  <2>. SUFFICES ASSUME a + (n + 1) \in a..b  PROVE Good(a + (n + 1))
    OBVIOUS
  <2>. DEFINE q == a + n
  <2>1. /\ q \in a..b /\ q \in 1..Len(ch) /\ q + 1 \in a..b /\ a + (n + 1) = q + 1
        /\ q + 1 \in 1..(Len(ch) + 1) /\ q \in 1..(Len(ch) + 1)
        /\ q - 1 \in Nat /\ a <= (q - 1) + 1 /\ (q - 1) + 1 = q /\ (q + 1) - 1 = q
    BY <1>0
  <2>2. Good(q)
    BY <1>2, <2>1
  <2>. HIDE DEF q
  <2>. DEFINE x0 == NumAbove(ch, kinds, d, S[q])
              x1 == NumAbove(ch, kinds, d, S[q + 1])
              y0 == NumIn(ch, Ending(kinds), a, q - 1)
              y1 == NumIn(ch, Ending(kinds), a, q)
              z0 == NumIn(ch, kinds, a, q - 1)
              z1 == NumIn(ch, kinds, a, q)
              e == IF ch[q].kind \in Ending(kinds) THEN 1 ELSE 0
              o == IF ch[q].kind \in kinds THEN 1 ELSE 0
  <2>3. x1 + e = x0 + o
    <3>1. d <= Len(S[q]) /\ d <= Len(S[q + 1])
      BY <2>1
    <3>. QED  BY <2>1, <3>1, AboveStep, SMTT(40)
  <2>4. y1 = y0 + e /\ y0 \in Nat
    <3>1. /\ NumIn(ch, Ending(kinds), a, q - 1) \in Nat
          /\ NumIn(ch, Ending(kinds), a, (q - 1) + 1) =
               IF a <= (q - 1) + 1 /\ ch[(q - 1) + 1].kind \in Ending(kinds)
               THEN NumIn(ch, Ending(kinds), a, q - 1) + 1 ELSE NumIn(ch, Ending(kinds), a, q - 1)
      BY <1>0, <2>1, NumStep
    <3>2. NumIn(ch, Ending(kinds), a, q) = IF ch[q].kind \in Ending(kinds) THEN y0 + 1 ELSE y0
      BY <2>1, <3>1
    <3>. QED  BY <3>1, <3>2
  <2>5. z1 = z0 + o /\ z0 \in Nat
    <3>1. /\ NumIn(ch, kinds, a, q - 1) \in Nat
          /\ NumIn(ch, kinds, a, (q - 1) + 1) =
               IF a <= (q - 1) + 1 /\ ch[(q - 1) + 1].kind \in kinds
               THEN NumIn(ch, kinds, a, q - 1) + 1 ELSE NumIn(ch, kinds, a, q - 1)
      BY <1>0, <2>1, NumStep
    <3>2. NumIn(ch, kinds, a, q) = IF ch[q].kind \in kinds THEN z0 + 1 ELSE z0
      BY <2>1, <3>1
    <3>. QED  BY <3>1, <3>2
  <2>6. x0 \in Nat /\ x1 \in Nat /\ e \in Nat /\ o \in Nat
    <3>1. Len(S[q]) \in Nat /\ Len(S[q + 1]) \in Nat
      BY <2>1, AtPlace
    <3>. QED  BY <3>1, AboveType
  <2>7. x0 + y0 = z0
    BY <2>2
  <2>. HIDE DEF x0, x1, y0, y1, z0, z1, e, o
  <2>8. x1 + y1 = z1
    BY <2>3, <2>4, <2>5, <2>6, <2>7
  <2>9. Good(q + 1)
    BY <2>1, <2>8 DEF x1, y1, z1
  <2>. HIDE DEF Good
  <2>. QED  BY <2>1, <2>9
<1>. HIDE DEF T
<1>3. \A n \in Nat : n \in T
  BY <1>1, <1>2, SetInduction
<1>4. b - a \in Nat /\ a + (b - a) = b /\ b \in a..b
  BY <1>0
<1>. QED  BY <1>3, <1>4 DEF T

-----------------------------------------------------------------------------
(* What the searches find. *)

\* e is where the command ends that is innermost at q.
Ended(ch, S, q, e) ==
  /\ e \in q..Len(ch)
  /\ \A r \in q..e : Len(S[q]) <= Len(S[r])
  /\ Len(S[e]) = Len(S[q]) /\ \A j \in 1..Len(S[q]) : S[e][j] = S[q][j]
  /\ Shrinks(S[e], S[e + 1])
  /\ ch[e].kind = terminatorClass(ch[Innermost(S[q])].kind)

\* What is innermost is a command.
LEMMA InnermostOpen ==
  ASSUME NEW ch, NEW S, Bracketed(ch, S), NEW q \in 1..(Len(ch) + 1), Len(S[q]) > 0
  PROVE  /\ Len(S[q]) \in Nat /\ Len(S[q]) \in 1..Len(S[q])
         /\ Innermost(S[q]) \in 1..Len(ch)
         /\ ch[Innermost(S[q])].kind \in Openers
         /\ IsOpen(ch, S, Innermost(S[q]), Len(S[q]), q)
<1>1. Len(S[q]) \in Nat /\ Len(S[q]) \in 1..Len(S[q])
  BY AtPlace
<1>2. IsOpen(ch, S, S[q][Len(S[q])], Len(S[q]), q)
  BY <1>1, Opened
<1>3. IsOpen(ch, S, Innermost(S[q]), Len(S[q]), q)
  BY <1>2 DEF Innermost
<1>4. Innermost(S[q]) \in 1..Len(ch) /\ ch[Innermost(S[q])].kind \in Openers
  BY <1>3 DEF IsOpen
<1>. QED  BY <1>1, <1>3, <1>4

\* Every command ends.
LEMMA EndExists ==
  ASSUME NEW ch, NEW S, Bracketed(ch, S), NEW q \in 1..Len(ch), Len(S[q]) > 0
  PROVE  \E e : Ended(ch, S, q, e)
<1>. DEFINE d == Len(S[q])
            E == {r \in q..Len(ch) : Len(S[r + 1]) < d}
            e == Min(E)
<1>1. /\ Len(ch) \in Nat /\ Len(S[Len(ch) + 1]) = 0 /\ q \in 1..(Len(ch) + 1)
      /\ d \in Nat /\ d > 0
  BY AtPlace
<1>2. e \in E /\ \A y \in E : e <= y
  <2>1. Len(ch) \in E
    BY <1>1
  <2>2. E \subseteq Nat
    BY <1>1
  <2>. HIDE DEF E
  <2>. QED  BY <2>1, <2>2, LeastNatural
<1>3. e \in q..Len(ch) /\ e \in 1..Len(ch) /\ e \in Nat /\ Len(S[e + 1]) < d
      /\ e \in 1..(Len(ch) + 1) /\ e + 1 \in 1..(Len(ch) + 1)
  BY <1>1, <1>2
<1>4. ASSUME NEW r \in q..e  PROVE d <= Len(S[r])
  <2>1. CASE r = q
    BY <1>1, <2>1
  <2>2. CASE r # q
    <3>1. r - 1 \in q..Len(ch) /\ ~(e <= r - 1) /\ (r - 1) + 1 = r /\ r \in 1..(Len(ch) + 1)
      BY <1>1, <1>3, <2>2
    <3>2. r - 1 \notin E
      BY <1>2, <3>1
    <3>3. ~(Len(S[r]) < d)
      BY <3>1, <3>2
    <3>4. Len(S[r]) \in Nat
      BY <3>1, AtPlace
    <3>. QED  BY <1>1, <3>3, <3>4
  <2>. QED  BY <2>1, <2>2
<1>. HIDE DEF e, E
<1>5. d <= Len(S[e]) /\ Len(S[e]) \in Nat /\ Len(S[e + 1]) \in Nat /\ Len(S[e + 1]) < Len(S[e])
      /\ StepAt(ch, S, e) /\ ch[e] \in Nodes
  <2>1. d <= Len(S[e])
    <3>1. e \in q..e
      BY <1>3
    <3>. QED  BY <1>4, <3>1
  <2>2. Len(S[e]) \in Nat /\ Len(S[e + 1]) \in Nat /\ StepAt(ch, S, e) /\ ch[e] \in Nodes
    BY <1>3, AtPlace
  <2>. QED  BY <1>1, <1>3, <2>1, <2>2, SMTT(40)
<1>6. ch[e].kind \in Closers
  <2>1. ch[e].kind \notin Openers
    BY <1>5 DEF StepAt, Grows
  <2>2. ~isElse(ch[e].kind) /\ ch[e].kind \notin {"text", "template"}
    BY <1>5 DEF StepAt
  <2>. QED  BY <1>5, <2>1, <2>2 DEF Nodes, Kinds, isElse
<1>7. Shrinks(S[e], S[e + 1]) /\ ch[e].kind = terminatorClass(ch[Innermost(S[e])].kind)
  BY <1>5, <1>6 DEF StepAt
<1>8. Len(S[e]) = d
  BY <1>1, <1>3, <1>5, <1>7 DEF Shrinks
<1>9. \A j \in 1..d : S[e][j] = S[q][j]
  <2>1. e \in q..(Len(ch) + 1)
    BY <1>1, <1>3
  <2>2. Holds(S, d, q, e)
    BY <1>4 DEF Holds
  <2>3. d \in Nat /\ q \in 1..(Len(ch) + 1)
    BY <1>1
  <2>. HIDE DEF d
  <2>. QED  BY <2>1, <2>2, <2>3, Stays
<1>10. Innermost(S[e]) = Innermost(S[q])
  <2>1. d \in 1..d
    BY <1>1
  <2>. QED  BY <1>8, <1>9, <2>1 DEF Innermost
<1>11. Ended(ch, S, q, e)
  BY <1>3, <1>4, <1>7, <1>8, <1>9, <1>10 DEF Ended
<1>. QED  BY <1>11

\* How the numbers of commands and ends compare on the way to the end.
LEMMA CountsOnTheWay ==
  ASSUME NEW ch, NEW S, Bracketed(ch, S), NEW q \in 1..Len(ch), Len(S[q]) > 0,
         NEW e, Ended(ch, S, q, e), NEW kinds, kinds \subseteq Openers,
         NEW p \in q..e
  PROVE  /\ NumIn(ch, kinds, q, p - 1) \in Nat /\ NumIn(ch, Ending(kinds), q, p - 1) \in Nat
         /\ NumAbove(ch, kinds, Len(S[q]), S[p]) \in Nat
         /\ NumAbove(ch, kinds, Len(S[q]), S[p]) + NumIn(ch, Ending(kinds), q, p - 1)
              = NumIn(ch, kinds, q, p - 1)
<1>1. /\ Len(ch) \in Nat /\ q \in 1..(Len(ch) + 1) /\ e \in q..Len(ch)
      /\ p \in 1..(Len(ch) + 1) /\ p \in q..(Len(ch) + 1)
  BY AtPlace DEF Ended
<1>2. Len(S[q]) \in Nat /\ Len(S[p]) \in Nat
  BY <1>1, AtPlace
<1>3. \A r \in q..p : Len(S[q]) <= Len(S[r])
  <2>1. \A r \in q..p : r \in q..e
    BY <1>1
  <2>. QED  BY <2>1 DEF Ended
<1>4. NumAbove(ch, kinds, Len(S[q]), S[p]) + NumIn(ch, Ending(kinds), q, p - 1)
        = NumIn(ch, kinds, q, p - 1)
  <2>. DEFINE d == Len(S[q])
  <2>1. d \in Nat /\ d = Len(S[q]) /\ \A r \in q..p : d <= Len(S[r])
    BY <1>2, <1>3
  <2>. HIDE DEF d
  <2>2. NumAbove(ch, kinds, d, S[p]) + NumIn(ch, Ending(kinds), q, p - 1) = NumIn(ch, kinds, q, p - 1)
    BY <1>1, <2>1, AboveCounts, SMTT(40)
  <2>. QED  BY <2>2 DEF d
<1>5. NumAbove(ch, kinds, Len(S[q]), S[p]) \in Nat
  BY <1>2, AboveType
<1>6. NumIn(ch, kinds, q, p - 1) \in Nat /\ NumIn(ch, Ending(kinds), q, p - 1) \in Nat
  <2>1. CASE p = q
    <3>1. q \in Nat /\ p - 1 \in Int /\ p - 1 < q
      BY <1>1, <2>1
    <3>. QED  BY <3>1, NumNone
  <2>2. CASE p # q
    <3>1. q \in Nat /\ p - 1 \in Nat /\ q <= (p - 1) + 1
      BY <1>1, <2>2
    <3>. QED  BY <3>1, NumStep
  <2>. QED  BY <2>1, <2>2
<1>. QED  BY <1>4, <1>5, <1>6

\* One more object on the way.
LEMMA CountsHere ==
  ASSUME NEW ch, NEW S, Bracketed(ch, S), NEW q \in 1..Len(ch), Len(S[q]) > 0,
         NEW e, Ended(ch, S, q, e), NEW kinds, NEW p \in q..e
  PROVE  /\ ch[p].kind \in kinds => NumIn(ch, kinds, q, p) = NumIn(ch, kinds, q, p - 1) + 1
         /\ ch[p].kind \notin kinds => NumIn(ch, kinds, q, p) = NumIn(ch, kinds, q, p - 1)
<1>1. /\ Len(ch) \in Nat /\ e \in q..Len(ch) /\ q \in Nat /\ p \in Nat /\ q > 0
  BY AtPlace DEF Ended
<1>2. p - 1 \in Nat /\ q <= (p - 1) + 1 /\ (p - 1) + 1 = p
  BY <1>1
<1>3. NumIn(ch, kinds, q, (p - 1) + 1) =
        IF q <= (p - 1) + 1 /\ ch[(p - 1) + 1].kind \in kinds THEN NumIn(ch, kinds, q, p - 1) + 1
        ELSE NumIn(ch, kinds, q, p - 1)
  BY <1>1, <1>2, NumStep
<1>4. NumIn(ch, kinds, q, p) = IF ch[p].kind \in kinds THEN NumIn(ch, kinds, q, p - 1) + 1
                               ELSE NumIn(ch, kinds, q, p - 1)
  BY <1>2, <1>3
<1>. QED  BY <1>4

\* The first of some places.
LEMMA FirstIs ==
  ASSUME NEW places, places \subseteq Nat, NEW x \in places, \A y \in places : x <= y
  PROVE  First(places) = x
<1>1. Min(places) \in places /\ Min(places) <= x
  BY LeastNatural
<1>2. x <= Min(places) /\ x \in Nat /\ Min(places) \in Nat
  BY <1>1
<1>3. Min(places) = x
  BY <1>1, <1>2
<1>4. places # {}
  OBVIOUS
<1>. QED  BY <1>3, <1>4 DEF First

\* The counts of the searches.
LEMMA CountOfIs ==
  ASSUME NEW ch, NEW kind, NEW a, NEW b
  PROVE  /\ CountOf(ch, kind, a, b) = NumIn(ch, {kind}, a, b)
         /\ CountOf(ch, terminatorClass(kind), a, b) = NumIn(ch, Ending({kind}), a, b)
<1>1. Ending({kind}) = {terminatorClass(kind)}
  BY DEF Ending
<1>2. NumIn(ch, {kind}, a, b) = CountOf(ch, kind, a, b)
  <2>1. {p \in a..b : ch[p].kind \in {kind}} = {p \in a..b : ch[p].kind = kind}
    OBVIOUS
  <2>. QED  BY <2>1 DEF NumIn, CountOf
<1>3. NumIn(ch, Ending({kind}), a, b) = CountOf(ch, terminatorClass(kind), a, b)
  <2>1. {p \in a..b : ch[p].kind \in Ending({kind})} = {p \in a..b : ch[p].kind = terminatorClass(kind)}
    BY <1>1
  <2>. QED  BY <2>1 DEF NumIn, CountOf
<1>. QED  BY <1>2, <1>3

\* A command, its else and its end are different.
LEMMA KindsDiffer ==
  ASSUME NEW kind \in Openers
  PROVE  /\ {kind} \subseteq Openers
         /\ terminatorClass(kind) \in Ending({kind}) /\ terminatorClass(kind) \notin {kind}
         /\ elseClass(kind) \notin Ending({kind}) /\ elseClass(kind) \notin {kind}
<1>1. Ending({kind}) = {terminatorClass(kind)}
  BY DEF Ending
<1>2. terminatorClass(kind) # kind /\ elseClass(kind) # kind /\ elseClass(kind) # terminatorClass(kind)
  BY DEF Openers, terminatorClass, elseClass, NoClass
<1>. QED  BY <1>1, <1>2

\* An end may be where the innermost command ends, and not before.
LEMMA EndsAt ==
  ASSUME NEW ch, NEW S, Bracketed(ch, S), NEW q \in 1..Len(ch), Len(S[q]) > 0,
         NEW e, Ended(ch, S, q, e), NEW kind, kind = ch[Innermost(S[q])].kind
  PROVE  /\ e \in Ends(ch, kind, q)
         /\ Ends(ch, kind, q) \subseteq Nat
         /\ \A p \in Ends(ch, kind, q) : e <= p
<1>. DEFINE term == terminatorClass(kind)
            E == Ends(ch, kind, q)
<1>1. kind \in Openers
  BY InnermostOpen
<1>2. Len(ch) \in Nat /\ q \in Nat /\ q # Nowhere /\ e \in q..Len(ch) /\ e \in q..e
  BY AtPlace DEF Ended, Nowhere
<1>3. E = {p \in q..Len(ch) : ch[p].kind = term /\ 1 + CountOf(ch, kind, q, p) = CountOf(ch, term, q, p)}
  BY <1>2 DEF Ends
<1>4. {kind} \subseteq Openers /\ term \in Ending({kind}) /\ term \notin {kind}
  BY <1>1, KindsDiffer
<1>5. \A p : /\ CountOf(ch, kind, q, p) = NumIn(ch, {kind}, q, p)
             /\ CountOf(ch, term, q, p) = NumIn(ch, Ending({kind}), q, p)
  <2>. TAKE p
  <2>1. /\ CountOf(ch, kind, q, p) = NumIn(ch, {kind}, q, p)
        /\ CountOf(ch, terminatorClass(kind), q, p) = NumIn(ch, Ending({kind}), q, p)
    BY CountOfIs
  <2>. QED  BY <2>1
<1>6. e \in E
  <2>1. ch[e].kind = term /\ Len(S[e]) = Len(S[q])
    BY DEF Ended
  <2>2. NumAbove(ch, {kind}, Len(S[q]), S[e]) = 0
    <3>1. Len(S[q]) \in Nat /\ Len(S[e]) \in Nat /\ Len(S[e]) <= Len(S[q])
      BY <2>1, InnermostOpen, AtPlace
    <3>. QED  BY <3>1, AboveType
  <2>3. /\ NumIn(ch, {kind}, q, e - 1) \in Nat /\ NumIn(ch, Ending({kind}), q, e - 1) \in Nat
        /\ NumAbove(ch, {kind}, Len(S[q]), S[e]) + NumIn(ch, Ending({kind}), q, e - 1)
             = NumIn(ch, {kind}, q, e - 1)
    BY <1>2, <1>4, CountsOnTheWay
  <2>4. /\ NumIn(ch, {kind}, q, e) = NumIn(ch, {kind}, q, e - 1)
        /\ NumIn(ch, Ending({kind}), q, e) = NumIn(ch, Ending({kind}), q, e - 1) + 1
    BY <1>2, <1>4, <2>1, CountsHere
  <2>5. 1 + NumIn(ch, {kind}, q, e) = NumIn(ch, Ending({kind}), q, e)
    BY <2>2, <2>3, <2>4
  <2>. HIDE DEF E, term
  <2>6. 1 + CountOf(ch, kind, q, e) = CountOf(ch, term, q, e)
    BY <1>5, <2>5
  <2>. QED  BY <1>2, <1>3, <2>1, <2>6
<1>7. ASSUME NEW p \in E  PROVE e <= p
  <2>. SUFFICES ASSUME p < e  PROVE FALSE
    BY <1>2, <1>3
  <2>1. /\ p \in q..e /\ p + 1 \in q..e /\ (p + 1) - 1 = p
    BY <1>2, <1>3
  <2>2. /\ NumIn(ch, {kind}, q, (p + 1) - 1) \in Nat /\ NumIn(ch, Ending({kind}), q, (p + 1) - 1) \in Nat
        /\ NumAbove(ch, {kind}, Len(S[q]), S[p + 1]) \in Nat
        /\ NumAbove(ch, {kind}, Len(S[q]), S[p + 1]) + NumIn(ch, Ending({kind}), q, (p + 1) - 1)
             = NumIn(ch, {kind}, q, (p + 1) - 1)
    BY <1>4, <2>1, CountsOnTheWay
  <2>3. 1 + CountOf(ch, kind, q, p) = CountOf(ch, term, q, p)
    BY <1>3
  <2>4. 1 + NumIn(ch, {kind}, q, p) = NumIn(ch, Ending({kind}), q, p)
    BY <1>5, <2>3
  <2>. QED  BY <2>1, <2>2, <2>4
<1>8. E \subseteq Nat
  BY <1>2, <1>3
<1>. QED  BY <1>6, <1>7, <1>8

\* terminateToEnd: from anywhere in a command finds the end of the command.
LEMMA EndFound ==
  ASSUME NEW ch, NEW S, Bracketed(ch, S), NEW q \in 1..Len(ch), Len(S[q]) > 0,
         NEW e, Ended(ch, S, q, e)
  PROVE  terminateToEnd(ch, ch[Innermost(S[q])].kind, q) = e
<1>. DEFINE kind == ch[Innermost(S[q])].kind
<1>1. kind = ch[Innermost(S[q])].kind
  OBVIOUS
<1>. HIDE DEF kind
<1>2. /\ e \in Ends(ch, kind, q)
      /\ Ends(ch, kind, q) \subseteq Nat
      /\ \A p \in Ends(ch, kind, q) : e <= p
  BY <1>1, EndsAt
<1>3. First(Ends(ch, kind, q)) = e
  BY <1>2, FirstIs
<1>. QED  BY <1>1, <1>3 DEF terminateToEnd

\* An else that the search may stop at is one of the command's own, as high as the
\* command's text.
LEMMA OwnElsesAre ==
  ASSUME NEW ch, NEW S, Bracketed(ch, S), NEW q \in 1..Len(ch), Len(S[q]) > 0,
         NEW e, Ended(ch, S, q, e), NEW kind, kind = ch[Innermost(S[q])].kind
  PROVE  OwnElses(ch, kind, q) = {p \in q..(e - 1) : isElse(ch[p].kind) /\ Len(S[p]) = Len(S[q])}
<1>. DEFINE term == terminatorClass(kind)
            E == Ends(ch, kind, q)
            O == OwnElses(ch, kind, q)
            d == Len(S[q])
<1>1. kind \in Openers /\ d \in Nat /\ d \in 1..d
  BY InnermostOpen
<1>2. Len(ch) \in Nat /\ q \in Nat /\ q # Nowhere /\ e \in q..Len(ch)
  BY AtPlace DEF Ended, Nowhere
<1>3. O = {p \in q..Len(ch) : /\ ch[p].kind = elseClass(kind)
                              /\ CountOf(ch, kind, q, p) = CountOf(ch, term, q, p)
                              /\ \A y \in E : p < y}
  BY <1>2 DEF OwnElses
<1>4. {kind} \subseteq Openers /\ elseClass(kind) \notin Ending({kind}) /\ elseClass(kind) \notin {kind}
  BY <1>1, KindsDiffer
<1>5. \A p : /\ CountOf(ch, kind, q, p) = NumIn(ch, {kind}, q, p)
             /\ CountOf(ch, term, q, p) = NumIn(ch, Ending({kind}), q, p)
  <2>. TAKE p
  <2>1. /\ CountOf(ch, kind, q, p) = NumIn(ch, {kind}, q, p)
        /\ CountOf(ch, terminatorClass(kind), q, p) = NumIn(ch, Ending({kind}), q, p)
    BY CountOfIs
  <2>. QED  BY <2>1
<1>6. e \in E /\ E \subseteq Nat /\ \A p \in E : e <= p
  BY EndsAt
<1>7. \A k, l \in Openers : isElse(elseClass(k)) /\ elseClass(k) = elseClass(l) => k = l
  BY DEF Openers, elseClass, isElse, Elses, NoClass
<1>. HIDE DEF O, E
<1>8. ASSUME NEW p \in q..(e - 1), ch[p].kind = elseClass(kind)
      PROVE  CountOf(ch, kind, q, p) = CountOf(ch, term, q, p) <=> NumAbove(ch, {kind}, d, S[p]) = 0
  <2>1. p \in q..e
    BY <1>2
  <2>2. /\ NumIn(ch, {kind}, q, p - 1) \in Nat /\ NumIn(ch, Ending({kind}), q, p - 1) \in Nat
        /\ NumAbove(ch, {kind}, d, S[p]) \in Nat
        /\ NumAbove(ch, {kind}, d, S[p]) + NumIn(ch, Ending({kind}), q, p - 1)
             = NumIn(ch, {kind}, q, p - 1)
    BY <1>4, <2>1, CountsOnTheWay
  <2>3. /\ NumIn(ch, {kind}, q, p) = NumIn(ch, {kind}, q, p - 1)
        /\ NumIn(ch, Ending({kind}), q, p) = NumIn(ch, Ending({kind}), q, p - 1)
    BY <1>4, <1>8, <2>1, CountsHere
  <2>. HIDE DEF d, term
  <2>4. NumIn(ch, {kind}, q, p) = NumIn(ch, Ending({kind}), q, p) <=> NumAbove(ch, {kind}, d, S[p]) = 0
    BY <2>2, <2>3
  <2>. QED  BY <1>5, <2>4
<1>9. ASSUME NEW p \in O
      PROVE  p \in q..(e - 1) /\ isElse(ch[p].kind) /\ Len(S[p]) = d
  <2>1. p \in q..Len(ch) /\ ch[p].kind = elseClass(kind) /\ p < e
    BY <1>3, <1>6
  <2>2. p \in q..(e - 1) /\ p \in q..e /\ p \in 1..Len(ch) /\ p \in 1..(Len(ch) + 1)
    BY <1>2, <2>1
  <2>3. NumAbove(ch, {kind}, d, S[p]) = 0
    BY <1>3, <1>8, <2>1, <2>2
  <2>4. StepAt(ch, S, p) /\ ch[p] \in Nodes /\ Len(S[p]) \in Nat
    BY <2>2, AtPlace
  <2>5. isElse(ch[p].kind)
    BY <1>1, <2>1, <2>4 DEF Nodes, Kinds, elseClass, isElse, Elses, NoClass, Openers, Closers
  <2>6. Len(S[p]) > 0 /\ ch[p].kind = elseClass(ch[Innermost(S[p])].kind)
    BY <2>4, <2>5 DEF StepAt
  <2>7. ch[Innermost(S[p])].kind \in Openers
    BY <2>2, <2>6, InnermostOpen
  <2>8. ch[Innermost(S[p])].kind = kind
    BY <1>1, <1>7, <2>1, <2>5, <2>6, <2>7
  <2>9. \A i \in (d + 1)..Len(S[p]) : ch[S[p][i]].kind \notin {kind}
    BY <1>1, <2>3, <2>4, AboveType
  <2>10. ~(Len(S[p]) > d)
    <3>. SUFFICES ASSUME Len(S[p]) > d  PROVE FALSE
      OBVIOUS
    <3>. HIDE DEF d
    <3>1. Len(S[p]) \in (d + 1)..Len(S[p])
      BY <1>1, <2>4
    <3>. QED  BY <2>8, <2>9, <3>1 DEF Innermost
  <2>11. d <= Len(S[p])
    BY <2>2 DEF Ended
  <2>. HIDE DEF d
  <2>. QED  BY <1>1, <2>2, <2>4, <2>5, <2>10, <2>11
<1>10. ASSUME NEW p \in q..(e - 1), isElse(ch[p].kind), Len(S[p]) = d
       PROVE  p \in O
  <2>1. /\ p \in q..Len(ch) /\ p < e /\ p \in 1..Len(ch) /\ p \in q..(Len(ch) + 1)
        /\ p \in 1..(Len(ch) + 1) /\ p \in Nat /\ q \in 1..(Len(ch) + 1)
    BY <1>2
  <2>2. ch[p].kind = elseClass(ch[Innermost(S[p])].kind)
    BY <1>10, <2>1, AtPlace DEF StepAt
  <2>3. S[p][d] = S[q][d]
    <3>1. Holds(S, d, q, p)
      <4>1. \A r \in q..p : r \in q..e
        BY <1>2
      <4>. QED  BY <4>1 DEF Holds, Ended
    <3>. HIDE DEF d
    <3>2. \A j \in 1..d : S[p][j] = S[q][j]
      BY <1>1, <2>1, <3>1, Stays, SMTT(40)
    <3>. QED  BY <1>1, <3>2
  <2>4. ch[p].kind = elseClass(kind)
    BY <1>10, <2>2, <2>3 DEF Innermost
  <2>5. NumAbove(ch, {kind}, d, S[p]) = 0
    <3>1. Len(S[p]) \in Nat /\ Len(S[p]) <= d
      BY <1>1, <1>10
    <3>. QED  BY <1>1, <3>1, AboveType
  <2>6. CountOf(ch, kind, q, p) = CountOf(ch, term, q, p)
    BY <1>8, <2>4, <2>5
  <2>7. \A y \in E : p < y
    BY <1>2, <1>6, <2>1
  <2>. QED  BY <1>3, <2>1, <2>4, <2>6, <2>7
<1>11. O \subseteq q..(e - 1)
  BY <1>9
<1>. HIDE DEF d
<1>12. O = {p \in q..(e - 1) : isElse(ch[p].kind) /\ Len(S[p]) = d}
  BY <1>9, <1>10, <1>11
<1>. QED  BY <1>12 DEF O, d

\* terminateToElse: from anywhere in a command finds its else, or else its end.
LEMMA ElseFound ==
  ASSUME NEW ch, NEW S, Bracketed(ch, S), NEW q \in 1..Len(ch), Len(S[q]) > 0,
         NEW e, Ended(ch, S, q, e), NEW kind, kind = ch[Innermost(S[q])].kind,
         NEW x, x = terminateToElse(ch, kind, q)
  PROVE  /\ x \in q..e
         /\ x # e => isElse(ch[x].kind) /\ Len(S[x]) = Len(S[q])
         /\ \A p \in q..(x - 1) : isElse(ch[p].kind) => Len(S[p]) # Len(S[q])
<1>. DEFINE E == Ends(ch, kind, q)
            O == OwnElses(ch, kind, q)
<1>1. Len(ch) \in Nat /\ q \in Nat /\ e \in q..Len(ch)
  BY AtPlace DEF Ended
<1>2. e \in E /\ E \subseteq Nat /\ \A p \in E : e <= p
  BY EndsAt
<1>3. O = {p \in q..(e - 1) : isElse(ch[p].kind) /\ Len(S[p]) = Len(S[q])}
  BY OwnElsesAre
<1>4. x = First(E \cup O)
  BY DEF terminateToElse
<1>. HIDE DEF E, O
<1>5. E \cup O \subseteq Nat /\ E \cup O # {}
  <2>1. O \subseteq Nat
    BY <1>1, <1>3
  <2>. QED  BY <1>2, <2>1
<1>6. x \in E \cup O /\ \A y \in E \cup O : x <= y
  BY <1>4, <1>5, LeastNatural DEF First
<1>7. x <= e /\ x \in Nat
  BY <1>2, <1>5, <1>6
<1>8. x \in E => x = e
  BY <1>1, <1>2, <1>7
<1>9. x \in O => x \in q..(e - 1) /\ isElse(ch[x].kind) /\ Len(S[x]) = Len(S[q])
  BY <1>3
<1>10. x \in q..e /\ (x # e => isElse(ch[x].kind) /\ Len(S[x]) = Len(S[q]))
  BY <1>1, <1>6, <1>7, <1>8, <1>9
<1>11. ASSUME NEW p \in q..(x - 1), isElse(ch[p].kind), Len(S[p]) = Len(S[q])  PROVE FALSE
  <2>1. p \in q..(e - 1) /\ p < x
    BY <1>1, <1>7
  <2>2. p \in O
    BY <1>3, <1>11, <2>1
  <2>. QED  BY <1>6, <1>7, <2>1, <2>2
<1>. QED  BY <1>10, <1>11

-----------------------------------------------------------------------------
(* The types, in any template. *)

Places(ch) == {Nowhere} \cup DOMAIN ch

\* The frames are frames of commands of the template.
FramesTyped(ch, fs) == fs \in Seq(Frames) /\ \A k \in DOMAIN fs : fs[k].cmd \in DOMAIN ch

\* The object behind a place is a place.
LEMMA NextPlaced ==
  ASSUME NEW ch \in Seq(Nodes), NEW at \in Places(ch)
  PROVE  next_(ch, at) \in Places(ch)
BY DEF next_, Places, Nowhere

\* What the searches find is a place.
LEMMA SearchPlaced ==
  ASSUME NEW ch \in Seq(Nodes), NEW self, NEW at \in Places(ch)
  PROVE  terminateToEnd(ch, self, at) \in Places(ch) /\ terminateToElse(ch, self, at) \in Places(ch)
<1>1. Ends(ch, self, at) \subseteq DOMAIN ch /\ OwnElses(ch, self, at) \subseteq DOMAIN ch
  BY DEF Ends, OwnElses, Places, Nowhere
<1>2. ASSUME NEW T, T \subseteq DOMAIN ch  PROVE First(T) \in Places(ch)
  <2>1. T \subseteq Nat
    BY <1>2
  <2>2. T # {} => Min(T) \in T
    BY <2>1, LeastNatural
  <2>. QED  BY <1>2, <2>2 DEF First, Places
<1>. QED  BY <1>1, <1>2 DEF terminateToEnd, terminateToElse

\* The types that the actions leave to each other.
LEMMA TypedParts ==
  ASSUME PrinterTypeOK
  PROVE  /\ chain \in Seq(Nodes) /\ FramesTyped(chain, frames) /\ curr \in Places(chain)
         /\ Len(frames) \in Nat /\ DOMAIN frames = 1..Len(frames)
         /\ \A k \in DOMAIN frames : frames[k] \in Frames /\ frames[k].cmd \in DOMAIN chain
<1>1. chain \in Seq(Nodes) /\ FramesTyped(chain, frames) /\ curr \in Places(chain)
  BY DEF PrinterTypeOK, FramesTyped, Places
<1>2. frames \in Seq(Frames) /\ \A k \in DOMAIN frames : frames[k].cmd \in DOMAIN chain
  BY DEF PrinterTypeOK
<1>3. Len(frames) \in Nat /\ DOMAIN frames = 1..Len(frames) /\ \A k \in DOMAIN frames : frames[k] \in Frames
  BY <1>2
<1>. QED  BY <1>1, <1>2, <1>3

\* An object that is rendered is in the chain.
LEMMA AtInChain ==
  ASSUME PrinterTypeOK, NEW kind \in Kinds, At(kind)
  PROVE  /\ curr \in DOMAIN chain /\ curr # Nowhere /\ chain[curr].kind = kind
         /\ chain[curr] \in Nodes /\ raised = "no" /\ Len(frames) > 0
         /\ Next_(curr) \in Places(chain)
<1>1. curr # Nowhere
  BY DEF At, Kind, KindAt, NoClass, Kinds, Openers, Closers, Elses
<1>2. curr \in DOMAIN chain /\ chain \in Seq(Nodes) /\ curr \in Places(chain)
  BY <1>1 DEF PrinterTypeOK, Places
<1>3. chain[curr].kind = kind /\ raised = "no" /\ frames # <<>>
  BY <1>1 DEF At, Kind, KindAt, Running
<1>4. chain[curr] \in Nodes
  BY <1>2
<1>5. Len(frames) > 0
  BY <1>3, TypedParts, EmptySeq DEF FramesTyped
<1>. QED  BY <1>1, <1>2, <1>3, <1>4, <1>5, NextPlaced DEF Next_

\* A command that comes back to its frame is in the chain.
LEMMA BackInChain ==
  ASSUME PrinterTypeOK, NEW kind, NEW section, Back(kind, section)
  PROVE  /\ Len(frames) > 0 /\ Len(frames) \in DOMAIN frames /\ Top \in Frames
         /\ Top.cmd \in DOMAIN chain /\ Top.cmd # Nowhere
         /\ chain[Top.cmd].kind = kind /\ chain[Top.cmd] \in Nodes
         /\ Top.section = section /\ raised = "no"
         /\ LoopEnds
<1>1. frames # <<>> /\ raised = "no" /\ Kind(Top.cmd) = kind /\ Top.section = section /\ LoopEnds
  BY DEF Back, Running
<1>2. Len(frames) > 0 /\ Len(frames) \in DOMAIN frames
  BY <1>1, TypedParts, EmptySeq DEF FramesTyped
<1>3. Top \in Frames /\ Top.cmd \in DOMAIN chain
  BY <1>2, TypedParts DEF Top
<1>4. chain \in Seq(Nodes)
  BY TypedParts
<1>5. Top.cmd # Nowhere /\ chain[Top.cmd] \in Nodes
  BY <1>3, <1>4 DEF Nowhere
<1>. QED  BY <1>1, <1>2, <1>3, <1>5 DEF Kind, KindAt

\* One more frame.
LEMMA CallTyped ==
  ASSUME NEW ch, NEW fs, FramesTyped(ch, fs), NEW c \in DOMAIN ch, c \in Nat,
         NEW section \in Sections, NEW n \in Nat
  PROVE  FramesTyped(ch, Append(fs, [cmd |-> c, section |-> section, i |-> 0, n |-> n]))
<1>. DEFINE fr == [cmd |-> c, section |-> section, i |-> 0, n |-> n]
<1>1. fr \in Frames /\ fr.cmd = c
  BY DEF Frames
<1>. HIDE DEF fr
<1>2. fs \in Seq(Frames) /\ \A k \in DOMAIN fs : fs[k].cmd \in DOMAIN ch
  BY DEF FramesTyped
<1>3. /\ Append(fs, fr) \in Seq(Frames)
      /\ DOMAIN Append(fs, fr) = 1..(Len(fs) + 1) /\ DOMAIN fs = 1..Len(fs) /\ Len(fs) \in Nat
      /\ Append(fs, fr)[Len(fs) + 1] = fr
      /\ \A k \in 1..Len(fs) : Append(fs, fr)[k] = fs[k]
  BY <1>1, <1>2
<1>4. \A k \in 1..(Len(fs) + 1) : Append(fs, fr)[k].cmd \in DOMAIN ch
  <2>. TAKE k \in 1..(Len(fs) + 1)
  <2>1. k = Len(fs) + 1 \/ k \in 1..Len(fs)
    BY <1>3
  <2>. QED  BY <1>1, <1>2, <1>3, <2>1
<1>5. FramesTyped(ch, Append(fs, fr))
  BY <1>3, <1>4 DEF FramesTyped
<1>. QED  BY <1>5 DEF fr

\* One frame less.
LEMMA ReturnTyped ==
  ASSUME NEW ch, NEW fs, FramesTyped(ch, fs), Len(fs) > 0
  PROVE  FramesTyped(ch, SubSeq(fs, 1, Len(fs) - 1))
<1>. DEFINE f == SubSeq(fs, 1, Len(fs) - 1)
<1>1. fs \in Seq(Frames) /\ \A k \in DOMAIN fs : fs[k].cmd \in DOMAIN ch
  BY DEF FramesTyped
<1>2. f \in Seq(Frames) /\ Shrinks(fs, f)
  BY <1>1, FrontShrinks
<1>. HIDE DEF f
<1>3. DOMAIN f = 1..Len(f) /\ DOMAIN fs = 1..Len(fs) /\ Len(f) = Len(fs) - 1 /\ Len(fs) \in Nat
      /\ \A k \in 1..Len(f) : f[k] = fs[k]
  BY <1>1, <1>2 DEF Shrinks
<1>4. \A k \in DOMAIN f : k \in DOMAIN fs
  BY <1>3
<1>5. \A k \in DOMAIN f : f[k].cmd \in DOMAIN ch
  BY <1>1, <1>3, <1>4
<1>6. FramesTyped(ch, f)
  BY <1>2, <1>5 DEF FramesTyped
<1>. QED  BY <1>6 DEF f

\* The next turn of the innermost loop.
LEMMA TurnTyped ==
  ASSUME NEW ch, NEW fs, FramesTyped(ch, fs), Len(fs) > 0
  PROVE  /\ FramesTyped(ch, [fs EXCEPT ![Len(fs)].i = @ + 1])
         /\ Len([fs EXCEPT ![Len(fs)].i = @ + 1]) = Len(fs)
         /\ \A k \in 1..Len(fs) : k # Len(fs) => [fs EXCEPT ![Len(fs)].i = @ + 1][k] = fs[k]
         /\ [fs EXCEPT ![Len(fs)].i = @ + 1][Len(fs)] = [fs[Len(fs)] EXCEPT !.i = @ + 1]
<1>. DEFINE m == Len(fs)
            g == [fs EXCEPT ![m].i = @ + 1]
            fr == [fs[m] EXCEPT !.i = @ + 1]
<1>1. /\ fs \in Seq(Frames) /\ (\A k \in DOMAIN fs : fs[k].cmd \in DOMAIN ch)
      /\ m \in Nat /\ m > 0 /\ DOMAIN fs = 1..m /\ m \in 1..m
  BY DEF FramesTyped
<1>2. fs[m] \in Frames
  BY <1>1
<1>3. fr \in Frames /\ fr.cmd = fs[m].cmd
  BY <1>2 DEF Frames
<1>4. g = [k \in 1..m |-> IF k = m THEN fr ELSE fs[k]]
  BY <1>1
<1>5. \A k \in 1..m : fs[k] \in Frames
  BY <1>1
<1>. HIDE DEF fr, g, m
<1>6. g \in Seq(Frames) /\ Len(g) = m /\ DOMAIN g = 1..m
      /\ (\A k \in 1..m : k # m => g[k] = fs[k]) /\ g[m] = fr
  BY <1>1, <1>3, <1>4, <1>5
<1>7. \A k \in DOMAIN g : g[k].cmd \in DOMAIN ch
  BY <1>1, <1>3, <1>6
<1>8. FramesTyped(ch, g)
  BY <1>6, <1>7 DEF FramesTyped
<1>. QED  BY <1>6, <1>8 DEF g, m, fr

ScopeTyped == /\ loopVar  \in [Identifiers -> Nat \cup {Nil}]
              /\ loopInfo \in [Identifiers -> Nat \cup {Nil}]

NamingTyped == file \in Files /\ fileStack \in Seq(Files) \cup {Nil}

ControlTyped == chain \in Seq(Nodes) /\ FramesTyped(chain, frames) /\ curr \in Places(chain)

\* The types in parts.
LEMMA TypedIs ==
  PrinterTypeOK <=> ControlTyped /\ ScopeTyped /\ NamingTyped /\ raised \in {"no", "stray", "no file"}
BY DEF PrinterTypeOK, ControlTyped, FramesTyped, Places, ScopeTyped, NamingTyped

\* So after a step: the parts give the whole.
LEMMA TypedAfter ==
  ControlTyped' /\ ScopeTyped' /\ NamingTyped' /\ raised' \in {"no", "stray", "no file"} => PrinterTypeOK'
BY DEF PrinterTypeOK, ControlTyped, FramesTyped, Places, ScopeTyped, NamingTyped

\* What a step leaves alone keeps its type.
LEMMA TypesStay ==
  ASSUME PrinterTypeOK
  PROVE  /\ UNCHANGED scope => ScopeTyped'
         /\ UNCHANGED naming => NamingTyped'
         /\ UNCHANGED raised => raised' \in {"no", "stray", "no file"}
         /\ UNCHANGED <<chain, frames>> /\ curr' \in Places(chain) => ControlTyped'
BY TypedIs DEF ScopeTyped, NamingTyped, ControlTyped, scope, naming

\* What a call and a return leave.
LEMMA CallControl ==
  ASSUME PrinterTypeOK, curr \in DOMAIN chain, chain' = chain,
         NEW section \in Sections, NEW n \in Nat, NEW start \in Places(chain),
         Call(section, start, n)
  PROVE  ControlTyped'
<1>1. curr \in Nat
  BY TypedParts
<1>2. FramesTyped(chain, Append(frames, [cmd |-> curr, section |-> section, i |-> 0, n |-> n]))
  BY <1>1, TypedParts, CallTyped
<1>. QED  BY <1>2, TypedParts DEF Call, ControlTyped

\* A return from a frame leaves the control typed.
LEMMA ReturnControl ==
  ASSUME PrinterTypeOK, Len(frames) > 0, chain' = chain, NEW at \in Places(chain), Return(at)
  PROVE  ControlTyped'
<1>1. FramesTyped(chain, SubSeq(frames, 1, Len(frames) - 1))
  BY TypedParts, ReturnTyped
<1>. QED  BY <1>1, TypedParts DEF Return, Callers, ControlTyped

\* So does the next turn of a loop.
LEMMA TurnControl ==
  ASSUME PrinterTypeOK, Len(frames) > 0, chain' = chain, curr' \in Places(chain),
         frames' = [frames EXCEPT ![Len(frames)].i = @ + 1]
  PROVE  ControlTyped'
<1>1. FramesTyped(chain, [frames EXCEPT ![Len(frames)].i = @ + 1])
  BY TypedParts, TurnTyped
<1>. QED  BY <1>1, TypedParts DEF ControlTyped

\* Places behind a command.
LEMMA BehindPlaced ==
  ASSUME PrinterTypeOK, NEW self, NEW at \in Places(chain)
  PROVE  Behind(self, at) \in Places(chain)
BY TypedParts, NextPlaced DEF Behind, Next_

\* The types hold first.
LEMMA TypedInit == Init => PrinterTypeOK
<1>. SUFFICES ASSUME Init PROVE PrinterTypeOK
  OBVIOUS
<1>1. chain \in Seq(Nodes) /\ Len(chain) > 0 /\ chain \in Chains
  BY ChainsAssumption DEF Init
<1>2. 1 \in DOMAIN chain /\ chain[1] \in Nodes
  BY <1>1
<1>3. curr \in Places(chain)
  <2>1. 1 \in Places(chain)
    BY <1>2 DEF Places
  <2>. QED  BY <1>1, <2>1, NextPlaced DEF Init
<1>4. FramesTyped(chain, frames)
  <2>. DEFINE fr == [cmd |-> 1, section |-> "chain", i |-> 0, n |-> 0]
  <2>1. fr \in Frames /\ fr.cmd = 1
    BY DEF Frames, Sections
  <2>2. frames = <<fr>>
    BY DEF Init
  <2>. HIDE DEF fr
  <2>3. frames \in Seq(Frames) /\ DOMAIN frames = 1..1 /\ frames[1] = fr
    BY <2>1, <2>2
  <2>. QED  BY <1>2, <2>1, <2>3 DEF FramesTyped
<1>5. file \in Files /\ fileStack = Nil /\ raised = "no"
  BY <1>2 DEF Init, Nodes
<1>6. ScopeTyped
  BY DEF Init, ScopeTyped
<1>. QED  BY <1>1, <1>3, <1>4, <1>5, <1>6, TypedIs DEF ControlTyped, NamingTyped

\* Setting and removing a variable.
LEMMA ItemTyped ==
  ASSUME ScopeTyped, NEW x \in Identifiers, NEW i \in Nat, NEW owner \in Nat
  PROVE  /\ SetItem(x, i, owner) => ScopeTyped'
         /\ ForgetItem(x) => ScopeTyped'
         /\ UNCHANGED loopVar /\ loopInfo' = [loopInfo EXCEPT ![x] = owner] => ScopeTyped'
         /\ loopVar' = [loopVar EXCEPT ![x] = i] /\ UNCHANGED loopInfo => ScopeTyped'
BY DEF ScopeTyped, SetItem, ForgetItem

\* An if keeps the types, whichever section it renders.
LEMMA TypedIf ==
  ASSUME PrinterTypeOK, NEW flag \in BOOLEAN, RenderIf(flag)
  PROVE  PrinterTypeOK'
<1>. DEFINE other == terminateToElse(chain, "if", Next_(curr))
<1>1. "if" \in Kinds /\ At("if") /\ UNCHANGED <<chain, scope, naming, raised>>
  BY DEF RenderIf, Kinds, Openers
<1>2. /\ curr \in DOMAIN chain /\ chain \in Seq(Nodes) /\ Next_(curr) \in Places(chain)
      /\ other \in Places(chain)
  BY <1>1, AtInChain, TypedParts, SearchPlaced
<1>3. Next_(other) \in Places(chain) /\ Behind("if", other) \in Places(chain)
  BY <1>2, NextPlaced, BehindPlaced DEF Next_
<1>4. ControlTyped'
  <2>1. CASE flag
    <3>1. Call("then", Next_(curr), 0)
      BY <2>1 DEF RenderIf
    <3>2. "then" \in Sections /\ 0 \in Nat
      BY DEF Sections
    <3>. QED  BY <1>1, <1>2, <3>1, <3>2, CallControl
  <2>2. CASE ~flag /\ isElse(Kind(other))
    <3>1. Call("else", Next_(other), 0)
      BY <2>2 DEF RenderIf
    <3>2. "else" \in Sections /\ 0 \in Nat
      BY DEF Sections
    <3>. QED  BY <1>1, <1>2, <1>3, <3>1, <3>2, CallControl
  <2>3. CASE ~flag /\ ~isElse(Kind(other))
    <3>1. curr' = Behind("if", other) /\ UNCHANGED frames
      BY <2>3 DEF RenderIf
    <3>. QED  BY <1>1, <1>3, <3>1, TypedIs DEF ControlTyped
  <2>. QED  BY <2>1, <2>2, <2>3
<1>. QED  BY <1>1, <1>4, TypesStay, TypedAfter

\* So does a for, with elements or without.
LEMMA TypedFor ==
  ASSUME PrinterTypeOK, NEW n \in 0..MaxItems, RenderFor(n)
  PROVE  PrinterTypeOK'
<1>. DEFINE other == terminateToElse(chain, "for", Next_(curr))
            x == chain[curr].id
            owner == Len(frames) + 1
<1>1. "for" \in Kinds /\ At("for") /\ UNCHANGED <<chain, naming, raised>>
  BY DEF RenderFor, Kinds, Openers
<1>2. /\ curr \in DOMAIN chain /\ chain \in Seq(Nodes) /\ Next_(curr) \in Places(chain)
      /\ other \in Places(chain) /\ chain[curr] \in Nodes
  BY <1>1, AtInChain, TypedParts, SearchPlaced
<1>3. /\ Next_(other) \in Places(chain)
      /\ Behind("for", terminateToEnd(chain, "for", other)) \in Places(chain)
  BY <1>2, NextPlaced, BehindPlaced, SearchPlaced DEF Next_
<1>4. x \in Identifiers /\ owner \in Nat /\ n \in Nat /\ 0 \in Nat /\ ScopeTyped
      /\ "body" \in Sections /\ "empty" \in Sections
  <2>1. x \in Identifiers
    BY <1>2 DEF Nodes
  <2>2. owner \in Nat
    BY TypedParts
  <2>3. n \in Nat
    BY PrinterBounds
  <2>4. ScopeTyped
    BY TypedIs
  <2>. QED  BY <2>1, <2>2, <2>3, <2>4 DEF Sections
<1>5. ControlTyped' /\ ScopeTyped'
  <2>1. CASE n > 0
    <3>1. Call("body", Next_(curr), n) /\ SetItem(x, 0, owner)
      <4>1. n # 0
        BY <1>4, <2>1
      <4>. QED  BY <2>1, <4>1, Zenon DEF RenderFor
    <3>2. ControlTyped'
      BY <1>1, <1>2, <1>4, <3>1, CallControl
    <3>. QED  BY <1>4, <3>1, <3>2, ItemTyped
  <2>2. CASE n = 0 /\ isElse(Kind(other))
    <3>1. Call("empty", Next_(other), 0) /\ loopInfo' = [loopInfo EXCEPT ![x] = owner] /\ UNCHANGED loopVar
      BY <2>2 DEF RenderFor
    <3>2. ControlTyped'
      BY <1>1, <1>2, <1>3, <1>4, <3>1, CallControl
    <3>. QED  BY <1>4, <3>1, <3>2, ItemTyped
  <2>3. CASE n = 0 /\ ~isElse(Kind(other))
    <3>1. /\ curr' = Behind("for", terminateToEnd(chain, "for", other)) /\ UNCHANGED frames
          /\ ForgetItem(x)
      BY <2>3 DEF RenderFor
    <3>2. ControlTyped'
      BY <1>1, <1>3, <3>1, TypedIs DEF ControlTyped
    <3>. QED  BY <1>4, <3>1, <3>2, ItemTyped
  <2>. QED  BY <1>4, <2>1, <2>2, <2>3
<1>. QED  BY <1>1, <1>5, TypesStay, TypedAfter

\* So does a while.
LEMMA TypedWhile ==
  ASSUME PrinterTypeOK, NEW flag \in BOOLEAN, RenderWhile(flag)
  PROVE  PrinterTypeOK'
<1>1. "while" \in Kinds /\ At("while") /\ UNCHANGED <<chain, scope, naming, raised>>
  BY DEF RenderWhile, Kinds, Openers
<1>2. /\ curr \in DOMAIN chain /\ chain \in Seq(Nodes) /\ Next_(curr) \in Places(chain)
  BY <1>1, AtInChain, TypedParts
<1>3. Behind("while", terminateToEnd(chain, "while", Next_(curr))) \in Places(chain)
  BY <1>2, BehindPlaced, SearchPlaced
<1>4. ControlTyped'
  <2>1. CASE flag
    <3>1. Call("body", Next_(curr), 0)
      BY <2>1 DEF RenderWhile
    <3>2. "body" \in Sections /\ 0 \in Nat
      BY DEF Sections
    <3>. QED  BY <1>1, <1>2, <3>1, <3>2, CallControl
  <2>2. CASE ~flag
    <3>1. /\ curr' = Behind("while", terminateToEnd(chain, "while", Next_(curr)))
          /\ UNCHANGED frames
      BY <2>2 DEF RenderWhile
    <3>. QED  BY <1>1, <1>3, <3>1, TypedIs DEF ControlTyped
  <2>. QED  BY <2>1, <2>2
<1>. QED  BY <1>1, <1>4, TypesStay, TypedAfter

\* The next element of a for keeps the types.
LEMMA TypedForTurns ==
  ASSUME PrinterTypeOK, ForTurns
  PROVE  PrinterTypeOK'
<1>1. /\ Back("for", "body") /\ frames' = [frames EXCEPT ![Len(frames)].i = @ + 1]
      /\ curr' = Next_(Top.cmd) /\ loopVar' = [loopVar EXCEPT ![chain[Top.cmd].id] = Top.i + 1]
      /\ UNCHANGED <<chain, loopInfo, naming, raised>>
  BY DEF ForTurns
<1>2. /\ Len(frames) > 0 /\ Top \in Frames /\ Top.cmd \in DOMAIN chain /\ chain[Top.cmd] \in Nodes
      /\ chain \in Seq(Nodes)
  BY <1>1, BackInChain, TypedParts
<1>3. Next_(Top.cmd) \in Places(chain)
  BY <1>2, NextPlaced DEF Next_, Places
<1>4. chain[Top.cmd].id \in Identifiers /\ Top.i + 1 \in Nat /\ 0 \in Nat
  BY <1>2 DEF Nodes, Frames
<1>5. ControlTyped'
  BY <1>1, <1>2, <1>3, TurnControl
<1>6. ScopeTyped'
  BY <1>1, <1>4, ItemTyped, TypedIs
<1>. QED  BY <1>1, <1>5, <1>6, TypesStay, TypedAfter

\* So does the end of a for, and of its elsefor part.
LEMMA TypedForEnds ==
  ASSUME PrinterTypeOK, ForReturns \/ ElseForReturns
  PROVE  PrinterTypeOK'
<1>. DEFINE other == terminateToElse(chain, "for", Next_(Top.cmd))
<1>1. \E section : Back("for", section)
  BY DEF ForReturns, ElseForReturns
<1>2. /\ ForgetItem(chain[Top.cmd].id) /\ UNCHANGED <<chain, naming, raised>>
      /\ \/ Return(Behind("for", terminateToEnd(chain, "for", curr)))
         \/ Return(Behind("for", terminateToEnd(chain, "for", other)))
  BY DEF ForReturns, ElseForReturns
<1>3. /\ Len(frames) > 0 /\ Top.cmd \in DOMAIN chain /\ chain[Top.cmd] \in Nodes
      /\ chain \in Seq(Nodes) /\ curr \in Places(chain)
  BY <1>1, BackInChain, TypedParts
<1>4. Next_(Top.cmd) \in Places(chain)
  BY <1>3, NextPlaced DEF Next_, Places
<1>5. /\ Behind("for", terminateToEnd(chain, "for", curr)) \in Places(chain)
      /\ Behind("for", terminateToEnd(chain, "for", other)) \in Places(chain)
  BY <1>3, <1>4, SearchPlaced, BehindPlaced
<1>6. ControlTyped'
  BY <1>2, <1>3, <1>5, ReturnControl
<1>7. chain[Top.cmd].id \in Identifiers /\ 0 \in Nat
  BY <1>3 DEF Nodes
<1>8. ScopeTyped'
  BY <1>2, <1>7, ItemTyped, TypedIs
<1>. QED  BY <1>2, <1>6, <1>8, TypesStay, TypedAfter

\* So does every other return.
LEMMA TypedReturns ==
  ASSUME PrinterTypeOK, TemplateReturns \/ ThenReturns \/ ElseReturns \/ WhileReturns \/ BlockReturns
  PROVE  PrinterTypeOK'
<1>. DEFINE other == terminateToElse(chain, "if", curr)
            end == terminateToEnd(chain, "if", other)
<1>1. \E kind, section : Back(kind, section)
  BY DEF TemplateReturns, ThenReturns, ElseReturns, WhileReturns, BlockReturns
<1>2. /\ UNCHANGED <<chain, scope, naming, raised>>
      /\ \/ Return(Nowhere)
         \/ Return(Behind("if", other)) \/ Return(Behind("if", end))
         \/ Return(Behind("if", curr)) \/ Return(Behind("block", curr))
         \/ Return(Behind("while", terminateToEnd(chain, "while", curr)))
  BY DEF TemplateReturns, ThenReturns, ElseReturns, WhileReturns, BlockReturns
<1>3. Len(frames) > 0 /\ chain \in Seq(Nodes) /\ curr \in Places(chain) /\ Nowhere \in Places(chain)
  BY <1>1, BackInChain, TypedParts DEF Places
<1>4. other \in Places(chain) /\ end \in Places(chain)
  BY <1>3, SearchPlaced
<1>5. /\ Behind("if", other) \in Places(chain) /\ Behind("if", end) \in Places(chain)
      /\ Behind("if", curr) \in Places(chain) /\ Behind("block", curr) \in Places(chain)
      /\ Behind("while", terminateToEnd(chain, "while", curr)) \in Places(chain)
  BY <1>3, <1>4, SearchPlaced, BehindPlaced
<1>6. ControlTyped'
  BY <1>2, <1>3, <1>5, ReturnControl
<1>. QED  BY <1>2, <1>6, TypesStay, TypedAfter

\* So does every step.
LEMMA TypedNext == PrinterTypeOK /\ [Next]_vars => PrinterTypeOK'
<1>. SUFFICES ASSUME PrinterTypeOK, [Next]_vars PROVE PrinterTypeOK'
  OBVIOUS
<1>1. CASE RenderText
  <2>1. "text" \in Kinds /\ At("text") /\ curr' = Next_(curr)
        /\ UNCHANGED <<chain, frames, scope, naming, raised>>
    BY <1>1 DEF RenderText, Kinds
  <2>2. Next_(curr) \in Places(chain)
    BY <2>1, AtInChain
  <2>. QED  BY <2>1, <2>2, TypesStay, TypedAfter
<1>2. CASE RenderTemplate
  <2>1. /\ "template" \in Kinds /\ At("template") /\ file' = chain[curr].file
        /\ Call("chain", Next_(curr), 0) /\ UNCHANGED <<chain, fileStack, scope, raised>>
    BY <1>2 DEF RenderTemplate, Kinds
  <2>2. curr \in DOMAIN chain /\ chain[curr] \in Nodes /\ Next_(curr) \in Places(chain)
    BY <2>1, AtInChain
  <2>3. "chain" \in Sections /\ 0 \in Nat
    BY DEF Sections
  <2>4. ControlTyped'
    BY <2>1, <2>2, <2>3, CallControl
  <2>5. file' \in Files
    BY <2>1, <2>2 DEF Nodes
  <2>6. NamingTyped'
    BY <2>1, <2>5, TypedIs DEF NamingTyped
  <2>. QED  BY <2>1, <2>4, <2>6, TypesStay, TypedAfter
<1>3. CASE RenderStray
  <2>1. raised' = "stray" /\ UNCHANGED <<chain, frames, curr>> /\ UNCHANGED scope /\ UNCHANGED naming
    BY <1>3 DEF RenderStray, control
  <2>2. curr' \in Places(chain)
    BY <2>1, TypedParts
  <2>. QED  BY <2>1, <2>2, TypesStay, TypedAfter
<1>4. CASE \E flag \in BOOLEAN : RenderIf(flag)
  BY <1>4, TypedIf
<1>5. CASE \E n \in 0..MaxItems : RenderFor(n)
  BY <1>5, TypedFor
<1>6. CASE \E flag \in BOOLEAN : RenderWhile(flag)
  BY <1>6, TypedWhile
<1>7. CASE TemplateReturns \/ ThenReturns \/ ElseReturns \/ WhileReturns \/ BlockReturns
  BY <1>7, TypedReturns
<1>8. CASE ForTurns
  BY <1>8, TypedForTurns
<1>9. CASE ForReturns \/ ElseForReturns
  BY <1>9, TypedForEnds
<1>10. CASE WhileTurns
  <2>1. /\ Back("while", "body") /\ frames' = [frames EXCEPT ![Len(frames)].i = @ + 1]
        /\ curr' = Next_(Top.cmd) /\ UNCHANGED <<chain, scope, naming, raised>>
    BY <1>10 DEF WhileTurns
  <2>2. Len(frames) > 0 /\ Top.cmd \in DOMAIN chain /\ chain \in Seq(Nodes)
    BY <2>1, BackInChain, TypedParts
  <2>3. Next_(Top.cmd) \in Places(chain)
    BY <2>2, NextPlaced DEF Next_, Places
  <2>4. ControlTyped'
    BY <2>1, <2>2, <2>3, TurnControl
  <2>. QED  BY <2>1, <2>4, TypesStay, TypedAfter
<1>11. CASE RenderBlock
  <2>1. /\ "block" \in Kinds /\ At("block") /\ file' = chain[curr].file
        /\ fileStack' = IF fileStack = Nil THEN <<file>> ELSE Append(fileStack, file)
        /\ Call("body", Next_(curr), 0) /\ UNCHANGED <<chain, scope, raised>>
    BY <1>11 DEF RenderBlock, Kinds, Openers
  <2>2. curr \in DOMAIN chain /\ chain[curr] \in Nodes /\ Next_(curr) \in Places(chain)
    BY <2>1, AtInChain
  <2>3. "body" \in Sections /\ 0 \in Nat
    BY DEF Sections
  <2>4. ControlTyped'
    BY <2>1, <2>2, <2>3, CallControl
  <2>5. file' \in Files
    BY <2>1, <2>2 DEF Nodes
  <2>6. fileStack' \in Seq(Files)
    <3>1. file \in Files /\ fileStack \in Seq(Files) \cup {Nil}
      BY TypedIs DEF NamingTyped
    <3>. QED  BY <2>1, <3>1
  <2>7. NamingTyped'
    BY <2>5, <2>6 DEF NamingTyped
  <2>. QED  BY <2>1, <2>4, <2>7, TypesStay, TypedAfter
<1>12. CASE RenderEndBlock
  <2>1. /\ "endblock" \in Kinds /\ At("endblock") /\ UNCHANGED <<chain, frames, scope>>
        /\ \/ raised' = "no file" /\ UNCHANGED <<naming, curr>>
           \/ /\ fileStack # Nil /\ fileStack # <<>>
              /\ file' = fileStack[Len(fileStack)]
              /\ fileStack' = SubSeq(fileStack, 1, Len(fileStack) - 1)
              /\ curr' = Next_(curr) /\ UNCHANGED raised
    BY <1>12 DEF RenderEndBlock, Kinds, Closers
  <2>2. Next_(curr) \in Places(chain)
    BY <2>1, AtInChain
  <2>3. ControlTyped'
    BY <2>1, <2>2, TypedIs DEF ControlTyped
  <2>4. NamingTyped'
    <3>1. file \in Files /\ fileStack \in Seq(Files) \cup {Nil}
      BY TypedIs DEF NamingTyped
    <3>2. CASE UNCHANGED naming
      BY <3>1, <3>2 DEF NamingTyped, naming
    <3>3. CASE /\ fileStack # Nil /\ fileStack # <<>>
               /\ file' = fileStack[Len(fileStack)]
               /\ fileStack' = SubSeq(fileStack, 1, Len(fileStack) - 1)
      <4>1. fileStack \in Seq(Files) /\ Len(fileStack) > 0 /\ Len(fileStack) \in 1..Len(fileStack)
        BY <3>1, <3>3, EmptySeq
      <4>2. file' \in Files
        BY <3>3, <4>1, ElementOfSeq
      <4>3. fileStack' \in Seq(Files)
        BY <3>3, <4>1, FrontShrinks
      <4>. QED  BY <4>2, <4>3 DEF NamingTyped
    <3>. QED  BY <2>1, <3>2, <3>3
  <2>5. raised' \in {"no", "stray", "no file"}
    BY <2>1, TypedIs
  <2>. QED  BY <2>1, <2>3, <2>4, <2>5, TypesStay, TypedAfter
<1>13. CASE UNCHANGED vars
  <2>1. UNCHANGED scope /\ UNCHANGED naming /\ UNCHANGED raised /\ UNCHANGED <<chain, frames, curr>>
    BY <1>13 DEF vars, scope, naming
  <2>2. curr' \in Places(chain)
    BY <2>1, TypedParts
  <2>. QED  BY <2>1, <2>2, TypesStay, TypedAfter
<1>. QED  BY <1>1, <1>2, <1>3, <1>4, <1>5, <1>6, <1>7, <1>8, <1>9, <1>10, <1>11, <1>12, <1>13 DEF Next

-----------------------------------------------------------------------------
(* Where a command ends, from wherever one looks. *)

\* The end is reached once.
LEMMA EndUnique ==
  ASSUME NEW ch, NEW S, Bracketed(ch, S), NEW q \in 1..Len(ch), Len(S[q]) > 0,
         NEW e, Ended(ch, S, q, e), NEW f \in q..Len(ch), Len(S[f + 1]) < Len(S[q]),
         Holds(S, Len(S[q]), q, f)
  PROVE  e = f
<1>1. /\ Len(ch) \in Nat /\ e \in q..Len(ch) /\ Len(S[q]) \in Nat /\ f \in Nat /\ q \in Nat
      /\ Len(S[e + 1]) = Len(S[q]) - 1
  <2>1. Len(ch) \in Nat /\ Len(S[q]) \in Nat
    BY AtPlace
  <2>2. Len(S[e + 1]) = Len(S[q]) - 1 /\ e \in q..Len(ch)
    BY DEF Ended, Shrinks
  <2>. QED  BY <2>1, <2>2
<1>2. ~(e < f)
  <2>. SUFFICES ASSUME e < f  PROVE FALSE
    OBVIOUS
  <2>1. e + 1 \in q..f
    BY <1>1
  <2>2. Len(S[q]) <= Len(S[e + 1])
    BY <2>1 DEF Holds
  <2>. QED  BY <1>1, <2>2
<1>3. ~(f < e)
  <2>. SUFFICES ASSUME f < e  PROVE FALSE
    OBVIOUS
  <2>1. f + 1 \in q..e /\ f + 1 \in 1..(Len(ch) + 1)
    BY <1>1
  <2>2. Len(S[q]) <= Len(S[f + 1]) /\ Len(S[f + 1]) \in Nat
    BY <2>1, AtPlace DEF Ended
  <2>. QED  BY <1>1, <2>2
<1>. QED  BY <1>1, <1>2, <1>3

\* It is the same end from everywhere in the command's own text.
LEMMA SameEnd ==
  ASSUME NEW ch, NEW S, Bracketed(ch, S), NEW q \in 1..Len(ch), Len(S[q]) > 0,
         NEW e, Ended(ch, S, q, e), NEW x \in q..e, Len(S[x]) = Len(S[q])
  PROVE  /\ Ended(ch, S, x, e) /\ x \in 1..Len(ch)
         /\ \A j \in 1..Len(S[q]) : S[x][j] = S[q][j]
         /\ Innermost(S[x]) = Innermost(S[q])
<1>. DEFINE d == Len(S[q])
<1>1. /\ Len(ch) \in Nat /\ e \in q..Len(ch) /\ d \in Nat /\ d > 0 /\ q \in 1..(Len(ch) + 1)
      /\ x \in 1..Len(ch) /\ x \in q..(Len(ch) + 1) /\ e \in x..Len(ch)
  BY AtPlace DEF Ended
<1>2. Holds(S, d, q, x)
  <2>1. \A r \in q..x : r \in q..e
    BY <1>1
  <2>. QED  BY <2>1 DEF Holds, Ended
<1>3. \A j \in 1..d : S[x][j] = S[q][j]
  <2>. HIDE DEF d
  <2>. QED  BY <1>1, <1>2, Stays
<1>4. Innermost(S[x]) = Innermost(S[q])
  <2>1. d \in 1..d
    BY <1>1
  <2>. QED  BY <1>3, <2>1 DEF Innermost
<1>5. \A r \in x..e : Len(S[x]) <= Len(S[r])
  <2>1. \A r \in x..e : r \in q..e
    BY <1>1
  <2>. QED  BY <2>1 DEF Ended
<1>6. Len(S[e]) = Len(S[x]) /\ \A j \in 1..Len(S[x]) : S[e][j] = S[x][j]
  BY <1>3 DEF Ended
<1>7. Shrinks(S[e], S[e + 1]) /\ ch[e].kind = terminatorClass(ch[Innermost(S[x])].kind)
  BY <1>4 DEF Ended
<1>8. Ended(ch, S, x, e)
  BY <1>1, <1>5, <1>6, <1>7 DEF Ended
<1>. QED  BY <1>1, <1>3, <1>4, <1>8

\* The text of a command starts behind it: there it is innermost.
LEMMA BodyStarts ==
  ASSUME NEW ch, NEW S, Bracketed(ch, S), NEW c \in 1..Len(ch), ch[c].kind \in Openers
  PROVE  /\ c + 1 \in 1..Len(ch) /\ Len(S[c]) \in Nat
         /\ Len(S[c + 1]) = Len(S[c]) + 1 /\ Innermost(S[c + 1]) = c
         /\ \A j \in 1..Len(S[c]) : S[c + 1][j] = S[c][j]
<1>1. /\ Len(ch) \in Nat /\ Len(S[c]) \in Nat /\ StepAt(ch, S, c) /\ Len(S[Len(ch) + 1]) = 0
      /\ c \in 1..(Len(ch) + 1)
  BY AtPlace
<1>2. Grows(S[c], S[c + 1], c)
  BY <1>1 DEF StepAt
<1>3. Len(S[c + 1]) = Len(S[c]) + 1 /\ Innermost(S[c + 1]) = c
      /\ \A j \in 1..Len(S[c]) : S[c + 1][j] = S[c][j]
  BY <1>2 DEF Grows, Innermost
<1>4. c + 1 # Len(ch) + 1
  BY <1>1, <1>3
<1>. QED  BY <1>1, <1>3, <1>4

\* e is the end of the command c.
EndOfCmd(ch, c, e) == Ended(ch, Nesting(ch), c + 1, e)

\* Every command has an end, in front of which nothing of its text is lower than
\* the text itself.
LEMMA CmdEnds ==
  ASSUME NEW ch \in Seq(Nodes), Proper(ch), NEW c \in 1..Len(ch), ch[c].kind \in Openers
  PROVE  \E e : EndOfCmd(ch, c, e)
<1>1. Bracketed(ch, Nesting(ch))
  BY ProperBracketed
<1>2. c + 1 \in 1..Len(ch) /\ Len(Nesting(ch)[c + 1]) > 0
  BY <1>1, BodyStarts
<1>3. \E e : Ended(ch, Nesting(ch), c + 1, e)
  BY <1>1, <1>2, EndExists
<1>. QED  BY <1>3 DEF EndOfCmd

\* What there is to know of a command and its end.
LEMMA EndFacts ==
  ASSUME NEW ch, NEW S, Bracketed(ch, S), NEW c \in 1..Len(ch), ch[c].kind \in Openers,
         NEW e, Ended(ch, S, c + 1, e)
  PROVE  /\ e \in (c + 1)..Len(ch) /\ Len(S[c]) \in Nat
         /\ \A r \in (c + 1)..e : Len(S[c]) + 1 <= Len(S[r])
         /\ Len(S[e]) = Len(S[c]) + 1
         /\ Len(S[e + 1]) = Len(S[c]) /\ \A j \in 1..Len(S[c]) : S[e + 1][j] = S[c][j]
         /\ ch[e].kind = terminatorClass(ch[c].kind)
<1>1. /\ c + 1 \in 1..Len(ch) /\ Len(S[c]) \in Nat
      /\ Len(S[c + 1]) = Len(S[c]) + 1 /\ Innermost(S[c + 1]) = c
      /\ \A j \in 1..Len(S[c]) : S[c + 1][j] = S[c][j]
  BY BodyStarts
<1>2. /\ e \in (c + 1)..Len(ch)
      /\ \A r \in (c + 1)..e : Len(S[c + 1]) <= Len(S[r])
      /\ Len(S[e]) = Len(S[c + 1]) /\ \A j \in 1..Len(S[c + 1]) : S[e][j] = S[c + 1][j]
      /\ Shrinks(S[e], S[e + 1])
      /\ ch[e].kind = terminatorClass(ch[Innermost(S[c + 1])].kind)
  BY DEF Ended
<1>3. Len(S[e + 1]) = Len(S[c]) /\ \A j \in 1..Len(S[e + 1]) : S[e + 1][j] = S[e][j]
  BY <1>1, <1>2 DEF Shrinks
<1>4. \A j \in 1..Len(S[c]) : S[e + 1][j] = S[c][j]
  <2>. TAKE j \in 1..Len(S[c])
  <2>1. j \in 1..Len(S[c + 1]) /\ j \in 1..Len(S[e + 1])
    BY <1>1, <1>3
  <2>. QED  BY <1>1, <1>2, <1>3, <2>1
<1>. QED  BY <1>1, <1>2, <1>3, <1>4

\* Where the command is innermost is in front of its end.
LEMMA InnermostEnds ==
  ASSUME NEW ch, NEW S, Bracketed(ch, S), NEW a \in 1..Len(ch), Len(S[a]) > 0,
         NEW c, c = Innermost(S[a]), NEW e, Ended(ch, S, c + 1, e)
  PROVE  /\ c \in 1..Len(ch) /\ ch[c].kind \in Openers
         /\ a \in (c + 1)..e /\ Len(S[a]) = Len(S[c]) + 1
         /\ Ended(ch, S, a, e)
<1>1. /\ a \in 1..(Len(ch) + 1) /\ Len(ch) \in Nat
  BY AtPlace
<1>2. /\ c \in 1..Len(ch) /\ ch[c].kind \in Openers /\ Len(S[a]) \in Nat
      /\ IsOpen(ch, S, c, Len(S[a]), a)
  BY <1>1, InnermostOpen
<1>3. c \in 1..(a - 1) /\ Len(S[c]) = Len(S[a]) - 1 /\ \A r \in (c + 1)..a : Len(S[a]) <= Len(S[r])
  BY <1>2 DEF IsOpen
<1>4. e \in (c + 1)..Len(ch) /\ Len(S[e + 1]) = Len(S[c]) /\ Len(S[c]) \in Nat
  BY <1>2, EndFacts
<1>5. ~(e < a)
  <2>. SUFFICES ASSUME e < a  PROVE FALSE
    OBVIOUS
  <2>1. e + 1 \in (c + 1)..a
    BY <1>1, <1>2, <1>4
  <2>. QED  BY <1>2, <1>3, <1>4, <2>1
<1>6. a \in (c + 1)..e /\ Len(S[a]) = Len(S[c]) + 1
  BY <1>1, <1>2, <1>3, <1>4, <1>5
<1>7. c + 1 \in 1..Len(ch) /\ Len(S[c + 1]) = Len(S[c]) + 1 /\ Len(S[c + 1]) > 0
  BY <1>2, <1>4, BodyStarts, SMTT(40)
<1>8. Ended(ch, S, a, e)
  BY <1>6, <1>7, SameEnd
<1>. QED  BY <1>2, <1>6, <1>8

-----------------------------------------------------------------------------
(* The frames of the printer and the commands that are open where it is.   *)

\* The commands that are open at a place; none where there is nothing more.
Here(ch, at) == IF at = Nowhere THEN <<>> ELSE Nesting(ch)[at]

\* The else of a command.
OwnElse(ch, c) == {p \in DOMAIN ch : isElse(ch[p].kind) /\ Owns(Nesting(ch), c, p)}

\* A section suits a command, and the place is in it.
InSection(ch, at, c, section) ==
  /\ ch[c].kind = "if"    => section \in {"then", "else"}
  /\ ch[c].kind = "for"   => section \in {"body", "empty"}
  /\ ch[c].kind \in {"while", "block"} => section = "body"
  /\ section \in {"then", "body"}  => \A p \in OwnElse(ch, c) : at <= p
  /\ section \in {"else", "empty"} => \E p \in OwnElse(ch, c) : p < at

\* t templates are to return, and above them there is a frame for every command
\* that is open.
Framed(ch, at, fs, t) ==
  /\ t \in Nat /\ Len(fs) = t + Len(Here(ch, at))
  /\ at # Nowhere => t > 0
  /\ \A k \in 1..t : fs[k].section = "chain" /\ ch[fs[k].cmd].kind = "template"
  /\ \A k \in 1..Len(Here(ch, at)) :
       fs[t + k].cmd = Here(ch, at)[k] /\ InSection(ch, at, Here(ch, at)[k], fs[t + k].section)

FrameInv == \E t \in Nat : Framed(chain, curr, frames, t)

\* A properly nested chain.
ProperChain(ch) == ch \in Seq(Nodes) /\ Proper(ch)

\* What is open behind an object.
LEMMA HereNext ==
  ASSUME NEW ch, ProperChain(ch), NEW p \in 1..Len(ch)
  PROVE  /\ Here(ch, next_(ch, p)) = Nesting(ch)[p + 1]
         /\ next_(ch, p) # Nowhere => next_(ch, p) = p + 1 /\ p + 1 \in 1..Len(ch)
<1>1. Len(ch) \in Nat /\ Nesting(ch)[Len(ch) + 1] = <<>>
  BY DEF ProperChain, Proper, EndsMatch
<1>2. CASE p < Len(ch)
  <2>1. next_(ch, p) = p + 1 /\ p + 1 # Nowhere /\ p + 1 \in 1..Len(ch)
    BY <1>1, <1>2 DEF next_, Nowhere
  <2>. QED  BY <2>1 DEF Here
<1>3. CASE ~(p < Len(ch))
  <2>1. next_(ch, p) = Nowhere /\ p = Len(ch)
    BY <1>1, <1>3 DEF next_
  <2>. QED  BY <1>1, <2>1 DEF Here
<1>. QED  BY <1>2, <1>3

\* At a place of the chain.
LEMMA HereAt ==
  ASSUME NEW ch, ProperChain(ch), NEW a \in 1..Len(ch)
  PROVE  /\ Here(ch, a) = Nesting(ch)[a] /\ a # Nowhere /\ Bracketed(ch, Nesting(ch))
         /\ ch \in Seq(Nodes) /\ Len(ch) \in Nat /\ DOMAIN ch = 1..Len(ch) /\ a \in DOMAIN ch
         /\ Len(Nesting(ch)[a]) \in Nat
         /\ StepAt(ch, Nesting(ch), a) /\ ch[a] \in Nodes
         /\ a \in 1..(Len(ch) + 1)
<1>1. Bracketed(ch, Nesting(ch)) /\ ch \in Seq(Nodes)
  BY ProperBracketed DEF ProperChain
<1>2. a # Nowhere /\ a \in 1..(Len(ch) + 1)
  BY <1>1 DEF Nowhere
<1>. QED  BY <1>1, <1>2, AtPlace DEF Here

\* An else that a command owns is as high as its text.
LEMMA OwnElseHigh ==
  ASSUME NEW ch, ProperChain(ch), NEW c \in 1..Len(ch), NEW p \in OwnElse(ch, c)
  PROVE  /\ p \in 1..Len(ch) /\ isElse(ch[p].kind)
         /\ Len(Nesting(ch)[p]) > 0 /\ Innermost(Nesting(ch)[p]) = c
         /\ Len(Nesting(ch)[p]) = Len(Nesting(ch)[c]) + 1
         /\ c < p
<1>1. p \in 1..Len(ch) /\ isElse(ch[p].kind) /\ Innermost(Nesting(ch)[p]) = c
      /\ Bracketed(ch, Nesting(ch)) /\ p \in 1..(Len(ch) + 1)
  BY HereAt DEF OwnElse, Owns, ProperChain
<1>2. Len(Nesting(ch)[p]) > 0
  BY <1>1, AtPlace DEF StepAt
<1>3. IsOpen(ch, Nesting(ch), c, Len(Nesting(ch)[p]), p) /\ Len(Nesting(ch)[p]) \in Nat
  BY <1>1, <1>2, InnermostOpen
<1>4. c < p /\ Len(Nesting(ch)[c]) = Len(Nesting(ch)[p]) - 1
  BY <1>1, <1>3 DEF IsOpen
<1>. QED  BY <1>1, <1>2, <1>3, <1>4

\* And it is there that it is the command's.
LEMMA OwnElseIs ==
  ASSUME NEW ch, ProperChain(ch), NEW p \in 1..Len(ch), isElse(ch[p].kind),
         NEW c, c = Innermost(Nesting(ch)[p])
  PROVE  p \in OwnElse(ch, c) /\ \A q \in OwnElse(ch, c) : q = p
<1>1. /\ Bracketed(ch, Nesting(ch)) /\ p \in DOMAIN ch /\ StepAt(ch, Nesting(ch), p)
      /\ Len(Nesting(ch)[p]) \in Nat /\ Nesting(ch)[p] \in Seq(1..Len(ch))
  BY HereAt, NestingType DEF ProperChain
<1>2. Len(Nesting(ch)[p]) > 0
  BY <1>1 DEF StepAt
<1>3. Nesting(ch)[p] # <<>>
  BY <1>1, <1>2, EmptySeq
<1>4. p \in OwnElse(ch, c)
  BY <1>1, <1>3 DEF OwnElse, Owns
<1>5. PICK d \in DOMAIN ch :
        /\ Owns(Nesting(ch), d, p)
        /\ \A q \in DOMAIN ch : isElse(ch[q].kind) /\ Owns(Nesting(ch), d, q) => q = p
  BY <1>1 DEF ProperChain, Proper, ElsesMatch
<1>6. d = c
  BY <1>5 DEF Owns
<1>. QED  BY <1>4, <1>5, <1>6 DEF OwnElse

\* The places are on the same side of the else of c.
SameSide(ch, c, a, b) == \A p \in OwnElse(ch, c) : a <= p <=> b <= p

\* Between the places there is no else of that height.
NoElse(ch, h, lo, hi) ==
  \A r \in lo..(hi - 1) : isElse(ch[r].kind) => Len(Nesting(ch)[r]) # h

\* Then they are on the same side of the else of a command of that height.
LEMMA NoElseBetween ==
  ASSUME NEW ch, ProperChain(ch), NEW c \in 1..Len(ch), NEW a \in Nat, NEW b \in Nat, a <= b,
         NoElse(ch, Len(Nesting(ch)[c]) + 1, a, b)
  PROVE  SameSide(ch, c, a, b) /\ SameSide(ch, c, b, a)
<1>1. ASSUME NEW p \in OwnElse(ch, c)  PROVE a <= p <=> b <= p
  <2>1. p \in 1..Len(ch) /\ isElse(ch[p].kind) /\ Len(Nesting(ch)[p]) = Len(Nesting(ch)[c]) + 1
    BY OwnElseHigh
  <2>2. p \notin a..(b - 1)
    BY <2>1 DEF NoElse
  <2>. QED  BY <2>1, <2>2
<1>. QED  BY <1>1 DEF SameSide

\* The section stays.
LEMMA SectionStays ==
  ASSUME NEW ch, ProperChain(ch), NEW c \in 1..Len(ch), NEW a \in Nat, NEW b \in Nat, NEW section,
         InSection(ch, a, c, section), SameSide(ch, c, a, b)
  PROVE  InSection(ch, b, c, section)
<1>1. \A p \in OwnElse(ch, c) : p \in Nat /\ (a <= p <=> b <= p)
  BY OwnElseHigh DEF SameSide
<1>2. \A p \in OwnElse(ch, c) : p < a <=> p < b
  BY <1>1
<1>. QED  BY <1>1, <1>2 DEF InSection

\* fs and gs are alike up to m.
Alike(fs, gs, m) == \A k \in 1..m : gs[k].cmd = fs[k].cmd /\ gs[k].section = fs[k].section

\* The commands that are open at both places, up to m, have their sections still.
LEMMA Carried ==
  ASSUME NEW ch, ProperChain(ch), NEW a \in 1..Len(ch), NEW b \in Places(ch),
         NEW fs, NEW gs, NEW t, Framed(ch, a, fs, t),
         NEW m \in Nat, m <= Len(Here(ch, a)), m <= Len(Here(ch, b)),
         \A j \in 1..m : Here(ch, b)[j] = Here(ch, a)[j],
         \A j \in 1..m : SameSide(ch, Here(ch, a)[j], a, b),
         Alike(fs, gs, t + m)
  PROVE  /\ \A k \in 1..t : gs[k].section = "chain" /\ ch[gs[k].cmd].kind = "template"
         /\ \A k \in 1..m :
              /\ gs[t + k].cmd = Here(ch, b)[k]
              /\ InSection(ch, b, Here(ch, b)[k], gs[t + k].section)
<1>1. t \in Nat /\ \A k \in 1..t : fs[k].section = "chain" /\ ch[fs[k].cmd].kind = "template"
  BY DEF Framed
<1>2. \A k \in 1..t : k \in 1..(t + m)
  BY <1>1
<1>3. \A k \in 1..t : gs[k].section = "chain" /\ ch[gs[k].cmd].kind = "template"
  BY <1>1, <1>2 DEF Alike
<1>4. ASSUME NEW k \in 1..m
      PROVE  /\ gs[t + k].cmd = Here(ch, b)[k]
             /\ InSection(ch, b, Here(ch, b)[k], gs[t + k].section)
  <2>1. t + k \in 1..(t + m) /\ k \in 1..Len(Here(ch, a)) /\ Len(Here(ch, a)) \in Nat
    BY <1>1, HereAt
  <2>2. fs[t + k].cmd = Here(ch, a)[k] /\ InSection(ch, a, Here(ch, a)[k], fs[t + k].section)
    BY <2>1 DEF Framed
  <2>3. gs[t + k].cmd = fs[t + k].cmd /\ gs[t + k].section = fs[t + k].section
    BY <2>1 DEF Alike
  <2>4. Here(ch, b)[k] = Here(ch, a)[k] /\ SameSide(ch, Here(ch, a)[k], a, b)
    OBVIOUS
  <2>5. Here(ch, a)[k] \in 1..Len(ch)
    BY <2>1, HereAt, AtPlace
  <2>6. a \in Nat /\ b \in Nat
    BY HereAt DEF Places, Nowhere
  <2>7. InSection(ch, b, Here(ch, a)[k], fs[t + k].section)
    BY <2>2, <2>4, <2>5, <2>6, SectionStays
  <2>. QED  BY <2>2, <2>3, <2>4, <2>7
<1>. QED  BY <1>3, <1>4

\* Between the places an else is above m only.
HighElses(ch, m, lo, hi) ==
  \A r \in lo..(hi - 1) : isElse(ch[r].kind) => m < Len(Nesting(ch)[r])

\* Then they are on the same side of the else of every command up to m.
LEMMA Sides ==
  ASSUME NEW ch, ProperChain(ch), NEW a \in 1..Len(ch), NEW b \in Nat,
         NEW m \in Nat, m <= Len(Nesting(ch)[a]),
         (a <= b /\ HighElses(ch, m, a, b)) \/ (b <= a /\ HighElses(ch, m, b, a))
  PROVE  \A j \in 1..m : SameSide(ch, Here(ch, a)[j], a, b)
<1>. DEFINE S == Nesting(ch)
<1>. TAKE j \in 1..m
<1>. DEFINE c == S[a][j]
<1>1. /\ Here(ch, a) = S[a] /\ Bracketed(ch, S) /\ Len(S[a]) \in Nat /\ a \in 1..(Len(ch) + 1)
      /\ a \in Nat
  BY HereAt
<1>2. j \in 1..Len(S[a])
  BY <1>1
<1>3. IsOpen(ch, S, c, j, a)
  BY <1>1, <1>2, Opened
<1>4. c \in 1..Len(ch) /\ Len(S[c]) = j - 1
  BY <1>3 DEF IsOpen
<1>5. Len(S[c]) + 1 = j
  BY <1>4
<1>. HIDE DEF S, c
<1>6. CASE a <= b /\ HighElses(ch, m, a, b)
  <2>1. NoElse(ch, Len(S[c]) + 1, a, b)
    <3>1. \A r \in a..(b - 1) : isElse(ch[r].kind) => m < Len(S[r])
      BY <1>6 DEF HighElses, S
    <3>2. \A r \in a..(b - 1) : isElse(ch[r].kind) => Len(S[r]) # j
      BY <3>1
    <3>. QED  BY <1>5, <3>2 DEF NoElse, S
  <2>2. SameSide(ch, c, a, b)
    BY <1>1, <1>4, <1>6, <2>1, NoElseBetween DEF S
  <2>. QED  BY <1>1, <2>2 DEF c
<1>7. CASE b <= a /\ HighElses(ch, m, b, a)
  <2>1. NoElse(ch, Len(S[c]) + 1, b, a)
    <3>1. \A r \in b..(a - 1) : isElse(ch[r].kind) => m < Len(S[r])
      BY <1>7 DEF HighElses, S
    <3>2. \A r \in b..(a - 1) : isElse(ch[r].kind) => Len(S[r]) # j
      BY <3>1
    <3>. QED  BY <1>5, <3>2 DEF NoElse, S
  <2>2. SameSide(ch, c, a, b)
    BY <1>1, <1>4, <1>7, <2>1, NoElseBetween DEF S
  <2>. QED  BY <1>1, <2>2 DEF c
<1>. QED  BY <1>6, <1>7

\* What two stacks have in common.
Common(s, u, m) == m \in Nat /\ m <= Len(s) /\ m <= Len(u) /\ \A j \in 1..m : u[j] = s[j]

\* The frames up to m come with the printer, and the ones above suit the place.
LEMMA Moved ==
  ASSUME NEW ch, ProperChain(ch), NEW a \in 1..Len(ch), NEW b \in Places(ch),
         NEW fs, NEW gs, NEW t, Framed(ch, a, fs, t), NEW m,
         Common(Here(ch, a), Here(ch, b), m),
         \A j \in 1..m : SameSide(ch, Here(ch, a)[j], a, b),
         Alike(fs, gs, t + m), Len(gs) = t + Len(Here(ch, b)),
         \A k \in (m + 1)..Len(Here(ch, b)) :
           gs[t + k].cmd = Here(ch, b)[k] /\ InSection(ch, b, Here(ch, b)[k], gs[t + k].section)
  PROVE  Framed(ch, b, gs, t)
<1>1. /\ m \in Nat /\ m <= Len(Here(ch, a)) /\ m <= Len(Here(ch, b))
      /\ \A j \in 1..m : Here(ch, b)[j] = Here(ch, a)[j]
  BY DEF Common
<1>2. /\ \A k \in 1..t : gs[k].section = "chain" /\ ch[gs[k].cmd].kind = "template"
      /\ \A k \in 1..m :
           /\ gs[t + k].cmd = Here(ch, b)[k]
           /\ InSection(ch, b, Here(ch, b)[k], gs[t + k].section)
  BY <1>1, Carried, ZenonT(60)
<1>3. t \in Nat /\ t > 0
  BY HereAt DEF Framed
<1>4. \A k \in 1..Len(Here(ch, b)) : k \in 1..m \/ k \in (m + 1)..Len(Here(ch, b))
  BY <1>1
<1>5. \A k \in 1..Len(Here(ch, b)) :
        gs[t + k].cmd = Here(ch, b)[k] /\ InSection(ch, b, Here(ch, b)[k], gs[t + k].section)
  BY <1>2, <1>4
<1>. QED  BY <1>2, <1>3, <1>5 DEF Framed

\* Past an object that is no command.
LEMMA FramedOver ==
  ASSUME NEW ch, ProperChain(ch), NEW a \in 1..Len(ch), ch[a].kind = "text",
         NEW fs, NEW t, Framed(ch, a, fs, t)
  PROVE  Framed(ch, next_(ch, a), fs, t)
<1>. DEFINE S == Nesting(ch)
            b == next_(ch, a)
            m == Len(S[a])
<1>1. /\ Here(ch, a) = S[a] /\ m \in Nat /\ StepAt(ch, S, a) /\ Here(ch, b) = S[a + 1]
      /\ a \in Nat /\ b \in Places(ch) /\ (b # Nowhere => b = a + 1)
  BY HereAt, HereNext, NextPlaced DEF Places
<1>2. Here(ch, b) = S[a]
  BY <1>1 DEF StepAt
<1>3. \A j \in 1..m : SameSide(ch, Here(ch, a)[j], a, b)
  <2>1. CASE b = Nowhere
    <3>1. m = 0
      BY <1>2, <2>1 DEF Here
    <3>. QED  BY <3>1
  <2>2. CASE b = a + 1
    <3>1. HighElses(ch, m, a, a + 1)
      <4>1. \A r \in a..((a + 1) - 1) : r = a
        BY <1>1
      <4>2. ~isElse(ch[a].kind)
        BY DEF isElse, Elses
      <4>. QED  BY <4>1, <4>2 DEF HighElses
    <3>2. a + 1 \in Nat /\ a <= a + 1 /\ m <= Len(Nesting(ch)[a])
      BY <1>1
    <3>3. \A j \in 1..m : SameSide(ch, Here(ch, a)[j], a, a + 1)
      <4>. HIDE DEF m
      <4>. QED  BY <1>1, <3>1, <3>2, Sides
    <3>. QED  BY <2>2, <3>3
  <2>. QED  BY <1>1, <2>1, <2>2
<1>4. Common(Here(ch, a), Here(ch, b), m) /\ Alike(fs, fs, t + m) /\ Len(fs) = t + Len(Here(ch, b))
  BY <1>1, <1>2 DEF Common, Alike, Framed
<1>5. \A k \in (m + 1)..Len(Here(ch, b)) : FALSE
  BY <1>1, <1>2
<1>. HIDE DEF m, b
<1>6. Framed(ch, b, fs, t)
  BY <1>1, <1>3, <1>4, <1>5, Moved
<1>. QED  BY <1>6 DEF b

\* Past a whole command.
LEMMA FramedPass ==
  ASSUME NEW ch, ProperChain(ch), NEW a \in 1..Len(ch), ch[a].kind \in Openers,
         NEW e, EndOfCmd(ch, a, e), NEW fs, NEW t, Framed(ch, a, fs, t)
  PROVE  Framed(ch, next_(ch, e), fs, t)
<1>. DEFINE S == Nesting(ch)
            b == next_(ch, e)
            m == Len(S[a])
<1>1. /\ Here(ch, a) = S[a] /\ m \in Nat /\ Bracketed(ch, S) /\ a \in Nat /\ Len(ch) \in Nat
      /\ DOMAIN ch = 1..Len(ch) /\ ch \in Seq(Nodes)
  BY HereAt
<1>2. /\ e \in (a + 1)..Len(ch)
      /\ \A r \in (a + 1)..e : m + 1 <= Len(S[r])
      /\ Len(S[e + 1]) = m /\ \A j \in 1..m : S[e + 1][j] = S[a][j]
  BY <1>1, EndFacts DEF EndOfCmd
<1>3. e \in 1..Len(ch) /\ e \in Nat /\ a <= e + 1
  BY <1>1, <1>2
<1>4. Here(ch, b) = S[e + 1] /\ (b # Nowhere => b = e + 1) /\ b \in Places(ch)
  BY <1>1, <1>3, HereNext, NextPlaced DEF Places
<1>5. \A j \in 1..m : SameSide(ch, Here(ch, a)[j], a, b)
  <2>1. CASE b = Nowhere
    <3>1. m = 0
      BY <1>2, <1>4, <2>1 DEF Here
    <3>. QED  BY <3>1
  <2>2. CASE b = e + 1
    <3>1. HighElses(ch, m, a, e + 1)
      <4>1. \A r \in a..((e + 1) - 1) : r = a \/ r \in (a + 1)..e
        BY <1>1, <1>3
      <4>2. ~isElse(ch[a].kind)
        BY DEF isElse, Elses, Openers
      <4>3. \A r \in (a + 1)..e : m < Len(S[r])
        <5>1. \A r \in (a + 1)..e : r \in 1..(Len(ch) + 1)
          BY <1>1, <1>3
        <5>2. \A r \in (a + 1)..e : Len(S[r]) \in Nat
          BY <1>1, <5>1, AtPlace
        <5>. QED  BY <1>1, <1>2, <5>2, SMTT(40)
      <4>. QED  BY <4>1, <4>2, <4>3 DEF HighElses
    <3>2. e + 1 \in Nat /\ m <= Len(Nesting(ch)[a])
      BY <1>1, <1>3
    <3>3. \A j \in 1..m : SameSide(ch, Here(ch, a)[j], a, e + 1)
      <4>. HIDE DEF m
      <4>. QED  BY <1>1, <1>3, <3>1, <3>2, Sides
    <3>. QED  BY <2>2, <3>3
  <2>. QED  BY <1>4, <2>1, <2>2
<1>6. Common(Here(ch, a), Here(ch, b), m) /\ Alike(fs, fs, t + m) /\ Len(fs) = t + Len(Here(ch, b))
  <2>1. Common(Here(ch, a), Here(ch, b), m)
    BY <1>1, <1>2, <1>4 DEF Common
  <2>2. Len(fs) = t + Len(Here(ch, a))
    BY DEF Framed
  <2>3. Len(Here(ch, b)) = Len(Here(ch, a))
    BY <1>1, <1>2, <1>4
  <2>. QED  BY <2>1, <2>2, <2>3 DEF Alike
<1>7. \A k \in (m + 1)..Len(Here(ch, b)) : FALSE
  BY <1>1, <1>2, <1>4
<1>. HIDE DEF m, b
<1>8. Framed(ch, b, fs, t)
  BY <1>1, <1>4, <1>5, <1>6, <1>7, Moved
<1>. QED  BY <1>8 DEF b

\* How frames are alike after a call, a turn and a return.
LEMMA AppendAlike ==
  ASSUME NEW T, NEW fs \in Seq(T), NEW fr \in T
  PROVE  /\ Len(Append(fs, fr)) = Len(fs) + 1 /\ Append(fs, fr)[Len(fs) + 1] = fr
         /\ Alike(fs, Append(fs, fr), Len(fs))
         /\ \A k \in 1..Len(fs) : Append(fs, fr)[k] = fs[k]
BY AppendProperties DEF Alike

\* The same for a return.
LEMMA FrontAlike ==
  ASSUME NEW T, NEW fs \in Seq(T), Len(fs) > 0
  PROVE  /\ Len(SubSeq(fs, 1, Len(fs) - 1)) = Len(fs) - 1
         /\ Alike(fs, SubSeq(fs, 1, Len(fs) - 1), Len(fs) - 1)
         /\ \A k \in 1..(Len(fs) - 1) : SubSeq(fs, 1, Len(fs) - 1)[k] = fs[k]
BY FrontShrinks DEF Shrinks, Alike

\* Where the section of a command starts.
Starts(ch, c, section, start) ==
  /\ ch[c].kind = "if"    => section \in {"then", "else"}
  /\ ch[c].kind = "for"   => section \in {"body", "empty"}
  /\ ch[c].kind \in {"while", "block"} => section = "body"
  /\ section \in {"then", "body"}  => start = c + 1
  /\ section \in {"else", "empty"} => \E p \in OwnElse(ch, c) : start = p + 1

\* What is open where a section starts, and that it is in the command.
LEMMA StartFacts ==
  ASSUME NEW ch, ProperChain(ch), NEW c \in 1..Len(ch), ch[c].kind \in Openers,
         NEW section, NEW start, Starts(ch, c, section, start)
  PROVE  /\ start \in (c + 1)..Len(ch)
         /\ Len(Nesting(ch)[start]) = Len(Nesting(ch)[c]) + 1
         /\ Innermost(Nesting(ch)[start]) = c
         /\ \A j \in 1..Len(Nesting(ch)[c]) : Nesting(ch)[start][j] = Nesting(ch)[c][j]
         /\ \A r \in (c + 1)..start : Len(Nesting(ch)[c]) + 1 <= Len(Nesting(ch)[r])
         /\ InSection(ch, start, c, section)
<1>. DEFINE S == Nesting(ch)
            m == Len(S[c])
<1>1. /\ Bracketed(ch, S) /\ Len(ch) \in Nat /\ c \in Nat /\ m \in Nat
      /\ c + 1 \in 1..Len(ch) /\ Len(S[c + 1]) = m + 1 /\ Innermost(S[c + 1]) = c
      /\ \A j \in 1..m : S[c + 1][j] = S[c][j]
  BY HereAt, BodyStarts, SMTT(40)
<1>2. section \in {"then", "body"} \/ section \in {"else", "empty"}
  BY DEF Starts, Openers
<1>3. \A p \in OwnElse(ch, c) : p \in 1..Len(ch) /\ c < p
  BY OwnElseHigh
<1>4. CASE section \in {"then", "body"}
  <2>1. start = c + 1
    BY <1>4 DEF Starts
  <2>2. \A r \in (c + 1)..start : m + 1 <= Len(S[r])
    <3>1. \A r \in (c + 1)..start : r = c + 1
      BY <1>1, <2>1
    <3>. QED  BY <1>1, <3>1
  <2>3. \A p \in OwnElse(ch, c) : start <= p
    BY <1>1, <1>3, <2>1
  <2>4. InSection(ch, start, c, section)
    BY <1>4, <2>3 DEF InSection, Starts
  <2>5. start \in (c + 1)..Len(ch)
    BY <1>1, <2>1
  <2>. QED  BY <1>1, <2>1, <2>2, <2>4, <2>5
<1>5. CASE section \in {"else", "empty"}
  <2>1. PICK p \in OwnElse(ch, c) : start = p + 1
    BY <1>5 DEF Starts
  <2>2. /\ p \in 1..Len(ch) /\ isElse(ch[p].kind) /\ Len(S[p]) > 0 /\ Innermost(S[p]) = c
        /\ Len(S[p]) = m + 1 /\ c < p
    BY OwnElseHigh
  <2>3. S[p + 1] = S[p] /\ p \in 1..(Len(ch) + 1) /\ Len(S[Len(ch) + 1]) = 0
    BY <1>1, <2>2, AtPlace DEF StepAt
  <2>4. p + 1 \in 1..Len(ch)
    BY <1>1, <2>2, <2>3, SMTT(40)
  <2>5. PICK e : Ended(ch, S, c + 1, e)
    BY <1>1, EndExists
  <2>6. p \in (c + 1)..e
    BY <1>1, <2>2, <2>5, InnermostEnds
  <2>7. /\ \A j \in 1..Len(S[c + 1]) : S[p][j] = S[c + 1][j]
    BY <1>1, <2>2, <2>5, <2>6, SameEnd, SMTT(40)
  <2>8. \A j \in 1..m : S[start][j] = S[c][j]
    BY <1>1, <2>1, <2>3, <2>7
  <2>9. \A r \in (c + 1)..start : m + 1 <= Len(S[r])
    <3>1. \A r \in (c + 1)..e : m + 1 <= Len(S[r])
      BY <1>1, <2>5, EndFacts
    <3>2. \A r \in (c + 1)..start : r \in (c + 1)..e \/ r = p + 1
      <4>1. e \in (c + 1)..Len(ch)
        BY <1>1, <2>5, EndFacts
      <4>2. e \in Nat /\ p \in Nat /\ p <= e
        BY <1>1, <2>2, <2>6, <4>1
      <4>. QED  BY <1>1, <2>1, <4>2
    <3>3. m + 1 <= Len(S[p + 1])
      BY <1>1, <2>2, <2>3
    <3>. QED  BY <3>1, <3>2, <3>3
  <2>10. InSection(ch, start, c, section)
    <3>1. p < start
      BY <2>1, <2>2
    <3>2. section \notin {"then", "body"}
      BY <1>5
    <3>. QED  BY <3>1, <3>2 DEF InSection, Starts
  <2>11. start \in (c + 1)..Len(ch)
    BY <1>1, <2>1, <2>2, <2>4
  <2>. QED  BY <2>1, <2>2, <2>3, <2>8, <2>9, <2>10, <2>11
<1>. QED  BY <1>2, <1>4, <1>5

\* Into a section.
LEMMA FramedEnter ==
  ASSUME NEW ch, ProperChain(ch), NEW a \in 1..Len(ch), ch[a].kind \in Openers,
         NEW section, NEW b, Starts(ch, a, section, b),
         NEW fs \in Seq(Frames), NEW t, Framed(ch, a, fs, t),
         NEW fr \in Frames, fr.cmd = a, fr.section = section
  PROVE  Framed(ch, b, Append(fs, fr), t)
<1>. DEFINE S == Nesting(ch)
            m == Len(S[a])
            gs == Append(fs, fr)
<1>1. /\ Here(ch, a) = S[a] /\ m \in Nat /\ a \in Nat /\ Len(ch) \in Nat
      /\ DOMAIN ch = 1..Len(ch)
  BY HereAt
<1>2. /\ b \in (a + 1)..Len(ch) /\ Len(S[b]) = m + 1 /\ Innermost(S[b]) = a
      /\ \A j \in 1..m : S[b][j] = S[a][j]
      /\ \A r \in (a + 1)..b : m + 1 <= Len(S[r])
      /\ InSection(ch, b, a, section)
  BY StartFacts
<1>3. b \in 1..Len(ch) /\ b \in Nat /\ b \in Places(ch) /\ a <= b
  BY <1>1, <1>2 DEF Places
<1>4. Here(ch, b) = S[b]
  BY <1>3, HereAt
<1>5. \A j \in 1..m : SameSide(ch, Here(ch, a)[j], a, b)
  <2>1. HighElses(ch, m, a, b)
    <3>1. \A r \in a..(b - 1) : r = a \/ r \in (a + 1)..b
      BY <1>1, <1>3
    <3>2. ~isElse(ch[a].kind)
      BY DEF isElse, Elses, Openers
    <3>3. \A r \in (a + 1)..b : m < Len(S[r])
      <4>1. \A r \in (a + 1)..b : r \in 1..Len(ch)
        BY <1>1, <1>2
      <4>2. \A r \in (a + 1)..b : Len(S[r]) \in Nat
        BY <4>1, HereAt
      <4>. QED  BY <1>1, <1>2, <4>2, SMTT(40)
    <3>. QED  BY <3>1, <3>2, <3>3 DEF HighElses
  <2>2. m <= Len(Nesting(ch)[a])
    BY <1>1
  <2>. HIDE DEF m
  <2>. QED  BY <1>1, <1>3, <2>1, <2>2, Sides
<1>6. /\ Len(gs) = Len(fs) + 1 /\ gs[Len(fs) + 1] = fr /\ Alike(fs, gs, Len(fs))
  BY AppendAlike
<1>7. Len(fs) = t + m /\ t \in Nat
  BY <1>1 DEF Framed
<1>8. Common(Here(ch, a), Here(ch, b), m) /\ Alike(fs, gs, t + m) /\ Len(gs) = t + Len(Here(ch, b))
  <2>1. Common(Here(ch, a), Here(ch, b), m)
    BY <1>1, <1>2, <1>4 DEF Common
  <2>2. Len(gs) = t + Len(Here(ch, b))
    BY <1>1, <1>2, <1>4, <1>6, <1>7, SMTT(40)
  <2>. QED  BY <1>6, <1>7, <2>1, <2>2
<1>9. \A k \in (m + 1)..Len(Here(ch, b)) :
        gs[t + k].cmd = Here(ch, b)[k] /\ InSection(ch, b, Here(ch, b)[k], gs[t + k].section)
  <2>. TAKE k \in (m + 1)..Len(Here(ch, b))
  <2>1. k = m + 1 /\ t + k = Len(fs) + 1
    <3>1. Len(Here(ch, b)) = m + 1
      BY <1>2, <1>4
    <3>. HIDE DEF m
    <3>2. k = m + 1
      BY <1>1, <3>1
    <3>. QED  BY <1>1, <1>7, <3>2
  <2>2. gs[t + k] = fr /\ Here(ch, b)[k] = a
    BY <1>2, <1>4, <1>6, <2>1 DEF Innermost
  <2>. QED  BY <1>2, <2>2
<1>. HIDE DEF m, gs
<1>10. Framed(ch, b, gs, t)
  BY <1>3, <1>5, <1>8, <1>9, Moved
<1>. QED  BY <1>10 DEF gs

\* Back to the start of the body that ends here.
LEMMA FramedTurn ==
  ASSUME NEW ch, ProperChain(ch), NEW a \in 1..Len(ch), Len(Nesting(ch)[a]) > 0,
         NEW c, c = Innermost(Nesting(ch)[a]), NEW section, Starts(ch, c, section, c + 1),
         NEW fs, NEW gs, NEW t, Framed(ch, a, fs, t), Len(gs) = Len(fs), Alike(fs, gs, Len(fs)),
         fs[Len(fs)].section = section, section \in {"then", "body"}
  PROVE  Framed(ch, c + 1, gs, t)
<1>. DEFINE S == Nesting(ch)
            d == Len(S[a])
            m == Len(S[c])
            b == c + 1
<1>1. /\ Here(ch, a) = S[a] /\ d \in Nat /\ a \in Nat /\ Len(ch) \in Nat /\ Bracketed(ch, S)
      /\ DOMAIN ch = 1..Len(ch) /\ a \in 1..(Len(ch) + 1)
  BY HereAt
<1>2. c \in 1..Len(ch) /\ ch[c].kind \in Openers /\ IsOpen(ch, S, c, d, a)
  BY <1>1, InnermostOpen
<1>3. /\ c \in 1..(a - 1) /\ m = d - 1 /\ \A j \in 1..m : S[c][j] = S[a][j]
      /\ \A r \in (c + 1)..a : d <= Len(S[r])
  BY <1>2 DEF IsOpen
<1>4. /\ b \in 1..Len(ch) /\ Len(S[b]) = m + 1 /\ Innermost(S[b]) = c
      /\ \A j \in 1..m : S[b][j] = S[c][j]
      /\ InSection(ch, b, c, section)
  <2>1. /\ c + 1 \in 1..Len(ch) /\ Len(S[c]) \in Nat
        /\ Len(S[c + 1]) = Len(S[c]) + 1 /\ Innermost(S[c + 1]) = c
        /\ \A j \in 1..Len(S[c]) : S[c + 1][j] = S[c][j]
    <3>1. Bracketed(ch, S) /\ c \in 1..Len(ch) /\ ch[c].kind \in Openers
      BY <1>1, <1>2
    <3>. HIDE DEF S
    <3>. QED  BY <3>1, BodyStarts, SMTT(40)
  <2>2. InSection(ch, b, c, section)
    BY <1>2, StartFacts
  <2>. QED  BY <2>1, <2>2
<1>5. Here(ch, b) = S[b] /\ b \in Places(ch) /\ b \in Nat /\ b <= a /\ m \in Nat /\ m + 1 = d
  <2>1. Here(ch, b) = S[b] /\ b \in Places(ch)
    BY <1>1, <1>4, HereAt DEF Places
  <2>2. b \in Nat /\ b <= a
    BY <1>1, <1>3, <1>4
  <2>3. m \in Nat /\ m + 1 = d
    BY <1>1, <1>2, HereAt, <1>3
  <2>. QED  BY <2>1, <2>2, <2>3
<1>6. \A j \in 1..m : SameSide(ch, Here(ch, a)[j], a, b)
  <2>1. HighElses(ch, m, b, a)
    <3>1. \A r \in b..(a - 1) : r \in (c + 1)..a /\ r \in 1..Len(ch)
      BY <1>1, <1>2, <1>3
    <3>2. \A r \in b..(a - 1) : Len(S[r]) \in Nat /\ d <= Len(S[r])
      BY <1>3, <3>1, HereAt
    <3>3. \A r \in b..(a - 1) : m < Len(S[r])
      BY <1>1, <1>5, <3>2, SMTT(40)
    <3>. QED  BY <3>3 DEF HighElses
  <2>2. m <= Len(Nesting(ch)[a])
    BY <1>1, <1>5
  <2>. HIDE DEF m, b
  <2>. QED  BY <1>1, <1>5, <2>1, <2>2, Sides
<1>7. Len(fs) = t + d /\ t \in Nat
  BY <1>1 DEF Framed
<1>8. Common(Here(ch, a), Here(ch, b), m) /\ Alike(fs, gs, t + m) /\ Len(gs) = t + Len(Here(ch, b))
  <2>1. Common(Here(ch, a), Here(ch, b), m)
    BY <1>1, <1>3, <1>4, <1>5, SMTT(40) DEF Common
  <2>2. Len(gs) = t + Len(Here(ch, b))
    BY <1>4, <1>5, <1>7
  <2>3. \A k \in 1..(t + m) : k \in 1..Len(fs)
    BY <1>5, <1>7
  <2>4. Alike(fs, gs, t + m)
    BY <2>3 DEF Alike
  <2>. QED  BY <2>1, <2>2, <2>4
<1>9. \A k \in (m + 1)..Len(Here(ch, b)) :
        gs[t + k].cmd = Here(ch, b)[k] /\ InSection(ch, b, Here(ch, b)[k], gs[t + k].section)
  <2>. TAKE k \in (m + 1)..Len(Here(ch, b))
  <2>1. k = d /\ t + k = Len(fs) /\ Len(fs) \in 1..Len(fs)
    <3>1. Len(Here(ch, b)) = d
      BY <1>4, <1>5
    <3>. HIDE DEF m, d
    <3>2. k = d
      BY <1>1, <1>5, <3>1
    <3>3. d > 0
      BY DEF d
    <3>. QED  BY <1>1, <1>7, <3>2, <3>3
  <2>2. Here(ch, b)[k] = c
    BY <1>4, <1>5, <2>1 DEF Innermost
  <2>3. d \in 1..d /\ fs[t + d].cmd = S[a][d]
    <3>1. d \in 1..d
      BY <1>1
    <3>. QED  BY <1>1, <3>1 DEF Framed
  <2>4. fs[Len(fs)].cmd = c
    BY <1>7, <2>3 DEF Innermost
  <2>5. gs[t + k].cmd = c /\ gs[t + k].section = section
    BY <2>1, <2>4 DEF Alike
  <2>. QED  BY <1>4, <2>2, <2>5
<1>. HIDE DEF m, b
<1>10. Framed(ch, b, gs, t)
  BY <1>5, <1>6, <1>8, <1>9, Moved
<1>. QED  BY <1>10 DEF b

\* Out of a command, behind its end.
LEMMA FramedLeave ==
  ASSUME NEW ch, ProperChain(ch), NEW a \in 1..Len(ch), Len(Nesting(ch)[a]) > 0,
         NEW c, c = Innermost(Nesting(ch)[a]), NEW e, EndOfCmd(ch, c, e),
         NEW fs \in Seq(Frames), NEW t, Framed(ch, a, fs, t)
  PROVE  Framed(ch, next_(ch, e), SubSeq(fs, 1, Len(fs) - 1), t)
<1>. DEFINE S == Nesting(ch)
            d == Len(S[a])
            m == Len(S[c])
            b == next_(ch, e)
            gs == SubSeq(fs, 1, Len(fs) - 1)
<1>1. /\ Here(ch, a) = S[a] /\ d \in Nat /\ a \in Nat /\ Len(ch) \in Nat /\ Bracketed(ch, S)
      /\ DOMAIN ch = 1..Len(ch) /\ a \in 1..(Len(ch) + 1) /\ ch \in Seq(Nodes)
  BY HereAt
<1>2. c \in 1..Len(ch) /\ ch[c].kind \in Openers /\ IsOpen(ch, S, c, d, a)
  BY <1>1, InnermostOpen
<1>3. m = d - 1 /\ \A j \in 1..m : S[c][j] = S[a][j]
  BY <1>2 DEF IsOpen
<1>4. Ended(ch, S, c + 1, e)
  BY DEF EndOfCmd
<1>5. /\ e \in (c + 1)..Len(ch)
      /\ \A r \in (c + 1)..e : m + 1 <= Len(S[r])
      /\ Len(S[e + 1]) = m /\ \A j \in 1..m : S[e + 1][j] = S[c][j]
  <2>1. c \in 1..Len(ch) /\ ch[c].kind \in Openers /\ Bracketed(ch, S) /\ Ended(ch, S, c + 1, e)
    BY <1>1, <1>2, <1>4
  <2>. HIDE DEF S
  <2>. QED  BY <2>1, EndFacts
<1>6. a \in (c + 1)..e
  BY <1>1, <1>4, InnermostEnds
<1>7. /\ e \in 1..Len(ch) /\ e \in Nat /\ a <= e + 1 /\ m \in Nat /\ m + 1 = d
  BY <1>1, <1>2, <1>3, <1>5, <1>6
<1>8. Here(ch, b) = S[e + 1] /\ (b # Nowhere => b = e + 1) /\ b \in Places(ch)
  BY <1>1, <1>7, HereNext, NextPlaced DEF Places
<1>9. \A j \in 1..m : SameSide(ch, Here(ch, a)[j], a, b)
  <2>1. CASE b = Nowhere
    <3>1. m = 0
      BY <1>5, <1>8, <2>1 DEF Here
    <3>. QED  BY <3>1
  <2>2. CASE b = e + 1
    <3>1. HighElses(ch, m, a, e + 1)
      <4>1. \A r \in a..((e + 1) - 1) : r \in (c + 1)..e /\ r \in 1..Len(ch)
        BY <1>1, <1>2, <1>6, <1>7
      <4>2. \A r \in a..((e + 1) - 1) : Len(S[r]) \in Nat /\ m + 1 <= Len(S[r])
        BY <1>5, <4>1, HereAt
      <4>3. \A r \in a..((e + 1) - 1) : m < Len(S[r])
        BY <1>7, <4>2
      <4>. QED  BY <4>3 DEF HighElses
    <3>2. e + 1 \in Nat /\ m <= Len(Nesting(ch)[a])
      BY <1>1, <1>7
    <3>3. \A j \in 1..m : SameSide(ch, Here(ch, a)[j], a, e + 1)
      <4>. HIDE DEF m
      <4>. QED  BY <1>1, <1>7, <3>1, <3>2, Sides
    <3>. QED  BY <2>2, <3>3
  <2>. QED  BY <1>8, <2>1, <2>2
<1>10. Len(fs) = t + d /\ t \in Nat
  BY <1>1 DEF Framed
<1>11. Len(gs) = Len(fs) - 1 /\ Alike(fs, gs, Len(fs) - 1)
  <2>1. Len(fs) > 0
    BY <1>1, <1>10
  <2>. QED  BY <2>1, FrontAlike
<1>12. Common(Here(ch, a), Here(ch, b), m) /\ Alike(fs, gs, t + m) /\ Len(gs) = t + Len(Here(ch, b))
  <2>1. Common(Here(ch, a), Here(ch, b), m)
    <3>1. \A j \in 1..m : S[e + 1][j] = S[a][j]
      BY <1>3, <1>5
    <3>2. m <= Len(S[a]) /\ m <= Len(S[e + 1])
      BY <1>1, <1>5, <1>7
    <3>. QED  BY <1>1, <1>7, <1>8, <3>1, <3>2 DEF Common
  <2>2. Len(gs) = t + Len(Here(ch, b))
    <3>1. Len(Here(ch, b)) = m
      BY <1>5, <1>8
    <3>. HIDE DEF gs, m, d
    <3>. QED  BY <1>1, <1>7, <1>10, <1>11, <3>1
  <2>3. t + m = Len(fs) - 1
    <3>. HIDE DEF gs, m, d
    <3>. QED  BY <1>1, <1>7, <1>10
  <2>. QED  BY <1>11, <2>1, <2>2, <2>3
<1>13. \A k \in (m + 1)..Len(Here(ch, b)) : FALSE
  <2>1. Len(Here(ch, b)) = m
    BY <1>5, <1>8
  <2>. HIDE DEF m
  <2>. QED  BY <1>7, <2>1
<1>. HIDE DEF m, b, gs
<1>14. Framed(ch, b, gs, t)
  BY <1>8, <1>9, <1>12, <1>13, Moved
<1>. QED  BY <1>14 DEF b, gs

\* A file that is included, between commands.
LEMMA FramedInclude ==
  ASSUME NEW ch, ProperChain(ch), NEW a \in 1..Len(ch), ch[a].kind = "template",
         NEW fs \in Seq(Frames), NEW t, Framed(ch, a, fs, t),
         NEW fr \in Frames, fr.cmd = a, fr.section = "chain"
  PROVE  Framed(ch, next_(ch, a), Append(fs, fr), t + 1)
<1>. DEFINE S == Nesting(ch)
            gs == Append(fs, fr)
            b == next_(ch, a)
<1>1. /\ Here(ch, a) = S[a] /\ StepAt(ch, S, a) /\ Here(ch, b) = S[a + 1]
  BY HereAt, HereNext
<1>2. Len(S[a]) = 0 /\ S[a + 1] = S[a]
  BY <1>1 DEF StepAt
<1>3. /\ Len(gs) = Len(fs) + 1 /\ gs[Len(fs) + 1] = fr /\ \A k \in 1..Len(fs) : gs[k] = fs[k]
  BY AppendAlike
<1>4. Len(Here(ch, a)) = 0 /\ Len(Here(ch, b)) = 0
  BY <1>1, <1>2
<1>5. /\ t \in Nat /\ Len(fs) = t
      /\ \A k \in 1..t : fs[k].section = "chain" /\ ch[fs[k].cmd].kind = "template"
  BY <1>4 DEF Framed
<1>. HIDE DEF gs, b
<1>6. \A k \in 1..(t + 1) : gs[k].section = "chain" /\ ch[gs[k].cmd].kind = "template"
  <2>. TAKE k \in 1..(t + 1)
  <2>1. k = t + 1 \/ k \in 1..t
    BY <1>5
  <2>. QED  BY <1>3, <1>5, <2>1
<1>7. t + 1 \in Nat /\ Len(gs) = (t + 1) + Len(Here(ch, b)) /\ t + 1 > 0
  BY <1>3, <1>4, <1>5
<1>8. Framed(ch, b, gs, t + 1)
  BY <1>4, <1>6, <1>7 DEF Framed
<1>. QED  BY <1>8 DEF gs, b

\* A frame of a section is above the templates, and a template is innermost only
\* where no command is open.
LEMMA TopFrame ==
  ASSUME NEW ch, ProperChain(ch), NEW at \in Places(ch), NEW fs \in Seq(Frames), Len(fs) > 0,
         NEW t, Framed(ch, at, fs, t)
  PROVE  \/ /\ fs[Len(fs)].section = "chain" /\ Len(Here(ch, at)) = 0 /\ t = Len(fs)
            /\ ch[fs[Len(fs)].cmd].kind = "template"
         \/ /\ fs[Len(fs)].section # "chain"
            /\ at \in 1..Len(ch) /\ Len(Nesting(ch)[at]) > 0 /\ t = Len(fs) - Len(Nesting(ch)[at])
            /\ fs[Len(fs)].cmd = Innermost(Nesting(ch)[at])
            /\ InSection(ch, at, fs[Len(fs)].cmd, fs[Len(fs)].section)
            /\ ch[fs[Len(fs)].cmd].kind \in Openers
<1>. DEFINE n == Len(fs)
            d == Len(Here(ch, at))
<1>1. n \in Nat /\ n > 0 /\ t \in Nat /\ n = t + d
  BY DEF Framed
<1>2. at = Nowhere \/ at \in 1..Len(ch)
  BY DEF Places, ProperChain
<1>3. d \in Nat
  BY <1>2, HereAt DEF Here
<1>4. CASE d = 0
  <2>1. t = n /\ n \in 1..t
    BY <1>1, <1>4
  <2>2. fs[n].section = "chain" /\ ch[fs[n].cmd].kind = "template"
    BY <2>1, ZenonT(60) DEF Framed
  <2>. QED  BY <1>4, <2>1, <2>2
<1>5. CASE d # 0
  <2>1. at \in 1..Len(ch)
    BY <1>2, <1>5 DEF Here
  <2>2. Here(ch, at) = Nesting(ch)[at] /\ Bracketed(ch, Nesting(ch)) /\ at \in 1..(Len(ch) + 1)
    BY <2>1, HereAt
  <2>3. d \in 1..d /\ t + d = n /\ t = n - d /\ d > 0
    BY <1>1, <1>3, <1>5
  <2>4. fs[n].cmd = Here(ch, at)[d] /\ InSection(ch, at, Here(ch, at)[d], fs[n].section)
    BY <2>3 DEF Framed
  <2>5. Here(ch, at)[d] = Innermost(Nesting(ch)[at]) /\ d = Len(Nesting(ch)[at])
    BY <2>2, ZenonT(60) DEF Innermost
  <2>6. ch[Innermost(Nesting(ch)[at])].kind \in Openers
    BY <2>2, <2>3, <2>5, InnermostOpen
  <2>7. fs[n].section # "chain"
    BY <2>4, <2>5, <2>6 DEF InSection, Openers
  <2>. QED  BY <2>1, <2>3, <2>4, <2>5, <2>6, <2>7
<1>. QED  BY <1>4, <1>5

\* The template at the top returns nil.
LEMMA FramedReturn ==
  ASSUME NEW ch, ProperChain(ch), NEW at \in Places(ch), NEW fs \in Seq(Frames), Len(fs) > 0,
         NEW t, Framed(ch, at, fs, t), fs[Len(fs)].section = "chain"
  PROVE  Framed(ch, Nowhere, SubSeq(fs, 1, Len(fs) - 1), t - 1)
<1>. DEFINE gs == SubSeq(fs, 1, Len(fs) - 1)
<1>1. t = Len(fs) /\ t \in Nat /\ t > 0
  <2>1. t = Len(fs)
    BY TopFrame
  <2>2. t \in Nat
    BY DEF Framed
  <2>. QED  BY <2>1, <2>2
<1>2. Len(gs) = t - 1 /\ \A k \in 1..(t - 1) : gs[k] = fs[k]
  BY <1>1, FrontAlike
<1>. HIDE DEF gs
<1>3. \A k \in 1..(t - 1) : k \in 1..t
  BY <1>1
<1>4. \A k \in 1..(t - 1) : gs[k].section = "chain" /\ ch[gs[k].cmd].kind = "template"
  BY <1>2, <1>3 DEF Framed
<1>5. Here(ch, Nowhere) = <<>> /\ Len(<<>>) = 0
  BY DEF Here
<1>6. t - 1 \in Nat /\ Len(gs) = (t - 1) + Len(Here(ch, Nowhere))
  BY <1>1, <1>2, <1>5
<1>7. Framed(ch, Nowhere, gs, t - 1)
  BY <1>4, <1>5, <1>6 DEF Framed
<1>. QED  BY <1>7 DEF gs

-----------------------------------------------------------------------------
(* Where the searches of the printer lead. *)

\* Behind the end.
LEMMA BehindEnd ==
  ASSUME NEW ch, ProperChain(ch), ch = chain, NEW c \in 1..Len(ch), ch[c].kind \in Openers,
         NEW e, EndOfCmd(ch, c, e)
  PROVE  /\ e \in 1..Len(ch) /\ Kind(e) = terminatorClass(ch[c].kind) /\ ~isElse(Kind(e))
         /\ Behind(ch[c].kind, e) = next_(ch, e)
<1>1. Bracketed(ch, Nesting(ch)) /\ Len(ch) \in Nat
  BY HereAt
<1>2. e \in (c + 1)..Len(ch) /\ ch[e].kind = terminatorClass(ch[c].kind)
  BY <1>1, EndFacts DEF EndOfCmd
<1>3. e \in 1..Len(ch) /\ e # Nowhere
  BY <1>1, <1>2 DEF Nowhere
<1>4. Kind(e) = terminatorClass(ch[c].kind)
  BY <1>2, <1>3 DEF Kind, KindAt
<1>5. ~isElse(Kind(e))
  BY <1>4 DEF isElse, Elses, Openers, terminatorClass
<1>. QED  BY <1>3, <1>4, <1>5 DEF Behind, Next_

\* What is found from the start of a command.
LEMMA FoundFromStart ==
  ASSUME NEW ch, ProperChain(ch), ch = chain, NEW c \in 1..Len(ch), ch[c].kind \in Openers,
         NEW e, EndOfCmd(ch, c, e), NEW x, x = terminateToElse(ch, ch[c].kind, Next_(c))
  PROVE  /\ Next_(c) = c + 1 /\ c + 1 \in 1..Len(ch)
         /\ terminateToEnd(ch, ch[c].kind, Next_(c)) = e
         /\ terminateToEnd(ch, ch[c].kind, x) = e
         /\ isElse(Kind(x)) => x \in OwnElse(ch, c) /\ Next_(x) = x + 1
         /\ ~isElse(Kind(x)) => x = e /\ OwnElse(ch, c) = {}
<1>. DEFINE S == Nesting(ch)
            K == ch[c].kind
<1>1. Bracketed(ch, S) /\ Len(ch) \in Nat /\ c \in Nat
  BY HereAt
<1>2. /\ c + 1 \in 1..Len(ch) /\ Len(S[c]) \in Nat /\ Len(S[c + 1]) = Len(S[c]) + 1
      /\ Innermost(S[c + 1]) = c
  BY <1>1, BodyStarts
<1>3. Ended(ch, S, c + 1, e) /\ Len(S[c + 1]) > 0
  BY <1>2 DEF EndOfCmd
<1>4. Next_(c) = c + 1
  <2>1. c < Len(ch)
    BY <1>1, <1>2
  <2>2. next_(ch, c) = c + 1
    BY <2>1 DEF next_
  <2>. QED  BY <2>2 DEF Next_
<1>5. terminateToEnd(ch, K, c + 1) = e
  BY <1>1, <1>2, <1>3, EndFound
<1>6. /\ x \in (c + 1)..e
      /\ x # e => isElse(ch[x].kind) /\ Len(S[x]) = Len(S[c + 1])
      /\ \A p \in (c + 1)..(x - 1) : isElse(ch[p].kind) => Len(S[p]) # Len(S[c + 1])
  <2>1. K = ch[Innermost(S[c + 1])].kind /\ x = terminateToElse(ch, K, c + 1)
    BY <1>2, <1>4
  <2>. HIDE DEF K, S
  <2>. QED  BY <1>1, <1>2, <1>3, <2>1, ElseFound, SMTT(40)
<1>7. Len(S[x]) = Len(S[c + 1])
  <2>1. Len(S[e]) = Len(S[c + 1])
    BY <1>3 DEF Ended
  <2>. QED  BY <1>6, <2>1
<1>8. Ended(ch, S, x, e) /\ x \in 1..Len(ch) /\ Innermost(S[x]) = c
  BY <1>1, <1>2, <1>3, <1>6, <1>7, SameEnd, SMTT(40)
<1>9. terminateToEnd(ch, K, x) = e
  <2>1. terminateToEnd(ch, ch[Innermost(S[x])].kind, x) = e
    BY <1>1, <1>3, <1>7, <1>8, EndFound
  <2>. QED  BY <1>8, <2>1
<1>10. x # Nowhere /\ Kind(x) = ch[x].kind
  BY <1>1, <1>8 DEF Nowhere, Kind, KindAt
<1>11. ASSUME isElse(Kind(x))  PROVE x \in OwnElse(ch, c) /\ Next_(x) = x + 1
  <2>1. x \in OwnElse(ch, c)
    BY <1>8, <1>10, <1>11, OwnElseIs
  <2>2. x # e
    BY <1>11, BehindEnd
  <2>3. e \in 1..Len(ch) /\ x < e
    <3>1. e \in 1..Len(ch)
      BY BehindEnd
    <3>. QED  BY <1>1, <1>6, <1>8, <2>2, <3>1
  <2>4. Next_(x) = x + 1
    BY <1>1, <1>8, <2>3 DEF Next_, next_
  <2>. QED  BY <2>1, <2>4
<1>12. ASSUME ~isElse(Kind(x))  PROVE x = e /\ OwnElse(ch, c) = {}
  <2>1. x = e
    BY <1>6, <1>10, <1>12
  <2>2. ASSUME NEW p \in OwnElse(ch, c)  PROVE FALSE
    <3>1. /\ p \in 1..Len(ch) /\ isElse(ch[p].kind) /\ Len(S[p]) > 0 /\ Innermost(S[p]) = c
          /\ Len(S[p]) = Len(S[c + 1])
      BY <1>2, OwnElseHigh
    <3>2. p \in (c + 1)..e
      BY <1>1, <1>3, <3>1, InnermostEnds
    <3>3. p # e
      BY <1>10, <1>12, <2>1, <3>1
    <3>4. p \in (c + 1)..(x - 1)
      BY <1>1, <1>8, <2>1, <3>1, <3>2, <3>3
    <3>. QED  BY <1>6, <3>1, <3>4
  <2>. QED  BY <2>1, <2>2
<1>. QED  BY <1>2, <1>4, <1>5, <1>9, <1>11, <1>12

\* What is found from where a section stops.
LEMMA FoundFromStop ==
  ASSUME NEW ch, ProperChain(ch), ch = chain, NEW a \in 1..Len(ch), Len(Nesting(ch)[a]) > 0,
         NEW c, c = Innermost(Nesting(ch)[a]), NEW e, EndOfCmd(ch, c, e),
         isElse(ch[a].kind) \/ ch[a].kind = terminatorClass(ch[c].kind)
  PROVE  /\ c \in 1..Len(ch) /\ ch[c].kind \in Openers
         /\ terminateToEnd(ch, ch[c].kind, a) = e
         /\ terminateToElse(ch, ch[c].kind, a) = a
         /\ isElse(ch[a].kind) => a \in OwnElse(ch, c) /\ \A q \in OwnElse(ch, c) : q = a
         /\ ~isElse(ch[a].kind) => a = e
<1>. DEFINE S == Nesting(ch)
            K == ch[c].kind
            x == terminateToElse(ch, K, a)
<1>1. /\ Bracketed(ch, S) /\ Len(ch) \in Nat /\ a \in Nat /\ a \in 1..(Len(ch) + 1) /\ StepAt(ch, S, a)
      /\ Len(S[a]) \in Nat
  BY HereAt
<1>2. Ended(ch, S, c + 1, e)
  BY DEF EndOfCmd
<1>3. /\ c \in 1..Len(ch) /\ ch[c].kind \in Openers
      /\ a \in (c + 1)..e /\ Len(S[a]) = Len(S[c]) + 1
      /\ Ended(ch, S, a, e)
  BY <1>1, <1>2, InnermostEnds
<1>4. terminateToEnd(ch, K, a) = e
  BY <1>1, <1>3, EndFound
<1>5. /\ x \in a..e
      /\ x # e => isElse(ch[x].kind) /\ Len(S[x]) = Len(S[a])
      /\ \A p \in a..(x - 1) : isElse(ch[p].kind) => Len(S[p]) # Len(S[a])
  <2>1. K = ch[Innermost(S[a])].kind
    OBVIOUS
  <2>2. x = terminateToElse(ch, K, a)
    OBVIOUS
  <2>. HIDE DEF x, K, S
  <2>. QED  BY <1>1, <1>3, <2>1, <2>2, ElseFound, SMTT(40) DEF S
<1>6. e \in a..Len(ch) /\ x \in Nat
  BY <1>1, <1>3, <1>5 DEF Ended
<1>7. CASE isElse(ch[a].kind)
  <2>. HIDE DEF x
  <2>1. ~(a < x)
    <3>. SUFFICES ASSUME a < x PROVE FALSE
      OBVIOUS
    <3>1. a \in a..(x - 1)
      BY <1>1, <1>6
    <3>. QED  BY <1>5, <1>7, <3>1
  <2>2. x = a
    BY <1>1, <1>5, <1>6, <2>1
  <2>3. a \in OwnElse(ch, c) /\ \A q \in OwnElse(ch, c) : q = a
    BY <1>7, OwnElseIs
  <2>. QED  BY <1>3, <1>4, <1>7, <2>2, <2>3 DEF x
<1>8. CASE ~isElse(ch[a].kind)
  <2>1. ch[a].kind = terminatorClass(ch[c].kind) /\ ch[a].kind \in Closers
    <3>1. ch[a].kind = terminatorClass(ch[c].kind)
      BY <1>8
    <3>2. terminatorClass(ch[c].kind) \in Closers
      BY <1>3 DEF Openers, Closers, terminatorClass
    <3>. QED  BY <3>1, <3>2
  <2>2. Shrinks(S[a], S[a + 1])
    BY <1>1, <2>1 DEF StepAt
  <2>3. Len(S[a + 1]) < Len(S[a]) /\ a \in a..Len(ch)
    BY <1>1, <2>2 DEF Shrinks
  <2>4. Holds(S, Len(S[a]), a, a)
    <3>1. \A r \in a..a : r = a
      BY <1>1
    <3>2. Len(S[a]) <= Len(S[a])
      BY <1>1
    <3>. QED  BY <3>1, <3>2 DEF Holds
  <2>5. e = a
    BY <1>1, <1>3, <2>3, <2>4, EndUnique
  <2>. HIDE DEF x
  <2>6. x = a
    BY <1>1, <1>5, <2>5
  <2>. QED  BY <1>3, <1>4, <1>8, <2>5, <2>6 DEF x
<1>. QED  BY <1>7, <1>8

-----------------------------------------------------------------------------
(* Where the printer is in a properly nested template. *)

\* The chain of such a template.
LEMMA InProper ==
  ASSUME PrinterTypeOK, IsProper
  PROVE  /\ ProperChain(chain) /\ frames \in Seq(Frames) /\ curr \in Places(chain)
         /\ chain \in Seq(Nodes) /\ Len(chain) \in Nat /\ DOMAIN chain = 1..Len(chain)
<1>1. chain \in Seq(Nodes) /\ frames \in Seq(Frames) /\ curr \in Places(chain)
  BY TypedParts DEF FramesTyped
<1>2. Len(chain) \in Nat /\ DOMAIN chain = 1..Len(chain)
  BY <1>1
<1>. QED  BY <1>1, <1>2 DEF IsProper, ProperChain

\* At an object that is rendered.
LEMMA AtProper ==
  ASSUME PrinterTypeOK, IsProper, NEW kind \in Kinds, At(kind)
  PROVE  /\ curr \in 1..Len(chain) /\ chain[curr].kind = kind /\ ~LoopEnds
         /\ Next_(curr) = next_(chain, curr) /\ Kind(curr) = kind /\ Len(frames) > 0
<1>1. curr \in DOMAIN chain /\ chain[curr].kind = kind /\ Len(frames) > 0
  BY AtInChain
<1>. QED  BY <1>1, InProper DEF At, Next_

\* A command without an alternative has no else.
LEMMA NoElseOf ==
  ASSUME NEW ch, ProperChain(ch), NEW c \in 1..Len(ch), ch[c].kind \in {"while", "block"}
  PROVE  OwnElse(ch, c) = {}
<1>. SUFFICES ASSUME NEW p \in OwnElse(ch, c) PROVE FALSE
  OBVIOUS
<1>1. p \in 1..Len(ch) /\ isElse(ch[p].kind) /\ Innermost(Nesting(ch)[p]) = c
  BY OwnElseHigh
<1>2. ch[p].kind = elseClass(ch[c].kind)
  BY <1>1, HereAt DEF StepAt
<1>. QED  BY <1>1, <1>2 DEF isElse, Elses, elseClass, NoClass

\* The printer is in a section of a command and has come to its else or end.
InCmd ==
  /\ curr \in 1..Len(chain) /\ Len(Nesting(chain)[curr]) > 0
  /\ Top.cmd = Innermost(Nesting(chain)[curr])
  /\ Top.cmd \in 1..Len(chain) /\ chain[Top.cmd].kind \in Openers
  /\ Top.section # "chain" /\ InSection(chain, curr, Top.cmd, Top.section)
  /\ isElse(chain[curr].kind) \/ chain[curr].kind = terminatorClass(chain[Top.cmd].kind)

\* So it is where the loop of a command stops.
LEMMA StopsInside ==
  ASSUME PrinterTypeOK, IsProper, NEW t, Framed(chain, curr, frames, t),
         NEW kind, NEW section, Back(kind, section), section # "chain"
  PROVE  InCmd /\ chain[Top.cmd].kind = kind /\ Top.section = section
<1>1. /\ Len(frames) > 0 /\ Top.cmd \in DOMAIN chain /\ Top.cmd # Nowhere
      /\ chain[Top.cmd].kind = kind /\ Top.section = section /\ LoopEnds
  BY BackInChain
<1>2. ProperChain(chain) /\ frames \in Seq(Frames) /\ curr \in Places(chain) /\ DOMAIN chain = 1..Len(chain)
  BY InProper
<1>3. /\ curr \in 1..Len(chain) /\ Len(Nesting(chain)[curr]) > 0
      /\ Top.cmd = Innermost(Nesting(chain)[curr])
      /\ InSection(chain, curr, Top.cmd, Top.section)
      /\ chain[Top.cmd].kind \in Openers
  BY <1>1, <1>2, TopFrame DEF Top
<1>4. curr # Nowhere /\ Kind(curr) = chain[curr].kind /\ Kind(Top.cmd) = chain[Top.cmd].kind
  BY <1>1, <1>2, <1>3, HereAt DEF Kind, KindAt
<1>5. isElse(chain[curr].kind) \/ chain[curr].kind = terminatorClass(chain[Top.cmd].kind)
  BY <1>1, <1>4 DEF LoopEnds
<1>. QED  BY <1>1, <1>2, <1>3, <1>5 DEF InCmd

\* No else and no end is rendered.
LEMMA NoneStray ==
  ASSUME PrinterTypeOK, IsProper, NEW t, Framed(chain, curr, frames, t),
         NEW kind \in Elses \cup Closers, At(kind)
  PROVE  FALSE
<1>1. /\ curr \in 1..Len(chain) /\ chain[curr].kind = kind /\ ~LoopEnds /\ Kind(curr) = kind
      /\ Len(frames) > 0
  BY AtProper DEF Kinds
<1>2. ProperChain(chain) /\ frames \in Seq(Frames) /\ curr \in Places(chain)
  BY InProper
<1>3. Here(chain, curr) = Nesting(chain)[curr] /\ StepAt(chain, Nesting(chain), curr)
  BY <1>1, <1>2, HereAt
<1>4. /\ Len(Nesting(chain)[curr]) > 0
      /\ isElse(kind) \/ kind = terminatorClass(chain[Innermost(Nesting(chain)[curr])].kind)
  BY <1>1, <1>3 DEF StepAt, Shrinks, isElse
<1>5. Top.section # "chain" /\ Top.cmd = Innermost(Nesting(chain)[curr]) /\ chain[Top.cmd].kind \in Openers
  BY <1>1, <1>2, <1>3, <1>4, TopFrame DEF Top
<1>6. Kind(Top.cmd) = chain[Top.cmd].kind
  <2>1. Top \in Frames /\ Top.cmd \in DOMAIN chain
    BY <1>1, TypedParts DEF Top
  <2>2. Top.cmd # Nowhere
    BY <1>2, <2>1 DEF Nowhere, ProperChain
  <2>. QED  BY <2>2 DEF Kind, KindAt
<1>. QED  BY <1>1, <1>4, <1>5, <1>6 DEF LoopEnds

\* What is found from there.
LEMMA Stops ==
  ASSUME ProperChain(chain), InCmd, NEW e, EndOfCmd(chain, Top.cmd, e),
         NEW kind, kind = chain[Top.cmd].kind
  PROVE  /\ e \in 1..Len(chain) /\ Behind(kind, e) = next_(chain, e)
         /\ terminateToEnd(chain, kind, curr) = e
         /\ terminateToElse(chain, kind, curr) = curr
         /\ Kind(curr) = chain[curr].kind
         /\ isElse(chain[curr].kind) => OwnElse(chain, Top.cmd) = {curr}
         /\ ~isElse(chain[curr].kind) => curr = e
         /\ Top.section \in {"else", "empty"} \/ kind \in {"while", "block"} => curr = e
         /\ Top.section \in {"then", "body"} /\ OwnElse(chain, Top.cmd) # {} =>
              OwnElse(chain, Top.cmd) = {curr}
<1>. DEFINE c == Top.cmd
<1>1. /\ curr \in 1..Len(chain) /\ Len(Nesting(chain)[curr]) > 0 /\ c = Innermost(Nesting(chain)[curr])
      /\ c \in 1..Len(chain) /\ chain[c].kind \in Openers
      /\ InSection(chain, curr, c, Top.section)
      /\ isElse(chain[curr].kind) \/ chain[curr].kind = terminatorClass(chain[c].kind)
  BY DEF InCmd
<1>. HIDE DEF c
<1>2. EndOfCmd(chain, c, e) /\ kind = chain[c].kind
  BY DEF c
<1>3. e \in 1..Len(chain) /\ Behind(kind, e) = next_(chain, e)
  BY <1>1, <1>2, BehindEnd
<1>4. /\ terminateToEnd(chain, kind, curr) = e /\ terminateToElse(chain, kind, curr) = curr
      /\ isElse(chain[curr].kind) => curr \in OwnElse(chain, c) /\ \A q \in OwnElse(chain, c) : q = curr
      /\ ~isElse(chain[curr].kind) => curr = e
  <2>1. /\ terminateToEnd(chain, chain[c].kind, curr) = e
        /\ terminateToElse(chain, chain[c].kind, curr) = curr
        /\ isElse(chain[curr].kind) => curr \in OwnElse(chain, c) /\ \A q \in OwnElse(chain, c) : q = curr
        /\ ~isElse(chain[curr].kind) => curr = e
    <3>1. ProperChain(chain) /\ chain = chain /\ EndOfCmd(chain, c, e)
      BY <1>2
    <3>. QED  BY <1>1, <3>1, FoundFromStop, ZenonT(200)
  <2>. QED  BY <1>2, <2>1
<1>5. isElse(chain[curr].kind) => OwnElse(chain, c) = {curr}
  BY <1>4
<1>6. Kind(curr) = chain[curr].kind
  BY <1>1, HereAt DEF Kind, KindAt
<1>7. curr \in Nat /\ \A p \in OwnElse(chain, c) : p \in Nat
  BY <1>1, OwnElseHigh
<1>8. ASSUME Top.section \in {"else", "empty"} \/ kind \in {"while", "block"}  PROVE curr = e
  <2>1. CASE kind \in {"while", "block"}
    <3>1. OwnElse(chain, c) = {}
      BY <1>1, <1>2, <2>1, NoElseOf
    <3>. QED  BY <1>4, <1>5, <3>1
  <2>2. CASE Top.section \in {"else", "empty"}
    <3>1. PICK p \in OwnElse(chain, c) : p < curr
      BY <1>1, <2>2 DEF InSection
    <3>2. p # curr
      BY <1>7, <3>1
    <3>. QED  BY <1>4, <3>1, <3>2
  <2>. QED  BY <1>8, <2>1, <2>2
<1>9. ASSUME Top.section \in {"then", "body"}, OwnElse(chain, c) # {}  PROVE OwnElse(chain, c) = {curr}
  <2>1. PICK p \in OwnElse(chain, c) : TRUE
    BY <1>9
  <2>2. curr <= p
    BY <1>1, <1>9, <2>1 DEF InSection
  <2>3. SUFFICES ASSUME ~isElse(chain[curr].kind) PROVE FALSE
    BY <1>5
  <2>4. curr = e
    BY <1>4, <2>3
  <2>5. p \in (c + 1)..e /\ isElse(chain[p].kind)
    <3>1. /\ p \in 1..Len(chain) /\ isElse(chain[p].kind) /\ Len(Nesting(chain)[p]) > 0
          /\ c = Innermost(Nesting(chain)[p]) /\ Bracketed(chain, Nesting(chain))
      BY <1>1, <2>1, OwnElseHigh, HereAt
    <3>. QED  BY <1>2, <3>1, InnermostEnds DEF EndOfCmd
  <2>6. p = curr
    BY <1>1, <1>7, <2>1, <2>2, <2>4, <2>5
  <2>. QED  BY <2>3, <2>5, <2>6
<1>. QED  BY <1>3, <1>4, <1>5, <1>6, <1>8, <1>9 DEF c

-----------------------------------------------------------------------------
(* What the actions do, in the words of the stack. *)

Over ==
  /\ curr \in 1..Len(chain) /\ chain[curr].kind = "text"
  /\ curr' = next_(chain, curr) /\ frames' = frames

Included ==
  /\ curr \in 1..Len(chain) /\ chain[curr].kind = "template"
  /\ curr' = next_(chain, curr)
  /\ frames' = Append(frames, [cmd |-> curr, section |-> "chain", i |-> 0, n |-> 0])

Returned ==
  /\ Len(frames) > 0 /\ Top.section = "chain"
  /\ curr = Nowhere /\ curr' = Nowhere /\ frames' = Callers

Entered(section, n) ==
  /\ curr \in 1..Len(chain) /\ chain[curr].kind \in Openers
  /\ Starts(chain, curr, section, curr') /\ section \in Sections
  /\ frames' = Append(frames, [cmd |-> curr, section |-> section, i |-> 0, n |-> n])

Passed ==
  /\ curr \in 1..Len(chain) /\ chain[curr].kind \in Openers \ {"block"}
  /\ OwnElse(chain, curr) = {}
  /\ \E e : EndOfCmd(chain, curr, e) /\ curr' = next_(chain, e)
  /\ frames' = frames

Turned ==
  /\ InCmd /\ Top.section = "body" /\ chain[Top.cmd].kind \in {"for", "while"}
  /\ curr' = Top.cmd + 1 /\ frames' = [frames EXCEPT ![Len(frames)].i = @ + 1]

Left ==
  /\ InCmd
  /\ \E e : EndOfCmd(chain, Top.cmd, e) /\ curr' = next_(chain, e)
  /\ frames' = Callers

\* A command at the printer's place and what is found from there.
LEMMA FoundAt ==
  ASSUME PrinterTypeOK, IsProper, NEW kind \in Openers, At(kind),
         NEW x, x = terminateToElse(chain, kind, Next_(curr))
  PROVE  /\ curr \in 1..Len(chain) /\ chain[curr].kind = kind /\ Next_(curr) = curr + 1
         /\ isElse(Kind(x)) => x \in OwnElse(chain, curr) /\ Next_(x) = x + 1
         /\ ~isElse(Kind(x)) => OwnElse(chain, curr) = {}
         /\ \E e : /\ EndOfCmd(chain, curr, e)
                   /\ ~isElse(Kind(x)) => x = e
                   /\ terminateToEnd(chain, kind, Next_(curr)) = e
                   /\ terminateToEnd(chain, kind, x) = e
                   /\ Behind(kind, e) = next_(chain, e)
<1>1. curr \in 1..Len(chain) /\ chain[curr].kind = kind
  BY AtProper DEF Kinds
<1>2. ProperChain(chain) /\ chain \in Seq(Nodes) /\ Proper(chain)
  BY InProper DEF ProperChain
<1>3. PICK e : EndOfCmd(chain, curr, e)
  BY <1>1, <1>2, CmdEnds
<1>4. Behind(kind, e) = next_(chain, e)
  BY <1>1, <1>2, <1>3, BehindEnd
<1>5. x = terminateToElse(chain, chain[curr].kind, Next_(curr)) /\ chain[curr].kind \in Openers
  BY <1>1
<1>6. /\ Next_(curr) = curr + 1
      /\ terminateToEnd(chain, chain[curr].kind, Next_(curr)) = e
      /\ terminateToEnd(chain, chain[curr].kind, x) = e
      /\ isElse(Kind(x)) => x \in OwnElse(chain, curr) /\ Next_(x) = x + 1
      /\ ~isElse(Kind(x)) => x = e /\ OwnElse(chain, curr) = {}
  BY <1>1, <1>2, <1>3, <1>5, FoundFromStart
<1>. QED  BY <1>1, <1>3, <1>4, <1>6

\* An if renders one of its parts or nothing.
LEMMA IfMoves ==
  ASSUME PrinterTypeOK, IsProper, NEW flag \in BOOLEAN, RenderIf(flag)
  PROVE  Entered("then", 0) \/ Entered("else", 0) \/ Passed
<1>. DEFINE other == terminateToElse(chain, "if", Next_(curr))
<1>1. "if" \in Openers /\ "then" \in Sections /\ "else" \in Sections
  BY DEF Openers, Sections
<1>2. /\ At("if")
      /\ \/ Call("then", Next_(curr), 0)
         \/ isElse(Kind(other)) /\ Call("else", Next_(other), 0)
         \/ ~isElse(Kind(other)) /\ curr' = Behind("if", other) /\ UNCHANGED frames
  BY DEF RenderIf
<1>3. /\ curr \in 1..Len(chain) /\ chain[curr].kind = "if" /\ Next_(curr) = curr + 1
      /\ isElse(Kind(other)) => other \in OwnElse(chain, curr) /\ Next_(other) = other + 1
      /\ ~isElse(Kind(other)) => OwnElse(chain, curr) = {}
      /\ \E e : /\ EndOfCmd(chain, curr, e)
                /\ ~isElse(Kind(other)) => other = e
                /\ Behind("if", e) = next_(chain, e)
  BY <1>1, <1>2, FoundAt
<1>. HIDE DEF other
<1>4. CASE Call("then", Next_(curr), 0)
  <2>1. Starts(chain, curr, "then", curr')
    BY <1>3, <1>4 DEF Call, Starts
  <2>. QED  BY <1>1, <1>3, <1>4, <2>1 DEF Call, Entered
<1>5. CASE isElse(Kind(other)) /\ Call("else", Next_(other), 0)
  <2>1. Starts(chain, curr, "else", curr')
    BY <1>3, <1>5 DEF Call, Starts
  <2>. QED  BY <1>1, <1>3, <1>5, <2>1 DEF Call, Entered
<1>6. CASE ~isElse(Kind(other)) /\ curr' = Behind("if", other) /\ UNCHANGED frames
  BY <1>1, <1>3, <1>6 DEF Passed
<1>. QED  BY <1>2, <1>4, <1>5, <1>6

\* A for renders its body, its elsefor part or nothing.
LEMMA ForMoves ==
  ASSUME PrinterTypeOK, IsProper, NEW n \in 0..MaxItems, RenderFor(n)
  PROVE  /\ curr \in 1..Len(chain) /\ chain[curr].kind = "for"
         /\ \/ Entered("body", n) /\ SetItem(chain[curr].id, 0, Len(frames) + 1)
            \/ /\ Entered("empty", 0)
               /\ loopInfo' = [loopInfo EXCEPT ![chain[curr].id] = Len(frames) + 1]
               /\ UNCHANGED loopVar
            \/ Passed /\ ForgetItem(chain[curr].id)
<1>. DEFINE other == terminateToElse(chain, "for", Next_(curr))
            x == chain[curr].id
            owner == Len(frames) + 1
<1>1. "for" \in Openers /\ "body" \in Sections /\ "empty" \in Sections
  BY DEF Openers, Sections
<1>2. At("for")
  BY DEF RenderFor
<1>3. n > 0 \/ n = 0
  BY PrinterBounds
<1>4. /\ curr \in 1..Len(chain) /\ chain[curr].kind = "for" /\ Next_(curr) = curr + 1
      /\ isElse(Kind(other)) => other \in OwnElse(chain, curr) /\ Next_(other) = other + 1
      /\ ~isElse(Kind(other)) => OwnElse(chain, curr) = {}
      /\ \E e : /\ EndOfCmd(chain, curr, e)
                /\ terminateToEnd(chain, "for", other) = e
                /\ Behind("for", e) = next_(chain, e)
  BY <1>1, <1>2, FoundAt
<1>5. CASE n > 0
  <2>1. Call("body", Next_(curr), n) /\ SetItem(x, 0, owner)
    <3>1. n # 0
      BY <1>5, PrinterBounds
    <3>. QED  BY <1>5, <3>1 DEF RenderFor
  <2>2. Starts(chain, curr, "body", curr')
    BY <1>4, <2>1 DEF Call, Starts
  <2>. QED  BY <1>1, <1>4, <2>1, <2>2 DEF Call, Entered
<1>6. CASE n = 0 /\ isElse(Kind(other))
  <2>1. /\ Call("empty", Next_(other), 0)
        /\ loopInfo' = [loopInfo EXCEPT ![x] = owner] /\ UNCHANGED loopVar
    BY <1>6 DEF RenderFor
  <2>2. Starts(chain, curr, "empty", curr')
    BY <1>4, <1>6, <2>1 DEF Call, Starts
  <2>. QED  BY <1>1, <1>4, <2>1, <2>2 DEF Call, Entered
<1>7. CASE n = 0 /\ ~isElse(Kind(other))
  <2>1. /\ curr' = Behind("for", terminateToEnd(chain, "for", other)) /\ UNCHANGED frames
        /\ ForgetItem(x)
    BY <1>7 DEF RenderFor
  <2>. QED  BY <1>1, <1>4, <1>7, <2>1 DEF Passed
<1>. QED  BY <1>3, <1>5, <1>6, <1>7

\* A while renders its body or nothing.
LEMMA WhileMoves ==
  ASSUME PrinterTypeOK, IsProper, NEW flag \in BOOLEAN, RenderWhile(flag)
  PROVE  Entered("body", 0) \/ Passed
<1>. DEFINE other == terminateToElse(chain, "while", Next_(curr))
<1>1. "while" \in Openers /\ "body" \in Sections
  BY DEF Openers, Sections
<1>2. /\ At("while")
      /\ \/ Call("body", Next_(curr), 0)
         \/ curr' = Behind("while", terminateToEnd(chain, "while", Next_(curr))) /\ UNCHANGED frames
  BY DEF RenderWhile
<1>3. /\ curr \in 1..Len(chain) /\ chain[curr].kind = "while" /\ Next_(curr) = curr + 1
      /\ \E e : /\ EndOfCmd(chain, curr, e)
                /\ terminateToEnd(chain, "while", Next_(curr)) = e
                /\ Behind("while", e) = next_(chain, e)
  BY <1>1, <1>2, FoundAt
<1>4. CASE Call("body", Next_(curr), 0)
  <2>1. Starts(chain, curr, "body", curr')
    BY <1>3, <1>4 DEF Call, Starts
  <2>. QED  BY <1>1, <1>3, <1>4, <2>1 DEF Call, Entered
<1>5. CASE curr' = Behind("while", terminateToEnd(chain, "while", Next_(curr))) /\ UNCHANGED frames
  <2>1. OwnElse(chain, curr) = {}
    BY <1>3, InProper, NoElseOf
  <2>. QED  BY <1>1, <1>3, <1>5, <2>1 DEF Passed
<1>. QED  BY <1>2, <1>4, <1>5

\* A block renders its body.
LEMMA BlockMoves ==
  ASSUME PrinterTypeOK, IsProper, RenderBlock
  PROVE  Entered("body", 0) /\ chain[curr].kind = "block"
<1>1. "block" \in Openers /\ "body" \in Sections
  BY DEF Openers, Sections
<1>2. At("block") /\ Call("body", Next_(curr), 0)
  BY DEF RenderBlock
<1>3. curr \in 1..Len(chain) /\ chain[curr].kind = "block" /\ Next_(curr) = curr + 1
  BY <1>1, <1>2, FoundAt
<1>4. Starts(chain, curr, "body", curr')
  BY <1>2, <1>3 DEF Call, Starts
<1>. QED  BY <1>1, <1>2, <1>3, <1>4 DEF Call, Entered

\* Every command goes on behind its end.
LEMMA ReturnsMove ==
  ASSUME PrinterTypeOK, IsProper, NEW t, Framed(chain, curr, frames, t),
         \/ ThenReturns \/ ElseReturns \/ ForReturns \/ ElseForReturns
         \/ WhileReturns \/ BlockReturns
  PROVE  Left
<1>. DEFINE c == Top.cmd
            kind == chain[c].kind
<1>1. PICK k, section : Back(k, section) /\ section # "chain"
  BY DEF ThenReturns, ElseReturns, ForReturns, ElseForReturns, WhileReturns, BlockReturns
<1>2. InCmd /\ c \in 1..Len(chain) /\ kind \in Openers
  BY <1>1, StopsInside DEF InCmd
<1>3. ProperChain(chain) /\ chain \in Seq(Nodes) /\ Proper(chain)
  BY InProper DEF ProperChain
<1>4. PICK e : EndOfCmd(chain, c, e)
  BY <1>2, <1>3, CmdEnds
<1>5. /\ Behind(kind, e) = next_(chain, e)
      /\ terminateToEnd(chain, kind, curr) = e
      /\ terminateToElse(chain, kind, curr) = curr
      /\ Kind(curr) = chain[curr].kind
      /\ ~isElse(chain[curr].kind) => curr = e
      /\ Top.section \in {"else", "empty"} \/ kind \in {"while", "block"} => curr = e
  BY <1>2, <1>3, <1>4, Stops
<1>6. \E at : at = e /\ Return(Behind(kind, at))
  <2>1. CASE ThenReturns
    <3>1. Back("if", "then")
      BY <2>1 DEF ThenReturns
    <3>2. kind = "if"
      BY <3>1, StopsInside
    <3>. QED  BY <1>5, <2>1, <3>2 DEF ThenReturns
  <2>2. CASE ElseReturns
    <3>1. Back("if", "else")
      BY <2>2 DEF ElseReturns
    <3>2. kind = "if" /\ Top.section = "else"
      BY <3>1, StopsInside
    <3>. QED  BY <1>5, <2>2, <3>2 DEF ElseReturns
  <2>3. CASE ForReturns
    <3>1. Back("for", "body")
      BY <2>3 DEF ForReturns
    <3>2. kind = "for"
      BY <3>1, StopsInside
    <3>. QED  BY <1>5, <2>3, <3>2 DEF ForReturns
  <2>4. CASE ElseForReturns
    <3>1. Back("for", "empty")
      BY <2>4 DEF ElseForReturns
    <3>2. kind = "for"
      BY <3>1, StopsInside
    <3>. DEFINE x == terminateToElse(chain, kind, Next_(c))
    <3>3. terminateToEnd(chain, kind, x) = e
      BY <1>2, <1>3, <1>4, FoundFromStart
    <3>. QED  BY <1>5, <2>4, <3>2, <3>3 DEF ElseForReturns
  <2>5. CASE WhileReturns
    <3>1. Back("while", "body")
      BY <2>5 DEF WhileReturns
    <3>2. kind = "while"
      BY <3>1, StopsInside
    <3>. QED  BY <1>5, <2>5, <3>2 DEF WhileReturns
  <2>6. CASE BlockReturns
    <3>1. Back("block", "body")
      BY <2>6 DEF BlockReturns
    <3>2. kind = "block"
      BY <3>1, StopsInside
    <3>. QED  BY <1>5, <2>6, <3>2 DEF BlockReturns
  <2>. QED  BY <2>1, <2>2, <2>3, <2>4, <2>5, <2>6
<1>. QED  BY <1>2, <1>4, <1>5, <1>6 DEF Return, Left

\* A loop goes back to the start of its body.
LEMMA TurnsMove ==
  ASSUME PrinterTypeOK, IsProper, NEW t, Framed(chain, curr, frames, t), ForTurns \/ WhileTurns
  PROVE  Turned
<1>1. PICK k \in {"for", "while"} : Back(k, "body")
  BY DEF ForTurns, WhileTurns
<1>2. InCmd /\ chain[Top.cmd].kind = k /\ Top.section = "body"
  BY <1>1, StopsInside
<1>3. curr' = Next_(Top.cmd) /\ frames' = [frames EXCEPT ![Len(frames)].i = @ + 1]
  BY DEF ForTurns, WhileTurns
<1>4. Next_(Top.cmd) = Top.cmd + 1
  <2>1. Bracketed(chain, Nesting(chain)) /\ Top.cmd \in 1..Len(chain) /\ chain[Top.cmd].kind \in Openers
    BY <1>2, InProper, HereAt DEF InCmd
  <2>2. Top.cmd + 1 \in 1..Len(chain)
    BY <2>1, BodyStarts
  <2>3. Len(chain) \in Nat /\ Top.cmd < Len(chain)
    BY <2>1, <2>2, InProper
  <2>. QED  BY <2>3 DEF Next_, next_
<1>. QED  BY <1>1, <1>2, <1>3, <1>4 DEF Turned

\* The text and the templates between the commands.
LEMMA TextMoves ==
  ASSUME PrinterTypeOK, IsProper, NEW t, Framed(chain, curr, frames, t)
  PROVE  /\ RenderText => Over
         /\ RenderTemplate => Included
         /\ TemplateReturns => Returned
<1>1. ASSUME RenderText  PROVE Over
  <2>1. At("text") /\ curr' = Next_(curr) /\ frames' = frames
    BY <1>1 DEF RenderText
  <2>2. curr \in 1..Len(chain) /\ chain[curr].kind = "text" /\ Next_(curr) = next_(chain, curr)
    BY <2>1, AtProper DEF Kinds
  <2>. QED  BY <2>1, <2>2 DEF Over
<1>2. ASSUME RenderTemplate  PROVE Included
  <2>1. At("template") /\ Call("chain", Next_(curr), 0)
    BY <1>2 DEF RenderTemplate
  <2>2. curr \in 1..Len(chain) /\ chain[curr].kind = "template" /\ Next_(curr) = next_(chain, curr)
    BY <2>1, AtProper DEF Kinds
  <2>. QED  BY <2>1, <2>2 DEF Included, Call
<1>3. ASSUME TemplateReturns  PROVE Returned
  <2>1. Back("template", "chain") /\ Return(Nowhere)
    BY <1>3 DEF TemplateReturns
  <2>2. Len(frames) > 0 /\ Top.section = "chain" /\ LoopEnds
    BY <2>1, BackInChain
  <2>3. curr = Nowhere
    BY <2>2 DEF LoopEnds
  <2>. QED  BY <2>1, <2>2, <2>3 DEF Returned, Return
<1>. QED  BY <1>1, <1>2, <1>3

Moves ==
  \/ Over \/ Included \/ Returned
  \/ \E section \in Sections, n \in Nat : Entered(section, n)
  \/ Passed \/ Turned \/ Left

\* Every step is one of these, and raises nothing.
LEMMA StepMoves ==
  ASSUME PrinterTypeOK, IsProper, NEW t, Framed(chain, curr, frames, t), Next
  PROVE  Moves /\ chain' = chain /\ raised' = raised
<1>1. CASE RenderText \/ RenderTemplate \/ TemplateReturns
  <2>1. Moves
    BY <1>1, TextMoves DEF Moves
  <2>. QED  BY <1>1, <2>1 DEF RenderText, RenderTemplate, TemplateReturns
<1>2. CASE RenderStray \/ RenderEndBlock
  <2>1. \E kind \in Elses \cup Closers : At(kind)
    BY <1>2 DEF RenderStray, RenderEndBlock, Closers
  <2>. QED  BY <2>1, NoneStray
<1>3. CASE \E flag \in BOOLEAN : RenderIf(flag)
  <2>1. Entered("then", 0) \/ Entered("else", 0) \/ Passed
    BY <1>3, IfMoves
  <2>2. "then" \in Sections /\ "else" \in Sections /\ 0 \in Nat
    BY DEF Sections
  <2>3. Moves
    BY <2>1, <2>2 DEF Moves
  <2>. QED  BY <1>3, <2>3 DEF RenderIf
<1>4. CASE \E n \in 0..MaxItems : RenderFor(n)
  <2>1. PICK n \in 0..MaxItems : RenderFor(n)
    BY <1>4
  <2>2. Entered("body", n) \/ Entered("empty", 0) \/ Passed
    BY <2>1, ForMoves
  <2>3. "body" \in Sections /\ "empty" \in Sections /\ 0 \in Nat /\ n \in Nat
    BY PrinterBounds DEF Sections
  <2>4. Moves
    BY <2>2, <2>3 DEF Moves
  <2>. QED  BY <2>1, <2>4 DEF RenderFor
<1>5. CASE \E flag \in BOOLEAN : RenderWhile(flag)
  <2>1. Entered("body", 0) \/ Passed
    BY <1>5, WhileMoves
  <2>2. "body" \in Sections /\ 0 \in Nat
    BY DEF Sections
  <2>3. Moves
    BY <2>1, <2>2 DEF Moves
  <2>. QED  BY <1>5, <2>3 DEF RenderWhile
<1>6. CASE RenderBlock
  <2>1. Entered("body", 0)
    BY <1>6, BlockMoves
  <2>2. "body" \in Sections /\ 0 \in Nat
    BY DEF Sections
  <2>3. Moves
    BY <2>1, <2>2 DEF Moves
  <2>. QED  BY <1>6, <2>3 DEF RenderBlock
<1>7. CASE ForTurns \/ WhileTurns
  <2>1. Moves
    BY <1>7, TurnsMove DEF Moves
  <2>. QED  BY <1>7, <2>1 DEF ForTurns, WhileTurns
<1>8. CASE ThenReturns \/ ElseReturns \/ ForReturns \/ ElseForReturns \/ WhileReturns \/ BlockReturns
  <2>1. Moves
    BY <1>8, ReturnsMove DEF Moves
  <2>. QED
    BY <1>8, <2>1
    DEF ThenReturns, ElseReturns, ForReturns, ElseForReturns, WhileReturns, BlockReturns
<1>. QED  BY <1>1, <1>2, <1>3, <1>4, <1>5, <1>6, <1>7, <1>8 DEF Next

\* The frame a move makes.
LEMMA NewFrame ==
  ASSUME NEW c \in Nat, NEW section \in Sections, NEW n \in Nat
  PROVE  /\ [cmd |-> c, section |-> section, i |-> 0, n |-> n] \in Frames
         /\ [cmd |-> c, section |-> section, i |-> 0, n |-> n].cmd = c
         /\ [cmd |-> c, section |-> section, i |-> 0, n |-> n].section = section
BY DEF Frames

\* The frames stay those of the commands that are open.
LEMMA MovesFramed ==
  ASSUME PrinterTypeOK, IsProper, NEW t, Framed(chain, curr, frames, t), Moves
  PROVE  /\ \E u \in Nat : Framed(chain, curr', frames', u)
         /\ ~Included /\ ~Returned => Framed(chain, curr', frames', t)
         /\ Included => Framed(chain, curr', frames', t + 1)
         /\ Returned => Framed(chain, curr', frames', t - 1)
<1>1. /\ ProperChain(chain) /\ frames \in Seq(Frames) /\ curr \in Places(chain)
      /\ Len(chain) \in Nat
  BY InProper
<1>2. ASSUME Over  PROVE Framed(chain, curr', frames', t)
  BY <1>1, <1>2, FramedOver DEF Over
<1>3. ASSUME Included  PROVE Framed(chain, curr', frames', t + 1)
  <2>. DEFINE fr == [cmd |-> curr, section |-> "chain", i |-> 0, n |-> 0]
  <2>1. /\ curr \in 1..Len(chain) /\ chain[curr].kind = "template"
        /\ curr' = next_(chain, curr) /\ frames' = Append(frames, fr)
    BY <1>3 DEF Included
  <2>2. curr \in Nat /\ "chain" \in Sections /\ 0 \in Nat
    BY <1>1, <2>1 DEF Sections
  <2>3. fr \in Frames /\ fr.cmd = curr /\ fr.section = "chain"
    BY <2>2, NewFrame
  <2>. HIDE DEF fr
  <2>. QED  BY <1>1, <2>1, <2>3, FramedInclude
<1>4. ASSUME Returned  PROVE Framed(chain, curr', frames', t - 1)
  <2>1. /\ Len(frames) > 0 /\ frames[Len(frames)].section = "chain"
        /\ curr' = Nowhere /\ frames' = SubSeq(frames, 1, Len(frames) - 1)
    BY <1>4 DEF Returned, Top, Callers
  <2>. QED  BY <1>1, <2>1, FramedReturn
<1>5. ASSUME \E section \in Sections, n \in Nat : Entered(section, n)
      PROVE  Framed(chain, curr', frames', t)
  <2>1. PICK section \in Sections, n \in Nat : Entered(section, n)
    BY <1>5
  <2>. DEFINE fr == [cmd |-> curr, section |-> section, i |-> 0, n |-> n]
  <2>2. /\ curr \in 1..Len(chain) /\ chain[curr].kind \in Openers
        /\ Starts(chain, curr, section, curr') /\ frames' = Append(frames, fr)
    BY <2>1 DEF Entered
  <2>3. fr \in Frames /\ fr.cmd = curr /\ fr.section = section
    <3>1. curr \in Nat
      BY <1>1, <2>2
    <3>. QED  BY <3>1, NewFrame
  <2>. HIDE DEF fr
  <2>. QED  BY <1>1, <2>2, <2>3, FramedEnter
<1>6. ASSUME Passed  PROVE Framed(chain, curr', frames', t)
  <2>1. PICK e : EndOfCmd(chain, curr, e) /\ curr' = next_(chain, e)
    BY <1>6 DEF Passed
  <2>2. curr \in 1..Len(chain) /\ chain[curr].kind \in Openers /\ frames' = frames
    BY <1>6 DEF Passed
  <2>. QED  BY <1>1, <2>1, <2>2, FramedPass
<1>7. ASSUME Turned  PROVE Framed(chain, curr', frames', t)
  <2>. DEFINE c == Top.cmd
  <2>1. /\ curr \in 1..Len(chain) /\ Len(Nesting(chain)[curr]) > 0
        /\ c = Innermost(Nesting(chain)[curr]) /\ frames[Len(frames)].section = "body"
        /\ chain[c].kind \in {"for", "while"} /\ curr' = c + 1
        /\ frames' = [frames EXCEPT ![Len(frames)].i = @ + 1]
    BY <1>7 DEF Turned, InCmd, Top
  <2>2. Starts(chain, c, "body", c + 1)
    BY <2>1 DEF Starts
  <2>3. Len(frames) \in Nat /\ Len(frames) > 0 /\ FramesTyped(chain, frames)
    <3>1. Len(frames) = t + Len(Nesting(chain)[curr]) /\ t \in Nat /\ Len(Nesting(chain)[curr]) \in Nat
      BY <1>1, <2>1, HereAt DEF Framed
    <3>2. FramesTyped(chain, frames) /\ Len(frames) \in Nat
      BY TypedParts
    <3>. QED  BY <2>1, <3>1, <3>2
  <2>4. Len(frames') = Len(frames) /\ Alike(frames, frames', Len(frames))
    <3>1. /\ Len(frames') = Len(frames)
          /\ \A k \in 1..Len(frames) : k # Len(frames) => frames'[k] = frames[k]
          /\ frames'[Len(frames)] = [frames[Len(frames)] EXCEPT !.i = @ + 1]
      BY <2>1, <2>3, TurnTyped
    <3>2. frames[Len(frames)] \in Frames
      BY <1>1, <2>3
    <3>3. /\ frames'[Len(frames)].cmd = frames[Len(frames)].cmd
          /\ frames'[Len(frames)].section = frames[Len(frames)].section
      BY <3>1, <3>2 DEF Frames
    <3>. QED  BY <3>1, <3>3 DEF Alike
  <2>. HIDE DEF c
  <2>5. Framed(chain, c + 1, frames', t)
    <3>1. "body" \in {"then", "body"}
      OBVIOUS
    <3>2. PICK gs : gs = frames'
      OBVIOUS
    <3>3. Len(gs) = Len(frames) /\ Alike(frames, gs, Len(frames))
      BY <2>4, <3>2
    <3>4. Framed(chain, c + 1, gs, t)
      BY <1>1, <2>1, <2>2, <3>1, <3>3, FramedTurn, ZenonT(60)
    <3>. QED  BY <3>2, <3>4
  <2>. QED  BY <2>1, <2>5
<1>8. ASSUME Left  PROVE Framed(chain, curr', frames', t)
  <2>. DEFINE c == Top.cmd
  <2>1. PICK e : EndOfCmd(chain, c, e) /\ curr' = next_(chain, e)
    BY <1>8 DEF Left
  <2>2. /\ curr \in 1..Len(chain) /\ Len(Nesting(chain)[curr]) > 0
        /\ c = Innermost(Nesting(chain)[curr]) /\ frames' = SubSeq(frames, 1, Len(frames) - 1)
    BY <1>8 DEF Left, InCmd, Callers
  <2>. HIDE DEF c
  <2>. QED  BY <1>1, <2>1, <2>2, FramedLeave
<1>9. ~Included /\ ~Returned => Framed(chain, curr', frames', t)
  BY <1>2, <1>5, <1>6, <1>7, <1>8 DEF Moves
<1>10. \E u \in Nat : Framed(chain, curr', frames', u)
  <2>1. \A u : Framed(chain, curr', frames', u) => u \in Nat
    BY DEF Framed
  <2>. QED  BY <1>3, <1>4, <1>9, <2>1
<1>. QED  BY <1>3, <1>4, <1>9, <1>10

\* The first template is to return, and no command is open.
LEMMA FramedInit ==
  ASSUME Init, IsProper, PrinterTypeOK
  PROVE  Framed(chain, curr, frames, 1)
<1>. DEFINE f == [cmd |-> 1, section |-> "chain", i |-> 0, n |-> 0]
<1>1. chain[1].kind = "template" /\ 1 \in 1..Len(chain) /\ curr = next_(chain, 1) /\ frames = <<f>>
  <2>1. Len(chain) > 0 /\ chain[1].kind = "template"
    BY ChainsAssumption DEF Init
  <2>2. Len(chain) \in Nat
    BY InProper
  <2>. QED  BY <2>1, <2>2 DEF Init
<1>2. Here(chain, 1) = Nesting(chain)[1] /\ StepAt(chain, Nesting(chain), 1)
      /\ Here(chain, curr) = Nesting(chain)[1 + 1]
  BY <1>1, InProper, HereAt, HereNext
<1>3. Len(Here(chain, curr)) = 0
  BY <1>1, <1>2 DEF StepAt
<1>4. Len(frames) = 1 /\ frames[1].section = "chain" /\ frames[1].cmd = 1
  BY <1>1
<1>5. \A k \in 1..1 : frames[k].section = "chain" /\ chain[frames[k].cmd].kind = "template"
  <2>1. \A k \in 1..1 : k = 1
    OBVIOUS
  <2>. QED  BY <1>1, <1>4, <2>1
<1>. QED  BY <1>3, <1>4, <1>5 DEF Framed

-----------------------------------------------------------------------------
(* The variables of the loops. *)

\* The frames of the commands of a kind.
OfKind(ch, fs, kind) == {k \in DOMAIN fs : ch[fs[k].cmd].kind = kind}

\* The variable of a frame's loop.
VarOf(ch, fs, k) == ch[fs[k].cmd].id

\* The body of a for has its variable and its info, and what belongs to no for
\* is not set.
Scoped(ch, fs, var, info) ==
  /\ \A k \in OfKind(ch, fs, "for") :
       fs[k].section = "body" => var[VarOf(ch, fs, k)] = fs[k].i /\ info[VarOf(ch, fs, k)] = k
  /\ \A x \in Identifiers :
       (\A k \in OfKind(ch, fs, "for") : VarOf(ch, fs, k) # x) => var[x] = Nil /\ info[x] = Nil

\* fs and gs differ in the frame m only.
SameBut(fs, gs, m) ==
  \A k : k # m => (k \in DOMAIN gs <=> k \in DOMAIN fs) /\ (k \in DOMAIN fs => gs[k] = fs[k])

\* A call, a return and a turn concern one frame.
LEMMA ButAppend ==
  ASSUME NEW T, NEW fs \in Seq(T), NEW fr \in T
  PROVE  /\ SameBut(fs, Append(fs, fr), Len(fs) + 1)
         /\ Append(fs, fr)[Len(fs) + 1] = fr
         /\ Len(fs) + 1 \in DOMAIN Append(fs, fr) /\ Len(fs) + 1 \notin DOMAIN fs
<1>. DEFINE gs == Append(fs, fr)
<1>1. /\ Len(fs) \in Nat /\ DOMAIN fs = 1..Len(fs) /\ DOMAIN gs = 1..(Len(fs) + 1)
      /\ gs[Len(fs) + 1] = fr /\ \A k \in 1..Len(fs) : gs[k] = fs[k]
  BY AppendProperties, LenProperties
<1>. HIDE DEF gs
<1>2. \A k : k # Len(fs) + 1 => (k \in 1..(Len(fs) + 1) <=> k \in 1..Len(fs))
  BY <1>1
<1>3. Len(fs) + 1 \in 1..(Len(fs) + 1) /\ Len(fs) + 1 \notin 1..Len(fs)
  BY <1>1
<1>4. SameBut(fs, gs, Len(fs) + 1)
  BY <1>1, <1>2 DEF SameBut
<1>. QED  BY <1>1, <1>3, <1>4 DEF gs

\* A return.
LEMMA ButFront ==
  ASSUME NEW T, NEW fs \in Seq(T), Len(fs) > 0
  PROVE  /\ SameBut(fs, SubSeq(fs, 1, Len(fs) - 1), Len(fs))
         /\ Len(fs) \in DOMAIN fs /\ Len(fs) \notin DOMAIN SubSeq(fs, 1, Len(fs) - 1)
<1>. DEFINE gs == SubSeq(fs, 1, Len(fs) - 1)
            n == Len(fs)
<1>1. gs \in Seq(T) /\ Shrinks(fs, gs)
  BY FrontShrinks
<1>2. /\ n \in Nat /\ n > 0 /\ DOMAIN fs = 1..n /\ DOMAIN gs = 1..(n - 1)
      /\ \A k \in 1..(n - 1) : gs[k] = fs[k]
  <2>1. n \in Nat /\ DOMAIN fs = 1..n /\ DOMAIN gs = 1..Len(gs)
    BY <1>1, LenProperties
  <2>. QED  BY <1>1, <2>1 DEF Shrinks
<1>. HIDE DEF gs, n
<1>3. \A k : k # n => (k \in 1..(n - 1) <=> k \in 1..n)
  BY <1>2
<1>4. n \in 1..n /\ n \notin 1..(n - 1)
  BY <1>2
<1>5. SameBut(fs, gs, n)
  BY <1>2, <1>3 DEF SameBut
<1>. QED  BY <1>2, <1>4, <1>5 DEF gs, n

\* A turn.
LEMMA ButTurn ==
  ASSUME NEW ch, NEW fs, FramesTyped(ch, fs), Len(fs) > 0,
         NEW gs, gs = [fs EXCEPT ![Len(fs)].i = @ + 1]
  PROVE  /\ SameBut(fs, gs, Len(fs))
         /\ Len(fs) \in DOMAIN fs /\ DOMAIN gs = DOMAIN fs
         /\ gs[Len(fs)].cmd = fs[Len(fs)].cmd
         /\ gs[Len(fs)].section = fs[Len(fs)].section
         /\ gs[Len(fs)].i = fs[Len(fs)].i + 1
<1>. DEFINE n == Len(fs)
<1>1. /\ \A k \in 1..n : k # n => gs[k] = fs[k]
      /\ gs[n] = [fs[n] EXCEPT !.i = @ + 1]
  BY TurnTyped
<1>2. DOMAIN gs = DOMAIN fs
  OBVIOUS
<1>3. n \in Nat /\ DOMAIN fs = 1..n /\ n \in 1..n /\ fs[n] \in Frames
  BY DEF FramesTyped
<1>. HIDE DEF n
<1>4. gs[n].cmd = fs[n].cmd /\ gs[n].section = fs[n].section /\ gs[n].i = fs[n].i + 1
  BY <1>1, <1>3 DEF Frames
<1>5. SameBut(fs, gs, n)
  BY <1>1, <1>2, <1>3 DEF SameBut
<1>. QED  BY <1>2, <1>3, <1>4, <1>5 DEF n

\* The frame m is no for: the variables may stay.
LEMMA ScopedStays ==
  ASSUME NEW ch, NEW fs, NEW gs, NEW m, SameBut(fs, gs, m),
         NEW var, NEW info, Scoped(ch, fs, var, info),
         m \notin OfKind(ch, fs, "for"), m \notin OfKind(ch, gs, "for")
  PROVE  Scoped(ch, gs, var, info)
<1>1. \A k : k \in OfKind(ch, gs, "for") <=> k \in OfKind(ch, fs, "for")
  BY DEF SameBut, OfKind
<1>2. \A k \in OfKind(ch, fs, "for") : gs[k] = fs[k]
  BY DEF SameBut, OfKind
<1>3. \A k \in OfKind(ch, fs, "for") : VarOf(ch, gs, k) = VarOf(ch, fs, k)
  BY <1>2 DEF VarOf
<1>. QED  BY <1>1, <1>2, <1>3 DEF Scoped

\* No frame but m has the variable x.
OthersDiffer(ch, fs, m, x) ==
  \A k \in OfKind(ch, fs, "for") : VarOf(ch, fs, k) \in Identifiers /\ (k # m => VarOf(ch, fs, k) # x)

\* Only x is set.
OnlySet(x, var, info, var2, info2) ==
  \A y \in Identifiers : y # x => var2[y] = var[y] /\ info2[y] = info[y]

\* The frame m is a for with the variable x, which no other frame has.
LEMMA ScopedTouch ==
  ASSUME NEW ch, NEW fs, NEW gs, NEW m, SameBut(fs, gs, m), NEW x,
         NEW var, NEW info, Scoped(ch, fs, var, info), NEW var2, NEW info2,
         OthersDiffer(ch, fs, m, x),
         m \in OfKind(ch, fs, "for") => VarOf(ch, fs, m) = x,
         m \in OfKind(ch, gs, "for") =>
           VarOf(ch, gs, m) = x /\ (gs[m].section = "body" => var2[x] = gs[m].i /\ info2[x] = m),
         m \notin OfKind(ch, gs, "for") => var2[x] = Nil /\ info2[x] = Nil,
         OnlySet(x, var, info, var2, info2)
  PROVE  Scoped(ch, gs, var2, info2)
<1>1. \A k : k # m => (k \in OfKind(ch, gs, "for") <=> k \in OfKind(ch, fs, "for"))
  BY DEF SameBut, OfKind
<1>2. \A k \in OfKind(ch, fs, "for") : k # m => gs[k] = fs[k] /\ VarOf(ch, gs, k) = VarOf(ch, fs, k)
  BY DEF SameBut, OfKind, VarOf
<1>3. ASSUME NEW k \in OfKind(ch, gs, "for"), gs[k].section = "body"
      PROVE  var2[VarOf(ch, gs, k)] = gs[k].i /\ info2[VarOf(ch, gs, k)] = k
  <2>1. CASE k = m
    BY <1>3, <2>1
  <2>2. CASE k # m
    <3>1. k \in OfKind(ch, fs, "for") /\ gs[k] = fs[k] /\ VarOf(ch, gs, k) = VarOf(ch, fs, k)
      BY <1>1, <1>2, <1>3, <2>2
    <3>2. VarOf(ch, fs, k) \in Identifiers /\ VarOf(ch, fs, k) # x
      BY <2>2, <3>1 DEF OthersDiffer
    <3>3. var[VarOf(ch, fs, k)] = fs[k].i /\ info[VarOf(ch, fs, k)] = k
      BY <1>3, <3>1 DEF Scoped
    <3>. QED  BY <3>1, <3>2, <3>3 DEF OnlySet
  <2>. QED  BY <2>1, <2>2
<1>4. ASSUME NEW y \in Identifiers, \A k \in OfKind(ch, gs, "for") : VarOf(ch, gs, k) # y
      PROVE  var2[y] = Nil /\ info2[y] = Nil
  <2>1. CASE y = x
    <3>1. m \notin OfKind(ch, gs, "for")
      BY <1>4, <2>1
    <3>. QED  BY <2>1, <3>1
  <2>2. CASE y # x
    <3>1. \A k \in OfKind(ch, fs, "for") : VarOf(ch, fs, k) # y
      BY <1>1, <1>2, <1>4, <2>2
    <3>2. var[y] = Nil /\ info[y] = Nil
      BY <3>1 DEF Scoped
    <3>. QED  BY <2>2, <3>2 DEF OnlySet
  <2>. QED  BY <2>1, <2>2
<1>. QED  BY <1>3, <1>4 DEF Scoped

\* The frames of the loops that are open have variables of their own: at a for,
\* none has its variable.
LEMMA FreshVariable ==
  ASSUME NEW ch, ProperChain(ch), NEW a \in 1..Len(ch), ch[a].kind = "for",
         NEW fs \in Seq(Frames), NEW t, Framed(ch, a, fs, t), NEW k \in OfKind(ch, fs, "for")
  PROVE  VarOf(ch, fs, k) # ch[a].id
<1>. DEFINE S == Nesting(ch)
            d == Len(S[a])
<1>1. /\ Here(ch, a) = S[a] /\ d \in Nat /\ a \in DOMAIN ch /\ a \in 1..(Len(ch) + 1)
      /\ S[a] \in Seq(1..Len(ch))
  BY HereAt, NestingType DEF ProperChain
<1>2. t \in Nat /\ Len(fs) = t + d /\ k \in 1..Len(fs) /\ ch[fs[k].cmd].kind = "for"
  BY <1>1 DEF Framed, OfKind
<1>3. k \notin 1..t
  BY <1>2 DEF Framed
<1>. DEFINE j == k - t
<1>. HIDE DEF d
<1>4. j \in 1..d /\ k = t + j
  BY <1>1, <1>2, <1>3
<1>. HIDE DEF j
<1>5. fs[k].cmd = S[a][j] /\ j \in DOMAIN S[a]
  BY <1>1, <1>4, LenProperties DEF Framed, d
<1>6. ch[S[a][j]].id # ch[a].id
  BY <1>1, <1>2, <1>5 DEF ProperChain, Proper, VariablesDiffer
<1>. QED  BY <1>5, <1>6 DEF VarOf

\* In a for, no other frame has the variable of the innermost.
LEMMA TopVariable ==
  ASSUME NEW ch, ProperChain(ch), NEW a \in 1..Len(ch), Len(Nesting(ch)[a]) > 0,
         NEW c, c = Innermost(Nesting(ch)[a]), ch[c].kind = "for",
         NEW fs \in Seq(Frames), NEW t, Framed(ch, a, fs, t),
         NEW k \in OfKind(ch, fs, "for"), k # Len(fs)
  PROVE  VarOf(ch, fs, k) # ch[c].id
<1>. DEFINE S == Nesting(ch)
            d == Len(S[a])
<1>1. /\ Here(ch, a) = S[a] /\ d \in Nat /\ a \in 1..(Len(ch) + 1) /\ Bracketed(ch, S)
      /\ Len(ch) \in Nat /\ DOMAIN ch = 1..Len(ch)
  BY HereAt
<1>2. IsOpen(ch, S, c, d, a)
  BY <1>1, InnermostOpen
<1>3. /\ c \in 1..Len(ch) /\ Len(S[c]) = d - 1 /\ \A j \in 1..(d - 1) : S[c][j] = S[a][j]
  BY <1>2 DEF IsOpen
<1>4. t \in Nat /\ Len(fs) = t + d /\ k \in 1..Len(fs) /\ ch[fs[k].cmd].kind = "for"
  BY <1>1 DEF Framed, OfKind
<1>5. k \notin 1..t
  BY <1>4 DEF Framed
<1>. DEFINE j == k - t
<1>6. j \in 1..(d - 1) /\ j \in 1..d /\ k = t + j
  <2>. HIDE DEF d
  <2>. QED  BY <1>1, <1>4, <1>5
<1>. HIDE DEF j
<1>7. fs[k].cmd = S[a][j]
  BY <1>1, <1>6 DEF Framed
<1>8. S[c] \in Seq(1..Len(ch)) /\ c \in DOMAIN ch
  <2>1. c \in 1..(Len(ch) + 1)
    BY <1>1, <1>3
  <2>. QED  BY <1>1, <1>3, <2>1, NestingType DEF ProperChain
<1>9. j \in DOMAIN S[c] /\ S[c][j] = S[a][j]
  <2>1. DOMAIN S[c] = 1..Len(S[c])
    BY <1>8, LenProperties
  <2>. QED  BY <1>3, <1>6, <2>1
<1>10. ch[S[c][j]].id # ch[c].id
  BY <1>4, <1>7, <1>8, <1>9, ZenonT(60) DEF ProperChain, Proper, VariablesDiffer
<1>. QED  BY <1>7, <1>9, <1>10 DEF VarOf

LoopsScoped == Scoped(chain, frames, loopVar, loopInfo)

\* What another command or a template begins leaves the loops their variables.
LEMMA ScopeCalls ==
  ASSUME PrinterTypeOK, IsProper, LoopsScoped, UNCHANGED scope, chain' = chain,
         curr \in 1..Len(chain), chain[curr].kind # "for",
         Included \/ \E section \in Sections, n \in Nat : Entered(section, n)
  PROVE  LoopsScoped'
<1>. DEFINE m == Len(frames) + 1
<1>1. PICK section \in Sections, n \in Nat :
        frames' = Append(frames, [cmd |-> curr, section |-> section, i |-> 0, n |-> n])
  <2>1. "chain" \in Sections /\ 0 \in Nat
    BY DEF Sections
  <2>. QED  BY <2>1 DEF Included, Entered
<1>. DEFINE fr == [cmd |-> curr, section |-> section, i |-> 0, n |-> n]
<1>2. frames \in Seq(Frames) /\ curr \in Nat
  BY InProper
<1>3. fr \in Frames /\ fr.cmd = curr
  BY <1>2, NewFrame
<1>. HIDE DEF fr
<1>4. SameBut(frames, frames', m) /\ frames'[m] = fr /\ m \notin DOMAIN frames
  BY <1>1, <1>2, <1>3, ButAppend DEF fr
<1>5. m \notin OfKind(chain, frames, "for") /\ m \notin OfKind(chain, frames', "for")
  BY <1>3, <1>4 DEF OfKind
<1>6. Scoped(chain, frames, loopVar, loopInfo) /\ loopVar' = loopVar /\ loopInfo' = loopInfo
  BY DEF LoopsScoped, scope
<1>7. Scoped(chain, frames', loopVar, loopInfo)
  BY <1>4, <1>5, <1>6, ScopedStays
<1>. QED  BY <1>6, <1>7 DEF LoopsScoped

\* What another command ends or does again, too.
LEMMA ScopeBacks ==
  ASSUME PrinterTypeOK, IsProper, LoopsScoped, UNCHANGED scope, chain' = chain,
         Len(frames) > 0, chain[Top.cmd].kind # "for",
         \/ frames' = Callers
         \/ frames' = [frames EXCEPT ![Len(frames)].i = @ + 1]
  PROVE  LoopsScoped'
<1>. DEFINE m == Len(frames)
<1>1. frames \in Seq(Frames) /\ FramesTyped(chain, frames)
  BY TypedParts, InProper
<1>2. CASE frames' = Callers
  <2>1. SameBut(frames, frames', m) /\ m \notin DOMAIN frames'
    BY <1>1, <1>2, ButFront DEF Callers
  <2>2. m \notin OfKind(chain, frames, "for") /\ m \notin OfKind(chain, frames', "for")
    BY <2>1 DEF OfKind, Top
  <2>3. Scoped(chain, frames, loopVar, loopInfo) /\ loopVar' = loopVar /\ loopInfo' = loopInfo
    BY DEF LoopsScoped, scope
  <2>4. Scoped(chain, frames', loopVar, loopInfo)
    BY <2>1, <2>2, <2>3, ScopedStays
  <2>. QED  BY <2>3, <2>4 DEF LoopsScoped
<1>3. CASE frames' = [frames EXCEPT ![Len(frames)].i = @ + 1]
  <2>1. SameBut(frames, frames', m) /\ frames'[m].cmd = frames[m].cmd
    BY <1>1, <1>3, ButTurn
  <2>2. m \notin OfKind(chain, frames, "for") /\ m \notin OfKind(chain, frames', "for")
    BY <2>1 DEF OfKind, Top
  <2>3. Scoped(chain, frames, loopVar, loopInfo) /\ loopVar' = loopVar /\ loopInfo' = loopInfo
    BY DEF LoopsScoped, scope
  <2>4. Scoped(chain, frames', loopVar, loopInfo)
    BY <2>1, <2>2, <2>3, ScopedStays
  <2>. QED  BY <2>3, <2>4 DEF LoopsScoped
<1>. QED  BY <1>2, <1>3

\* The variables of the frames are variables.
LEMMA VarTyped ==
  ASSUME PrinterTypeOK, NEW k \in OfKind(chain, frames, "for")
  PROVE  VarOf(chain, frames, k) \in Identifiers
<1>1. k \in DOMAIN frames /\ frames[k].cmd \in DOMAIN chain /\ chain \in Seq(Nodes)
  BY TypedParts DEF OfKind
<1>2. chain[frames[k].cmd] \in Nodes
  BY <1>1
<1>. QED  BY <1>2 DEF VarOf, Nodes

\* A for that is begun, or passed over.
LEMMA ScopeFor ==
  ASSUME PrinterTypeOK, IsProper, LoopsScoped, chain' = chain,
         NEW t, Framed(chain, curr, frames, t), NEW n \in 0..MaxItems, RenderFor(n)
  PROVE  LoopsScoped'
<1>. DEFINE x == chain[curr].id
            m == Len(frames) + 1
<1>1. /\ curr \in 1..Len(chain) /\ chain[curr].kind = "for"
      /\ \/ Entered("body", n) /\ SetItem(x, 0, m)
         \/ Entered("empty", 0) /\ loopInfo' = [loopInfo EXCEPT ![x] = m] /\ UNCHANGED loopVar
         \/ Passed /\ ForgetItem(x)
  BY ForMoves
<1>2. frames \in Seq(Frames) /\ curr \in Nat /\ ProperChain(chain) /\ DOMAIN chain = 1..Len(chain)
      /\ chain \in Seq(Nodes) /\ Len(frames) \in Nat
  <2>1. frames \in Seq(Frames) /\ ProperChain(chain) /\ DOMAIN chain = 1..Len(chain)
        /\ chain \in Seq(Nodes)
    BY InProper
  <2>. QED  BY <1>1, <2>1, TypedParts
<1>3. OthersDiffer(chain, frames, m, x)
  BY <1>1, <1>2, VarTyped, FreshVariable DEF OthersDiffer
<1>4. x \in Identifiers
  <2>1. chain[curr] \in Nodes
    BY <1>1, <1>2
  <2>. QED  BY <2>1 DEF Nodes
<1>5. loopVar \in [Identifiers -> Nat \cup {Nil}] /\ loopInfo \in [Identifiers -> Nat \cup {Nil}]
  BY DEF PrinterTypeOK
<1>6. Scoped(chain, frames, loopVar, loopInfo)
  BY DEF LoopsScoped
<1>7. m \notin DOMAIN frames
  BY <1>2
<1>8. m \notin OfKind(chain, frames, "for")
  BY <1>7 DEF OfKind
<1>. HIDE DEF x, m
<1>9. ASSUME NEW section \in Sections, NEW r \in Nat, Entered(section, r)
      PROVE  /\ SameBut(frames, frames', m) /\ frames'[m].cmd = curr /\ frames'[m].section = section
             /\ frames'[m].i = 0 /\ VarOf(chain, frames', m) = x
  <2>. DEFINE fr == [cmd |-> curr, section |-> section, i |-> 0, n |-> r]
  <2>1. frames' = Append(frames, fr)
    BY <1>9 DEF Entered
  <2>2. fr \in Frames /\ fr.cmd = curr /\ fr.section = section /\ fr.i = 0
    BY <1>2, NewFrame
  <2>. HIDE DEF fr
  <2>3. SameBut(frames, frames', m) /\ frames'[m] = fr
    BY <1>2, <2>1, <2>2, ButAppend DEF m
  <2>. QED  BY <2>2, <2>3 DEF VarOf, x
<1>10. CASE Entered("body", n) /\ SetItem(x, 0, m)
  <2>1. "body" \in Sections /\ n \in Nat
    BY PrinterBounds DEF Sections
  <2>2. /\ SameBut(frames, frames', m) /\ frames'[m].i = 0 /\ VarOf(chain, frames', m) = x
    BY <1>9, <1>10, <2>1
  <2>3. loopVar'[x] = 0 /\ loopInfo'[x] = m
        /\ OnlySet(x, loopVar, loopInfo, loopVar', loopInfo')
    BY <1>4, <1>5, <1>10 DEF SetItem, OnlySet
  <2>4. m \in OfKind(chain, frames', "for")
    <3>1. frames'[m].cmd = curr
      BY <1>9, <1>10, <2>1
    <3>2. m \in DOMAIN frames'
      <4>1. frames' = Append(frames, [cmd |-> curr, section |-> "body", i |-> 0, n |-> n])
        BY <1>10 DEF Entered
      <4>2. [cmd |-> curr, section |-> "body", i |-> 0, n |-> n] \in Frames
        BY <1>2, <2>1, NewFrame
      <4>. QED  BY <1>2, <4>1, <4>2, ButAppend DEF m
    <3>. QED  BY <1>1, <3>1, <3>2 DEF OfKind
  <2>5. Scoped(chain, frames', loopVar', loopInfo')
    BY <1>3, <1>6, <1>8, <2>2, <2>3, <2>4, ScopedTouch
  <2>. QED  BY <2>5 DEF LoopsScoped
<1>11. CASE Entered("empty", 0) /\ loopInfo' = [loopInfo EXCEPT ![x] = m] /\ UNCHANGED loopVar
  <2>1. "empty" \in Sections /\ 0 \in Nat
    BY DEF Sections
  <2>2. SameBut(frames, frames', m) /\ frames'[m].section = "empty" /\ VarOf(chain, frames', m) = x
    BY <1>9, <1>11, <2>1
  <2>3. OnlySet(x, loopVar, loopInfo, loopVar', loopInfo')
    BY <1>4, <1>5, <1>11 DEF OnlySet
  <2>4. m \in OfKind(chain, frames', "for")
    <3>1. frames'[m].cmd = curr
      BY <1>9, <1>11, <2>1
    <3>2. m \in DOMAIN frames'
      <4>1. frames' = Append(frames, [cmd |-> curr, section |-> "empty", i |-> 0, n |-> 0])
        BY <1>11 DEF Entered
      <4>2. [cmd |-> curr, section |-> "empty", i |-> 0, n |-> 0] \in Frames
        BY <1>2, <2>1, NewFrame
      <4>. QED  BY <1>2, <4>1, <4>2, ButAppend DEF m
    <3>. QED  BY <1>1, <3>1, <3>2 DEF OfKind
  <2>5. frames'[m].section # "body"
    BY <2>2
  <2>6. Scoped(chain, frames', loopVar', loopInfo')
    BY <1>3, <1>6, <1>8, <2>2, <2>3, <2>4, <2>5, ScopedTouch
  <2>. QED  BY <2>6 DEF LoopsScoped
<1>12. CASE Passed /\ ForgetItem(x)
  <2>1. SameBut(frames, frames', m) /\ m \notin OfKind(chain, frames', "for")
    BY <1>8, <1>12 DEF Passed, SameBut
  <2>2. loopVar'[x] = Nil /\ loopInfo'[x] = Nil
        /\ OnlySet(x, loopVar, loopInfo, loopVar', loopInfo')
    BY <1>4, <1>5, <1>12 DEF ForgetItem, OnlySet
  <2>3. Scoped(chain, frames', loopVar', loopInfo')
    BY <1>3, <1>6, <1>8, <2>1, <2>2, ScopedTouch
  <2>. QED  BY <2>3 DEF LoopsScoped
<1>. QED  BY <1>1, <1>10, <1>11, <1>12 DEF x, m

\* A for that goes on to the next element, or ends.
LEMMA ScopeForBack ==
  ASSUME PrinterTypeOK, IsProper, LoopsScoped, chain' = chain,
         NEW t, Framed(chain, curr, frames, t), ForTurns \/ ForReturns \/ ElseForReturns
  PROVE  LoopsScoped'
<1>. DEFINE x == chain[Top.cmd].id
            m == Len(frames)
<1>1. PICK section : Back("for", section) /\ section # "chain"
  BY DEF ForTurns, ForReturns, ElseForReturns
<1>2. InCmd /\ chain[Top.cmd].kind = "for"
  BY <1>1, StopsInside
<1>3. /\ m > 0 /\ Top \in Frames /\ chain[Top.cmd] \in Nodes
  BY <1>1, BackInChain
<1>4. frames \in Seq(Frames) /\ FramesTyped(chain, frames) /\ ProperChain(chain)
  BY InProper, TypedParts
<1>5. OthersDiffer(chain, frames, m, x)
  BY <1>2, <1>4, VarTyped, TopVariable DEF InCmd, OthersDiffer
<1>6. VarOf(chain, frames, m) = x /\ x \in Identifiers
  BY <1>3 DEF VarOf, Top, Nodes
<1>7. loopVar \in [Identifiers -> Nat \cup {Nil}] /\ loopInfo \in [Identifiers -> Nat \cup {Nil}]
  BY DEF PrinterTypeOK
<1>8. Scoped(chain, frames, loopVar, loopInfo)
  BY DEF LoopsScoped
<1>9. CASE ForTurns
  <2>1. /\ frames' = [frames EXCEPT ![m].i = @ + 1] /\ loopInfo' = loopInfo
        /\ loopVar' = [loopVar EXCEPT ![x] = Top.i + 1] /\ Top.section = "body"
    BY <1>9 DEF ForTurns, Back
  <2>2. /\ SameBut(frames, frames', m) /\ frames'[m].cmd = frames[m].cmd
        /\ frames'[m].i = frames[m].i + 1 /\ m \in DOMAIN frames
    BY <1>3, <1>4, <2>1, ButTurn
  <2>3. m \in OfKind(chain, frames, "for")
    BY <1>2, <2>2 DEF OfKind, Top
  <2>4. loopInfo[x] = m
    BY <1>6, <1>8, <2>1, <2>3 DEF Scoped, Top
  <2>5. VarOf(chain, frames', m) = x
    BY <1>6, <2>2 DEF VarOf
  <2>. HIDE DEF x, m
  <2>6. loopVar'[x] = frames'[m].i /\ loopInfo'[x] = m
        /\ OnlySet(x, loopVar, loopInfo, loopVar', loopInfo')
    BY <1>6, <1>7, <2>1, <2>2, <2>4 DEF Top, m, OnlySet
  <2>7. m \in OfKind(chain, frames', "for")
    <3>1. DOMAIN frames' = DOMAIN frames
      BY <1>3, <1>4, <2>1, ButTurn DEF m
    <3>. QED  BY <2>2, <2>3, <3>1 DEF OfKind
  <2>8. Scoped(chain, frames', loopVar', loopInfo')
    BY <1>5, <1>6, <1>8, <2>2, <2>5, <2>6, <2>7, ScopedTouch
  <2>. QED  BY <2>8 DEF LoopsScoped
<1>10. CASE ForReturns \/ ElseForReturns
  <2>1. frames' = SubSeq(frames, 1, m - 1) /\ ForgetItem(x)
    BY <1>10 DEF ForReturns, ElseForReturns, Return, Callers
  <2>2. SameBut(frames, frames', m) /\ m \notin DOMAIN frames'
    BY <1>3, <1>4, <2>1, ButFront
  <2>. HIDE DEF x, m
  <2>3. loopVar'[x] = Nil /\ loopInfo'[x] = Nil
        /\ OnlySet(x, loopVar, loopInfo, loopVar', loopInfo')
    BY <1>6, <1>7, <2>1 DEF ForgetItem, OnlySet
  <2>4. m \notin OfKind(chain, frames', "for")
    BY <2>2 DEF OfKind
  <2>5. Scoped(chain, frames', loopVar', loopInfo')
    BY <1>5, <1>6, <1>8, <2>2, <2>3, <2>4, ScopedTouch
  <2>. QED  BY <2>5 DEF LoopsScoped
<1>. QED  BY <1>9, <1>10

\* Every step leaves the loops their variables.
LEMMA ScopeStep ==
  ASSUME PrinterTypeOK, IsProper, LoopsScoped, chain' = chain,
         NEW t, Framed(chain, curr, frames, t), Next
  PROVE  LoopsScoped'
<1>1. CASE RenderText
  BY <1>1 DEF RenderText, LoopsScoped, scope
<1>2. CASE RenderTemplate
  <2>1. Included /\ UNCHANGED scope
    BY <1>2, TextMoves DEF RenderTemplate
  <2>. QED  BY <2>1, ScopeCalls DEF Included
<1>3. CASE TemplateReturns
  <2>1. Back("template", "chain") /\ frames' = Callers /\ UNCHANGED scope
    BY <1>3 DEF TemplateReturns, Return
  <2>. QED  BY <2>1, BackInChain, ScopeBacks
<1>4. CASE RenderStray \/ RenderEndBlock
  <2>1. \E kind \in Elses \cup Closers : At(kind)
    BY <1>4 DEF RenderStray, RenderEndBlock, Closers
  <2>. QED  BY <2>1, NoneStray
<1>5. CASE (\E flag \in BOOLEAN : RenderIf(flag)) \/ (\E flag \in BOOLEAN : RenderWhile(flag)) \/ RenderBlock
  <2>1. UNCHANGED scope
    BY <1>5 DEF RenderIf, RenderWhile, RenderBlock
  <2>2. curr \in 1..Len(chain) /\ chain[curr].kind # "for"
    <3>1. PICK kind \in {"if", "while", "block"} : At(kind)
      BY <1>5 DEF RenderIf, RenderWhile, RenderBlock
    <3>. QED  BY <3>1, AtProper DEF Kinds, Openers
  <2>3. (\E section \in Sections, n \in Nat : Entered(section, n)) \/ Passed
    <3>1. \/ Entered("then", 0) \/ Entered("else", 0) \/ Entered("body", 0) \/ Passed
      BY <1>5, IfMoves, WhileMoves, BlockMoves
    <3>2. {"then", "else", "body"} \subseteq Sections /\ 0 \in Nat
      BY DEF Sections
    <3>. QED  BY <3>1, <3>2
  <2>4. CASE Passed
    BY <2>1, <2>4 DEF Passed, LoopsScoped, scope
  <2>. QED  BY <2>1, <2>2, <2>3, <2>4, ScopeCalls
<1>6. CASE \E n \in 0..MaxItems : RenderFor(n)
  BY <1>6, ScopeFor
<1>7. CASE ForTurns \/ ForReturns \/ ElseForReturns
  BY <1>7, ScopeForBack
<1>8. CASE WhileTurns
  <2>1. /\ Back("while", "body") /\ UNCHANGED scope
        /\ frames' = [frames EXCEPT ![Len(frames)].i = @ + 1]
    BY <1>8 DEF WhileTurns
  <2>. QED  BY <2>1, BackInChain, ScopeBacks
<1>9. CASE ThenReturns \/ ElseReturns \/ WhileReturns \/ BlockReturns
  <2>1. PICK kind \in {"if", "while", "block"}, section \in {"then", "else", "body"} :
            Back(kind, section)
    BY <1>9 DEF ThenReturns, ElseReturns, WhileReturns, BlockReturns
  <2>2. frames' = Callers /\ UNCHANGED scope
    BY <1>9 DEF ThenReturns, ElseReturns, WhileReturns, BlockReturns, Return
  <2>. QED  BY <2>1, <2>2, BackInChain, ScopeBacks
<1>. QED  BY <1>1, <1>2, <1>3, <1>4, <1>5, <1>6, <1>7, <1>8, <1>9 DEF Next

\* Nothing is set first.
LEMMA ScopeInit ==
  ASSUME Init, PrinterTypeOK
  PROVE  LoopsScoped
<1>1. /\ frames = << [cmd |-> 1, section |-> "chain", i |-> 0, n |-> 0] >>
      /\ chain[1].kind = "template"
      /\ loopVar = [y \in Identifiers |-> Nil] /\ loopInfo = [y \in Identifiers |-> Nil]
  BY ChainsAssumption DEF Init
<1>2. \A k \in DOMAIN frames : frames[k].cmd = 1
  BY <1>1
<1>3. OfKind(chain, frames, "for") = {}
  BY <1>1, <1>2 DEF OfKind
<1>. QED  BY <1>1, <1>3 DEF LoopsScoped, Scoped

\* What the frames of a for are for the model.
LEMMA FramesOfKind ==
  ASSUME PrinterTypeOK, NEW kind \in Kinds
  PROVE  FramesOf(kind) = OfKind(chain, frames, kind)
<1>1. \A k \in DOMAIN frames : frames[k].cmd \in DOMAIN chain /\ frames[k].cmd # Nowhere
  <2>1. chain \in Seq(Nodes) /\ \A k \in DOMAIN frames : frames[k].cmd \in DOMAIN chain
    BY TypedParts
  <2>. QED  BY <2>1 DEF Nowhere
<1>. QED  BY <1>1 DEF FramesOf, OfKind, Kind, KindAt

\* So it is what the runs check.
LEMMA ScopeShows == PrinterTypeOK /\ LoopsScoped => LoopVisible /\ LoopVarsRemoved
<1>. SUFFICES ASSUME PrinterTypeOK, LoopsScoped PROVE LoopVisible /\ LoopVarsRemoved
  OBVIOUS
<1>1. FramesOf("for") = OfKind(chain, frames, "for")
  BY FramesOfKind DEF Kinds, Openers
<1>2. LoopVisible
  BY <1>1 DEF LoopVisible, LoopsScoped, Scoped, VarOf
<1>3. LoopVarsRemoved
  BY <1>1 DEF LoopVarsRemoved, LoopsScoped, Scoped
<1>. QED  BY <1>2, <1>3

-----------------------------------------------------------------------------
(* The file that the text comes from. *)

\* The greatest of some places.
LEMMA MaxIs ==
  ASSUME NEW T, T \subseteq Nat, NEW x \in T, \A y \in T : y <= x
  PROVE  Max(T) = x
<1>1. x \in Nat /\ \A y \in T : y \in Nat /\ x >= y
  OBVIOUS
<1>2. \E y \in T : \A z \in T : y >= z
  BY <1>1
<1>3. Max(T) \in T /\ \A z \in T : Max(T) >= z
  BY <1>2 DEF Max
<1>. DEFINE y == Max(T)
<1>4. y \in Nat /\ y >= x /\ x >= y
  BY <1>1, <1>3
<1>. HIDE DEF y
<1>5. y = x
  BY <1>1, <1>4
<1>. QED  BY <1>5 DEF y

\* There is one.
LEMMA MaxIn ==
  ASSUME NEW n \in Nat, NEW T, T \subseteq 1..n, T # {}
  PROVE  Max(T) \in T
<1>. DEFINE B == {j \in Nat : \A y \in T : y <= j}
            u == Min(B)
<1>1. n \in B /\ B \subseteq Nat
  OBVIOUS
<1>2. u \in B /\ \A j \in B : u <= j
  BY <1>1, LeastNatural
<1>. HIDE DEF u
<1>3. u \in Nat /\ \A y \in T : y <= u /\ y \in Nat /\ 1 <= y
  BY <1>2
<1>4. u \in T
  <2>. SUFFICES ASSUME u \notin T PROVE FALSE
    OBVIOUS
  <2>1. u > 0
    <3>1. PICK y : y \in T
      OBVIOUS
    <3>. QED  BY <1>3, <3>1
  <2>2. \A y \in T : y <= u - 1
    BY <1>3
  <2>3. u - 1 \in B
    BY <1>3, <2>1, <2>2
  <2>. QED  BY <1>2, <1>3, <2>3
<1>. QED  BY <1>3, <1>4, MaxIs

BlocksIn(ch, s) == {i \in DOMAIN s : ch[s[i]].kind = "block"}
FilesBefore(ch, p) == {q \in 1..(p - 1) : ch[q].kind = "template"}

NoBlockAbove(ch, s, m) == \A i \in (m + 1)..Len(s) : ch[s[i]].kind # "block"
NoFileIn(ch, lo, hi) == \A r \in lo..(hi - 1) : ch[r].kind # "template"

\* The file is that of the innermost block.
LEMMA SourceInBlock ==
  ASSUME NEW ch, NEW S, NEW p, BlocksIn(ch, S[p]) # {}, NEW x, x = Max(BlocksIn(ch, S[p]))
  PROVE  Source(ch, S, p) = ch[S[p][x]].file
BY DEF Source, BlocksIn

\* In no block it is that of the last template.
LEMMA SourceOutside ==
  ASSUME NEW ch, NEW S, NEW p, BlocksIn(ch, S[p]) = {}, NEW x, x = Max(FilesBefore(ch, p))
  PROVE  Source(ch, S, p) = ch[x].file
BY DEF Source, BlocksIn, FilesBefore

\* Places with the same blocks around them, and no template between them, are of
\* the same file.
LEMMA SameSource ==
  ASSUME NEW ch, ProperChain(ch), NEW a \in 1..Len(ch), NEW b \in 1..Len(ch),
         NEW S, S = Nesting(ch), NEW m, Common(S[a], S[b], m),
         NoBlockAbove(ch, S[a], m), NoBlockAbove(ch, S[b], m),
         (a <= b /\ NoFileIn(ch, a, b)) \/ (b <= a /\ NoFileIn(ch, b, a))
  PROVE  Source(ch, S, b) = Source(ch, S, a)
<1>1. /\ Len(S[a]) \in Nat /\ Len(S[b]) \in Nat /\ Len(ch) \in Nat
      /\ DOMAIN S[a] = 1..Len(S[a]) /\ DOMAIN S[b] = 1..Len(S[b])
  <2>1. a \in 1..(Len(ch) + 1) /\ b \in 1..(Len(ch) + 1) /\ ch \in Seq(Nodes) /\ Len(ch) \in Nat
    BY HereAt
  <2>2. S[a] \in Seq(1..Len(ch)) /\ S[b] \in Seq(1..Len(ch))
    BY <2>1, NestingType
  <2>. QED  BY <2>1, <2>2, LenProperties
<1>2. m \in Nat /\ m <= Len(S[a]) /\ m <= Len(S[b]) /\ \A j \in 1..m : S[b][j] = S[a][j]
  BY DEF Common
<1>3. ASSUME NEW s, Len(s) \in Nat, DOMAIN s = 1..Len(s), m <= Len(s), NoBlockAbove(ch, s, m)
      PROVE  BlocksIn(ch, s) = {j \in 1..m : ch[s[j]].kind = "block"}
  <2>1. ASSUME NEW i \in BlocksIn(ch, s)  PROVE i \in 1..m /\ ch[s[i]].kind = "block"
    <3>1. i \in 1..Len(s) /\ ch[s[i]].kind = "block"
      BY <1>3 DEF BlocksIn
    <3>2. i \notin (m + 1)..Len(s)
      BY <1>3, <3>1 DEF NoBlockAbove
    <3>. QED  BY <1>2, <1>3, <3>1, <3>2
  <2>2. ASSUME NEW i \in 1..m, ch[s[i]].kind = "block"  PROVE i \in BlocksIn(ch, s)
    <3>1. i \in 1..Len(s)
      BY <1>2, <1>3
    <3>. QED  BY <1>3, <2>2, <3>1 DEF BlocksIn
  <2>. QED  BY <2>1, <2>2
<1>4. BlocksIn(ch, S[a]) = {j \in 1..m : ch[S[a][j]].kind = "block"}
  BY <1>1, <1>2, <1>3
<1>5. BlocksIn(ch, S[b]) = {j \in 1..m : ch[S[b][j]].kind = "block"}
  BY <1>1, <1>2, <1>3
<1>6. BlocksIn(ch, S[b]) = BlocksIn(ch, S[a])
  BY <1>2, <1>4, <1>5
<1>7. CASE BlocksIn(ch, S[a]) # {}
  <2>0. PICK x : x = Max(BlocksIn(ch, S[a]))
    OBVIOUS
  <2>1. x \in BlocksIn(ch, S[a])
    <3>1. BlocksIn(ch, S[a]) \subseteq 1..m
      BY <1>4
    <3>. QED  BY <1>2, <1>7, <2>0, <3>1, MaxIn
  <2>2. S[b][x] = S[a][x]
    BY <1>2, <1>4, <2>1
  <2>3. Source(ch, S, a) = ch[S[a][x]].file
    BY <1>7, <2>0, SMTT(40) DEF Source, BlocksIn
  <2>4. Source(ch, S, b) = ch[S[b][x]].file
    BY <1>6, <1>7, <2>0 DEF Source, BlocksIn
  <2>. QED  BY <2>2, <2>3, <2>4
<1>8. CASE BlocksIn(ch, S[a]) = {}
  <2>1. FilesBefore(ch, a) = FilesBefore(ch, b)
    <3>1. ASSUME NEW lo \in 1..Len(ch), NEW hi \in 1..Len(ch), lo <= hi, NoFileIn(ch, lo, hi)
          PROVE  FilesBefore(ch, lo) = FilesBefore(ch, hi)
      <4>1. ASSUME NEW q \in FilesBefore(ch, lo)  PROVE q \in FilesBefore(ch, hi)
        BY <1>1, <3>1 DEF FilesBefore
      <4>2. ASSUME NEW q \in FilesBefore(ch, hi)  PROVE q \in FilesBefore(ch, lo)
        <5>1. q \in 1..(hi - 1) /\ ch[q].kind = "template"
          BY DEF FilesBefore
        <5>2. q \notin lo..(hi - 1)
          BY <3>1, <5>1 DEF NoFileIn
        <5>3. q \in 1..(lo - 1)
          BY <1>1, <5>1, <5>2
        <5>. QED  BY <5>1, <5>3 DEF FilesBefore
      <4>. QED  BY <4>1, <4>2
    <3>. QED  BY <3>1
  <2>. QED  BY <1>6, <1>8, <2>1, SourceOutside
<1>. QED  BY <1>7, <1>8

\* Inside of a command there is no template.
LEMMA NoFileInside ==
  ASSUME NEW ch, ProperChain(ch), NEW lo \in Nat, lo > 0, NEW hi \in Nat, hi <= Len(ch) + 1,
         \A r \in lo..(hi - 1) : Len(Nesting(ch)[r]) > 0
  PROVE  NoFileIn(ch, lo, hi)
<1>1. ASSUME NEW r \in lo..(hi - 1)  PROVE ch[r].kind # "template"
  <2>1. r \in 1..Len(ch)
    BY DEF ProperChain
  <2>. QED  BY <2>1, HereAt DEF StepAt
<1>. QED  BY <1>1 DEF NoFileIn

\* The object behind a text is of the same file.
LEMMA SourceOver ==
  ASSUME NEW ch, ProperChain(ch), NEW a \in 1..Len(ch), ch[a].kind = "text",
         NEW b, b = next_(ch, a), b # Nowhere
  PROVE  Source(ch, Nesting(ch), b) = Source(ch, Nesting(ch), a)
<1>. DEFINE S == Nesting(ch)
<1>1. b = a + 1 /\ b \in 1..Len(ch) /\ a \in Nat /\ StepAt(ch, S, a) /\ Len(S[a]) \in Nat
  BY HereAt, HereNext
<1>2. S[b] = S[a]
  BY <1>1 DEF StepAt
<1>3. Common(S[a], S[b], Len(S[a])) /\ NoBlockAbove(ch, S[a], Len(S[a])) /\ NoBlockAbove(ch, S[b], Len(S[a]))
  BY <1>1, <1>2 DEF Common, NoBlockAbove
<1>4. NoFileIn(ch, a, b) /\ a <= b
  <2>1. \A r \in a..(b - 1) : r = a
    BY <1>1
  <2>. QED  BY <1>1, <2>1 DEF NoFileIn
<1>. HIDE DEF S
<1>. QED  BY <1>1, <1>3, <1>4, SameSource DEF S

\* So is the start of a section of a command that is no block.
LEMMA SourceEnter ==
  ASSUME NEW ch, ProperChain(ch), NEW a \in 1..Len(ch), ch[a].kind \in Openers \ {"block"},
         NEW section, NEW b, Starts(ch, a, section, b)
  PROVE  b \in 1..Len(ch) /\ Source(ch, Nesting(ch), b) = Source(ch, Nesting(ch), a)
<1>. DEFINE S == Nesting(ch)
            m == Len(S[a])
<1>1. m \in Nat /\ a \in Nat /\ Len(ch) \in Nat
  BY HereAt
<1>2. /\ b \in (a + 1)..Len(ch) /\ Len(S[b]) = m + 1 /\ Innermost(S[b]) = a
      /\ \A j \in 1..m : S[b][j] = S[a][j]
      /\ \A r \in (a + 1)..b : m + 1 <= Len(S[r])
  BY StartFacts, SMTT(40)
<1>3. b \in 1..Len(ch) /\ b \in Nat /\ a <= b
  BY <1>1, <1>2
<1>4. Common(S[a], S[b], m)
  BY <1>1, <1>2 DEF Common
<1>5. NoBlockAbove(ch, S[a], m)
  BY <1>1 DEF NoBlockAbove
<1>6. NoBlockAbove(ch, S[b], m)
  <2>1. S[b][m + 1] = a
    BY <1>2 DEF Innermost
  <2>2. \A i \in (m + 1)..Len(S[b]) : i = m + 1
    BY <1>1, <1>2
  <2>. QED  BY <2>1, <2>2 DEF NoBlockAbove
<1>7. NoFileIn(ch, a, b)
  <2>1. NoFileIn(ch, a + 1, b)
    <3>1. \A r \in (a + 1)..(b - 1) : r \in (a + 1)..b /\ r \in 1..Len(ch)
      BY <1>1, <1>2
    <3>2. \A r \in (a + 1)..(b - 1) : Len(S[r]) > 0
      <4>1. \A r \in (a + 1)..(b - 1) : Len(S[r]) \in Nat
        BY <3>1, HereAt
      <4>. QED  BY <1>1, <1>2, <3>1, <4>1
    <3>3. a + 1 \in Nat /\ a + 1 > 0 /\ b <= Len(ch) + 1
      BY <1>1, <1>3
    <3>. QED  BY <1>3, <3>2, <3>3, NoFileInside
  <2>2. \A r \in a..(b - 1) : r = a \/ r \in (a + 1)..(b - 1)
    BY <1>1, <1>3
  <2>. QED  BY <2>1, <2>2 DEF NoFileIn, Openers
<1>. HIDE DEF S, m
<1>8. Source(ch, S, b) = Source(ch, S, a)
  BY <1>3, <1>4, <1>5, <1>6, <1>7, SameSource DEF S
<1>. QED  BY <1>3, <1>8 DEF S

\* So is what is behind a command.
LEMMA SourcePass ==
  ASSUME NEW ch, ProperChain(ch), NEW a \in 1..Len(ch), ch[a].kind \in Openers,
         NEW e, EndOfCmd(ch, a, e), NEW b, b = next_(ch, e), b # Nowhere
  PROVE  Source(ch, Nesting(ch), b) = Source(ch, Nesting(ch), a)
<1>. DEFINE S == Nesting(ch)
            m == Len(S[a])
<1>1. m \in Nat /\ a \in Nat /\ Len(ch) \in Nat /\ Bracketed(ch, S)
  BY HereAt
<1>2. /\ e \in (a + 1)..Len(ch)
      /\ \A r \in (a + 1)..e : m + 1 <= Len(S[r])
      /\ Len(S[e + 1]) = m /\ \A j \in 1..m : S[e + 1][j] = S[a][j]
  <2>1. Ended(ch, S, a + 1, e)
    BY DEF EndOfCmd
  <2>. HIDE DEF S
  <2>. QED  BY <1>1, <2>1, EndFacts
<1>3. e \in 1..Len(ch) /\ e \in Nat /\ a <= e + 1
  BY <1>1, <1>2
<1>4. b = e + 1 /\ b \in 1..Len(ch)
  BY <1>3, HereNext
<1>5. Common(S[a], S[b], m) /\ NoBlockAbove(ch, S[a], m) /\ NoBlockAbove(ch, S[b], m)
  BY <1>1, <1>2, <1>4 DEF Common, NoBlockAbove
<1>6. NoFileIn(ch, a, b)
  <2>1. NoFileIn(ch, a + 1, b)
    <3>1. \A r \in (a + 1)..(b - 1) : r \in (a + 1)..e /\ r \in 1..Len(ch)
      BY <1>1, <1>2, <1>4
    <3>2. \A r \in (a + 1)..(b - 1) : Len(S[r]) > 0
      <4>1. \A r \in (a + 1)..(b - 1) : Len(S[r]) \in Nat
        BY <3>1, HereAt
      <4>. QED  BY <1>1, <1>2, <3>1, <4>1
    <3>3. a + 1 \in Nat /\ a + 1 > 0 /\ b <= Len(ch) + 1 /\ b \in Nat
      BY <1>1, <1>3, <1>4
    <3>. QED  BY <3>2, <3>3, NoFileInside
  <2>2. \A r \in a..(b - 1) : r = a \/ r \in (a + 1)..(b - 1)
    BY <1>1, <1>3, <1>4
  <2>. QED  BY <2>1, <2>2 DEF NoFileIn, Openers
<1>7. a <= b
  BY <1>3, <1>4
<1>. HIDE DEF S, m
<1>. QED  BY <1>4, <1>5, <1>6, <1>7, SameSource DEF S

\* So is the text of a command that is no block, all of it, and what is behind it.
LEMMA SourceInside ==
  ASSUME NEW ch, ProperChain(ch), NEW a \in 1..Len(ch), Len(Nesting(ch)[a]) > 0,
         NEW c, c = Innermost(Nesting(ch)[a]), ch[c].kind # "block"
  PROVE  c \in 1..Len(ch) /\ Source(ch, Nesting(ch), a) = Source(ch, Nesting(ch), c)
<1>. DEFINE S == Nesting(ch)
            d == Len(S[a])
            m == Len(S[c])
<1>1. /\ d \in Nat /\ a \in Nat /\ Len(ch) \in Nat /\ Bracketed(ch, S) /\ a \in 1..(Len(ch) + 1)
  BY HereAt
<1>2. c \in 1..Len(ch) /\ ch[c].kind \in Openers /\ IsOpen(ch, S, c, d, a)
  BY <1>1, InnermostOpen
<1>3. /\ c \in 1..(a - 1) /\ m = d - 1 /\ \A j \in 1..m : S[a][j] = S[c][j]
      /\ \A r \in (c + 1)..a : d <= Len(S[r])
  BY <1>2 DEF IsOpen
<1>4. d = m + 1 /\ m \in Nat /\ c \in Nat /\ c <= a
  <2>. HIDE DEF d, m
  <2>1. d > 0
    BY DEF d
  <2>. QED  BY <1>1, <1>2, <1>3, <2>1
<1>5. Common(S[c], S[a], m)
  BY <1>1, <1>3, <1>4 DEF Common
<1>6. NoBlockAbove(ch, S[c], m)
  BY <1>4 DEF NoBlockAbove
<1>7. NoBlockAbove(ch, S[a], m)
  <2>1. S[a][m + 1] = c
    BY <1>4 DEF Innermost
  <2>2. \A i \in (m + 1)..Len(S[a]) : i = m + 1
    BY <1>1, <1>4
  <2>. QED  BY <2>1, <2>2 DEF NoBlockAbove
<1>8. NoFileIn(ch, c, a)
  <2>1. NoFileIn(ch, c + 1, a)
    <3>1. \A r \in (c + 1)..(a - 1) : r \in (c + 1)..a /\ r \in 1..Len(ch)
      BY <1>1, <1>4
    <3>2. \A r \in (c + 1)..(a - 1) : Len(S[r]) > 0
      <4>1. \A r \in (c + 1)..(a - 1) : Len(S[r]) \in Nat
        BY <3>1, HereAt
      <4>2. \A r \in (c + 1)..(a - 1) : d <= Len(S[r])
        BY <1>3, <3>1
      <4>. HIDE DEF S, m
      <4>. QED  BY <1>1, <1>4, <4>1, <4>2
    <3>3. c + 1 \in Nat /\ c + 1 > 0 /\ a <= Len(ch) + 1
      BY <1>1, <1>4
    <3>. QED  BY <1>1, <3>2, <3>3, NoFileInside
  <2>2. \A r \in c..(a - 1) : r = c \/ r \in (c + 1)..(a - 1)
    BY <1>1, <1>4
  <2>. QED  BY <1>2, <2>1, <2>2 DEF NoFileIn, Openers
<1>. HIDE DEF S, m, d
<1>9. Source(ch, S, a) = Source(ch, S, c)
  BY <1>2, <1>4, <1>5, <1>6, <1>7, <1>8, SameSource DEF S
<1>. QED  BY <1>2, <1>9 DEF S

\* Behind a template the file is the template's.
LEMMA SourceIncluded ==
  ASSUME NEW ch, ProperChain(ch), NEW a \in 1..Len(ch), ch[a].kind = "template",
         NEW b, b = next_(ch, a), b # Nowhere
  PROVE  Source(ch, Nesting(ch), b) = ch[a].file
<1>. DEFINE S == Nesting(ch)
<1>1. b = a + 1 /\ b \in 1..Len(ch) /\ a \in Nat /\ StepAt(ch, S, a) /\ ch \in Seq(Nodes)
      /\ Len(ch) \in Nat
  BY HereAt, HereNext
<1>2. Len(S[b]) = 0
  BY <1>1 DEF StepAt
<1>3. BlocksIn(ch, S[b]) = {}
  <2>1. b \in 1..(Len(ch) + 1)
    BY <1>1
  <2>2. DOMAIN S[b] = 1..Len(S[b])
    BY <1>1, <2>1, NestingType, LenProperties
  <2>3. DOMAIN S[b] = {}
    BY <1>2, <2>2
  <2>. QED  BY <2>3 DEF BlocksIn
<1>4. Max(FilesBefore(ch, b)) = a
  <2>1. a \in FilesBefore(ch, b) /\ FilesBefore(ch, b) \subseteq Nat
    BY <1>1 DEF FilesBefore
  <2>2. \A y \in FilesBefore(ch, b) : y <= a
    BY <1>1 DEF FilesBefore
  <2>. QED  BY <2>1, <2>2, MaxIs
<1>. QED  BY <1>3, <1>4, SourceOutside

\* In a block it is the block's.
LEMMA SourceBlock ==
  ASSUME NEW ch, ProperChain(ch), NEW a \in 1..Len(ch), ch[a].kind = "block",
         NEW b, b = a + 1
  PROVE  Source(ch, Nesting(ch), b) = ch[a].file
<1>. DEFINE S == Nesting(ch)
            m == Len(S[a])
<1>1. /\ Bracketed(ch, S) /\ ch \in Seq(Nodes) /\ Len(ch) \in Nat /\ m \in Nat
      /\ b \in 1..Len(ch) /\ Len(S[b]) = m + 1 /\ Innermost(S[b]) = a
  <2>1. Bracketed(ch, S) /\ ch \in Seq(Nodes) /\ Len(ch) \in Nat /\ ch[a].kind \in Openers
    BY HereAt DEF Openers
  <2>. QED  BY <2>1, BodyStarts
<1>2. S[b][m + 1] = a
  BY <1>1 DEF Innermost
<1>3. DOMAIN S[b] = 1..(m + 1)
  <2>1. b \in 1..(Len(ch) + 1)
    BY <1>1
  <2>2. DOMAIN S[b] = 1..Len(S[b])
    BY <1>1, <2>1, NestingType, LenProperties
  <2>. QED  BY <1>1, <2>2
<1>4. Max(BlocksIn(ch, S[b])) = m + 1 /\ BlocksIn(ch, S[b]) # {}
  <2>1. m + 1 \in BlocksIn(ch, S[b])
    BY <1>1, <1>2, <1>3 DEF BlocksIn
  <2>2. BlocksIn(ch, S[b]) \subseteq 1..(m + 1)
    BY <1>3 DEF BlocksIn
  <2>. HIDE DEF m
  <2>3. BlocksIn(ch, S[b]) \subseteq Nat /\ \A y \in BlocksIn(ch, S[b]) : y <= m + 1
    BY <1>1, <2>2
  <2>. QED  BY <2>1, <2>3, MaxIs
<1>5. PICK x : x = Max(BlocksIn(ch, S[b]))
  OBVIOUS
<1>6. x = m + 1
  BY <1>4, <1>5
<1>7. Source(ch, S, b) = ch[S[b][x]].file
  <2>. HIDE DEF S, m
  <2>. QED  BY <1>4, <1>5, SourceInBlock
<1>. QED  BY <1>2, <1>6, <1>7

Pushed(stack) == IF stack = Nil THEN 0 ELSE Len(stack)

\* No more blocks are open than have pushed a file, and when it is as many __FILE__
\* is that of the place.
Filed(ch, at, fs, f, stack) ==
  /\ Cardinality(OfKind(ch, fs, "block")) <= Pushed(stack)
  /\ Cardinality(OfKind(ch, fs, "block")) = Pushed(stack) /\ at # Nowhere =>
       f = Source(ch, Nesting(ch), at)

FilesRight == Filed(chain, curr, frames, file, fileStack)

\* The frames of blocks can be counted.
LEMMA BlocksFinite ==
  ASSUME NEW ch, NEW fs \in Seq(Frames)
  PROVE  /\ IsFiniteSet(OfKind(ch, fs, "block")) /\ Cardinality(OfKind(ch, fs, "block")) \in Nat
<1>1. Len(fs) \in Nat /\ DOMAIN fs = 1..Len(fs)
  OBVIOUS
<1>2. IsFiniteSet(1..Len(fs))
  BY <1>1, FS_Interval
<1>3. OfKind(ch, fs, "block") \subseteq 1..Len(fs)
  BY <1>1 DEF OfKind
<1>4. IsFiniteSet(OfKind(ch, fs, "block"))
  BY <1>2, <1>3, FS_Subset
<1>. QED  BY <1>4, FS_CardinalityType

\* The frame of another command does not count.
LEMMA BlocksStay ==
  ASSUME NEW ch, NEW fs, NEW gs, NEW m, SameBut(fs, gs, m),
         m \notin OfKind(ch, fs, "block"), m \notin OfKind(ch, gs, "block")
  PROVE  OfKind(ch, gs, "block") = OfKind(ch, fs, "block")
<1>1. \A k : k \in OfKind(ch, gs, "block") <=> k \in OfKind(ch, fs, "block")
  BY DEF SameBut, OfKind
<1>. QED  BY <1>1

\* The frame of a block does.
LEMMA BlocksGrow ==
  ASSUME NEW ch, NEW fs \in Seq(Frames), NEW gs, NEW m, SameBut(fs, gs, m) \/ SameBut(gs, fs, m),
         m \notin OfKind(ch, fs, "block"), m \in OfKind(ch, gs, "block")
  PROVE  Cardinality(OfKind(ch, gs, "block")) = Cardinality(OfKind(ch, fs, "block")) + 1
<1>1. \A k : k \in OfKind(ch, gs, "block") <=> k \in OfKind(ch, fs, "block") \/ k = m
  BY DEF SameBut, OfKind
<1>2. OfKind(ch, gs, "block") = OfKind(ch, fs, "block") \cup {m}
  BY <1>1
<1>. QED  BY <1>2, BlocksFinite, FS_AddElement

\* The file stays that of the place.
LEMMA FiledStays ==
  ASSUME NEW ch, NEW a, a # Nowhere, NEW b, NEW fs, NEW gs, NEW f, NEW stack,
         Filed(ch, a, fs, f, stack), OfKind(ch, gs, "block") = OfKind(ch, fs, "block"),
         b # Nowhere => Source(ch, Nesting(ch), b) = Source(ch, Nesting(ch), a)
  PROVE  Filed(ch, b, gs, f, stack)
BY DEF Filed

\* A command that is no block is begun.
LEMMA FilesCall ==
  ASSUME PrinterTypeOK, IsProper, FilesRight, chain' = chain, UNCHANGED naming,
         NEW section \in Sections, NEW n \in Nat, Entered(section, n), chain[curr].kind # "block"
  PROVE  FilesRight'
<1>. DEFINE m == Len(frames) + 1
            fr == [cmd |-> curr, section |-> section, i |-> 0, n |-> n]
<1>1. /\ curr \in 1..Len(chain) /\ chain[curr].kind \in Openers \ {"block"}
      /\ Starts(chain, curr, section, curr') /\ frames' = Append(frames, fr)
  BY DEF Entered
<1>2. frames \in Seq(Frames) /\ ProperChain(chain)
  BY InProper
<1>3. curr \in Nat /\ curr # Nowhere
  BY <1>1, <1>2 DEF Nowhere, ProperChain
<1>4. fr \in Frames /\ fr.cmd = curr
  BY <1>3, NewFrame
<1>. HIDE DEF fr
<1>5. SameBut(frames, frames', m) /\ frames'[m] = fr /\ m \notin DOMAIN frames
  BY <1>1, <1>2, <1>4, ButAppend
<1>6. m \notin OfKind(chain, frames, "block") /\ m \notin OfKind(chain, frames', "block")
  BY <1>1, <1>4, <1>5 DEF OfKind
<1>7. OfKind(chain, frames', "block") = OfKind(chain, frames, "block")
  BY <1>5, <1>6, BlocksStay
<1>8. Source(chain, Nesting(chain), curr') = Source(chain, Nesting(chain), curr)
  BY <1>1, <1>2, SourceEnter
<1>9. Filed(chain, curr, frames, file, fileStack) /\ file' = file /\ fileStack' = fileStack
  BY DEF FilesRight, naming
<1>10. Filed(chain, curr', frames', file, fileStack)
  BY <1>3, <1>7, <1>8, <1>9, FiledStays
<1>. QED  BY <1>9, <1>10 DEF FilesRight

\* It is passed over.
LEMMA FilesPass ==
  ASSUME PrinterTypeOK, IsProper, FilesRight, chain' = chain, UNCHANGED naming, Passed
  PROVE  FilesRight'
<1>1. curr \in 1..Len(chain) /\ chain[curr].kind \in Openers /\ frames' = frames
  BY DEF Passed
<1>2. ProperChain(chain)
  BY InProper
<1>3. PICK e : EndOfCmd(chain, curr, e) /\ curr' = next_(chain, e)
  BY DEF Passed
<1>4. curr # Nowhere
  BY <1>1, <1>2 DEF Nowhere, ProperChain
<1>5. curr' # Nowhere => Source(chain, Nesting(chain), curr') = Source(chain, Nesting(chain), curr)
  BY <1>1, <1>2, <1>3, SourcePass
<1>6. Filed(chain, curr, frames, file, fileStack) /\ file' = file /\ fileStack' = fileStack
  BY DEF FilesRight, naming
<1>7. Filed(chain, curr', frames', file, fileStack)
  BY <1>1, <1>4, <1>5, <1>6, FiledStays
<1>. QED  BY <1>6, <1>7 DEF FilesRight

\* It ends or goes on.
LEMMA FilesBack ==
  ASSUME PrinterTypeOK, IsProper, FilesRight, chain' = chain, UNCHANGED naming, Len(frames) > 0,
         Turned \/ Left, chain[Top.cmd].kind # "block"
  PROVE  FilesRight'
<1>. DEFINE m == Len(frames)
            c == Top.cmd
            S == Nesting(chain)
<1>1. /\ curr \in 1..Len(chain) /\ Len(S[curr]) > 0 /\ c = Innermost(S[curr])
      /\ c \in 1..Len(chain) /\ chain[c].kind \in Openers \ {"block"}
  BY DEF Turned, Left, InCmd
<1>2. frames \in Seq(Frames) /\ ProperChain(chain) /\ FramesTyped(chain, frames)
  BY InProper, TypedParts
<1>3. curr # Nowhere
  BY <1>1, <1>2 DEF Nowhere, ProperChain
<1>4. Source(chain, S, curr) = Source(chain, S, c)
  BY <1>1, <1>2, SourceInside
<1>5. Filed(chain, curr, frames, file, fileStack) /\ file' = file /\ fileStack' = fileStack
  BY DEF FilesRight, naming
<1>6. CASE Turned
  <2>1. curr' = c + 1 /\ frames' = [frames EXCEPT ![m].i = @ + 1]
    BY <1>6 DEF Turned
  <2>2. SameBut(frames, frames', m) /\ frames'[m].cmd = frames[m].cmd
    BY <1>2, <2>1, ButTurn
  <2>3. m \notin OfKind(chain, frames, "block") /\ m \notin OfKind(chain, frames', "block")
    BY <1>1, <2>2 DEF OfKind, Top
  <2>4. OfKind(chain, frames', "block") = OfKind(chain, frames, "block")
    BY <2>2, <2>3, BlocksStay
  <2>5. Starts(chain, c, "body", c + 1)
    BY <1>6 DEF Starts, Turned
  <2>6. Source(chain, S, curr') = Source(chain, S, c)
    <3>. HIDE DEF c
    <3>. QED  BY <1>1, <1>2, <2>1, <2>5, SourceEnter
  <2>7. Filed(chain, curr', frames', file, fileStack)
    BY <1>3, <1>4, <1>5, <2>4, <2>6, FiledStays
  <2>. QED  BY <1>5, <2>7 DEF FilesRight
<1>7. CASE Left
  <2>1. PICK e : EndOfCmd(chain, c, e) /\ curr' = next_(chain, e)
    BY <1>7 DEF Left
  <2>2. frames' = SubSeq(frames, 1, m - 1)
    BY <1>7 DEF Left, Callers
  <2>3. SameBut(frames, frames', m) /\ m \notin DOMAIN frames'
    BY <1>2, <2>2, ButFront
  <2>4. m \notin OfKind(chain, frames, "block") /\ m \notin OfKind(chain, frames', "block")
    BY <1>1, <2>3 DEF OfKind, Top
  <2>5. OfKind(chain, frames', "block") = OfKind(chain, frames, "block")
    BY <2>3, <2>4, BlocksStay
  <2>6. curr' # Nowhere => Source(chain, S, curr') = Source(chain, S, c)
    <3>. HIDE DEF c
    <3>. QED  BY <1>1, <1>2, <2>1, SourcePass
  <2>7. Filed(chain, curr', frames', file, fileStack)
    BY <1>3, <1>4, <1>5, <2>5, <2>6, FiledStays
  <2>. QED  BY <1>5, <2>7 DEF FilesRight
<1>. QED  BY <1>6, <1>7

\* A block is begun.
LEMMA FilesBlock ==
  ASSUME PrinterTypeOK, IsProper, FilesRight, chain' = chain, RenderBlock
  PROVE  FilesRight'
<1>. DEFINE m == Len(frames) + 1
            fr == [cmd |-> curr, section |-> "body", i |-> 0, n |-> 0]
<1>1. /\ curr \in 1..Len(chain) /\ chain[curr].kind = "block"
      /\ Starts(chain, curr, "body", curr') /\ frames' = Append(frames, fr)
  BY BlockMoves DEF Entered
<1>2. /\ file' = chain[curr].file
      /\ fileStack' = IF fileStack = Nil THEN <<file>> ELSE Append(fileStack, file)
  BY DEF RenderBlock
<1>3. frames \in Seq(Frames) /\ ProperChain(chain) /\ Len(chain) \in Nat
  BY InProper
<1>4. curr' = curr + 1 /\ curr \in Nat
  BY <1>1, <1>3 DEF Starts
<1>5. fr \in Frames /\ fr.cmd = curr
  <2>1. "body" \in Sections /\ 0 \in Nat
    BY DEF Sections
  <2>. QED  BY <1>4, <2>1, NewFrame
<1>. HIDE DEF fr
<1>6. SameBut(frames, frames', m) /\ frames'[m] = fr /\ m \notin DOMAIN frames /\ m \in DOMAIN frames'
  BY <1>1, <1>3, <1>5, ButAppend
<1>7. m \notin OfKind(chain, frames, "block") /\ m \in OfKind(chain, frames', "block")
  BY <1>1, <1>5, <1>6 DEF OfKind
<1>8. Cardinality(OfKind(chain, frames', "block")) = Cardinality(OfKind(chain, frames, "block")) + 1
  BY <1>3, <1>6, <1>7, BlocksGrow
<1>9. Pushed(fileStack') = Pushed(fileStack) + 1 /\ Pushed(fileStack) \in Nat
  <2>1. file \in Files /\ fileStack \in Seq(Files) \cup {Nil}
    BY TypedIs DEF NamingTyped
  <2>2. CASE fileStack = Nil
    <3>1. fileStack' = <<file>> /\ Len(<<file>>) = 1 /\ <<file>> # Nil
      <4>1. <<file>> \in Seq(Files)
        BY <2>1
      <4>. QED  BY <1>2, <2>2, <4>1, PrinterNil
    <3>. QED  BY <2>2, <3>1 DEF Pushed
  <2>3. CASE fileStack # Nil
    <3>1. /\ fileStack \in Seq(Files) /\ fileStack' = Append(fileStack, file)
          /\ Len(fileStack') = Len(fileStack) + 1 /\ Len(fileStack) \in Nat
      BY <1>2, <2>1, <2>3
    <3>2. fileStack' # Nil
      BY <2>1, <3>1, PrinterNil
    <3>. QED  BY <2>3, <3>1, <3>2 DEF Pushed
  <2>. QED  BY <2>2, <2>3
<1>10. Source(chain, Nesting(chain), curr') = chain[curr].file
  BY <1>1, <1>3, <1>4, SourceBlock
<1>11. Cardinality(OfKind(chain, frames, "block")) <= Pushed(fileStack)
       /\ Cardinality(OfKind(chain, frames, "block")) \in Nat
  BY <1>3, BlocksFinite DEF FilesRight, Filed
<1>12. Cardinality(OfKind(chain, frames', "block")) <= Pushed(fileStack')
  BY <1>8, <1>9, <1>11
<1>. QED  BY <1>2, <1>10, <1>12 DEF FilesRight, Filed

\* It ends: __FILE__ stays behind.
LEMMA FilesBlockBack ==
  ASSUME PrinterTypeOK, IsProper, FilesRight, chain' = chain, UNCHANGED naming, Len(frames) > 0,
         Left, chain[Top.cmd].kind = "block"
  PROVE  FilesRight'
<1>. DEFINE m == Len(frames)
<1>1. frames \in Seq(Frames) /\ frames' = SubSeq(frames, 1, m - 1)
  BY InProper DEF Left, Callers
<1>2. SameBut(frames, frames', m) /\ m \in DOMAIN frames /\ m \notin DOMAIN frames'
  BY <1>1, ButFront
<1>3. m \in OfKind(chain, frames, "block") /\ m \notin OfKind(chain, frames', "block")
  BY <1>2 DEF OfKind, Top
<1>4. frames' \in Seq(Frames)
  BY <1>1, FrontShrinks
<1>5. Cardinality(OfKind(chain, frames, "block")) = Cardinality(OfKind(chain, frames', "block")) + 1
  BY <1>2, <1>3, <1>4, BlocksGrow
<1>6. Cardinality(OfKind(chain, frames', "block")) \in Nat
  BY <1>4, BlocksFinite
<1>7. file' = file /\ fileStack' = fileStack
      /\ Cardinality(OfKind(chain, frames, "block")) <= Pushed(fileStack)
  BY DEF FilesRight, Filed, naming
<1>8. Pushed(fileStack) \in Nat
  <2>1. fileStack \in Seq(Files) \cup {Nil}
    BY TypedIs DEF NamingTyped
  <2>2. Len(fileStack) \in Nat \/ fileStack = Nil
    BY <2>1
  <2>. QED  BY <2>2 DEF Pushed
<1>9. /\ Cardinality(OfKind(chain, frames', "block")) <= Pushed(fileStack)
      /\ Cardinality(OfKind(chain, frames', "block")) # Pushed(fileStack)
  BY <1>5, <1>6, <1>7, <1>8
<1>. QED  BY <1>7, <1>9 DEF FilesRight, Filed

\* A text, and a template that is included or returns.
LEMMA FilesText ==
  ASSUME PrinterTypeOK, IsProper, FilesRight, chain' = chain,
         NEW t, Framed(chain, curr, frames, t),
         RenderText \/ RenderTemplate \/ TemplateReturns
  PROVE  FilesRight'
<1>1. ProperChain(chain) /\ frames \in Seq(Frames) /\ Len(chain) \in Nat
  BY InProper
<1>2. Filed(chain, curr, frames, file, fileStack)
  BY DEF FilesRight
<1>3. CASE RenderText
  <2>1. /\ curr \in 1..Len(chain) /\ chain[curr].kind = "text" /\ curr' = next_(chain, curr)
        /\ frames' = frames
    BY <1>3, TextMoves DEF Over
  <2>2. file' = file /\ fileStack' = fileStack
    BY <1>3 DEF RenderText, naming
  <2>3. curr # Nowhere
    BY <2>1 DEF Nowhere
  <2>4. curr' # Nowhere => Source(chain, Nesting(chain), curr') = Source(chain, Nesting(chain), curr)
    BY <1>1, <2>1, SourceOver
  <2>5. Filed(chain, curr', frames', file, fileStack)
    BY <1>2, <2>1, <2>3, <2>4, FiledStays
  <2>. QED  BY <2>2, <2>5 DEF FilesRight
<1>4. CASE RenderTemplate
  <2>. DEFINE m == Len(frames) + 1
              fr == [cmd |-> curr, section |-> "chain", i |-> 0, n |-> 0]
  <2>1. /\ curr \in 1..Len(chain) /\ chain[curr].kind = "template" /\ curr' = next_(chain, curr)
        /\ frames' = Append(frames, fr)
    BY <1>4, TextMoves DEF Included
  <2>2. file' = chain[curr].file /\ fileStack' = fileStack
    BY <1>4 DEF RenderTemplate
  <2>3. fr \in Frames /\ fr.cmd = curr
    <3>1. "chain" \in Sections /\ 0 \in Nat /\ curr \in Nat
      BY <1>1, <2>1 DEF Sections
    <3>. QED  BY <3>1, NewFrame
  <2>. HIDE DEF fr
  <2>4. SameBut(frames, frames', m) /\ frames'[m] = fr /\ m \notin DOMAIN frames
    BY <1>1, <2>1, <2>3, ButAppend
  <2>5. m \notin OfKind(chain, frames, "block") /\ m \notin OfKind(chain, frames', "block")
    BY <2>1, <2>3, <2>4 DEF OfKind
  <2>6. OfKind(chain, frames', "block") = OfKind(chain, frames, "block")
    BY <2>4, <2>5, BlocksStay
  <2>7. curr' # Nowhere => Source(chain, Nesting(chain), curr') = chain[curr].file
    BY <1>1, <2>1, SourceIncluded
  <2>8. Cardinality(OfKind(chain, frames', "block")) <= Pushed(fileStack')
    BY <1>2, <2>2, <2>6 DEF Filed
  <2>. QED  BY <2>2, <2>7, <2>8 DEF FilesRight, Filed
<1>5. CASE TemplateReturns
  <2>. DEFINE m == Len(frames)
  <2>1. Len(frames) > 0 /\ curr' = Nowhere /\ frames' = SubSeq(frames, 1, m - 1)
    BY <1>5, TextMoves DEF Returned, Callers
  <2>2. chain[Top.cmd].kind = "template" /\ file' = file /\ fileStack' = fileStack
    <3>1. Back("template", "chain") /\ UNCHANGED naming
      BY <1>5 DEF TemplateReturns
    <3>. QED  BY <3>1, BackInChain DEF naming
  <2>3. SameBut(frames, frames', m) /\ m \notin DOMAIN frames'
    BY <1>1, <2>1, ButFront
  <2>4. m \notin OfKind(chain, frames, "block") /\ m \notin OfKind(chain, frames', "block")
    BY <2>2, <2>3 DEF OfKind, Top
  <2>5. OfKind(chain, frames', "block") = OfKind(chain, frames, "block")
    BY <2>3, <2>4, BlocksStay
  <2>6. Cardinality(OfKind(chain, frames', "block")) <= Pushed(fileStack')
    BY <1>2, <2>2, <2>5 DEF Filed
  <2>. QED  BY <2>1, <2>6 DEF FilesRight, Filed
<1>. QED  BY <1>3, <1>4, <1>5

\* Every step keeps the file right.
LEMMA FilesStep ==
  ASSUME PrinterTypeOK, IsProper, FilesRight, chain' = chain,
         NEW t, Framed(chain, curr, frames, t), Next
  PROVE  FilesRight'
<1>1. CASE RenderText \/ RenderTemplate \/ TemplateReturns
  BY <1>1, FilesText
<1>2. CASE RenderStray \/ RenderEndBlock
  <2>1. \E kind \in Elses \cup Closers : At(kind)
    BY <1>2 DEF RenderStray, RenderEndBlock, Closers
  <2>. QED  BY <2>1, NoneStray
<1>3. CASE \/ \E flag \in BOOLEAN : RenderIf(flag)
           \/ \E n \in 0..MaxItems : RenderFor(n)
           \/ \E flag \in BOOLEAN : RenderWhile(flag)
  <2>1. UNCHANGED naming
    BY <1>3 DEF RenderIf, RenderFor, RenderWhile
  <2>2. chain[curr].kind # "block"
    <3>1. PICK kind \in {"if", "for", "while"} : At(kind)
      BY <1>3 DEF RenderIf, RenderFor, RenderWhile
    <3>. QED  BY <3>1, AtProper DEF Kinds, Openers
  <2>3. (\E section \in Sections, n \in Nat : Entered(section, n)) \/ Passed
    <3>1. \/ Entered("then", 0) \/ Entered("else", 0) \/ Entered("body", 0) \/ Entered("empty", 0)
          \/ (\E n \in 0..MaxItems : Entered("body", n)) \/ Passed
      BY <1>3, IfMoves, WhileMoves, ForMoves
    <3>2. {"then", "else", "body", "empty"} \subseteq Sections /\ 0 \in Nat /\ 0..MaxItems \subseteq Nat
      BY PrinterBounds DEF Sections
    <3>. QED  BY <3>1, <3>2
  <2>. QED  BY <2>1, <2>2, <2>3, FilesCall, FilesPass
<1>4. CASE RenderBlock
  BY <1>4, FilesBlock
<1>5. CASE ForTurns \/ WhileTurns
  <2>1. Turned /\ UNCHANGED naming
    BY <1>5, TurnsMove DEF ForTurns, WhileTurns
  <2>2. PICK k \in {"for", "while"} : Back(k, "body")
    BY <1>5 DEF ForTurns, WhileTurns
  <2>3. Len(frames) > 0 /\ chain[Top.cmd].kind # "block"
    BY <2>2, BackInChain
  <2>. QED  BY <2>1, <2>3, FilesBack
<1>6. CASE ThenReturns \/ ElseReturns \/ ForReturns \/ ElseForReturns \/ WhileReturns \/ BlockReturns
  <2>1. Left
    BY <1>6, ReturnsMove
  <2>2. UNCHANGED naming /\ \E k, section : Back(k, section)
    BY <1>6 DEF ThenReturns, ElseReturns, ForReturns, ElseForReturns, WhileReturns, BlockReturns
  <2>3. Len(frames) > 0
    BY <2>2, BackInChain
  <2>. QED  BY <2>1, <2>2, <2>3, FilesBack, FilesBlockBack
<1>. QED  BY <1>1, <1>2, <1>3, <1>4, <1>5, <1>6 DEF Next

\* First it is the template's own.
LEMMA FilesInit ==
  ASSUME Init, IsProper, PrinterTypeOK
  PROVE  FilesRight
<1>1. /\ frames = << [cmd |-> 1, section |-> "chain", i |-> 0, n |-> 0] >>
      /\ Len(chain) > 0 /\ chain[1].kind = "template" /\ curr = next_(chain, 1)
      /\ file = chain[1].file /\ fileStack = Nil
  BY ChainsAssumption DEF Init
<1>2. \A k \in DOMAIN frames : frames[k].cmd = 1
  BY <1>1
<1>3. OfKind(chain, frames, "block") = {}
  BY <1>1, <1>2 DEF OfKind
<1>4. Cardinality(OfKind(chain, frames, "block")) = 0 /\ Pushed(fileStack) = 0
  BY <1>1, <1>3, FS_EmptySet DEF Pushed
<1>5. curr # Nowhere => Source(chain, Nesting(chain), curr) = chain[1].file
  <2>1. ProperChain(chain) /\ 1 \in 1..Len(chain)
    BY <1>1, InProper
  <2>. QED  BY <1>1, <2>1, SourceIncluded
<1>. QED  BY <1>1, <1>4, <1>5 DEF FilesRight, Filed

\* So it is what the runs check.
LEMMA FilesShow ==
  ASSUME PrinterTypeOK, IsProper, FilesRight
  PROVE  FileIsCurrentUntilEnd
<1>1. FramesOf("block") = OfKind(chain, frames, "block")
  BY FramesOfKind DEF Kinds, Openers
<1>2. SUFFICES ASSUME Pushed(fileStack) = Cardinality(OfKind(chain, frames, "block")),
                      Kind(curr) \in {"text", "if", "for", "while"}
               PROVE  file = chain[curr].file
  BY <1>1 DEF FileIsCurrentUntilEnd, FileIsCurrent, Pushed
<1>3. curr # Nowhere /\ chain[curr].kind \in {"text", "if", "for", "while"}
  BY <1>2 DEF Kind, KindAt, NoClass
<1>4. curr \in DOMAIN chain
  BY <1>3, InProper DEF Places
<1>5. file = Source(chain, Nesting(chain), curr)
  BY <1>2, <1>3 DEF FilesRight, Filed
<1>6. chain[curr].file = Source(chain, Nesting(chain), curr)
  BY <1>3, <1>4 DEF IsProper, Proper, FilesMarked
<1>. QED  BY <1>5, <1>6

-----------------------------------------------------------------------------
(* The invariant as a whole. *)

PrinterInv ==
  /\ PrinterTypeOK
  /\ IsProper => FrameInv /\ raised = "no" /\ LoopsScoped /\ FilesRight

\* It holds first.
LEMMA PrinterInvInit == Init => PrinterInv
<1>. SUFFICES ASSUME Init PROVE PrinterInv
  OBVIOUS
<1>1. PrinterTypeOK
  BY TypedInit
<1>2. ASSUME IsProper  PROVE FrameInv /\ raised = "no" /\ LoopsScoped /\ FilesRight
  <2>1. FrameInv
    <3>1. Framed(chain, curr, frames, 1)
      BY <1>1, <1>2, FramedInit
    <3>. QED  BY <3>1 DEF FrameInv
  <2>2. raised = "no"
    BY DEF Init
  <2>. QED  BY <1>1, <1>2, <2>1, <2>2, ScopeInit, FilesInit
<1>. QED  BY <1>1, <1>2 DEF PrinterInv

\* No step changes the template.
LEMMA ChainStays == Next => chain' = chain
BY DEF Next, RenderText, RenderTemplate, TemplateReturns, RenderStray, RenderIf, ThenReturns,
   ElseReturns, RenderFor, ForTurns, ForReturns, ElseForReturns, RenderWhile, WhileTurns,
   WhileReturns, RenderBlock, BlockReturns, RenderEndBlock, control

\* Every step keeps the invariant.
LEMMA PrinterInvNext == PrinterInv /\ [Next]_vars => PrinterInv'
<1>. SUFFICES ASSUME PrinterInv, [Next]_vars PROVE PrinterInv'
  OBVIOUS
<1>1. PrinterTypeOK /\ PrinterTypeOK'
  BY TypedNext DEF PrinterInv
<1>2. CASE UNCHANGED vars
  BY <1>2
  DEF vars, PrinterInv, PrinterTypeOK, IsProper, FrameInv, LoopsScoped, FilesRight
<1>3. CASE Next
  <2>1. chain' = chain
    BY <1>3, ChainStays
  <2>2. SUFFICES ASSUME IsProper PROVE FrameInv' /\ raised' = "no" /\ LoopsScoped' /\ FilesRight'
    BY <1>1, <2>1 DEF PrinterInv, IsProper
  <2>3. PICK t \in Nat : Framed(chain, curr, frames, t)
    BY <2>2 DEF PrinterInv, FrameInv
  <2>4. LoopsScoped /\ FilesRight /\ raised = "no"
    BY <2>2 DEF PrinterInv
  <2>5. Moves /\ raised' = raised
    BY <1>1, <1>3, <2>2, <2>3, StepMoves
  <2>6. \E u \in Nat : Framed(chain, curr', frames', u)
    BY <1>1, <2>2, <2>3, <2>5, MovesFramed
  <2>7. FrameInv'
    BY <2>1, <2>6 DEF FrameInv
  <2>8. LoopsScoped'
    BY <1>1, <1>3, <2>1, <2>2, <2>3, <2>4, ScopeStep
  <2>9. FilesRight'
    BY <1>1, <1>3, <2>1, <2>2, <2>3, <2>4, FilesStep
  <2>. QED  BY <2>4, <2>5, <2>7, <2>8, <2>9
<1>. QED  BY <1>2, <1>3

\* Every variable has its type and a frame is a place, in any template whatever.
THEOREM PrinterTypeCorrect == Spec => []PrinterTypeOK
<1>. QED  BY TypedInit, TypedNext, PTL DEF Spec

\* No end and no else of a properly nested template is ever found stray, however
\* large the template.
THEOREM NothingFoundStray == Spec => []ProperNeverRaises
<1>1. PrinterInv => ProperNeverRaises
  BY DEF PrinterInv, ProperNeverRaises, NeverRaises
<1>. QED  BY <1>1, PrinterInvInit, PrinterInvNext, PTL DEF Spec

\* In a properly nested template the body of a for has its own variable and info,
\* however deep it is in other commands, and no loop leaves a variable behind.
THEOREM LoopsKeepScope == Spec => []LoopsInScope
<1>1. PrinterInv => LoopsInScope
  BY ScopeShows DEF PrinterInv, LoopsInScope
<1>. QED  BY <1>1, PrinterInvInit, PrinterInvNext, PTL DEF Spec

\* __FILE__ is the file of what is rendered, as long as no block has ended.
THEOREM FileKeptUntilBlockEnds == Spec => []FileIsCurrentInBlocks
<1>1. PrinterInv => FileIsCurrentInBlocks
  BY FilesShow DEF PrinterInv, FileIsCurrentInBlocks
<1>. QED  BY <1>1, PrinterInvInit, PrinterInvNext, PTL DEF Spec

-----------------------------------------------------------------------------
(* The printer implements ScionFlow. *)

\* The operators of the chain are the same in both.
LEMMA FlowSame ==
  /\ Flow!Openers = Openers /\ Flow!Closers = Closers /\ Flow!Nowhere = Nowhere
  /\ \A kind : Flow!isElse(kind) <=> isElse(kind)
  /\ \A ch, a : Flow!next_(ch, a) = next_(ch, a)
  /\ \A kinds, a, b : Flow!CountIn(kinds, a, b) = NumIn(chain, kinds, a, b)
BY Zenon DEF Flow!Openers, Openers, Flow!Closers, Closers, Flow!Nowhere, Nowhere, Flow!isElse,
   isElse, Flow!Elses, Elses, Flow!next_, next_, Flow!CountIn, NumIn,
   Flow!Cardinality, Cardinality, Flow!IsFiniteSet, IsFiniteSet

\* The ends of all commands are the ends there are.
LEMMA AllEndings == Ending(Openers) = Closers
<1>1. ASSUME NEW x \in Ending(Openers)  PROVE x \in Closers
  BY <1>1 DEF Ending, Openers, Closers, terminatorClass
<1>2. ASSUME NEW x \in Closers  PROVE x \in Ending(Openers)
  <2>1. PICK k \in Openers : x = terminatorClass(k)
    BY <1>2 DEF Openers, Closers, terminatorClass
  <2>. QED  BY <2>1 DEF Ending
<1>. QED  BY <1>1, <1>2

\* As many commands begin from a on as end up to p if behind p the stack is no
\* higher than at a.
LEMMA BalancedLow ==
  ASSUME NEW ch, NEW S, Bracketed(ch, S), NEW a \in 1..Len(ch), NEW p \in a..Len(ch),
         Holds(S, Len(S[a]), a, p + 1)
  PROVE  NumIn(ch, Openers, a, p) = NumIn(ch, Closers, a, p) <=> Len(S[p + 1]) = Len(S[a])
<1>. DEFINE d == Len(S[a])
<1>1. /\ Len(ch) \in Nat /\ a \in 1..(Len(ch) + 1) /\ p + 1 \in a..(Len(ch) + 1) /\ p \in Nat
      /\ p + 1 \in 1..(Len(ch) + 1) /\ a \in Nat /\ p + 1 - 1 = p
  BY AtPlace
<1>2. d \in Nat /\ Len(S[p + 1]) \in Nat /\ d <= Len(S[p + 1])
  <2>1. d \in Nat /\ Len(S[p + 1]) \in Nat
    BY <1>1, AtPlace
  <2>2. p + 1 \in a..(p + 1)
    BY <1>1
  <2>. QED  BY <2>1, <2>2 DEF Holds
<1>3. NumAbove(ch, Openers, d, S[p + 1]) + NumIn(ch, Closers, a, p) = NumIn(ch, Openers, a, p)
  <2>1. \A r \in a..(p + 1) : d <= Len(S[r])
    BY DEF Holds
  <2>. HIDE DEF d
  <2>2. d = Len(S[a])
    BY DEF d
  <2>3. NumAbove(ch, Openers, d, S[p + 1]) + NumIn(ch, Ending(Openers), a, p + 1 - 1)
          = NumIn(ch, Openers, a, p + 1 - 1)
    <3>1. Openers \subseteq Openers
      OBVIOUS
    <3>. QED  BY <1>1, <1>2, <2>1, <2>2, <3>1, AboveCounts, SMTT(40)
  <2>. QED  BY <1>1, <2>3, AllEndings
<1>4. /\ NumIn(ch, Closers, a, p) \in Nat /\ NumIn(ch, Openers, a, p) \in Nat
      /\ NumAbove(ch, Openers, d, S[p + 1]) \in Nat
  <2>1. a <= p + 1
    BY <1>1
  <2>. QED  BY <1>1, <1>2, <2>1, NumStep, AboveType
<1>5. NumAbove(ch, Openers, d, S[p + 1]) = 0 <=> Len(S[p + 1]) = d
  <2>1. ASSUME Len(S[p + 1]) = d  PROVE NumAbove(ch, Openers, d, S[p + 1]) = 0
    <3>1. Len(S[p + 1]) <= d
      BY <1>2, <2>1
    <3>. QED  BY <1>2, <3>1, AboveType
  <2>2. ASSUME NumAbove(ch, Openers, d, S[p + 1]) = 0, Len(S[p + 1]) # d  PROVE FALSE
    <3>1. \A i \in (d + 1)..Len(S[p + 1]) : ch[S[p + 1][i]].kind \notin Openers
      BY <1>2, <2>2, AboveType
    <3>2. d + 1 \in (d + 1)..Len(S[p + 1]) /\ d + 1 \in 1..Len(S[p + 1])
      BY <1>2, <2>2
    <3>3. IsOpen(ch, S, S[p + 1][d + 1], d + 1, p + 1)
      BY <1>1, <3>2, Opened
    <3>. QED  BY <3>1, <3>2, <3>3 DEF IsOpen
  <2>. QED  BY <2>1, <2>2
<1>. HIDE DEF d
<1>6. NumIn(ch, Openers, a, p) = NumIn(ch, Closers, a, p) <=> NumAbove(ch, Openers, d, S[p + 1]) = 0
  BY <1>3, <1>4
<1>. QED  BY <1>5, <1>6 DEF d

\* What the formulas of ScionFlow say of a command.
LEMMA FlowBalance ==
  ASSUME ProperChain(chain), NEW c \in 1..Len(chain), NEW p \in c..Len(chain),
         Holds(Nesting(chain), Len(Nesting(chain)[c]), c, p + 1)
  PROVE  Flow!Balanced(c, p) <=> Len(Nesting(chain)[p + 1]) = Len(Nesting(chain)[c])
<1>1. Bracketed(chain, Nesting(chain))
  BY HereAt
<1>2. Flow!Balanced(c, p) <=> NumIn(chain, Openers, c, p) = NumIn(chain, Closers, c, p)
  BY FlowSame, Zenon DEF Flow!Balanced
<1>. QED  BY <1>1, <1>2, BalancedLow

\* The least of some places.
LEMMA LeastIs ==
  ASSUME NEW places, places \subseteq Nat, NEW x \in places, \A y \in places : x <= y
  PROVE  Flow!Min(places) = x
<1>1. \A y \in places : (\A z \in places : y <= z) => y = x
  OBVIOUS
<1>. QED  BY <1>1 DEF Flow!Min

\* The end that balances a command is the end of the command.
LEMMA FlowEnd ==
  ASSUME ProperChain(chain), NEW c \in 1..Len(chain), chain[c].kind \in Openers,
         NEW e, EndOfCmd(chain, c, e)
  PROVE  Flow!EndOf(c) = e
<1>. DEFINE S == Nesting(chain)
            places == {p \in (c + 1)..Len(chain) : chain[p].kind \in Closers /\ Flow!Balanced(c, p)}
<1>1. Bracketed(chain, S) /\ Len(chain) \in Nat /\ Len(S[c]) \in Nat /\ c \in Nat
  BY HereAt
<1>2. /\ e \in (c + 1)..Len(chain)
      /\ \A r \in (c + 1)..e : Len(S[c]) + 1 <= Len(S[r])
      /\ Len(S[e + 1]) = Len(S[c]) /\ chain[e].kind = terminatorClass(chain[c].kind)
  <2>1. Ended(chain, S, c + 1, e)
    BY DEF EndOfCmd
  <2>. HIDE DEF S
  <2>2. e \in (c + 1)..Len(chain)
    BY <2>1 DEF Ended
  <2>3. ASSUME NEW r \in (c + 1)..e  PROVE Len(S[c]) + 1 <= Len(S[r])
    BY <1>1, <2>1, EndFacts
  <2>4. Len(S[e + 1]) = Len(S[c])
    BY <1>1, <2>1, EndFacts
  <2>5. chain[e].kind = terminatorClass(chain[c].kind)
    BY <1>1, <2>1, EndFacts
  <2>. QED  BY <2>2, <2>3, <2>4, <2>5
<1>3. ASSUME NEW p \in c..e  PROVE Holds(S, Len(S[c]), c, p + 1)
  <2>1. ASSUME NEW r \in c..(p + 1)  PROVE Len(S[c]) <= Len(S[r])
    <3>1. CASE r = c \/ r = e + 1
      BY <1>1, <1>2, <3>1
    <3>2. CASE r # c /\ r # e + 1
      <4>1. r \in (c + 1)..e
        BY <1>1, <1>2, <3>2
      <4>2. Len(S[c]) + 1 <= Len(S[r]) /\ r \in 1..(Len(chain) + 1)
        BY <1>1, <1>2, <4>1
      <4>3. Len(S[r]) \in Nat
        BY <1>1, <4>2, AtPlace
      <4>. QED  BY <1>1, <4>2, <4>3
    <3>. QED  BY <3>1, <3>2
  <2>. QED  BY <2>1 DEF Holds
<1>4. e \in places
  <2>1. e \in c..Len(chain) /\ e \in c..e
    BY <1>1, <1>2
  <2>2. Flow!Balanced(c, e)
    BY <1>2, <1>3, <2>1, FlowBalance
  <2>3. chain[e].kind \in Closers
    BY <1>2 DEF Openers, Closers, terminatorClass
  <2>. QED  BY <1>2, <2>2, <2>3
<1>5. ASSUME NEW p \in places, ~(e <= p)  PROVE FALSE
  <2>1. p \in c..e /\ p \in c..Len(chain) /\ p + 1 \in (c + 1)..e
    BY <1>1, <1>2, <1>5
  <2>2. Flow!Balanced(c, p)
    BY <1>5
  <2>3. Len(S[p + 1]) = Len(S[c])
    BY <1>3, <2>1, <2>2, FlowBalance
  <2>4. Len(S[c]) + 1 <= Len(S[p + 1])
    BY <1>2, <2>1
  <2>. QED  BY <1>1, <2>3, <2>4
<1>6. Flow!EndOf(c) = Flow!Min(places)
  BY FlowSame, Zenon DEF Flow!EndOf
<1>7. places \subseteq Nat
  BY <1>1, <1>2
<1>. HIDE DEF places
<1>8. \A p \in places : e <= p
  BY <1>5
<1>. QED  BY <1>4, <1>6, <1>7, <1>8, LeastIs

\* And the else that divides it is its own.
LEMMA FlowElse ==
  ASSUME ProperChain(chain), NEW c \in 1..Len(chain), chain[c].kind \in Openers
  PROVE  Flow!ElsesOf(c) = OwnElse(chain, c)
<1>. DEFINE S == Nesting(chain)
<1>1. /\ Bracketed(chain, S) /\ Len(chain) \in Nat /\ Len(S[c]) \in Nat /\ c \in Nat
      /\ chain \in Seq(Nodes) /\ Proper(chain) /\ DOMAIN chain = 1..Len(chain)
  BY HereAt DEF ProperChain
<1>2. PICK e : EndOfCmd(chain, c, e)
  BY <1>1, CmdEnds
<1>3. /\ e \in (c + 1)..Len(chain)
      /\ \A r \in (c + 1)..e : Len(S[c]) + 1 <= Len(S[r])
      /\ chain[e].kind = terminatorClass(chain[c].kind)
  <2>1. Ended(chain, S, c + 1, e)
    BY <1>2 DEF EndOfCmd
  <2>. HIDE DEF S
  <2>. QED  BY <1>1, <2>1, EndFacts
<1>4. Flow!ElsesOf(c) = {p \in (c + 1)..e : isElse(chain[p].kind) /\ Flow!Balanced(c + 1, p)}
  <2>1. Flow!EndOf(c) = e
    BY <1>2, FlowEnd, Zenon
  <2>. QED  BY <2>1, FlowSame, Zenon DEF Flow!ElsesOf
<1>5. c + 1 \in 1..Len(chain) /\ Len(S[c + 1]) = Len(S[c]) + 1 /\ Innermost(S[c + 1]) = c
  BY <1>1, BodyStarts
<1>6. ASSUME NEW p \in (c + 1)..e, isElse(chain[p].kind)
      PROVE  /\ p \in 1..Len(chain) /\ p < e /\ S[p + 1] = S[p]
             /\ Flow!Balanced(c + 1, p) <=> Len(S[p]) = Len(S[c + 1])
  <2>1. p \in 1..Len(chain) /\ p # e
    <3>1. ~isElse(chain[e].kind)
      BY <1>3 DEF isElse, Elses, Openers, terminatorClass
    <3>. QED  BY <1>1, <1>3, <1>6, <3>1
  <2>2. p < e /\ p + 1 <= e /\ p \in (c + 1)..Len(chain)
    BY <1>1, <1>3, <2>1
  <2>3. S[p + 1] = S[p]
    BY <1>6, <2>1, HereAt DEF StepAt
  <2>4. Holds(S, Len(S[c + 1]), c + 1, p + 1)
    <3>1. ASSUME NEW r \in (c + 1)..(p + 1)  PROVE Len(S[c + 1]) <= Len(S[r])
      <4>1. r \in (c + 1)..e
        BY <1>1, <1>3, <2>2
      <4>. QED  BY <1>3, <1>5, <4>1
    <3>. QED  BY <3>1 DEF Holds
  <2>5. Flow!Balanced(c + 1, p) <=> Len(S[p + 1]) = Len(S[c + 1])
    BY <1>5, <2>2, <2>4, FlowBalance
  <2>. QED  BY <2>1, <2>2, <2>3, <2>5
<1>7. ASSUME NEW p \in Flow!ElsesOf(c)  PROVE p \in OwnElse(chain, c)
  <2>1. p \in (c + 1)..e /\ isElse(chain[p].kind) /\ Flow!Balanced(c + 1, p)
    BY <1>4, <1>7
  <2>2. p \in 1..Len(chain) /\ p < e /\ Len(S[p]) = Len(S[c + 1])
    BY <1>6, <2>1
  <2>3. Holds(S, Len(S[c + 1]), c + 1, p)
    <3>1. ASSUME NEW r \in (c + 1)..p  PROVE Len(S[c + 1]) <= Len(S[r])
      <4>1. r \in (c + 1)..e
        BY <1>1, <1>3, <2>2
      <4>. QED  BY <1>3, <1>5, <4>1
    <3>. QED  BY <3>1 DEF Holds
  <2>4. /\ c + 1 \in 1..(Len(chain) + 1) /\ Len(S[c + 1]) \in Nat /\ Len(S[c + 1]) > 0
        /\ p \in (c + 1)..(Len(chain) + 1)
    BY <1>1, <1>5, <2>1, <2>2
  <2>5. \A j \in 1..Len(S[c + 1]) : S[p][j] = S[c + 1][j]
    BY <1>1, <2>3, <2>4, Stays
  <2>6. Innermost(S[p]) = c /\ Len(S[p]) > 0
    <3>1. Len(S[c + 1]) \in 1..Len(S[c + 1])
      BY <2>4
    <3>. QED  BY <1>5, <2>2, <2>4, <2>5, <3>1 DEF Innermost
  <2>7. p \in OwnElse(chain, Innermost(S[p]))
    BY <2>1, <2>2, OwnElseIs
  <2>. QED  BY <2>6, <2>7
<1>8. ASSUME NEW p \in OwnElse(chain, c)  PROVE p \in Flow!ElsesOf(c)
  <2>1. /\ p \in 1..Len(chain) /\ isElse(chain[p].kind)
        /\ Len(S[p]) > 0 /\ Innermost(S[p]) = c
        /\ Len(S[p]) = Len(S[c]) + 1
    BY OwnElseHigh
  <2>2. p \in (c + 1)..e
    BY <1>1, <1>2, <2>1, InnermostEnds DEF EndOfCmd
  <2>3. Flow!Balanced(c + 1, p)
    BY <1>5, <1>6, <2>1, <2>2
  <2>. QED  BY <1>4, <2>1, <2>2, <2>3
<1>. QED  BY <1>7, <1>8

\* The sections in frames, and those above the templates.
OpenOf(fs) ==
  LET templates == Cardinality({k \in DOMAIN fs : fs[k].section = "chain"})
  IN  [k \in 1..(Len(fs) - templates) |->
         [cmd |-> fs[templates + k].cmd, section |-> fs[templates + k].section]]

SectionsAbove(fs, t) ==
  [k \in 1..(Len(fs) - t) |-> [cmd |-> fs[t + k].cmd, section |-> fs[t + k].section]]

SectionType == [cmd : Nat, section : Sections]

\* The frames with the section "chain" are the templates.
LEMMA OpenFramed ==
  ASSUME NEW ch, ProperChain(ch), NEW at \in Places(ch), NEW fs \in Seq(Frames),
         NEW t, Framed(ch, at, fs, t)
  PROVE  OpenOf(fs) = SectionsAbove(fs, t)
<1>1. /\ t \in Nat /\ Len(fs) = t + Len(Here(ch, at)) /\ Len(fs) \in Nat /\ DOMAIN fs = 1..Len(fs)
      /\ \A k \in 1..t : fs[k].section = "chain"
      /\ \A k \in 1..Len(Here(ch, at)) : InSection(ch, at, Here(ch, at)[k], fs[t + k].section)
  BY DEF Framed
<1>2. Len(Here(ch, at)) \in Nat
  <2>1. CASE at = Nowhere
    BY <2>1 DEF Here
  <2>2. CASE at # Nowhere
    <3>1. at \in 1..Len(ch)
      BY <2>2 DEF Places, ProperChain
    <3>. QED  BY <3>1, HereAt
  <2>. QED  BY <2>1, <2>2
<1>3. ASSUME NEW j \in 1..Len(Here(ch, at))  PROVE fs[t + j].section # "chain"
  <2>1. at # Nowhere
    BY <1>3 DEF Here
  <2>2. at \in 1..Len(ch) /\ at \in 1..(Len(ch) + 1) /\ Bracketed(ch, Nesting(ch)) /\ Here(ch, at) = Nesting(ch)[at]
    <3>1. at \in 1..Len(ch)
      BY <2>1 DEF Places, ProperChain
    <3>. QED  BY <3>1, HereAt
  <2>3. IsOpen(ch, Nesting(ch), Here(ch, at)[j], j, at)
    BY <1>3, <2>2, Opened
  <2>4. ch[Here(ch, at)[j]].kind \in Openers
    BY <2>3 DEF IsOpen
  <2>5. InSection(ch, at, Here(ch, at)[j], fs[t + j].section)
    BY <1>1
  <2>. QED  BY <2>4, <2>5 DEF InSection, Openers
<1>4. {k \in DOMAIN fs : fs[k].section = "chain"} = 1..t
  <2>1. ASSUME NEW k \in DOMAIN fs, fs[k].section = "chain"  PROVE k \in 1..t
    <3>1. CASE k > t
      <4>1. k - t \in 1..Len(Here(ch, at)) /\ t + (k - t) = k
        BY <1>1, <1>2, <3>1
      <4>. QED  BY <1>3, <2>1, <4>1
    <3>. QED  BY <1>1, <3>1
  <2>2. ASSUME NEW k \in 1..t  PROVE k \in DOMAIN fs /\ fs[k].section = "chain"
    BY <1>1, <1>2
  <2>. QED  BY <2>1, <2>2
<1>5. Cardinality(1..t) = t
  <2>1. 1 \in Int /\ t \in Int
    BY <1>1
  <2>2. Cardinality(1..t) = IF 1 > t THEN 0 ELSE t - 1 + 1
    BY <2>1, FS_Interval
  <2>. QED  BY <1>1, <2>2
<1>. QED  BY <1>4, <1>5, Zenon DEF OpenOf, SectionsAbove

\* They are a sequence.
LEMMA SectionsTyped ==
  ASSUME NEW fs \in Seq(Frames), NEW t \in Nat, t <= Len(fs)
  PROVE  /\ SectionsAbove(fs, t) \in Seq(SectionType)
         /\ Len(SectionsAbove(fs, t)) = Len(fs) - t
         /\ \A k \in 1..(Len(fs) - t) :
              SectionsAbove(fs, t)[k] = [cmd |-> fs[t + k].cmd, section |-> fs[t + k].section]
<1>. DEFINE n == Len(fs) - t
            s == SectionsAbove(fs, t)
<1>1. n \in Nat /\ Len(fs) \in Nat
  OBVIOUS
<1>2. ASSUME NEW k \in 1..n
      PROVE  [cmd |-> fs[t + k].cmd, section |-> fs[t + k].section] \in SectionType
  <2>1. t + k \in 1..Len(fs)
    BY <1>1
  <2>2. fs[t + k] \in Frames
    BY <2>1, ElementOfSeq
  <2>. QED  BY <2>2 DEF Frames, SectionType
<1>3. s = [k \in 1..n |-> [cmd |-> fs[t + k].cmd, section |-> fs[t + k].section]]
  BY DEF SectionsAbove
<1>4. s \in [1..n -> SectionType]
  BY <1>2, <1>3
<1>. HIDE DEF s, n
<1>5. s \in Seq(SectionType) /\ Len(s) = n
  BY <1>1, <1>4
<1>. QED  BY <1>3, <1>5 DEF s, n

\* No frame above the templates, no section.
LEMMA SectionsNone ==
  ASSUME NEW fs \in Seq(Frames), NEW t \in Nat, t = Len(fs)
  PROVE  SectionsAbove(fs, t) = <<>>
<1>1. SectionsAbove(fs, t) \in Seq(SectionType) /\ Len(SectionsAbove(fs, t)) = Len(fs) - t
  <2>1. t <= Len(fs)
    OBVIOUS
  <2>. QED  BY <2>1, SectionsTyped
<1>. QED  BY <1>1, EmptySeq

\* Alike frames have the same sections.
LEMMA SectionsAlike ==
  ASSUME NEW fs \in Seq(Frames), NEW gs \in Seq(Frames), NEW t \in Nat, t <= Len(fs),
         Len(gs) = Len(fs), Alike(fs, gs, Len(fs))
  PROVE  SectionsAbove(gs, t) = SectionsAbove(fs, t)
<1>1. ASSUME NEW k \in 1..(Len(fs) - t)
      PROVE  gs[t + k].cmd = fs[t + k].cmd /\ gs[t + k].section = fs[t + k].section
  <2>1. t + k \in 1..Len(fs)
    OBVIOUS
  <2>. QED  BY <2>1 DEF Alike
<1>. QED  BY <1>1 DEF SectionsAbove

\* A call opens a section.
LEMMA SectionsCall ==
  ASSUME NEW fs \in Seq(Frames), NEW t \in Nat, t <= Len(fs), NEW fr \in Frames
  PROVE  SectionsAbove(Append(fs, fr), t)
           = Append(SectionsAbove(fs, t), [cmd |-> fr.cmd, section |-> fr.section])
<1>. DEFINE s == SectionsAbove(fs, t)
            r == [cmd |-> fr.cmd, section |-> fr.section]
            u == SectionsAbove(Append(fs, fr), t)
            n == Len(fs) - t
<1>1. /\ s \in Seq(SectionType) /\ Len(s) = n /\ n \in Nat
      /\ \A k \in 1..n : s[k] = [cmd |-> fs[t + k].cmd, section |-> fs[t + k].section]
  BY SectionsTyped
<1>2. r \in SectionType
  BY DEF SectionType, Frames
<1>3. /\ Append(fs, fr) \in Seq(Frames) /\ Len(Append(fs, fr)) = Len(fs) + 1
      /\ Append(fs, fr)[Len(fs) + 1] = fr
      /\ \A k \in 1..Len(fs) : Append(fs, fr)[k] = fs[k]
  BY AppendProperties
<1>4. /\ u \in Seq(SectionType) /\ Len(u) = n + 1
      /\ \A k \in 1..(n + 1) :
           u[k] = [cmd |-> Append(fs, fr)[t + k].cmd, section |-> Append(fs, fr)[t + k].section]
  <2>1. t <= Len(Append(fs, fr)) /\ Len(Append(fs, fr)) - t = n + 1
    BY <1>3
  <2>2. /\ u \in Seq(SectionType) /\ Len(u) = Len(Append(fs, fr)) - t
        /\ \A k \in 1..(Len(Append(fs, fr)) - t) :
             u[k] = [cmd |-> Append(fs, fr)[t + k].cmd, section |-> Append(fs, fr)[t + k].section]
    BY <1>3, <2>1, SectionsTyped
  <2>. QED  BY <2>1, <2>2
<1>5. Append(s, r) \in Seq(SectionType) /\ Len(Append(s, r)) = n + 1
      /\ Append(s, r)[n + 1] = r /\ \A k \in 1..n : Append(s, r)[k] = s[k]
  <2>. HIDE DEF s, r
  <2>. QED  BY <1>1, <1>2, AppendProperties
<1>6. ASSUME NEW k \in 1..(n + 1)  PROVE u[k] = Append(s, r)[k]
  <2>1. CASE k = n + 1
    <3>1. t + k = Len(fs) + 1
      BY <1>1, <2>1
    <3>2. Append(fs, fr)[t + k] = fr
      BY <1>3, <3>1
    <3>3. u[k] = r
      BY <1>4, <3>2
    <3>. HIDE DEF u, s, r
    <3>. QED  BY <1>5, <2>1, <3>3
  <2>2. CASE k # n + 1
    <3>1. k \in 1..n /\ t + k \in 1..Len(fs)
      BY <1>1, <2>2
    <3>2. Append(fs, fr)[t + k] = fs[t + k]
      BY <1>3, <3>1
    <3>3. u[k] = s[k]
      <4>1. u[k] = [cmd |-> fs[t + k].cmd, section |-> fs[t + k].section]
        BY <1>4, <3>2
      <4>2. s[k] = [cmd |-> fs[t + k].cmd, section |-> fs[t + k].section]
        BY <1>1, <3>1
      <4>. QED  BY <4>1, <4>2
    <3>. HIDE DEF u, s, r
    <3>. QED  BY <1>5, <3>1, <3>3
  <2>. QED  BY <2>1, <2>2
<1>. HIDE DEF u, s, r, n
<1>7. u = Append(s, r)
  BY <1>4, <1>5, <1>6, SeqEqual
<1>. QED  BY <1>7 DEF u, s, r

\* A return closes it.
LEMMA SectionsReturn ==
  ASSUME NEW fs \in Seq(Frames), NEW t \in Nat, t < Len(fs), NEW s, s = SectionsAbove(fs, t)
  PROVE  SectionsAbove(SubSeq(fs, 1, Len(fs) - 1), t) = SubSeq(s, 1, Len(s) - 1)
<1>. DEFINE gs == SubSeq(fs, 1, Len(fs) - 1)
            u == SectionsAbove(gs, t)
            v == SubSeq(s, 1, Len(s) - 1)
            n == Len(fs) - t
<1>1. /\ s \in Seq(SectionType) /\ Len(s) = n /\ n \in Nat /\ n > 0
      /\ \A k \in 1..n : s[k] = [cmd |-> fs[t + k].cmd, section |-> fs[t + k].section]
  <2>1. t <= Len(fs)
    OBVIOUS
  <2>. QED  BY <2>1, SectionsTyped, SMTT(40)
<1>2. gs \in Seq(Frames) /\ Len(gs) = Len(fs) - 1 /\ \A k \in 1..(Len(fs) - 1) : gs[k] = fs[k]
  <2>1. Len(fs) > 0
    OBVIOUS
  <2>. QED  BY <2>1, FrontShrinks DEF Shrinks
<1>3. v \in Seq(SectionType) /\ Len(v) = n - 1 /\ \A k \in 1..(n - 1) : v[k] = s[k]
  BY <1>1, FrontShrinks DEF Shrinks
<1>4. /\ u \in Seq(SectionType) /\ Len(u) = n - 1
      /\ \A k \in 1..(n - 1) : u[k] = [cmd |-> gs[t + k].cmd, section |-> gs[t + k].section]
  <2>1. t <= Len(gs) /\ Len(gs) - t = n - 1
    BY <1>2
  <2>. HIDE DEF gs
  <2>2. /\ u \in Seq(SectionType) /\ Len(u) = Len(gs) - t
        /\ \A k \in 1..(Len(gs) - t) : u[k] = [cmd |-> gs[t + k].cmd, section |-> gs[t + k].section]
    BY <1>2, <2>1, SectionsTyped
  <2>. QED  BY <2>1, <2>2
<1>5. ASSUME NEW k \in 1..(n - 1)  PROVE u[k] = v[k]
  <2>1. k \in 1..n /\ t + k \in 1..(Len(fs) - 1)
    BY <1>1
  <2>2. gs[t + k] = fs[t + k]
    BY <1>2, <2>1
  <2>3. u[k] = s[k]
    <3>1. u[k] = [cmd |-> gs[t + k].cmd, section |-> gs[t + k].section]
      BY <1>4
    <3>2. s[k] = [cmd |-> fs[t + k].cmd, section |-> fs[t + k].section]
      BY <1>1, <2>1
    <3>. QED  BY <2>2, <3>1, <3>2
  <2>. QED  BY <1>3, <2>3
<1>. HIDE DEF u, v, n
<1>6. u = v
  BY <1>3, <1>4, <1>5, SeqEqual
<1>. QED  BY <1>6 DEF u, v

\* What is open, before a step and after it.
LEMMA OpenNow ==
  ASSUME PrinterTypeOK, IsProper, NEW t, Framed(chain, curr, frames, t)
  PROVE  /\ OpenSections = SectionsAbove(frames, t)
         /\ t \in Nat /\ t <= Len(frames) /\ frames \in Seq(Frames) /\ Len(frames) \in Nat
<1>1. OpenSections = OpenOf(frames)
  BY DEF OpenSections, OpenOf
<1>2. ProperChain(chain) /\ frames \in Seq(Frames) /\ curr \in Places(chain)
  BY InProper
<1>3. t \in Nat /\ Len(frames) = t + Len(Here(chain, curr)) /\ Len(frames) \in Nat
  BY <1>2 DEF Framed
<1>4. Len(Here(chain, curr)) \in Nat
  <2>1. CASE curr = Nowhere
    BY <2>1 DEF Here
  <2>2. CASE curr # Nowhere
    <3>1. curr \in 1..Len(chain)
      BY <1>2, <2>2 DEF Places, ProperChain
    <3>. QED  BY <1>2, <3>1, HereAt
  <2>. QED  BY <2>1, <2>2
<1>5. t <= Len(frames)
  BY <1>3, <1>4
<1>6. OpenOf(frames) = SectionsAbove(frames, t)
  BY <1>2, OpenFramed
<1>. QED  BY <1>1, <1>2, <1>3, <1>5, <1>6

\* The same of the state behind the step.
LEMMA OpenThen ==
  ASSUME PrinterTypeOK', IsProper, PrinterTypeOK, chain' = chain,
         NEW t, Framed(chain, curr', frames', t)
  PROVE  OpenSections' = SectionsAbove(frames', t) /\ frames' \in Seq(Frames)
<1>1. OpenSections' = OpenOf(frames')
  BY DEF OpenSections, OpenOf
<1>2. ProperChain(chain)
  BY InProper
<1>3. frames' \in Seq(Frames) /\ curr' \in Places(chain)
  BY DEF PrinterTypeOK, Places
<1>4. OpenOf(frames') = SectionsAbove(frames', t)
  BY <1>2, <1>3, OpenFramed
<1>. QED  BY <1>1, <1>3, <1>4

\* A command has one else at most.
LEMMA OneElse ==
  ASSUME ProperChain(chain), NEW c \in 1..Len(chain), NEW p \in OwnElse(chain, c)
  PROVE  OwnElse(chain, c) = {p} /\ Flow!Min(OwnElse(chain, c)) = p /\ p \in Nat
<1>1. /\ p \in 1..Len(chain) /\ isElse(chain[p].kind)
      /\ Innermost(Nesting(chain)[p]) = c
  BY OwnElseHigh
<1>2. \A q \in OwnElse(chain, c) : q = p
  BY <1>1, OwnElseIs
<1>3. OwnElse(chain, c) = {p}
  BY <1>2
<1>4. p \in Nat /\ p <= p /\ {p} \subseteq Nat
  BY <1>1
<1>5. \A q \in {p} : p <= q
  BY <1>4
<1>6. p \in {p}
  OBVIOUS
<1>7. Flow!Min({p}) = p
  BY <1>4, <1>5, <1>6, LeastIs
<1>. QED  BY <1>3, <1>4, <1>7

\* Where a section starts and stops, in the terms of both.
LEMMA FlowStart ==
  ASSUME ProperChain(chain), NEW c \in 1..Len(chain), chain[c].kind \in Openers,
         NEW section \in Sections, NEW start, Starts(chain, c, section, start)
  PROVE  start = Flow!Start(c, section) /\ section \in Flow!SectionsOf(c)
<1>1. Flow!ElsesOf(c) = OwnElse(chain, c)
  BY FlowElse
<1>2. CASE section \in {"else", "empty"}
  <2>1. PICK p \in OwnElse(chain, c) : start = p + 1
    BY <1>2 DEF Starts
  <2>2. Flow!Min(OwnElse(chain, c)) = p
    BY <2>1, OneElse
  <2>3. start = Flow!Start(c, section)
    BY <1>1, <1>2, <2>1, <2>2 DEF Flow!Start
  <2>4. OwnElse(chain, c) # {}
    BY <2>1
  <2>5. \/ chain[c].kind = "if" /\ section = "else"
        \/ chain[c].kind = "for" /\ section = "empty"
    BY <1>2 DEF Starts, Openers
  <2>6. section \in Flow!SectionsOf(c)
    BY <1>1, <2>4, <2>5 DEF Flow!SectionsOf
  <2>. QED  BY <2>3, <2>6
<1>3. CASE section \notin {"else", "empty"}
  <2>1. section \in {"then", "body"}
    BY <1>3 DEF Starts, Openers
  <2>2. start = Flow!Start(c, section)
    BY <1>3, <2>1 DEF Flow!Start, Starts
  <2>3. \/ chain[c].kind = "if" /\ section = "then"
        \/ chain[c].kind = "for" /\ section = "body"
        \/ chain[c].kind \in {"while", "block"} /\ section = "body"
    BY <2>1 DEF Starts, Openers
  <2>4. section \in Flow!SectionsOf(c)
    BY <2>3 DEF Flow!SectionsOf
  <2>. QED  BY <2>2, <2>4
<1>. QED  BY <1>2, <1>3

\* Behind a command.
LEMMA FlowAfter ==
  ASSUME ProperChain(chain), NEW c \in 1..Len(chain), chain[c].kind \in Openers,
         NEW e, EndOfCmd(chain, c, e)
  PROVE  Flow!After(c) = next_(chain, e)
<1>1. Flow!EndOf(c) = e
  BY FlowEnd, Zenon
<1>. QED  BY <1>1, FlowSame, Zenon DEF Flow!After

\* Where the loop of a command stops, its section does.
LEMMA FlowStop ==
  ASSUME ProperChain(chain), InCmd
  PROVE  curr = Flow!Stop(Top.cmd, Top.section)
<1>1. /\ Top.cmd \in 1..Len(chain) /\ chain[Top.cmd].kind \in Openers
      /\ InSection(chain, curr, Top.cmd, Top.section)
  BY DEF InCmd
<1>2. PICK e : EndOfCmd(chain, Top.cmd, e)
  BY <1>1, CmdEnds DEF ProperChain
<1>3. /\ isElse(chain[curr].kind) => OwnElse(chain, Top.cmd) = {curr}
      /\ ~isElse(chain[curr].kind) => curr = e
      /\ Top.section \in {"else", "empty"} \/ chain[Top.cmd].kind \in {"while", "block"} => curr = e
      /\ Top.section \in {"then", "body"} /\ OwnElse(chain, Top.cmd) # {} =>
           OwnElse(chain, Top.cmd) = {curr}
  BY <1>2, Stops
<1>4. Flow!ElsesOf(Top.cmd) = OwnElse(chain, Top.cmd) /\ Flow!EndOf(Top.cmd) = e
  BY <1>1, <1>2, FlowElse, FlowEnd
<1>5. CASE Top.section \in {"then", "body"} /\ OwnElse(chain, Top.cmd) # {}
  <2>1. OwnElse(chain, Top.cmd) = {curr}
    BY <1>3, <1>5
  <2>2. Flow!Min(OwnElse(chain, Top.cmd)) = curr
    BY <1>1, <2>1, OneElse
  <2>. QED  BY <1>4, <1>5, <2>2 DEF Flow!Stop
<1>6. CASE ~(Top.section \in {"then", "body"} /\ OwnElse(chain, Top.cmd) # {})
  <2>1. curr = e
    <3>1. CASE OwnElse(chain, Top.cmd) = {}
      BY <1>3, <3>1
    <3>2. CASE Top.section \notin {"then", "body"}
      <4>1. Top.section \in {"else", "empty"}
        BY <1>1, <3>2 DEF InSection, Openers
      <4>. QED  BY <1>3, <4>1
    <3>. QED  BY <1>6, <3>1, <3>2
  <2>. QED  BY <1>4, <1>6, <2>1 DEF Flow!Stop
<1>. QED  BY <1>5, <1>6

\* The innermost section is that of the innermost frame.
LEMMA FlowInner ==
  ASSUME PrinterTypeOK, IsProper, NEW t, Framed(chain, curr, frames, t), InCmd
  PROVE  /\ Flow!Stopped /\ t < Len(frames)
         /\ Flow!Inner = [cmd |-> Top.cmd, section |-> Top.section]
<1>1. /\ OpenSections = SectionsAbove(frames, t)
      /\ t \in Nat /\ t <= Len(frames) /\ frames \in Seq(Frames) /\ Len(frames) \in Nat
  BY OpenNow
<1>2. ProperChain(chain)
  BY InProper
<1>3. t < Len(frames)
  <2>1. Len(frames) = t + Len(Here(chain, curr))
    BY DEF Framed
  <2>2. Here(chain, curr) = Nesting(chain)[curr] /\ Len(Nesting(chain)[curr]) \in Nat
    BY <1>2, HereAt DEF InCmd
  <2>3. Len(Nesting(chain)[curr]) > 0
    BY DEF InCmd
  <2>. QED  BY <1>1, <2>1, <2>2, <2>3
<1>. DEFINE n == Len(frames) - t
            s == OpenSections
<1>4. n \in Nat /\ n \in 1..n /\ n > 0 /\ t + n = Len(frames)
  BY <1>1, <1>3
<1>5. /\ s \in Seq(SectionType) /\ Len(s) = n
      /\ \A k \in 1..n : s[k] = [cmd |-> frames[t + k].cmd, section |-> frames[t + k].section]
  BY <1>1, SectionsTyped
<1>6. s[n] = [cmd |-> Top.cmd, section |-> Top.section]
  BY <1>4, <1>5 DEF Top
<1>. HIDE DEF n
<1>7. Flow!Inner = s[n]
  BY <1>5 DEF Flow!Inner
<1>8. OpenSections # <<>>
  BY <1>4, <1>5
<1>9. Flow!Stopped
  BY <1>2, <1>6, <1>7, <1>8, FlowStop DEF Flow!Stopped
<1>. QED  BY <1>3, <1>6, <1>7, <1>9

\* Past an object and into a file that is included, nothing opens.
LEMMA FlowPlain ==
  ASSUME PrinterTypeOK, PrinterTypeOK', IsProper, chain' = chain,
         NEW t, Framed(chain, curr, frames, t), Over \/ Included
  PROVE  Flow!Plain
<1>1. /\ curr \in 1..Len(chain) /\ chain[curr].kind \in {"text", "template"}
      /\ curr' = next_(chain, curr)
  BY DEF Over, Included
<1>2. /\ ProperChain(chain)
      /\ OpenSections = SectionsAbove(frames, t)
      /\ t \in Nat /\ t <= Len(frames) /\ frames \in Seq(Frames) /\ Len(frames) \in Nat
  BY InProper, OpenNow
<1>3. curr # Flow!Nowhere /\ curr' = Flow!next_(chain, curr)
  <2>1. curr # Nowhere
    BY <1>1, <1>2, HereAt
  <2>. QED  BY <1>1, <2>1, FlowSame, Zenon
<1>4. OpenSections' = OpenSections
  <2>1. CASE Over
    BY <2>1 DEF Over, OpenSections
  <2>2. CASE Included
    <3>1. /\ chain[curr].kind = "template"
          /\ frames' = Append(frames, [cmd |-> curr, section |-> "chain", i |-> 0, n |-> 0])
      BY <2>2 DEF Included
    <3>2. Len(Nesting(chain)[curr]) = 0 /\ Here(chain, curr) = Nesting(chain)[curr]
      BY <1>1, <1>2, <3>1, HereAt DEF StepAt
    <3>3. t = Len(frames)
      BY <1>2, <3>2 DEF Framed
    <3>4. Framed(chain, curr', frames', t + 1)
      BY <2>2, MovesFramed DEF Moves
    <3>5. OpenSections' = SectionsAbove(frames', t + 1) /\ frames' \in Seq(Frames)
      BY <3>4, OpenThen
    <3>6. Len(frames') = Len(frames) + 1
      BY <1>2, <3>1, <3>5
    <3>7. t + 1 \in Nat /\ t + 1 = Len(frames')
      BY <1>2, <3>3, <3>6
    <3>8. SectionsAbove(frames', t + 1) = <<>>
      BY <3>5, <3>7, SectionsNone
    <3>9. SectionsAbove(frames, t) = <<>>
      BY <1>2, <3>3, SectionsNone
    <3>. QED  BY <1>2, <3>5, <3>8, <3>9
  <2>. QED  BY <2>1, <2>2
<1>. QED  BY <1>1, <1>3, <1>4 DEF Flow!Plain

\* A template that returns at the end of the chain is nothing of the flow.
LEMMA FlowReturned ==
  ASSUME PrinterTypeOK, PrinterTypeOK', IsProper, chain' = chain,
         NEW t, Framed(chain, curr, frames, t), Returned
  PROVE  UNCHANGED Flow!flowVars
<1>1. Len(frames) > 0 /\ curr = Nowhere /\ curr' = Nowhere /\ frames' = Callers
      /\ Top.section = "chain"
  BY DEF Returned
<1>2. /\ ProperChain(chain) /\ OpenSections = SectionsAbove(frames, t)
      /\ t \in Nat /\ frames \in Seq(Frames) /\ Len(frames) \in Nat
  BY InProper, OpenNow
<1>3. t = Len(frames)
  <2>1. Len(Here(chain, curr)) = 0
    BY <1>1 DEF Here
  <2>. QED  BY <1>2, <2>1 DEF Framed
<1>4. Framed(chain, curr', frames', t - 1)
  BY MovesFramed DEF Moves
<1>5. OpenSections' = SectionsAbove(frames', t - 1) /\ frames' \in Seq(Frames)
  BY <1>4, OpenThen
<1>6. Len(frames') = Len(frames) - 1
  BY <1>1, <1>2, FrontShrinks DEF Callers, Shrinks
<1>7. t - 1 \in Nat /\ t - 1 = Len(frames')
  BY <1>1, <1>2, <1>3, <1>6
<1>8. SectionsAbove(frames', t - 1) = <<>>
  BY <1>5, <1>7, SectionsNone
<1>9. SectionsAbove(frames, t) = <<>>
  BY <1>2, <1>3, SectionsNone
<1>. QED  BY <1>1, <1>2, <1>5, <1>8, <1>9 DEF Flow!flowVars

\* A command is entered.
LEMMA FlowEnter ==
  ASSUME PrinterTypeOK, PrinterTypeOK', IsProper, chain' = chain,
         NEW t, Framed(chain, curr, frames, t),
         NEW section \in Sections, NEW n \in Nat, Entered(section, n)
  PROVE  Flow!Enter
<1>1. /\ curr \in 1..Len(chain) /\ chain[curr].kind \in Openers
      /\ Starts(chain, curr, section, curr')
      /\ frames' = Append(frames, [cmd |-> curr, section |-> section, i |-> 0, n |-> n])
  BY DEF Entered
<1>2. /\ ProperChain(chain) /\ OpenSections = SectionsAbove(frames, t)
      /\ t \in Nat /\ t <= Len(frames) /\ frames \in Seq(Frames)
  BY InProper, OpenNow
<1>3. curr' = Flow!Start(curr, section) /\ section \in Flow!SectionsOf(curr)
  BY <1>1, <1>2, FlowStart
<1>4. OpenSections' = Append(OpenSections, [cmd |-> curr, section |-> section])
  <2>1. curr \in Nat
    BY <1>1, <1>2, HereAt
  <2>2. PICK fr : fr = [cmd |-> curr, section |-> section, i |-> 0, n |-> n]
    OBVIOUS
  <2>3. fr \in Frames /\ fr.cmd = curr /\ fr.section = section
    BY <2>1, <2>2, NewFrame
  <2>4. Framed(chain, curr', frames', t)
    <3>1. ~Included /\ ~Returned
      <4>1. ~Included
        BY <1>1 DEF Included, Openers
      <4>2. ~Returned
        BY <1>1, <1>2, HereAt DEF Returned
      <4>. QED  BY <4>1, <4>2
    <3>2. Moves
      BY DEF Moves
    <3>. QED  BY <3>1, <3>2, MovesFramed
  <2>5. OpenSections' = SectionsAbove(frames', t)
    BY <2>4, OpenThen
  <2>6. frames' = Append(frames, fr)
    BY <1>1, <2>2
  <2>7. SectionsAbove(Append(frames, fr), t)
          = Append(SectionsAbove(frames, t), [cmd |-> fr.cmd, section |-> fr.section])
    BY <1>2, <2>3, SectionsCall
  <2>. QED  BY <1>2, <2>3, <2>5, <2>6, <2>7
<1>5. curr # Flow!Nowhere /\ chain[curr].kind \in Flow!Openers
  <2>1. curr # Nowhere
    BY <1>1, <1>2, HereAt
  <2>. QED  BY <1>1, <2>1, FlowSame, Zenon
<1>. QED  BY <1>3, <1>4, <1>5 DEF Flow!Enter

\* A command is passed over.
LEMMA FlowPass ==
  ASSUME PrinterTypeOK, IsProper, chain' = chain, Passed
  PROVE  Flow!Pass
<1>1. /\ curr \in 1..Len(chain) /\ chain[curr].kind \in Openers /\ chain[curr].kind # "block"
      /\ OwnElse(chain, curr) = {} /\ frames' = frames
  BY DEF Passed
<1>2. PICK e : EndOfCmd(chain, curr, e) /\ curr' = next_(chain, e)
  BY DEF Passed
<1>3. ProperChain(chain)
  BY InProper
<1>4. Flow!MayPass(curr)
  <2>1. Flow!ElsesOf(curr) = {}
    BY <1>1, <1>3, FlowElse
  <2>. QED  BY <1>1, <2>1 DEF Flow!MayPass
<1>5. curr' = Flow!After(curr)
  BY <1>1, <1>2, <1>3, FlowAfter
<1>6. OpenSections' = OpenSections
  BY <1>1 DEF OpenSections
<1>7. curr # Flow!Nowhere /\ chain[curr].kind \in Flow!Openers
  <2>1. curr # Nowhere
    BY <1>1, <1>3, HereAt
  <2>. QED  BY <1>1, <2>1, FlowSame, Zenon
<1>. QED  BY <1>4, <1>5, <1>6, <1>7 DEF Flow!Pass

\* The body of a loop is entered again.
LEMMA FlowAgain ==
  ASSUME PrinterTypeOK, PrinterTypeOK', IsProper, chain' = chain,
         NEW t, Framed(chain, curr, frames, t), Turned
  PROVE  Flow!Again
<1>1. /\ InCmd /\ Top.section = "body" /\ chain[Top.cmd].kind \in {"for", "while"}
      /\ curr' = Top.cmd + 1 /\ frames' = [frames EXCEPT ![Len(frames)].i = @ + 1]
  BY DEF Turned
<1>2. Flow!Stopped /\ Flow!Inner = [cmd |-> Top.cmd, section |-> Top.section]
  BY <1>1, FlowInner
<1>3. curr' = Flow!Start(Top.cmd, "body")
  BY <1>1 DEF Flow!Start
<1>4. OpenSections' = OpenSections
  <2>1. /\ ProperChain(chain) /\ OpenSections = SectionsAbove(frames, t)
        /\ t \in Nat /\ t <= Len(frames) /\ frames \in Seq(Frames) /\ Len(frames) \in Nat
    BY InProper, OpenNow
  <2>2. Framed(chain, curr', frames', t)
    <3>1. ~Included /\ ~Returned
      <4>1. ~Included
        BY <1>1 DEF Included, InCmd, isElse, Elses, terminatorClass
      <4>2. ~Returned
        BY <1>1 DEF Returned
      <4>. QED  BY <4>1, <4>2
    <3>. QED  BY <3>1, MovesFramed DEF Moves
  <2>3. OpenSections' = SectionsAbove(frames', t) /\ frames' \in Seq(Frames)
    BY <2>2, OpenThen
  <2>4. Len(frames') = Len(frames) /\ Alike(frames, frames', Len(frames))
    <3>1. /\ FramesTyped(chain, frames) /\ Len(frames) > 0
      <4>1. t < Len(frames)
        BY <1>1, FlowInner
      <4>. QED  BY <2>1, <4>1, TypedParts
    <3>2. /\ Len(frames') = Len(frames)
          /\ \A k \in 1..Len(frames) : k # Len(frames) => frames'[k] = frames[k]
          /\ frames'[Len(frames)] = [frames[Len(frames)] EXCEPT !.i = @ + 1]
      BY <1>1, <3>1, TurnTyped
    <3>3. frames[Len(frames)] \in Frames
      <4>1. Len(frames) \in 1..Len(frames)
        BY <2>1, <3>1
      <4>. QED  BY <2>1, <4>1, ElementOfSeq
    <3>4. ASSUME NEW k \in 1..Len(frames)
          PROVE  frames'[k].cmd = frames[k].cmd /\ frames'[k].section = frames[k].section
      BY <3>2, <3>3 DEF Frames
    <3>. QED  BY <3>2, <3>4 DEF Alike
  <2>. QED  BY <2>1, <2>3, <2>4, SectionsAlike
<1>. QED  BY <1>1, <1>2, <1>3, <1>4 DEF Flow!Again

\* A command is left behind its end.
LEMMA FlowLeave ==
  ASSUME PrinterTypeOK, PrinterTypeOK', IsProper, chain' = chain,
         NEW t, Framed(chain, curr, frames, t), Left
  PROVE  Flow!Leave
<1>1. InCmd /\ frames' = Callers
  BY DEF Left
<1>2. PICK e : EndOfCmd(chain, Top.cmd, e) /\ curr' = next_(chain, e)
  BY DEF Left
<1>3. Flow!Stopped /\ Flow!Inner = [cmd |-> Top.cmd, section |-> Top.section] /\ t < Len(frames)
  BY <1>1, FlowInner
<1>4. /\ ProperChain(chain) /\ OpenSections = SectionsAbove(frames, t)
      /\ t \in Nat /\ t <= Len(frames) /\ frames \in Seq(Frames) /\ Len(frames) \in Nat
  BY InProper, OpenNow
<1>5. curr' = Flow!After(Top.cmd)
  BY <1>1, <1>2, <1>4, FlowAfter DEF InCmd
<1>6. OpenSections' = SubSeq(OpenSections, 1, Len(OpenSections) - 1)
  <2>1. Framed(chain, curr', frames', t)
    <3>1. ~Included /\ ~Returned
      <4>1. ~Included
        BY <1>1 DEF Included, InCmd, isElse, Elses, terminatorClass, Openers
      <4>2. ~Returned
        BY <1>1 DEF Returned, InCmd
      <4>. QED  BY <4>1, <4>2
    <3>. QED  BY <3>1, MovesFramed DEF Moves
  <2>2. OpenSections' = SectionsAbove(frames', t)
    BY <2>1, OpenThen
  <2>3. frames' = SubSeq(frames, 1, Len(frames) - 1)
    BY <1>1 DEF Callers
  <2>. QED  BY <1>3, <1>4, <2>2, <2>3, SectionsReturn
<1>. QED  BY <1>3, <1>5, <1>6 DEF Flow!Leave

\* Every step of the printer is one of ScionFlow, or none.
LEMMA FlowStep ==
  ASSUME PrinterInv, PrinterInv', [Next]_vars, IsProper
  PROVE  Flow!Next \/ UNCHANGED Flow!flowVars
<1>1. PrinterTypeOK /\ PrinterTypeOK'
  BY DEF PrinterInv
<1>2. PICK t \in Nat : Framed(chain, curr, frames, t)
  BY DEF PrinterInv, FrameInv
<1>3. CASE UNCHANGED vars
  BY <1>3 DEF vars, Flow!flowVars, OpenSections
<1>4. CASE Next
  <2>1. Moves /\ chain' = chain
    BY <1>1, <1>2, <1>4, StepMoves
  <2>2. CASE Over \/ Included
    BY <1>1, <1>2, <2>1, <2>2, FlowPlain DEF Flow!Next
  <2>3. CASE Returned
    BY <1>1, <1>2, <2>1, <2>3, FlowReturned
  <2>4. CASE \E section \in Sections, n \in Nat : Entered(section, n)
    BY <1>1, <1>2, <2>1, <2>4, FlowEnter DEF Flow!Next
  <2>5. CASE Passed
    BY <1>1, <2>1, <2>5, FlowPass DEF Flow!Next
  <2>6. CASE Turned
    BY <1>1, <1>2, <2>1, <2>6, FlowAgain DEF Flow!Next
  <2>7. CASE Left
    BY <1>1, <1>2, <2>1, <2>7, FlowLeave DEF Flow!Next
  <2>. QED  BY <2>1, <2>2, <2>3, <2>4, <2>5, <2>6, <2>7 DEF Moves
<1>. QED  BY <1>3, <1>4

\* First no section is open.
LEMMA FlowInit ==
  ASSUME Init, IsProper
  PROVE  Flow!Init
<1>1. PrinterTypeOK
  BY TypedInit
<1>2. Framed(chain, curr, frames, 1)
  BY <1>1, FramedInit
<1>3. OpenSections = SectionsAbove(frames, 1) /\ frames \in Seq(Frames)
  BY <1>1, <1>2, OpenNow
<1>4. Len(frames) = 1
  BY DEF Init
<1>5. OpenSections = <<>>
  BY <1>3, <1>4, SectionsNone
<1>6. curr = Flow!next_(chain, 1)
  <2>1. curr = next_(chain, 1)
    BY DEF Init
  <2>. QED  BY <2>1, FlowSame, Zenon
<1>7. chain \in Chains
  BY DEF Init
<1>. QED  BY <1>5, <1>6, <1>7 DEF Flow!Init

\* The printer implements ScionFlow: a properly nested template of any size is
\* rendered as its brackets say, section by section.
THEOREM PrinterImplementsFlow == Spec => ImplementsFlow
<1>1. Init => ImplementsFlowInit
  BY FlowInit DEF ImplementsFlowInit
<1>2. PrinterInv /\ PrinterInv' /\ [Next]_vars => [ImplementsFlowNext]_vars
  BY FlowStep DEF ImplementsFlowNext
<1>. QED  BY <1>1, <1>2, PrinterInvInit, PrinterInvNext, PTL DEF Spec, ImplementsFlow
=============================================================================
