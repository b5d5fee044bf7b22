------------------------- MODULE ScionFilterProofs -------------------------
(***************************************************************************)
(* The dictionary entries of the filters, for every set of filters and     *)
(* every nesting: what the assertions of the code say holds, and a template*)
(* whose filters nest in one place only never meets a missing mode, no     *)
(* text is lost or doubled on its way through any of them, and the entries *)
(* implement the stack of open filters of ScionFilterStack.                *)
(***************************************************************************)
EXTENDS ScionFilter, NaturalsLemmas, SequenceTheorems, TLAPS

\* What an array gives when its last object is taken off.
LEMMA FrontLast ==
  ASSUME NEW S, NEW s \in Seq(S), Len(s) > 0
  PROVE  /\ Last(s) \in S
         /\ Front(s) \in Seq(S)
         /\ Len(Front(s)) = Len(s) - 1
<1>. DEFINE n == Len(s)
<1>1. n \in Nat /\ n > 0
  BY LenProperties
<1>2. \A i \in 1..n : s[i] \in S
  BY ElementOfSeq
<1>3. Last(s) = s[n] /\ Front(s) = SubSeq(s, 1, n - 1)
  BY DEF Last, Front
<1>. HIDE DEF n
<1>4. /\ n \in 1..n
      /\ 1..(n - 1) \subseteq 1..n
      /\ n - 1 \in Int
      /\ (IF 1 <= n - 1 THEN (n - 1) - 1 + 1 ELSE 0) = n - 1
  BY <1>1
<1>5. \A i \in 1..(n - 1) : s[i] \in S
  BY <1>2, <1>4
<1>6. SubSeq(s, 1, n - 1) \in Seq(S) /\ Len(SubSeq(s, 1, n - 1)) = n - 1
  BY <1>4, <1>5, SubSeqProperties
<1>. QED  BY <1>2, <1>3, <1>4, <1>6 DEF n

\* An array that is nil counts nothing.
LEMMA CountPositive ==
  ASSUME NEW S, NEW array \in Seq(S) \cup {Nil}, Count(array) > 0
  PROVE  array \in Seq(S) /\ array # Nil /\ Len(array) > 0
<1>1. CASE array = Nil
  <2>1. Count(array) = 0
    BY <1>1 DEF Count
  <2>2. ~(0 > 0)
    OBVIOUS
  <2>. QED  BY <2>1, <2>2
<1>2. CASE array # Nil
  <2>1. Count(array) = Len(array)
    BY <1>2 DEF Count
  <2>. QED  BY <1>2, <2>1
<1>. QED  BY <1>1, <1>2

LEMMA FilterInvInit == Init => FilterInv
BY NilAssumption DEF Init, FilterInv, LocalsTypeOK, NestingAsserts, StacksAligned

\* What pushing the current filter leaves of the two arrays.
LEMMA FilterInvPush ==
  ASSUME FilterInv, PushCurrentFilter
  PROVE  /\ filterStack' \in Seq(Filters) \cup {Nil}
         /\ modeStack' \in Seq(Modes) \cup {Nil}
         /\ filterStack' = Nil => modeStack' = Nil
         /\ StacksAligned'
<1>1. CASE filter = Nil
  BY <1>1 DEF FilterInv, LocalsTypeOK, NestingAsserts, StacksAligned, PushCurrentFilter, Count
<1>2. CASE filter # Nil /\ filterStack = Nil
  <2>1. filterStack' = <<filter>> /\ modeStack' = <<mode>>
    BY <1>2 DEF PushCurrentFilter
  <2>2. filter \in Filters /\ mode \in Modes
    BY <1>2 DEF FilterInv, LocalsTypeOK, NestingAsserts
  <2>3. filterStack' \in Seq(Filters) /\ modeStack' \in Seq(Modes)
        /\ Len(filterStack') = 1 /\ Len(modeStack') = 1
    BY <2>1, <2>2
  <2>. QED  BY <2>3, NilAssumption DEF StacksAligned, Count
<1>3. CASE filter # Nil /\ filterStack # Nil
  <2>1. filter \in Filters /\ mode \in Modes /\ filterStack \in Seq(Filters)
    BY <1>3 DEF FilterInv, LocalsTypeOK, NestingAsserts
  <2>2. /\ filterStack' \in Seq(Filters)
        /\ Len(filterStack') = Len(filterStack) + 1
    BY <1>3, <2>1, AppendProperties DEF PushCurrentFilter
  <2>3. CASE modeStack = Nil
    BY <1>3, <2>2, <2>3, NilAssumption DEF PushCurrentFilter, StacksAligned
  <2>4. CASE modeStack # Nil
    <3>1. modeStack \in Seq(Modes) /\ Len(modeStack) = Len(filterStack)
      BY <1>3, <2>4 DEF FilterInv, LocalsTypeOK, StacksAligned, Count
    <3>2. /\ modeStack' \in Seq(Modes)
          /\ Len(modeStack') = Len(modeStack) + 1
      BY <1>3, <2>1, <2>4, <3>1, AppendProperties DEF PushCurrentFilter
    <3>. QED  BY <2>2, <3>1, <3>2, NilAssumption DEF StacksAligned, Count
  <2>. QED  BY <2>3, <2>4
<1>. QED  BY <1>1, <1>2, <1>3

\* What popping the enclosing filter leaves of the two arrays.
LEMMA FilterInvPop ==
  ASSUME FilterInv, RenderEndFilterToEnclosing
  PROVE  FilterInv'
<1>1. filterStack \in Seq(Filters) /\ filterStack # Nil /\ Len(filterStack) > 0
  BY CountPositive DEF RenderEndFilterToEnclosing, FilterInv, LocalsTypeOK
<1>2. /\ filter' \in Filters
      /\ filterStack' \in Seq(Filters)
      /\ Len(filterStack') = Len(filterStack) - 1
  BY <1>1, FrontLast DEF RenderEndFilterToEnclosing
<1>3. mode \in Modes
  BY DEF RenderEndFilterToEnclosing, FilterInv, LocalsTypeOK, NestingAsserts
<1>4. CASE Count(modeStack) > 0
  <2>1. modeStack \in Seq(Modes) /\ modeStack # Nil /\ Len(modeStack) > 0
    BY <1>4, CountPositive DEF FilterInv, LocalsTypeOK
  <2>3. Len(modeStack) = Len(filterStack)
    BY <1>1, <2>1 DEF FilterInv, StacksAligned, Count
  <2>2. /\ mode' \in Modes
        /\ modeStack' \in Seq(Modes)
        /\ Len(modeStack') = Len(modeStack) - 1
        /\ raised' = raised
    BY <1>4, <2>1, FrontLast DEF RenderEndFilterToEnclosing
  <2>. QED
    BY <1>2, <2>2, <2>3, NilAssumption
    DEF FilterInv, LocalsTypeOK, NestingAsserts, StacksAligned, Count
<1>5. CASE ~(Count(modeStack) > 0)
  <2>1. modeStack = Nil
    BY <1>1, <1>5 DEF FilterInv, StacksAligned, Count
  <2>2. mode' = mode /\ modeStack' = modeStack /\ raised' = "nil filter mode"
    BY <1>5 DEF RenderEndFilterToEnclosing
  <2>. QED
    BY <1>2, <1>3, <2>1, <2>2, NilAssumption
    DEF FilterInv, LocalsTypeOK, NestingAsserts, StacksAligned
<1>. QED  BY <1>4, <1>5

LEMMA FilterInvNext == FilterInv /\ [Next]_vars => FilterInv'
<1>. SUFFICES ASSUME FilterInv, [Next]_vars PROVE FilterInv'
  OBVIOUS
<1>1. ASSUME NEW f \in Filters, NEW m \in Modes, RenderFilter(f, m) PROVE FilterInv'
  BY <1>1, FilterInvPush, NilAssumption
  DEF RenderFilter, FilterInv, LocalsTypeOK, NestingAsserts
<1>2. CASE RenderFilterNotAFilter
  BY <1>2, FilterInvPush DEF RenderFilterNotAFilter, FilterInv, LocalsTypeOK, NestingAsserts
<1>3. CASE RenderStrayEndFilter
  BY <1>3
  DEF RenderStrayEndFilter, FilterInv, LocalsTypeOK, NestingAsserts, StacksAligned, Count
<1>4. CASE RenderEndFilterToEnclosing
  BY <1>4, FilterInvPop
<1>5. CASE RenderEndFilterOutermost
  BY <1>5, NilAssumption
  DEF RenderEndFilterOutermost, FilterInv, LocalsTypeOK, NestingAsserts, StacksAligned, Count
<1>6. ASSUME NEW bits, RenderText(bits) PROVE FilterInv'
  BY <1>6 DEF RenderText, FilterInv, LocalsTypeOK, NestingAsserts, StacksAligned, Count
<1>7. CASE FilterFunction
  BY <1>7 DEF FilterFunction, FilterInv, LocalsTypeOK, NestingAsserts, StacksAligned, Count
<1>8. CASE UNCHANGED vars
  BY <1>8 DEF vars, FilterInv, LocalsTypeOK, NestingAsserts, StacksAligned, Count
<1>. QED
  BY <1>1, <1>2, <1>3, <1>4, <1>5, <1>6, <1>7, <1>8 DEF Next

\* The entries have their types, an installed filter has its mode, no stack of
\* modes is there without a stack of filters, and the two run level: what the
\* assertions of -[MulleScionFilter renderInto:] take for granted.
THEOREM FilterStacksSound == Spec => []FilterInv
BY FilterInvInit, FilterInvNext, PTL DEF Spec

-----------------------------------------------------------------------------
\* In a template that nests its filters in one place only, an enclosing filter
\* always has a stack of modes to come back from.
EnclosingFound == /\ Count(filterStack) > 0 /\ Running => modeStack # Nil
                  /\ EndFilterFindsOptions

OnceInv == /\ FilterInv
           /\ ~again => EnclosingFound

LEMMA OnceInvNext == OnceInv /\ [Next]_vars => OnceInv'
<1>. SUFFICES ASSUME FilterInv, ~again => EnclosingFound, [Next]_vars, FilterInv', ~again'
              PROVE  EnclosingFound'
  BY FilterInvNext DEF OnceInv
<1>2. ASSUME NEW f \in Filters, NEW m \in Modes, RenderFilter(f, m) PROVE EnclosingFound'
  <2>1. raised' = raised /\ PushCurrentFilter /\ ~NestsAgain /\ EnclosingFound
    BY <1>2 DEF RenderFilter
  <2>2. CASE filter = Nil
    BY <2>1, <2>2 DEF EnclosingFound, EndFilterFindsOptions, PushCurrentFilter, Running, Count
  <2>3. CASE filter # Nil
    <3>1. filterStack = Nil => modeStack' = <<mode>> /\ mode \in Modes
      BY <2>1, <2>3 DEF PushCurrentFilter, FilterInv, LocalsTypeOK, NestingAsserts
    <3>2. filterStack # Nil => modeStack' = Append(modeStack, mode) /\ mode \in Modes
                               /\ modeStack \in Seq(Modes)
      BY <2>1, <2>3
      DEF PushCurrentFilter, NestsAgain, FilterInv, LocalsTypeOK, NestingAsserts
    <3>3. modeStack' \in Seq(Modes)
      <4>1. CASE filterStack = Nil
        <5>1. modeStack' = <<mode>> /\ mode \in Modes
          BY <3>1, <4>1
        <5>2. <<mode>> \in Seq(Modes)
          BY <5>1
        <5>. QED  BY <5>1, <5>2
      <4>2. CASE filterStack # Nil
        BY <3>2, <4>2, AppendProperties
      <4>. QED  BY <4>1, <4>2
    <3>. QED  BY <2>1, <3>3, NilAssumption DEF EnclosingFound, EndFilterFindsOptions
  <2>. QED  BY <2>2, <2>3
<1>3. CASE RenderFilterNotAFilter
  BY <1>3 DEF RenderFilterNotAFilter, EnclosingFound, EndFilterFindsOptions, Running
<1>4. CASE RenderStrayEndFilter
  BY <1>4 DEF RenderStrayEndFilter, EnclosingFound, EndFilterFindsOptions, Running
<1>5. CASE RenderEndFilterToEnclosing
  <2>1. /\ filterStack \in Seq(Filters) /\ filterStack # Nil /\ Len(filterStack) > 0
        /\ modeStack # Nil /\ modeStack \in Seq(Modes)
    BY <1>5, CountPositive DEF RenderEndFilterToEnclosing, EnclosingFound, FilterInv, LocalsTypeOK
  <2>2. Len(modeStack) > 0 /\ Count(modeStack) > 0
    BY <2>1 DEF FilterInv, StacksAligned, Count
  <2>3. modeStack' \in Seq(Modes) /\ raised' = raised /\ EnclosingFound
    BY <1>5, <2>1, <2>2, FrontLast DEF RenderEndFilterToEnclosing
  <2>. QED  BY <2>3, NilAssumption DEF EnclosingFound, EndFilterFindsOptions
<1>6. CASE RenderEndFilterOutermost
  BY <1>6 DEF RenderEndFilterOutermost, EnclosingFound, EndFilterFindsOptions, Running, Count
<1>7. ASSUME NEW bits, RenderText(bits) PROVE EnclosingFound'
  BY <1>7 DEF RenderText, EnclosingFound, EndFilterFindsOptions, Running, Count
<1>8. CASE FilterFunction
  BY <1>8 DEF FilterFunction, EnclosingFound, EndFilterFindsOptions, Running, Count
<1>9. CASE UNCHANGED vars
  BY <1>9 DEF vars, EnclosingFound, EndFilterFindsOptions, Running, Count
<1>. QED
  BY <1>2, <1>3, <1>4, <1>5, <1>6, <1>7, <1>8, <1>9 DEF Next

\* RELEASENOTES 1853.1 kept, for the templates that nest filters in one place only:
\* endfilter always finds the options of the filter it returns to.
THEOREM OnceFindsOptions == Spec => []FindsOptionsOnce
<1>1. Init => OnceInv
  BY FilterInvInit, NilAssumption DEF Init, OnceInv, EnclosingFound, EndFilterFindsOptions, Count
<1>2. OnceInv => FindsOptionsOnce
  BY DEF OnceInv, EnclosingFound, FindsOptionsOnce
<1>. QED  BY <1>1, <1>2, OnceInvNext, PTL DEF Spec

-----------------------------------------------------------------------------
(* Where the text is. *)

\* Two texts are the same pieces, whatever filters they went through.
SameIds(x, y) == /\ DOMAIN x = DOMAIN y
                 /\ \A i \in DOMAIN x : x[i].id = y[i].id

\* A text put behind another one.
PutBehind(texts, t, x) == [texts EXCEPT ![t] = @ \o x]

\* Where the places of a text put behind another one are.
LEMMA Behind ==
  ASSUME NEW S, NEW s \in Seq(S), NEW x \in Seq(S)
  PROVE  /\ s \o x \in Seq(S)
         /\ DOMAIN s \subseteq DOMAIN (s \o x)
         /\ \A i \in DOMAIN s : (s \o x)[i] = s[i]
         /\ \A i \in DOMAIN x : Len(s) + i \in DOMAIN (s \o x) /\ (s \o x)[Len(s) + i] = x[i]
         /\ \A i \in DOMAIN (s \o x) : i \in DOMAIN s \/ (i - Len(s) \in DOMAIN x /\ (s \o x)[i] = x[i - Len(s)]
                                                          /\ i \notin DOMAIN s)
<1>. DEFINE n == Len(s)
            m == Len(x)
            z == s \o x
<1>1. n \in Nat /\ m \in Nat /\ DOMAIN s = 1..n /\ DOMAIN x = 1..m
  OBVIOUS
<1>2. z \in Seq(S) /\ Len(z) = n + m /\ DOMAIN z = 1..(n + m)
  BY ConcatProperties
<1>3. \A i \in 1..(n + m) : z[i] = IF i <= n THEN s[i] ELSE x[i - n]
  BY ConcatProperties
<1>. HIDE DEF n, m, z
<1>4. /\ 1..n \subseteq 1..(n + m)
      /\ \A i \in 1..n : z[i] = s[i]
      /\ \A i \in 1..m : n + i \in 1..(n + m) /\ z[n + i] = x[i]
      /\ \A i \in 1..(n + m) : i \in 1..n \/ (i - n \in 1..m /\ z[i] = x[i - n] /\ i \notin 1..n)
  BY <1>1, <1>3
<1>. QED  BY <1>1, <1>2, <1>4 DEF n, m, z

\* The last of the texts can be put behind any of the others.
LEMMA Absorbed ==
  ASSUME NEW texts \in Seq(Seq(Atoms)), NEW x \in Seq(Atoms), NEW n \in Nat,
         NEW t \in DOMAIN texts, EachOnce(Append(texts, x), n)
  PROVE  /\ PutBehind(texts, t, x) \in Seq(Seq(Atoms))
         /\ EachOnce(PutBehind(texts, t, x), n)
<1>. DEFINE old == Append(texts, x)
            new == PutBehind(texts, t, x)
            k == Len(texts)
            s == texts[t]
            z == s \o x
            c == Len(s)
<1>1. /\ k \in Nat /\ DOMAIN texts = 1..k /\ DOMAIN old = 1..(k + 1)
      /\ old[k + 1] = x
      /\ \A u \in 1..k : old[u] = texts[u]
  BY AppendProperties
<1>2. s \in Seq(Atoms) /\ c \in Nat
  OBVIOUS
<1>3. /\ z \in Seq(Atoms)
      /\ DOMAIN s \subseteq DOMAIN z
      /\ \A i \in DOMAIN s : z[i] = s[i]
      /\ \A i \in DOMAIN x : c + i \in DOMAIN z /\ z[c + i] = x[i]
      /\ \A i \in DOMAIN z : i \in DOMAIN s \/ (i - c \in DOMAIN x /\ z[i] = x[i - c] /\ i \notin DOMAIN s)
  BY <1>2, Behind
<1>4. /\ new \in Seq(Seq(Atoms))
      /\ DOMAIN new = 1..k
      /\ new[t] = z
      /\ \A u \in 1..k : u # t => new[u] = texts[u]
  BY <1>1, <1>3, ExceptSeq DEF PutBehind
<1>5. t \in 1..k /\ \A u \in 1..k : u # k + 1 /\ u \in 1..(k + 1)
  BY <1>1
<1>5a. k + 1 \in 1..(k + 1) /\ \A u \in 1..(k + 1) : u = k + 1 \/ u \in 1..k
  BY <1>1
<1>5b. \A i \in DOMAIN z : c + (i - c) = i
  BY <1>2, <1>3
<1>5c. DOMAIN z \subseteq Int /\ DOMAIN x \subseteq Int
  BY <1>3
<1>. HIDE DEF old, new, k, s, z, c
<1>6. /\ \A u \in DOMAIN old : \A i \in DOMAIN old[u] : old[u][i].id \in 1..n
      /\ \A id \in 1..n : \E u \in DOMAIN old : \E i \in DOMAIN old[u] : old[u][i].id = id
      /\ \A u, v \in DOMAIN old : \A i \in DOMAIN old[u], j \in DOMAIN old[v] :
           old[u][i].id = old[v][j].id => u = v /\ i = j
  BY DEF old, EachOnce
\* where a place of the new texts was in the old ones
<1>. DEFINE Text(u, i) == IF u = t /\ i \notin DOMAIN s THEN k + 1 ELSE u
            Place(u, i) == IF u = t /\ i \notin DOMAIN s THEN i - c ELSE i
<1>7. ASSUME NEW u \in 1..k, NEW i \in DOMAIN new[u]
      PROVE  /\ Text(u, i) \in DOMAIN old /\ Place(u, i) \in DOMAIN old[Text(u, i)]
             /\ old[Text(u, i)][Place(u, i)] = new[u][i]
  <2>1. CASE u = t /\ i \notin DOMAIN s
    <3>1. i \in DOMAIN z /\ new[u] = z
      BY <1>4, <2>1
    <3>. QED  BY <1>1, <1>3, <1>5a, <2>1, <3>1
  <2>2. CASE u = t /\ i \in DOMAIN s
    <3>1. new[u] = z /\ old[u] = s
      BY <1>1, <1>4, <2>2 DEF s
    <3>. QED  BY <1>1, <1>3, <1>5, <2>2, <3>1
  <2>3. CASE u # t
    BY <1>1, <1>4, <1>5, <2>3
  <2>. QED  BY <2>1, <2>2, <2>3
<1>8. ASSUME NEW u \in 1..k, NEW v \in 1..k, NEW i \in DOMAIN new[u], NEW j \in DOMAIN new[v],
             Text(u, i) = Text(v, j), Place(u, i) = Place(v, j)
      PROVE  u = v /\ i = j
  <2>1. CASE u = t /\ i \notin DOMAIN s
    <3>1. v = t /\ j \notin DOMAIN s
      BY <1>5, <1>8, <2>1
    <3>2. i \in DOMAIN z /\ j \in DOMAIN z /\ i - c = j - c
      BY <1>4, <1>8, <2>1, <3>1
    <3>3. c + (i - c) = i /\ c + (j - c) = j
      BY <1>5b, <3>2
    <3>. QED  BY <2>1, <3>1, <3>2, <3>3
  <2>2. CASE ~(u = t /\ i \notin DOMAIN s)
    BY <1>5, <1>8, <2>2
  <2>. QED  BY <2>1, <2>2
<1>9. ASSUME NEW u \in DOMAIN old, NEW i \in DOMAIN old[u]
      PROVE  \E v \in 1..k : \E j \in DOMAIN new[v] : new[v][j] = old[u][i]
  <2>1. CASE u = k + 1
    <3>1. i \in DOMAIN x /\ old[u][i] = x[i]
      BY <1>1, <2>1
    <3>2. c + i \in DOMAIN new[t] /\ new[t][c + i] = x[i]
      BY <1>3, <1>4, <3>1
    <3>. QED  BY <1>5, <3>1, <3>2
  <2>2. CASE u = t
    <3>1. old[u] = s /\ i \in DOMAIN s
      BY <1>1, <1>5, <2>2 DEF s
    <3>2. i \in DOMAIN new[t] /\ new[t][i] = s[i]
      BY <1>3, <1>4, <3>1
    <3>. QED  BY <1>5, <3>1, <3>2
  <2>3. CASE u # k + 1 /\ u # t
    <3>1. u \in 1..k
      BY <1>1, <1>5a, <2>3
    <3>2. old[u] = new[u]
      BY <1>1, <1>4, <2>3, <3>1
    <3>. QED  BY <3>1, <3>2
  <2>. QED  BY <2>1, <2>2, <2>3
<1>. HIDE DEF Text, Place
<1>10. ASSUME NEW u \in 1..k, NEW i \in DOMAIN new[u]  PROVE new[u][i].id \in 1..n
  BY <1>6, <1>7
<1>11. ASSUME NEW id \in 1..n
       PROVE  \E u \in 1..k : \E i \in DOMAIN new[u] : new[u][i].id = id
  <2>1. PICK u \in DOMAIN old : \E i \in DOMAIN old[u] : old[u][i].id = id
    BY <1>6
  <2>2. PICK i \in DOMAIN old[u] : old[u][i].id = id
    BY <2>1
  <2>. QED  BY <1>9, <2>2
<1>12. ASSUME NEW u \in 1..k, NEW v \in 1..k, NEW i \in DOMAIN new[u], NEW j \in DOMAIN new[v],
              new[u][i].id = new[v][j].id
       PROVE  u = v /\ i = j
  <2>1. old[Text(u, i)][Place(u, i)].id = old[Text(v, j)][Place(v, j)].id
    BY <1>7, <1>12
  <2>2. Text(u, i) = Text(v, j) /\ Place(u, i) = Place(v, j)
    BY <1>6, <1>7, <2>1
  <2>. QED  BY <1>8, <2>2
<1>13. EachOnce(new, n)
  BY <1>4, <1>10, <1>11, <1>12, ZenonT(60) DEF EachOnce
<1>. QED  BY <1>4, <1>13 DEF new

\* A new filter object holds nothing.
LEMMA EmptyAdded ==
  ASSUME NEW texts \in Seq(Seq(Atoms)), NEW n \in Nat, EachOnce(texts, n)
  PROVE  EachOnce(Append(texts, <<>>), n)
<1>. DEFINE new == Append(texts, <<>>)
            k == Len(texts)
<1>1. /\ k \in Nat /\ DOMAIN texts = 1..k /\ DOMAIN new = 1..(k + 1)
      /\ new[k + 1] = <<>>
      /\ \A u \in 1..k : new[u] = texts[u]
  BY AppendProperties
<1>2. \A u \in 1..(k + 1) : u = k + 1 \/ u \in 1..k
  BY <1>1
<1>3. 1..k \subseteq 1..(k + 1)
  BY <1>1
<1>4. DOMAIN <<>> = {}
  OBVIOUS
<1>0. EachOnce(texts, n)
  OBVIOUS
<1>. HIDE DEF new, k
<1>5. \A t \in DOMAIN new : \A i \in DOMAIN new[t] : t \in DOMAIN texts /\ new[t] = texts[t]
  BY <1>1, <1>2, <1>3, <1>4
<1>6. \A t \in DOMAIN texts : \A i \in DOMAIN texts[t] : t \in DOMAIN new /\ new[t] = texts[t]
  BY <1>1, <1>2, <1>3, <1>4
<1>7. \A t \in DOMAIN new : \A i \in DOMAIN new[t] : new[t][i].id \in 1..n
  BY <1>0, <1>5 DEF EachOnce
<1>8. ASSUME NEW id \in 1..n  PROVE \E t \in DOMAIN new : \E i \in DOMAIN new[t] : new[t][i].id = id
  <2>1. PICK t \in DOMAIN texts : \E i \in DOMAIN texts[t] : texts[t][i].id = id
    BY <1>0 DEF EachOnce
  <2>2. PICK i \in DOMAIN texts[t] : texts[t][i].id = id
    BY <2>1
  <2>. QED  BY <1>6, <2>2
<1>9. ASSUME NEW t \in DOMAIN new, NEW u \in DOMAIN new, NEW i \in DOMAIN new[t], NEW j \in DOMAIN new[u],
             new[t][i].id = new[u][j].id
      PROVE  t = u /\ i = j
  BY <1>0, <1>5, <1>9 DEF EachOnce
<1>10. EachOnce(new, n)
  BY <1>7, <1>8, <1>9 DEF EachOnce
<1>. QED  BY <1>10 DEF new

\* And nothing else changes when an object that holds nothing is forgotten.
LEMMA EmptyDropped ==
  ASSUME NEW texts \in Seq(Seq(Atoms)), NEW n \in Nat, EachOnce(Append(texts, <<>>), n)
  PROVE  EachOnce(texts, n)
<1>. DEFINE old == Append(texts, <<>>)
            k == Len(texts)
<1>1. /\ k \in Nat /\ DOMAIN texts = 1..k /\ DOMAIN old = 1..(k + 1)
      /\ old[k + 1] = <<>>
      /\ \A u \in 1..k : old[u] = texts[u]
  BY AppendProperties
<1>2. \A u \in 1..(k + 1) : u = k + 1 \/ u \in 1..k
  BY <1>1
<1>3. 1..k \subseteq 1..(k + 1)
  BY <1>1
<1>4. DOMAIN <<>> = {}
  OBVIOUS
<1>0. EachOnce(old, n)
  OBVIOUS
<1>. HIDE DEF old, k
<1>5. \A t \in DOMAIN texts : \A i \in DOMAIN texts[t] : t \in DOMAIN old /\ texts[t] = old[t]
  BY <1>1, <1>2, <1>3, <1>4
<1>6. \A t \in DOMAIN old : \A i \in DOMAIN old[t] : t \in DOMAIN texts /\ texts[t] = old[t]
  BY <1>1, <1>2, <1>3, <1>4
<1>7. \A t \in DOMAIN texts : \A i \in DOMAIN texts[t] : texts[t][i].id \in 1..n
  BY <1>0, <1>5 DEF EachOnce
<1>8. ASSUME NEW id \in 1..n  PROVE \E t \in DOMAIN texts : \E i \in DOMAIN texts[t] : texts[t][i].id = id
  <2>1. PICK t \in DOMAIN old : \E i \in DOMAIN old[t] : old[t][i].id = id
    BY <1>0 DEF EachOnce
  <2>2. PICK i \in DOMAIN old[t] : old[t][i].id = id
    BY <2>1
  <2>. QED  BY <1>6, <2>2
<1>9. ASSUME NEW t \in DOMAIN texts, NEW u \in DOMAIN texts, NEW i \in DOMAIN texts[t], NEW j \in DOMAIN texts[u],
             texts[t][i].id = texts[u][j].id
      PROVE  t = u /\ i = j
  BY <1>0, <1>5, <1>9 DEF EachOnce
<1>10. EachOnce(texts, n)
  BY <1>7, <1>8, <1>9 DEF EachOnce
<1>. QED  BY <1>10

\* The filters a text went through make no difference.
LEMMA Relabelled ==
  ASSUME NEW texts \in Seq(Seq(Atoms)), NEW x \in Seq(Atoms), NEW y \in Seq(Atoms),
         NEW n \in Nat, SameIds(x, y), EachOnce(Append(texts, x), n)
  PROVE  EachOnce(Append(texts, y), n)
<1>. DEFINE old == Append(texts, x)
            new == Append(texts, y)
            k == Len(texts)
<1>1. /\ k \in Nat /\ DOMAIN old = 1..(k + 1) /\ DOMAIN new = 1..(k + 1)
      /\ old[k + 1] = x /\ new[k + 1] = y
      /\ \A u \in 1..k : old[u] = texts[u] /\ new[u] = texts[u]
  BY AppendProperties
<1>2. \A u \in 1..(k + 1) : u = k + 1 \/ u \in 1..k
  BY <1>1
<1>. HIDE DEF old, new, k
<1>3. \A u \in 1..(k + 1) : /\ DOMAIN new[u] = DOMAIN old[u]
                            /\ \A i \in DOMAIN old[u] : new[u][i].id = old[u][i].id
  BY <1>1, <1>2 DEF SameIds
<1>4. EachOnce(old, n)
  BY DEF old
<1>5. EachOnce(new, n)
  <2>1. \A t \in DOMAIN new : \A i \in DOMAIN new[t] : new[t][i].id \in 1..n
    BY <1>1, <1>3, <1>4 DEF EachOnce
  <2>2. ASSUME NEW id \in 1..n
        PROVE  \E t \in DOMAIN new : \E i \in DOMAIN new[t] : new[t][i].id = id
    <3>1. PICK t \in DOMAIN old : \E i \in DOMAIN old[t] : old[t][i].id = id
      BY <1>4 DEF EachOnce
    <3>2. PICK i \in DOMAIN old[t] : old[t][i].id = id
      BY <3>1
    <3>. QED  BY <1>1, <1>3, <3>2
  <2>3. \A t, u \in DOMAIN new : \A i \in DOMAIN new[t], j \in DOMAIN new[u] :
          new[t][i].id = new[u][j].id => t = u /\ i = j
    BY <1>1, <1>3, <1>4, SMTT(40) DEF EachOnce
  <2>. QED  BY <2>1, <2>2, <2>3 DEF EachOnce
<1>. QED  BY <1>5 DEF new

\* The next piece of the template is nowhere yet.
LEMMA FreshAdded ==
  ASSUME NEW texts \in Seq(Seq(Atoms)), NEW n \in Nat, NEW x \in Seq(Atoms), EachOnce(texts, n),
         x = << [id |-> n + 1, by |-> <<>>] >>
  PROVE  EachOnce(Append(texts, x), n + 1)
<1>. DEFINE new == Append(texts, x)
            k == Len(texts)
<1>1. /\ k \in Nat /\ DOMAIN texts = 1..k /\ DOMAIN new = 1..(k + 1)
      /\ new[k + 1] = x
      /\ \A u \in 1..k : new[u] = texts[u]
  BY AppendProperties
<1>2. \A u \in 1..(k + 1) : u = k + 1 \/ u \in 1..k
  BY <1>1
<1>3. 1..k \subseteq 1..(k + 1) /\ k + 1 \in 1..(k + 1) /\ k + 1 \notin 1..k
  BY <1>1
<1>4. DOMAIN x = {1} /\ x[1].id = n + 1
  OBVIOUS
<1>5. /\ 1..n \subseteq 1..(n + 1) /\ n + 1 \in 1..(n + 1) /\ n + 1 \notin 1..n
      /\ \A id \in 1..(n + 1) : id \in 1..n \/ id = n + 1
  OBVIOUS
<1>. HIDE DEF new, k
<1>6. \A t \in DOMAIN new : \A i \in DOMAIN new[t] : new[t][i].id \in 1..(n + 1)
  BY <1>1, <1>2, <1>4, <1>5 DEF EachOnce
<1>7. \A id \in 1..(n + 1) : \E t \in DOMAIN new : \E i \in DOMAIN new[t] : new[t][i].id = id
  <2>. TAKE id \in 1..(n + 1)
  <2>1. CASE id = n + 1
    BY <1>1, <1>3, <1>4, <2>1
  <2>2. CASE id \in 1..n
    <3>1. PICK t \in DOMAIN texts : \E i \in DOMAIN texts[t] : texts[t][i].id = id
      BY <2>2 DEF EachOnce
    <3>. QED  BY <1>1, <1>3, <3>1
  <2>. QED  BY <1>5, <2>1, <2>2
<1>8. ASSUME NEW t \in DOMAIN new, NEW u \in DOMAIN new, NEW i \in DOMAIN new[t],
             NEW j \in DOMAIN new[u], new[t][i].id = new[u][j].id
      PROVE  t = u /\ i = j
  <2>1. CASE t \in 1..k /\ u \in 1..k
    BY <1>1, <1>8, <2>1, SMTT(40) DEF EachOnce
  <2>2. CASE t = k + 1 /\ u = k + 1
    BY <1>1, <1>4, <2>2
  <2>3. CASE t = k + 1 /\ u \in 1..k
    <3>1. new[t][i].id = n + 1 /\ new[u][j].id \in 1..n
      BY <1>1, <1>4, <2>3 DEF EachOnce
    <3>. QED  BY <1>5, <1>8, <3>1
  <2>4. CASE t \in 1..k /\ u = k + 1
    <3>1. new[u][j].id = n + 1 /\ new[t][i].id \in 1..n
      BY <1>1, <1>4, <2>4 DEF EachOnce
    <3>. QED  BY <1>5, <1>8, <3>1
  <2>. QED  BY <1>1, <1>2, <2>1, <2>2, <2>3, <2>4
<1>9. EachOnce(new, n + 1)
  BY <1>6, <1>7, <1>8 DEF EachOnce
<1>. QED  BY <1>9 DEF new

-----------------------------------------------------------------------------
(* The walk of a string through the filters. *)

\* The text of r is that of text, and the buffers are as before, or it is in the
\* buffer of one filter now, one that buffers.
Delivered(text, bufs, L, r) ==
  /\ r = [text |-> r.text, buffers |-> r.buffers]
  /\ \/ /\ r.text \in Seq(Atoms) /\ SameIds(text, r.text)
        /\ r.buffers = bufs
     \/ /\ r.text = Nil
        /\ \E l \in DOMAIN bufs, x \in Seq(Atoms) :
             /\ FilterAt(L, l) \in Buffering
             /\ SameIds(text, x)
             /\ r.buffers = PutBehind(bufs, l, x)

\* A filter is applied to every atom, and leaves its piece what it is.
LEMMA ThroughSame ==
  ASSUME NEW f \in Filters, NEW x \in Seq(Atoms)
  PROVE  Through(f, x) \in Seq(Atoms) /\ SameIds(x, Through(f, x))
<1>. DEFINE n == Len(x)
            y == Through(f, x)
<1>1. n \in Nat /\ DOMAIN x = 1..n /\ \A i \in 1..n : x[i] \in Atoms
  OBVIOUS
<1>2. y = [i \in 1..n |-> [x[i] EXCEPT !.by = Append(@, f)]]
  BY <1>1 DEF Through
<1>. HIDE DEF n, y
<1>3. ASSUME NEW i \in 1..n  PROVE y[i] \in Atoms /\ y[i].id = x[i].id
  <2>1. x[i].by \in Seq(Filters) /\ x[i] \in [id : Nat, by : Seq(Filters)]
    BY <1>1 DEF Atoms
  <2>2. Append(x[i].by, f) \in Seq(Filters)
    BY <2>1, AppendProperties
  <2>3. y[i] = [x[i] EXCEPT !.by = Append(x[i].by, f)]
    BY <1>2
  <2>. HIDE DEF Atoms
  <2>. QED  BY <2>1, <2>2, <2>3 DEF Atoms
<1>4. y \in Seq(Atoms) /\ DOMAIN y = 1..n
  BY <1>1, <1>2, <1>3
<1>. QED  BY <1>1, <1>3, <1>4 DEF SameIds, y

LEMMA SameIdsTransitive ==
  ASSUME NEW x, NEW y, NEW z, SameIds(x, y), SameIds(y, z)
  PROVE  SameIds(x, z)
BY DEF SameIds

\* One filter on the way.
LEMMA MeetDelivers ==
  ASSUME NEW text \in Seq(Atoms), NEW bufs \in Seq(Seq(Atoms)), NEW acc, NEW bits, NEW L,
         NEW level \in DOMAIN bufs, FilterAt(L, level) \in Filters,
         Delivered(text, bufs, L, acc)
  PROVE  Delivered(text, bufs, L, Meet(level, acc, bits, L))
<1>. DEFINE f == FilterAt(L, level)
            r == Meet(level, acc, bits, L)
<1>0. f \in Filters
  OBVIOUS
<1>1. CASE r = acc
  BY <1>1
<1>2. CASE r # acc
  <2>1. acc.text # Nil /\ r = Evaluate(f, level, acc)
    BY <1>2 DEF Meet
  <2>2. /\ acc.text \in Seq(Atoms) /\ SameIds(text, acc.text)
        /\ acc.buffers = bufs
        /\ acc = [text |-> acc.text, buffers |-> acc.buffers]
    BY <2>1 DEF Delivered
  <2>3. CASE f \in Buffering
    <3>. HIDE DEF r
    <3>1. r = [text |-> Nil, buffers |-> PutBehind(bufs, level, acc.text)]
      BY <2>1, <2>2, <2>3 DEF Evaluate, PutBehind
    <3>2. Delivered(text, bufs, L, r)
      BY <2>2, <2>3, <3>1 DEF Delivered
    <3>. QED  BY <3>2 DEF r
  <2>4. CASE f \notin Buffering
    <3>. HIDE DEF r, f
    <3>1. r = [text |-> Through(f, acc.text), buffers |-> bufs]
      BY <2>1, <2>2, <2>4 DEF Evaluate
    <3>2. Through(f, acc.text) \in Seq(Atoms) /\ SameIds(acc.text, Through(f, acc.text))
      BY <1>0, <2>2, ThroughSame
    <3>3. SameIds(text, Through(f, acc.text))
      BY <2>2, <3>2, SameIdsTransitive
    <3>4. Delivered(text, bufs, L, r)
      BY <3>1, <3>2, <3>3 DEF Delivered
    <3>. QED  BY <3>4 DEF r
  <2>. QED  BY <2>3, <2>4
<1>. QED  BY <1>1, <1>2

\* walked satisfies the equation of FilteredString as far as the n-th filter.
WalkedUpTo(text, bits, L, bufs, n, walked) ==
  walked = [k \in 0..n |-> IF k = 0
                           THEN [text |-> text, buffers |-> bufs]
                           ELSE Meet(DepthOf(L) + 1 - k, walked[k - 1], bits, L)]

\* The recursion has a solution.
LEMMA WalkExists ==
  ASSUME NEW text, NEW bits, NEW L, NEW bufs, NEW n \in Nat
  PROVE  \E walked : WalkedUpTo(text, bits, L, bufs, n, walked)
<1>. DEFINE S == {m \in Nat : \E walked : WalkedUpTo(text, bits, L, bufs, m, walked)}
            start == [text |-> text, buffers |-> bufs]
<1>1. 0 \in S
  <2>. DEFINE first == [k \in 0..0 |-> start]
  <2>1. first = [k \in 0..0 |-> IF k = 0 THEN start ELSE Meet(DepthOf(L) + 1 - k, first[k - 1], bits, L)]
    OBVIOUS
  <2>. HIDE DEF first
  <2>. QED  BY <2>1 DEF WalkedUpTo
<1>2. ASSUME NEW m \in Nat, m \in S  PROVE m + 1 \in S
  <2>1. PICK w : WalkedUpTo(text, bits, L, bufs, m, w)
    BY <1>2
  <2>. DEFINE next == [k \in 0..(m + 1) |-> IF k = m + 1 THEN Meet(DepthOf(L) + 1 - k, w[m], bits, L)
                                            ELSE w[k]]
  <2>2. DOMAIN next = 0..(m + 1) /\ next = [k \in 0..(m + 1) |-> next[k]]
    OBVIOUS
  <2>3. ASSUME NEW k \in 0..(m + 1)
        PROVE  next[k] = IF k = 0 THEN start ELSE Meet(DepthOf(L) + 1 - k, next[k - 1], bits, L)
    <3>1. \A i \in 0..m : w[i] = IF i = 0 THEN start ELSE Meet(DepthOf(L) + 1 - i, w[i - 1], bits, L)
      BY <2>1 DEF WalkedUpTo
    <3>2. CASE k = m + 1
      <4>1. next[k] = Meet(DepthOf(L) + 1 - k, w[m], bits, L) /\ k # 0 /\ k - 1 = m
        BY <3>2
      <4>2. next[m] = w[m]
        OBVIOUS
      <4>. QED  BY <4>1, <4>2
    <3>3. CASE k # m + 1
      <4>1. next[k] = w[k] /\ k \in 0..m
        BY <3>3
      <4>2. k # 0 => next[k - 1] = w[k - 1]
        BY <3>3
      <4>. HIDE DEF next, start
      <4>. QED  BY <3>1, <4>1, <4>2
    <3>. QED  BY <3>2, <3>3
  <2>. HIDE DEF next
  <2>4. WalkedUpTo(text, bits, L, bufs, m + 1, next)
    BY <2>2, <2>3 DEF WalkedUpTo
  <2>. QED  BY <2>4
<1>. HIDE DEF S
<1>3. n \in S
  BY <1>1, <1>2, SetInduction
<1>. QED  BY <1>3 DEF S

\* The states of the walk of FilteredString past n filters.
WalkOf(text, bits, L, bufs, n, w) ==
  /\ w[0] = [text |-> text, buffers |-> bufs]
  /\ \A k \in 1..n : w[k] = Meet(n + 1 - k, w[k - 1], bits, L)

LEMMA WalkIs ==
  ASSUME NEW text \in Seq(Atoms), NEW bits, NEW L, NEW bufs \in Seq(Seq(Atoms)), NEW n \in Nat,
         DepthOf(L) = n
  PROVE  \E w : WalkOf(text, bits, L, bufs, n, w) /\ FilteredString(text, bits, L, bufs) = w[n]
<1>. DEFINE start == [text |-> text, buffers |-> bufs]
            w == CHOOSE f : f = [k \in 0..n |-> IF k = 0 THEN start
                                                ELSE Meet(n + 1 - k, f[k - 1], bits, L)]
<1>1. FilteredString(text, bits, L, bufs) = w[n]
  BY DEF FilteredString
<1>2. PICK g : WalkedUpTo(text, bits, L, bufs, n, g)
  BY WalkExists
<1>3. \E f : f = [k \in 0..n |-> IF k = 0 THEN start ELSE Meet(n + 1 - k, f[k - 1], bits, L)]
  BY <1>2 DEF WalkedUpTo
<1>4. w = [k \in 0..n |-> IF k = 0 THEN start ELSE Meet(n + 1 - k, w[k - 1], bits, L)]
  BY <1>3
<1>. HIDE DEF w, start
<1>5. w[0] = start /\ \A k \in 1..n : w[k] = Meet(n + 1 - k, w[k - 1], bits, L)
  BY <1>4
<1>. QED  BY <1>1, <1>5 DEF WalkOf, start

\* The filters of the locals, one for each buffer.
FiltersAt(L, bufs) == /\ DepthOf(L) = Len(bufs)
                      /\ \A l \in DOMAIN bufs : FilterAt(L, l) \in Filters

\* MulleScionFilteredString gives the string back or leaves it in the buffer of one
\* filter: it does not drop it, and gives it to one filter at most to keep.
LEMMA FilteredDelivers ==
  ASSUME NEW text \in Seq(Atoms), NEW bufs \in Seq(Seq(Atoms)), NEW bits, NEW L,
         FiltersAt(L, bufs)
  PROVE  Delivered(text, bufs, L, FilteredString(text, bits, L, bufs))
<1>. DEFINE n == Len(bufs)
            start == [text |-> text, buffers |-> bufs]
            Good(r) == Delivered(text, bufs, L, r)
<1>1. n \in Nat /\ DepthOf(L) = n /\ DOMAIN bufs = 1..n
  BY DEF FiltersAt
<1>. HIDE DEF n
<1>2. PICK w : WalkOf(text, bits, L, bufs, n, w) /\ FilteredString(text, bits, L, bufs) = w[n]
  BY <1>1, WalkIs
<1>. DEFINE S == {k \in Nat : k <= n => Good(w[k])}
<1>5. Good(start)
  BY DEF Delivered, SameIds
<1>. HIDE DEF start, Good
<1>6. w[0] = start
  BY <1>2 DEF WalkOf, start
<1>7. ASSUME NEW k \in Nat, k \in S  PROVE k + 1 \in S
  <2>. SUFFICES ASSUME k + 1 <= n  PROVE Good(w[k + 1])
    OBVIOUS
  <2>1. k + 1 \in 0..n /\ k + 1 # 0 /\ (k + 1) - 1 = k /\ n + 1 - (k + 1) \in 1..n
    BY <1>1
  <2>2. w[k + 1] = Meet(n + 1 - (k + 1), w[k], bits, L)
    BY <1>2, <2>1 DEF WalkOf
  <2>3. Good(w[k])
    BY <1>1, <1>7, <2>1
  <2>4. FilterAt(L, n + 1 - (k + 1)) \in Filters
    BY <1>1, <2>1 DEF FiltersAt
  <2>. DEFINE acc == w[k]
              level == n + 1 - (k + 1)
  <2>. HIDE DEF acc, level
  <2>5. Delivered(text, bufs, L, acc)
    BY <2>3 DEF Good, acc
  <2>6. level \in DOMAIN bufs /\ FilterAt(L, level) \in Filters
    BY <1>1, <2>1, <2>4 DEF level
  <2>7. Delivered(text, bufs, L, Meet(level, acc, bits, L))
    BY <2>5, <2>6, MeetDelivers
  <2>8. w[k + 1] = Meet(level, acc, bits, L)
    BY <2>2 DEF acc, level
  <2>. QED  BY <2>7, <2>8 DEF Good
<1>8. 0 \in S
  BY <1>5, <1>6
<1>. HIDE DEF S
<1>9. n \in S
  BY <1>1, <1>7, <1>8, SetInduction
<1>. QED  BY <1>1, <1>2, <1>9 DEF S, Good

-----------------------------------------------------------------------------
(* No text is lost. *)

\* The filters that hand on what they are given hold nothing back.
DirectEmpty(L, bufs) == \A l \in DOMAIN bufs : FilterAt(L, l) \notin Buffering => bufs[l] = <<>>

\* All the places, one after the other.
All(o, ret, bufs) == <<o, ret>> \o bufs

\* The places of the text, one by one.
PlacedAs(o, ret, bufs, T) ==
  /\ T \in Seq(Seq(Atoms)) /\ DOMAIN T = 1..(Len(bufs) + 2) /\ Len(T) = Len(bufs) + 2
  /\ T[1] = o /\ T[2] = ret
  /\ \A l \in DOMAIN bufs : l + 2 \in DOMAIN T /\ T[l + 2] = bufs[l]
  /\ \A i \in DOMAIN T :
       i = 1 \/ i = 2 \/ (i - 2 \in DOMAIN bufs /\ T[i] = bufs[i - 2] /\ i # 1 /\ i # 2)

\* They are where they should be.
LEMMA PlacesAre ==
  ASSUME NEW o \in Seq(Atoms), NEW ret \in Seq(Atoms), NEW bufs \in Seq(Seq(Atoms))
  PROVE  PlacedAs(o, ret, bufs, All(o, ret, bufs))
<1>. DEFINE p == <<o, ret>>
            n == Len(bufs)
            T == All(o, ret, bufs)
<1>1. /\ p \in Seq(Seq(Atoms)) /\ Len(p) = 2 /\ p[1] = o /\ p[2] = ret
      /\ n \in Nat /\ DOMAIN bufs = 1..n
  OBVIOUS
<1>1a. T = p \o bufs
  BY DEF All
<1>1b. T \in Seq(Seq(Atoms)) /\ Len(T) = Len(p) + Len(bufs)
      /\ \A i \in 1..(Len(p) + Len(bufs)) : T[i] = IF i <= Len(p) THEN p[i] ELSE bufs[i - Len(p)]
  BY <1>1, <1>1a, ConcatProperties
<1>2. T \in Seq(Seq(Atoms)) /\ Len(T) = 2 + n
      /\ \A i \in 1..(2 + n) : T[i] = IF i <= 2 THEN p[i] ELSE bufs[i - 2]
  BY <1>1, <1>1b DEF n
<1>. HIDE DEF p, n
<1>3. DOMAIN T = 1..(n + 2) /\ Len(T) = n + 2
  BY <1>1, <1>2
<1>. HIDE DEF T
<1>4. T[1] = o /\ T[2] = ret
  BY <1>1, <1>2
<1>5. \A l \in 1..n : l + 2 \in 1..(n + 2) /\ T[l + 2] = bufs[l]
  <2>. TAKE l \in 1..n
  <2>1. l + 2 \in 1..(2 + n) /\ ~(l + 2 <= 2) /\ (l + 2) - 2 = l /\ l + 2 \in 1..(n + 2)
    BY <1>1
  <2>2. T[l + 2] = IF l + 2 <= 2 THEN p[l + 2] ELSE bufs[(l + 2) - 2]
    BY <1>2, <2>1
  <2>. QED  BY <2>1, <2>2
<1>6. \A i \in 1..(n + 2) : i = 1 \/ i = 2 \/ (i - 2 \in 1..n /\ T[i] = bufs[i - 2] /\ i # 1 /\ i # 2)
  BY <1>1, <1>2
<1>. QED  BY <1>1, <1>2, <1>3, <1>4, <1>5, <1>6 DEF n, T, PlacedAs

\* Text added at one of the places.
AddedAt(o, ret, bufs, x, T) ==
  /\ 1 \in DOMAIN T /\ PutBehind(T, 1, x) = All(o \o x, ret, bufs)
  /\ 2 \in DOMAIN T /\ PutBehind(T, 2, x) = All(o, ret \o x, bufs)
  /\ \A l \in DOMAIN bufs : /\ l + 2 \in DOMAIN T
                            /\ PutBehind(bufs, l, x) \in Seq(Seq(Atoms))
                            /\ Len(PutBehind(bufs, l, x)) = Len(bufs)
                            /\ PutBehind(T, l + 2, x) = All(o, ret, PutBehind(bufs, l, x))

\* It is the same text put behind one of All.
LEMMA PlacesAdd ==
  ASSUME NEW o \in Seq(Atoms), NEW ret \in Seq(Atoms), NEW bufs \in Seq(Seq(Atoms)),
         NEW x \in Seq(Atoms)
  PROVE  AddedAt(o, ret, bufs, x, All(o, ret, bufs))
<1>. DEFINE T == All(o, ret, bufs)
            n == Len(bufs)
<1>0. n \in Nat /\ DOMAIN bufs = 1..n
  OBVIOUS
<1>1. /\ T \in Seq(Seq(Atoms)) /\ DOMAIN T = 1..(n + 2) /\ Len(T) = n + 2
      /\ T[1] = o /\ T[2] = ret
      /\ \A l \in DOMAIN bufs : l + 2 \in DOMAIN T /\ T[l + 2] = bufs[l]
      /\ \A i \in DOMAIN T : i = 1 \/ i = 2 \/ (i - 2 \in DOMAIN bufs /\ T[i] = bufs[i - 2] /\ i # 1 /\ i # 2)
  BY PlacesAre DEF PlacedAs
<1>2. 1 \in 1..(n + 2) /\ 2 \in 1..(n + 2) /\ \A l \in 1..n : l + 2 # 1 /\ l + 2 # 2
  BY <1>0
<1>3. o \o x \in Seq(Atoms) /\ ret \o x \in Seq(Atoms)
  BY ConcatProperties
<1>4. ASSUME NEW a \in Seq(Atoms), NEW b \in Seq(Atoms), NEW i \in {1, 2},
             i = 1 => a = o \o x /\ b = ret, i = 2 => a = o /\ b = ret \o x
      PROVE  PutBehind(T, i, x) = All(a, b, bufs)
  <2>. DEFINE U == All(a, b, bufs)
              V == PutBehind(T, i, x)
  <2>1. /\ U \in Seq(Seq(Atoms)) /\ DOMAIN U = 1..(n + 2)
        /\ U[1] = a /\ U[2] = b
        /\ \A j \in DOMAIN U : j = 1 \/ j = 2 \/ (j - 2 \in DOMAIN bufs /\ U[j] = bufs[j - 2] /\ j # 1 /\ j # 2)
    BY PlacesAre DEF PlacedAs
  <2>. HIDE DEF U, T, n
  <2>2. V = [j \in 1..(n + 2) |-> IF j = i THEN T[i] \o x ELSE T[j]]
    BY <1>1, <1>2 DEF PutBehind
  <2>3. U = [j \in 1..(n + 2) |-> U[j]]
    BY <2>1
  <2>4. ASSUME NEW j \in 1..(n + 2)  PROVE U[j] = IF j = i THEN T[i] \o x ELSE T[j]
    <3>1. CASE j = i
      BY <1>1, <1>4, <2>1, <3>1
    <3>2. CASE j # i /\ j \in {1, 2}
      BY <1>1, <1>4, <2>1, <3>2
    <3>3. CASE j \notin {1, 2}
      <4>1. U[j] = bufs[j - 2] /\ T[j] = bufs[j - 2]
        BY <1>1, <2>1, <3>3
      <4>. QED  BY <3>3, <4>1
    <3>. QED  BY <3>1, <3>2, <3>3
  <2>. HIDE DEF V
  <2>. QED  BY <2>2, <2>3, <2>4 DEF U, V
<1>5. ASSUME NEW l \in DOMAIN bufs
      PROVE  /\ PutBehind(bufs, l, x) \in Seq(Seq(Atoms))
             /\ Len(PutBehind(bufs, l, x)) = n
             /\ PutBehind(T, l + 2, x) = All(o, ret, PutBehind(bufs, l, x))
  <2>. DEFINE B == PutBehind(bufs, l, x)
              U == All(o, ret, B)
              V == PutBehind(T, l + 2, x)
  <2>0. l \in 1..n /\ l + 2 \in 1..(n + 2) /\ l \in Int
    BY <1>0
  <2>1. bufs[l] \in Seq(Atoms) /\ bufs[l] \o x \in Seq(Atoms)
    BY ConcatProperties
  <2>2. B \in Seq(Seq(Atoms)) /\ Len(B) = n /\ DOMAIN B = 1..n
        /\ B = [j \in 1..n |-> IF j = l THEN bufs[l] \o x ELSE bufs[j]]
    <3>1. B = [bufs EXCEPT ![l] = bufs[l] \o x]
      BY DEF PutBehind
    <3>2. DOMAIN B = 1..n /\ B = [j \in 1..n |-> IF j = l THEN bufs[l] \o x ELSE bufs[j]]
      BY <1>0, <3>1
    <3>3. \A j \in 1..n : B[j] \in Seq(Atoms)
      BY <2>1, <3>2
    <3>. HIDE DEF B
    <3>. QED  BY <1>0, <3>2, <3>3
  <2>. HIDE DEF B
  <2>3. /\ U \in Seq(Seq(Atoms)) /\ DOMAIN U = 1..(n + 2)
        /\ U[1] = o /\ U[2] = ret
        /\ \A j \in DOMAIN U : j = 1 \/ j = 2 \/ (j - 2 \in DOMAIN B /\ U[j] = B[j - 2] /\ j # 1 /\ j # 2)
    <3>1. PlacedAs(o, ret, B, U)
      BY <2>2, PlacesAre
    <3>. HIDE DEF U
    <3>. QED  BY <2>2, <3>1 DEF PlacedAs
  <2>. HIDE DEF U, T, n
  <2>4. V = [j \in 1..(n + 2) |-> IF j = l + 2 THEN T[l + 2] \o x ELSE T[j]]
    BY <1>1, <2>0 DEF PutBehind
  <2>5. U = [j \in 1..(n + 2) |-> U[j]]
    BY <2>3
  <2>6. ASSUME NEW j \in 1..(n + 2)  PROVE U[j] = IF j = l + 2 THEN T[l + 2] \o x ELSE T[j]
    <3>1. CASE j = 1 \/ j = 2
      BY <1>1, <1>2, <2>0, <2>3, <3>1
    <3>2. CASE j # 1 /\ j # 2
      <4>1. j - 2 \in 1..n /\ U[j] = B[j - 2] /\ T[j] = bufs[j - 2]
        BY <1>0, <1>1, <2>3, <3>2
      <4>2. j = l + 2 <=> j - 2 = l
        BY <2>0
      <4>3. T[l + 2] = bufs[l]
        BY <1>1
      <4>. QED  BY <2>2, <4>1, <4>2, <4>3
    <3>. QED  BY <3>1, <3>2
  <2>. HIDE DEF V
  <2>. QED  BY <2>2, <2>4, <2>5, <2>6 DEF U, V, B
<1>. HIDE DEF T, n
<1>. DEFINE ox == o \o x
            rx == ret \o x
<1>6. ASSUME ox \in Seq(Atoms)  PROVE PutBehind(T, 1, x) = All(ox, ret, bufs)
  <2>. DEFINE i == 1
  <2>1. i \in {1, 2} /\ i # 2 /\ ox = o \o x
    OBVIOUS
  <2>. HIDE DEF i, ox
  <2>2. PutBehind(T, i, x) = All(ox, ret, bufs)
    BY <1>4, <1>6, <2>1
  <2>. QED  BY <2>2 DEF i
<1>7. ASSUME rx \in Seq(Atoms)  PROVE PutBehind(T, 2, x) = All(o, rx, bufs)
  <2>. DEFINE i == 2
  <2>1. i \in {1, 2} /\ i # 1 /\ rx = ret \o x
    OBVIOUS
  <2>. HIDE DEF i, rx
  <2>2. PutBehind(T, i, x) = All(o, rx, bufs)
    BY <1>4, <1>7, <2>1
  <2>. QED  BY <2>2 DEF i
<1>. QED  BY <1>0, <1>1, <1>2, <1>3, <1>5, <1>6, <1>7 DEF T, n, AddedAt

\* What is done with the string that MulleScionFilteredString gives back leaves every
\* piece at one place.
LEMMA DeliveredKeeps ==
  ASSUME NEW o \in Seq(Atoms), NEW ret \in Seq(Atoms), NEW bufs \in Seq(Seq(Atoms)),
         NEW text \in Seq(Atoms), NEW n \in Nat, NEW L, NEW r,
         Delivered(text, bufs, L, r), DirectEmpty(L, bufs),
         EachOnce(Append(All(o, ret, bufs), text), n)
  PROVE  /\ r.buffers \in Seq(Seq(Atoms)) /\ Len(r.buffers) = Len(bufs)
         /\ DirectEmpty(L, r.buffers)
         /\ r.text = Nil => EachOnce(All(o, ret, r.buffers), n)
         /\ r.text # Nil => /\ r.text \in Seq(Atoms)
                            /\ EachOnce(All(o \o r.text, ret, r.buffers), n)
                            /\ EachOnce(All(o, ret \o r.text, r.buffers), n)
<1>. DEFINE T == All(o, ret, bufs)
<1>1. T \in Seq(Seq(Atoms))
  BY PlacesAre DEF PlacedAs
<1>2. ASSUME NEW x \in Seq(Atoms), SameIds(text, x), NEW t \in DOMAIN T
      PROVE  EachOnce(PutBehind(T, t, x), n)
  <2>. HIDE DEF T
  <2>1. EachOnce(Append(T, x), n)
    BY <1>1, <1>2, Relabelled DEF T
  <2>. QED  BY <1>1, <2>1, Absorbed
<1>3. CASE r.text # Nil
  <2>1. r.text \in Seq(Atoms) /\ SameIds(text, r.text) /\ r.buffers = bufs
    BY <1>3 DEF Delivered
  <2>2. /\ 1 \in DOMAIN T /\ PutBehind(T, 1, r.text) = All(o \o r.text, ret, bufs)
        /\ 2 \in DOMAIN T /\ PutBehind(T, 2, r.text) = All(o, ret \o r.text, bufs)
    BY <2>1, PlacesAdd DEF AddedAt
  <2>. HIDE DEF T
  <2>. QED  BY <1>2, <1>3, <2>1, <2>2
<1>4. CASE r.text = Nil
  <2>1. Nil \notin Seq(Atoms)
    BY NilAssumption
  <2>2. PICK l \in DOMAIN bufs, x \in Seq(Atoms) :
          /\ FilterAt(L, l) \in Buffering
          /\ SameIds(text, x)
          /\ r.buffers = PutBehind(bufs, l, x)
    BY <1>4, <2>1 DEF Delivered
  <2>3. /\ l + 2 \in DOMAIN T
        /\ PutBehind(bufs, l, x) \in Seq(Seq(Atoms))
        /\ Len(PutBehind(bufs, l, x)) = Len(bufs)
        /\ PutBehind(T, l + 2, x) = All(o, ret, PutBehind(bufs, l, x))
    BY PlacesAdd DEF AddedAt
  <2>4. DirectEmpty(L, r.buffers)
    BY <2>2 DEF DirectEmpty, PutBehind
  <2>5. EachOnce(PutBehind(T, l + 2, x), n)
    BY <1>2, <2>2, <2>3
  <2>. QED  BY <1>4, <2>2, <2>3, <2>4, <2>5
<1>. QED  BY <1>3, <1>4

\* The places of a last filter object more.
LEMMA PlacesLast ==
  ASSUME NEW o \in Seq(Atoms), NEW ret \in Seq(Atoms), NEW bufs \in Seq(Seq(Atoms)),
         NEW x \in Seq(Atoms)
  PROVE  All(o, ret, Append(bufs, x)) = Append(All(o, ret, bufs), x)
<1>. DEFINE T == All(o, ret, bufs)
            B == Append(bufs, x)
            U == All(o, ret, B)
            V == Append(T, x)
            n == Len(bufs)
<1>1. /\ n \in Nat /\ DOMAIN bufs = 1..n
      /\ B \in Seq(Seq(Atoms)) /\ Len(B) = n + 1 /\ DOMAIN B = 1..(n + 1)
      /\ B[n + 1] = x
      /\ \A i \in 1..n : B[i] = bufs[i]
  BY AppendProperties
<1>. HIDE DEF B
<1>2. PlacedAs(o, ret, bufs, T) /\ PlacedAs(o, ret, B, U)
  BY <1>1, PlacesAre
<1>. HIDE DEF T, U
<1>3. /\ T \in Seq(Seq(Atoms)) /\ Len(T) = n + 2 /\ DOMAIN T = 1..(n + 2)
      /\ U \in Seq(Seq(Atoms)) /\ DOMAIN U = 1..((n + 1) + 2)
  BY <1>1, <1>2 DEF PlacedAs
<1>4. /\ V \in Seq(Seq(Atoms)) /\ Len(V) = (n + 2) + 1 /\ DOMAIN V = 1..((n + 2) + 1)
      /\ V[(n + 2) + 1] = x
      /\ \A i \in 1..(n + 2) : V[i] = T[i]
  BY <1>3, AppendProperties
<1>. HIDE DEF V, n
<1>5. (n + 1) + 2 = n + 3 /\ (n + 2) + 1 = n + 3 /\ (n + 3) - 2 = n + 1
      /\ \A i \in 1..(n + 3) : i = n + 3 \/ i \in 1..(n + 2)
  BY <1>1
<1>6. ASSUME NEW i \in 1..(n + 3)  PROVE U[i] = V[i]
  <2>1. CASE i = n + 3
    <3>1. n + 1 \in 1..(n + 1)
      BY <1>1
    <3>2. U[(n + 1) + 2] = B[n + 1]
      BY <1>1, <1>2, <3>1 DEF PlacedAs
    <3>. QED  BY <1>1, <1>4, <1>5, <2>1, <3>2
  <2>2. CASE i = 1 \/ i = 2
    <3>1. U[i] = T[i]
      BY <1>2, <2>2 DEF PlacedAs
    <3>2. i \in 1..(n + 2)
      BY <1>1, <2>2
    <3>. QED  BY <1>4, <3>1, <3>2
  <2>3. CASE i # n + 3 /\ i # 1 /\ i # 2
    <3>1. i - 2 \in 1..n /\ i \in 1..(n + 2) /\ i \in 1..((n + 1) + 2)
      BY <1>1, <2>3
    <3>2. T[i] = bufs[i - 2]
      BY <1>2, <1>3, <2>3, <3>1 DEF PlacedAs
    <3>3. U[i] = B[i - 2]
      BY <1>2, <1>3, <2>3, <3>1 DEF PlacedAs
    <3>. QED  BY <1>1, <1>4, <3>1, <3>2, <3>3
  <2>. QED  BY <2>1, <2>2, <2>3
<1>7. U = V
  <2>1. U = [i \in 1..(n + 3) |-> U[i]] /\ V = [i \in 1..(n + 3) |-> V[i]]
    BY <1>3, <1>4, <1>5
  <2>. QED  BY <1>6, <2>1
<1>. QED  BY <1>7 DEF U, V, T, B

\* A sequence is its front and its last element.
LEMMA FrontAndLast ==
  ASSUME NEW S, NEW s \in Seq(S), Len(s) > 0
  PROVE  s = Append(Front(s), Last(s))
<1>. DEFINE n == Len(s)
            f == Front(s)
<1>1. n \in Nat /\ n > 0 /\ DOMAIN s = 1..n
  BY LenProperties
<1>2. Last(s) = s[n] /\ f = SubSeq(s, 1, n - 1)
  BY DEF Last, Front
<1>3. Last(s) \in S /\ f \in Seq(S) /\ Len(f) = n - 1
  BY FrontLast
<1>. HIDE DEF n, f
<1>4. ASSUME NEW i \in 1..(n - 1)  PROVE f[i] = s[i]
  <2>1. SubSeq(s, 1, n - 1) = [k \in 1..(n - 1) |-> s[k]]
    <3>1. \A k \in 1..(n - 1) : 1 + k - 1 = k
      OBVIOUS
    <3>. QED  BY <1>1, <3>1 DEF n
  <2>. QED  BY <1>2, <2>1
<1>. DEFINE V == Append(f, Last(s))
<1>5. /\ V \in Seq(S) /\ Len(V) = (n - 1) + 1 /\ DOMAIN V = 1..((n - 1) + 1)
      /\ V[(n - 1) + 1] = Last(s)
      /\ \A i \in 1..(n - 1) : V[i] = f[i]
  BY <1>3, AppendProperties
<1>. HIDE DEF V
<1>6. (n - 1) + 1 = n /\ \A i \in 1..n : i = n \/ i \in 1..(n - 1)
  BY <1>1
<1>7. \A i \in 1..n : V[i] = s[i]
  BY <1>2, <1>4, <1>5, <1>6
<1>8. V = [i \in 1..n |-> V[i]] /\ s = [i \in 1..n |-> s[i]]
  BY <1>1, <1>5, <1>6
<1>9. V = s
  BY <1>7, <1>8
<1>. QED  BY <1>9 DEF V, f

\* The places are those without the innermost filter object, and its own.
LEMMA PlacesTop ==
  ASSUME NEW o \in Seq(Atoms), NEW ret \in Seq(Atoms), NEW bufs \in Seq(Seq(Atoms)), Len(bufs) > 0
  PROVE  All(o, ret, bufs) = Append(All(o, ret, Front(bufs)), Last(bufs))
<1>. DEFINE B == Front(bufs)
            x == Last(bufs)
<1>1. B \in Seq(Seq(Atoms)) /\ x \in Seq(Atoms)
  BY FrontLast
<1>2. bufs = Append(B, x)
  BY FrontAndLast
<1>. HIDE DEF B, x
<1>3. All(o, ret, Append(B, x)) = Append(All(o, ret, B), x)
  BY <1>1, PlacesLast, Zenon
<1>. QED  BY <1>2, <1>3 DEF B, x

\* Every open filter has its buffer, only buffering filters use theirs, and the last
\* endfilter leaves no filter on the stack.
LevelsOpen == /\ Len(buffers) = Depth
              /\ filter = Nil => Count(filterStack) = 0
              /\ DirectEmpty(Locals, buffers)

LostInv == /\ FilterInv
           /\ TextTypeOK
           /\ Running => LevelsOpen /\ EachOnce(Texts, fed)

\* The arrays name a filter for each level.
LEMMA LevelFilters ==
  ASSUME NEW L, NEW bufs \in Seq(Seq(Atoms)), L.filter \in Filters \cup {Nil},
         L.filterStack \in Seq(Filters) \cup {Nil}, Len(bufs) = DepthOf(L)
  PROVE  FiltersAt(L, bufs)
<1>. DEFINE n == Len(bufs)
<1>1. n \in Nat /\ DOMAIN bufs = 1..n
  OBVIOUS
<1>2. ASSUME NEW l \in 1..n  PROVE FilterAt(L, l) \in Filters
  <2>. HIDE DEF n
  <2>1. L.filter # Nil /\ n = Count(L.filterStack) + 1
    BY <1>1, <1>2 DEF DepthOf, n
  <2>2. CASE l = n
    BY <2>1, <2>2 DEF FilterAt, n
  <2>3. CASE l # n
    <3>1. L.filterStack # Nil
      BY <2>1, <2>3, <1>2 DEF Count
    <3>2. n = Len(L.filterStack) + 1 /\ L.filterStack \in Seq(Filters)
      BY <2>1, <3>1 DEF Count
    <3>3. l \in 1..Len(L.filterStack)
      BY <1>1, <1>2, <2>3, <3>2
    <3>4. L.filterStack[l] \in Filters
      BY <3>2, <3>3, ElementOfSeq
    <3>. QED  BY <2>3, <3>4 DEF FilterAt, n
  <2>. QED  BY <2>2, <2>3
<1>. QED  BY <1>1, <1>2 DEF FiltersAt

\* A filter command leaves the filters that are open at their levels.
LEMMA PushedLevels ==
  ASSUME FilterInv, TextTypeOK, LevelsOpen, PushCurrentFilter, filter' \in Filters,
         buffers' = Append(buffers, <<>>)
  PROVE  LevelsOpen' /\ buffers' \in Seq(Seq(Atoms))
<1>. DEFINE n == Len(buffers)
            L == Locals
            M == Locals'
<1>0. /\ n \in Nat /\ DOMAIN buffers = 1..n
      /\ buffers' \in Seq(Seq(Atoms)) /\ Len(buffers') = n + 1 /\ DOMAIN buffers' = 1..(n + 1)
      /\ buffers'[n + 1] = <<>>
      /\ \A i \in 1..n : buffers'[i] = buffers[i]
  BY AppendProperties DEF TextTypeOK
<1>1. /\ L.filter = filter /\ L.filterStack = filterStack
      /\ M.filter = filter' /\ M.filterStack = filterStack'
      /\ filter' # Nil
  BY NilAssumption DEF Locals
<1>1a. /\ n = DepthOf(L)
       /\ \A l \in 1..n : FilterAt(L, l) \notin Buffering => buffers[l] = <<>>
  BY <1>0 DEF LevelsOpen, Depth, DirectEmpty
<1>. HIDE DEF n, L, M
<1>2. CASE filter = Nil
  <2>1. n = 0
    BY <1>1, <1>1a, <1>2 DEF DepthOf
  <2>2. filterStack' = filterStack /\ Count(filterStack) = 0
    BY <1>2 DEF PushCurrentFilter, LevelsOpen
  <2>3. DepthOf(M) = 1
    BY <1>1, <2>2 DEF DepthOf
  <2>4. Depth' = 1 /\ Len(buffers') = 1
    BY <1>0, <2>1, <2>3 DEF Depth, M
  <2>5. DOMAIN buffers' = 1..1 /\ buffers'[1] = <<>>
    BY <1>0, <2>1
  <2>. QED  BY <1>0, <1>1, <2>4, <2>5 DEF LevelsOpen, DirectEmpty
<1>3. CASE filter # Nil
  <2>. DEFINE c == Count(filterStack)
  <2>1. c \in Nat /\ n = c + 1 /\ filter \in Filters
    <3>1. filterStack \in Seq(Filters) \cup {Nil} /\ filter \in Filters
      BY <1>3 DEF FilterInv, LocalsTypeOK
    <3>. QED  BY <1>1, <1>1a, <1>3, <3>1 DEF DepthOf, Count
  <2>2. /\ filterStack' \in Seq(Filters) /\ filterStack' # Nil
        /\ Len(filterStack') = c + 1
        /\ filterStack'[c + 1] = filter
        /\ \A i \in 1..c : filterStack'[i] = filterStack[i]
    <3>1. CASE filterStack = Nil
      <4>1. filterStack' = <<filter>> /\ c = 0
        BY <1>3, <3>1 DEF PushCurrentFilter, Count
      <4>2. /\ <<filter>> \in Seq(Filters) /\ Len(<<filter>>) = 1 /\ <<filter>>[1] = filter
            /\ 1..0 = {}
        BY <2>1
      <4>. HIDE DEF c
      <4>3. filterStack' \in Seq(Filters) /\ filterStack' # Nil
        BY <4>1, <4>2, NilAssumption
      <4>4. c + 1 = 1 /\ 1..c = {}
        BY <4>1, <4>2
      <4>5. Len(filterStack') = c + 1 /\ filterStack'[c + 1] = filter
        BY <4>1, <4>2, <4>4
      <4>. QED  BY <4>3, <4>4, <4>5
    <3>2. CASE filterStack # Nil
      <4>1. filterStack \in Seq(Filters) /\ c = Len(filterStack) /\ filterStack' = Append(filterStack, filter)
        BY <1>3, <3>2 DEF PushCurrentFilter, Count, FilterInv, LocalsTypeOK
      <4>. HIDE DEF c
      <4>2. /\ Append(filterStack, filter) \in Seq(Filters)
            /\ Len(Append(filterStack, filter)) = c + 1
            /\ Append(filterStack, filter)[c + 1] = filter
            /\ \A i \in 1..c : Append(filterStack, filter)[i] = filterStack[i]
        BY <2>1, <4>1, AppendProperties
      <4>. QED  BY <4>1, <4>2, NilAssumption
    <3>. QED  BY <3>1, <3>2
  <2>. HIDE DEF c
  <2>3. DepthOf(M) = n + 1
    BY <1>1, <2>1, <2>2 DEF DepthOf, Count
  <2>4. ASSUME NEW l \in 1..n  PROVE FilterAt(M, l) = FilterAt(L, l)
    <3>1. l # n + 1
      BY <1>0
    <3>2. FilterAt(M, l) = filterStack'[l]
      BY <1>1, <2>3, <3>1 DEF FilterAt
    <3>3. CASE l = n
      <4>1. FilterAt(L, l) = filter
        BY <1>1, <1>1a, <3>3 DEF FilterAt
      <4>. QED  BY <2>1, <2>2, <3>2, <3>3, <4>1
    <3>4. CASE l # n
      <4>1. FilterAt(L, l) = filterStack[l]
        BY <1>1, <1>1a, <3>4 DEF FilterAt
      <4>2. l \in 1..c
        BY <1>0, <2>1, <3>4
      <4>. QED  BY <2>2, <3>2, <4>1, <4>2
    <3>. QED  BY <3>3, <3>4
  <2>5. ASSUME NEW l \in 1..(n + 1), FilterAt(M, l) \notin Buffering  PROVE buffers'[l] = <<>>
    <3>1. CASE l = n + 1
      BY <1>0, <3>1
    <3>2. CASE l \in 1..n
      BY <1>0, <1>1a, <2>4, <2>5, <3>2
    <3>. QED  BY <1>0, <3>1, <3>2
  <2>6. Len(buffers') = Depth'
    BY <1>0, <2>3 DEF Depth, M
  <2>7. DirectEmpty(Locals, buffers)'
    BY <1>0, <2>5 DEF DirectEmpty, M
  <2>. QED  BY <1>0, <1>1, <2>6, <2>7 DEF LevelsOpen
<1>. QED  BY <1>2, <1>3

\* What an endfilter takes from the dictionary leaves the filters below at their levels.
LEMMA PoppedLevels ==
  ASSUME FilterInv, TextTypeOK, LevelsOpen, filter # Nil,
         \/ /\ Count(filterStack) > 0
            /\ filter' = Last(filterStack)
            /\ filterStack' = Front(filterStack)
         \/ /\ Count(filterStack) = 0
            /\ filter' = Nil
            /\ filterStack' = filterStack
  PROVE  /\ Len(buffers) > 0
         /\ Front(buffers) \in Seq(Seq(Atoms)) /\ Last(buffers) \in Seq(Atoms)
         /\ filter' = Nil => Count(filterStack') = 0
         /\ filter' \in Filters \cup {Nil} /\ filterStack' \in Seq(Filters) \cup {Nil}
         /\ FiltersAt(Locals', Front(buffers))
         /\ DirectEmpty(Locals', Front(buffers))
<1>. DEFINE n == Len(buffers)
            c == Count(filterStack)
            L == Locals
            M == Locals'
            B == Front(buffers)
<1>0. buffers \in Seq(Seq(Atoms))
  BY DEF TextTypeOK
<1>0a. filterStack \in Seq(Filters) \cup {Nil} /\ filter \in Filters
  BY DEF FilterInv, LocalsTypeOK
<1>1. /\ n \in Nat /\ DOMAIN buffers = 1..n
      /\ buffers \in Seq(Seq(Atoms))
      /\ filterStack \in Seq(Filters) \cup {Nil} /\ filter \in Filters
  BY <1>0, <1>0a
<1>2. /\ L.filter = filter /\ L.filterStack = filterStack
      /\ M.filter = filter' /\ M.filterStack = filterStack'
  BY DEF Locals
<1>3. /\ n = DepthOf(L)
      /\ \A l \in 1..n : FilterAt(L, l) \notin Buffering => buffers[l] = <<>>
  BY <1>1 DEF LevelsOpen, Depth, DirectEmpty
<1>4. c \in Nat
  BY <1>1 DEF Count
<1>5. n = c + 1
  BY <1>2, <1>3 DEF DepthOf
<1>6. n > 0 /\ n - 1 = c
  BY <1>4, <1>5
<1>7. /\ B \in Seq(Seq(Atoms)) /\ Last(buffers) \in Seq(Atoms)
      /\ Len(B) = c /\ DOMAIN B = 1..c
  <2>1. B \in Seq(Seq(Atoms)) /\ Last(buffers) \in Seq(Atoms) /\ Len(B) = n - 1
    BY <1>1, <1>6, FrontLast
  <2>. HIDE DEF B, n, c
  <2>. QED  BY <1>6, <2>1, SMTT(40)
<1>8. \A i \in 1..c : B[i] = buffers[i] /\ i \in 1..n /\ i # n
  <2>1. B = SubSeq(buffers, 1, n - 1)
    BY DEF Front
  <2>. HIDE DEF n, c, B
  <2>2. \A k \in 1..c : 1 + k - 1 = k
    BY <1>4
  <2>3. B = [k \in 1..c |-> buffers[k]]
    BY <1>1, <1>6, <2>1, <2>2 DEF n
  <2>. QED  BY <1>1, <1>4, <1>5, <2>3
<1>. HIDE DEF n, L, M, B
<1>9. CASE c = 0
  <2>1. filter' = Nil /\ filterStack' = filterStack
    BY <1>9
  <2>2. DepthOf(M) = 0
    BY <1>2, <2>1 DEF DepthOf
  <2>3. Len(B) = 0 /\ DOMAIN B = {}
    BY <1>7, <1>9
  <2>4. FiltersAt(M, B) /\ DirectEmpty(M, B)
    BY <2>2, <2>3 DEF FiltersAt, DirectEmpty
  <2>. QED  BY <1>1, <1>6, <1>7, <1>9, <2>1, <2>4 DEF n, M, B
<1>10. CASE c > 0
  <2>1. filter' = Last(filterStack) /\ filterStack' = Front(filterStack)
    BY <1>4, <1>10
  <2>2. filterStack \in Seq(Filters) /\ Len(filterStack) = c /\ filterStack # Nil
    BY <1>1, <1>10, CountPositive DEF Count
  <2>. HIDE DEF c
  <2>3. /\ filter' \in Filters /\ filterStack' \in Seq(Filters) /\ Len(filterStack') = c - 1
        /\ filter' = filterStack[c]
    BY <1>4, <1>10, <2>1, <2>2, FrontLast DEF Last
  <2>4. \A i \in 1..(c - 1) : filterStack'[i] = filterStack[i]
    <3>1. filterStack' = SubSeq(filterStack, 1, c - 1)
      BY <2>1, <2>2 DEF Front
    <3>2. \A k \in 1..(c - 1) : 1 + k - 1 = k
      BY <1>4
    <3>3. filterStack' = [k \in 1..(c - 1) |-> filterStack[k]]
      BY <1>4, <1>10, <2>2, <3>1, <3>2
    <3>. QED  BY <3>3
  <2>5. filter' # Nil /\ filterStack' # Nil
    BY <2>3, NilAssumption
  <2>6. DepthOf(M) = c
    BY <1>2, <1>4, <2>3, <2>5 DEF DepthOf, Count
  <2>7. FiltersAt(M, B)
    BY <1>2, <1>7, <2>3, <2>6, LevelFilters
  <2>8. ASSUME NEW l \in 1..c  PROVE FilterAt(M, l) = FilterAt(L, l)
    <3>0. FilterAt(L, l) = filterStack[l]
      BY <1>2, <1>3, <1>8 DEF FilterAt
    <3>1. CASE l = c
      BY <1>2, <2>3, <2>6, <3>0, <3>1 DEF FilterAt
    <3>2. CASE l # c
      <4>1. l \in 1..(c - 1)
        BY <1>4, <3>2
      <4>. QED  BY <1>2, <2>4, <2>6, <3>0, <3>2, <4>1 DEF FilterAt
    <3>. QED  BY <3>1, <3>2
  <2>9. DirectEmpty(M, B)
    BY <1>3, <1>7, <1>8, <2>8 DEF DirectEmpty
  <2>. QED  BY <1>6, <1>7, <2>3, <2>5, <2>7, <2>9 DEF n, M, B
<1>. QED  BY <1>4, <1>9, <1>10

\* Flushing the innermost filter leaves every piece at one place.
LEMMA FlushKeeps ==
  ASSUME FilterInv, TextTypeOK, LevelsOpen, EachOnce(Texts, fed), filter # Nil,
         Len(buffers) > 0, Front(buffers) \in Seq(Seq(Atoms)), Last(buffers) \in Seq(Atoms),
         FiltersAt(Locals', Front(buffers)), DirectEmpty(Locals', Front(buffers)),
         FlushThroughRemaining, returned' = returned, fed' = fed
  PROVE  /\ output' \in Seq(Atoms)
         /\ buffers' \in Seq(Seq(Atoms)) /\ Len(buffers') = DepthOf(Locals')
         /\ DirectEmpty(Locals', buffers')
         /\ EachOnce(Texts', fed')
<1>. DEFINE B == Front(buffers)
            x == Last(buffers)
            M == Locals'
<1>1. /\ output \in Seq(Atoms) /\ returned \in Seq(Atoms) /\ buffers \in Seq(Seq(Atoms)) /\ fed \in Nat
      /\ filter \in Filters
  <2>1. output \in Seq(Atoms) /\ returned \in Seq(Atoms) /\ buffers \in Seq(Seq(Atoms))
    BY DEF TextTypeOK
  <2>2. fed \in Nat
    BY BoundAssumption DEF TextTypeOK
  <2>3. filter \in Filters
    BY DEF FilterInv, LocalsTypeOK
  <2>. QED  BY <2>1, <2>2, <2>3
<1>3. B \in Seq(Seq(Atoms)) /\ x \in Seq(Atoms)
  OBVIOUS
<1>3a. FiltersAt(M, B) /\ DirectEmpty(M, B)
  OBVIOUS
<1>3b. IF filter \in Buffering
       THEN Render(Through(filter, x), OutputBits, M, B)
       ELSE buffers' = B /\ UNCHANGED output
  BY DEF FlushThroughRemaining
<1>3c. x = buffers[Len(buffers)] /\ Len(buffers) \in DOMAIN buffers
  BY <1>1 DEF Last
<1>. HIDE DEF B, x, M
<1>4. EachOnce(Append(All(output, returned, B), x), fed)
  <2>1. All(output, returned, buffers) = Append(All(output, returned, B), x)
    BY <1>1, PlacesTop, Zenon DEF B, x
  <2>. QED  BY <2>1 DEF Texts, All
<1>5. All(output, returned, B) \in Seq(Seq(Atoms))
  BY <1>1, <1>3, PlacesAre DEF PlacedAs
<1>6. Len(B) = DepthOf(M)
  BY <1>3a DEF FiltersAt
<1>7. CASE filter \in Buffering
  <2>. DEFINE y == Through(filter, x)
              r == FilteredString(y, OutputBits, M, B)
  <2>1. y \in Seq(Atoms) /\ SameIds(x, y)
    BY <1>1, <1>3, ThroughSame
  <2>2. /\ buffers' = r.buffers
        /\ output'  = IF r.text = Nil THEN output ELSE output \o r.text
    BY <1>3b, <1>7 DEF Render
  <2>. HIDE DEF y
  <2>3. EachOnce(Append(All(output, returned, B), y), fed)
    BY <1>1, <1>3, <1>4, <1>5, <2>1, Relabelled
  <2>4. Delivered(y, B, M, r)
    BY <1>3, <1>3a, <2>1, FilteredDelivers
  <2>. HIDE DEF r
  <2>5. /\ r.buffers \in Seq(Seq(Atoms)) /\ Len(r.buffers) = Len(B)
        /\ DirectEmpty(M, r.buffers)
        /\ r.text = Nil => EachOnce(All(output, returned, r.buffers), fed)
        /\ r.text # Nil => /\ r.text \in Seq(Atoms)
                           /\ EachOnce(All(output \o r.text, returned, r.buffers), fed)
    BY <1>1, <1>3, <1>3a, <2>1, <2>3, <2>4, DeliveredKeeps
  <2>6. output' \in Seq(Atoms) /\ EachOnce(All(output', returned, buffers'), fed)
    <3>1. CASE r.text = Nil
      BY <1>1, <2>2, <2>5, <3>1
    <3>2. CASE r.text # Nil
      <4>1. output' = output \o r.text /\ r.text \in Seq(Atoms)
        BY <2>2, <2>5, <3>2
      <4>2. output' \in Seq(Atoms)
        BY <1>1, <4>1, ConcatProperties
      <4>. QED  BY <2>2, <2>5, <3>2, <4>1, <4>2
    <3>. QED  BY <3>1, <3>2
  <2>7. EachOnce(Texts', fed')
    BY <2>6 DEF Texts, All
  <2>. QED  BY <1>6, <2>2, <2>5, <2>6, <2>7 DEF M
<1>8. CASE filter \notin Buffering
  <2>1. buffers' = B /\ output' = output
    BY <1>3b, <1>8
  <2>2. x = <<>>
    <3>. DEFINE n == Len(buffers)
    <3>1. n = DepthOf(Locals) /\ n \in DOMAIN buffers
      BY <1>3c DEF LevelsOpen, Depth
    <3>. HIDE DEF n
    <3>2. FilterAt(Locals, n) = filter
      BY <3>1 DEF FilterAt, Locals
    <3>. QED  BY <1>3c, <1>8, <3>1, <3>2 DEF LevelsOpen, DirectEmpty, n
  <2>3. EachOnce(All(output, returned, B), fed)
    BY <1>1, <1>4, <1>5, <2>2, EmptyDropped
  <2>4. EachOnce(Texts', fed')
    BY <2>1, <2>3 DEF Texts, All
  <2>. QED  BY <1>1, <1>3, <1>3a, <1>6, <2>1, <2>4 DEF M
<1>. QED  BY <1>7, <1>8

\* Text that the template renders gets one place of its own.
LEMMA TextKeeps ==
  ASSUME FilterInv, TextTypeOK, LevelsOpen, EachOnce(Texts, fed), NEW bits
  PROVE  LET r == FilteredString(Fresh, bits, Locals, buffers)
         IN  /\ r.buffers \in Seq(Seq(Atoms)) /\ Len(r.buffers) = Len(buffers)
             /\ DirectEmpty(Locals, r.buffers)
             /\ r.text = Nil => EachOnce(All(output, returned, r.buffers), fed + 1)
             /\ r.text # Nil => /\ r.text \in Seq(Atoms)
                                /\ EachOnce(All(output \o r.text, returned, r.buffers), fed + 1)
                                /\ EachOnce(All(output, returned \o r.text, r.buffers), fed + 1)
<1>. DEFINE r == FilteredString(Fresh, bits, Locals, buffers)
            T == All(output, returned, buffers)
            L == Locals
<1>1. /\ output \in Seq(Atoms) /\ returned \in Seq(Atoms) /\ buffers \in Seq(Seq(Atoms)) /\ fed \in Nat
  BY BoundAssumption DEF TextTypeOK
<1>2. Fresh \in Seq(Atoms) /\ Fresh = << [id |-> fed + 1, by |-> <<>>] >>
  <2>1. [id |-> fed + 1, by |-> <<>>] \in Atoms
    BY <1>1 DEF Atoms
  <2>. QED  BY <2>1 DEF Fresh
<1>3. T \in Seq(Seq(Atoms)) /\ EachOnce(T, fed)
  <2>1. T \in Seq(Seq(Atoms))
    BY <1>1, PlacesAre DEF PlacedAs
  <2>. QED  BY <2>1 DEF Texts, All
<1>4. FiltersAt(L, buffers) /\ DirectEmpty(L, buffers)
  <2>1. L.filter = filter /\ L.filterStack = filterStack
    BY DEF Locals
  <2>2. Len(buffers) = DepthOf(L)
    BY DEF LevelsOpen, Depth
  <2>. QED  BY <1>1, <2>1, <2>2, LevelFilters DEF FilterInv, LocalsTypeOK, LevelsOpen
<1>5. Delivered(Fresh, buffers, L, r)
  BY <1>1, <1>2, <1>4, FilteredDelivers
<1>. HIDE DEF r, T
<1>6. EachOnce(Append(T, Fresh), fed + 1)
  BY <1>1, <1>2, <1>3, FreshAdded
<1>. HIDE DEF L
<1>7. /\ r.buffers \in Seq(Seq(Atoms)) /\ Len(r.buffers) = Len(buffers)
      /\ DirectEmpty(L, r.buffers)
      /\ r.text = Nil => EachOnce(All(output, returned, r.buffers), fed + 1)
      /\ r.text # Nil => /\ r.text \in Seq(Atoms)
                         /\ EachOnce(All(output \o r.text, returned, r.buffers), fed + 1)
                         /\ EachOnce(All(output, returned \o r.text, r.buffers), fed + 1)
  <2>1. fed + 1 \in Nat
    BY <1>1
  <2>. QED  BY <1>1, <1>2, <1>4, <1>5, <1>6, <2>1, DeliveredKeeps DEF T
<1>. QED  BY <1>7 DEF r, L

LEMMA LostInvInit == Init => LostInv
<1>. SUFFICES ASSUME Init  PROVE LostInv
  OBVIOUS
<1>1. FilterInv
  BY FilterInvInit
<1>2. TextTypeOK
  BY BoundAssumption DEF Init, TextTypeOK
<1>3. LevelsOpen
  BY NilAssumption DEF Init, LevelsOpen, DirectEmpty, Depth, DepthOf, Locals, Count
<1>4. EachOnce(Texts, fed)
  <2>. DEFINE T == All(output, returned, buffers)
  <2>1. output = <<>> /\ returned = <<>> /\ buffers = <<>> /\ fed = 0
    BY DEF Init
  <2>2. PlacedAs(output, returned, buffers, T)
    BY <1>2, PlacesAre DEF TextTypeOK
  <2>. HIDE DEF T
  <2>3. \A t \in DOMAIN T : T[t] = <<>>
    BY <2>1, <2>2 DEF PlacedAs
  <2>4. 1..0 = {} /\ DOMAIN <<>> = {}
    OBVIOUS
  <2>5. EachOnce(T, 0)
    BY <2>3, <2>4 DEF EachOnce
  <2>. QED  BY <2>1, <2>5 DEF T, Texts, All
<1>. QED  BY <1>1, <1>2, <1>3, <1>4 DEF LostInv

LEMMA LostInvNext == LostInv /\ [Next]_vars => LostInv'
<1>. SUFFICES ASSUME FilterInv, TextTypeOK, Running => LevelsOpen /\ EachOnce(Texts, fed),
                     [Next]_vars, FilterInv'
              PROVE  TextTypeOK' /\ (Running' => LevelsOpen' /\ EachOnce(Texts, fed)')
  BY FilterInvNext DEF LostInv
<1>0. /\ output \in Seq(Atoms) /\ returned \in Seq(Atoms) /\ buffers \in Seq(Seq(Atoms))
      /\ fed \in Nat /\ fed \in 0..MaxText
  BY BoundAssumption DEF TextTypeOK
<1>1. ASSUME NEW f \in Filters, NEW m \in Modes, RenderFilter(f, m)
      PROVE  TextTypeOK' /\ LevelsOpen' /\ EachOnce(Texts, fed)'
  <2>1. /\ Running /\ PushCurrentFilter /\ filter' \in Filters
        /\ buffers' = Append(buffers, <<>>)
        /\ output' = output /\ returned' = returned /\ fed' = fed
    BY <1>1 DEF RenderFilter
  <2>2. LevelsOpen' /\ buffers' \in Seq(Seq(Atoms))
    BY <2>1, PushedLevels
  <2>3. <<>> \in Seq(Atoms)
    OBVIOUS
  <2>4. All(output, returned, Append(buffers, <<>>)) = Append(All(output, returned, buffers), <<>>)
    BY <1>0, <2>3, PlacesLast, Zenon
  <2>5. All(output, returned, buffers) \in Seq(Seq(Atoms))
    BY <1>0, PlacesAre DEF PlacedAs
  <2>6. EachOnce(All(output, returned, buffers), fed)
    BY <2>1 DEF Texts, All
  <2>7. EachOnce(Append(All(output, returned, buffers), <<>>), fed)
    BY <1>0, <2>5, <2>6, EmptyAdded
  <2>8. EachOnce(All(output', returned', buffers'), fed')
    BY <2>1, <2>4, <2>7
  <2>. QED  BY <1>0, <2>1, <2>2, <2>8 DEF TextTypeOK, Texts, All
<1>2. CASE RenderFilterNotAFilter
  <2>1. raised' # "no" /\ UNCHANGED <<buffers, output, returned, fed>>
    BY <1>2 DEF RenderFilterNotAFilter
  <2>. QED  BY <2>1 DEF TextTypeOK, Running
<1>3. CASE RenderStrayEndFilter
  <2>1. raised' # "no" /\ UNCHANGED <<buffers, output, returned, fed>>
    BY <1>3 DEF RenderStrayEndFilter
  <2>. QED  BY <2>1 DEF TextTypeOK, Running
<1>4. ASSUME Running, filter # Nil, FlushThroughRemaining, UNCHANGED <<returned, fed, raised>>,
             \/ /\ Count(filterStack) > 0
                /\ filter' = Last(filterStack)
                /\ filterStack' = Front(filterStack)
             \/ /\ Count(filterStack) = 0
                /\ filter' = Nil
                /\ filterStack' = filterStack
      PROVE  TextTypeOK' /\ LevelsOpen' /\ EachOnce(Texts, fed)'
  <2>0. LevelsOpen /\ EachOnce(Texts, fed)
    BY <1>4
  <2>1. /\ Len(buffers) > 0
        /\ Front(buffers) \in Seq(Seq(Atoms)) /\ Last(buffers) \in Seq(Atoms)
        /\ filter' = Nil => Count(filterStack') = 0
        /\ FiltersAt(Locals', Front(buffers))
        /\ DirectEmpty(Locals', Front(buffers))
    BY <1>4, <2>0, PoppedLevels
  <2>2. returned' = returned /\ fed' = fed
    BY <1>4
  <2>3. /\ output' \in Seq(Atoms)
        /\ buffers' \in Seq(Seq(Atoms)) /\ Len(buffers') = DepthOf(Locals')
        /\ DirectEmpty(Locals', buffers')
        /\ EachOnce(Texts', fed')
    BY <1>4, <2>0, <2>1, <2>2, FlushKeeps
  <2>4. LevelsOpen'
    BY <2>1, <2>3 DEF LevelsOpen, Depth, Count
  <2>5. TextTypeOK'
    BY <1>0, <2>2, <2>3 DEF TextTypeOK
  <2>. QED  BY <2>3, <2>4, <2>5
<1>5. CASE RenderEndFilterToEnclosing
  <2>1. CASE Count(modeStack) > 0
    BY <1>4, <1>5, <2>1 DEF RenderEndFilterToEnclosing
  <2>2. CASE ~(Count(modeStack) > 0)
    <3>1. raised' # "no" /\ UNCHANGED <<buffers, output, returned, fed>>
      BY <1>5, <2>2 DEF RenderEndFilterToEnclosing
    <3>. QED  BY <3>1 DEF TextTypeOK, Running
  <2>. QED  BY <2>1, <2>2
<1>6. CASE RenderEndFilterOutermost
  BY <1>4, <1>6 DEF RenderEndFilterOutermost
<1>7. ASSUME Running, UNCHANGED <<filter, filterStack, modeStack>>, fed < MaxText, fed' = fed + 1,
             NEW bits, buffers' = FilteredString(Fresh, bits, Locals, buffers).buffers,
             LET r == FilteredString(Fresh, bits, Locals, buffers)
             IN  \/ r.text = Nil /\ UNCHANGED <<output, returned>>
                 \/ r.text # Nil /\ output' = output \o r.text /\ UNCHANGED returned
                 \/ r.text # Nil /\ returned' = returned \o r.text /\ UNCHANGED output
      PROVE  TextTypeOK' /\ LevelsOpen' /\ EachOnce(Texts, fed)'
  <2>. DEFINE r == FilteredString(Fresh, bits, Locals, buffers)
  <2>0. LevelsOpen /\ EachOnce(Texts, fed)
    BY <1>7
  <2>1. /\ r.buffers \in Seq(Seq(Atoms)) /\ Len(r.buffers) = Len(buffers)
        /\ DirectEmpty(Locals, r.buffers)
        /\ r.text = Nil => EachOnce(All(output, returned, r.buffers), fed + 1)
        /\ r.text # Nil => /\ r.text \in Seq(Atoms)
                           /\ EachOnce(All(output \o r.text, returned, r.buffers), fed + 1)
                           /\ EachOnce(All(output, returned \o r.text, r.buffers), fed + 1)
    BY <2>0, TextKeeps
  <2>2. /\ buffers' = r.buffers
        /\ \/ r.text = Nil /\ UNCHANGED <<output, returned>>
           \/ r.text # Nil /\ output' = output \o r.text /\ UNCHANGED returned
           \/ r.text # Nil /\ returned' = returned \o r.text /\ UNCHANGED output
    BY <1>7
  <2>. HIDE DEF r
  <2>3. output' \in Seq(Atoms) /\ returned' \in Seq(Atoms) /\ EachOnce(All(output', returned', buffers'), fed')
    <3>1. CASE r.text = Nil
      BY <1>0, <1>7, <2>1, <2>2, <3>1
    <3>2. CASE r.text # Nil /\ output' = output \o r.text /\ UNCHANGED returned
      <4>1. output \o r.text \in Seq(Atoms)
        BY <1>0, <2>1, <3>2, ConcatProperties
      <4>. QED  BY <1>0, <1>7, <2>1, <2>2, <3>2, <4>1
    <3>3. CASE r.text # Nil /\ returned' = returned \o r.text /\ UNCHANGED output
      <4>1. returned \o r.text \in Seq(Atoms)
        BY <1>0, <2>1, <3>3, ConcatProperties
      <4>. QED  BY <1>0, <1>7, <2>1, <2>2, <3>3, <4>1
    <3>. QED  BY <2>2, <3>1, <3>2, <3>3
  <2>4. fed' \in 0..MaxText
    BY <1>0, <1>7, BoundAssumption
  <2>5. TextTypeOK'
    BY <2>1, <2>2, <2>3, <2>4 DEF TextTypeOK
  <2>6. Depth' = Depth /\ \A l : FilterAt(Locals, l)' = FilterAt(Locals, l)
    BY <1>7 DEF Depth, DepthOf, FilterAt, Locals, Count
  <2>7. LevelsOpen'
    BY <1>7, <2>0, <2>1, <2>2, <2>6 DEF LevelsOpen, DirectEmpty, Count
  <2>8. EachOnce(Texts, fed)'
    BY <2>3 DEF Texts, All
  <2>. QED  BY <2>5, <2>7, <2>8
<1>8. ASSUME NEW bits, RenderText(bits)  PROVE TextTypeOK' /\ LevelsOpen' /\ EachOnce(Texts, fed)'
  <2>. DEFINE r == FilteredString(Fresh, bits, Locals, buffers)
  <2>1. /\ Running /\ UNCHANGED <<filter, filterStack, modeStack>> /\ fed < MaxText /\ fed' = fed + 1
        /\ buffers' = r.buffers
        /\ output'  = IF r.text = Nil THEN output ELSE output \o r.text
        /\ UNCHANGED returned
    BY <1>8 DEF RenderText, Render
  <2>2. \/ r.text = Nil /\ UNCHANGED <<output, returned>>
        \/ r.text # Nil /\ output' = output \o r.text /\ UNCHANGED returned
    <3>. HIDE DEF r
    <3>. QED  BY <2>1
  <2>. QED  BY <1>7, <2>1, <2>2
<1>9. CASE FilterFunction
  <2>. DEFINE bits == {FilterOutput}
              r == FilteredString(Fresh, bits, Locals, buffers)
  <2>1. /\ Running /\ UNCHANGED <<filter, filterStack, modeStack>> /\ fed < MaxText /\ fed' = fed + 1
        /\ buffers' = r.buffers
        /\ returned' = IF r.text = Nil THEN returned ELSE returned \o r.text
        /\ UNCHANGED output
    BY <1>9 DEF FilterFunction
  <2>. HIDE DEF bits
  <2>2. \/ r.text = Nil /\ UNCHANGED <<output, returned>>
        \/ r.text # Nil /\ returned' = returned \o r.text /\ UNCHANGED output
    <3>. HIDE DEF r
    <3>. QED  BY <2>1
  <2>. QED  BY <1>7, <2>1, <2>2
<1>10. CASE UNCHANGED vars
  <2>1. UNCHANGED <<filter, mode, filterStack, modeStack, buffers, output, returned, fed, raised>>
    BY <1>10 DEF vars
  <2>2. TextTypeOK'
    BY <2>1 DEF TextTypeOK
  <2>3. Running' = Running /\ Texts' = Texts /\ fed' = fed /\ Locals' = Locals /\ Depth' = Depth
    BY <2>1 DEF Running, Texts, Locals, Depth, DepthOf, Count
  <2>4. LevelsOpen => LevelsOpen'
    BY <2>1, <2>3 DEF LevelsOpen, DirectEmpty, Count
  <2>. QED  BY <2>2, <2>3, <2>4
<1>. QED
  BY <1>1, <1>2, <1>3, <1>5, <1>6, <1>8, <1>9, <1>10 DEF Next

\* Whatever filters a template opens and closes, in whatever order, and however often
\* one keeps text back: until something is raised each string is at exactly one place,
\* the output, the result of a filter() or one of the filter objects that are open.
THEOREM TextIsKept == Spec => []NothingLost
<1>1. LostInv => NothingLost
  BY DEF LostInv, NothingLost
<1>. QED  BY <1>1, LostInvInit, LostInvNext, PTL DEF Spec

-----------------------------------------------------------------------------
(* The stack of open filters that the four entries stand for. *)

\* The stack that some locals and buffers stand for.
StackOf(L, bufs) ==
  [l \in 1..Len(bufs) |->
     [filter  |-> FilterAt(L, l),
      options |-> MaskAt(L, l),
      held    |-> bufs[l]]]

\* A text on which some filters were used, first to last.
RoutedBy(x, q) == [i \in DOMAIN x |-> [x[i] EXCEPT !.by = @ \o q]]

\* No filter used is the text as it is.
LEMMA RoutedByNone ==
  ASSUME NEW x \in Seq(Atoms)
  PROVE  RoutedBy(x, <<>>) = x
<1>1. \A i \in DOMAIN x : x[i] \in Atoms
  OBVIOUS
<1>2. ASSUME NEW i \in DOMAIN x  PROVE [x[i] EXCEPT !.by = @ \o <<>>] = x[i]
  <2>1. x[i].by \in Seq(Filters) /\ x[i] = [id |-> x[i].id, by |-> x[i].by]
    BY <1>1 DEF Atoms
  <2>2. x[i].by \o <<>> = x[i].by
    BY <2>1, ConcatEmptySeq
  <2>. QED  BY <2>1, <2>2
<1>3. x = [i \in DOMAIN x |-> x[i]]
  OBVIOUS
<1>4. RoutedBy(x, <<>>) = [i \in DOMAIN x |-> x[i]]
  BY <1>2 DEF RoutedBy
<1>. QED  BY <1>3, <1>4

\* A filter behind two lists of them.
LEMMA BehindBoth ==
  ASSUME NEW s \in Seq(Filters), NEW q \in Seq(Filters), NEW f \in Filters
  PROVE  /\ s \o q \in Seq(Filters)
         /\ Append(s \o q, f) = s \o Append(q, f)
<1>. DEFINE e == <<f>>
<1>1. e \in Seq(Filters)
  OBVIOUS
<1>2. s \o q \in Seq(Filters)
  BY ConcatProperties
<1>3. Append(q, f) = q \o e /\ Append(s \o q, f) = (s \o q) \o e
  BY <1>2, AppendIsConcat
<1>. HIDE DEF e
<1>4. (s \o q) \o e = s \o (q \o e)
  BY <1>1, ConcatAssociative
<1>. QED  BY <1>2, <1>3, <1>4

\* It still is a text.
LEMMA RoutedByType ==
  ASSUME NEW x \in Seq(Atoms), NEW q \in Seq(Filters)
  PROVE  RoutedBy(x, q) \in Seq(Atoms)
<1>. DEFINE n == Len(x)
            y == RoutedBy(x, q)
<1>1. n \in Nat /\ DOMAIN x = 1..n /\ \A i \in 1..n : x[i] \in Atoms
  OBVIOUS
<1>2. y = [i \in 1..n |-> [x[i] EXCEPT !.by = @ \o q]]
  BY <1>1 DEF RoutedBy
<1>. HIDE DEF n, y
<1>3. ASSUME NEW i \in 1..n  PROVE y[i] \in Atoms
  <2>. DEFINE a == x[i].id
              b == x[i].by
              c == b \o q
              z == y[i]
              v == x[i]
  <2>1. b \in Seq(Filters) /\ a \in Nat /\ v = [id |-> a, by |-> b]
    BY <1>1 DEF Atoms
  <2>2. z = [v EXCEPT !.by = c]
    BY <1>2
  <2>3. c \in Seq(Filters)
    BY <2>1, ConcatProperties
  <2>. HIDE DEF a, b, c, z, v
  <2>4. z = [id |-> a, by |-> c]
    BY <2>1, <2>2
  <2>. QED  BY <2>1, <2>3, <2>4 DEF Atoms, z
<1>4. y \in [1..n -> Atoms]
  BY <1>2, <1>3
<1>5. y \in Seq(Atoms)
  BY <1>1, <1>4
<1>. QED  BY <1>5 DEF y

\* One more filter is used on what went through the ones before.
LEMMA RoutedByOneMore ==
  ASSUME NEW x \in Seq(Atoms), NEW q \in Seq(Filters), NEW f \in Filters
  PROVE  Through(f, RoutedBy(x, q)) = RoutedBy(x, Append(q, f))
<1>. DEFINE n == Len(x)
            y == RoutedBy(x, q)
<1>1. n \in Nat /\ DOMAIN x = 1..n /\ \A i \in 1..n : x[i] \in Atoms
  OBVIOUS
<1>2. y = [i \in 1..n |-> [x[i] EXCEPT !.by = @ \o q]]
  BY <1>1 DEF RoutedBy
<1>. HIDE DEF n, y
<1>3. ASSUME NEW i \in 1..n
      PROVE  [y[i] EXCEPT !.by = Append(@, f)] = [x[i] EXCEPT !.by = @ \o Append(q, f)]
  <2>. DEFINE a == x[i].id
              b == x[i].by
              c == b \o q
              d == Append(c, f)
              e == Append(q, f)
              z == y[i]
              v == x[i]
  <2>1. b \in Seq(Filters) /\ v = [id |-> a, by |-> b]
    BY <1>1 DEF Atoms
  <2>2. z = [v EXCEPT !.by = c]
    BY <1>2
  <2>3. d = b \o e
    BY <2>1, BehindBoth
  <2>. HIDE DEF a, b, c, d, z, v
  <2>4. z = [id |-> a, by |-> c]
    BY <2>1, <2>2
  <2>5. z.by = c /\ [z EXCEPT !.by = d] = [id |-> a, by |-> d]
    BY <2>4
  <2>6. v.by = b /\ [v EXCEPT !.by = d] = [id |-> a, by |-> d]
    BY <2>1
  <2>7. [z EXCEPT !.by = Append(z.by, f)] = [z EXCEPT !.by = d]
    BY <2>5 DEF d
  <2>8. [v EXCEPT !.by = v.by \o e] = [v EXCEPT !.by = d]
    BY <2>3, <2>6
  <2>. QED  BY <2>5, <2>6, <2>7, <2>8 DEF z, v, e
<1>4. DOMAIN y = 1..n
  BY <1>2
<1>5. Through(f, y) = RoutedBy(x, Append(q, f))
  BY <1>1, <1>3, <1>4 DEF Through, RoutedBy
<1>. QED  BY <1>5 DEF y

\* One place of the recursive definition in Route.
WayAt(S, kind, way, k) ==
  IF k = 0 THEN <<>>
  ELSE IF Len(S) + 1 - k \in Stack!Passed(S, kind)
       THEN Append(way[k - 1], S[Len(S) + 1 - k].filter)
  ELSE way[k - 1]

\* way satisfies the equation of Route as far as the n-th filter from the innermost.
WayUpTo(S, kind, n, way) == way = [k \in 0..n |-> WayAt(S, kind, way, k)]

\* The recursion has a solution.
LEMMA WayExists ==
  ASSUME NEW S, NEW kind, NEW n \in Nat
  PROVE  \E way : WayUpTo(S, kind, n, way)
<1>. DEFINE P == {m \in Nat : \E way : WayUpTo(S, kind, m, way)}
<1>1. 0 \in P
  <2>. DEFINE first == [k \in 0..0 |-> <<>>]
  <2>1. \A k \in 0..0 : WayAt(S, kind, first, k) = <<>>
    BY DEF WayAt
  <2>2. first = [k \in 0..0 |-> WayAt(S, kind, first, k)]
    BY <2>1
  <2>. HIDE DEF first
  <2>. QED  BY <2>2 DEF WayUpTo
<1>2. ASSUME NEW m \in Nat, m \in P  PROVE m + 1 \in P
  <2>1. PICK w : WayUpTo(S, kind, m, w)
    BY <1>2
  <2>. DEFINE next == [k \in 0..(m + 1) |-> IF k = m + 1 THEN WayAt(S, kind, w, k) ELSE w[k]]
  <2>2. DOMAIN next = 0..(m + 1) /\ next = [k \in 0..(m + 1) |-> next[k]]
    OBVIOUS
  <2>3. ASSUME NEW k \in 0..(m + 1)  PROVE next[k] = WayAt(S, kind, next, k)
    <3>1. next[k] = WayAt(S, kind, w, k)
      <4>1. CASE k = m + 1
        BY <4>1
      <4>2. CASE k # m + 1
        <5>1. k \in 0..m /\ next[k] = w[k]
          BY <4>2
        <5>2. \A i \in 0..m : w[i] = WayAt(S, kind, w, i)
          BY <2>1 DEF WayUpTo
        <5>. QED  BY <5>1, <5>2, Zenon
      <4>. QED  BY <4>1, <4>2
    <3>2. k # 0 => next[k - 1] = w[k - 1]
      OBVIOUS
    <3>. HIDE DEF next
    <3>. QED  BY <3>1, <3>2 DEF WayAt
  <2>. HIDE DEF next
  <2>4. WayUpTo(S, kind, m + 1, next)
    BY <2>2, <2>3 DEF WayUpTo
  <2>. QED  BY <2>4
<1>. HIDE DEF P
<1>3. n \in P
  BY <1>1, <1>2, SetInduction
<1>. QED  BY <1>3 DEF P

\* A way that satisfies the equation leads to the value of Route.
LEMMA RouteIs ==
  ASSUME NEW S, NEW kind, Len(S) \in Nat
  PROVE  \E way : /\ DOMAIN way = 0..Len(S)
                  /\ \A k \in 0..Len(S) : way[k] = WayAt(S, kind, way, k)
                  /\ Stack!Route(S, kind) = way[Len(S)]
<1>. DEFINE w == CHOOSE way : WayUpTo(S, kind, Len(S), way)
<1>1. WayUpTo(S, kind, Len(S), w)
  BY WayExists
<1>2. Stack!Route(S, kind) = w[Len(S)]
  BY DEF Stack!Route, WayUpTo, WayAt
<1>. HIDE DEF w
<1>3. w = [k \in 0..Len(S) |-> WayAt(S, kind, w, k)]
  BY <1>1 DEF WayUpTo
<1>. QED  BY <1>2, <1>3

\* What is left of a string of a kind that went past the levels above l: the filters it
\* went through are q.
Passing(text, bufs, S, kind, l, q, r) ==
  /\ q \in Seq(Filters)
  /\ (\A c \in Stack!Catchers(S, kind) : c <= l) =>
       r = [text |-> RoutedBy(text, q), buffers |-> bufs]
  /\ (\E c \in Stack!Catchers(S, kind) : c > l) =>
       r = [text |-> Nil, buffers |-> PutBehind(bufs, Stack!Max(Stack!Catchers(S, kind)),
                                                RoutedBy(text, q))]

\* What MaskAt gives are kinds of text, and the stacked bit is none.
KindsAt(L, n) == \A l \in 1..n : MaskAt(L, l) \in Modes

\* The levels that take a kind of text are those the walk asks.
LEMMA TakersAre ==
  ASSUME NEW L, NEW bufs \in Seq(Seq(Atoms)), NEW kind \in {FilterPlaintext, FilterOutput},
         KindsAt(L, Len(bufs))
  PROVE  LET S == StackOf(L, bufs)
         IN  /\ Len(S) = Len(bufs) /\ DOMAIN S = 1..Len(bufs)
             /\ \A l \in 1..Len(bufs) :
                  /\ S[l].filter = FilterAt(L, l) /\ S[l].held = bufs[l]
                  /\ l \in Stack!Takers(S, kind) <=>
                       MaskAt(L, l) \cap {kind, FilterApplyStackedFilters} # {}
                  /\ l \in Stack!Catchers(S, kind) <=>
                       l \in Stack!Takers(S, kind) /\ FilterAt(L, l) \in Buffering
             /\ Stack!Catchers(S, kind) \subseteq 1..Len(bufs)
<1>. DEFINE n == Len(bufs)
            S == StackOf(L, bufs)
<1>1. n \in Nat
  OBVIOUS
<1>. HIDE DEF n
<1>2. S = [l \in 1..n |-> [filter |-> FilterAt(L, l), options |-> MaskAt(L, l), held |-> bufs[l]]]
  BY DEF StackOf, n
<1>. HIDE DEF S
<1>3. Len(S) = n /\ DOMAIN S = 1..n
  BY <1>1, <1>2
<1>4. \A l \in 1..n : /\ S[l].filter = FilterAt(L, l) /\ S[l].held = bufs[l]
                      /\ S[l].options = MaskAt(L, l)
  BY <1>2
<1>5. ASSUME NEW l \in 1..n
      PROVE  l \in Stack!Takers(S, kind) <=> MaskAt(L, l) \cap {kind, FilterApplyStackedFilters} # {}
  <2>1. MaskAt(L, l) \in { {FilterPlaintext}, {FilterOutput}, {FilterPlaintext, FilterOutput} }
    BY DEF KindsAt, Modes, n
  <2>2. FilterApplyStackedFilters \notin MaskAt(L, l)
    BY <2>1 DEF FilterApplyStackedFilters, FilterPlaintext, FilterOutput
  <2>3. l \in Stack!Takers(S, kind) <=> kind \in MaskAt(L, l)
    BY <1>3, <1>4 DEF Stack!Takers
  <2>. QED  BY <2>2, <2>3
<1>6. \A l : l \in Stack!Catchers(S, kind) <=> l \in Stack!Takers(S, kind) /\ S[l].filter \in Buffering
  BY DEF Stack!Catchers
<1>7. Stack!Catchers(S, kind) \subseteq 1..n
  BY <1>3, <1>6 DEF Stack!Takers
<1>. QED  BY <1>3, <1>4, <1>5, <1>6, <1>7 DEF S, n

\* One level more.
LEMMA PassingOne ==
  ASSUME NEW text \in Seq(Atoms), NEW bufs \in Seq(Seq(Atoms)), NEW L,
         NEW kind \in {FilterPlaintext, FilterOutput},
         FiltersAt(L, bufs), KindsAt(L, Len(bufs)),
         NEW k \in 0..(Len(bufs) - 1), NEW q, NEW r,
         Passing(text, bufs, StackOf(L, bufs), kind, Len(bufs) - k, q, r)
  PROVE  LET S == StackOf(L, bufs)
             l == Len(bufs) - k
         IN  Passing(text, bufs, S, kind, l - 1,
                     IF l \in Stack!Passed(S, kind) THEN Append(q, S[l].filter) ELSE q,
                     Meet(l, r, {kind, FilterApplyStackedFilters}, L))
<1>. DEFINE S == StackOf(L, bufs)
            l == Len(bufs) - k
            C == Stack!Catchers(S, kind)
            T == Stack!Takers(S, kind)
            f == FilterAt(L, l)
            m == Meet(l, r, {kind, FilterApplyStackedFilters}, L)
            p == IF l \in Stack!Passed(S, kind) THEN Append(q, S[l].filter) ELSE q
<1>1. l \in 1..Len(bufs) /\ l \in Nat /\ l - 1 \in Nat /\ Len(bufs) \in Nat
  OBVIOUS
<1>2. /\ S[l].filter = f
      /\ l \in T <=> MaskAt(L, l) \cap {kind, FilterApplyStackedFilters} # {}
      /\ l \in C <=> l \in T /\ f \in Buffering
      /\ C \subseteq 1..Len(bufs)
  BY <1>1, TakersAre
<1>3. f \in Filters
  <2>1. l \in DOMAIN bufs
    BY <1>1
  <2>. HIDE DEF l
  <2>. QED  BY <2>1 DEF FiltersAt
<1>4. /\ q \in Seq(Filters)
      /\ (\A c \in C : c <= l) => r = [text |-> RoutedBy(text, q), buffers |-> bufs]
      /\ (\E c \in C : c > l) =>
           r = [text |-> Nil, buffers |-> PutBehind(bufs, Stack!Max(C), RoutedBy(text, q))]
  BY DEF Passing
<1>5. l \in Stack!Passed(S, kind) <=> l \in T /\ \A c \in C : l > c
  BY DEF Stack!Passed
<1>6. m = IF r.text # Nil /\ MaskAt(L, l) \cap {kind, FilterApplyStackedFilters} # {}
          THEN Evaluate(f, l, r) ELSE r
  BY DEF Meet
<1>7. \A c \in C : c \in Int
  BY <1>2
<1>8. RoutedBy(text, q) \in Seq(Atoms) /\ RoutedBy(text, q) # Nil
  BY <1>4, RoutedByType, NilAssumption
<1>9. p = IF l \in Stack!Passed(S, kind) THEN Append(q, f) ELSE q
  BY <1>2
<1>. DEFINE Max_ == Stack!Max(C)
            R(u) == RoutedBy(text, u)
<1>. SUFFICES Passing(text, bufs, S, kind, l - 1, p, m)
  OBVIOUS
<1>. HIDE DEF S, l, C, T, f, m, p
<1>10. CASE \E c \in C : c > l
  <2>1. r = [text |-> Nil, buffers |-> PutBehind(bufs, Max_, R(q))]
    BY <1>4, <1>10
  <2>2. m = r /\ p = q
    BY <1>1, <1>5, <1>6, <1>7, <1>9, <1>10, <2>1
  <2>3. (\E c \in C : c > l - 1) /\ ~(\A c \in C : c <= l - 1)
    BY <1>1, <1>7, <1>10
  <2>. QED  BY <1>4, <2>1, <2>2, <2>3 DEF Passing, C
<1>11. CASE (\A c \in C : c <= l) /\ l \notin T
  <2>1. r = [text |-> RoutedBy(text, q), buffers |-> bufs]
    BY <1>4, <1>11
  <2>2. m = r /\ p = q
    BY <1>2, <1>5, <1>6, <1>9, <1>11
  <2>3. l \notin C
    BY <1>2, <1>11
  <2>4. (\A c \in C : c <= l - 1) /\ ~(\E c \in C : c > l - 1)
    BY <1>1, <1>7, <1>11, <2>3
  <2>. QED  BY <1>4, <2>1, <2>2, <2>4 DEF Passing, C
<1>12. CASE (\A c \in C : c <= l) /\ l \in T /\ f \in Buffering
  <2>1. r = [text |-> R(q), buffers |-> bufs]
    BY <1>4, <1>12
  <2>2. l \in C
    BY <1>2, <1>12
  <2>3. Max_ = l
    <3>1. \A x \in C : (\A y \in C : x >= y) <=> x = l
      BY <1>1, <1>7, <1>12, <2>2
    <3>. QED  BY <2>2, <3>1 DEF Stack!Max
  <2>4. m = Evaluate(f, l, r) /\ p = q
    BY <1>1, <1>2, <1>5, <1>6, <1>8, <1>9, <1>12, <2>1, <2>2
  <2>5. m = [text |-> Nil, buffers |-> PutBehind(bufs, l, R(q))]
    BY <1>12, <2>1, <2>4 DEF Evaluate, PutBehind
  <2>6. (\E c \in C : c > l - 1) /\ ~(\A c \in C : c <= l - 1)
    BY <1>1, <2>2
  <2>. QED  BY <1>4, <2>3, <2>4, <2>5, <2>6 DEF Passing, C
<1>13. CASE (\A c \in C : c <= l) /\ l \in T /\ f \notin Buffering
  <2>1. r = [text |-> R(q), buffers |-> bufs]
    BY <1>4, <1>13
  <2>2. l \notin C
    BY <1>2, <1>13
  <2>3. (\A c \in C : l > c) /\ (\A c \in C : c <= l - 1) /\ ~(\E c \in C : c > l - 1)
    BY <1>1, <1>7, <1>13, <2>2
  <2>4. p = Append(q, f) /\ p \in Seq(Filters)
    BY <1>3, <1>4, <1>5, <1>9, <1>13, <2>3, AppendProperties
  <2>5. m = Evaluate(f, l, r)
    BY <1>2, <1>6, <1>8, <1>13, <2>1
  <2>6. m = [text |-> Through(f, R(q)), buffers |-> bufs]
    BY <1>13, <2>1, <2>5 DEF Evaluate
  <2>7. Through(f, R(q)) = R(p)
    BY <1>3, <1>4, <2>4, RoutedByOneMore
  <2>. QED  BY <2>3, <2>4, <2>6, <2>7 DEF Passing, C
<1>14. \/ \E c \in C : c > l
       \/ \A c \in C : c <= l
  BY <1>1, <1>7
<1>. QED  BY <1>10, <1>11, <1>12, <1>13, <1>14

\* MulleScionFilteredString with the stacked bit is the route of the abstract stack.
LEMMA WalkIsRoute ==
  ASSUME NEW text \in Seq(Atoms), NEW bufs \in Seq(Seq(Atoms)), NEW L,
         NEW kind \in {FilterPlaintext, FilterOutput},
         FiltersAt(L, bufs), KindsAt(L, Len(bufs))
  PROVE  Passing(text, bufs, StackOf(L, bufs), kind, 0, Stack!Route(StackOf(L, bufs), kind),
                 FilteredString(text, {kind, FilterApplyStackedFilters}, L, bufs))
<1>. DEFINE n == Len(bufs)
            S == StackOf(L, bufs)
            bits == {kind, FilterApplyStackedFilters}
<1>1. n \in Nat /\ DepthOf(L) = n
  BY DEF FiltersAt
<1>2. Len(S) = n /\ Stack!Catchers(S, kind) \subseteq 1..n
  BY TakersAre
<1>3. PICK w : WalkOf(text, bits, L, bufs, n, w) /\ FilteredString(text, bits, L, bufs) = w[n]
  <2>. HIDE DEF n, S, bits
  <2>. QED  BY <1>1, WalkIs
<1>4. PICK way : /\ \A k \in 0..n : way[k] = WayAt(S, kind, way, k)
                 /\ Stack!Route(S, kind) = way[n]
  <2>. HIDE DEF n, S
  <2>. QED  BY <1>1, <1>2, RouteIs
<1>. DEFINE Good(k) == Passing(text, bufs, S, kind, n - k, way[k], w[k])
            P == {k \in Nat : k <= n => Good(k)}
<1>5. 0 \in P
  <2>1. way[0] = <<>>
    BY <1>1, <1>4 DEF WayAt
  <2>2. RoutedBy(text, <<>>) = text
    BY RoutedByNone
  <2>3. \A c \in Stack!Catchers(S, kind) : c <= n - 0 /\ ~(c > n - 0)
    BY <1>1, <1>2
  <2>4. <<>> \in Seq(Filters)
    OBVIOUS
  <2>. HIDE DEF S, n
  <2>5. Good(0)
    BY <1>3, <2>1, <2>2, <2>3, <2>4 DEF Passing, WalkOf
  <2>. QED  BY <2>5
<1>6. ASSUME NEW k \in Nat, k \in P  PROVE k + 1 \in P
  <2>. SUFFICES ASSUME k + 1 <= n  PROVE Good(k + 1)
    OBVIOUS
  <2>1. k \in 0..(n - 1) /\ k + 1 \in 1..n /\ k + 1 \in 0..n /\ (k + 1) - 1 = k
        /\ n + 1 - (k + 1) = n - k /\ (n - k) - 1 = n - (k + 1) /\ k <= n /\ k + 1 # 0
    BY <1>1
  <2>2. Passing(text, bufs, S, kind, n - k, way[k], w[k])
    BY <1>6, <2>1
  <2>3. Passing(text, bufs, S, kind, (n - k) - 1,
                IF n - k \in Stack!Passed(S, kind) THEN Append(way[k], S[n - k].filter) ELSE way[k],
                Meet(n - k, w[k], bits, L))
    BY <2>1, <2>2, PassingOne
  <2>. HIDE DEF n, bits, S
  <2>4. w[k + 1] = Meet(n - k, w[k], bits, L)
    BY <1>3, <2>1 DEF WalkOf
  <2>5. way[k + 1] = IF n - k \in Stack!Passed(S, kind) THEN Append(way[k], S[n - k].filter) ELSE way[k]
    <3>1. way[k + 1] = WayAt(S, kind, way, k + 1)
      BY <1>4, <2>1
    <3>. QED  BY <1>2, <2>1, <3>1 DEF WayAt
  <2>. QED  BY <2>1, <2>3, <2>4, <2>5
<1>. HIDE DEF P, Good
<1>7. n \in P
  BY <1>1, <1>5, <1>6, SetInduction
<1>8. Good(n) /\ n - n = 0
  BY <1>1, <1>7 DEF P
<1>. QED  BY <1>3, <1>4, <1>8 DEF Good

\* A stack whose filter on a level was given more to keep.
GivenMore(S, c, x) == [S EXCEPT ![c].held = @ \o x]

\* What a filter is given to keep is the only change of the stack.
LEMMA HeldChange ==
  ASSUME NEW L, NEW bufs \in Seq(Seq(Atoms)), NEW c \in DOMAIN bufs, NEW x \in Seq(Atoms)
  PROVE  StackOf(L, PutBehind(bufs, c, x)) = GivenMore(StackOf(L, bufs), c, x)
<1>. DEFINE n == Len(bufs)
            y == bufs[c] \o x
            P == PutBehind(bufs, c, x)
            S == StackOf(L, bufs)
            T == StackOf(L, P)
            E(l, h) == [filter |-> FilterAt(L, l), options |-> MaskAt(L, l), held |-> h]
<1>1. n \in Nat /\ DOMAIN bufs = 1..n /\ y \in Seq(Atoms)
  BY ConcatProperties
<1>2. P = [bufs EXCEPT ![c] = y]
  BY DEF PutBehind
<1>. HIDE DEF y
<1>3. /\ P \in Seq(Seq(Atoms)) /\ Len(P) = n
      /\ \A l \in 1..n : P[l] = IF l = c THEN y ELSE bufs[l]
  <2>. HIDE DEF n, P
  <2>. QED  BY <1>1, <1>2 DEF n
<1>4. S = [l \in 1..n |-> E(l, bufs[l])] /\ T = [l \in 1..n |-> E(l, P[l])]
  BY <1>3 DEF StackOf
<1>. HIDE DEF n, P, S, T
<1>5. c \in 1..n
  BY <1>1
<1>6. [S[c] EXCEPT !.held = y] = E(c, y) /\ S[c].held = bufs[c]
  BY <1>4, <1>5
<1>. HIDE DEF E
<1>7. [S EXCEPT ![c] = E(c, y)] = T
  BY <1>3, <1>4, <1>5
<1>8. [S EXCEPT ![c].held = @ \o x] = [S EXCEPT ![c] = [S[c] EXCEPT !.held = S[c].held \o x]]
  OBVIOUS
<1>. QED  BY <1>6, <1>7, <1>8 DEF S, T, P, y, GivenMore

\* Nothing given is no change.
LEMMA NothingBehind ==
  ASSUME NEW bufs \in Seq(Seq(Atoms)), NEW c \in DOMAIN bufs
  PROVE  PutBehind(bufs, c, <<>>) = bufs
<1>1. bufs[c] \in Seq(Atoms)
  OBVIOUS
<1>2. bufs[c] \o <<>> = bufs[c]
  BY <1>1, ConcatEmptySeq
<1>. QED  BY <1>2 DEF PutBehind

\* Among some levels one is the innermost.
LEMMA GreatestLevel ==
  ASSUME NEW n \in Nat, NEW C, C \subseteq 1..n, C # {}
  PROVE  \E c \in C : \A d \in C : c >= d
<1>. DEFINE D == {n - c : c \in C}
<1>1. \A c \in C : c \in Nat /\ c <= n /\ n - c \in Nat
  OBVIOUS
<1>2. D \subseteq Nat /\ D # {}
  BY <1>1
<1>3. PICK e \in D : \A d \in D : e <= d
  BY <1>2, LeastNatural
<1>4. PICK c \in C : e = n - c
  BY <1>3
<1>5. \A d \in C : n - c <= n - d
  BY <1>3, <1>4
<1>. QED  BY <1>1, <1>5

\* The filter that keeps a text is one of the stack.
LEMMA CatcherFound ==
  ASSUME NEW L, NEW bufs \in Seq(Seq(Atoms)), NEW kind \in {FilterPlaintext, FilterOutput},
         KindsAt(L, Len(bufs)), Stack!Catchers(StackOf(L, bufs), kind) # {}
  PROVE  Stack!Max(Stack!Catchers(StackOf(L, bufs), kind)) \in DOMAIN bufs
<1>. DEFINE C == Stack!Catchers(StackOf(L, bufs), kind)
<1>1. C \subseteq 1..Len(bufs) /\ DOMAIN bufs = 1..Len(bufs) /\ Len(bufs) \in Nat
  BY TakersAre
<1>2. C # {}
  OBVIOUS
<1>. HIDE DEF C
<1>3. \E c \in C : \A d \in C : c >= d
  BY <1>1, <1>2, GreatestLevel
<1>. QED  BY <1>1, <1>3 DEF C, Stack!Max

\* A string that is rendered is written to the abstract stack.
LEMMA RenderWrites ==
  ASSUME NEW B \in Seq(Seq(Atoms)), NEW M, Locals' = M, NEW kind \in {FilterPlaintext, FilterOutput},
         NEW text \in Seq(Atoms), FiltersAt(M, B), KindsAt(M, Len(B)),
         Render(text, {kind, FilterApplyStackedFilters}, M, B)
  PROVE  Stack!Write(StackOf(M, B), kind, text)
<1>. DEFINE bits == {kind, FilterApplyStackedFilters}
            r == FilteredString(text, bits, M, B)
            S == StackOf(M, B)
            C == Stack!Catchers(S, kind)
            q == Stack!Route(S, kind)
            x == RoutedBy(text, q)
            m == Stack!Max(C)
<1>1. buffers' = r.buffers /\ output' = IF r.text = Nil THEN output ELSE output \o r.text
  BY DEF Render
<1>2. Passing(text, B, S, kind, 0, q, r)
  BY WalkIsRoute
<1>3. C \subseteq 1..Len(B) /\ DOMAIN B = 1..Len(B) /\ Len(B) \in Nat
  BY TakersAre
<1>4. Stack!Routed(S, kind, text) = x
  BY DEF Stack!Routed, RoutedBy
<1>5. OpenFilters' = StackOf(M, buffers')
  BY DEF OpenFilters, StackOf
<1>. HIDE DEF r, S, bits, C, q
<1>6. q \in Seq(Filters)
  BY <1>2 DEF Passing
<1>7. x \in Seq(Atoms) /\ x # Nil
  BY <1>6, RoutedByType, NilAssumption
<1>. HIDE DEF x, m
<1>8. CASE C = {}
  <2>1. \A c \in C : c <= 0
    BY <1>8
  <2>2. r = [text |-> x, buffers |-> B]
    BY <1>2, <2>1 DEF Passing, C, x
  <2>3. OpenFilters' = S /\ output' = output \o x
    BY <1>1, <1>5, <1>7, <2>2 DEF S
  <2>. QED  BY <1>4, <1>8, <2>3 DEF Stack!Write, S, C
<1>9. CASE C # {}
  <2>1. \E c \in C : c > 0
    <3>1. \A c \in 1..Len(B) : c > 0
      OBVIOUS
    <3>. QED  BY <1>3, <1>9, <3>1
  <2>2. r = [text |-> Nil, buffers |-> PutBehind(B, m, x)]
    BY <1>2, <2>1 DEF Passing, C, x, m
  <2>3. m \in 1..Len(B)
    BY <1>3, <1>9, CatcherFound DEF m, C, S
  <2>4. OpenFilters' = [S EXCEPT ![m].held = @ \o x] /\ output' = output
    <3>1. m \in DOMAIN B /\ x \in Seq(Atoms)
      BY <1>3, <1>7, <2>3
    <3>2. StackOf(M, PutBehind(B, m, x)) = GivenMore(StackOf(M, B), m, x)
      BY <3>1, HeldChange
    <3>3. r.buffers = PutBehind(B, m, x) /\ r.text = Nil
      BY <2>2
    <3>. QED  BY <1>1, <1>5, <3>2, <3>3 DEF S, GivenMore
  <2>. QED  BY <1>4, <1>9, <2>4 DEF Stack!Write, S, C, m
<1>. QED  BY <1>8, <1>9

\* The arrays of some locals are level.
Level(L) == /\ L.filter \in Filters /\ L.mode \in Modes
            /\ L.filterStack \in Seq(Filters) \cup {Nil}
            /\ L.modeStack \in Seq(Modes) \cup {Nil}
            /\ Count(L.modeStack) = Count(L.filterStack)

\* A filter and its mode are found at their level.
LEMMA LevelsAre ==
  ASSUME NEW L, Level(L)
  PROVE  /\ Count(L.filterStack) \in Nat /\ DepthOf(L) = Count(L.filterStack) + 1
         /\ FilterAt(L, DepthOf(L)) = L.filter /\ MaskAt(L, DepthOf(L)) = L.mode
         /\ \A l \in 1..Count(L.filterStack) :
              FilterAt(L, l) = L.filterStack[l] /\ MaskAt(L, l) = L.modeStack[l]
<1>. DEFINE c == Count(L.filterStack)
            d == Count(L.modeStack)
<1>1. c \in Nat /\ d = c
  BY DEF Level, Count
<1>2. L.filter # Nil
  BY NilAssumption DEF Level
<1>3. DepthOf(L) = c + 1
  BY <1>2 DEF DepthOf
<1>. HIDE DEF c, d
<1>4. FilterAt(L, DepthOf(L)) = L.filter /\ MaskAt(L, DepthOf(L)) = L.mode
  BY DEF FilterAt, MaskAt
<1>5. ASSUME NEW l \in 1..c
      PROVE  FilterAt(L, l) = L.filterStack[l] /\ MaskAt(L, l) = L.modeStack[l]
  <2>1. l # DepthOf(L) /\ (l + d) - c = l /\ l \in 1..d
    BY <1>1, <1>3
  <2>2. FilterAt(L, l) = L.filterStack[l]
    BY <2>1 DEF FilterAt
  <2>3. MaskAt(L, l) = L.modeStack[l]
    BY <2>1 DEF MaskAt, c, d
  <2>. QED  BY <2>2, <2>3
<1>. QED  BY <1>1, <1>3, <1>4, <1>5 DEF c

\* As long as filters nest in one place only the arrays are level.
LEMMA StacksLevel ==
  ASSUME FilterInv, EnclosingFound, Running, filter # Nil
  PROVE  Level(Locals)
<1>1. /\ filter \in Filters /\ mode \in Modes
      /\ filterStack \in Seq(Filters) \cup {Nil} /\ modeStack \in Seq(Modes) \cup {Nil}
  BY DEF FilterInv, LocalsTypeOK, NestingAsserts
<1>2. Count(modeStack) = Count(filterStack)
  <2>1. CASE modeStack = Nil
    <3>1. ~(Count(filterStack) > 0) /\ Count(filterStack) \in Nat
      BY <1>1, <2>1 DEF EnclosingFound, Count
    <3>. QED  BY <2>1, <3>1 DEF Count
  <2>2. CASE modeStack # Nil
    BY <2>2 DEF FilterInv, StacksAligned, Count
  <2>. QED  BY <2>1, <2>2
<1>. QED  BY <1>1, <1>2 DEF Level, Locals

\* All the levels have filters and modes.
LEMMA KindsFound ==
  ASSUME FilterInv, TextTypeOK, LevelsOpen, EnclosingFound, Running
  PROVE  /\ buffers \in Seq(Seq(Atoms))
         /\ FiltersAt(Locals, buffers) /\ KindsAt(Locals, Len(buffers))
         /\ Len(buffers) = Depth /\ Len(buffers) \in Nat
<1>0. buffers \in Seq(Seq(Atoms)) /\ Len(buffers) = DepthOf(Locals)
  BY DEF TextTypeOK, LevelsOpen, Depth
<1>1. FiltersAt(Locals, buffers)
  <2>1. Locals.filter \in Filters \cup {Nil} /\ Locals.filterStack \in Seq(Filters) \cup {Nil}
    BY DEF FilterInv, LocalsTypeOK, Locals
  <2>. QED  BY <1>0, <2>1, LevelFilters
<1>2. KindsAt(Locals, Len(buffers))
  <2>1. CASE filter = Nil
    <3>1. DepthOf(Locals) = 0
      BY <2>1 DEF DepthOf, Locals
    <3>. QED  BY <1>0, <3>1 DEF KindsAt
  <2>2. CASE filter # Nil
    <3>. DEFINE L == Locals
                c == Count(L.filterStack)
    <3>1. Level(L)
      BY <2>2, StacksLevel
    <3>. HIDE DEF L
    <3>2. /\ c \in Nat /\ DepthOf(L) = c + 1
          /\ MaskAt(L, DepthOf(L)) = L.mode
          /\ \A l \in 1..c : MaskAt(L, l) = L.modeStack[l]
      BY <3>1, LevelsAre
    <3>3. L.mode \in Modes /\ L.modeStack \in Seq(Modes) \cup {Nil} /\ Count(L.modeStack) = c
      BY <3>1 DEF Level
    <3>. HIDE DEF c
    <3>4. ASSUME NEW l \in 1..(c + 1)  PROVE MaskAt(L, l) \in Modes
      <4>1. CASE l = c + 1
        BY <3>2, <3>3, <4>1
      <4>2. CASE l # c + 1
        <5>1. l \in 1..c /\ c > 0
          BY <3>2, <4>2
        <5>2. L.modeStack \in Seq(Modes) /\ Len(L.modeStack) = c
          BY <3>3, <5>1 DEF Count
        <5>3. L.modeStack[l] \in Modes
          BY <5>1, <5>2, ElementOfSeq
        <5>. QED  BY <3>2, <5>1, <5>3
      <4>. QED  BY <4>1, <4>2
    <3>. QED  BY <1>0, <3>2, <3>4 DEF KindsAt, L
  <2>. QED  BY <2>1, <2>2
<1>. QED  BY <1>0, <1>1, <1>2 DEF Depth

\* A filter command leaves the open filters and their options at their levels, also
\* one that raises.
LEMMA PushLevels ==
  ASSUME FilterInv, EnclosingFound, Running, ~NestsAgain, filter # Nil, PushCurrentFilter,
         filter' \in Filters, mode' \in Modes
  PROVE  /\ Depth \in Nat /\ DepthOf(Locals') = Depth + 1
         /\ \A l \in 1..Depth : /\ FilterAt(Locals', l) = FilterAt(Locals, l)
                                /\ MaskAt(Locals', l) = MaskAt(Locals, l)
         /\ FilterAt(Locals', Depth + 1) = filter' /\ MaskAt(Locals', Depth + 1) = mode'
<1>. DEFINE L == Locals
            M == Locals'
            c == Count(filterStack)
<1>1. /\ L.filter = filter /\ L.mode = mode /\ L.filterStack = filterStack /\ L.modeStack = modeStack
      /\ M.filter = filter' /\ M.mode = mode' /\ M.filterStack = filterStack' /\ M.modeStack = modeStack'
  BY DEF Locals
<1>2. Level(L)
  BY StacksLevel
<1>. HIDE DEF L, M
<1>3. /\ c \in Nat /\ Count(modeStack) = c /\ filter \in Filters /\ mode \in Modes
      /\ filterStack \in Seq(Filters) \cup {Nil} /\ modeStack \in Seq(Modes) \cup {Nil}
  BY <1>1, <1>2 DEF Level, Count
<1>4. /\ DepthOf(L) = c + 1
      /\ FilterAt(L, c + 1) = filter /\ MaskAt(L, c + 1) = mode
      /\ \A l \in 1..c : FilterAt(L, l) = filterStack[l] /\ MaskAt(L, l) = modeStack[l]
  BY <1>1, <1>2, LevelsAre
<1>5. /\ filterStack' \in Seq(Filters) /\ Len(filterStack') = c + 1
      /\ modeStack' \in Seq(Modes) /\ Len(modeStack') = c + 1
      /\ filterStack'[c + 1] = filter /\ modeStack'[c + 1] = mode
      /\ \A i \in 1..c : filterStack'[i] = filterStack[i] /\ modeStack'[i] = modeStack[i]
  <2>1. CASE filterStack = Nil
    <3>1. filterStack' = <<filter>> /\ modeStack' = <<mode>> /\ c = 0
      BY <2>1 DEF PushCurrentFilter, Count
    <3>. HIDE DEF c
    <3>. QED  BY <1>3, <3>1
  <2>2. CASE filterStack # Nil
    <3>1. modeStack # Nil
      BY <2>2 DEF NestsAgain
    <3>2. /\ filterStack' = Append(filterStack, filter) /\ modeStack' = Append(modeStack, mode)
          /\ filterStack \in Seq(Filters) /\ modeStack \in Seq(Modes)
          /\ Len(filterStack) = c /\ Len(modeStack) = c
      BY <1>3, <2>2, <3>1 DEF PushCurrentFilter, Count
    <3>. HIDE DEF c
    <3>. QED  BY <1>3, <3>2, AppendProperties
  <2>. QED  BY <2>1, <2>2
<1>6. Depth = c + 1
  BY <1>4 DEF Depth, L
<1>. HIDE DEF c
<1>7. Level(M) /\ Count(M.filterStack) = c + 1
  BY <1>1, <1>5, NilAssumption DEF Level, Count
<1>8. /\ DepthOf(M) = (c + 1) + 1
      /\ FilterAt(M, (c + 1) + 1) = filter' /\ MaskAt(M, (c + 1) + 1) = mode'
      /\ \A l \in 1..(c + 1) : FilterAt(M, l) = filterStack'[l] /\ MaskAt(M, l) = modeStack'[l]
  BY <1>1, <1>7, LevelsAre
<1>9. ASSUME NEW l \in 1..(c + 1)
      PROVE  FilterAt(M, l) = FilterAt(L, l) /\ MaskAt(M, l) = MaskAt(L, l)
  <2>1. CASE l = c + 1
    BY <1>4, <1>5, <1>8, <2>1
  <2>2. CASE l # c + 1
    <3>1. l \in 1..c
      BY <1>3, <2>2
    <3>. QED  BY <1>4, <1>5, <1>8, <3>1
  <2>. QED  BY <2>1, <2>2
<1>. QED  BY <1>3, <1>6, <1>8, <1>9 DEF L, M

\* So does an endfilter that finds the options with those around it.
LEMMA PopLevels ==
  ASSUME FilterInv, EnclosingFound, Running, filter # Nil, Count(filterStack) > 0,
         filter' = Last(filterStack), filterStack' = Front(filterStack),
         mode' = Last(modeStack), modeStack' = Front(modeStack)
  PROVE  /\ Depth \in Nat /\ Depth > 1 /\ DepthOf(Locals') = Depth - 1
         /\ \A l \in 1..(Depth - 1) : /\ FilterAt(Locals', l) = FilterAt(Locals, l)
                                      /\ MaskAt(Locals', l) = MaskAt(Locals, l)
<1>. DEFINE L == Locals
            M == Locals'
            c == Count(filterStack)
<1>1. /\ L.filter = filter /\ L.mode = mode /\ L.filterStack = filterStack /\ L.modeStack = modeStack
      /\ M.filter = filter' /\ M.mode = mode' /\ M.filterStack = filterStack' /\ M.modeStack = modeStack'
  BY DEF Locals
<1>2. Level(L)
  BY StacksLevel
<1>. HIDE DEF L, M
<1>3. /\ c \in Nat /\ c > 0 /\ Count(modeStack) = c
      /\ filterStack \in Seq(Filters) \cup {Nil} /\ modeStack \in Seq(Modes) \cup {Nil}
  BY <1>1, <1>2 DEF Level, Count
<1>4. /\ DepthOf(L) = c + 1
      /\ \A l \in 1..c : FilterAt(L, l) = filterStack[l] /\ MaskAt(L, l) = modeStack[l]
  BY <1>1, <1>2, LevelsAre
<1>5. /\ filterStack \in Seq(Filters) /\ Len(filterStack) = c
      /\ modeStack \in Seq(Modes) /\ Len(modeStack) = c
  BY <1>3 DEF Count
<1>6. Depth = c + 1
  BY <1>4 DEF Depth, L
<1>. HIDE DEF c
<1>7. /\ filter' = filterStack[c] /\ mode' = modeStack[c] /\ filter' \in Filters /\ mode' \in Modes
      /\ filterStack' \in Seq(Filters) /\ Len(filterStack') = c - 1
      /\ modeStack' \in Seq(Modes) /\ Len(modeStack') = c - 1
  <2>1. filterStack' \in Seq(Filters) /\ Len(filterStack') = c - 1 /\ filter' \in Filters
    BY <1>3, <1>5, FrontLast
  <2>2. modeStack' \in Seq(Modes) /\ Len(modeStack') = c - 1 /\ mode' \in Modes
    BY <1>3, <1>5, FrontLast
  <2>. QED  BY <1>5, <2>1, <2>2 DEF Last
<1>8. \A i \in 1..(c - 1) : filterStack'[i] = filterStack[i] /\ modeStack'[i] = modeStack[i]
  <2>1. filterStack' = SubSeq(filterStack, 1, c - 1) /\ modeStack' = SubSeq(modeStack, 1, c - 1)
    BY <1>5 DEF Front
  <2>2. \A k \in 1..(c - 1) : 1 + k - 1 = k
    BY <1>3
  <2>. QED  BY <1>3, <1>5, <2>1, <2>2
<1>9. Level(M) /\ Count(M.filterStack) = c - 1
  BY <1>1, <1>7, NilAssumption DEF Level, Count
<1>10. /\ DepthOf(M) = c
       /\ FilterAt(M, c) = filter' /\ MaskAt(M, c) = mode'
       /\ \A l \in 1..(c - 1) : FilterAt(M, l) = filterStack'[l] /\ MaskAt(M, l) = modeStack'[l]
  <2>1. (c - 1) + 1 = c
    BY <1>3
  <2>. QED  BY <1>1, <1>9, <2>1, LevelsAre
<1>11. ASSUME NEW l \in 1..c
       PROVE  FilterAt(M, l) = FilterAt(L, l) /\ MaskAt(M, l) = MaskAt(L, l)
  <2>1. CASE l = c
    BY <1>4, <1>7, <1>10, <2>1
  <2>2. CASE l # c
    <3>1. l \in 1..(c - 1)
      BY <1>3, <2>2
    <3>. QED  BY <1>4, <1>8, <1>10, <3>1
  <2>. QED  BY <2>1, <2>2
<1>12. Depth - 1 = c
  BY <1>3, <1>6
<1>. QED  BY <1>3, <1>6, <1>10, <1>11, <1>12 DEF L, M

\* The entries stand for the stack of abstract filters.
LEMMA OpenFiltersAre ==
  /\ OpenFilters = StackOf(Locals, buffers)
  /\ OpenFilters' = StackOf(Locals', buffers')
BY DEF OpenFilters, StackOf

\* The filter command opens a filter.
LEMMA FilterOpens ==
  ASSUME FilterInv, TextTypeOK, LevelsOpen, EnclosingFound, ~again',
         NEW f \in Filters, NEW m \in Modes, RenderFilter(f, m)
  PROVE  Stack!Open(f, m)
<1>. DEFINE n == Len(buffers)
            L == Locals
            M == Locals'
            E(K, l, h) == [filter |-> FilterAt(K, l), options |-> MaskAt(K, l), held |-> h]
<1>1. /\ Running /\ Depth < MaxDepth /\ ~NestsAgain /\ PushCurrentFilter
      /\ filter' = f /\ mode' = m /\ buffers' = Append(buffers, <<>>)
      /\ UNCHANGED <<output, returned, fed, raised>>
  BY DEF RenderFilter
<1>2. buffers \in Seq(Seq(Atoms)) /\ n = Depth /\ n \in Nat
  BY <1>1, KindsFound
<1>3. /\ DepthOf(M) = n + 1
      /\ \A l \in 1..n : FilterAt(M, l) = FilterAt(L, l) /\ MaskAt(M, l) = MaskAt(L, l)
      /\ FilterAt(M, n + 1) = f /\ MaskAt(M, n + 1) = m
  <2>1. CASE filter # Nil
    BY <1>1, <1>2, <2>1, PushLevels
  <2>2. CASE filter = Nil
    <3>1. n = 0
      BY <1>2, <2>2 DEF Depth, DepthOf, Locals
    <3>2. filterStack' = filterStack /\ modeStack' = modeStack /\ Count(filterStack) = 0
      BY <1>1, <2>2 DEF PushCurrentFilter, LevelsOpen
    <3>3. Count(modeStack) = 0
      BY <3>2 DEF FilterInv, StacksAligned, Count
    <3>4. Level(M) /\ Count(M.filterStack) = 0
      BY <1>1, <3>2, <3>3 DEF Level, Locals, FilterInv, LocalsTypeOK
    <3>. HIDE DEF M
    <3>5. DepthOf(M) = 1 /\ FilterAt(M, 1) = M.filter /\ MaskAt(M, 1) = M.mode
      BY <3>4, LevelsAre
    <3>. QED  BY <1>1, <3>1, <3>5 DEF M, Locals
  <2>. QED  BY <2>1, <2>2
<1>. HIDE DEF L, M, n
<1>4. Len(buffers') = n + 1 /\ buffers'[n + 1] = <<>> /\ \A l \in 1..n : buffers'[l] = buffers[l]
  BY <1>1, <1>2, AppendProperties DEF n
<1>5. /\ OpenFilters = [l \in 1..n |-> E(L, l, buffers[l])]
      /\ OpenFilters' = [l \in 1..(n + 1) |-> E(M, l, buffers'[l])]
  BY <1>4 DEF OpenFilters, L, M, n
<1>6. E(M, n + 1, buffers'[n + 1]) = [filter |-> f, options |-> m, held |-> <<>>]
  BY <1>3, <1>4
<1>7. \A l \in 1..n : E(M, l, buffers'[l]) = E(L, l, buffers[l])
  BY <1>3, <1>4
<1>. DEFINE e == [filter |-> f, options |-> m, held |-> <<>>]
<1>. HIDE DEF E, e
<1>8. OpenFilters' = Append(OpenFilters, e) /\ Len(OpenFilters) = n
  <2>1. Len(OpenFilters) = n
    BY <1>2, <1>5
  <2>2. Append(OpenFilters, e) = [l \in 1..(n + 1) |-> IF l = n + 1 THEN e ELSE OpenFilters[l]]
    BY <1>2, <1>5, <2>1
  <2>3. \A l \in 1..(n + 1) : E(M, l, buffers'[l]) = IF l = n + 1 THEN e ELSE OpenFilters[l]
    BY <1>2, <1>5, <1>6, <1>7 DEF e
  <2>. QED  BY <1>5, <2>1, <2>2, <2>3
<1>. QED  BY <1>1, <1>2, <1>8 DEF Stack!Open, Running, e

\* One that raises leaves the open filters as they are.
LEMMA FilterFails ==
  ASSUME FilterInv, TextTypeOK, LevelsOpen, EnclosingFound, ~again', RenderFilterNotAFilter
  PROVE  Stack!OpenFails
<1>. DEFINE n == Len(buffers)
            L == Locals
            M == Locals'
<1>1. /\ Running /\ Depth < MaxDepth /\ ~NestsAgain /\ PushCurrentFilter
      /\ raised' = "filter argument"
      /\ UNCHANGED <<filter, mode, buffers, output, returned, fed>>
  BY DEF RenderFilterNotAFilter
<1>2. n = Depth /\ n \in Nat
  BY <1>1, KindsFound
<1>3. \A l \in 1..n : FilterAt(M, l) = FilterAt(L, l) /\ MaskAt(M, l) = MaskAt(L, l)
  <2>1. CASE filter # Nil
    <3>1. filter' \in Filters /\ mode' \in Modes
      BY <1>1, <2>1 DEF FilterInv, LocalsTypeOK, NestingAsserts
    <3>. QED  BY <1>1, <1>2, <2>1, <3>1, PushLevels
  <2>2. CASE filter = Nil
    BY <1>2, <2>2 DEF Depth, DepthOf, Locals
  <2>. QED  BY <2>1, <2>2
<1>. HIDE DEF L, M, n
<1>. DEFINE E(K, l, h) == [filter |-> FilterAt(K, l), options |-> MaskAt(K, l), held |-> h]
<1>4. \A l \in 1..n : E(M, l, buffers[l]) = E(L, l, buffers[l])
  BY <1>3
<1>5. /\ OpenFilters = [l \in 1..n |-> E(L, l, buffers[l])]
      /\ OpenFilters' = [l \in 1..n |-> E(M, l, buffers[l])]
  BY <1>1 DEF OpenFilters, L, M, n
<1>. HIDE DEF E
<1>6. OpenFilters' = OpenFilters /\ Len(OpenFilters) = n
  BY <1>2, <1>4, <1>5
<1>. QED  BY <1>1, <1>2, <1>6 DEF Stack!OpenFails, Running

\* An endfilter without a filter has none to close.
LEMMA StrayFails ==
  ASSUME TextTypeOK, LevelsOpen, RenderStrayEndFilter
  PROVE  Stack!CloseFails
<1>1. /\ raised = "no" /\ filter = Nil /\ raised' = "stray endfilter"
      /\ UNCHANGED <<filter, mode, filterStack, modeStack, buffers, output, returned, fed>>
  BY DEF RenderStrayEndFilter, Running
<1>2. Len(buffers) = 0
  BY <1>1 DEF LevelsOpen, Depth, DepthOf, Locals
<1>3. OpenFilters = <<>>
  BY <1>2 DEF OpenFilters
<1>4. OpenFilters' = OpenFilters
  BY <1>1 DEF OpenFilters, Locals
<1>. QED  BY <1>1, <1>3, <1>4 DEF Stack!CloseFails

\* Text that is rendered is written.
LEMMA TextWrites ==
  ASSUME FilterInv, TextTypeOK, LevelsOpen, EnclosingFound,
         NEW kind \in {FilterPlaintext, FilterOutput},
         RenderText({kind, FilterApplyStackedFilters})
  PROVE  Stack!Text(kind)
<1>. DEFINE bits == {kind, FilterApplyStackedFilters}
            L == Locals
<1>1. /\ Running /\ fed < MaxText /\ fed' = fed + 1
      /\ Render(Fresh, bits, Locals, buffers)
      /\ UNCHANGED <<filter, mode, filterStack, modeStack, returned, raised>>
  BY DEF RenderText
<1>2. /\ buffers \in Seq(Seq(Atoms)) /\ FiltersAt(L, buffers) /\ KindsAt(L, Len(buffers))
  BY <1>1, KindsFound
<1>3. Locals' = L
  BY <1>1 DEF Locals
<1>4. Fresh \in Seq(Atoms) /\ Stack!New = Fresh
  <2>1. fed + 1 \in Nat
    BY BoundAssumption DEF TextTypeOK
  <2>2. [id |-> fed + 1, by |-> <<>>] \in Atoms
    BY <2>1 DEF Atoms
  <2>. QED  BY <2>2 DEF Fresh, Stack!New
<1>5. Render(Fresh, bits, L, buffers)
  BY <1>1
<1>. HIDE DEF L
<1>6. Stack!Write(StackOf(L, buffers), kind, Fresh)
  BY <1>2, <1>3, <1>4, <1>5, RenderWrites
<1>7. Stack!Write(OpenFilters, kind, Stack!New)
  BY <1>4, <1>6, OpenFiltersAre DEF L
<1>. QED  BY <1>1, <1>7 DEF Stack!Text, Running

\* An endfilter closes the innermost filter, and what it held back is output of those
\* around it.
LEMMA EndFilterCloses ==
  ASSUME FilterInv, TextTypeOK, LevelsOpen, EnclosingFound, Running, filter # Nil,
         FlushThroughRemaining, UNCHANGED <<returned, fed, raised>>,
         \/ /\ Count(filterStack) > 0
            /\ filter' = Last(filterStack)
            /\ filterStack' = Front(filterStack)
         \/ /\ Count(filterStack) = 0
            /\ filter' = Nil
            /\ filterStack' = filterStack,
         DepthOf(Locals') = Depth - 1,
         \A l \in 1..(Depth - 1) : /\ FilterAt(Locals', l) = FilterAt(Locals, l)
                                   /\ MaskAt(Locals', l) = MaskAt(Locals, l)
  PROVE  Stack!Close
<1>. DEFINE n == Len(buffers)
            L == Locals
            M == Locals'
            B == Front(buffers)
            x == Last(buffers)
            y == Through(filter, x)
            S == StackOf(M, B)
            E(K, l, h) == [filter |-> FilterAt(K, l), options |-> MaskAt(K, l), held |-> h]
<1>1. /\ n \in Nat /\ n = Depth /\ n = DepthOf(L) /\ buffers \in Seq(Seq(Atoms)) /\ KindsAt(L, n)
      /\ DOMAIN buffers = 1..n
  BY KindsFound DEF Depth
<1>2. /\ n > 0 /\ B \in Seq(Seq(Atoms)) /\ x \in Seq(Atoms) /\ FiltersAt(M, B)
  BY PoppedLevels
<1>3. /\ DepthOf(M) = n - 1
      /\ \A l \in 1..(n - 1) : FilterAt(M, l) = FilterAt(L, l) /\ MaskAt(M, l) = MaskAt(L, l)
  BY <1>1
<1>4. filter \in Filters /\ output \in Seq(Atoms)
  BY DEF FilterInv, LocalsTypeOK, TextTypeOK
<1>5. y \in Seq(Atoms)
  BY <1>2, <1>4, ThroughSame
<1>6. Len(B) = n - 1 /\ B = SubSeq(buffers, 1, n - 1) /\ x = buffers[n]
  BY <1>1, <1>2, FrontLast DEF Front, Last
<1>7. OpenFilters' = StackOf(M, buffers')
  BY OpenFiltersAre
<1>8. OpenFilters = [l \in 1..n |-> E(L, l, buffers[l])]
  BY DEF OpenFilters
<1>9. S = [l \in 1..(n - 1) |-> E(M, l, B[l])]
  BY <1>6 DEF StackOf
<1>10. FlushThroughRemaining
  OBVIOUS
<1>11. FilterAt(L, n) = filter
  BY <1>1 DEF FilterAt, Locals
<1>12. (filter \notin Buffering) => x = <<>>
  <2>1. n \in 1..n
    BY <1>1, <1>2
  <2>. HIDE DEF n, x, L
  <2>2. \A l \in 1..n : FilterAt(L, l) \notin Buffering => buffers[l] = <<>>
    BY <1>1 DEF LevelsOpen, DirectEmpty, L
  <2>. QED  BY <1>6, <1>11, <2>1, <2>2
<1>13. IF filter \in Buffering
       THEN Render(y, OutputBits, M, B)
       ELSE buffers' = B /\ UNCHANGED output
  BY DEF FlushThroughRemaining
<1>. HIDE DEF n, L, M, B, x, y, S
<1>14. \A l \in 1..(n - 1) : B[l] = buffers[l]
  <2>1. \A k \in 1..(n - 1) : 1 + k - 1 = k
    BY <1>1
  <2>. QED  BY <1>1, <1>2, <1>6, <2>1
<1>15. \A l \in 1..(n - 1) : E(M, l, B[l]) = E(L, l, buffers[l])
  BY <1>3, <1>14
<1>16. Stack!Last(OpenFilters) = E(L, n, x) /\ OpenFilters # <<>> /\ Len(OpenFilters) = n
  <2>. HIDE DEF E
  <2>1. Len(OpenFilters) = n /\ n \in 1..n
    BY <1>1, <1>2, <1>8
  <2>2. OpenFilters[n] = E(L, n, x)
    BY <1>6, <1>8, <2>1
  <2>3. OpenFilters # <<>>
    BY <1>2, <2>1
  <2>. QED  BY <2>1, <2>2, <2>3 DEF Stack!Last
<1>17. Stack!Front(OpenFilters) = S
  <2>. HIDE DEF E
  <2>1. Stack!Front(OpenFilters) = SubSeq(OpenFilters, 1, n - 1)
    BY <1>16 DEF Stack!Front
  <2>2. SubSeq(OpenFilters, 1, n - 1) = [l \in 1..(n - 1) |-> OpenFilters[l]]
    <3>1. \A k \in 1..(n - 1) : 1 + k - 1 = k
      BY <1>1
    <3>. QED  BY <1>1, <1>2, <1>8, <3>1
  <2>3. \A l \in 1..(n - 1) : OpenFilters[l] = E(M, l, B[l])
    BY <1>1, <1>8, <1>15
  <2>. QED  BY <1>9, <2>1, <2>2, <2>3
<1>18. E(L, n, x).filter = filter /\ E(L, n, x).held = x
  BY <1>11
<1>. HIDE DEF E
<1>19. [i \in DOMAIN x |-> [x[i] EXCEPT !.by = Append(@, filter)]] = y
  BY DEF y, Through
<1>20. KindsAt(M, Len(B))
  BY <1>1, <1>3, <1>6 DEF KindsAt
<1>21. Stack!Write(S, FilterOutput, y)
  <2>1. CASE filter \in Buffering
    <3>1. Render(y, {FilterOutput, FilterApplyStackedFilters}, M, B)
      BY <1>13, <2>1 DEF OutputBits
    <3>2. Locals' = M
      BY DEF M
    <3>. QED  BY <1>2, <1>5, <1>20, <3>1, <3>2, RenderWrites DEF S
  <2>2. CASE filter \notin Buffering
    <3>. DEFINE C == Stack!Catchers(S, FilterOutput)
                m == Stack!Max(C)
    <3>1. y = <<>>
      BY <1>12, <2>2 DEF y, Through
    <3>2. Stack!Routed(S, FilterOutput, y) = <<>>
      BY <3>1 DEF Stack!Routed
    <3>3. OpenFilters' = S /\ output' = output
      BY <1>7, <1>13, <2>2 DEF S
    <3>4. output \o <<>> = output
      BY <1>4, ConcatEmptySeq
    <3>5. CASE C = {}
      BY <3>2, <3>3, <3>4, <3>5 DEF Stack!Write
    <3>6. CASE C # {}
      <4>1. m \in DOMAIN B
        BY <1>2, <1>20, <3>6, CatcherFound DEF S
      <4>. HIDE DEF m
      <4>2. <<>> \in Seq(Atoms)
        OBVIOUS
      <4>3. StackOf(M, PutBehind(B, m, <<>>)) = GivenMore(S, m, <<>>)
        BY <1>2, <4>1, <4>2, HeldChange DEF S
      <4>4. PutBehind(B, m, <<>>) = B
        BY <1>2, <4>1, NothingBehind
      <4>5. OpenFilters' = [S EXCEPT ![m].held = @ \o <<>>]
        BY <3>3, <4>3, <4>4 DEF GivenMore, S
      <4>. HIDE DEF C
      <4>. QED  BY <3>2, <3>3, <3>6, <4>5 DEF Stack!Write, m, C
    <3>. QED  BY <3>5, <3>6
  <2>. QED  BY <2>1, <2>2
<1>. QED  BY <1>16, <1>17, <1>18, <1>19, <1>21 DEF Stack!Close, Running, FilterOutput

\* filter() asks the innermost filter alone.
LEMMA WalkAlone ==
  ASSUME NEW text \in Seq(Atoms), NEW bufs \in Seq(Seq(Atoms)), NEW L, NEW n \in Nat,
         DepthOf(L) = n, KindsAt(L, n)
  PROVE  LET r == FilteredString(text, {FilterOutput}, L, bufs)
             start == [text |-> text, buffers |-> bufs]
         IN  /\ n = 0 => r = start
             /\ n > 0 => r = IF FilterOutput \in MaskAt(L, n)
                             THEN Evaluate(FilterAt(L, n), n, start)
                             ELSE start
<1>. DEFINE bits == {FilterOutput}
            start == [text |-> text, buffers |-> bufs]
            r == FilteredString(text, bits, L, bufs)
<1>1. PICK w : WalkOf(text, bits, L, bufs, n, w) /\ r = w[n]
  <2>. HIDE DEF bits
  <2>. QED  BY WalkIs
<1>2. FilterApplyStackedFilters \notin bits /\ \A A : A \cap bits # {} <=> FilterOutput \in A
  BY DEF FilterApplyStackedFilters, FilterOutput
<1>3. start.text # Nil
  BY NilAssumption
<1>. HIDE DEF r, start, bits
<1>4. w[0] = start /\ \A k \in 1..n : w[k] = Meet(n + 1 - k, w[k - 1], bits, L)
  BY <1>1 DEF WalkOf, start
<1>5. CASE n = 0
  BY <1>1, <1>4, <1>5 DEF r, start, bits
<1>6. CASE n > 0
  <2>. DEFINE P == {k \in Nat : k + 1 <= n => w[k + 1] = w[1]}
  <2>1. w[1] = IF FilterOutput \in MaskAt(L, n) THEN Evaluate(FilterAt(L, n), n, start) ELSE start
    <3>1. 1 \in 1..n /\ n + 1 - 1 = n /\ 1 - 1 = 0
      BY <1>6
    <3>2. w[1] = Meet(n, start, bits, L)
      BY <1>4, <3>1
    <3>. QED  BY <1>2, <1>3, <3>2 DEF Meet
  <2>2. 0 \in P
    OBVIOUS
  <2>3. ASSUME NEW k \in Nat, k \in P  PROVE k + 1 \in P
    <3>. SUFFICES ASSUME (k + 1) + 1 <= n  PROVE w[(k + 1) + 1] = w[1]
      OBVIOUS
    <3>1. /\ (k + 1) + 1 \in 1..n /\ ((k + 1) + 1) - 1 = k + 1
          /\ n + 1 - ((k + 1) + 1) # n /\ k + 1 <= n
      OBVIOUS
    <3>2. w[(k + 1) + 1] = Meet(n + 1 - ((k + 1) + 1), w[k + 1], bits, L)
      BY <1>4, <3>1
    <3>3. w[(k + 1) + 1] = w[k + 1]
      BY <1>2, <3>1, <3>2 DEF Meet
    <3>. QED  BY <2>3, <3>1, <3>3
  <2>. HIDE DEF P
  <2>4. n - 1 \in P /\ (n - 1) + 1 = n
    <3>1. n - 1 \in Nat /\ (n - 1) + 1 = n
      BY <1>6
    <3>. QED  BY <2>2, <2>3, <3>1, SetInduction
  <2>5. w[n] = w[1]
    BY <2>4 DEF P
  <2>. QED  BY <1>1, <1>6, <2>1, <2>5 DEF r, start, bits
<1>. QED  BY <1>5, <1>6

\* The abstract stack of the innermost filter alone.
LEMMA RouteAlone ==
  ASSUME NEW e, NEW kind
  PROVE  LET alone == <<e>>
             caught == Stack!Catchers(alone, kind) # {}
         IN  /\ caught <=> kind \in e.options /\ e.filter \in Buffering
             /\ ~caught => Stack!Route(alone, kind) = IF kind \in e.options THEN <<e.filter>> ELSE <<>>
<1>. DEFINE alone == <<e>>
            C == Stack!Catchers(alone, kind)
            T == Stack!Takers(alone, kind)
<1>1. Len(alone) = 1 /\ DOMAIN alone = {1} /\ alone[1] = e
  OBVIOUS
<1>. HIDE DEF alone
<1>2. T = IF kind \in e.options THEN {1} ELSE {}
  BY <1>1 DEF Stack!Takers
<1>3. C = IF kind \in e.options /\ e.filter \in Buffering THEN {1} ELSE {}
  BY <1>1, <1>2 DEF Stack!Catchers
<1>4. C = {} => (1 \in Stack!Passed(alone, kind) <=> kind \in e.options)
  BY <1>2 DEF Stack!Passed
<1>5. PICK way : /\ \A k \in 0..1 : way[k] = WayAt(alone, kind, way, k)
                 /\ Stack!Route(alone, kind) = way[1]
  <2>1. PICK way : /\ DOMAIN way = 0..Len(alone)
                   /\ \A k \in 0..Len(alone) : way[k] = WayAt(alone, kind, way, k)
                   /\ Stack!Route(alone, kind) = way[Len(alone)]
    <3>1. Len(alone) \in Nat
      BY <1>1
    <3>. HIDE DEF C, T
    <3>. QED  BY <3>1, RouteIs
  <2>. QED  BY <1>1, <2>1
<1>6. way[0] = <<>> /\ way[1] = IF 1 \in Stack!Passed(alone, kind) THEN Append(way[0], alone[1].filter)
                                ELSE way[0]
  BY <1>1, <1>5 DEF WayAt
<1>7. Append(<<>>, e.filter) = <<e.filter>>
  OBVIOUS
<1>8. C # {} <=> kind \in e.options /\ e.filter \in Buffering
  BY <1>3
<1>9. C = {} => Stack!Route(alone, kind) = IF kind \in e.options THEN <<e.filter>> ELSE <<>>
  BY <1>1, <1>4, <1>5, <1>6, <1>7
<1>. QED  BY <1>8, <1>9 DEF alone

\* Without a filter there is nothing on the way.
LEMMA RouteEmpty ==
  ASSUME NEW kind
  PROVE  Stack!Catchers(<<>>, kind) = {} /\ Stack!Route(<<>>, kind) = <<>>
<1>. DEFINE none == <<>>
<1>1. Len(none) = 0 /\ DOMAIN none = {}
  OBVIOUS
<1>. HIDE DEF none
<1>2. Stack!Catchers(none, kind) = {}
  BY <1>1 DEF Stack!Catchers, Stack!Takers
<1>3. PICK way : /\ \A k \in 0..0 : way[k] = WayAt(none, kind, way, k)
                 /\ Stack!Route(none, kind) = way[0]
  BY <1>1, RouteIs
<1>4. way[0] = <<>>
  BY <1>3 DEF WayAt
<1>. QED  BY <1>2, <1>3, <1>4 DEF none

\* The filter() function applies the innermost filter.
LEMMA FunctionApplies ==
  ASSUME FilterInv, TextTypeOK, LevelsOpen, EnclosingFound, FilterFunction
  PROVE  Stack!Apply
<1>. DEFINE n == Len(buffers)
            L == Locals
            r == FilteredString(Fresh, {FilterOutput}, L, buffers)
            start == [text |-> Fresh, buffers |-> buffers]
            alone == IF OpenFilters = <<>> THEN <<>> ELSE <<Stack!Last(OpenFilters)>>
            caught == Stack!Catchers(alone, "output") # {}
            q == Stack!Route(alone, "output")
<1>1. /\ raised = "no" /\ Running /\ fed < MaxText /\ fed' = fed + 1
      /\ buffers' = r.buffers
      /\ returned' = IF r.text = Nil THEN returned ELSE returned \o r.text
      /\ UNCHANGED <<filter, mode, filterStack, modeStack, output, raised>>
  BY DEF FilterFunction, Running
<1>2. /\ buffers \in Seq(Seq(Atoms)) /\ KindsAt(L, n) /\ DepthOf(L) = n /\ n \in Nat
      /\ DOMAIN buffers = 1..n /\ FiltersAt(L, buffers)
  BY <1>1, KindsFound DEF Depth
<1>3. Fresh \in Seq(Atoms) /\ Stack!New = Fresh
  <2>1. fed + 1 \in Nat
    BY BoundAssumption DEF TextTypeOK
  <2>2. [id |-> fed + 1, by |-> <<>>] \in Atoms
    BY <2>1 DEF Atoms
  <2>. QED  BY <2>2 DEF Fresh, Stack!New
<1>4. /\ n = 0 => r = start
      /\ n > 0 => r = IF FilterOutput \in MaskAt(L, n)
                      THEN Evaluate(FilterAt(L, n), n, start)
                      ELSE start
  <2>. HIDE DEF L, n
  <2>. QED  BY <1>2, <1>3, WalkAlone
<1>5. OpenFilters = StackOf(L, buffers) /\ OpenFilters' = StackOf(L, buffers')
  <2>1. Locals' = L
    BY <1>1 DEF Locals
  <2>. QED  BY <2>1, OpenFiltersAre
<1>6. /\ Len(OpenFilters) = n
      /\ n > 0 => /\ OpenFilters # <<>>
                  /\ OpenFilters[n].filter = FilterAt(L, n)
                  /\ OpenFilters[n].options = MaskAt(L, n)
      /\ n = 0 => OpenFilters = <<>>
  <2>. HIDE DEF L, n
  <2>1. OpenFilters = [l \in 1..n |-> [filter |-> FilterAt(L, l), options |-> MaskAt(L, l), held |-> buffers[l]]]
    BY <1>5 DEF StackOf, n
  <2>2. Len(OpenFilters) = n
    BY <1>2, <2>1
  <2>3. n > 0 => n \in 1..n /\ OpenFilters # <<>>
    BY <1>2, <2>2
  <2>4. n = 0 => OpenFilters = <<>>
    BY <2>1
  <2>. QED  BY <2>1, <2>2, <2>3, <2>4
<1>7. Stack!Routed(alone, "output", Stack!New) = RoutedBy(Fresh, q)
  BY <1>3 DEF Stack!Routed, RoutedBy
<1>8. RoutedBy(Fresh, <<>>) = Fresh
  BY <1>3, RoutedByNone
<1>9. Fresh # Nil
  BY <1>3, NilAssumption
<1>10. n > 0 => FilterAt(L, n) \in Filters
  BY <1>2 DEF FiltersAt
<1>11. /\ OpenFilters' = IF caught THEN GivenMore(OpenFilters, n, Fresh) ELSE OpenFilters
       /\ returned' = IF caught THEN returned ELSE returned \o RoutedBy(Fresh, q)
  <2>1. CASE n = 0
    <3>1. alone = <<>>
      BY <1>6, <2>1
    <3>2. ~caught /\ q = <<>>
      BY <3>1, RouteEmpty
    <3>3. r = start
      BY <1>4, <2>1
    <3>4. r.buffers = buffers /\ r.text = Fresh
      BY <3>3
    <3>. HIDE DEF r, caught, q
    <3>. QED  BY <1>1, <1>5, <1>8, <1>9, <3>2, <3>4
  <2>2. CASE n > 0
    <3>. DEFINE e == OpenFilters[n]
                f == FilterAt(L, n)
    <3>1. alone = <<e>>
      BY <1>6, <2>2 DEF Stack!Last
    <3>2. /\ caught <=> "output" \in e.options /\ e.filter \in Buffering
          /\ ~caught => q = IF "output" \in e.options THEN <<e.filter>> ELSE <<>>
      <4>1. \A k : /\ Stack!Catchers(<<e>>, k) # {} <=> k \in e.options /\ e.filter \in Buffering
                   /\ ~(Stack!Catchers(<<e>>, k) # {}) =>
                        Stack!Route(<<e>>, k) = IF k \in e.options THEN <<e.filter>> ELSE <<>>
        <5>. HIDE DEF e
        <5>. QED  BY RouteAlone
      <4>. HIDE DEF e, alone
      <4>. QED  BY <3>1, <4>1
    <3>3. e.filter = f /\ e.options = MaskAt(L, n) /\ f \in Filters
      BY <1>6, <1>10, <2>2
    <3>4. r = IF FilterOutput \in MaskAt(L, n) THEN Evaluate(f, n, start) ELSE start
      BY <1>4, <2>2
    <3>. HIDE DEF r, caught, q, alone, L, n, f, e
    <3>5. CASE FilterOutput \notin MaskAt(L, n)
      <4>1. r.buffers = buffers /\ r.text = Fresh
        BY <3>4, <3>5
      <4>2. ~caught /\ q = <<>>
        BY <3>2, <3>3, <3>5 DEF FilterOutput
      <4>. QED  BY <1>1, <1>5, <1>8, <1>9, <4>1, <4>2
    <3>6. CASE FilterOutput \in MaskAt(L, n) /\ f \in Buffering
      <4>1. r = [text |-> Nil, buffers |-> PutBehind(buffers, n, Fresh)]
        BY <3>4, <3>6 DEF Evaluate, PutBehind
      <4>2. caught
        BY <3>2, <3>3, <3>6 DEF FilterOutput
      <4>3. n \in DOMAIN buffers
        BY <1>2, <2>2
      <4>4. StackOf(L, PutBehind(buffers, n, Fresh)) = GivenMore(StackOf(L, buffers), n, Fresh)
        BY <1>2, <1>3, <4>3, HeldChange
      <4>. QED  BY <1>1, <1>5, <4>1, <4>2, <4>4
    <3>7. CASE FilterOutput \in MaskAt(L, n) /\ f \notin Buffering
      <4>1. r = [text |-> Through(f, Fresh), buffers |-> buffers]
        BY <3>4, <3>7 DEF Evaluate
      <4>2. ~caught /\ q = <<f>>
        BY <3>2, <3>3, <3>7 DEF FilterOutput
      <4>3. Through(f, Fresh) = RoutedBy(Fresh, q)
        <5>1. <<>> \in Seq(Filters) /\ Append(<<>>, f) = <<f>>
          OBVIOUS
        <5>. QED  BY <1>3, <1>8, <3>3, <4>2, <5>1, RoutedByOneMore
      <4>4. Through(f, Fresh) # Nil
        BY <1>3, <3>3, ThroughSame, NilAssumption
      <4>. QED  BY <1>1, <1>5, <4>1, <4>2, <4>3, <4>4
    <3>. QED  BY <3>5, <3>6, <3>7
  <2>3. n = 0 \/ n > 0
    BY <1>2
  <2>. HIDE DEF n, caught, q
  <2>. QED  BY <2>1, <2>2, <2>3
<1>. HIDE DEF n, L, r, start, q
<1>. QED  BY <1>1, <1>3, <1>6, <1>7, <1>11 DEF Stack!Apply, GivenMore

\* What is known while nothing was raised and filters nest in one place only.
StackInv == OnceInv /\ LostInv

\* Every step is one of the stack, or nothing changes there.
LEMMA StackSteps ==
  ASSUME StackInv, Next, ~again'
  PROVE  Stack!Next
<1>1. Running /\ ~again
  <2>1. ASSUME NEW f, NEW m, RenderFilter(f, m)  PROVE Running /\ ~again
    BY <2>1 DEF RenderFilter
  <2>2. CASE RenderFilterNotAFilter
    BY <2>2 DEF RenderFilterNotAFilter
  <2>3. ASSUME NEW bits, RenderText(bits)  PROVE Running /\ ~again
    BY <2>3 DEF RenderText
  <2>4. CASE RenderStrayEndFilter
    BY <2>4 DEF RenderStrayEndFilter
  <2>5. CASE RenderEndFilterToEnclosing
    BY <2>5 DEF RenderEndFilterToEnclosing
  <2>6. CASE RenderEndFilterOutermost
    BY <2>6 DEF RenderEndFilterOutermost
  <2>7. CASE FilterFunction
    BY <2>7 DEF FilterFunction
  <2>. QED  BY <2>1, <2>2, <2>3, <2>4, <2>5, <2>6, <2>7 DEF Next
<1>2. FilterInv /\ TextTypeOK /\ LevelsOpen /\ EnclosingFound
  BY <1>1 DEF StackInv, OnceInv, LostInv
<1>3. ASSUME NEW f \in Filters, NEW m \in Modes, RenderFilter(f, m)  PROVE Stack!Next
  <2>1. m \in Stack!Options
    BY DEF Modes, Stack!Options, Stack!Kinds, FilterPlaintext, FilterOutput
  <2>2. Stack!Open(f, m)
    BY <1>2, <1>3, FilterOpens
  <2>. QED  BY <2>1, <2>2 DEF Stack!Next
<1>4. CASE RenderFilterNotAFilter
  BY <1>2, <1>4, FilterFails DEF Stack!Next
<1>5. CASE RenderStrayEndFilter
  BY <1>2, <1>5, StrayFails DEF Stack!Next
<1>6. CASE RenderEndFilterToEnclosing
  <2>1. /\ filter # Nil /\ Count(filterStack) > 0
        /\ filter' = Last(filterStack) /\ filterStack' = Front(filterStack)
    BY <1>6 DEF RenderEndFilterToEnclosing
  <2>2. Count(modeStack) > 0
    <3>1. Level(Locals)
      BY <1>1, <1>2, <2>1, StacksLevel
    <3>. QED  BY <2>1, <3>1 DEF Level, Locals
  <2>3. /\ mode' = Last(modeStack) /\ modeStack' = Front(modeStack)
        /\ FlushThroughRemaining /\ UNCHANGED <<returned, fed, raised>>
    BY <1>6, <2>2 DEF RenderEndFilterToEnclosing
  <2>4. /\ DepthOf(Locals') = Depth - 1
        /\ \A l \in 1..(Depth - 1) : /\ FilterAt(Locals', l) = FilterAt(Locals, l)
                                     /\ MaskAt(Locals', l) = MaskAt(Locals, l)
    BY <1>1, <1>2, <2>1, <2>3, PopLevels
  <2>5. Stack!Close
    BY <1>1, <1>2, <2>1, <2>3, <2>4, EndFilterCloses
  <2>. QED  BY <2>5 DEF Stack!Next
<1>7. CASE RenderEndFilterOutermost
  <2>1. /\ filter # Nil /\ Count(filterStack) = 0 /\ filter' = Nil /\ filterStack' = filterStack
        /\ FlushThroughRemaining /\ UNCHANGED <<returned, fed, raised>>
    BY <1>7 DEF RenderEndFilterOutermost
  <2>2. Depth = 1 /\ DepthOf(Locals') = 0
    BY <2>1 DEF Depth, DepthOf, Locals
  <2>3. /\ DepthOf(Locals') = Depth - 1
        /\ \A l \in 1..(Depth - 1) : /\ FilterAt(Locals', l) = FilterAt(Locals, l)
                                     /\ MaskAt(Locals', l) = MaskAt(Locals, l)
    BY <2>2
  <2>4. Stack!Close
    BY <1>1, <1>2, <2>1, <2>3, EndFilterCloses
  <2>. QED  BY <2>4 DEF Stack!Next
<1>8. ASSUME NEW kind \in {FilterPlaintext, FilterOutput},
             RenderText({kind, FilterApplyStackedFilters})
      PROVE  Stack!Next
  <2>1. Stack!Text(kind)
    BY <1>2, <1>8, TextWrites
  <2>2. kind \in Stack!Kinds
    BY DEF Stack!Kinds, FilterPlaintext, FilterOutput
  <2>. QED  BY <2>1, <2>2 DEF Stack!Next
<1>9. CASE RenderText(PlaintextBits)
  BY <1>8, <1>9 DEF PlaintextBits
<1>10. CASE RenderText(OutputBits)
  BY <1>8, <1>10 DEF OutputBits
<1>11. CASE FilterFunction
  BY <1>2, <1>11, FunctionApplies DEF Stack!Next
<1>. QED  BY <1>3, <1>4, <1>5, <1>6, <1>7, <1>9, <1>10, <1>11 DEF Next

\* The four entries of the dictionary are a stack of open filters, and a text goes the way
\* dox/filter.scion describes, as long as filters are nested in one place only: whatever
\* filters there are and however many are open.
THEOREM FiltersImplementStack == Spec => ImplementsFilterStack
<1>1. Init => Stack!Init
  <2>. SUFFICES ASSUME Init  PROVE Stack!Init
    OBVIOUS
  <2>1. Len(buffers) = 0 /\ output = <<>> /\ returned = <<>> /\ fed = 0 /\ raised = "no"
    BY DEF Init
  <2>2. OpenFilters = <<>>
    BY <2>1 DEF OpenFilters
  <2>. QED  BY <2>1, <2>2 DEF Stack!Init
<1>2. Init => StackInv
  <2>1. Init => OnceInv
    BY FilterInvInit, NilAssumption
    DEF Init, OnceInv, EnclosingFound, EndFilterFindsOptions, Count
  <2>. QED  BY <2>1, LostInvInit DEF StackInv
<1>3. StackInv /\ [Next]_vars => StackInv'
  BY OnceInvNext, LostInvNext DEF StackInv
<1>4. StackInv /\ [Next]_vars => [again' \/ Stack!Next]_(Stack!stackVars)
  <2>. SUFFICES ASSUME StackInv, [Next]_vars, ~again'
                PROVE  Stack!Next \/ UNCHANGED Stack!stackVars
    OBVIOUS
  <2>1. CASE Next
    BY <2>1, StackSteps
  <2>2. CASE UNCHANGED vars
    <3>1. UNCHANGED <<filter, mode, filterStack, modeStack, buffers, output, returned, fed, raised>>
      BY <2>2 DEF vars
    <3>2. OpenFilters' = OpenFilters
      BY <3>1 DEF OpenFilters, Locals
    <3>. QED  BY <3>1, <3>2 DEF Stack!stackVars
  <2>. QED  BY <2>1, <2>2
<1>. QED  BY <1>1, <1>2, <1>3, <1>4, PTL DEF Spec, ImplementsFilterStack
=============================================================================
