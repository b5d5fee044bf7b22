----------------------- MODULE MongooseRequestsProofs -----------------------
(***************************************************************************)
(* One worker of the web server and its connections, for any clients, any  *)
(* sequences of requests of any length and a buffer of any size: the       *)
(* lengths agree, and requests are handled in step with the stream.  Then  *)
(* the functions that take a request apart, for any text: paths, heads,    *)
(* variables, cookies, quoted words, patterns; and its dates.              *)
(***************************************************************************)
EXTENDS MongooseConnection, MongooseText, MongooseDate, NaturalsLemmas,
        SequenceTheorems, FiniteSetTheorems, TLAPS

-----------------------------------------------------------------------------
(* Positions in the stream. *)

\* at satisfies the equation of Positions as far as request n.
PositionsUpTo(requests, n, at) ==
  at = [i \in 1..(n + 1) |-> IF i = 1 THEN 0 ELSE at[i - 1] + Size(requests[i - 1])]

\* The recursion has a solution.
LEMMA PositionsExist ==
  ASSUME NEW requests, NEW n \in Nat
  PROVE  \E at : PositionsUpTo(requests, n, at)
<1>. DEFINE S == {m \in Nat : \E at : PositionsUpTo(requests, m, at)}
<1>1. 0 \in S
  <2>. DEFINE first == [i \in 1..1 |-> 0]
  <2>1. first = [i \in 1..(0 + 1) |-> IF i = 1 THEN 0 ELSE first[i - 1] + Size(requests[i - 1])]
    OBVIOUS
  <2>. HIDE DEF first
  <2>. QED  BY <2>1 DEF PositionsUpTo
<1>2. ASSUME NEW m \in Nat, m \in S  PROVE m + 1 \in S
  <2>1. PICK at : PositionsUpTo(requests, m, at)
    BY <1>2
  <2>. DEFINE next == [i \in 1..(m + 2) |-> IF i = m + 2 THEN at[m + 1] + Size(requests[m + 1])
                                            ELSE at[i]]
  <2>2. /\ DOMAIN next = 1..(m + 2)
        /\ next = [i \in 1..(m + 2) |-> next[i]]
    OBVIOUS
  <2>3. ASSUME NEW i \in 1..(m + 2)
        PROVE  next[i] = IF i = 1 THEN 0 ELSE next[i - 1] + Size(requests[i - 1])
    <3>1. \A k \in 1..(m + 1) : at[k] = IF k = 1 THEN 0 ELSE at[k - 1] + Size(requests[k - 1])
      BY <2>1 DEF PositionsUpTo
    <3>2. CASE i = m + 2
      <4>1. next[i] = at[m + 1] + Size(requests[m + 1]) /\ i - 1 = m + 1 /\ i # 1
        BY <3>2
      <4>2. next[m + 1] = at[m + 1]
        OBVIOUS
      <4>. QED  BY <4>1, <4>2
    <3>3. CASE i # m + 2
      <4>1. next[i] = at[i] /\ i \in 1..(m + 1)
        BY <3>3
      <4>2. i # 1 => i - 1 \in 1..(m + 1) /\ next[i - 1] = at[i - 1]
        BY <3>3
      <4>. QED  BY <3>1, <4>1, <4>2
    <3>. QED  BY <3>2, <3>3
  <2>. HIDE DEF next
  <2>4. PositionsUpTo(requests, m + 1, next)
    <3>1. m + 1 + 1 = m + 2
      OBVIOUS
    <3>. QED  BY <2>2, <2>3, <3>1 DEF PositionsUpTo
  <2>. QED  BY <2>4
<1>. HIDE DEF S
<1>3. n \in S
  BY <1>1, <1>2, SetInduction
<1>. QED  BY <1>3 DEF S

\* A request has a byte at least; a negative length is one of no bytes.
LEMMA SizeType ==
  ASSUME NEW r \in Requested
  PROVE  /\ Size(r) \in Nat \ {0} /\ r.head <= Size(r)
         /\ r.body >= 0 => Size(r) = r.head + r.body
<1>1. r.body \in Int /\ r.head \in Nat \ {0}
  BY WidthAssumption DEF Requested
<1>2. Max({r.body, 0}) = IF r.body >= 0 THEN r.body ELSE 0
  <2>1. Max({r.body, 0}) = CHOOSE x \in {r.body, 0} : \A y \in {r.body, 0} : x >= y
    BY DEF Max
  <2>2. \E x \in {r.body, 0} : \A y \in {r.body, 0} : x >= y
    <3>1. CASE r.body >= 0
      BY <1>1, <3>1
    <3>2. CASE 0 >= r.body
      BY <1>1, <3>2
    <3>. QED  BY <1>1, <3>1, <3>2
  <2>3. Max({r.body, 0}) \in {r.body, 0} /\ \A y \in {r.body, 0} : Max({r.body, 0}) >= y
    BY <2>1, <2>2
  <2>. QED  BY <1>1, <2>3
<1>. QED  BY <1>1, <1>2 DEF Size

\* Each request begins where the last one ended.
LEMMA PositionsStep ==
  ASSUME NEW requests \in Seq(Requested)
  PROVE  /\ Positions(requests)[1] = 0
         /\ \A i \in 1..Len(requests) :
              Positions(requests)[i + 1] = Positions(requests)[i] + Size(requests[i])
<1>. DEFINE n == Len(requests)
            at == Positions(requests)
<1>1. n \in Nat
  OBVIOUS
<1>2. \E p : p = [i \in 1..(n + 1) |-> IF i = 1 THEN 0 ELSE p[i - 1] + Size(requests[i - 1])]
  BY <1>1, PositionsExist DEF PositionsUpTo
<1>3. at = CHOOSE p : p = [i \in 1..(n + 1) |-> IF i = 1 THEN 0 ELSE p[i - 1] + Size(requests[i - 1])]
  BY DEF Positions
<1>. HIDE DEF at, n
<1>4. at = [i \in 1..(n + 1) |-> IF i = 1 THEN 0 ELSE at[i - 1] + Size(requests[i - 1])]
  BY <1>2, <1>3
<1>5. at[1] = 0
  BY <1>1, <1>4
<1>6. ASSUME NEW i \in 1..n  PROVE at[i + 1] = at[i] + Size(requests[i])
  <2>1. i + 1 \in 1..(n + 1) /\ i + 1 # 1 /\ (i + 1) - 1 = i
    BY <1>1
  <2>. QED  BY <1>4, <2>1
<1>. QED  BY <1>5, <1>6 DEF at, n

\* Positions are naturals.
LEMMA PositionsType ==
  ASSUME NEW requests \in Seq(Requested)
  PROVE  \A i \in 1..(Len(requests) + 1) : Positions(requests)[i] \in Nat
<1>. DEFINE at == Positions(requests)
            S == {m \in Nat : m <= Len(requests) => at[m + 1] \in Nat}
<1>1. at[1] = 0 /\ \A i \in 1..Len(requests) : at[i + 1] = at[i] + Size(requests[i])
  BY PositionsStep
<1>2. Len(requests) \in Nat /\ \A i \in 1..Len(requests) : Size(requests[i]) \in Nat
  BY SizeType
<1>. HIDE DEF at
<1>3. 0 \in S
  BY <1>1
<1>4. ASSUME NEW m \in Nat, m \in S  PROVE m + 1 \in S
  BY <1>1, <1>2, <1>4
<1>. HIDE DEF S
<1>5. \A m \in Nat : m \in S
  BY <1>3, <1>4, SetInduction
<1>6. ASSUME NEW i \in 1..(Len(requests) + 1)  PROVE at[i] \in Nat
  <2>1. i - 1 \in Nat /\ i - 1 <= Len(requests) /\ (i - 1) + 1 = i
    BY <1>2
  <2>. QED  BY <1>5, <2>1 DEF S
<1>. QED  BY <1>6 DEF at

\* A request lies before the beginning of every later one.
LEMMA PositionsGrow ==
  ASSUME NEW requests \in Seq(Requested),
         NEW i \in 1..Len(requests), NEW j \in 1..(Len(requests) + 1), i < j
  PROVE  Positions(requests)[i] + Size(requests[i]) <= Positions(requests)[j]
<1>. DEFINE at == Positions(requests)
            n == Len(requests)
            S == {m \in Nat : i + 1 + m <= n + 1 => at[i] + Size(requests[i]) <= at[i + 1 + m]}
<1>1. \A k \in 1..n : at[k + 1] = at[k] + Size(requests[k])
  BY PositionsStep
<1>2. n \in Nat /\ \A k \in 1..n : Size(requests[k]) \in Nat
  BY SizeType
<1>3. \A k \in 1..(n + 1) : at[k] \in Nat
  BY PositionsType
<1>. HIDE DEF at, n
<1>4. i \in 1..n /\ j \in 1..(n + 1)
  BY DEF n
<1>5. 0 \in S
  BY <1>1, <1>2, <1>3, <1>4
<1>6. ASSUME NEW m \in Nat, m \in S  PROVE m + 1 \in S
  <2>. SUFFICES ASSUME i + 1 + (m + 1) <= n + 1
                PROVE  at[i] + Size(requests[i]) <= at[i + 1 + (m + 1)]
    OBVIOUS
  <2>1. i + 1 + m \in 1..n /\ i + 1 + (m + 1) = (i + 1 + m) + 1
    BY <1>2, <1>4
  <2>2. at[(i + 1 + m) + 1] = at[i + 1 + m] + Size(requests[i + 1 + m])
    BY <1>1, <2>1
  <2>3. /\ Size(requests[i + 1 + m]) \in Nat /\ at[i + 1 + m] \in Nat
        /\ at[i] \in Nat /\ Size(requests[i]) \in Nat
    BY <1>2, <1>3, <1>4, <2>1
  <2>4. at[i] + Size(requests[i]) <= at[i + 1 + m]
    BY <1>2, <1>6, <2>1
  <2>. QED  BY <2>1, <2>2, <2>3, <2>4
<1>. HIDE DEF S
<1>7. \A m \in Nat : m \in S
  BY <1>5, <1>6, SetInduction
<1>8. j - (i + 1) \in Nat /\ i + 1 + (j - (i + 1)) = j
  BY <1>2, <1>4
<1>9. at[i] + Size(requests[i]) <= at[j]
  <2>1. j - (i + 1) \in S
    BY <1>7, <1>8
  <2>. QED  BY <1>2, <1>4, <1>8, <2>1 DEF S
<1>. QED  BY <1>9 DEF at

\* Positions of heads, in the words of the module.
LEMMA HeadsInStream ==
  ASSUME script \in Seq(Requested)
  PROVE  /\ Start(1) = 0 /\ StreamLen \in Nat /\ Len(script) \in Nat
         /\ \A i \in 1..(Len(script) + 1) : Start(i) \in Nat
         /\ \A i \in DOMAIN script :
              /\ i \in 1..Len(script) /\ script[i] \in Requested
              /\ script[i].head \in Nat \ {0} /\ HeadEnd(i) \in Nat
              /\ HeadEnd(i) = Start(i) + script[i].head /\ HeadEnd(i) <= Start(i + 1)
              /\ Start(i + 1) = Start(i) + Size(script[i])
              /\ \A j \in 1..(Len(script) + 1) : i < j => HeadEnd(i) <= Start(j)
<1>1. Len(script) \in Nat /\ DOMAIN script = 1..Len(script)
  OBVIOUS
<1>2. /\ Start(1) = 0 /\ \A i \in 1..(Len(script) + 1) : Start(i) \in Nat
      /\ \A i \in 1..Len(script) : Start(i + 1) = Start(i) + Size(script[i])
  BY PositionsStep, PositionsType DEF Start
<1>3. \A i \in 1..Len(script), j \in 1..(Len(script) + 1) :
        i < j => Start(i) + Size(script[i]) <= Start(j)
  BY PositionsGrow DEF Start
<1>4. StreamLen \in Nat
  BY <1>1, <1>2 DEF StreamLen
<1>5. ASSUME NEW i \in DOMAIN script
      PROVE  /\ i \in 1..Len(script) /\ script[i] \in Requested
             /\ script[i].head \in Nat \ {0} /\ HeadEnd(i) \in Nat
             /\ HeadEnd(i) = Start(i) + script[i].head /\ HeadEnd(i) <= Start(i + 1)
             /\ Start(i + 1) = Start(i) + Size(script[i])
             /\ \A j \in 1..(Len(script) + 1) : i < j => HeadEnd(i) <= Start(j)
  <2>1. i \in 1..Len(script) /\ script[i] \in Requested
    BY <1>1
  <2>2. script[i].head \in Nat \ {0} /\ Size(script[i]) \in Nat /\ script[i].head <= Size(script[i])
    BY <2>1, SizeType DEF Requested
  <2>3. Start(i) \in Nat /\ i \in Nat /\ i + 1 \in 1..(Len(script) + 1)
    BY <1>1, <1>2, <2>1
  <2>. QED  BY <1>2, <1>3, <2>1, <2>2, <2>3, SMTT(40) DEF HeadEnd
<1>. QED  BY <1>1, <1>2, <1>4, <1>5

-----------------------------------------------------------------------------
(* The inductive invariant. *)

Types ==
  /\ TypeOK
  /\ setting \in DOMAIN Settings /\ script \in Seq(Requested)
  /\ eof \in BOOLEAN /\ stopFlag \in BOOLEAN /\ connections \in Nat /\ requestLen \in Int

\* What is read is counted in got, and at least what lies in the buffer has been read.
LengthsInv ==
  /\ base + dataLen <= got
  /\ phase = "reading" => requestLen = 0
  /\ phase \in {"handle", "forward"} => requestLen \in 1..dataLen /\ info \in DOMAIN script
  /\ phase \in {"answered", "failed"} => requestLen < 0 \/ requestLen <= dataLen
  /\ phase = "forward" =>
       /\ contentLen >= 0 => consumed \in 0..contentLen
       /\ contentLen >= -(IntMax + 1) => consumed <= got - base - requestLen

\* Nothing more will be read from this client.
Silent == eof /\ got = sent

\* The buffer begins where the next request does, or nothing is left to read.
AtNext ==
  /\ got = base + dataLen
  /\ base = Start(Len(handled) + 1) \/ (Silent /\ dataLen = 0)

\* The buffer begins with request i.
At(i) ==
  /\ i \in DOMAIN script /\ info = i /\ base = Start(i)
  /\ requestLen = script[i].head /\ contentLen = script[i].body

\* What of the body is consumed was in the buffer, or came behind it.
Consumed ==
  IF requestLen + contentLen <= dataLen THEN consumed = contentLen /\ got = base + dataLen
  ELSE got = base + requestLen + consumed

\* The body of an answered request is consumed, or its connection ends.
Discardable ==
  \/ status = 401 \/ contentLen < 0 \/ stopFlag
  \/ IF requestLen + contentLen < dataLen THEN got = base + dataLen
     ELSE got = base + requestLen + contentLen \/ Silent

PositionInv == ReadsBodies =>
  /\ Len(handled) <= Len(script) /\ \A k \in 1..Len(handled) : handled[k] = k
  /\ phase \in {"getreq", "reading"} => AtNext
  /\ phase = "handle" => At(Len(handled) + 1) /\ got = base + dataLen
  /\ phase = "forward" => At(Len(handled)) /\ (contentLen >= 0 => Consumed)
  /\ phase = "answered" => At(Len(handled)) /\ Discardable
  /\ phase = "failed" => requestLen <= 0 /\ (stopFlag \/ Silent)

IInv == Types /\ sent <= StreamLen /\ LengthsInv /\ UserIsCurrent /\ PositionInv

-----------------------------------------------------------------------------
(* What the operations find and take. *)

\* The least of two integers is one of them and not above either.
LEMMA MinOfTwo ==
  ASSUME NEW a \in Int, NEW b \in Int
  PROVE  Min({a, b}) \in {a, b} /\ Min({a, b}) <= a /\ Min({a, b}) <= b
<1>1. Min({a, b}) = CHOOSE x \in {a, b} : \A y \in {a, b} : x <= y
  BY DEF Min
<1>2. \E x \in {a, b} : \A y \in {a, b} : x <= y
  <2>1. CASE a <= b
    BY <2>1
  <2>2. CASE b <= a
    BY <2>2
  <2>. QED  BY <2>1, <2>2
<1>3. Min({a, b}) \in {a, b} /\ \A y \in {a, b} : Min({a, b}) <= y
  BY <1>1, <1>2
<1>. QED  BY <1>3

\* pull gives a byte at least, no more than it is asked for, and no more than was sent.
LEMMA PulledType ==
  ASSUME Types, NEW m \in Int, NEW n \in Pulled(m)
  PROVE  n \in Nat \ {0} /\ n <= m /\ got + n <= sent /\ ~stopFlag
<1>1. Available \in Int /\ got \in Int /\ sent \in Int /\ Available = sent - got
  BY DEF Types, TypeOK, Available
<1>2. Min({m, Available}) \in Int /\ Min({m, Available}) <= m /\ Min({m, Available}) <= Available
  BY <1>1, MinOfTwo
<1>3. n \in 1..Min({m, Available}) /\ ~stopFlag
  BY DEF Pulled
<1>. QED  BY <1>1, <1>2, <1>3

\* The buffer holds a head or it does not; get_request_len is that of the first.
LEMMA BufferedHead ==
  ASSUME Types
  PROVE  /\ HeadEnds = {} => BufferedRequestLen = 0
         /\ HeadEnds # {} => /\ BufferedRequestLen \in 1..dataLen
                             /\ \E i \in HeadEnds : BufferedRequestLen = HeadEnd(i) - base
                             /\ \A j \in HeadEnds : BufferedRequestLen <= HeadEnd(j) - base
<1>. DEFINE E == {HeadEnd(i) : i \in HeadEnds}
<1>1. base \in Nat /\ dataLen \in Nat
  BY SizeAssumption DEF Types, TypeOK
<1>2. \A i \in HeadEnds : HeadEnd(i) \in Nat /\ HeadEnd(i) > base /\ HeadEnd(i) <= base + dataLen
  BY HeadsInStream DEF HeadEnds, Types
<1>3. CASE HeadEnds = {}
  BY <1>3 DEF BufferedRequestLen
<1>4. CASE HeadEnds # {}
  <2>1. E \subseteq Nat /\ E # {}
    BY <1>2, <1>4
  <2>2. Min(E) \in E /\ \A y \in E : Min(E) <= y
    BY <2>1, LeastNatural
  <2>3. BufferedRequestLen = Min(E) - base
    BY <1>4 DEF BufferedRequestLen
  <2>4. PICK i \in HeadEnds : Min(E) = HeadEnd(i)
    BY <2>2
  <2>5. \A j \in HeadEnds : Min(E) <= HeadEnd(j)
    BY <2>2
  <2>. HIDE DEF E
  <2>. QED  BY <1>1, <1>2, <1>4, <2>3, <2>4, <2>5
<1>. QED  BY <1>3, <1>4

\* A number less a multiple of another.
LEMMA Remainder ==
  ASSUME NEW m \in Nat \ {0}, NEW k \in Int, NEW a \in 0..(m - 1), NEW b \in Int, b = k * m + a
  PROVE  b % m = a
OBVIOUS

\* What is left of a number that wraps around k times.
LEMMA WrappedIs ==
  ASSUME NEW max \in Nat, NEW n \in Int, NEW k \in Int, NEW j \in -(max + 1)..max,
         n = j + (k * (2 * (max + 1)))
  PROVE  Wrapped(n, max) = j
<1>. DEFINE m == 2 * (max + 1)
            a == j + max + 1
            b == n + max + 1
<1>1. m \in Nat \ {0} /\ a \in 0..(m - 1)
  OBVIOUS
<1>2. k * m \in Int
  BY <1>1
<1>3. b = k * m + a /\ b \in Int
  BY <1>2
<1>4. Wrapped(n, max) = (b % m) - (max + 1) /\ a - (max + 1) = j
  BY DEF Wrapped
<1>. HIDE DEF m, a, b
<1>5. b % m = a
  BY <1>1, <1>3, Remainder
<1>. QED  BY <1>4, <1>5

\* It is in the range.
LEMMA WrappedType ==
  ASSUME NEW max \in Nat, NEW n \in Int
  PROVE  Wrapped(n, max) \in -(max + 1)..max
<1>. DEFINE m == 2 * (max + 1)
            r == (n + max + 1) % m
<1>1. m \in Nat \ {0} /\ n + max + 1 \in Int
  OBVIOUS
<1>. HIDE DEF m
<1>2. r \in 0..(m - 1)
  BY <1>1
<1>. HIDE DEF r
<1>. QED  BY <1>2 DEF m, Wrapped, r

\* The range of int64_t is a multiple of that of int.
LEMMA Widths ==
  /\ IntMax \in Nat /\ LongMax \in Nat /\ IntMax <= LongMax
  /\ \E k \in Int : LongMax + 1 = k * (2 * (IntMax + 1))
<1>. DEFINE m == 2 * (IntMax + 1)
            k == (LongMax + 1) \div m
<1>1. m \in Nat \ {0} /\ LongMax + 1 \in Nat \ {0} /\ (LongMax + 1) % m = 0
  BY WidthAssumption
<1>. HIDE DEF m
<1>2. k \in Int /\ LongMax + 1 = k * m
  BY <1>1
<1>3. LongMax + 1 >= m
  BY <1>1, <1>2
<1>. QED  BY <1>2, <1>3, WidthAssumption DEF m

\* A number of int is itself, and so is one of int64_t.
LEMMA InRange ==
  /\ \A n \in -(IntMax + 1)..IntMax : AsInt(n) = n
  /\ \A n \in -(LongMax + 1)..LongMax : AsLong(n) = n
<1>1. \A max \in Nat : \A n \in -(max + 1)..max : Wrapped(n, max) = n
  <2>. SUFFICES ASSUME NEW max \in Nat, NEW n \in -(max + 1)..max  PROVE Wrapped(n, max) = n
    OBVIOUS
  <2>1. n \in Int /\ 0 \in Int /\ n = n + (0 * (2 * (max + 1)))
    OBVIOUS
  <2>. QED  BY <2>1, WrappedIs
<1>. QED  BY <1>1, WidthAssumption DEF AsInt, AsLong

\* The sum of the lengths, when it wraps, is a part of the head for an int.
LEMMA SumWraps ==
  ASSUME NEW r \in 1..BufSize, NEW c \in 0..LongMax, r + c > LongMax
  PROVE  AsInt(AsLong(r + c)) \in 0..(r - 1)
<1>. DEFINE top == LongMax + 1
<1>1. top \in Nat /\ r \in Nat /\ c \in Nat /\ r <= IntMax /\ IntMax \in Nat /\ IntMax < top
      /\ c < top /\ r + c >= top
  BY Widths, WidthAssumption, SizeAssumption
<1>2. AsLong(r + c) = r + c - 2 * top
  <2>. DEFINE n == r + c
              j == r + c - 2 * top
  <2>1. /\ j \in -(LongMax + 1)..LongMax /\ n \in Int /\ LongMax \in Nat /\ 1 \in Int
        /\ n = j + (1 * (2 * (LongMax + 1)))
    BY <1>1, Widths
  <2>. HIDE DEF n, j
  <2>2. Wrapped(n, LongMax) = j
    BY <2>1, WrappedIs
  <2>. QED  BY <2>2 DEF AsLong, n, j
<1>3. PICK k \in Int : top = k * (2 * (IntMax + 1))
  BY Widths
<1>. HIDE DEF top
<1>4. r + c - top \in 0..(r - 1)
  BY <1>1
<1>5. AsInt(r + c - 2 * top) = r + c - top
  <2>1. (-k) * (2 * (IntMax + 1)) = -(k * (2 * (IntMax + 1))) /\ -k \in Int
    BY <1>1, <1>3
  <2>2. r + c - 2 * top = (r + c - top) + ((-k) * (2 * (IntMax + 1)))
    BY <1>1, <1>3, <2>1
  <2>3. r + c - top \in -(IntMax + 1)..IntMax /\ r + c - 2 * top \in Int
    BY <1>1
  <2>. QED  BY <1>1, <2>1, <2>2, <2>3, WrappedIs DEF AsInt
<1>. QED  BY <1>2, <1>4, <1>5

\* The lengths, as numbers.
LEMMA LengthTypes ==
  ASSUME Types
  PROVE  /\ dataLen \in Nat /\ dataLen <= BufSize /\ dataLen <= IntMax /\ requestLen \in Int
         /\ contentLen \in Int /\ contentLen <= LongMax /\ IntMax \in Nat /\ LongMax \in Nat
BY SizeAssumption, WidthAssumption DEF Types, TypeOK

\* Where no sum overflows what is discarded is the head and what is there of the body.
LEMMA DiscardsRequest ==
  ASSUME Types, requestLen > 0, contentLen >= 0, requestLen + contentLen <= LongMax
  PROVE  DiscardLens = {IF requestLen + contentLen < dataLen THEN requestLen + contentLen ELSE dataLen}
<1>. DEFINE sum == requestLen + contentLen
<1>1. sum \in -(LongMax + 1)..LongMax /\ sum \in Nat /\ (sum < dataLen => sum \in -(IntMax + 1)..IntMax)
  BY LengthTypes
<1>2. AsLong(sum) = sum /\ (sum < dataLen => AsInt(sum) = sum)
  BY <1>1, InRange
<1>3. DiscardLens = {IF n < dataLen THEN AsInt(n) ELSE dataLen : n \in {sum, AsLong(sum)}}
  BY DEF DiscardLens
<1>. HIDE DEF sum
<1>4. DiscardLens = {IF sum < dataLen THEN sum ELSE dataLen}
  BY <1>2, <1>3
<1>. QED  BY <1>4 DEF sum

\* What process_new_connection discards lies in the buffer, whatever overflows.
LEMMA DiscardType ==
  ASSUME Types, requestLen <= dataLen
  PROVE  DiscardLens \subseteq 0..dataLen /\ DiscardLens # {} /\ dataLen \in Nat
<1>. DEFINE sum == requestLen + contentLen
<1>1. CASE ~(contentLen >= 0 /\ requestLen > 0)
  <2>1. DiscardLens = {dataLen}
    BY <1>1 DEF DiscardLens
  <2>. QED  BY <2>1, LengthTypes
<1>2. CASE contentLen >= 0 /\ requestLen > 0 /\ sum <= LongMax
  <2>1. DiscardLens = {IF sum < dataLen THEN sum ELSE dataLen}
    BY <1>2, DiscardsRequest
  <2>2. sum \in Nat
    BY <1>2, LengthTypes
  <2>. HIDE DEF sum
  <2>. QED  BY <2>1, <2>2, LengthTypes
<1>3. CASE contentLen >= 0 /\ requestLen > 0 /\ sum > LongMax
  <2>1. DiscardLens = {IF n < dataLen THEN AsInt(n) ELSE dataLen : n \in {sum, AsLong(sum)}}
    BY <1>3 DEF DiscardLens
  <2>2. requestLen \in 1..BufSize /\ contentLen \in 0..LongMax
    BY <1>3, LengthTypes, SizeAssumption
  <2>3. AsInt(AsLong(sum)) \in 0..(requestLen - 1)
    BY <1>3, <2>2, SumWraps
  <2>4. ~(sum < dataLen)
    BY <1>3, LengthTypes, WidthAssumption, Widths
  <2>. HIDE DEF sum
  <2>. QED  BY <2>1, <2>3, <2>4, LengthTypes
<1>4. sum \in Int
  BY LengthTypes
<1>. QED  BY <1>1, <1>2, <1>3, <1>4, LengthTypes

\* What is taken of the buffer when a body is begun is not more than there is, nor more
\* than its length, if that is a number of bytes or negative as an int.
LEMMA FirstPartType ==
  ASSUME Types, NEW buffered \in 0..dataLen
  PROVE  /\ FirstPart(buffered) \in Int
         /\ contentLen >= 0 => /\ FirstPart(buffered) \in {buffered, contentLen}
                               /\ FirstPart(buffered) \in 0..contentLen
         /\ contentLen >= -(IntMax + 1) => FirstPart(buffered) <= buffered
<1>1. buffered \in Nat /\ buffered <= IntMax /\ IntMax \in Nat /\ contentLen \in Int
  BY LengthTypes
<1>2. AsInt(contentLen) \in Int
  <2>1. AsInt(contentLen) \in -(IntMax + 1)..IntMax
    BY <1>1, WrappedType DEF AsInt
  <2>. QED  BY <1>1, <2>1
<1>3. contentLen >= -(IntMax + 1) /\ buffered > contentLen => AsInt(contentLen) = contentLen
  <2>1. contentLen >= -(IntMax + 1) /\ buffered > contentLen => contentLen \in -(IntMax + 1)..IntMax
    BY <1>1
  <2>. QED  BY <2>1, InRange
<1>. QED  BY <1>1, <1>2, <1>3 DEF FirstPart

-----------------------------------------------------------------------------
(* Types and lengths. *)

Lengths == Types /\ sent <= StreamLen /\ LengthsInv /\ UserIsCurrent

\* The first state.
LEMMA LengthsInit == Init => Lengths
<1>. SUFFICES ASSUME Init  PROVE Lengths
  OBVIOUS
<1>1. script \in Seq(Requested) /\ script = <<>> /\ handled \in Seq(Nat)
  BY DEF Init
<1>2. StreamLen \in Nat
  BY <1>1, HeadsInStream
<1>3. Types
  <2>1. eof \in BOOLEAN /\ stopFlag \in BOOLEAN /\ infoKeeps \in BOOLEAN
    BY DEF Init
  <2>. QED  BY <1>1, <2>1, SizeAssumption, WidthAssumption DEF Init, Types, TypeOK
<1>4. sent <= StreamLen /\ LengthsInv /\ UserIsCurrent
  BY <1>2 DEF Init, LengthsInv, UserIsCurrent
<1>. QED  BY <1>3, <1>4 DEF Lengths

\* Every step keeps the lengths in their bounds: one case for each action.
LEMMA LengthsStep ==
  ASSUME Lengths, [Next]_vars
  PROVE  Lengths'
<1>. USE DEF clientVars, stopVars, infoVars, lenVars
<1>0. /\ sent \in Nat /\ got \in 0..sent /\ base \in 0..got
      /\ phase \in {"idle", "getreq", "reading", "handle", "forward", "answered", "failed", "close"}
      /\ dataLen \in 0..BufSize /\ contentLen \in -(LongMax + 1)..LongMax /\ contentLen \in Int
      /\ consumed \in Int /\ status \in Int /\ IntMax \in Nat /\ LongMax \in Nat
      /\ info \in Int /\ infoKeeps \in BOOLEAN
      /\ remoteUser \in {"none", "user", "freed"}
      /\ handled \in Seq(Nat)
      /\ setting \in DOMAIN Settings /\ script \in Seq(Requested)
      /\ eof \in BOOLEAN /\ stopFlag \in BOOLEAN /\ connections \in Nat /\ requestLen \in Int
      /\ StreamLen \in Nat /\ sent <= StreamLen
      /\ Types /\ LengthsInv /\ UserIsCurrent /\ BufSize \in Nat
  <2>1. Types /\ TypeOK /\ LengthsInv /\ UserIsCurrent /\ sent <= StreamLen
    BY DEF Lengths, Types
  <2>2. contentLen \in Int /\ IntMax \in Nat /\ LongMax \in Nat /\ StreamLen \in Nat
    BY <2>1, LengthTypes, HeadsInStream DEF Types
  <2>3. /\ setting \in DOMAIN Settings /\ script \in Seq(Requested)
        /\ eof \in BOOLEAN /\ stopFlag \in BOOLEAN /\ connections \in Nat /\ requestLen \in Int
    BY <2>1 DEF Types
  <2>4. BufSize \in Nat
    BY SizeAssumption
  <2>. QED  BY <2>1, <2>2, <2>3, <2>4, Zenon DEF TypeOK
<1>1. CASE Send
  <2>1. sent' \in Nat /\ sent' <= StreamLen /\ got \in 0..sent' /\ StreamLen' = StreamLen
    BY <1>0, <1>1 DEF Send, StreamLen, Start
  <2>. QED  BY <1>0, <1>1, <2>1 DEF Send, Lengths, Types, TypeOK, LengthsInv, UserIsCurrent
<1>2. CASE CloseEnd \/ Stop \/ CloseConnection \/ ResetRequest
  <2>1. StreamLen' = StreamLen
    BY <1>2 DEF CloseEnd, Stop, CloseConnection, ResetRequest, StreamLen, Start
  <2>2. Types'
    <3>1. eof' \in BOOLEAN /\ stopFlag' \in BOOLEAN /\ infoKeeps' \in BOOLEAN
      BY <1>0, <1>2 DEF CloseEnd, Stop, CloseConnection, ResetRequest
    <3>2. /\ phase' \in {phase, "idle", "reading"} /\ consumed' \in {consumed, 0}
          /\ status' \in {status, -1} /\ requestLen' \in {requestLen, 0}
          /\ UNCHANGED <<script, sent, connections, setting, base, got, dataLen, contentLen,
                         info, remoteUser, handled>>
      BY <1>2 DEF CloseEnd, Stop, CloseConnection, ResetRequest
    <3>. QED  BY <1>0, <3>1, <3>2 DEF Types, TypeOK
  <2>3. CASE CloseEnd \/ Stop
    <3>1. LengthsInv' /\ UserIsCurrent' /\ sent' = sent
      BY <1>0, <2>3 DEF CloseEnd, Stop, LengthsInv, UserIsCurrent
    <3>. QED  BY <1>0, <2>1, <2>2, <3>1 DEF Lengths
  <2>4. CASE CloseConnection \/ ResetRequest
    <3>1. /\ phase' = "idle" \/ (phase' = "reading" /\ requestLen' = 0)
          /\ UNCHANGED <<base, dataLen, got, sent>>
      BY <2>4 DEF CloseConnection, ResetRequest
    <3>2. LengthsInv' /\ UserIsCurrent'
      BY <1>0, <3>1 DEF LengthsInv, UserIsCurrent
    <3>. QED  BY <1>0, <2>1, <2>2, <3>1, <3>2 DEF Lengths
  <2>. QED  BY <1>2, <2>3, <2>4
<1>3. CASE Begin
  <2>1. script' \in Seq(Requested) /\ handled' \in Seq(Nat) /\ connections' \in Nat
    BY <1>0, <1>3, SettingsAssumption DEF Begin, Setting
  <2>2. StreamLen' \in Nat
    <3>1. (script \in Seq(Requested) => StreamLen \in Nat)'
      BY HeadsInStream, PTL
    <3>. QED  BY <2>1, <3>1
  <2>3. Types'
    <3>1. eof' \in BOOLEAN /\ stopFlag' \in BOOLEAN /\ infoKeeps' \in BOOLEAN
      BY <1>0, <1>3 DEF Begin
    <3>. QED  BY <1>0, <1>3, <2>1, <3>1 DEF Begin, Types, TypeOK
  <2>4. LengthsInv' /\ UserIsCurrent' /\ sent' = 0
    BY <1>0, <1>3 DEF Begin, LengthsInv, UserIsCurrent
  <2>. QED  BY <2>2, <2>3, <2>4 DEF Lengths
<1>4. CASE ReadMore
  <2>1. PICK n \in Pulled(BufSize - dataLen) : dataLen' = dataLen + n /\ got' = got + n
    BY <1>4 DEF ReadMore
  <2>2. n \in Nat \ {0} /\ n <= BufSize - dataLen /\ got + n <= sent
    BY <1>0, <2>1, PulledType
  <2>3. dataLen' \in 0..BufSize /\ got' \in 0..sent /\ base \in 0..got'
    BY <1>0, <2>1, <2>2
  <2>4. StreamLen' = StreamLen
    BY <1>4 DEF ReadMore, StreamLen, Start
  <2>. QED
    BY <1>0, <1>4, <2>1, <2>2, <2>3, <2>4
    DEF ReadMore, Lengths, Types, TypeOK, LengthsInv, UserIsCurrent
<1>5. CASE ReadFails
  <2>1. StreamLen' = StreamLen
    BY <1>5 DEF ReadFails, StreamLen, Start
  <2>. QED  BY <1>0, <1>5, <2>1 DEF ReadFails, Lengths, Types, TypeOK, LengthsInv, UserIsCurrent
<1>6. CASE ReadRequest
  <2>1. PICK i \in RequestAtBase :
          /\ requestLen' = BufferedRequestLen
          /\ info' = i /\ infoKeeps' = script[i].keep
          /\ contentLen' = script[i].body
          /\ IF script[i].valid
             THEN phase' = "handle" /\ UNCHANGED status
             ELSE phase' = "failed" /\ status' = 400
    BY <1>6 DEF ReadRequest
  <2>2. i \in HeadEnds /\ i \in DOMAIN script
    BY DEF RequestAtBase, HeadEnds
  <2>3. requestLen' \in 1..dataLen
    BY <1>0, <2>1, <2>2, BufferedHead
  <2>4. /\ script[i].keep \in BOOLEAN /\ script[i].body \in -(LongMax + 1)..LongMax
        /\ i \in Int
    BY <1>0, <2>2, HeadsInStream DEF Requested
  <2>5. StreamLen' = StreamLen
    BY <1>6 DEF ReadRequest, StreamLen, Start
  <2>6. Types'
    BY <1>0, <1>6, <2>1, <2>3, <2>4 DEF ReadRequest, Types, TypeOK
  <2>7. LengthsInv' /\ UserIsCurrent'
    BY <1>0, <1>6, <2>1, <2>2, <2>3 DEF ReadRequest, LengthsInv, UserIsCurrent
  <2>. QED  BY <1>0, <1>6, <2>5, <2>6, <2>7 DEF ReadRequest, Lengths
<1>7. CASE ReadGarbage
  <2>1. requestLen' \in 1..dataLen
    BY <1>0, <1>7, BufferedHead DEF ReadGarbage
  <2>2. StreamLen' = StreamLen
    BY <1>7 DEF ReadGarbage, StreamLen, Start
  <2>3. Types'
    <3>1. eof' \in BOOLEAN /\ stopFlag' \in BOOLEAN /\ infoKeeps' \in BOOLEAN
      BY <1>0, <1>7 DEF ReadGarbage
    <3>. QED  BY <1>0, <1>7, <2>1, <3>1 DEF ReadGarbage, Types, TypeOK
  <2>4. LengthsInv' /\ UserIsCurrent' /\ sent' = sent
    BY <1>0, <1>7, <2>1 DEF ReadGarbage, LengthsInv, UserIsCurrent
  <2>. QED  BY <1>0, <2>2, <2>3, <2>4 DEF Lengths
<1>8. CASE Callback \/ Refuse \/ Forward
  <2>1. phase = "handle" /\ requestLen \in 1..dataLen /\ info \in DOMAIN script
    BY <1>0, <1>8 DEF Callback, Refuse, Forward, LengthsInv
  <2>2. handled' \in Seq(Nat)
    <3>1. info \in Nat
      BY <1>0, <2>1
    <3>2. handled' = Append(handled, info)
      BY <1>8 DEF Callback, Refuse, Forward
    <3>. QED  BY <1>0, <3>1, <3>2
  <2>3. remoteUser' \in {"none", "user"}
    BY <1>0, <1>8, <2>1 DEF Callback, Refuse, Forward, Authorized, UserIsCurrent
  <2>4. StreamLen' = StreamLen
    BY <1>8 DEF Callback, Refuse, Forward, StreamLen, Start
  <2>5. /\ UNCHANGED <<clientVars, connections, stopVars, base, got, dataLen, requestLen,
                       contentLen, infoVars>>
        /\ phase' \in {"answered", "forward"} /\ status' \in Int
    BY <1>0, <1>8, SMTT(40) DEF Callback, Refuse, Forward
  <2>6. /\ consumed' \in Int
        /\ phase' = "forward" =>
             /\ contentLen >= 0 => consumed' \in 0..contentLen
             /\ contentLen >= -(IntMax + 1) => consumed' <= got - base - requestLen
    <3>1. CASE consumed' = consumed /\ phase' = "answered"
      BY <1>0, <3>1
    <3>2. CASE Forward /\ consumed' = FirstPart(dataLen - requestLen)
      <4>1. /\ dataLen - requestLen \in 0..dataLen /\ base + dataLen <= got
            /\ dataLen - requestLen <= got - base - requestLen
        BY <1>0, <2>1 DEF LengthsInv
      <4>2. /\ FirstPart(dataLen - requestLen) \in Int
            /\ contentLen >= 0 => FirstPart(dataLen - requestLen) \in 0..contentLen
            /\ contentLen >= -(IntMax + 1) => FirstPart(dataLen - requestLen) <= dataLen - requestLen
        BY <1>0, <4>1, FirstPartType
      <4>. QED  BY <1>0, <2>1, <3>2, <4>1, <4>2
    <3>. QED  BY <1>8, <3>1, <3>2 DEF Callback, Refuse, Forward
  <2>7. Types'
    BY <1>0, <2>2, <2>3, <2>5, <2>6 DEF Types, TypeOK
  <2>8. LengthsInv' /\ UserIsCurrent'
    BY <1>0, <2>1, <2>3, <2>5, <2>6 DEF LengthsInv, UserIsCurrent
  <2>. QED  BY <1>0, <2>4, <2>5, <2>7, <2>8 DEF Lengths
<1>9. CASE ForwardMore
  <2>1. PICK n \in Pulled(contentLen - consumed) : consumed' = consumed + n /\ got' = got + n
    BY <1>9 DEF ForwardMore
  <2>2. n \in Nat \ {0} /\ n <= contentLen - consumed /\ got + n <= sent
    BY <1>0, <2>1, PulledType
  <2>3. /\ got' \in 0..sent /\ base \in 0..got' /\ consumed' \in Int
        /\ base + dataLen <= got'
    BY <1>0, <2>1, <2>2 DEF LengthsInv
  <2>4. StreamLen' = StreamLen
    BY <1>9 DEF ForwardMore, StreamLen, Start
  <2>5. /\ phase = "forward" /\ consumed < contentLen
        /\ UNCHANGED <<clientVars, connections, stopVars, phase, base, dataLen, requestLen,
                       contentLen, status, infoVars, remoteUser, handled>>
    BY <1>9 DEF ForwardMore
  <2>6. Types' /\ UserIsCurrent'
    BY <1>0, <2>3, <2>5 DEF Types, TypeOK, UserIsCurrent
  <2>7. /\ contentLen >= 0 => consumed' \in 0..contentLen
        /\ contentLen >= -(IntMax + 1) => consumed' <= got' - base - requestLen
        /\ requestLen \in 1..dataLen /\ info \in DOMAIN script
    BY <1>0, <2>1, <2>2, <2>5 DEF LengthsInv
  <2>8. LengthsInv'
    BY <2>3, <2>5, <2>7 DEF LengthsInv
  <2>. QED  BY <1>0, <2>4, <2>5, <2>6, <2>8 DEF Lengths
<1>10. CASE ForwardEnds
  <2>1. StreamLen' = StreamLen
    BY <1>10 DEF ForwardEnds, StreamLen, Start
  <2>. QED
    BY <1>0, <1>10, <2>1 DEF ForwardEnds, Lengths, Types, TypeOK, LengthsInv, UserIsCurrent
<1>11. CASE Finish
  <2>1. phase \in {"answered", "failed"}
    BY <1>11 DEF Finish
  <2>2. requestLen <= dataLen /\ base + dataLen <= got
    BY <1>0, <2>1 DEF LengthsInv
  <2>3. PICK len \in DiscardLens : /\ base' = IF dataLen = len THEN got ELSE base + len
                                   /\ dataLen' = dataLen - len
    BY <1>11 DEF Finish
  <2>4. len \in 0..dataLen /\ dataLen \in Nat
    BY <1>0, <2>2, DiscardType
  <2>5. /\ phase' \in {"getreq", "close"} /\ remoteUser' \in {"none", "freed"}
        /\ UNCHANGED <<clientVars, connections, stopVars, got, requestLen, contentLen, consumed,
                       status, infoVars, handled>>
    BY <1>11 DEF Finish
  <2>6. base' \in 0..got /\ dataLen' \in 0..BufSize /\ base' + dataLen' <= got
    BY <1>0, <2>2, <2>3, <2>4
  <2>7. StreamLen' = StreamLen
    BY <2>5 DEF StreamLen, Start
  <2>. QED  BY <1>0, <2>5, <2>6, <2>7 DEF Lengths, Types, TypeOK, LengthsInv, UserIsCurrent
<1>12. CASE ForwardFails
  <2>1. PICK n \in Pulled(contentLen - consumed) : got' = got + n
    BY <1>12 DEF ForwardFails
  <2>2. n \in Nat \ {0} /\ got + n <= sent
    BY <1>0, <2>1, PulledType
  <2>3. got' \in 0..sent /\ base \in 0..got' /\ base + dataLen <= got'
    BY <1>0, <2>1, <2>2 DEF LengthsInv
  <2>4. StreamLen' = StreamLen
    BY <1>12 DEF ForwardFails, StreamLen, Start
  <2>. QED
    BY <1>0, <1>12, <2>3, <2>4 DEF ForwardFails, Lengths, Types, TypeOK, LengthsInv, UserIsCurrent
<1>13. CASE UNCHANGED vars
  <2>1. StreamLen' = StreamLen
    BY <1>13 DEF vars, StreamLen, Start
  <2>. QED  BY <1>0, <1>13, <2>1 DEF vars, Lengths, Types, TypeOK, LengthsInv, UserIsCurrent
<1>. QED
  BY <1>1, <1>2, <1>3, <1>4, <1>5, <1>6, <1>7, <1>8, <1>9, <1>10, <1>11, <1>12,
     <1>13 DEF Next, ServerStep

-----------------------------------------------------------------------------
(* Requests in step with the stream. *)

\* What is read never goes past the script's end.
Stream == Lengths /\ PositionInv

\* Heads before request n are not in a buffer that begins with it, and heads behind it
\* end later than its own.
LEMMA FirstHead ==
  ASSUME Types, NEW n \in 1..(Len(script) + 1), base = Start(n)
  PROVE  /\ n \in DOMAIN script => HeadEnd(n) > base
         /\ \A i \in HeadEnds : i >= n /\ n \in HeadEnds /\ HeadEnd(n) <= HeadEnd(i)
         /\ RequestAtBase \subseteq {n}
         /\ HeadEnds # {} => n \in RequestAtBase /\ BufferedRequestLen = script[n].head
<1>1. /\ script \in Seq(Requested) /\ base \in Nat /\ dataLen \in Nat /\ Len(script) \in Nat
      /\ DOMAIN script = 1..Len(script)
  BY SizeAssumption DEF Types, TypeOK
<1>2. /\ \A i \in 1..(Len(script) + 1) : Start(i) \in Nat
      /\ \A i \in DOMAIN script :
              /\ i \in 1..Len(script)
              /\ script[i].head \in Nat \ {0} /\ HeadEnd(i) \in Nat
              /\ HeadEnd(i) = Start(i) + script[i].head
              /\ \A j \in 1..(Len(script) + 1) : i < j => HeadEnd(i) <= Start(j)
  BY <1>1, HeadsInStream
<1>3. n \in DOMAIN script => HeadEnd(n) > base
  BY <1>2
<1>4. ASSUME NEW i \in HeadEnds
      PROVE  i >= n /\ n \in HeadEnds /\ HeadEnd(n) <= HeadEnd(i)
  <2>1. i \in DOMAIN script /\ HeadEnd(i) > base /\ HeadEnd(i) <= base + dataLen
    BY DEF HeadEnds
  <2>2. i \in 1..Len(script) /\ i >= n
    BY <1>1, <1>2, <2>1, SMTT(40)
  <2>3. n \in DOMAIN script
    BY <1>1, <2>2
  <2>4. HeadEnd(n) <= HeadEnd(i)
    <3>1. CASE n = i
      BY <1>2, <2>1, <3>1
    <3>2. CASE n < i
      <4>1. i \in 1..(Len(script) + 1)
        BY <1>1, <2>2
      <4>2. HeadEnd(n) <= Start(i)
        BY <1>2, <2>3, <3>2, <4>1
      <4>3. HeadEnd(i) = Start(i) + script[i].head /\ script[i].head \in Nat /\ Start(i) \in Nat
        BY <1>2, <2>1, <4>1
      <4>4. HeadEnd(n) \in Nat
        BY <1>2, <2>3
      <4>. QED  BY <4>2, <4>3, <4>4
    <3>. QED  BY <1>1, <2>2, <3>1, <3>2
  <2>5. n \in HeadEnds
    BY <1>1, <1>2, <1>3, <2>1, <2>3, <2>4 DEF HeadEnds
  <2>. QED  BY <2>2, <2>4, <2>5
<1>5. ASSUME NEW i \in RequestAtBase  PROVE i = n
  <2>1. i \in HeadEnds /\ Start(i) = base /\ i \in DOMAIN script
    BY DEF RequestAtBase, HeadEnds
  <2>2. i >= n /\ i \in 1..Len(script) /\ n \in DOMAIN script
    BY <1>2, <1>4, <2>1 DEF HeadEnds
  <2>3. n < i => HeadEnd(n) <= Start(i)
    BY <1>1, <1>2, <2>2
  <2>. QED  BY <1>1, <1>2, <1>3, <2>1, <2>2, <2>3
<1>6. ASSUME HeadEnds # {}
      PROVE  n \in RequestAtBase /\ BufferedRequestLen = script[n].head
  <2>1. n \in HeadEnds /\ n \in DOMAIN script
    BY <1>4, <1>6 DEF HeadEnds
  <2>2. PICK i \in HeadEnds : BufferedRequestLen = HeadEnd(i) - base
    BY <1>6, BufferedHead
  <2>3. BufferedRequestLen <= HeadEnd(n) - base
    BY <1>6, <2>1, BufferedHead
  <2>4. HeadEnd(n) <= HeadEnd(i) /\ HeadEnd(i) \in Nat /\ HeadEnd(n) \in Nat
    BY <1>2, <1>4, <2>1 DEF HeadEnds
  <2>5. BufferedRequestLen = HeadEnd(n) - base
    BY <1>1, <2>2, <2>3, <2>4
  <2>6. HeadEnd(n) - base = script[n].head
    BY <1>1, <1>2, <2>1
  <2>. QED  BY <2>1, <2>5, <2>6 DEF RequestAtBase
<1>. QED  BY <1>3, <1>4, <1>5, <1>6

\* A buffer of which nothing is left has no head.
LEMMA NoHead ==
  ASSUME Types, dataLen = 0
  PROVE  HeadEnds = {}
<1>1. base \in Nat /\ \A i \in DOMAIN script : HeadEnd(i) \in Nat
  BY HeadsInStream DEF Types, TypeOK
<1>. QED  BY <1>1 DEF HeadEnds

\* A head that is there fits in the buffer, so a full one holds it.
LEMMA FullHasHead ==
  ASSUME Types, sent <= StreamLen, ReadsBodies, NEW n \in 1..(Len(script) + 1),
         base = Start(n), got = base + dataLen, dataLen = BufSize
  PROVE  HeadEnds # {}
<1>1. /\ script \in Seq(Requested) /\ base \in Nat /\ Len(script) \in Nat
      /\ DOMAIN script = 1..Len(script) /\ BufSize \in Nat \ {0}
      /\ got \in 0..sent /\ sent \in Nat
  BY SizeAssumption DEF Types, TypeOK
<1>2. n # Len(script) + 1
  BY <1>1, HeadsInStream DEF StreamLen
<1>3. n \in DOMAIN script
  BY <1>1, <1>2
<1>4. HeadEnd(n) = base + script[n].head /\ script[n].head \in Nat \ {0}
  BY <1>1, <1>3, HeadsInStream
<1>5. script[n].head <= BufSize
  BY <1>3 DEF ReadsBodies
<1>6. HeadEnd(n) > base /\ HeadEnd(n) <= base + dataLen
  BY <1>1, <1>4, <1>5
<1>. QED  BY <1>3, <1>6 DEF HeadEnds

\* The facts about types that the steps below use.
LEMMA StreamTypes ==
  ASSUME Lengths
  PROVE  /\ Types /\ script \in Seq(Requested) /\ Len(script) \in Nat
         /\ DOMAIN script = 1..Len(script)
         /\ base \in Nat /\ dataLen \in Nat /\ got \in Nat /\ sent \in Nat /\ got <= sent
         /\ handled \in Seq(Nat) /\ Len(handled) \in Nat /\ consumed \in Int
         /\ DOMAIN handled = 1..Len(handled)
         /\ requestLen \in Int /\ contentLen \in Int
         /\ sent <= StreamLen /\ LengthsInv
BY SizeAssumption, WidthAssumption DEF Lengths, Types, TypeOK

\* Nothing has been read yet.
LEMMA PositionInit == Init => PositionInv
<1>. SUFFICES ASSUME Init  PROVE PositionInv
  OBVIOUS
<1>1. Len(handled) = 0 /\ Len(script) = 0 /\ phase = "idle"
  BY DEF Init
<1>. QED  BY <1>1 DEF PositionInv

\* The first request of a client is at the beginning of its stream.
LEMMA FirstStart == script \in Seq(Requested) => Start(1) = 0 /\ Len(script) \in Nat
BY HeadsInStream

\* The client, the server's stop, and a new connection.
LEMMA ClientSteps ==
  ASSUME Lengths, PositionInv, Send \/ CloseEnd \/ Stop \/ Begin \/ CloseConnection
  PROVE  PositionInv'
<1>. USE DEF clientVars, stopVars, infoVars, lenVars
<1>0. PositionInv /\ eof \in BOOLEAN
  BY DEF Lengths, Types
<1>1. CASE Send
  <2>1. /\ ~eof /\ UNCHANGED <<script, eof, connections, setting, stopFlag, phase, base, got, dataLen,
                   requestLen, contentLen, consumed, status, info, infoKeeps, remoteUser, handled>>
    BY <1>1 DEF Send
  <2>2. ReadsBodies' = ReadsBodies /\ ~Silent
    BY <2>1 DEF ReadsBodies, Setting, Silent
  <2>. QED
    BY <1>0, <2>1, <2>2 DEF PositionInv, AtNext, At, Consumed, Discardable, Start
<1>2. CASE CloseEnd
  <2>1. /\ ~eof /\ UNCHANGED <<script, sent, connections, setting, stopFlag, phase, base, got, dataLen,
                   requestLen, contentLen, consumed, status, info, infoKeeps, remoteUser, handled>>
    BY <1>2 DEF CloseEnd
  <2>2. ReadsBodies' = ReadsBodies /\ ~Silent
    BY <2>1 DEF ReadsBodies, Setting, Silent
  <2>. QED
    BY <1>0, <2>1, <2>2 DEF PositionInv, AtNext, At, Consumed, Discardable, Start
<1>3. CASE Stop
  <2>1. /\ stopFlag' /\ UNCHANGED <<script, sent, eof, connections, setting, phase, base, got, dataLen,
                   requestLen, contentLen, consumed, status, info, infoKeeps, remoteUser, handled>>
    BY <1>3 DEF Stop
  <2>2. ReadsBodies' = ReadsBodies
    BY <2>1 DEF ReadsBodies, Setting
  <2>. QED
    BY <1>0, <2>1, <2>2 DEF PositionInv, AtNext, At, Consumed, Discardable, Start, Silent
<1>4. CASE Begin
  <2>1. /\ handled' = <<>> /\ base' = 0 /\ dataLen' = 0 /\ got' = 0 /\ phase' = "getreq"
        /\ script' \in Seq(Requested)
    BY <1>4, SettingsAssumption DEF Begin, Setting, Lengths, Types
  <2>2. (script \in Seq(Requested) => Start(1) = 0 /\ Len(script) \in Nat)'
    BY FirstStart, PTL
  <2>3. Len(handled') = 0 /\ Len(handled') + 1 = 1
    BY <2>1
  <2>. QED  BY <2>1, <2>2, <2>3 DEF PositionInv, AtNext
<1>5. CASE CloseConnection
  <2>1. /\ phase' = "idle" /\ UNCHANGED <<script, setting, handled>>
    BY <1>5 DEF CloseConnection
  <2>2. ReadsBodies' = ReadsBodies
    BY <2>1 DEF ReadsBodies, Setting
  <2>. QED  BY <1>0, <2>1, <2>2 DEF PositionInv
<1>. QED  BY <1>1, <1>2, <1>3, <1>4, <1>5

\* What ReadsBodies reads changes with a new connection only.
LEMMA SameReading ==
  ASSUME UNCHANGED <<script, setting>>
  PROVE  ReadsBodies' = ReadsBodies /\ \A i : Start(i)' = Start(i)
BY DEF ReadsBodies, Setting, Start

\* getreq: it never takes a request that is not the next one.
LEMMA ReadingSteps ==
  ASSUME Lengths, PositionInv, ResetRequest \/ ReadMore \/ ReadFails \/ ReadRequest \/ ReadGarbage
  PROVE  PositionInv'
<1>. USE DEF clientVars, stopVars, infoVars, lenVars
<1>0. /\ script \in Seq(Requested) /\ Len(script) \in Nat /\ DOMAIN script = 1..Len(script)
      /\ base \in Nat /\ dataLen \in Nat /\ got \in Nat /\ sent \in Nat /\ got <= sent
      /\ Len(handled) \in Nat /\ Types /\ sent <= StreamLen
  BY StreamTypes
<1>1. ReadsBodies' = ReadsBodies /\ (\A i : Start(i)' = Start(i)) /\ handled' = handled
      /\ UNCHANGED <<script, eof, sent, setting, stopFlag, base>>
  <2>1. UNCHANGED <<script, eof, sent, setting, stopFlag, base, handled>>
    BY DEF ResetRequest, ReadMore, ReadFails, ReadRequest, ReadGarbage
  <2>. QED  BY <2>1, SameReading
<1>2. phase \in {"getreq", "reading"}
  BY DEF ResetRequest, ReadMore, ReadFails, ReadRequest, ReadGarbage
<1>. SUFFICES ASSUME ReadsBodies  PROVE PositionInv'
  BY <1>1 DEF PositionInv
<1>3. /\ Len(handled) <= Len(script) /\ \A k \in 1..Len(handled) : handled[k] = k
      /\ AtNext
  BY <1>2 DEF PositionInv
<1>4. CASE ResetRequest
  <2>1. phase' = "reading" /\ UNCHANGED <<got, dataLen>>
    BY <1>4 DEF ResetRequest
  <2>. QED  BY <1>1, <1>3, <2>1 DEF PositionInv, AtNext, Silent
<1>5. CASE ReadMore
  <2>1. PICK n \in Pulled(BufSize - dataLen) : dataLen' = dataLen + n /\ got' = got + n
    BY <1>5 DEF ReadMore
  <2>2. n \in Nat \ {0} /\ got + n <= sent
    BY <1>0, <2>1, PulledType, SizeAssumption
  <2>3. ~Silent
    BY <1>0, <2>2 DEF Silent
  <2>4. got' = base + dataLen' /\ base = Start(Len(handled) + 1)
    BY <1>0, <1>3, <2>1, <2>2, <2>3 DEF AtNext
  <2>5. phase' = "reading"
    BY <1>5 DEF ReadMore
  <2>. QED  BY <1>1, <1>3, <2>4, <2>5 DEF PositionInv, AtNext
<1>6. CASE ReadFails
  <2>1. /\ phase' = "failed" /\ requestLen' <= 0 /\ got' = got
        /\ BufferedRequestLen = 0 /\ (dataLen = BufSize \/ PullsNothing)
    BY <1>6 DEF ReadFails
  <2>2. HeadEnds = {}
    BY <1>0, <2>1, BufferedHead
  <2>3. dataLen # BufSize
    <3>1. CASE base = Start(Len(handled) + 1)
      <4>1. Len(handled) + 1 \in 1..(Len(script) + 1)
        BY <1>0, <1>3
      <4>. QED  BY <1>0, <1>3, <2>2, <3>1, <4>1, FullHasHead DEF AtNext
    <3>2. CASE dataLen = 0
      BY <3>2, SizeAssumption
    <3>. QED  BY <1>3, <3>1, <3>2 DEF AtNext
  <2>4. stopFlag \/ Silent
    <3>1. CASE Available = 0 /\ (eof \/ Setting.slow)
      <4>1. got = sent
        BY <1>0, <3>1 DEF Available
      <4>. QED  BY <3>1, <4>1 DEF ReadsBodies, Silent
    <3>. QED  BY <2>1, <2>3, <3>1 DEF PullsNothing
  <2>. QED  BY <1>1, <1>3, <2>1, <2>4 DEF PositionInv, Silent
<1>7. CASE ReadRequest
  <2>1. PICK i \in RequestAtBase :
          /\ requestLen' = BufferedRequestLen
          /\ info' = i /\ contentLen' = script[i].body
          /\ script[i].valid => phase' = "handle"
    BY <1>7 DEF ReadRequest
  <2>2. i \in HeadEnds /\ i \in DOMAIN script /\ UNCHANGED <<got, dataLen>>
    BY <1>7 DEF ReadRequest, RequestAtBase, HeadEnds
  <2>3. base = Start(Len(handled) + 1)
    BY <1>0, <1>3, <2>2, NoHead DEF AtNext
  <2>4. Len(handled) + 1 \in 1..(Len(script) + 1)
    BY <1>0, <1>3
  <2>5. i = Len(handled) + 1 /\ BufferedRequestLen = script[i].head
    BY <1>0, <2>2, <2>3, <2>4, FirstHead
  <2>6. phase' = "handle"
    BY <2>1, <2>2 DEF ReadsBodies
  <2>7. At(Len(handled) + 1)' /\ got' = base' + dataLen'
    BY <1>1, <1>3, <2>1, <2>2, <2>3, <2>5 DEF At, AtNext
  <2>. QED  BY <1>1, <1>3, <2>6, <2>7 DEF PositionInv
<1>8. CASE ReadGarbage
  <2>1. RequestAtBase = {} /\ HeadEnds # {}
    BY <1>0, <1>8, BufferedHead DEF ReadGarbage
  <2>2. base = Start(Len(handled) + 1)
    BY <1>0, <1>3, <2>1, NoHead DEF AtNext
  <2>3. Len(handled) + 1 \in 1..(Len(script) + 1)
    BY <1>0, <1>3
  <2>4. Len(handled) + 1 \in RequestAtBase
    BY <1>0, <2>1, <2>2, <2>3, FirstHead
  <2>. QED  BY <2>1, <2>4
<1>. QED  BY <1>4, <1>5, <1>6, <1>7, <1>8

\* The handlers: the body of the request in the buffer is consumed, and no byte behind it.
LEMMA HandlerSteps ==
  ASSUME Lengths, PositionInv, Callback \/ Refuse \/ Forward \/ ForwardMore \/ ForwardFails \/ ForwardEnds
  PROVE  PositionInv'
<1>. USE DEF clientVars, stopVars, infoVars, lenVars
<1>0. /\ script \in Seq(Requested) /\ Len(script) \in Nat /\ DOMAIN script = 1..Len(script)
      /\ base \in Nat /\ dataLen \in Nat /\ got \in Nat /\ sent \in Nat /\ got <= sent
      /\ handled \in Seq(Nat) /\ Len(handled) \in Nat /\ Types /\ consumed \in Int
      /\ requestLen \in Int /\ contentLen \in Int /\ LengthsInv
  BY StreamTypes
<1>1. /\ ReadsBodies' = ReadsBodies /\ (\A i : Start(i)' = Start(i))
      /\ UNCHANGED <<script, eof, sent, setting, stopFlag, base, dataLen, requestLen, contentLen, info>>
  <2>1. UNCHANGED <<script, eof, sent, setting, stopFlag, base, dataLen, requestLen, contentLen, info>>
    BY DEF Callback, Refuse, Forward, ForwardMore, ForwardFails, ForwardEnds
  <2>. QED  BY <2>1, SameReading
<1>. SUFFICES ASSUME ReadsBodies  PROVE PositionInv'
  BY <1>1 DEF PositionInv
<1>2. Len(handled) <= Len(script) /\ \A k \in 1..Len(handled) : handled[k] = k
  BY DEF PositionInv
<1>3. CASE Refuse \/ Forward
  <2>1. /\ phase = "handle" /\ handled' = Append(handled, info) /\ got' = got
        /\ At(Len(handled) + 1) /\ got = base + dataLen
    BY <1>3 DEF Refuse, Forward, PositionInv
  <2>2. info = Len(handled) + 1 /\ info \in Nat /\ info <= Len(script)
    BY <1>0, <2>1 DEF At
  <2>3. /\ Len(handled') = Len(handled) + 1
        /\ \A k \in 1..Len(handled') : handled'[k] = k
    <3>1. /\ Len(handled') = Len(handled) + 1 /\ handled'[Len(handled) + 1] = info
          /\ \A k \in 1..Len(handled) : handled'[k] = handled[k]
      BY <1>0, <2>1, <2>2, AppendProperties
    <3>. QED  BY <1>0, <1>2, <2>2, <3>1
  <2>4. At(Len(handled))'
    BY <1>1, <2>1, <2>2, <2>3 DEF At
  <2>5. requestLen \in 1..dataLen
    BY <1>0, <2>1 DEF LengthsInv
  <2>6. CASE phase' = "answered"
    <3>1. ~script[info].expects
      BY <1>0, <2>2 DEF ReadsBodies
    <3>2. status' = 401 \/ contentLen = -1
      BY <1>3, <2>6, <3>1 DEF Refuse, Forward
    <3>. QED  BY <1>0, <1>1, <2>2, <2>3, <2>4, <2>6, <3>2 DEF PositionInv, Discardable
  <2>7. CASE phase' = "forward"
    <3>1. consumed' = FirstPart(dataLen - requestLen)
      BY <1>3, <2>7 DEF Refuse, Forward
    <3>2. contentLen >= 0 => /\ consumed' \in {dataLen - requestLen, contentLen}
                             /\ consumed' <= dataLen - requestLen /\ consumed' <= contentLen
      <4>1. dataLen - requestLen \in 0..dataLen
        BY <1>0, <2>5
      <4>2. contentLen >= 0 => contentLen >= -(IntMax + 1)
        BY <1>0, WidthAssumption
      <4>. QED  BY <1>0, <3>1, <4>1, <4>2, FirstPartType
    <3>3. contentLen >= 0 => Consumed'
      BY <1>0, <1>1, <2>1, <2>5, <3>1, <3>2 DEF Consumed
    <3>. QED  BY <1>0, <1>1, <2>2, <2>3, <2>4, <2>7, <3>3 DEF PositionInv
  <2>. QED  BY <1>3, <2>6, <2>7 DEF Refuse, Forward
<1>4. CASE ForwardMore
  <2>1. PICK n \in Pulled(contentLen - consumed) : consumed' = consumed + n /\ got' = got + n
    BY <1>4 DEF ForwardMore
  <2>2. /\ phase = "forward" /\ consumed < contentLen /\ UNCHANGED <<phase, handled, status>>
        /\ At(Len(handled)) /\ (contentLen >= 0 => Consumed)
    BY <1>4 DEF ForwardMore, PositionInv
  <2>3. n \in Nat \ {0}
    BY <1>0, <2>1, PulledType
  <2>4. contentLen >= 0 => Consumed'
    BY <1>0, <1>1, <2>1, <2>2, <2>3 DEF Consumed
  <2>5. At(Len(handled))'
    BY <1>1, <2>2 DEF At
  <2>. QED  BY <1>1, <1>2, <2>2, <2>4, <2>5 DEF PositionInv
<1>5. CASE ForwardEnds
  <2>1. /\ phase' = "answered" /\ UNCHANGED <<got, handled, consumed>>
        /\ At(Len(handled)) /\ (contentLen >= 0 => Consumed /\ consumed \in 0..contentLen)
        /\ consumed >= contentLen \/ PullsNothing
    BY <1>0, <1>5 DEF ForwardEnds, PositionInv, LengthsInv
  <2>2. At(Len(handled))'
    BY <1>1, <2>1 DEF At
  <2>3. Discardable'
    <3>1. CASE contentLen < 0
      BY <1>1, <3>1 DEF Discardable
    <3>2. CASE contentLen >= 0 /\ consumed = contentLen
      BY <1>0, <1>1, <2>1, <3>2 DEF Consumed, Discardable
    <3>3. CASE contentLen >= 0 /\ consumed < contentLen
      <4>1. PullsNothing
        BY <1>0, <2>1, <3>3
      <4>2. Available = 0 => got = sent
        BY <1>0 DEF Available
      <4>3. stopFlag \/ Silent
        BY <4>1, <4>2 DEF PullsNothing, ReadsBodies, Silent
      <4>4. ~(requestLen + contentLen <= dataLen)
        BY <1>0, <2>1, <3>3 DEF Consumed
      <4>. QED  BY <1>0, <1>1, <2>1, <4>3, <4>4 DEF Discardable, Silent
    <3>. QED  BY <1>0, <2>1, <3>1, <3>2, <3>3
  <2>. QED  BY <1>1, <1>2, <2>1, <2>2, <2>3 DEF PositionInv
<1>6. CASE Callback \/ ForwardFails
  BY <1>6 DEF Callback, ForwardFails, ReadsBodies
<1>. QED  BY <1>3, <1>4, <1>5, <1>6

\* What is discarded is the request and its body, so the buffer begins with the next.
LEMMA FinishStep ==
  ASSUME Lengths, PositionInv, Finish
  PROVE  PositionInv'
<1>0. /\ script \in Seq(Requested) /\ Len(script) \in Nat /\ DOMAIN script = 1..Len(script)
      /\ base \in Nat /\ dataLen \in Nat /\ got \in Nat /\ sent \in Nat /\ got <= sent
      /\ Len(handled) \in Nat /\ Types
      /\ requestLen \in Int /\ contentLen \in Int /\ LengthsInv
  BY StreamTypes
<1>1. /\ UNCHANGED <<script, eof, sent, setting, stopFlag, got, requestLen, contentLen, status,
                    infoKeeps, handled>>
      /\ \E len \in DiscardLens : /\ base' = IF dataLen = len THEN got ELSE base + len
                                 /\ dataLen' = dataLen - len
      /\ phase \in {"answered", "failed"} /\ phase' \in {"getreq", "close"}
      /\ phase' = "getreq" => ~stopFlag /\ contentLen >= 0 /\ (phase = "answered" => status # 401)
  BY ZenonT(60) DEF Finish, clientVars, stopVars, infoVars, ShouldKeepAlive
<1>2. ReadsBodies' = ReadsBodies /\ (\A i : Start(i)' = Start(i))
  BY <1>1, SameReading
<1>. SUFFICES ASSUME ReadsBodies  PROVE PositionInv'
  BY <1>2 DEF PositionInv
<1>3. Len(handled) <= Len(script) /\ \A k \in 1..Len(handled) : handled[k] = k
  BY DEF PositionInv
<1>4. CASE phase' = "close"
  BY <1>1, <1>3, <1>4 DEF PositionInv
<1>5. CASE phase' = "getreq" /\ phase = "failed"
  <2>1. requestLen <= 0 /\ Silent
    BY <1>1, <1>5 DEF PositionInv
  <2>2. DiscardLens = {dataLen}
    BY <1>0, <2>1 DEF DiscardLens
  <2>3. base' = got' /\ dataLen' = 0 /\ Silent'
    BY <1>0, <1>1, <2>1, <2>2 DEF Silent
  <2>4. AtNext'
    BY <1>0, <1>1, <2>3 DEF AtNext
  <2>. QED  BY <1>1, <1>3, <1>5, <2>4 DEF PositionInv
<1>6. CASE phase' = "getreq" /\ phase = "answered"
  <2>. DEFINE n == Len(handled)
  <2>1. At(n) /\ Discardable /\ ~stopFlag /\ contentLen >= 0 /\ status # 401
    BY <1>1, <1>6 DEF PositionInv
  <2>2. /\ n \in 1..Len(script) /\ script[n] \in Requested /\ Start(n + 1) = base + Size(script[n])
    BY <1>0, <2>1, HeadsInStream DEF At
  <2>3. /\ requestLen > 0 /\ Size(script[n]) = requestLen + contentLen
        /\ requestLen + contentLen <= LongMax
    <3>1. script[n].head > 0 /\ Size(script[n]) = script[n].head + script[n].body
      BY <2>1, <2>2, SizeType DEF At, Requested
    <3>2. script[n].head + script[n].body <= LongMax
      BY <1>0, <2>2 DEF ReadsBodies
    <3>. QED  BY <2>1, <3>1, <3>2 DEF At
  <2>4. CASE requestLen + contentLen < dataLen
    <3>1. DiscardLens = {requestLen + contentLen}
      BY <1>0, <2>1, <2>3, <2>4, DiscardsRequest
    <3>2. got = base + dataLen
      BY <1>0, <2>1, <2>4 DEF Discardable
    <3>3. base' = Start(n + 1) /\ got' = base' + dataLen'
      BY <1>0, <1>1, <2>2, <2>3, <2>4, <3>1, <3>2
    <3>4. AtNext'
      BY <1>1, <1>2, <3>3 DEF AtNext
    <3>. QED  BY <1>1, <1>3, <1>6, <3>4 DEF PositionInv
  <2>5. CASE ~(requestLen + contentLen < dataLen)
    <3>1. DiscardLens = {dataLen}
      BY <1>0, <2>1, <2>3, <2>5, DiscardsRequest
    <3>2. base' = got' /\ dataLen' = 0
      BY <1>0, <1>1, <3>1
    <3>3. got = base + requestLen + contentLen \/ Silent
      BY <1>0, <2>1, <2>5 DEF Discardable
    <3>4. base' = Start(n + 1) \/ Silent'
      BY <1>0, <1>1, <2>2, <2>3, <3>2, <3>3 DEF Silent
    <3>5. AtNext'
      BY <1>0, <1>1, <1>2, <3>2, <3>4 DEF AtNext
    <3>. QED  BY <1>1, <1>3, <1>6, <3>5 DEF PositionInv
  <2>. QED  BY <2>4, <2>5
<1>. QED  BY <1>1, <1>4, <1>5, <1>6

\* The parts together are inductive.
LEMMA IInvHolds == Spec => []IInv
<1>1. Init => IInv
  BY LengthsInit, PositionInit DEF IInv, Lengths
<1>2. IInv /\ [Next]_vars => IInv'
  <2>. SUFFICES ASSUME IInv, [Next]_vars  PROVE IInv'
    OBVIOUS
  <2>1. Lengths /\ PositionInv
    BY DEF IInv, Lengths
  <2>2. Lengths'
    BY <2>1, LengthsStep
  <2>3. PositionInv'
    <3>1. CASE UNCHANGED vars
      BY <2>1, <3>1
      DEF vars, clientVars, stopVars, infoVars, lenVars, PositionInv, ReadsBodies, Setting, AtNext,
          At, Consumed, Discardable, Silent, Start
    <3>. QED
      BY <2>1, <3>1, ClientSteps, ReadingSteps, HandlerSteps, FinishStep DEF Next, ServerStep
  <2>. QED  BY <2>2, <2>3 DEF IInv, Lengths
<1>. QED  BY <1>1, <1>2, PTL DEF Spec

\* The lengths that getreq, forward_body_data and process_new_connection assert, with
\* the types, and that the user is that of the request.
THEOREM LengthsStayInBounds == Spec => []ConnectionInv
<1>1. IInv => ConnectionInv
  <2>. SUFFICES ASSUME IInv  PROVE ConnectionInv
    OBVIOUS
  <2>1. TypeOK /\ UserIsCurrent /\ LengthsInv /\ requestLen \in Int /\ Types /\ dataLen \in Nat
    BY LengthTypes DEF IInv, Types
  <2>2. phase \notin {"idle", "getreq", "close"} => requestLen <= dataLen
    BY <2>1 DEF LengthsInv, TypeOK
  <2>3. phase \notin {"idle", "getreq", "close"} => DiscardLens \subseteq 0..dataLen
    BY <2>1, <2>2, DiscardType
  <2>4. LengthsAgree
    BY <2>1, <2>2, <2>3 DEF LengthsAgree, LengthsInv
  <2>. QED  BY <2>1, <2>4 DEF ConnectionInv
<1>. QED  BY <1>1, IInvHolds, PTL

\* Whatever is sent, cut into whatever parts, and however often the buffer is filled and
\* moved: a request is handled when its first byte is the buffer's, the first before the
\* second, and none is made of what was left of another, if bodies are read (ReadsBodies).
THEOREM RequestsStayInStep == Spec => []InStep
<1>1. IInv => InStep
  <2>. SUFFICES ASSUME IInv, ReadsBodies
                PROVE  /\ \A k \in DOMAIN handled : handled[k] = k
                       /\ phase = "failed" /\ requestLen > 0 => info # -1
    BY DEF InStep
  <2>1. handled \in Seq(Nat) /\ DOMAIN handled = 1..Len(handled) /\ requestLen \in Int
    BY DEF IInv, Types, TypeOK
  <2>2. \A k \in 1..Len(handled) : handled[k] = k
    BY DEF IInv, PositionInv
  <2>3. phase = "failed" => requestLen <= 0
    BY DEF IInv, PositionInv
  <2>. QED  BY <2>1, <2>2, <2>3
<1>. QED  BY <1>1, IInvHolds, PTL

-----------------------------------------------------------------------------
(* url_decode. *)

\* The result of the decoding is text, and no more is read than there is.
DecodeStates(S, s) == [text : Seq(S), read : 0..Len(s)]

LEMMA RoundTyped ==
  ASSUME NEW S, {"/", ".", "x", "sp"} \subseteq S, NEW s \in Seq(S), NEW form,
         NEW b \in DecodeStates(S, s)
  PROVE  DecodeRound(s, form, b) \in DecodeStates(S, s)
<1>. DEFINE i == b.read + 1
            L == Len(s)
<1>1. b.text \in Seq(S) /\ b.read \in 0..L /\ L \in Nat
  BY DEF DecodeStates
<1>2. CASE b.read = L
  BY <1>2 DEF DecodeRound
<1>3. CASE b.read # L
  <2>1. i \in 1..L /\ s[i] \in S
    BY <1>1, <1>3, ElementOfSeq
  <2>2. ASSUME NEW c \in S, NEW r \in 0..L
        PROVE  [text |-> Append(b.text, c), read |-> r] \in DecodeStates(S, s)
    <3>1. Append(b.text, c) \in Seq(S)
      BY <1>1, AppendProperties
    <3>. QED  BY <3>1 DEF DecodeStates
  <2>3. CASE s[i] = "%" /\ i + 2 <= L /\ <<s[i + 1], s[i + 2]>> \in Codes
    <3>1. b.read + 3 \in 0..L /\ Escaped(<<s[i + 1], s[i + 2]>>) \in S
      BY <1>1, <2>3 DEF Escaped
    <3>2. DecodeRound(s, form, b)
            = [text |-> Append(b.text, Escaped(<<s[i + 1], s[i + 2]>>)), read |-> b.read + 3]
      BY <1>3, <2>3 DEF DecodeRound
    <3>. QED  BY <2>2, <3>1, <3>2
  <2>4. CASE ~(s[i] = "%" /\ i + 2 <= L /\ <<s[i + 1], s[i + 2]>> \in Codes)
    <3>1. b.read + 1 \in 0..L /\ (IF form /\ s[i] = "+" THEN "sp" ELSE s[i]) \in S
      BY <1>1, <2>1
    <3>2. DecodeRound(s, form, b)
            = [text |-> Append(b.text, IF form /\ s[i] = "+" THEN "sp" ELSE s[i]), read |-> b.read + 1]
      BY <1>3, <2>4 DEF DecodeRound
    <3>. QED  BY <2>2, <3>1, <3>2
  <2>. QED  BY <2>3, <2>4
<1>. QED  BY <1>2, <1>3

\* The loop goes round by round.
LEMMA DecodedIs ==
  ASSUME NEW S, {"/", ".", "x", "sp"} \subseteq S, NEW s \in Seq(S), NEW form
  PROVE  /\ Decoded(s, form) \in [Nat -> DecodeStates(S, s)]
         /\ Decoded(s, form)[0] = [text |-> <<>>, read |-> 0]
         /\ \A n \in Nat : Decoded(s, form)[n + 1] = DecodeRound(s, form, Decoded(s, form)[n])
<1>. DEFINE D == DecodeStates(S, s)
            start == [text |-> <<>>, read |-> 0]
            R(b) == DecodeRound(s, form, b)
            G == [n \in Nat |-> [f \in [Nat -> D] |-> IF n = 0 THEN start ELSE R(f[n - 1])]]
            w == CHOOSE f : f = [n \in Nat |-> IF n = 0 THEN start ELSE R(f[n - 1])]
<1>1. start \in D /\ \A b \in D : R(b) \in D
  BY RoundTyped DEF DecodeStates
<1>2. Decoded(s, form) = w
  BY DEF Decoded
<1>. HIDE DEF D, R, start
<1>3. Recursion(D, G)
  <2>1. \A n \in Nat : \A f \in [Nat -> D] : (IF n = 0 THEN start ELSE R(f[n - 1])) \in D
    <3>1. \A n \in Nat : n # 0 => n - 1 \in Nat
      OBVIOUS
    <3>. QED  BY <1>1, <3>1
  <2>2. \A n \in Nat : \A f \in [Nat -> D] : G[n][f] = IF n = 0 THEN start ELSE R(f[n - 1])
    OBVIOUS
  <2>3. G \in [Nat -> [[Nat -> D] -> D]]
    BY <2>1
  <2>. HIDE DEF G
  <2>4. ASSUME NEW n \in Nat, NEW f \in [Nat -> D], NEW g \in [Nat -> D],
               \A k \in 0..(n - 1) : f[k] = g[k]
        PROVE  G[n][f] = G[n][g]
    <3>1. n # 0 => n - 1 \in 0..(n - 1)
      OBVIOUS
    <3>2. n # 0 => f[n - 1] = g[n - 1]
      BY <2>4, <3>1
    <3>. QED  BY <2>2, <3>2
  <2>. QED  BY <2>3, <2>4 DEF Recursion
<1>4. PICK f : Solution(D, G, f)
  <2>. HIDE DEF G
  <2>. QED  BY <1>1, <1>3, RecursionExists
<1>5. f = [n \in Nat |-> IF n = 0 THEN start ELSE R(f[n - 1])]
  <2>1. f \in [Nat -> D] /\ \A n \in Nat : f[n] = IF n = 0 THEN start ELSE R(f[n - 1])
    BY <1>4 DEF Solution
  <2>. QED  BY <2>1
<1>6. w = [n \in Nat |-> IF n = 0 THEN start ELSE R(w[n - 1])]
  <2>1. \E g : g = [n \in Nat |-> IF n = 0 THEN start ELSE R(g[n - 1])]
    BY <1>5
  <2>. QED  BY <2>1, Zenon
<1>. HIDE DEF w
<1>7. w[0] = start /\ \A n \in Nat : w[n + 1] = R(w[n])
  <2>1. \A n \in Nat : w[n] = IF n = 0 THEN start ELSE R(w[n - 1])
    BY <1>6
  <2>2. \A n \in Nat : n + 1 \in Nat /\ n + 1 # 0 /\ (n + 1) - 1 = n
    OBVIOUS
  <2>3. 0 \in Nat
    OBVIOUS
  <2>. QED  BY <2>1, <2>2, <2>3, Zenon
<1>8. \A n \in Nat : w[n] \in D
  <2>. DEFINE U == {n \in Nat : w[n] \in D}
  <2>1. 0 \in U
    BY <1>1, <1>7
  <2>2. ASSUME NEW n \in Nat, n \in U  PROVE n + 1 \in U
    <3>1. n + 1 \in Nat /\ w[n] \in D
      BY <2>2
    <3>. HIDE DEF U
    <3>2. w[n + 1] \in D
      BY <1>1, <1>7, <3>1
    <3>. QED  BY <3>1, <3>2 DEF U
  <2>. HIDE DEF U
  <2>3. \A n \in Nat : n \in U
    BY <2>1, <2>2, SetInduction
  <2>. QED  BY <2>3 DEF U
<1>9. w \in [Nat -> D]
  BY <1>6, <1>8
<1>. QED  BY <1>2, <1>7, <1>9 DEF D, R, start

\* What a text is decoded to is a text.
LEMMA DecodesToText ==
  ASSUME NEW S, {"/", ".", "x", "sp"} \subseteq S, NEW s \in Seq(S)
  PROVE  UrlDecode(s) \in Seq(S)
<1>1. (Len(s) + 1) - 1 \in Nat
  BY LenProperties
<1>2. Decoded(s, FALSE)[(Len(s) + 1) - 1] \in DecodeStates(S, s)
  BY <1>1, DecodedIs
<1>. QED  BY <1>2 DEF UrlDecode, UrlDecodeTo, DecodeStates

-----------------------------------------------------------------------------
(* remove_double_dots_and_double_slashes. *)

\* One place of the recursive definition of SkipDots.
SkipAt(s, skip, i) ==
  IF i <= Len(s) /\ s[i] \in Slashes THEN skip[i + 1]
  ELSE IF IsDots(s, i) THEN skip[i + 2] ELSE i

LEMMA SkipIs ==
  ASSUME NEW S, NEW s \in Seq(S)
  PROVE  /\ SkipDots(s) \in [1..(Len(s) + 1) -> 1..(Len(s) + 1)]
         /\ \A i \in 1..(Len(s) + 1) : SkipDots(s)[i] = SkipAt(s, SkipDots(s), i)
<1>. DEFINE L == Len(s)
            D == 1..(L + 1)
            G == [i \in D |-> [f \in [D -> D] |-> SkipAt(s, f, i)]]
            w == CHOOSE f : f = [i \in 1..(Len(s) + 1) |->
                   IF i <= Len(s) /\ s[i] \in Slashes THEN f[i + 1]
                   ELSE IF IsDots(s, i) THEN f[i + 2] ELSE i]
<1>1. L \in Nat /\ D # {}
  <2>1. L \in Nat
    BY LenProperties
  <2>2. 1 \in D
    BY <2>1
  <2>. QED  BY <2>1, <2>2
<1>2. \A i \in D : (i <= L => i + 1 \in D) /\ (IsDots(s, i) => i + 2 \in D)
  BY <1>1 DEF IsDots
<1>3. SkipDots(s) = w
  BY DEF SkipDots
<1>4. RecursionDown(D, L, G)
  <2>1. \A i \in D : \A f \in [D -> D] : SkipAt(s, f, i) \in D
    BY <1>2 DEF SkipAt
  <2>2. \A i \in D : \A f \in [D -> D] : G[i][f] = SkipAt(s, f, i)
    OBVIOUS
  <2>3. G \in [D -> [[D -> D] -> D]]
    BY <2>1
  <2>. HIDE DEF G
  <2>4. ASSUME NEW i \in D, NEW f \in [D -> D], NEW g \in [D -> D],
               \A k \in (i + 1)..(L + 1) : f[k] = g[k]
        PROVE  G[i][f] = G[i][g]
    <3>1. (i <= L => i + 1 \in (i + 1)..(L + 1)) /\ (IsDots(s, i) => i + 2 \in (i + 1)..(L + 1))
      BY <1>1 DEF IsDots
    <3>2. SkipAt(s, f, i) = SkipAt(s, g, i)
      <4>1. (i <= L => f[i + 1] = g[i + 1]) /\ (IsDots(s, i) => f[i + 2] = g[i + 2])
        BY <2>4, <3>1
      <4>. QED  BY <4>1, Zenon DEF SkipAt
    <3>. QED  BY <2>2, <3>2
  <2>. QED  BY <2>3, <2>4 DEF RecursionDown
<1>5. PICK f : SolutionDown(D, L, G, f)
  <2>. HIDE DEF G, D, L
  <2>. QED  BY <1>1, <1>4, RecursionDownExists
<1>6. \E g : g = [i \in 1..(Len(s) + 1) |-> IF i <= Len(s) /\ s[i] \in Slashes THEN g[i + 1]
                   ELSE IF IsDots(s, i) THEN g[i + 2] ELSE i]
  <2>1. f \in [D -> D] /\ \A i \in D : f[i] = SkipAt(s, f, i)
    BY <1>5 DEF SolutionDown
  <2>. HIDE DEF G, w
  <2>2. f = [i \in D |-> SkipAt(s, f, i)]
    BY <2>1
  <2>. QED  BY <2>2, Zenon DEF SkipAt
<1>7. w = [i \in D |-> SkipAt(s, w, i)]
  <2>1. w = [i \in 1..(Len(s) + 1) |-> IF i <= Len(s) /\ s[i] \in Slashes THEN w[i + 1]
                   ELSE IF IsDots(s, i) THEN w[i + 2] ELSE i]
    BY <1>6, Zenon
  <2>. HIDE DEF w
  <2>. QED  BY <2>1 DEF SkipAt
<1>. HIDE DEF w, G
<1>8. \A i \in D : w[i] = SkipAt(s, w, i)
  <2>. DEFINE g == [i \in D |-> SkipAt(s, w, i)]
  <2>1. \A i \in D : g[i] = SkipAt(s, w, i)
    OBVIOUS
  <2>. QED  BY <1>7, <2>1, Zenon
<1>9. \A i \in D : w[i] \in D
  <2>. DEFINE U == {i \in D : w[i] \in D}
  <2>1. ASSUME NEW i \in D, \A k \in (i + 1)..(L + 1) : k \in U  PROVE i \in U
    <3>1. (i <= L => i + 1 \in (i + 1)..(L + 1)) /\ (IsDots(s, i) => i + 2 \in (i + 1)..(L + 1))
      BY <1>1 DEF IsDots
    <3>2. (i <= L => w[i + 1] \in D) /\ (IsDots(s, i) => w[i + 2] \in D)
      BY <2>1, <3>1
    <3>3. SkipAt(s, w, i) \in D
      BY <3>2 DEF SkipAt
    <3>. QED  BY <1>8, <3>3
  <2>. HIDE DEF U
  <2>2. \A i \in D : i \in U
    BY <1>1, <2>1, DownInduction
  <2>. QED  BY <2>2 DEF U
<1>. QED  BY <1>3, <1>7, <1>8, <1>9

\* The inner loop goes on until there is neither a slash nor two dots.
LEMMA SkipStops ==
  ASSUME NEW S, NEW s \in Seq(S), NEW i \in 1..(Len(s) + 1)
  PROVE  /\ SkipDots(s)[i] \in i..(Len(s) + 1)
         /\ SkipDots(s)[i] <= Len(s) => s[SkipDots(s)[i]] \notin Slashes
         /\ ~IsDots(s, SkipDots(s)[i])
<1>. DEFINE L == Len(s)
            w == SkipDots(s)
            Stops(k) == (k <= L => s[k] \notin Slashes) /\ ~IsDots(s, k)
            U == {k \in 1..(L + 1) : w[k] \in k..(L + 1) /\ Stops(w[k])}
<1>1. L \in Nat
  BY LenProperties
<1>2. \A k \in 1..(L + 1) : w[k] = SkipAt(s, w, k)
  BY SkipIs
<1>3. ASSUME NEW k \in 1..(L + 1), \A m \in (k + 1)..(L + 1) : m \in U  PROVE k \in U
  <2>. HIDE DEF w, Stops
  <2>1. CASE k <= L /\ s[k] \in Slashes
    <3>1. k + 1 \in (k + 1)..(L + 1) /\ w[k] = w[k + 1]
      BY <1>1, <1>2, <2>1 DEF SkipAt
    <3>2. w[k + 1] \in (k + 1)..(L + 1) /\ Stops(w[k + 1])
      BY <1>3, <3>1
    <3>3. w[k] \in k..(L + 1)
      BY <1>1, <3>1, <3>2
    <3>. QED  BY <3>1, <3>2, <3>3
  <2>2. CASE ~(k <= L /\ s[k] \in Slashes) /\ IsDots(s, k)
    <3>1. k + 2 \in (k + 1)..(L + 1) /\ w[k] = w[k + 2]
      BY <1>1, <1>2, <2>2 DEF SkipAt, IsDots
    <3>2. w[k + 2] \in (k + 2)..(L + 1) /\ Stops(w[k + 2])
      BY <1>3, <3>1
    <3>3. w[k] \in k..(L + 1)
      BY <1>1, <3>1, <3>2
    <3>. QED  BY <3>1, <3>2, <3>3
  <2>3. CASE ~(k <= L /\ s[k] \in Slashes) /\ ~IsDots(s, k)
    <3>1. w[k] = k
      BY <1>2, <2>3 DEF SkipAt
    <3>2. Stops(k) /\ k \in k..(L + 1)
      BY <1>1, <2>3 DEF Stops
    <3>. QED  BY <3>1, <3>2
  <2>. QED  BY <2>1, <2>2, <2>3
<1>. HIDE DEF U
<1>4. \A k \in 1..(L + 1) : k \in U
  <2>. HIDE DEF L
  <2>. QED  BY <1>1, <1>3, DownInduction
<1>. QED  BY <1>4 DEF U

\* Where the outer loop goes on.
LeftNext(s, i) == IF s[i] \in Slashes THEN SkipDots(s)[i + 1] ELSE i + 1
LeftAt(s, left, i) == IF i > Len(s) THEN <<>> ELSE <<s[i]>> \o left[LeftNext(s, i)]

LEMMA LeftIs ==
  ASSUME NEW S, NEW s \in Seq(S)
  PROVE  \E left \in [1..(Len(s) + 1) -> Seq(S)] :
           /\ RemoveDots(s) = left[1]
           /\ \A i \in 1..(Len(s) + 1) : left[i] = LeftAt(s, left, i)
<1>. DEFINE L == Len(s)
            P == 1..(L + 1)
            D == Seq(S)
            G == [i \in P |-> [f \in [P -> D] |-> LeftAt(s, f, i)]]
            w == CHOOSE f : f = [i \in 1..(Len(s) + 1) |->
                   IF i > Len(s) THEN <<>>
                   ELSE <<s[i]>> \o f[IF s[i] \in Slashes THEN SkipDots(s)[i + 1] ELSE i + 1]]
<1>1. L \in Nat /\ D # {}
  BY LenProperties
<1>2. \A i \in P : i <= L => LeftNext(s, i) \in (i + 1)..(L + 1) /\ LeftNext(s, i) \in P
  <2>. SUFFICES ASSUME NEW i \in P, i <= L
                PROVE  LeftNext(s, i) \in (i + 1)..(L + 1)
    BY <1>1
  <2>1. i + 1 \in P
    BY <1>1
  <2>2. SkipDots(s)[i + 1] \in (i + 1)..(L + 1)
    BY <2>1, SkipStops
  <2>. QED  BY <1>1, <2>2 DEF LeftNext
<1>3. RemoveDots(s) = w[1]
  BY DEF RemoveDots
<1>4. \A i \in P : \A f : (i <= L => f[LeftNext(s, i)] \in D) => LeftAt(s, f, i) \in D
  <2>. SUFFICES ASSUME NEW i \in P, NEW f, i <= L => f[LeftNext(s, i)] \in D
                PROVE  LeftAt(s, f, i) \in D
    OBVIOUS
  <2>1. CASE i <= L
    <3>1. <<s[i]>> \in Seq(S)
      BY <1>1, <2>1, ElementOfSeq
    <3>2. LeftAt(s, f, i) = <<s[i]>> \o f[LeftNext(s, i)]
      BY <1>1, <2>1 DEF LeftAt
    <3>. QED  BY <2>1, <3>1, <3>2, ConcatProperties
  <2>2. CASE i > L
    BY <2>2 DEF LeftAt
  <2>. QED  BY <1>1, <2>1, <2>2
<1>5. RecursionDown(D, L, G)
  <2>1. \A i \in P : \A f \in [P -> D] : LeftAt(s, f, i) \in D
    BY <1>2, <1>4
  <2>2. \A i \in P : \A f \in [P -> D] : G[i][f] = LeftAt(s, f, i)
    OBVIOUS
  <2>3. G \in [P -> [[P -> D] -> D]]
    <3>. HIDE DEF D
    <3>. QED  BY <2>1
  <2>. HIDE DEF G
  <2>4. ASSUME NEW i \in P, NEW f \in [P -> D], NEW g \in [P -> D],
               \A k \in (i + 1)..(L + 1) : f[k] = g[k]
        PROVE  G[i][f] = G[i][g]
    <3>1. i <= L => f[LeftNext(s, i)] = g[LeftNext(s, i)]
      BY <1>2, <2>4
    <3>2. i > L \/ i <= L
      BY <1>1
    <3>3. LeftAt(s, f, i) = LeftAt(s, g, i)
      BY <3>1, <3>2, Zenon DEF LeftAt
    <3>. QED  BY <2>2, <3>3
  <2>. HIDE DEF D
  <2>. QED  BY <2>3, <2>4 DEF RecursionDown
<1>6. PICK f : SolutionDown(D, L, G, f)
  <2>. HIDE DEF G, D, L
  <2>. QED  BY <1>1, <1>5, RecursionDownExists
<1>7. \E g : g = [i \in 1..(Len(s) + 1) |-> IF i > Len(s) THEN <<>>
                   ELSE <<s[i]>> \o g[IF s[i] \in Slashes THEN SkipDots(s)[i + 1] ELSE i + 1]]
  <2>1. f \in [P -> D] /\ \A i \in P : f[i] = LeftAt(s, f, i)
    BY <1>6 DEF SolutionDown
  <2>. HIDE DEF G, w
  <2>2. f = [i \in P |-> LeftAt(s, f, i)]
    BY <2>1
  <2>. QED  BY <2>2, Zenon DEF LeftAt, LeftNext
<1>8. w = [i \in P |-> LeftAt(s, w, i)]
  <2>1. w = [i \in 1..(Len(s) + 1) |-> IF i > Len(s) THEN <<>>
                   ELSE <<s[i]>> \o w[IF s[i] \in Slashes THEN SkipDots(s)[i + 1] ELSE i + 1]]
    BY <1>7, Zenon
  <2>. HIDE DEF w
  <2>. QED  BY <2>1 DEF LeftAt, LeftNext
<1>. HIDE DEF w, G, D
<1>9. \A i \in P : w[i] = LeftAt(s, w, i)
  <2>. DEFINE g == [i \in P |-> LeftAt(s, w, i)]
  <2>1. \A i \in P : g[i] = LeftAt(s, w, i)
    OBVIOUS
  <2>. QED  BY <1>8, <2>1, Zenon
<1>10. \A i \in P : w[i] \in D
  <2>. DEFINE U == {i \in P : w[i] \in D}
  <2>1. ASSUME NEW i \in P, \A k \in (i + 1)..(L + 1) : k \in U  PROVE i \in U
    <3>1. i <= L => w[LeftNext(s, i)] \in D
      BY <1>2, <2>1
    <3>. QED  BY <1>4, <1>9, <3>1
  <2>. HIDE DEF U
  <2>2. \A i \in P : i \in U
    BY <1>1, <2>1, DownInduction
  <2>. QED  BY <2>2 DEF U
<1>11. w \in [P -> D]
  BY <1>8, <1>9, <1>10
<1>. QED  BY <1>3, <1>9, <1>11 DEF D

\* What NoDoubleDots says of a path.
Clean(r) == \A j \in 1..(Len(r) - 1) :
              r[j] \in Slashes => /\ r[j + 1] \notin Slashes
                                  /\ ~(j + 2 <= Len(r) /\ r[j + 1] = "." /\ r[j + 2] = ".")

\* A character in front of a sequence.
LEMMA InFront ==
  ASSUME NEW S, NEW c \in S, NEW r \in Seq(S), NEW x, x = <<c>> \o r
  PROVE  Len(x) = 1 + Len(r) /\ x[1] = c /\ \A j \in 1..Len(r) : x[j + 1] = r[j]
<1>1. <<c>> \in Seq(S) /\ Len(<<c>>) = 1 /\ <<c>>[1] = c
  OBVIOUS
<1>2. Len(r) \in Nat
  BY LenProperties
<1>3. Len(x) = 1 + Len(r)
  BY <1>1, ConcatProperties
<1>4. \A j \in 1..(1 + Len(r)) : x[j] = IF j <= 1 THEN <<c>>[j] ELSE r[j - 1]
  BY <1>1, ConcatProperties
<1>5. \A j \in 1..Len(r) : x[j + 1] = r[j]
  <2>1. \A j \in 1..Len(r) : j + 1 \in 1..(1 + Len(r)) /\ ~(j + 1 <= 1) /\ (j + 1) - 1 = j
    BY <1>2
  <2>. QED  BY <1>4, <2>1
<1>6. x[1] = c
  BY <1>1, <1>2, <1>4
<1>. QED  BY <1>3, <1>5, <1>6

\* Whatever is removed, what is put together by it has neither.
LEMMA RemovesAll ==
  ASSUME NEW S, NEW s \in Seq(S)
  PROVE  Clean(RemoveDots(s))
<1>. DEFINE L == Len(s)
            P == 1..(L + 1)
<1>1. L \in Nat /\ \A i \in 1..L : s[i] \in S
  BY LenProperties, ElementOfSeq
<1>2. PICK w \in [P -> Seq(S)] : RemoveDots(s) = w[1] /\ \A i \in P : w[i] = LeftAt(s, w, i)
  BY LeftIs
<1>. DEFINE Begins(i, r) == /\ (i <= L <=> Len(r) > 0)
                            /\ i <= L => /\ r[1] = s[i]
                                         /\ s[i] \notin Slashes => (i < L <=> Len(r) > 1)
                                         /\ s[i] \notin Slashes /\ i < L => r[2] = s[i + 1]
            U == {i \in P : Clean(w[i]) /\ Begins(i, w[i])}
<1>3. ASSUME NEW i \in P, \A k \in (i + 1)..(L + 1) : k \in U  PROVE i \in U
  <2>1. CASE i > L
    <3>1. w[i] = <<>>
      BY <1>2, <2>1 DEF LeftAt
    <3>2. Clean(w[i])
      BY <3>1 DEF Clean
    <3>3. Begins(i, w[i])
      BY <1>1, <2>1, <3>1
    <3>. QED  BY <3>2, <3>3
  <2>2. CASE i <= L
    <3>. DEFINE k == LeftNext(s, i)
                r == w[k]
                x == w[i]
    <3>1. k \in (i + 1)..(L + 1) /\ k \in P
      <4>1. i + 1 \in P
        BY <1>1, <2>2
      <4>2. SkipDots(s)[i + 1] \in (i + 1)..(L + 1)
        BY <4>1, SkipStops
      <4>. QED  BY <1>1, <2>2, <4>2 DEF LeftNext
    <3>2. k \in U
      BY <1>3, <3>1
    <3>3. Clean(r) /\ Begins(k, r)
      BY <3>2
    <3>4. r \in Seq(S) /\ Len(r) \in Nat /\ s[i] \in S
      BY <1>1, <2>2, <3>1, LenProperties
    <3>5. x = <<s[i]>> \o r
      BY <1>1, <1>2, <2>2 DEF LeftAt
    <3>6. Len(x) = 1 + Len(r) /\ x[1] = s[i] /\ \A j \in 1..Len(r) : x[j + 1] = r[j]
      <4>. HIDE DEF r, x
      <4>. QED  BY <3>4, <3>5, InFront
    <3>7. s[i] \notin Slashes => k = i + 1
      BY DEF LeftNext
    <3>8. s[i] \in Slashes => (k <= L => s[k] \notin Slashes) /\ ~IsDots(s, k)
      <4>1. i + 1 \in P
        BY <1>1, <2>2
      <4>. QED  BY <4>1, SkipStops DEF LeftNext
    <3>. HIDE DEF k, r, x, U
    <3>9. Begins(i, x)
      <4>1. Len(x) > 0 /\ x[1] = s[i]
        BY <3>4, <3>6
      <4>2. ASSUME s[i] \notin Slashes  PROVE (i < L <=> Len(x) > 1) /\ (i < L => x[2] = s[i + 1])
        <5>1. k = i + 1 /\ (i < L <=> Len(r) > 0)
          BY <1>1, <2>2, <3>3, <3>7, <4>2
        <5>2. i < L => r[1] = s[i + 1] /\ x[1 + 1] = r[1]
          <6>. SUFFICES ASSUME i < L  PROVE r[1] = s[i + 1] /\ x[1 + 1] = r[1]
            OBVIOUS
          <6>1. 1 \in 1..Len(r)
            BY <3>4, <5>1
          <6>2. k <= L
            BY <1>1, <5>1
          <6>. QED  BY <3>3, <3>6, <5>1, <6>1, <6>2
        <5>. QED  BY <3>4, <3>6, <5>1, <5>2
      <4>. QED  BY <2>2, <4>1, <4>2
    <3>10. Clean(x)
      <4>. SUFFICES ASSUME NEW j \in 1..(Len(x) - 1), x[j] \in Slashes
                    PROVE  /\ x[j + 1] \notin Slashes
                           /\ ~(j + 2 <= Len(x) /\ x[j + 1] = "." /\ x[j + 2] = ".")
        BY DEF Clean
      <4>1. CASE j = 1
        <5>1. Len(r) > 0 /\ s[i] \in Slashes /\ 1 \in 1..Len(r)
          BY <3>4, <3>6, <4>1
        <5>2. k <= L /\ x[2] = r[1] /\ r[1] = s[k] /\ s[k] \notin Slashes /\ ~IsDots(s, k)
          <6>1. x[1 + 1] = r[1]
            BY <3>6, <5>1
          <6>. QED  BY <3>3, <3>8, <5>1, <6>1
        <5>3. ASSUME 3 <= Len(x)  PROVE x[3] = r[2] /\ k < L /\ r[2] = s[k + 1]
          <6>1. 2 \in 1..Len(r) /\ Len(r) > 1
            BY <3>4, <3>6, <5>3
          <6>2. x[2 + 1] = r[2]
            BY <3>6, <6>1
          <6>. QED  BY <3>3, <5>2, <6>1, <6>2
        <5>4. ~(3 <= Len(x) /\ x[2] = "." /\ x[3] = ".")
          BY <5>2, <5>3 DEF IsDots
        <5>. QED  BY <4>1, <5>2, <5>4
      <4>2. CASE j # 1
        <5>1. j - 1 \in 1..(Len(r) - 1) /\ (j - 1) + 1 = j /\ j \in 1..Len(r) /\ j - 1 \in 1..Len(r)
          BY <3>4, <3>6, <4>2
        <5>2. x[j] = r[j - 1] /\ x[j + 1] = r[j]
          BY <3>6, <5>1
        <5>3. /\ r[(j - 1) + 1] \notin Slashes
              /\ ~((j - 1) + 2 <= Len(r) /\ r[(j - 1) + 1] = "." /\ r[(j - 1) + 2] = ".")
          BY <3>3, <5>1, <5>2 DEF Clean
        <5>4. j + 2 <= Len(x) => j + 1 \in 1..Len(r) /\ (j - 1) + 2 <= Len(r) /\ (j - 1) + 2 = j + 1
          BY <3>4, <3>6, <5>1
        <5>5. j + 2 <= Len(x) => x[j + 2] = r[j + 1]
          <6>1. (j + 1) + 1 = j + 2
            OBVIOUS
          <6>. QED  BY <3>6, <5>4, <6>1
        <5>. QED  BY <5>1, <5>2, <5>3, <5>4, <5>5
      <4>. QED  BY <4>1, <4>2
    <3>. QED  BY <3>9, <3>10 DEF U, x
  <2>. QED  BY <1>1, <2>1, <2>2
<1>. HIDE DEF U
<1>4. \A i \in P : i \in U
  <2>. HIDE DEF L
  <2>. QED  BY <1>1, <1>3, DownInduction
<1>5. 1 \in P
  BY <1>1
<1>. QED  BY <1>2, <1>4, <1>5 DEF U

-----------------------------------------------------------------------------
(* The texts. *)

Characters == UNION {Inputs[f].chars : f \in DOMAIN Inputs}

TextTyped == asked \in DOMAIN Inputs /\ text \in Seq(Characters)

LEMMA TextTypedInit == TextInit => TextTyped
BY EmptySeq DEF TextInit, TextTyped

LEMMA TextTypedNext == TextTyped /\ [TextNext]_<<asked, text>> => TextTyped'
<1>. SUFFICES ASSUME TextTyped, [TextNext]_<<asked, text>>  PROVE TextTyped'
  OBVIOUS
<1>1. CASE TextNext
  <2>1. PICK c \in Inputs[asked].chars : text' = Append(text, c)
    BY <1>1 DEF TextNext
  <2>2. c \in Characters
    BY <2>1 DEF TextTyped, Characters
  <2>3. asked' = asked
    BY <1>1 DEF TextNext
  <2>. QED  BY <2>1, <2>2, <2>3, AppendProperties DEF TextTyped
<1>2. CASE UNCHANGED <<asked, text>>
  BY <1>2 DEF TextTyped
<1>. QED  BY <1>1, <1>2

\* No path that remove_double_dots_and_double_slashes hands on has a name that begins with
\* two dots or an empty name, whatever the URI.
THEOREM PathsHaveNoDots == TextSpec => []NoDoubleDots
<1>1. TextTyped => NoDoubleDots
  <2>. SUFFICES ASSUME TextTyped  PROVE NoDoubleDots
    OBVIOUS
  <2>. DEFINE S == Characters \cup {"/", ".", "x", "sp"}
  <2>1. text \in Seq(S)
    <3>1. text \in Seq(Characters)
      BY DEF TextTyped
    <3>2. Characters \subseteq S
      OBVIOUS
    <3>. HIDE DEF S
    <3>3. \A k \in 1..Len(text) : text[k] \in S
      BY <3>1, <3>2, ElementOfSeq
    <3>. QED  BY <3>1, <3>3, IsASeq, LenProperties
  <2>2. {"/", ".", "x", "sp"} \subseteq S
    OBVIOUS
  <2>. HIDE DEF S
  <2>3. UrlDecode(text) \in Seq(S)
    BY <2>1, <2>2, DecodesToText
  <2>4. Clean(Canonical(text))
    BY <2>3, RemovesAll DEF Canonical
  <2>. QED  BY <2>4 DEF NoDoubleDots, Clean
<1>. QED  BY <1>1, TextTypedInit, TextTypedNext, PTL DEF TextSpec

-----------------------------------------------------------------------------
(* The head of a request, variables and cookies. *)

\* A text up to a place, and from a place on.
LEMMA UptoIs ==
  ASSUME NEW S, NEW s \in Seq(S), NEW k \in 0..Len(s)
  PROVE  Upto(s, k) \in Seq(S) /\ Len(Upto(s, k)) = k /\ \A i \in 1..k : Upto(s, k)[i] = s[i]
<1>1. Len(s) \in Nat /\ k \in Int /\ 1 \in Int
  BY LenProperties
<1>2. \A i \in 1..k : s[i] \in S
  BY <1>1, ElementOfSeq
<1>3. /\ SubSeq(s, 1, k) \in Seq(S)
      /\ Len(SubSeq(s, 1, k)) = IF 1 <= k THEN k - 1 + 1 ELSE 0
      /\ \A i \in 1..(k - 1 + 1) : SubSeq(s, 1, k)[i] = s[1 + i - 1]
  BY <1>1, <1>2, SubSeqProperties
<1>4. k - 1 + 1 = k /\ \A i \in 1..k : 1 + i - 1 = i
  BY <1>1
<1>5. \A i \in 1..k : SubSeq(s, 1, k)[i] = s[i]
  BY <1>3, <1>4
<1>. QED  BY <1>1, <1>3, <1>4, <1>5 DEF Upto

LEMMA FromIs ==
  ASSUME NEW S, NEW s \in Seq(S), NEW i \in 1..(Len(s) + 1)
  PROVE  /\ From(s, i) \in Seq(S) /\ Len(From(s, i)) = Len(s) - i + 1
         /\ \A j \in 1..(Len(s) - i + 1) : From(s, i)[j] = s[i + j - 1]
<1>1. Len(s) \in Int /\ i \in Int /\ (Len(s) + 1 = i => Len(s) - i + 1 = 0)
  BY LenProperties
<1>2. \A j \in i..Len(s) : s[j] \in S
  BY <1>1, ElementOfSeq
<1>3. /\ SubSeq(s, i, Len(s)) \in Seq(S)
      /\ Len(SubSeq(s, i, Len(s))) = IF i <= Len(s) THEN Len(s) - i + 1 ELSE 0
      /\ \A j \in 1..(Len(s) - i + 1) : SubSeq(s, i, Len(s))[j] = s[i + j - 1]
  BY <1>1, <1>2, SubSeqProperties
<1>. QED  BY <1>1, <1>3 DEF From

-----------------------------------------------------------------------------
(* get_request_len. *)

\* Where the loop of get_request_len ends.
EndsHead(s) == {i \in 1..(Len(s) - 1) : s[i] = "c" \/ HeadEndsAt(s, i) > 0}

LEMMA HeadStays ==
  ASSUME NEW S, NEW s \in Seq(S), NEW k \in 1..Len(s), RequestLen(Upto(s, k)) # 0
  PROVE  RequestLen(s) = RequestLen(Upto(s, k))
<1>. DEFINE p == Upto(s, k)
            P == EndsHead(p)
            F == EndsHead(s)
            i == Min(P)
<1>1. Len(s) \in Nat /\ Len(p) = k /\ \A j \in 1..k : p[j] = s[j]
  <2>1. Len(s) \in Nat /\ k \in 0..Len(s)
    OBVIOUS
  <2>2. Len(p) = k /\ \A j \in 1..k : p[j] = s[j]
    BY <2>1, UptoIs, Zenon
  <2>. QED  BY <2>1, <2>2
<1>2. P \subseteq 1..(k - 1) /\ F \subseteq 1..(Len(s) - 1)
  BY <1>1 DEF EndsHead
<1>3. /\ RequestLen(p) = IF P = {} THEN 0 ELSE IF p[i] = "c" THEN -1 ELSE HeadEndsAt(p, i)
      /\ RequestLen(s) = IF F = {} THEN 0 ELSE IF s[Min(F)] = "c" THEN -1 ELSE HeadEndsAt(s, Min(F))
  BY DEF RequestLen, EndsHead
<1>4. P # {} /\ i \in P /\ \A j \in P : i <= j
  <2>1. P # {} /\ P \subseteq Nat
    BY <1>2, <1>3
  <2>. QED  BY <2>1, LeastNatural
\* What ends the head already does whatever follows, and in front of the last two
\* characters nothing can turn up later.
<1>5. \A j \in 1..(k - 1) : HeadEndsAt(p, j) > 0 => HeadEndsAt(s, j) = HeadEndsAt(p, j)
  <2>. SUFFICES ASSUME NEW j \in 1..(k - 1), HeadEndsAt(p, j) > 0
                PROVE  HeadEndsAt(s, j) = HeadEndsAt(p, j)
    OBVIOUS
  <2>1. p[j] = s[j] /\ p[j + 1] = s[j + 1] /\ (j + 2 <= k => p[j + 2] = s[j + 2])
    BY <1>1
  <2>. HIDE DEF p
  <2>. QED  BY <1>1, <2>1 DEF HeadEndsAt
<1>6. \A j \in 1..(k - 2) : HeadEndsAt(p, j) = HeadEndsAt(s, j)
  <2>. TAKE j \in 1..(k - 2)
  <2>1. p[j] = s[j] /\ p[j + 1] = s[j + 1] /\ p[j + 2] = s[j + 2] /\ j + 2 <= k /\ j + 2 <= Len(s)
    BY <1>1
  <2>. HIDE DEF p
  <2>. QED  BY <1>1, <2>1 DEF HeadEndsAt
<1>. HIDE DEF p
<1>7. i \in 1..(k - 1) /\ p[i] = s[i] /\ (p[i] = "c" \/ HeadEndsAt(p, i) > 0)
  BY <1>1, <1>2, <1>4 DEF EndsHead
<1>8. i \in F
  BY <1>1, <1>5, <1>7 DEF EndsHead
<1>9. Min(F) \in F /\ \A j \in F : Min(F) <= j
  <2>1. F # {} /\ F \subseteq Nat
    BY <1>2, <1>8
  <2>. QED  BY <2>1, LeastNatural
<1>10. Min(F) = i
  <2>. SUFFICES ASSUME Min(F) < i  PROVE FALSE
    BY <1>2, <1>7, <1>8, <1>9
  <2>. DEFINE m == Min(F)
  <2>1. m \in F
    BY <1>9
  <2>. HIDE DEF m
  <2>2. m \in 1..(k - 2) /\ m < i
    BY <1>1, <1>2, <1>7, <2>1 DEF m
  <2>3. p[m] = s[m] /\ (s[m] = "c" \/ HeadEndsAt(s, m) > 0)
    BY <1>1, <2>1, <2>2 DEF EndsHead
  <2>4. m \in P
    BY <1>1, <1>6, <2>2, <2>3 DEF EndsHead
  <2>. QED  BY <1>4, <1>7, <2>2, <2>4
<1>. QED  BY <1>3, <1>4, <1>5, <1>7, <1>8, <1>10 DEF p

-----------------------------------------------------------------------------
(* mg_get_var and mg_get_cookie. *)

\* The name of a variable is at a place of the text.
LEMMA NameIs ==
  ASSUME NEW S, {"a", "="} \subseteq S, NEW s \in Seq(S), NEW i \in 1..Len(s)
  PROVE  IsPrefix(<<"a", "=">>, From(s, i)) <=> i < Len(s) /\ s[i] = "a" /\ s[i + 1] = "="
<1>. DEFINE n == <<"a", "=">>
            r == From(s, i)
            L == Len(s)
<1>1. L \in Nat /\ i \in 1..(L + 1)
  BY LenProperties
<1>2. r \in Seq(S) /\ Len(r) = L - i + 1 /\ \A j \in 1..(L - i + 1) : r[j] = s[i + j - 1]
  BY <1>1, FromIs
<1>3. n \in Seq(S) /\ Len(n) = 2 /\ n[1] = "a" /\ n[2] = "="
  OBVIOUS
<1>4. SubSeq(n, 1, 2) = n
  BY <1>3, SubSeqFull
<1>. HIDE DEF n, r
<1>5. IsPrefix(n, r) <=> 2 <= Len(r) /\ n = Upto(r, 2)
  BY <1>3, <1>4 DEF IsPrefix, Upto
<1>6. ASSUME i < L  PROVE n = Upto(r, 2) <=> s[i] = "a" /\ s[i + 1] = "="
  <2>1. 2 \in 0..Len(r)
    BY <1>1, <1>2, <1>6
  <2>2. Upto(r, 2) \in Seq(S) /\ Len(Upto(r, 2)) = 2 /\ \A j \in 1..2 : Upto(r, 2)[j] = r[j]
    BY <1>2, <2>1, UptoIs
  <2>3. r[1] = s[i] /\ r[2] = s[i + 1]
    BY <1>1, <1>2, <1>6
  <2>4. n = Upto(r, 2) <=> \A j \in 1..2 : n[j] = Upto(r, 2)[j]
    BY <1>3, <2>2, SeqEqual
  <2>5. \A j \in 1..2 : j = 1 \/ j = 2
    OBVIOUS
  <2>6. (\A j \in 1..2 : n[j] = Upto(r, 2)[j]) <=> n[1] = r[1] /\ n[2] = r[2]
    BY <2>2, <2>5
  <2>. QED  BY <1>3, <2>3, <2>4, <2>6
<1>. QED  BY <1>1, <1>2, <1>5, <1>6 DEF n, r

\* The first of places that are moved by d.
LEMMA FirstMoved ==
  ASSUME NEW A, A \subseteq Nat, NEW d \in Nat, NEW B, B \subseteq Nat,
         \A b \in B : b - d \in A, \A a \in A : a + d \in B, NEW x \in Nat
  PROVE  FirstOr(B, x + d) = FirstOr(A, x) + d
<1>1. CASE A = {}
  <2>1. B = {}
    BY <1>1
  <2>. QED  BY <1>1, <2>1 DEF FirstOr
<1>2. CASE A # {}
  <2>1. B # {}
    BY <1>2
  <2>2. Min(A) \in A /\ \A a \in A : Min(A) <= a
    BY <1>2, LeastNatural
  <2>3. Min(B) \in B /\ \A b \in B : Min(B) <= b
    BY <2>1, LeastNatural
  <2>4. Min(A) + d \in B /\ Min(B) - d \in A /\ Min(A) \in Nat /\ Min(B) \in Nat
    BY <2>2, <2>3
  <2>5. Min(B) <= Min(A) + d /\ Min(A) <= Min(B) - d
    BY <2>2, <2>3, <2>4
  <2>6. Min(B) = Min(A) + d
    BY <2>4, <2>5
  <2>. QED  BY <1>2, <2>1, <2>6 DEF FirstOr
<1>. QED  BY <1>1, <1>2

\* A first place is one of them or the default.
LEMMA FirstIs ==
  ASSUME NEW A, A \subseteq Nat, NEW x
  PROVE  \/ A = {} /\ FirstOr(A, x) = x
         \/ A # {} /\ FirstOr(A, x) \in A /\ \A a \in A : FirstOr(A, x) <= a
<1>1. CASE A = {}
  BY <1>1 DEF FirstOr
<1>2. CASE A # {}
  BY <1>2, LeastNatural DEF FirstOr
<1>. QED  BY <1>1, <1>2

\* A part of the rest of a text is a part of the text.
LEMMA PartOfRest ==
  ASSUME NEW S, NEW s \in Seq(S), NEW i \in 1..(Len(s) + 1), NEW k \in 0..(Len(s) - i + 1)
  PROVE  /\ Upto(From(s, i), k) = SubSeq(s, i, i + k - 1)
         /\ SubSeq(s, i, i + k - 1) \in Seq(S) /\ Len(SubSeq(s, i, i + k - 1)) = k
         /\ \A j \in 1..k : SubSeq(s, i, i + k - 1)[j] = s[i + j - 1]
<1>. DEFINE r == From(s, i)
            L == Len(s)
            t == SubSeq(s, i, i + k - 1)
<1>1. L \in Nat
  BY LenProperties
<1>2. r \in Seq(S) /\ Len(r) = L - i + 1 /\ \A j \in 1..(L - i + 1) : r[j] = s[i + j - 1]
  BY FromIs
<1>3. k \in 0..Len(r)
  BY <1>1, <1>2
<1>4. Upto(r, k) \in Seq(S) /\ Len(Upto(r, k)) = k /\ \A j \in 1..k : Upto(r, k)[j] = r[j]
  BY <1>2, <1>3, UptoIs
<1>5. t \in Seq(S) /\ Len(t) = k /\ \A j \in 1..k : t[j] = s[i + j - 1]
  <2>1. i \in Int /\ i + k - 1 \in Int /\ \A j \in i..(i + k - 1) : s[j] \in S
    BY <1>1, ElementOfSeq
  <2>2. /\ t \in Seq(S) /\ Len(t) = IF i <= i + k - 1 THEN i + k - 1 - i + 1 ELSE 0
        /\ \A j \in 1..(i + k - 1 - i + 1) : t[j] = s[i + j - 1]
    BY <2>1, SubSeqProperties
  <2>3. i + k - 1 - i + 1 = k /\ (i <= i + k - 1 <=> k # 0)
    BY <1>1
  <2>. HIDE DEF t
  <2>. QED  BY <1>1, <2>2, <2>3
<1>. HIDE DEF r, t
<1>6. \A j \in 1..k : Upto(r, k)[j] = t[j]
  <2>1. \A j \in 1..k : j \in 1..(L - i + 1)
    BY <1>1
  <2>. QED  BY <1>2, <1>4, <1>5, <2>1, Zenon
<1>7. Upto(r, k) = t
  BY <1>4, <1>5, <1>6, SeqEqual
<1>. QED  BY <1>5, <1>7 DEF r, t

\* The quotes around a part of a text, and the part without them.
LEMMA QuotesAre ==
  ASSUME NEW S, NEW s \in Seq(S), NEW i \in 1..(Len(s) + 1), NEW k \in 0..(Len(s) - i + 1)
  PROVE  LET v == SubSeq(s, i, i + k - 1) IN
         /\ InQuotes(v) <=> k > 1 /\ s[i] = "dq" /\ s[i + k - 1] = "dq"
         /\ k > 1 => Tail(Shortened(v)) = SubSeq(s, i + 1, i + k - 2)
<1>. DEFINE v == SubSeq(s, i, i + k - 1)
            L == Len(s)
            u == Shortened(v)
            t == SubSeq(s, i + 1, i + k - 2)
<1>1. L \in Nat
  BY LenProperties
<1>2. v \in Seq(S) /\ Len(v) = k /\ \A j \in 1..k : v[j] = s[i + j - 1]
  BY PartOfRest
<1>. HIDE DEF v, L
<1>3. InQuotes(v) <=> k > 1 /\ s[i] = "dq" /\ s[i + k - 1] = "dq"
  <2>1. k > 1 => v[1] = s[i] /\ v[Len(v)] = s[i + k - 1]
    <3>1. k > 1 => v[1] = s[i + 1 - 1] /\ v[k] = s[i + k - 1] /\ i + 1 - 1 = i
      BY <1>1, <1>2
    <3>. QED  BY <1>2, <3>1
  <2>. QED  BY <1>2, <2>1 DEF InQuotes
<1>4. k > 1 => Tail(u) = t
  <2>. SUFFICES ASSUME k > 1  PROVE Tail(u) = t
    OBVIOUS
  <2>1. k - 1 \in 0..Len(v)
    BY <1>1, <1>2
  <2>2. u \in Seq(S) /\ Len(u) = k - 1 /\ \A j \in 1..(k - 1) : u[j] = v[j]
    BY <1>2, <2>1, UptoIs DEF Shortened
  <2>. HIDE DEF u
  <2>3. u # <<>>
    BY <2>2, EmptySeq
  <2>4. Tail(u) \in Seq(S) /\ Len(Tail(u)) = k - 2 /\ \A j \in 1..(k - 2) : Tail(u)[j] = s[i + j]
    <3>1. Tail(u) \in Seq(S) /\ Len(Tail(u)) = Len(u) - 1 /\ \A j \in 1..Len(Tail(u)) : Tail(u)[j] = u[j + 1]
      BY <2>2, <2>3, HeadTailProperties
    <3>2. \A j \in 1..(k - 2) : j + 1 \in 1..(k - 1) /\ j + 1 \in 1..k /\ i + (j + 1) - 1 = i + j
      BY <1>1
    <3>3. Len(Tail(u)) = k - 2
      BY <2>2, <3>1
    <3>. QED  BY <1>2, <2>2, <3>1, <3>2, <3>3
  <2>5. t \in Seq(S) /\ Len(t) = k - 2 /\ \A j \in 1..(k - 2) : t[j] = s[i + j]
    <3>1. i + 1 \in 1..(Len(s) + 1) /\ k - 2 \in 0..(Len(s) - (i + 1) + 1)
      BY <1>1 DEF L
    <3>2. /\ SubSeq(s, i + 1, i + 1 + (k - 2) - 1) \in Seq(S) /\ Len(SubSeq(s, i + 1, i + 1 + (k - 2) - 1)) = k - 2
          /\ \A j \in 1..(k - 2) : SubSeq(s, i + 1, i + 1 + (k - 2) - 1)[j] = s[i + 1 + j - 1]
      BY <3>1, PartOfRest
    <3>3. i + 1 + (k - 2) - 1 = i + k - 2 /\ \A j \in 1..(k - 2) : i + 1 + j - 1 = i + j
      BY <1>1
    <3>. QED  BY <3>2, <3>3
  <2>. HIDE DEF t
  <2>6. \A j \in 1..(k - 2) : Tail(u)[j] = t[j]
    BY <2>4, <2>5
  <2>. QED  BY <2>4, <2>5, <2>6, SeqEqual
<1>. QED  BY <1>3, <1>4 DEF v

\* The value is what follows the name up to a space, without a semicolon at its end and
\* without quotes.
LEMMA CookieIs ==
  ASSUME NEW S, {"a", "="} \subseteq S, text \in Seq(S)
  PROVE  GetsCookie
<1>. SUFFICES ASSUME asked = "cookie"  PROVE GetsCookie
  BY DEF GetsCookie
<1>. DEFINE s == text
            L == Len(s)
            named == {i \in DOMAIN s : IsPrefix(<<"a", "=">>, From(s, i))}
            at == {i \in 1..(L - 1) : s[i] = "a" /\ s[i + 1] = "="}
            start == Min(at) + 2
            r == From(s, Min(named) + 2)
            spaces == {i \in start..L : s[i] = "sp"}
            space == FirstOr(spaces, L + 1)
            stop == space - 1
            cut == IF s[stop] = "sc" THEN stop ELSE space
            bare == IF cut > start + 1 /\ s[start] = "dq" /\ s[cut - 1] = "dq"
                    THEN SubSeq(s, start + 1, cut - 2) ELSE SubSeq(s, start, cut - 1)
            value == Upto(r, FirstOr(PlacesOf(r, {"sp"}), L - Min(named)) - 1)
<1>1. L \in Nat /\ DOMAIN s = 1..L
  BY LenProperties
<1>2. named = at
  <2>1. \A i \in 1..L : IsPrefix(<<"a", "=">>, From(s, i)) <=> i < L /\ s[i] = "a" /\ s[i + 1] = "="
    BY NameIs
  <2>. QED  BY <1>1, <2>1
<1>3. \A n : GetCookie(s, n) = IF at = {} THEN NotFound
                              ELSE IF Len(bare) < n THEN Found(bare) ELSE TooSmall
  BY DEF GetCookie
<1>. HIDE DEF bare
<1>4. CASE at = {}
  BY <1>2, <1>3, <1>4 DEF GetsCookie
<1>5. CASE at # {}
  <2>1. Min(at) \in at
    <3>1. at \subseteq Nat
      BY <1>1
    <3>. HIDE DEF at
    <3>. QED  BY <1>5, <3>1, LeastNatural
  <2>2. Min(at) \in 1..(L - 1) /\ s[Min(at) + 1] = "="
    BY <2>1
  <2>. HIDE DEF at, named
  <2>3. start \in 1..(L + 1) /\ L - Min(at) = (L - start + 1) + 1 /\ start - 1 = Min(at) + 1
    BY <1>1, <2>2
  <2>4. r = From(s, start)
    BY <1>2
  <2>5. r \in Seq(S) /\ Len(r) = L - start + 1 /\ \A j \in 1..(L - start + 1) : r[j] = s[start + j - 1]
    <3>. HIDE DEF start, r
    <3>. QED  BY <2>3, <2>4, FromIs
  <2>6. DOMAIN r = 1..(L - start + 1)
    <3>. HIDE DEF start, r
    <3>. QED  BY <2>5, LenProperties
  <2>. HIDE DEF start, r
  <2>7. FirstOr(spaces, L + 1) = FirstOr(PlacesOf(r, {"sp"}), (L - start + 1) + 1) + (start - 1)
    <3>. DEFINE B == PlacesOf(r, {"sp"})
    <3>1. B = {j \in 1..(L - start + 1) : s[start + j - 1] = "sp"}
      BY <2>5, <2>6 DEF PlacesOf
    <3>. HIDE DEF B
    <3>2. B \subseteq Nat /\ spaces \subseteq Nat /\ start - 1 \in Nat
      BY <1>1, <2>3, <3>1
    <3>3. \A b \in spaces : b - (start - 1) \in B
      BY <1>1, <2>3, <3>1
    <3>4. \A b \in B : b + (start - 1) \in spaces
      BY <1>1, <2>3, <3>1
    <3>. DEFINE d == start - 1
                x == (L - start + 1) + 1
    <3>5. x \in Nat /\ L + 1 = x + d
      BY <1>1, <2>3
    <3>. HIDE DEF spaces, d, x
    <3>6. FirstOr(spaces, x + d) = FirstOr(B, x) + d
      BY <3>2, <3>3, <3>4, <3>5, FirstMoved DEF d
    <3>. QED  BY <3>5, <3>6 DEF B, d, x
  <2>13. space \in Nat
    <3>1. \A i \in spaces : i \in Nat
      BY <1>1, <2>3
    <3>2. spaces \subseteq Nat /\ L + 1 \in Nat
      BY <1>1, <3>1
    <3>. HIDE DEF spaces, L
    <3>3. FirstOr(spaces, L + 1) = L + 1 \/ FirstOr(spaces, L + 1) \in spaces
      BY <3>2, FirstIs
    <3>. QED  BY <3>2, <3>3
  <2>8. stop \in (start - 1)..L
    <3>1. spaces \subseteq Nat /\ \A i \in spaces : i \in start..L
      BY <1>1, <2>3
    <3>. HIDE DEF spaces
    <3>2. FirstOr(spaces, L + 1) = L + 1 \/ FirstOr(spaces, L + 1) \in spaces
      BY <3>1, FirstIs
    <3>3. FirstOr(spaces, L + 1) \in start..L \/ FirstOr(spaces, L + 1) = L + 1
      BY <3>1, <3>2
    <3>4. start \in Int /\ start <= L + 1 /\ L \in Int
      BY <1>1, <2>3
    <3>. HIDE DEF L
    <3>. QED  BY <3>3, <3>4
  <2>. HIDE DEF stop, spaces, space
  <2>9. value = Upto(From(s, start), stop - start + 1)
    <3>1. FirstOr(PlacesOf(r, {"sp"}), L - Min(named)) = FirstOr(PlacesOf(r, {"sp"}), (L - start + 1) + 1)
      BY <1>2, <2>3
    <3>2. FirstOr(PlacesOf(r, {"sp"}), L - Min(named)) \in Int
      <4>1. \A j \in PlacesOf(r, {"sp"}) : j \in Nat
        BY <2>6 DEF PlacesOf
      <4>2. L - Min(named) \in Int
        BY <1>1, <1>2, <2>2
      <4>. QED  BY <4>1, <4>2, FirstIs
    <3>3. FirstOr(PlacesOf(r, {"sp"}), L - Min(named)) - 1 = stop - start + 1
      BY <1>1, <2>3, <2>7, <2>8, <3>1, <3>2 DEF stop, space
    <3>. QED  BY <2>4, <3>3
  <2>. HIDE DEF value
  <2>10. /\ value = SubSeq(s, start, stop) /\ value \in Seq(S) /\ Len(value) = stop - start + 1
         /\ \A j \in 1..(stop - start + 1) : value[j] = s[start + j - 1]
    <3>. DEFINE k == stop - start + 1
    <3>1. k \in 0..(L - start + 1) /\ start + k - 1 = stop
      BY <1>1, <2>3, <2>8
    <3>2. value = Upto(From(s, start), k)
      BY <2>9
    <3>. HIDE DEF k
    <3>3. /\ Upto(From(s, start), k) = SubSeq(s, start, start + k - 1)
          /\ SubSeq(s, start, start + k - 1) \in Seq(S) /\ Len(SubSeq(s, start, start + k - 1)) = k
          /\ \A j \in 1..k : SubSeq(s, start, start + k - 1)[j] = s[start + j - 1]
      BY <2>3, <3>1, PartOfRest
    <3>4. /\ value = SubSeq(s, start, stop) /\ value \in Seq(S) /\ Len(value) = k
          /\ \A j \in 1..k : value[j] = s[start + j - 1]
      BY <3>1, <3>2, <3>3
    <3>. QED  BY <3>4 DEF k
  <2>. DEFINE item == IF value # <<>> /\ value[Len(value)] = "sc" THEN Shortened(value) ELSE value
              k == cut - start
  <2>11. k \in 0..(L - start + 1) /\ item = SubSeq(s, start, start + k - 1)
    <3>0. space = stop + 1
      BY <1>1, <2>3, <2>8, <2>13 DEF stop
    <3>1. CASE stop = start - 1
      <4>1. value = <<>>
        BY <2>3, <2>10, <3>1, EmptySeq
      <4>2. s[stop] # "sc"
        <5>1. "=" # "sc"
          OBVIOUS
        <5>. QED  BY <2>2, <2>3, <3>1, <5>1
      <4>3. k = 0 /\ start + k - 1 = stop
        BY <1>1, <2>3, <3>0, <3>1, <4>2
      <4>. QED  BY <1>1, <2>3, <2>10, <4>1, <4>3
    <3>2. CASE stop # start - 1
      <4>1. stop - start + 1 \in 1..(stop - start + 1) /\ start + (stop - start + 1) - 1 = stop /\ Len(value) # 0
        BY <1>1, <2>3, <2>8, <2>10, <3>2
      <4>2. value # <<>> /\ value[Len(value)] = s[stop]
        BY <2>10, <4>1, EmptySeq
      <4>3. CASE s[stop] # "sc"
        <5>1. k = stop - start + 1 /\ start + k - 1 = stop /\ k \in 0..(L - start + 1)
          BY <1>1, <2>3, <2>8, <3>0, <4>3
        <5>. QED  BY <2>10, <4>2, <4>3, <5>1
      <4>4. CASE s[stop] = "sc"
        <5>1. k = stop - start /\ k \in 0..(L - start + 1) /\ start + k - 1 = stop - 1
          BY <1>1, <2>3, <2>8, <3>2, <4>4
        <5>. HIDE DEF k
        <5>2. /\ SubSeq(s, start, start + k - 1) \in Seq(S) /\ Len(SubSeq(s, start, start + k - 1)) = k
              /\ \A j \in 1..k : SubSeq(s, start, start + k - 1)[j] = s[start + j - 1]
          BY <2>3, <5>1, PartOfRest
        <5>3. k \in 0..Len(value) /\ Len(value) - 1 = k
          BY <1>1, <2>3, <2>8, <2>10, <5>1
        <5>4. /\ Upto(value, k) \in Seq(S) /\ Len(Upto(value, k)) = k
              /\ \A j \in 1..k : Upto(value, k)[j] = value[j]
          BY <2>10, <5>3, UptoIs
        <5>5. \A j \in 1..k : Upto(value, k)[j] = SubSeq(s, start, start + k - 1)[j]
          BY <1>1, <2>3, <2>8, <2>10, <5>1, <5>2, <5>4
        <5>6. Upto(value, k) = SubSeq(s, start, start + k - 1)
          BY <5>2, <5>4, <5>5, SeqEqual
        <5>. QED  BY <4>2, <4>4, <5>1, <5>3, <5>6 DEF Shortened
      <4>. QED  BY <4>3, <4>4
    <3>. QED  BY <3>1, <3>2
  <2>12. bare = IF InQuotes(item) THEN Tail(Shortened(item)) ELSE item
    <3>1. /\ InQuotes(item) <=> k > 1 /\ s[start] = "dq" /\ s[start + k - 1] = "dq"
          /\ k > 1 => Tail(Shortened(item)) = SubSeq(s, start + 1, start + k - 2)
      <4>. HIDE DEF k, item
      <4>. QED  BY <2>3, <2>11, QuotesAre
    <3>2. cut = start + k /\ cut - 1 = start + k - 1 /\ cut - 2 = start + k - 2 /\ (k > 1 <=> cut > start + 1)
      <4>1. cut \in Int
        BY <2>3, <2>8, <2>13, <1>1
      <4>. HIDE DEF cut
      <4>. QED  BY <1>1, <2>3, <4>1
    <3>. HIDE DEF k, item, cut
    <3>3. bare = IF cut > start + 1 /\ s[start] = "dq" /\ s[cut - 1] = "dq"
                 THEN SubSeq(s, start + 1, cut - 2) ELSE SubSeq(s, start, cut - 1)
      BY DEF bare
    <3>. QED  BY <2>11, <3>1, <3>2, <3>3
  <2>. QED  BY <1>2, <1>3, <1>5, <2>12 DEF GetsCookie, value, r, named, item
<1>. QED  BY <1>4, <1>5

\* A round writes one character and reads at least one, or there is nothing to do.
LEMMA RoundDoes ==
  ASSUME NEW S, {"/", ".", "x", "sp"} \subseteq S, NEW s \in Seq(S), NEW form,
         NEW b \in DecodeStates(S, s)
  PROVE  LET r == DecodeRound(s, form, b) IN
         /\ b.read = Len(s) => r = b
         /\ b.read # Len(s) => Len(r.text) = Len(b.text) + 1 /\ b.read + 1 <= r.read
<1>. DEFINE i == b.read + 1
            L == Len(s)
            r == DecodeRound(s, form, b)
<1>1. b.text \in Seq(S) /\ b.read \in 0..L /\ L \in Nat
  BY LenProperties DEF DecodeStates
<1>2. CASE b.read = L
  BY <1>2 DEF DecodeRound
<1>3. CASE b.read # L
  <2>1. i \in 1..L /\ s[i] \in S
    BY <1>1, <1>3, ElementOfSeq
  <2>2. CASE s[i] = "%" /\ i + 2 <= L /\ <<s[i + 1], s[i + 2]>> \in Codes
    <3>1. Escaped(<<s[i + 1], s[i + 2]>>) \in S
      BY <2>2 DEF Escaped
    <3>2. Len(Append(b.text, Escaped(<<s[i + 1], s[i + 2]>>))) = Len(b.text) + 1
      BY <1>1, <3>1, AppendProperties
    <3>3. r = [text |-> Append(b.text, Escaped(<<s[i + 1], s[i + 2]>>)), read |-> b.read + 3]
      BY <1>3, <2>2 DEF DecodeRound
    <3>. QED  BY <1>1, <1>3, <3>2, <3>3
  <2>3. CASE ~(s[i] = "%" /\ i + 2 <= L /\ <<s[i + 1], s[i + 2]>> \in Codes)
    <3>. DEFINE c == IF form /\ s[i] = "+" THEN "sp" ELSE s[i]
    <3>1. c \in S
      BY <2>1
    <3>2. r = [text |-> Append(b.text, c), read |-> b.read + 1]
      BY <1>3, <2>3 DEF DecodeRound
    <3>. HIDE DEF c
    <3>3. Len(Append(b.text, c)) = Len(b.text) + 1
      BY <1>1, <3>1, AppendProperties
    <3>. QED  BY <1>1, <1>3, <3>2, <3>3
  <2>. QED  BY <2>2, <2>3
<1>. QED  BY <1>2, <1>3

\* The rounds d over a text of length L: one character each until it is read.
Rounds(d, L) ==
  /\ \A n \in Nat : Len(d[n].text) \in 0..n /\ d[n].read \in 0..L
  /\ \A n \in Nat : d[n].read # L => Len(d[n].text) = n /\ n <= d[n].read
  /\ \A n \in Nat : \A m \in Nat : Len(d[n].text) <= Len(d[n + m].text)
  /\ \A n \in Nat : \A m \in Nat : d[n].read = L => d[n + m] = d[n]

LEMMA DecodesOn ==
  ASSUME NEW S, {"/", ".", "x", "sp"} \subseteq S, NEW s \in Seq(S), NEW form
  PROVE  Rounds(Decoded(s, form), Len(s))
<1>. DEFINE d == Decoded(s, form)
            L == Len(s)
<1>1. /\ d[0] = [text |-> <<>>, read |-> 0]
      /\ \A n \in Nat : d[n] \in DecodeStates(S, s) /\ d[n + 1] = DecodeRound(s, form, d[n])
  BY DecodedIs
<1>2. \A n \in Nat : d[n].text \in Seq(S) /\ Len(d[n].text) \in Nat /\ d[n].read \in 0..L /\ L \in Nat
  BY <1>1, LenProperties DEF DecodeStates
<1>. DEFINE len == [n \in Nat |-> Len(d[n].text)]
            read == [n \in Nat |-> d[n].read]
<1>3. ASSUME NEW n \in Nat
      PROVE  /\ len[n] = Len(d[n].text) /\ read[n] = d[n].read
             /\ read[n] = L => d[n + 1] = d[n]
             /\ read[n] # L => len[n + 1] = len[n] + 1 /\ read[n] + 1 <= read[n + 1]
  <2>. DEFINE b == d[n]
              r == DecodeRound(s, form, b)
  <2>1. b \in DecodeStates(S, s) /\ d[n + 1] = r
    BY <1>1
  <2>2. /\ len[n] = Len(d[n].text) /\ read[n] = d[n].read
        /\ len[n + 1] = Len(d[n + 1].text) /\ read[n + 1] = d[n + 1].read
    OBVIOUS
  <2>. HIDE DEF d, b, len, read
  <2>3. /\ b.read = Len(s) => r = b
        /\ b.read # Len(s) => Len(r.text) = Len(b.text) + 1 /\ b.read + 1 <= r.read
    BY <2>1, RoundDoes
  <2>4. b = d[n]
    BY DEF b
  <2>. HIDE DEF r
  <2>. QED  BY <2>1, <2>2, <2>3, <2>4
<1>4. len[0] = 0 /\ L \in Nat
  BY <1>1, <1>2
<1>5. \A n \in Nat : len[n] \in Nat /\ read[n] \in 0..L
  <2>1. \A n \in Nat : Len(d[n].text) \in Nat /\ d[n].read \in 0..L
    BY <1>2
  <2>. HIDE DEF d, L, len, read
  <2>. QED  BY <1>3, <2>1, Zenon
<1>7. \A n, m \in Nat : d[m] = d[n] => len[m] = len[n] /\ read[m] = read[n]
  <2>. HIDE DEF d
  <2>. QED  OBVIOUS
<1>. HIDE DEF d, len, read, L
<1>8. \A n \in Nat : len[n] <= n /\ (read[n] # L => len[n] = n /\ n <= read[n])
  <2>. DEFINE U == {n \in Nat : len[n] <= n /\ (read[n] # L => len[n] = n /\ n <= read[n])}
  <2>1. 0 \in U
    BY <1>4, <1>5
  <2>2. ASSUME NEW n \in Nat, n \in U  PROVE n + 1 \in U
    <3>1. len[n] <= n /\ (read[n] # L => len[n] = n /\ n <= read[n])
      BY <2>2
    <3>2. n + 1 \in Nat /\ len[n] \in Nat /\ len[n + 1] \in Nat /\ read[n] \in 0..L /\ read[n + 1] \in 0..L
      BY <1>4, <1>5
    <3>3. CASE read[n] = L
      <4>1. len[n + 1] = len[n] /\ read[n + 1] = L
        BY <1>3, <1>7, <3>2, <3>3
      <4>. QED  BY <3>1, <3>2, <4>1
    <3>4. CASE read[n] # L
      <4>1. len[n + 1] = n + 1 /\ n + 1 <= read[n + 1]
        BY <1>3, <1>4, <3>1, <3>2, <3>4
      <4>. QED  BY <3>2, <4>1
    <3>. QED  BY <3>3, <3>4
  <2>. HIDE DEF U
  <2>3. \A n \in Nat : n \in U
    BY <2>1, <2>2, SetInduction
  <2>. QED  BY <2>3 DEF U
<1>9. ASSUME NEW n \in Nat
      PROVE  \A m \in Nat : len[n] <= len[n + m] /\ (read[n] = L => d[n + m] = d[n])
  <2>. DEFINE U == {m \in Nat : len[n] <= len[n + m] /\ (read[n] = L => d[n + m] = d[n])}
  <2>1. 0 \in U
    <3>1. n + 0 = n
      OBVIOUS
    <3>. QED  BY <1>5, <3>1
  <2>2. ASSUME NEW m \in Nat, m \in U  PROVE m + 1 \in U
    <3>. DEFINE k == n + m
    <3>1. len[n] <= len[k] /\ (read[n] = L => d[k] = d[n])
      BY <2>2
    <3>2. n + (m + 1) = k + 1 /\ k \in Nat /\ k + 1 \in Nat
      OBVIOUS
    <3>. HIDE DEF k
    <3>3. len[k] <= len[k + 1]
      <4>1. len[k] \in Nat /\ len[k + 1] \in Nat
        BY <1>5, <3>2
      <4>2. len[k + 1] = len[k] \/ len[k + 1] = len[k] + 1
        BY <1>3, <1>7, <3>2
      <4>. QED  BY <4>1, <4>2
    <3>4. read[n] = L => d[k + 1] = d[n]
      <4>1. read[n] = L => read[k] = L
        BY <1>7, <3>1, <3>2
      <4>. QED  BY <1>3, <3>1, <3>2, <4>1
    <3>5. len[n] \in Nat /\ len[k] \in Nat /\ len[k + 1] \in Nat
      BY <1>5, <3>2
    <3>6. len[n] <= len[k + 1]
      BY <3>1, <3>3, <3>5
    <3>. QED  BY <3>2, <3>4, <3>6
  <2>. HIDE DEF U
  <2>3. \A m \in Nat : m \in U
    BY <2>1, <2>2, SetInduction
  <2>. QED  BY <2>3 DEF U
<1>10. \A n \in Nat : len[n] \in 0..n /\ read[n] \in 0..L
  <2>1. \A n \in Nat : len[n] \in Nat
    BY <1>5
  <2>. QED  BY <1>4, <1>5, <1>8, <2>1
<1>11. \A n \in Nat : len[n] = Len(d[n].text) /\ read[n] = d[n].read
  BY <1>3
<1>12. \A n, m \in Nat : n + m \in Nat
  OBVIOUS
<1>. QED  BY <1>8, <1>9, <1>10, <1>11, <1>12, Zenon DEF d, L, Rounds

\* Decoding to a buffer gives the whole text if it fits, and reads all of it only then.
LEMMA DecodesWhatFits ==
  ASSUME NEW S, {"/", ".", "x", "sp"} \subseteq S, NEW s \in Seq(S), NEW form, NEW dstLen \in Nat \ {0}
  PROVE  LET d    == UrlDecodeTo(s, form, dstLen)
             want == UrlDecodeTo(s, form, Len(s) + 1).text
         IN  IF d.read < Len(s) THEN ~(Len(want) < dstLen) ELSE d.text = want /\ Len(want) < dstLen
<1>. DEFINE d == Decoded(s, form)
            L == Len(s)
            n == dstLen - 1
<1>1. L \in Nat /\ n \in Nat /\ (L + 1) - 1 = L /\ dstLen = n + 1
  BY LenProperties
<1>2. /\ \A k \in Nat : Len(d[k].text) \in 0..k /\ d[k].read \in 0..L
      /\ \A k \in Nat : d[k].read # L => Len(d[k].text) = k /\ k <= d[k].read
      /\ \A k \in Nat : \A m \in Nat : Len(d[k].text) <= Len(d[k + m].text)
      /\ \A k \in Nat : \A m \in Nat : d[k].read = L => d[k + m] = d[k]
  <2>1. Rounds(d, L)
    BY DecodesOn
  <2>. HIDE DEF d, L
  <2>. QED  BY <2>1 DEF Rounds
<1>3. UrlDecodeTo(s, form, dstLen) = d[n] /\ UrlDecodeTo(s, form, Len(s) + 1) = d[L]
  BY <1>1 DEF UrlDecodeTo
<1>. HIDE DEF d, n, L
<1>4. CASE d[n].read = L
  <2>1. d[L].read = L
    BY <1>1, <1>2
  <2>2. d[n] = d[L]
    <3>1. CASE n <= L
      <4>1. L - n \in Nat /\ n + (L - n) = L
        BY <1>1, <3>1
      <4>2. d[n + (L - n)] = d[n]
        BY <1>1, <1>2, <1>4, <4>1
      <4>. QED  BY <4>1, <4>2
    <3>2. CASE L < n
      <4>1. n - L \in Nat /\ L + (n - L) = n
        BY <1>1, <3>2
      <4>. QED  BY <1>1, <1>2, <2>1, <4>1
    <3>. QED  BY <1>1, <3>1, <3>2
  <2>3. Len(d[n].text) < dstLen
    BY <1>1, <1>2
  <2>4. ~(d[n].read < L)
    BY <1>1, <1>4
  <2>. QED  BY <1>3, <2>2, <2>3, <2>4 DEF L
<1>5. CASE d[n].read # L
  <2>1. d[n].read \in 0..L /\ n <= d[n].read /\ d[n].read < L /\ Len(d[n].text) = n
    BY <1>1, <1>2, <1>5
  <2>2. L - (n + 1) \in Nat /\ (n + 1) + (L - (n + 1)) = L /\ n + 1 \in Nat
    BY <1>1, <2>1
  <2>3. Len(d[n + 1].text) <= Len(d[L].text)
    BY <1>2, <2>2
  <2>4. Len(d[n + 1].text) = n + 1
    <3>1. d[n] \in DecodeStates(S, s) /\ d[n + 1] = DecodeRound(s, form, d[n])
      BY <1>1, DecodedIs DEF d
    <3>. QED  BY <1>1, <1>5, <2>1, <3>1, RoundDoes DEF L
  <2>5. Len(d[L].text) \in Nat
    BY <1>1, <1>2
  <2>6. ~(Len(d[L].text) < dstLen)
    BY <1>1, <2>3, <2>4, <2>5
  <2>. QED  BY <1>3, <2>1, <2>6 DEF L
<1>. QED  BY <1>4, <1>5

\* The variable is found where its name is, and comes whole or not at all.
LEMMA VarIs ==
  ASSUME NEW S, {"/", ".", "x", "sp", "a", "="} \subseteq S, text \in Seq(S)
  PROVE  GetsVar
<1>. SUFFICES ASSUME asked = "var"  PROVE GetsVar
  BY DEF GetsVar
<1>. DEFINE s == text
            L == Len(s)
            starts == {i \in DOMAIN s : (i = 1 \/ s[i - 1] = "&") /\ IsPrefix(<<"a", "=">>, From(s, i))}
            at == {i \in 1..(L - 1) : (i = 1 \/ s[i - 1] = "&") /\ s[i] = "a" /\ s[i + 1] = "="}
            value == From(s, Min(at) + 2)
            end == FirstOr(PlacesOf(value, {"&"}), Len(value) + 1)
            coded == Upto(value, end - 1)
            want == UrlDecodeTo(coded, TRUE, Len(coded) + 1).text
<1>1. L \in Nat /\ DOMAIN s = 1..L
  BY LenProperties
<1>2. starts = at
  <2>1. \A i \in 1..L : IsPrefix(<<"a", "=">>, From(s, i)) <=> i < L /\ s[i] = "a" /\ s[i + 1] = "="
    BY NameIs
  <2>. QED  BY <1>1, <2>1
<1>3. \A dstLen : GetVar(s, dstLen) = IF at = {} THEN NotFound
                    ELSE IF UrlDecodeTo(coded, TRUE, dstLen).read < Len(coded) THEN TooSmall
                    ELSE Found(UrlDecodeTo(coded, TRUE, dstLen).text)
  BY DEF GetVar
<1>4. (\A dstLen \in 1..4 :
         GetVar(s, dstLen) = IF at = {} THEN NotFound
                             ELSE IF Len(want) < dstLen THEN Found(want) ELSE TooSmall) => GetsVar
  <2>. HIDE DEF starts, at
  <2>. QED  BY <1>2 DEF GetsVar, starts
<1>5. ASSUME at # {}, NEW dstLen \in 1..4
      PROVE  GetVar(s, dstLen) = IF Len(want) < dstLen THEN Found(want) ELSE TooSmall
  <2>1. Min(at) \in 1..(L - 1)
    <3>1. at \subseteq Nat /\ \A i \in at : i \in 1..(L - 1)
      BY <1>1
    <3>. HIDE DEF at
    <3>. QED  BY <1>5, <3>1, LeastNatural
  <2>. HIDE DEF at
  <2>2. Min(at) + 2 \in 1..(L + 1)
    BY <1>1, <2>1
  <2>3. value \in Seq(S)
    BY <2>2, FromIs
  <2>. HIDE DEF value
  <2>4. Len(value) \in Nat /\ DOMAIN value = 1..Len(value)
    BY <2>3, LenProperties
  <2>5. end - 1 \in 0..Len(value)
    <3>1. PlacesOf(value, {"&"}) \subseteq 1..Len(value)
      BY <2>4 DEF PlacesOf
    <3>. HIDE DEF end
    <3>2. end \in 1..Len(value) \/ end = Len(value) + 1
      <4>1. PlacesOf(value, {"&"}) \subseteq Nat
        BY <3>1
      <4>2. end = Len(value) + 1 \/ end \in PlacesOf(value, {"&"})
        BY <4>1, FirstIs DEF end
      <4>. QED  BY <3>1, <4>2
    <3>. QED  BY <2>4, <3>2
  <2>6. coded \in Seq(S)
    <3>. HIDE DEF end
    <3>. QED  BY <2>3, <2>5, UptoIs
  <2>. HIDE DEF coded
  <2>7. IF UrlDecodeTo(coded, TRUE, dstLen).read < Len(coded) THEN ~(Len(want) < dstLen)
        ELSE UrlDecodeTo(coded, TRUE, dstLen).text = want /\ Len(want) < dstLen
    <3>1. dstLen \in Nat \ {0}
      OBVIOUS
    <3>. QED  BY <2>6, <3>1, DecodesWhatFits
  <2>. HIDE DEF want
  <2>. QED  BY <1>3, <1>5, <2>7
<1>6. ASSUME at = {}, NEW dstLen \in 1..4  PROVE GetVar(s, dstLen) = NotFound
  BY <1>3, <1>6
<1>. HIDE DEF at, want, coded, value
<1>. QED  BY <1>4, <1>5, <1>6

-----------------------------------------------------------------------------
(* skip_quoted. *)

\* The place in a word of a character that is kept, if those at K are.
Rank(K, i) == Cardinality({k \in K : k <= i})

\* The word w is what is at the places K of s.
Picks(s, w, K) == Len(w) = Cardinality(K) /\ \A i \in K : w[Rank(K, i)] = s[i]

LEMMA RankIs ==
  ASSUME NEW n \in Nat, NEW K, K \subseteq 1..n
  PROVE  /\ IsFiniteSet(K) /\ Cardinality(K) \in Nat
         /\ \A i \in K : Rank(K, i) \in 1..Cardinality(K)
<1>1. IsFiniteSet(1..n)
  BY FS_Interval
<1>2. IsFiniteSet(K)
  BY <1>1, FS_Subset
<1>3. Cardinality(K) \in Nat
  BY <1>2, FS_CardinalityType
<1>4. ASSUME NEW i \in K  PROVE Rank(K, i) \in 1..Cardinality(K)
  <2>. DEFINE B == {k \in K : k <= i}
  <2>1. B \in SUBSET K /\ i \in B
    OBVIOUS
  <2>. HIDE DEF B
  <2>2. IsFiniteSet(B) /\ Cardinality(B) <= Cardinality(K)
    BY <1>2, <2>1, FS_Subset
  <2>3. Cardinality(B) \in Nat /\ Cardinality(B) # 0
    BY <2>1, <2>2, FS_CardinalityType, FS_EmptySet
  <2>. QED  BY <1>3, <2>2, <2>3 DEF Rank, B
<1>. QED  BY <1>2, <1>3, <1>4

\* Nothing is left out of the beginning of a text.
LEMMA PicksAll ==
  ASSUME NEW S, NEW s \in Seq(S), NEW k \in 0..Len(s)
  PROVE  Picks(s, Upto(s, k), 1..k)
<1>1. k \in Nat
  BY LenProperties
<1>2. Len(Upto(s, k)) = k /\ \A i \in 1..k : Upto(s, k)[i] = s[i]
  BY UptoIs
<1>3. Cardinality(1..k) = k
  BY <1>1, FS_Interval
<1>4. ASSUME NEW i \in 1..k  PROVE Rank(1..k, i) = i
  <2>1. {j \in 1..k : j <= i} = 1..i
    BY <1>1
  <2>2. Cardinality(1..i) = i
    BY <1>1, FS_Interval
  <2>. QED  BY <2>1, <2>2 DEF Rank
<1>. QED  BY <1>2, <1>3, <1>4 DEF Picks

\* The last character of the word is at the last place, and goes with it.
LEMMA PicksLast ==
  ASSUME NEW S, NEW s \in Seq(S), NEW w \in Seq(S), NEW m \in 1..Len(s), NEW K,
         K \subseteq 1..(m - 1), Picks(s, w, K \cup {m})
  PROVE  w # <<>> /\ w[Len(w)] = s[m] /\ Shortened(w) \in Seq(S) /\ Picks(s, Shortened(w), K)
<1>. DEFINE U == K \cup {m}
            c == Cardinality(K)
<1>1. Len(s) \in Nat /\ m - 1 \in Nat /\ m \notin K
  BY LenProperties
<1>2. IsFiniteSet(K) /\ c \in Nat /\ \A i \in K : Rank(K, i) \in 1..c
  BY <1>1, RankIs
<1>3. Cardinality(U) = c + 1
  BY <1>1, <1>2, FS_AddElement
<1>4. Len(w) = c + 1 /\ \A i \in U : w[Rank(U, i)] = s[i]
  BY <1>3 DEF Picks
<1>5. Rank(U, m) = c + 1
  <2>1. m <= m /\ \A k \in K : k <= m
    BY <1>1
  <2>2. {k \in U : k <= m} = U
    BY <2>1, Zenon
  <2>. QED  BY <1>3, <2>2 DEF Rank
<1>6. ASSUME NEW i \in K  PROVE Rank(U, i) = Rank(K, i)
  <2>1. {k \in U : k <= i} = {k \in K : k <= i}
    BY <1>1, <1>6
  <2>. QED  BY <2>1 DEF Rank
<1>. HIDE DEF c
<1>7. w # <<>> /\ w[Len(w)] = s[m]
  <2>1. w # <<>>
    BY <1>2, <1>4, EmptySeq
  <2>2. m \in U
    OBVIOUS
  <2>3. w[Rank(U, m)] = s[m]
    BY <1>4, <2>2
  <2>. QED  BY <1>4, <1>5, <2>1, <2>3
<1>8. Shortened(w) \in Seq(S) /\ Len(Shortened(w)) = c /\ \A i \in 1..c : Shortened(w)[i] = w[i]
  <2>1. c \in 0..Len(w) /\ Len(w) - 1 = c
    BY <1>2, <1>4
  <2>. QED  BY <2>1, UptoIs DEF Shortened
<1>9. \A i \in K : Shortened(w)[Rank(K, i)] = s[i]
  <2>. TAKE i \in K
  <2>1. w[Rank(U, i)] = s[i] /\ Rank(U, i) = Rank(K, i) /\ Rank(K, i) \in 1..c
    BY <1>2, <1>4, <1>6
  <2>. QED  BY <1>8, <2>1
<1>. QED  BY <1>7, <1>8, <1>9 DEF Picks, c

\* What is moved behind the word is picked, too.
LEMMA PicksAdd ==
  ASSUME NEW S, NEW s \in Seq(S), NEW w \in Seq(S), NEW m \in 1..(Len(s) + 1), NEW n \in (m - 1)..Len(s),
         NEW K, K \subseteq 1..(m - 1), Picks(s, w, K)
  PROVE  w \o SubSeq(s, m, n) \in Seq(S) /\ Picks(s, w \o SubSeq(s, m, n), K \cup m..n)
<1>. DEFINE T == m..n
            U == K \cup T
            c == Cardinality(K)
            v == SubSeq(s, m, n)
            x == w \o v
<1>1. Len(s) \in Nat /\ m - 1 \in Nat /\ m \in Int /\ n \in Int /\ n - m + 1 \in Nat
  BY LenProperties
<1>2. IsFiniteSet(K) /\ c \in Nat /\ \A i \in K : Rank(K, i) \in 1..c
  BY <1>1, RankIs
<1>3. Len(w) = c /\ \A i \in K : w[Rank(K, i)] = s[i]
  BY DEF Picks
<1>4. v \in Seq(S) /\ Len(v) = n - m + 1 /\ \A j \in 1..(n - m + 1) : v[j] = s[m + j - 1]
  <2>1. \A j \in m..n : s[j] \in S
    BY <1>1, ElementOfSeq
  <2>2. /\ v \in Seq(S) /\ Len(v) = IF m <= n THEN n - m + 1 ELSE 0
        /\ \A j \in 1..(n - m + 1) : v[j] = s[m + j - 1]
    BY <1>1, <2>1, SubSeqProperties
  <2>3. ~(m <= n) => n - m + 1 = 0
    BY <1>1
  <2>. HIDE DEF v
  <2>. QED  BY <2>2, <2>3
<1>. HIDE DEF c, v
<1>5. x \in Seq(S) /\ Len(x) = c + (n - m + 1)
      /\ \A i \in 1..(c + (n - m + 1)) : x[i] = IF i <= c THEN w[i] ELSE v[i - c]
  <2>1. /\ w \o v \in Seq(S) /\ Len(w \o v) = Len(w) + Len(v)
        /\ \A i \in 1..(Len(w) + Len(v)) : (w \o v)[i] = IF i <= Len(w) THEN w[i] ELSE v[i - Len(w)]
    BY <1>4, ConcatProperties
  <2>. HIDE DEF x
  <2>2. x = w \o v /\ Len(w) = c /\ Len(v) = n - m + 1
    BY <1>3, <1>4 DEF x
  <2>. QED  BY <2>1, <2>2
<1>. HIDE DEF x
<1>6. ASSUME NEW i \in (m - 1)..n
      PROVE  IsFiniteSet(K \cup m..i) /\ Cardinality(K \cup m..i) = c + (i - m + 1)
  <2>1. IsFiniteSet(m..i) /\ Cardinality(m..i) = i - m + 1
    <3>1. i \in Int /\ (m > i => i - m + 1 = 0)
      BY <1>1
    <3>. QED  BY <1>1, <3>1, FS_Interval
  <2>2. K \cap m..i = {}
    BY <1>1
  <2>3. Cardinality(K \cap m..i) = 0
    BY <2>2, FS_EmptySet
  <2>4. Cardinality(K \cup m..i) = Cardinality(K) + Cardinality(m..i) - Cardinality(K \cap m..i)
    BY <1>2, <2>1, FS_Union
  <2>5. Cardinality(K \cup m..i) = c + (i - m + 1) - 0
    BY <2>1, <2>3, <2>4 DEF c
  <2>6. i - m + 1 \in Int
    BY <1>1
  <2>7. IsFiniteSet(K \cup m..i)
    BY <1>2, <2>1, FS_Union
  <2>8. c + (i - m + 1) - 0 = c + (i - m + 1)
    BY <1>2, <2>6
  <2>. QED  BY <2>5, <2>7, <2>8
<1>7. Cardinality(U) = c + (n - m + 1)
  <2>1. n \in (m - 1)..n
    BY <1>1
  <2>. QED  BY <1>6, <2>1
<1>8. ASSUME NEW i \in U  PROVE x[Rank(U, i)] = s[i]
  <2>1. CASE i \in K
    <3>1. {k \in U : k <= i} = {k \in K : k <= i}
      BY <1>1, <2>1
    <3>2. Rank(U, i) = Rank(K, i)
      BY <3>1 DEF Rank
    <3>3. Rank(K, i) \in 1..(c + (n - m + 1)) /\ Rank(K, i) <= c
      BY <1>1, <1>2, <2>1
    <3>. QED  BY <1>3, <1>5, <2>1, <3>2, <3>3
  <2>2. CASE i \in T
    <3>1. {k \in U : k <= i} = K \cup m..i
      <4>1. \A k \in K : k <= i
        BY <1>1, <2>2
      <4>2. \A k \in T : k <= i <=> k \in m..i
        BY <1>1, <2>2
      <4>3. \A k \in m..i : k \in T
        BY <1>1, <2>2
      <4>. HIDE DEF T
      <4>. QED  BY <4>1, <4>2, <4>3, Zenon
    <3>2. i \in (m - 1)..n
      BY <1>1, <2>2
    <3>3. Rank(U, i) = c + (i - m + 1)
      BY <1>6, <3>1, <3>2 DEF Rank
    <3>. DEFINE j == i - m + 1
                r == c + j
    <3>4. r \in 1..(c + (n - m + 1)) /\ ~(r <= c) /\ r - c = j /\ j \in 1..(n - m + 1) /\ m + j - 1 = i
      BY <1>1, <1>2, <2>2
    <3>. HIDE DEF j, r
    <3>5. x[r] = v[j] /\ v[j] = s[i]
      BY <1>4, <1>5, <3>4
    <3>. QED  BY <3>3, <3>5 DEF r, j
  <2>. QED  BY <2>1, <2>2
<1>. QED  BY <1>5, <1>7, <1>8 DEF Picks, x, v

\* The places below end that are in the word once the loop has got there.
KeptBelow(s, end) == {i \in 1..(end - 1) : ~(s[i] = "\\" /\ i + 1 < end /\ s[i + 1] = "q")}

WordStates(S, s) == [word : Seq(S), end : 1..(Len(s) + 1)]

\* The word is what is kept of the text below end, and the delimiters below are quoted.
Unquoted(s, b) ==
  /\ Picks(s, b.word, KeptBelow(s, b.end))
  /\ b.end <= Len(s) => s[b.end] = "q"
  /\ \A i \in 1..(b.end - 1) : s[i] = "q" => i > 1 /\ s[i - 1] = "\\"

LEMMA NextDelimiterIs ==
  ASSUME NEW S, NEW s \in Seq(S), NEW from \in 1..(Len(s) + 1)
  PROVE  LET next == NextDelimiter(s, "q", from) IN
         /\ next \in from..(Len(s) + 1)
         /\ next <= Len(s) => s[next] = "q"
         /\ \A i \in from..(next - 1) : s[i] # "q"
<1>. DEFINE A == {k \in from..Len(s) : s[k] = "q"}
            next == FirstOr(A, Len(s) + 1)
<1>1. Len(s) \in Nat /\ from \in Nat /\ from <= Len(s) + 1 /\ A \subseteq from..Len(s) /\ A \subseteq Nat
  BY LenProperties
<1>2. NextDelimiter(s, "q", from) = next
  BY DEF NextDelimiter
<1>3. \A k \in from..Len(s) : k \in A <=> s[k] = "q"
  OBVIOUS
<1>. HIDE DEF A, next
<1>4. \/ A = {} /\ next = Len(s) + 1
      \/ A # {} /\ next \in A /\ \A a \in A : next <= a
  BY <1>1, FirstIs DEF next
<1>5. CASE A = {}
  BY <1>1, <1>2, <1>3, <1>4, <1>5
<1>6. CASE A # {}
  <2>1. next \in from..Len(s) /\ s[next] = "q" /\ \A a \in A : next <= a
    BY <1>1, <1>3, <1>4, <1>6
  <2>2. \A i \in from..(next - 1) : i \in from..Len(s) /\ i < next
    BY <1>1, <2>1
  <2>3. \A i \in from..(next - 1) : i \notin A
    BY <1>1, <2>1, <2>2
  <2>. QED  BY <1>1, <1>2, <1>3, <2>1, <2>2, <2>3
<1>. QED  BY <1>5, <1>6

\* The word ends with the character in front of the delimiter.
LEMMA EndsQuotedIs ==
  ASSUME NEW S, NEW s \in Seq(S), NEW b \in WordStates(S, s), Unquoted(s, b)
  PROVE  /\ EndsQuoted(b.word) <=> b.end > 1 /\ s[b.end - 1] = "\\"
         /\ b.end > 1 => /\ Shortened(b.word) \in Seq(S)
                         /\ Picks(s, Shortened(b.word), KeptBelow(s, b.end) \ {b.end - 1})
<1>1. Len(s) \in Nat /\ b.word \in Seq(S) /\ b.end \in 1..(Len(s) + 1)
  BY LenProperties DEF WordStates
<1>. DEFINE K == KeptBelow(s, b.end)
<1>2. Picks(s, b.word, K)
  BY DEF Unquoted
<1>3. CASE b.end = 1
  <2>1. K = {}
    BY <1>3 DEF KeptBelow
  <2>2. Len(b.word) = 0
    BY <1>2, <2>1, FS_EmptySet DEF Picks
  <2>3. b.word = <<>>
    BY <1>1, <2>2, EmptySeq
  <2>. QED  BY <1>3, <2>3 DEF EndsQuoted
<1>4. CASE b.end # 1
  <2>. DEFINE m == b.end - 1
              K1 == K \ {m}
  <2>1. m \in 1..Len(s) /\ b.end > 1
    BY <1>1, <1>4
  <2>2. m \in K /\ K \subseteq 1..m
    BY <1>1, <2>1 DEF KeptBelow
  <2>3. K1 \subseteq 1..(m - 1) /\ K = K1 \cup {m}
    <3>1. m \in Nat /\ \A k \in K : k \in 1..m
      BY <1>1, <2>1, <2>2
    <3>. HIDE DEF K, m
    <3>2. \A k \in 1..m : k # m => k \in 1..(m - 1)
      BY <3>1
    <3>. QED  BY <2>2, <3>1, <3>2
  <2>. HIDE DEF K, K1, m
  <2>4. Picks(s, b.word, K1 \cup {m})
    BY <1>2, <2>3
  <2>5. /\ b.word # <<>> /\ b.word[Len(b.word)] = s[m]
        /\ Shortened(b.word) \in Seq(S) /\ Picks(s, Shortened(b.word), K1)
    <3>. DEFINE w == b.word
    <3>1. w \in Seq(S) /\ Picks(s, w, K1 \cup {m})
      BY <1>1, <2>4
    <3>. HIDE DEF w
    <3>2. w # <<>> /\ w[Len(w)] = s[m] /\ Shortened(w) \in Seq(S) /\ Picks(s, Shortened(w), K1)
      BY <2>1, <2>3, <3>1, PicksLast
    <3>. QED  BY <3>2 DEF w
  <2>. QED  BY <2>1, <2>5 DEF EndsQuoted, m, K1, K
<1>. QED  BY <1>3, <1>4

\* A round keeps that, and gets on if there is something to do.
LEMMA RoundUnquotes ==
  ASSUME NEW S, NEW s \in Seq(S), NEW b \in WordStates(S, s), Unquoted(s, b)
  PROVE  LET r == UnquoteRound(s, "q", b) IN
         /\ r \in WordStates(S, s) /\ Unquoted(s, r)
         /\ IF b.end > Len(s) \/ ~EndsQuoted(b.word) THEN r = b ELSE b.end < r.end
<1>. DEFINE r == UnquoteRound(s, "q", b)
            L == Len(s)
            e == b.end
            next == NextDelimiter(s, "q", e + 1)
<1>1. L \in Nat /\ b.word \in Seq(S) /\ e \in 1..(L + 1)
  BY LenProperties DEF WordStates
<1>2. CASE e > L \/ ~EndsQuoted(b.word)
  BY <1>2 DEF UnquoteRound
<1>3. CASE ~(e > L \/ ~EndsQuoted(b.word))
  <2>. DEFINE K == KeptBelow(s, e)
              word == Shortened(b.word) \o SubSeq(s, e, next - 1)
  <2>1. r = [word |-> word, end |-> next]
    BY <1>3 DEF UnquoteRound
  <2>2. e \in 2..L /\ s[e - 1] = "\\" /\ s[e] = "q"
    <3>1. e > 1 /\ s[e - 1] = "\\"
      BY <1>3, EndsQuotedIs
    <3>2. e <= L /\ s[e] = "q"
      BY <1>1, <1>3 DEF Unquoted
    <3>. QED  BY <1>1, <3>1, <3>2
  <2>3. next \in (e + 1)..(L + 1) /\ (next <= L => s[next] = "q") /\ \A i \in (e + 1)..(next - 1) : s[i] # "q"
    <3>1. e + 1 \in 1..(L + 1)
      BY <1>1, <2>2
    <3>. QED  BY <3>1, NextDelimiterIs
  <2>4. Shortened(b.word) \in Seq(S) /\ Picks(s, Shortened(b.word), K \ {e - 1})
    <3>1. e > 1
      BY <1>1, <2>2
    <3>. QED  BY <3>1, EndsQuotedIs
  <2>. HIDE DEF next, K, r
  <2>5. K \ {e - 1} \subseteq 1..(e - 1) /\ e \in 1..(L + 1) /\ next - 1 \in (e - 1)..L
    BY <1>1, <2>2, <2>3 DEF K, KeptBelow
  <2>6. word \in Seq(S) /\ Picks(s, word, (K \ {e - 1}) \cup e..(next - 1))
    <3>. DEFINE n == next - 1
                K1 == K \ {e - 1}
    <3>1. Picks(s, Shortened(b.word), K1) /\ K1 \subseteq 1..(e - 1) /\ n \in (e - 1)..L
      BY <2>4, <2>5
    <3>. HIDE DEF n, K1
    <3>2. /\ Shortened(b.word) \o SubSeq(s, e, n) \in Seq(S)
          /\ Picks(s, Shortened(b.word) \o SubSeq(s, e, n), K1 \cup e..n)
      BY <2>4, <2>5, <3>1, PicksAdd
    <3>. QED  BY <3>2 DEF n, K1
  <2>7. KeptBelow(s, next) = (K \ {e - 1}) \cup e..(next - 1)
    <3>1. ASSUME NEW i \in 1..(next - 1)
          PROVE  i \in KeptBelow(s, next) <=> i \in (K \ {e - 1}) \cup e..(next - 1)
      <4>1. i \in KeptBelow(s, next) <=> ~(s[i] = "\\" /\ i + 1 < next /\ s[i + 1] = "q")
        BY DEF KeptBelow
      <4>2. CASE i \in 1..(e - 2)
        <5>1. i \in K <=> ~(s[i] = "\\" /\ i + 1 < e /\ s[i + 1] = "q")
          BY <2>2, <4>2 DEF K, KeptBelow
        <5>2. i + 1 < e /\ i + 1 < next /\ i # e - 1 /\ i \notin e..(next - 1)
          BY <1>1, <2>2, <2>3, <4>2
        <5>. QED  BY <4>1, <5>1, <5>2
      <4>3. CASE i = e - 1
        <5>1. s[i] = "\\" /\ i + 1 < next /\ s[i + 1] = "q" /\ i \notin e..(next - 1)
          BY <1>1, <2>2, <2>3, <4>3
        <5>. QED  BY <4>1, <4>3, <5>1
      <4>4. CASE i = e
        <5>1. s[i] # "\\" /\ i \in e..(next - 1)
          BY <1>1, <2>2, <2>3, <4>4
        <5>. QED  BY <4>1, <5>1
      <4>5. CASE i \in (e + 1)..(next - 1)
        <5>1. i + 1 < next => i + 1 \in (e + 1)..(next - 1)
          BY <1>1, <2>2, <2>3, <4>5
        <5>2. i \in e..(next - 1)
          BY <1>1, <2>2, <2>3, <4>5
        <5>. QED  BY <2>3, <4>1, <5>1, <5>2
      <4>6. i \in 1..(e - 2) \/ i = e - 1 \/ i = e \/ i \in (e + 1)..(next - 1)
        BY <1>1, <2>2, <2>3
      <4>. QED  BY <4>2, <4>3, <4>4, <4>5, <4>6
    <3>2. KeptBelow(s, next) \subseteq 1..(next - 1)
      BY DEF KeptBelow
    <3>3. (K \ {e - 1}) \cup e..(next - 1) \subseteq 1..(next - 1)
      BY <1>1, <2>2, <2>3, <2>5
    <3>. QED  BY <3>1, <3>2, <3>3
  <2>8. \A i \in 1..(next - 1) : s[i] = "q" => i > 1 /\ s[i - 1] = "\\"
    <3>. SUFFICES ASSUME NEW i \in 1..(next - 1), s[i] = "q"  PROVE i > 1 /\ s[i - 1] = "\\"
      OBVIOUS
    <3>1. i \in 1..(e - 1) \/ i = e \/ i \in (e + 1)..(next - 1)
      BY <1>1, <2>2, <2>3
    <3>2. i \in 1..(e - 1) => i > 1 /\ s[i - 1] = "\\"
      BY DEF Unquoted
    <3>. QED  BY <1>1, <2>2, <2>3, <3>1, <3>2
  <2>. HIDE DEF word
  <2>9. r.word = word /\ r.end = next
    BY <2>1
  <2>10. r \in WordStates(S, s)
    <3>1. next \in 1..(L + 1)
      BY <1>1, <2>2, <2>3
    <3>. QED  BY <2>1, <2>6, <3>1 DEF WordStates
  <2>11. Unquoted(s, r)
    BY <2>3, <2>6, <2>7, <2>8, <2>9 DEF Unquoted
  <2>12. e < r.end
    BY <1>1, <2>3, <2>9
  <2>. QED  BY <1>3, <2>10, <2>11, <2>12 DEF r
<1>. QED  BY <1>2, <1>3

\* The loop goes on until there is nothing to do, and its rounds are enough for that.
LEMMA UnquoteIs ==
  ASSUME NEW S, NEW s \in Seq(S), NEW e \in 1..(Len(s) + 1),
         Unquoted(s, [word |-> Upto(s, e - 1), end |-> e])
  PROVE  LET b == Unquote(s, "q", e) IN
         b \in WordStates(S, s) /\ Unquoted(s, b) /\ (b.end > Len(s) \/ ~EndsQuoted(b.word))
<1>. DEFINE D == WordStates(S, s)
            L == Len(s)
            start == [word |-> Upto(s, e - 1), end |-> e]
            I == {b \in D : Unquoted(s, b)}
            R(b) == UnquoteRound(s, "q", b)
            Ended(b) == b.end > L \/ ~EndsQuoted(b.word)
            G == [n \in Nat |-> [f \in [Nat -> I] |-> IF n = 0 THEN start ELSE R(f[n - 1])]]
            w == CHOOSE f : f = [n \in Nat |-> IF n = 0 THEN start ELSE R(f[n - 1])]
<1>1. L \in Nat /\ \A b \in D : b.end \in 1..(L + 1)
  BY LenProperties DEF WordStates
<1>2. start \in I
  <2>1. e - 1 \in 0..L
    BY <1>1
  <2>2. Upto(s, e - 1) \in Seq(S)
    BY <2>1, UptoIs
  <2>. QED  BY <2>2 DEF WordStates
<1>3. \A b \in I : R(b) \in I /\ (IF Ended(b) THEN R(b) = b ELSE b.end < R(b).end)
  <2>. TAKE b \in I
  <2>. DEFINE r == R(b)
  <2>1. b \in D /\ Unquoted(s, b)
    OBVIOUS
  <2>2. /\ r \in D /\ Unquoted(s, r)
        /\ IF b.end > L \/ ~EndsQuoted(b.word) THEN r = b ELSE b.end < r.end
    BY <2>1, RoundUnquotes
  <2>. HIDE DEF r, D
  <2>. QED  BY <2>2 DEF r
<1>4. Unquote(s, "q", e) = w[L]
  BY DEF Unquote
<1>5. I \subseteq D /\ \A b \in I : Unquoted(s, b)
  OBVIOUS
<1>. HIDE DEF D, I, R, Ended, start
<1>6. Recursion(I, G)
  <2>1. \A n \in Nat : \A f \in [Nat -> I] : (IF n = 0 THEN start ELSE R(f[n - 1])) \in I
    <3>1. \A n \in Nat : n # 0 => n - 1 \in Nat
      OBVIOUS
    <3>. QED  BY <1>2, <1>3, <3>1
  <2>2. \A n \in Nat : \A f \in [Nat -> I] : G[n][f] = IF n = 0 THEN start ELSE R(f[n - 1])
    OBVIOUS
  <2>3. G \in [Nat -> [[Nat -> I] -> I]]
    BY <2>1
  <2>. HIDE DEF G
  <2>4. ASSUME NEW n \in Nat, NEW f \in [Nat -> I], NEW g \in [Nat -> I],
               \A k \in 0..(n - 1) : f[k] = g[k]
        PROVE  G[n][f] = G[n][g]
    <3>1. n # 0 => n - 1 \in 0..(n - 1)
      OBVIOUS
    <3>2. n # 0 => f[n - 1] = g[n - 1]
      BY <2>4, <3>1
    <3>. QED  BY <2>2, <3>2
  <2>. QED  BY <2>3, <2>4 DEF Recursion
<1>7. PICK f : Solution(I, G, f)
  <2>. HIDE DEF G
  <2>. QED  BY <1>2, <1>6, RecursionExists
<1>8. f = [n \in Nat |-> IF n = 0 THEN start ELSE R(f[n - 1])]
  <2>1. f \in [Nat -> I] /\ \A n \in Nat : f[n] = IF n = 0 THEN start ELSE R(f[n - 1])
    BY <1>7 DEF Solution
  <2>. QED  BY <2>1
<1>9. w = [n \in Nat |-> IF n = 0 THEN start ELSE R(w[n - 1])]
  <2>1. \E g : g = [n \in Nat |-> IF n = 0 THEN start ELSE R(g[n - 1])]
    BY <1>8
  <2>. QED  BY <2>1, Zenon
<1>. HIDE DEF w
<1>10. w[0] = start /\ \A n \in Nat : w[n + 1] = R(w[n])
  <2>1. \A n \in Nat : w[n] = IF n = 0 THEN start ELSE R(w[n - 1])
    BY <1>9
  <2>2. \A n \in Nat : n + 1 \in Nat /\ n + 1 # 0 /\ (n + 1) - 1 = n
    OBVIOUS
  <2>3. 0 \in Nat
    OBVIOUS
  <2>. QED  BY <2>1, <2>2, <2>3, Zenon
\* As long as it has not ended, each round gets a place further at least.
<1>11. \A n \in Nat : w[n] \in I /\ (Ended(w[n]) \/ w[n].end > n)
  <2>. DEFINE U == {n \in Nat : w[n] \in I /\ (Ended(w[n]) \/ w[n].end > n)}
  <2>1. 0 \in U
    <3>1. start.end \in 1..(L + 1)
      BY <1>1, <1>2, <1>5
    <3>2. start.end > 0
      BY <1>1, <3>1
    <3>. QED  BY <1>2, <1>10, <3>2
  <2>2. ASSUME NEW n \in Nat, n \in U  PROVE n + 1 \in U
    <3>. DEFINE b == w[n]
    <3>1. b \in I /\ (Ended(b) \/ b.end > n) /\ w[n + 1] = R(b) /\ n + 1 \in Nat
      BY <1>10, <2>2
    <3>. HIDE DEF b, U
    <3>2. R(b) \in I /\ (IF Ended(b) THEN R(b) = b ELSE b.end < R(b).end)
      BY <1>3, <3>1
    <3>3. b.end \in Nat /\ R(b).end \in Nat
      BY <1>1, <1>5, <3>1, <3>2
    <3>4. Ended(R(b)) \/ R(b).end > n + 1
      <4>1. CASE Ended(b)
        BY <3>2, <4>1
      <4>2. CASE ~Ended(b)
        <5>1. b.end > n /\ b.end < R(b).end
          BY <3>1, <3>2, <4>2
        <5>2. R(b).end > n + 1
          BY <3>3, <5>1
        <5>. QED  BY <5>2
      <4>. QED  BY <4>1, <4>2
    <3>5. w[n + 1] \in I /\ (Ended(w[n + 1]) \/ w[n + 1].end > n + 1)
      BY <3>1, <3>2, <3>4
    <3>. QED  BY <3>1, <3>5 DEF U
  <2>. HIDE DEF U
  <2>3. \A n \in Nat : n \in U
    BY <2>1, <2>2, SetInduction
  <2>. QED  BY <2>3 DEF U
<1>12. w[L] \in I /\ Ended(w[L])
  BY <1>1, <1>11 DEF Ended
<1>. QED  BY <1>4, <1>5, <1>12 DEF Ended, D

\* What is behind the end of a word, without whitespace.
LEMMA RestIs ==
  ASSUME NEW S, NEW s \in Seq(S), NEW end \in 1..(Len(s) + 1), NEW c
  PROVE  LET rest == From(s, end + 1) IN
         From(s, SkipWhite(s, c, end + 1)) =
           From(rest, FirstOr(DOMAIN rest \ PlacesOf(rest, {c}), Len(rest) + 1))
<1>. DEFINE L == Len(s)
            rest == From(s, end + 1)
            B == {k \in (end + 1)..L : s[k] # c}
            A == DOMAIN rest \ PlacesOf(rest, {c})
            n == FirstOr(A, Len(rest) + 1)
<1>1. L \in Nat /\ SkipWhite(s, c, end + 1) = FirstOr(B, L + 1)
  BY LenProperties DEF SkipWhite
<1>2. CASE end = L + 1
  <2>1. rest = <<>>
    <3>1. \A j \in (end + 1)..L : s[j] \in S
      BY <1>1, <1>2
    <3>2. SubSeq(s, end + 1, L) \in Seq(S) /\ Len(SubSeq(s, end + 1, L)) = IF end + 1 <= L THEN L - (end + 1) + 1 ELSE 0
      <4>. HIDE DEF L
      <4>. QED  BY <1>1, <3>1, SubSeqProperties
    <3>. QED  BY <1>1, <1>2, <3>2, EmptySeq DEF From
  <2>2. B = {} /\ A = {}
    BY <1>1, <1>2, <2>1 DEF PlacesOf
  <2>3. FirstOr(B, L + 1) = L + 1 /\ n = 1
    <3>1. Len(<<>>) + 1 = 1
      BY EmptySeq
    <3>. QED  BY <2>1, <2>2, <3>1 DEF FirstOr
  <2>4. From(s, L + 1) = <<>>
    <3>1. L + 1 \in 1..(Len(s) + 1) /\ Len(s) - (L + 1) + 1 = 0
      BY <1>1
    <3>2. From(s, L + 1) \in Seq(S) /\ Len(From(s, L + 1)) = Len(s) - (L + 1) + 1
      BY <3>1, FromIs
    <3>. QED  BY <3>1, <3>2, EmptySeq
  <2>5. From(rest, 1) = <<>>
    <3>1. <<>> \in Seq(S) /\ Len(<<>>) = 0
      BY EmptySeq
    <3>2. 1 \in 1..(Len(<<>>) + 1) /\ Len(<<>>) - 1 + 1 = 0
      BY <3>1
    <3>3. From(<<>>, 1) \in Seq(S) /\ Len(From(<<>>, 1)) = Len(<<>>) - 1 + 1
      BY <3>1, <3>2, FromIs
    <3>. QED  BY <2>1, <3>2, <3>3, EmptySeq
  <2>. QED  BY <1>1, <2>3, <2>4, <2>5
<1>3. CASE end # L + 1
  <2>0. end + 1 \in 1..(L + 1)
    BY <1>1, <1>3
  <2>1. rest \in Seq(S) /\ Len(rest) = L - end /\ \A j \in 1..(L - end) : rest[j] = s[end + j]
    <3>1. L - (end + 1) + 1 = L - end /\ \A j \in 1..(L - end) : (end + 1) + j - 1 = end + j
      BY <1>1
    <3>2. /\ From(s, end + 1) \in Seq(S) /\ Len(From(s, end + 1)) = L - (end + 1) + 1
          /\ \A j \in 1..(L - (end + 1) + 1) : From(s, end + 1)[j] = s[(end + 1) + j - 1]
      BY <2>0, FromIs
    <3>. QED  BY <3>1, <3>2
  <2>2. DOMAIN rest = 1..(L - end)
    BY <2>1, LenProperties
  <2>. HIDE DEF rest
  <2>3. A = {j \in 1..(L - end) : s[end + j] # c}
    BY <2>1, <2>2 DEF PlacesOf
  <2>. HIDE DEF A
  <2>4. FirstOr(B, L + 1) = n + end
    <3>1. A \subseteq Nat /\ B \subseteq Nat /\ end \in Nat
      BY <1>1, <2>3
    <3>2. \A b \in B : b - end \in A
      <4>1. \A b \in B : b - end \in 1..(L - end) /\ end + (b - end) = b
        BY <1>1
      <4>. QED  BY <2>3, <4>1
    <3>3. \A a \in A : a + end \in B
      <4>1. \A a \in A : a + end \in (end + 1)..L /\ a + end = end + a
        BY <1>1, <2>3
      <4>. QED  BY <2>3, <4>1
    <3>. DEFINE x == Len(rest) + 1
    <3>4. x \in Nat /\ L + 1 = x + end
      BY <1>1, <1>3, <2>1
    <3>. HIDE DEF x, B
    <3>. QED  BY <3>1, <3>2, <3>3, <3>4, FirstMoved DEF x
  <2>5. n \in 1..(L - end + 1)
    <3>1. A \subseteq Nat /\ A \subseteq 1..(L - end)
      BY <2>3
    <3>2. n \in A \/ n = L - end + 1
      BY <2>1, <3>1, FirstIs
    <3>3. L - end \in Nat
      BY <1>1, <1>3
    <3>. DEFINE d == L - end
    <3>. HIDE DEF n, d
    <3>4. d \in Nat /\ (n \in 1..d \/ n = d + 1)
      BY <3>1, <3>2, <3>3 DEF d
    <3>5. n \in 1..(d + 1)
      <4>1. CASE n \in 1..d
        BY <3>4, <4>1
      <4>2. CASE n = d + 1
        BY <3>4, <4>2
      <4>. QED  BY <3>4, <4>1, <4>2
    <3>. QED  BY <3>5 DEF d
  <2>. HIDE DEF n
  <2>6. From(rest, n) \in Seq(S) /\ Len(From(rest, n)) = L - end - n + 1
        /\ \A j \in 1..(L - end - n + 1) : From(rest, n)[j] = s[end + n + j - 1]
    <3>1. n \in 1..(Len(rest) + 1)
      BY <1>1, <2>1, <2>5
    <3>5. From(rest, n) \in Seq(S) /\ Len(From(rest, n)) = Len(rest) - n + 1
          /\ \A j \in 1..(Len(rest) - n + 1) : From(rest, n)[j] = rest[n + j - 1]
      BY <2>1, <3>1, FromIs
    <3>2. From(rest, n) \in Seq(S) /\ Len(From(rest, n)) = L - end - n + 1
          /\ \A j \in 1..(L - end - n + 1) : From(rest, n)[j] = rest[n + j - 1]
      BY <2>1, <3>5
    <3>3. \A j \in 1..(L - end - n + 1) : n + j - 1 \in 1..(L - end) /\ end + (n + j - 1) = end + n + j - 1
      BY <1>1, <2>5
    <3>. QED  BY <2>1, <3>2, <3>3
  <2>7. From(s, n + end) \in Seq(S) /\ Len(From(s, n + end)) = L - end - n + 1
        /\ \A j \in 1..(L - end - n + 1) : From(s, n + end)[j] = s[end + n + j - 1]
    <3>1. n + end \in 1..(Len(s) + 1)
      BY <1>1, <2>5
    <3>2. Len(s) - (n + end) + 1 = L - end - n + 1
      BY <1>1, <2>5
    <3>3. \A j \in 1..(L - end - n + 1) : n + end + j - 1 = end + n + j - 1
      BY <1>1, <2>5
    <3>4. From(s, n + end) \in Seq(S) /\ Len(From(s, n + end)) = Len(s) - (n + end) + 1
          /\ \A j \in 1..(Len(s) - (n + end) + 1) : From(s, n + end)[j] = s[n + end + j - 1]
      BY <3>1, FromIs
    <3>. QED  BY <3>2, <3>3, <3>4
  <2>8. From(s, n + end) = From(rest, n)
    <3>. DEFINE m == L - end - n + 1
    <3>1. Len(From(s, n + end)) = m /\ Len(From(rest, n)) = m
          /\ \A j \in 1..m : From(s, n + end)[j] = From(rest, n)[j]
      BY <2>6, <2>7
    <3>. HIDE DEF m
    <3>. QED  BY <2>6, <2>7, <3>1, SeqEqual
  <2>. QED  BY <1>1, <2>4, <2>8 DEF n, rest, A
<1>. QED  BY <1>2, <1>3

\* The word goes on to the first delimiter that is not quoted, and is what it says without
\* the quotes of delimiters and one at the very end.
LEMMA WordIs ==
  ASSUME NEW S, text \in Seq(S)
  PROVE  SkipsQuoted
<1>. SUFFICES ASSUME asked = "word"  PROVE SkipsQuoted
  BY DEF SkipsQuoted
<1>. DEFINE s == text
            L == Len(s)
            e == NextDelimiter(s, "q", 1)
            b == Unquote(s, "q", e)
            left == SkipQuoted(s, "q", "sp")
            ends == {i \in DOMAIN s : s[i] = "q" /\ ~Quoted(i)}
            end == FirstOr(ends, L + 1)
            rest == From(s, end + 1)
            behind == From(rest, FirstOr(DOMAIN rest \ PlacesOf(rest, {"sp"}), Len(rest) + 1))
            gone == {i \in 1..(end - 1) : s[i] = "\\" /\ (i = L \/ s[i + 1] = "q")}
            kept == (1..(end - 1)) \ gone
<1>1. L \in Nat /\ DOMAIN s = 1..L
  BY LenProperties
<1>2. /\ e \in 1..(L + 1) /\ (e <= L => s[e] = "q") /\ \A i \in 1..(e - 1) : s[i] # "q"
  <2>1. 1 \in 1..(L + 1)
    BY <1>1
  <2>. QED  BY <2>1, NextDelimiterIs
<1>. HIDE DEF e
<1>3. Unquoted(s, [word |-> Upto(s, e - 1), end |-> e])
  <2>1. e - 1 \in 0..L
    BY <1>1, <1>2
  <2>2. Picks(s, Upto(s, e - 1), 1..(e - 1))
    BY <2>1, PicksAll
  <2>3. KeptBelow(s, e) = 1..(e - 1)
    <3>1. \A i \in 1..(e - 1) : i + 1 < e => s[i + 1] # "q"
      BY <1>1, <1>2
    <3>. QED  BY <3>1 DEF KeptBelow
  <2>. QED  BY <1>2, <2>2, <2>3 DEF Unquoted
<1>4. b \in WordStates(S, s) /\ Unquoted(s, b) /\ (b.end > L \/ ~EndsQuoted(b.word))
  BY <1>2, <1>3, UnquoteIs
<1>. HIDE DEF b
<1>5. b.word \in Seq(S) /\ b.end \in 1..(L + 1)
  BY <1>4 DEF WordStates
<1>6. /\ left.word = IF b.end > L /\ EndsQuoted(b.word) THEN Shortened(b.word) ELSE b.word
      /\ left.rest = From(s, SkipWhite(s, "sp", b.end + 1))
  BY DEF SkipQuoted, b, e
<1>7. EndsQuoted(b.word) <=> b.end > 1 /\ s[b.end - 1] = "\\"
  BY <1>4, EndsQuotedIs
<1>8. /\ Picks(s, b.word, KeptBelow(s, b.end)) /\ (b.end <= L => s[b.end] = "q")
      /\ \A i \in 1..(b.end - 1) : s[i] = "q" => i > 1 /\ s[i - 1] = "\\"
  BY <1>4 DEF Unquoted
<1>9. end = b.end
  <2>1. \A i \in ends : i \in 1..L /\ s[i] = "q" /\ ~(i > 1 /\ s[i - 1] = "\\")
    BY <1>1 DEF Quoted
  <2>2. \A i \in 1..L : s[i] = "q" /\ ~(i > 1 /\ s[i - 1] = "\\") => i \in ends
    BY <1>1 DEF Quoted
  <2>. HIDE DEF ends
  <2>3. \A i \in ends : b.end <= i
    BY <1>1, <1>5, <1>8, <2>1
  <2>4. b.end <= L => b.end \in ends
    <3>. SUFFICES ASSUME b.end <= L  PROVE b.end \in ends
      OBVIOUS
    <3>1. b.end \in 1..L /\ s[b.end] = "q" /\ ~(b.end > 1 /\ s[b.end - 1] = "\\")
      BY <1>1, <1>4, <1>5, <1>7, <1>8
    <3>. QED  BY <2>2, <3>1
  <2>5. ends \subseteq Nat
    BY <1>1, <2>1
  <2>6. \/ ends = {} /\ end = L + 1
        \/ ends # {} /\ end \in ends /\ \A i \in ends : end <= i
    BY <2>5, FirstIs
  <2>. HIDE DEF end
  <2>7. CASE ends = {}
    BY <1>1, <1>5, <2>4, <2>6, <2>7
  <2>8. CASE ends # {}
    <3>1. end \in 1..L /\ b.end <= end
      BY <2>1, <2>3, <2>6, <2>8
    <3>2. b.end <= L /\ end <= b.end
      BY <1>1, <1>5, <2>4, <2>6, <2>8, <3>1
    <3>. QED  BY <1>1, <1>5, <3>1, <3>2
  <2>. QED  BY <2>7, <2>8
<1>. HIDE DEF end
<1>10. Picks(s, left.word, kept)
  <2>1. CASE b.end > L /\ EndsQuoted(b.word)
    <3>1. b.end = L + 1 /\ L > 0 /\ s[L] = "\\"
      BY <1>1, <1>5, <1>7, <2>1
    <3>2. kept = KeptBelow(s, b.end) \ {b.end - 1}
      <4>0. end - 1 = L
        <5>. HIDE DEF L
        <5>. QED  BY <1>1, <1>9, <3>1
      <4>1. \A i \in 1..L : i \in kept <=> ~(s[i] = "\\" /\ (i = L \/ s[i + 1] = "q"))
        <5>. HIDE DEF L
        <5>. QED  BY <4>0
      <4>2. \A i \in 1..L : i \in KeptBelow(s, b.end) <=> ~(s[i] = "\\" /\ i + 1 < b.end /\ s[i + 1] = "q")
        BY <1>1, <3>1 DEF KeptBelow
      <4>3. kept \subseteq 1..L /\ KeptBelow(s, b.end) \subseteq 1..L
        BY <1>1, <1>9, <3>1 DEF KeptBelow
      <4>4. b.end - 1 = L /\ \A i \in 1..L : i # L <=> i + 1 < b.end
        <5>. HIDE DEF L
        <5>. QED  BY <1>1, <3>1
      <4>. HIDE DEF kept
      <4>. QED  BY <3>1, <4>1, <4>2, <4>3, <4>4
    <3>3. Picks(s, Shortened(b.word), KeptBelow(s, b.end) \ {b.end - 1})
      <4>1. b.end > 1
        BY <1>7, <2>1
      <4>. QED  BY <1>4, <4>1, EndsQuotedIs
    <3>. QED  BY <1>6, <2>1, <3>2, <3>3
  <2>2. CASE ~(b.end > L /\ EndsQuoted(b.word))
    <3>1. kept = KeptBelow(s, b.end)
      <4>1. \A i \in 1..(b.end - 1) : i \in kept <=> ~(s[i] = "\\" /\ (i = L \/ s[i + 1] = "q"))
        BY <1>9
      <4>2. \A i \in 1..(b.end - 1) : i \in KeptBelow(s, b.end) <=> ~(s[i] = "\\" /\ i + 1 < b.end /\ s[i + 1] = "q")
        BY DEF KeptBelow
      <4>3. kept \subseteq 1..(b.end - 1) /\ KeptBelow(s, b.end) \subseteq 1..(b.end - 1)
        BY <1>9 DEF KeptBelow
      <4>4. s[b.end - 1] # "\\" \/ b.end = 1
        BY <1>1, <1>4, <1>5, <1>7, <2>2
      <4>5. \A i \in 1..(b.end - 1) : i + 1 < b.end \/ i = b.end - 1
        BY <1>1, <1>5
      <4>6. \A i \in 1..(b.end - 1) : i + 1 < b.end => i # L
        <5>. HIDE DEF L
        <5>. QED  BY <1>1, <1>5
      <4>. HIDE DEF kept
      <4>7. ASSUME NEW i \in 1..(b.end - 1)  PROVE i \in kept <=> i \in KeptBelow(s, b.end)
        <5>1. CASE i + 1 < b.end
          BY <4>1, <4>2, <4>6, <5>1
        <5>2. CASE i = b.end - 1
          <6>1. s[i] # "\\"
            BY <1>1, <1>5, <4>4, <5>2
          <6>. QED  BY <4>1, <4>2, <6>1
        <5>. QED  BY <4>5, <5>1, <5>2
      <4>. QED  BY <4>3, <4>7
    <3>. QED  BY <1>6, <1>8, <2>2, <3>1
  <2>. QED  BY <2>1, <2>2
<1>. HIDE DEF left, kept
<1>11. /\ Len(left.word) = Cardinality(kept)
       /\ \A i \in kept : left.word[Cardinality({k \in kept : k <= i})] = s[i]
  BY <1>10 DEF Picks, Rank
<1>12. left.rest = behind
  <2>1. end \in 1..(Len(s) + 1)
    BY <1>5, <1>9
  <2>. QED  BY <1>6, <1>9, <2>1, RestIs
<1>. QED  BY <1>11, <1>12 DEF SkipsQuoted, left, kept, end

\* The functions that read the head of a request and what is in it do so as documented,
\* for texts of any characters and any length.
THEOREM RequestsAreRead == TextSpec => []ReadsRight
<1>1. TextTyped => ReadsRight
  <2>. SUFFICES ASSUME TextTyped  PROVE ReadsRight
    OBVIOUS
  <2>. DEFINE S == Characters \cup {"/", ".", "x", "sp", "a", "="}
  <2>1. Characters \subseteq S /\ {"/", ".", "x", "sp", "a", "="} \subseteq S /\ {"a", "="} \subseteq S
    OBVIOUS
  <2>. HIDE DEF S
  <2>2. text \in Seq(S)
    BY <2>1, SeqMonotonic DEF TextTyped
  <2>3. RequestLenStays
    <3>1. DOMAIN text = 1..Len(text)
      BY <2>2, LenProperties
    <3>. QED  BY <2>2, <3>1, HeadStays DEF RequestLenStays
  <2>. QED  BY <2>1, <2>2, <2>3, CookieIs, VarIs, WordIs DEF ReadsRight
<1>. QED  BY <1>1, TextTypedInit, TextTypedNext, PTL DEF TextSpec

-----------------------------------------------------------------------------
(* match_prefix. *)

\* A star takes as much as lets the rest of the pattern match.
LEMMA StarIs ==
  ASSUME NEW L \in Nat, NEW j \in 1..(L + 1), NEW most \in 0..(L + 1 - j), NEW rest \in [1..(L + 1) -> Int]
  PROVE  /\ Star(j, most, rest) \in Int
         /\ \/ Star(j, most, rest) = -1 /\ \A n \in 0..most : rest[j + n] = -1
            \/ \E n \in 0..most : /\ rest[j + n] # -1 /\ Star(j, most, rest) = n + rest[j + n]
                                  /\ \A k \in 0..most : rest[j + k] # -1 => k <= n
<1>. DEFINE takes == {n \in 0..most : rest[j + n] # -1}
            m == Max(takes)
<1>1. Star(j, most, rest) = IF takes = {} THEN -1 ELSE m + rest[j + m]
  BY DEF Star
<1>2. \A n \in 0..most : j + n \in 1..(L + 1) /\ rest[j + n] \in Int
  OBVIOUS
<1>3. most \in Nat /\ takes \subseteq 0..most /\ \A n \in 0..most : n \in takes <=> rest[j + n] # -1
  OBVIOUS
<1>. HIDE DEF takes
<1>4. CASE takes = {}
  BY <1>1, <1>3, <1>4
<1>5. CASE takes # {}
  <2>1. m \in takes /\ \A k \in takes : k <= m
    BY <1>3, <1>5, GreatestNatural
  <2>. HIDE DEF m
  <2>2. m \in 0..most /\ rest[j + m] # -1 /\ rest[j + m] \in Int
    BY <1>2, <1>3, <2>1
  <2>3. Star(j, most, rest) = m + rest[j + m]
    BY <1>1, <1>5
  <2>4. \A k \in 0..most : rest[j + k] # -1 => k <= m
    BY <1>3, <2>1
  <2>5. Star(j, most, rest) \in Int
    BY <2>2, <2>3
  <2>. HIDE DEF m
  <2>. QED  BY <2>2, <2>3, <2>4, <2>5, Zenon
<1>. QED  BY <1>4, <1>5

\* What the rows of match hold, one by one.
RowAt(p, s, match, i, j) ==
  IF i > Len(p) THEN 0
  ELSE IF p[i] = "$" THEN IF j > Len(s) THEN 0 ELSE -1
  ELSE IF p[i] = "*" THEN
    LET any == i < Len(p) /\ p[i + 1] = "*"
        end == IF any THEN Len(s) + 1 ELSE FirstOr({k \in j..Len(s) : s[k] = "/"}, Len(s) + 1)
    IN  Star(j, end - j, match[i + (IF any THEN 2 ELSE 1)])
  ELSE IF j <= Len(s) /\ p[i] \in {"?", s[j]} THEN Plus(1, match[i + 1][j + 1])
  ELSE -1

\* Where a single star has to stop.
LEMMA SlashIs ==
  ASSUME NEW S, NEW s \in Seq(S), NEW j \in 1..(Len(s) + 1)
  PROVE  LET end == FirstOr({k \in j..Len(s) : s[k] = "/"}, Len(s) + 1) IN
         /\ end \in j..(Len(s) + 1)
         /\ \A n \in j..(Len(s) + 1) : n <= end <=> \A k \in j..(n - 1) : s[k] # "/"
<1>. DEFINE A == {k \in j..Len(s) : s[k] = "/"}
            end == FirstOr(A, Len(s) + 1)
<1>1. Len(s) \in Nat /\ j \in Nat /\ j <= Len(s) + 1
  BY LenProperties
<1>2. \A k \in j..Len(s) : k \in A <=> s[k] = "/"
  OBVIOUS
<1>3. A \subseteq Nat /\ \A a \in A : a \in j..Len(s)
  BY <1>1
<1>. HIDE DEF A
<1>4. \/ A = {} /\ end = Len(s) + 1
      \/ A # {} /\ end \in A /\ \A a \in A : end <= a
  BY <1>3, FirstIs
<1>. HIDE DEF end
<1>5. CASE A = {}
  <2>1. \A k \in j..Len(s) : s[k] # "/"
    BY <1>2, <1>5
  <2>2. \A n \in j..(Len(s) + 1) : n <= end /\ \A k \in j..(n - 1) : k \in j..Len(s)
    BY <1>1, <1>4, <1>5
  <2>3. end \in j..(Len(s) + 1)
    BY <1>1, <1>4, <1>5
  <2>. QED  BY <2>1, <2>2, <2>3 DEF end, A
<1>6. CASE A # {}
  <2>1. end \in j..Len(s) /\ s[end] = "/" /\ \A a \in A : end <= a
    BY <1>2, <1>3, <1>4, <1>6
  <2>2. \A k \in j..(end - 1) : s[k] # "/"
    <3>1. \A k \in j..(end - 1) : k \in j..Len(s) /\ ~(end <= k)
      BY <1>1, <2>1
    <3>. QED  BY <1>2, <2>1, <3>1
  <2>3. ASSUME NEW n \in j..(Len(s) + 1)  PROVE n <= end <=> \A k \in j..(n - 1) : s[k] # "/"
    <3>1. n <= end => \A k \in j..(n - 1) : k \in j..(end - 1)
      BY <1>1, <2>1
    <3>2. ~(n <= end) => end \in j..(n - 1)
      BY <1>1, <2>1
    <3>. QED  BY <2>1, <2>2, <3>1, <3>2
  <2>4. end \in j..(Len(s) + 1)
    BY <1>1, <2>1
  <2>. QED  BY <2>3, <2>4 DEF end, A
<1>. QED  BY <1>5, <1>6

LEMMA RowTyped ==
  ASSUME NEW X, NEW p \in Seq(X), NEW S, NEW s \in Seq(S), NEW i \in 1..(Len(p) + 1), NEW j \in 1..(Len(s) + 1),
         NEW match \in [1..(Len(p) + 1) -> [1..(Len(s) + 1) -> Int]]
  PROVE  RowAt(p, s, match, i, j) \in Int
<1>. DEFINE L == Len(s)
            N == Len(p)
<1>1. L \in Nat /\ N \in Nat
  BY LenProperties
<1>2. CASE i > N \/ p[i] = "$"
  BY <1>2 DEF RowAt
<1>3. CASE ~(i > N) /\ p[i] # "$" /\ p[i] = "*"
  <2>. DEFINE any == i < N /\ p[i + 1] = "*"
              end == IF any THEN L + 1 ELSE FirstOr({k \in j..L : s[k] = "/"}, L + 1)
              rest == match[i + (IF any THEN 2 ELSE 1)]
              most == end - j
  <2>1. end \in j..(L + 1)
    <3>1. FirstOr({k \in j..L : s[k] = "/"}, L + 1) \in j..(L + 1)
      BY SlashIs
    <3>2. L + 1 \in j..(L + 1)
      BY <1>1
    <3>. QED  BY <3>1, <3>2
  <2>2. rest \in [1..(L + 1) -> Int]
    <3>1. i + (IF any THEN 2 ELSE 1) \in 1..(N + 1)
      BY <1>1, <1>3
    <3>. QED  BY <3>1
  <2>3. RowAt(p, s, match, i, j) = Star(j, most, rest)
    BY <1>3 DEF RowAt
  <2>. HIDE DEF any, end, rest
  <2>4. most \in 0..(L + 1 - j)
    BY <1>1, <2>1
  <2>. HIDE DEF most, L, N
  <2>. QED  BY <1>1, <2>2, <2>3, <2>4, StarIs DEF L
<1>4. CASE ~(i > N) /\ p[i] # "$" /\ p[i] # "*"
  <2>1. j <= L => i + 1 \in 1..(N + 1) /\ j + 1 \in 1..(L + 1)
    BY <1>1, <1>4
  <2>2. j <= L => match[i + 1][j + 1] \in Int
    BY <2>1
  <2>. QED  BY <1>4, <2>2 DEF RowAt, Plus
<1>. QED  BY <1>2, <1>3, <1>4

LEMMA RowLocal ==
  ASSUME NEW X, NEW p \in Seq(X), NEW s, NEW i \in 1..(Len(p) + 1), NEW j, NEW f, NEW g,
         \A k \in (i + 1)..(Len(p) + 1) : f[k] = g[k]
  PROVE  RowAt(p, s, f, i, j) = RowAt(p, s, g, i, j)
<1>. DEFINE N == Len(p)
<1>1. N \in Nat /\ i \in Nat
  BY LenProperties
<1>2. i <= N => f[i + 1] = g[i + 1]
  BY <1>1
<1>3. i < N => f[i + 2] = g[i + 2]
  BY <1>1
<1>4. CASE i > N
  BY <1>4 DEF RowAt
<1>5. CASE ~(i > N)
  <2>. DEFINE m == i + (IF i < N /\ p[i + 1] = "*" THEN 2 ELSE 1)
  <2>1. f[i + 1] = g[i + 1]
    BY <1>1, <1>2, <1>5
  <2>2. f[m] = g[m]
    BY <1>3, <2>1
  <2>. QED  BY <2>1, <2>2 DEF RowAt
<1>. QED  BY <1>4, <1>5

\* The rows of match are those of MatchRow.
MatchRows(p, s, match) ==
  /\ match \in [1..(Len(p) + 1) -> [1..(Len(s) + 1) -> Int]]
  /\ \A i \in 1..(Len(p) + 1) : \A j \in 1..(Len(s) + 1) : match[i][j] = RowAt(p, s, match, i, j)

LEMMA MatchOneIs ==
  ASSUME NEW X, NEW p \in Seq(X), NEW S, NEW s \in Seq(S)
  PROVE  \E match : MatchRows(p, s, match) /\ MatchOne(p, s) = match[1][1]
<1>. DEFINE L == Len(s)
            N == Len(p)
            P == 1..(N + 1)
            D == [1..(L + 1) -> Int]
            G == [i \in P |-> [f \in [P -> D] |-> MatchRow(p, s, f, i)]]
            w == CHOOSE match : match = [i \in P |-> MatchRow(p, s, match, i)]
<1>1. L \in Nat /\ N \in Nat
  BY LenProperties
<1>2. \A f : \A i : MatchRow(p, s, f, i) = [j \in 1..(L + 1) |-> RowAt(p, s, f, i, j)]
  BY DEF MatchRow, RowAt
<1>3. \A f \in [P -> D] : \A i \in P : MatchRow(p, s, f, i) \in D
  BY <1>2, RowTyped
<1>4. MatchOne(p, s) = w[1][1]
  BY DEF MatchOne
<1>5. ASSUME NEW i \in P, NEW f, NEW g, \A k \in (i + 1)..(N + 1) : f[k] = g[k]
      PROVE  MatchRow(p, s, f, i) = MatchRow(p, s, g, i)
  <2>1. \A j \in 1..(L + 1) : RowAt(p, s, f, i, j) = RowAt(p, s, g, i, j)
    BY <1>5, RowLocal
  <2>2. [j \in 1..(L + 1) |-> RowAt(p, s, f, i, j)] = [j \in 1..(L + 1) |-> RowAt(p, s, g, i, j)]
    BY <2>1
  <2>3. /\ MatchRow(p, s, f, i) = [j \in 1..(L + 1) |-> RowAt(p, s, f, i, j)]
        /\ MatchRow(p, s, g, i) = [j \in 1..(L + 1) |-> RowAt(p, s, g, i, j)]
    BY <1>2
  <2>. QED  BY <2>2, <2>3
<1>6. P = 1..(N + 1) /\ 1 \in P /\ D # {}
  <2>1. [j \in 1..(L + 1) |-> 0] \in D
    OBVIOUS
  <2>2. P = 1..(N + 1) /\ 1 \in P
    BY <1>1
  <2>. HIDE DEF D, P
  <2>. QED  BY <2>1, <2>2
<1>7. \A i \in P : \A f \in [P -> D] : G[i][f] = MatchRow(p, s, f, i)
  OBVIOUS
<1>8. G \in [P -> [[P -> D] -> D]]
  <2>. HIDE DEF D, P
  <2>. QED  BY <1>3
<1>. HIDE DEF G, D, P
<1>9. RecursionDown(D, N, G)
  <2>1. \A i \in P : \A f, g \in [P -> D] :
          (\A k \in (i + 1)..(N + 1) : f[k] = g[k]) => G[i][f] = G[i][g]
    <3>. SUFFICES ASSUME NEW i \in P, NEW f \in [P -> D], NEW g \in [P -> D],
                         \A k \in (i + 1)..(N + 1) : f[k] = g[k]
                  PROVE  G[i][f] = G[i][g]
      OBVIOUS
    <3>1. MatchRow(p, s, f, i) = MatchRow(p, s, g, i)
      BY <1>5
    <3>. QED  BY <1>7, <3>1
  <2>. QED  BY <1>6, <1>8, <2>1, Zenon DEF RecursionDown
<1>10. PICK f : SolutionDown(D, N, G, f)
  BY <1>1, <1>6, <1>9, RecursionDownExists
<1>11. f = [i \in P |-> MatchRow(p, s, f, i)]
  <2>1. f \in [P -> D] /\ \A i \in P : f[i] = G[i][f]
    BY <1>6, <1>10 DEF SolutionDown
  <2>. QED  BY <1>7, <2>1
<1>12. w = [i \in P |-> MatchRow(p, s, w, i)]
  <2>1. \E g : g = [i \in P |-> MatchRow(p, s, g, i)]
    BY <1>11
  <2>. QED  BY <2>1, Zenon
<1>. HIDE DEF w
<1>13. \A i \in P : w[i] = MatchRow(p, s, w, i)
  BY <1>12
<1>14. \A i \in P : w[i] \in D
  <2>. DEFINE U == {i \in P : w[i] \in D}
  <2>1. PICK d : d \in D
    BY <1>6
  <2>2. ASSUME NEW i \in P, \A k \in (i + 1)..(N + 1) : k \in U  PROVE i \in U
    <3>. DEFINE g == [k \in P |-> IF k \in U THEN w[k] ELSE d]
    <3>1. g \in [P -> D] /\ \A k \in U : g[k] = w[k]
      BY <2>1
    <3>. HIDE DEF g, U
    <3>2. MatchRow(p, s, w, i) = MatchRow(p, s, g, i)
      <4>1. \A k \in (i + 1)..(N + 1) : w[k] = g[k]
        BY <2>2, <3>1
      <4>. QED  BY <1>5, <4>1
    <3>3. w[i] \in D
      BY <1>3, <1>13, <3>1, <3>2
    <3>. QED  BY <3>3 DEF U
  <2>. HIDE DEF U
  <2>3. \A i \in P : i \in U
    <3>1. N \in Nat /\ P = 1..(N + 1)
      BY <1>1, <1>6
    <3>. HIDE DEF N
    <3>. QED  BY <2>2, <3>1, DownInduction
  <2>. QED  BY <2>3 DEF U
<1>15. MatchRows(p, s, w)
  <2>1. w \in [P -> D]
    BY <1>12, <1>14
  <2>2. \A i \in P : \A j \in 1..(L + 1) : w[i][j] = RowAt(p, s, w, i, j)
    BY <1>2, <1>13
  <2>. QED  BY <2>1, <2>2 DEF MatchRows, P, D
<1>. QED  BY <1>4, <1>15

\* The parts of a sequence of sequences one after the other, as far as each of them.
Strung(X, c, w) ==
  /\ w \in [0..Len(c) -> Seq(X)]
  /\ w[0] = <<>> /\ w[Len(c)] = FlattenSeq(c)
  /\ \A k \in 1..Len(c) : w[k] = w[k - 1] \o c[k]

LEMMA FlattenIs ==
  ASSUME NEW X, NEW c \in Seq(Seq(X))
  PROVE  \E w : Strung(X, c, w)
<1>. DEFINE N == Len(c)
            D == Seq(X)
<1>1. N \in Nat /\ <<>> \in D /\ \A k \in 1..N : c[k] \in D
  BY LenProperties, ElementOfSeq, EmptySeq
<1>2. \A x, y \in D : x \o y \in D
  BY ConcatProperties
<1>3. CASE N = 0
  <2>. DEFINE w == [k \in 0..0 |-> <<>>]
  <2>1. c = <<>>
    BY <1>3, EmptySeq
  <2>2. FlattenSeq(c) = <<>>
    BY <1>3, <2>1 DEF FlattenSeq
  <2>3. Strung(X, c, w)
    <3>1. w \in [0..0 -> D] /\ w[0] = <<>>
      BY <1>1
    <3>. HIDE DEF w, D
    <3>. QED  BY <1>3, <2>2, <3>1 DEF Strung, D
  <2>. QED  BY <2>3
<1>4. CASE N # 0
  <2>. DEFINE M == N - 1
              G == [i \in 0..M |-> [f \in [0..M -> D] |-> IF i = 0 THEN c[1] ELSE f[i - 1] \o c[i + 1]]]
              u == CHOOSE f : f = [i \in 1..N |-> IF i = 1 THEN c[i] ELSE f[i - 1] \o c[i]]
              w == [k \in 0..N |-> IF k = 0 THEN <<>> ELSE u[k]]
  <2>1. M \in Nat /\ N = M + 1 /\ 1 \in 1..N
    BY <1>1, <1>4
  <2>. HIDE DEF D, M
  <2>2. FlattenSeq(c) = u[N]
    BY <1>4 DEF FlattenSeq
  <2>3. RecursionTo(D, M, G)
    <3>1. \A i \in 0..M : \A f \in [0..M -> D] : (IF i = 0 THEN c[1] ELSE f[i - 1] \o c[i + 1]) \in D
      <4>1. \A i \in 0..M : i # 0 => i - 1 \in 0..M /\ i + 1 \in 1..N
        BY <2>1
      <4>. HIDE DEF N
      <4>. QED  BY <1>1, <1>2, <2>1, <4>1
    <3>2. \A i \in 0..M : \A f \in [0..M -> D] : G[i][f] = IF i = 0 THEN c[1] ELSE f[i - 1] \o c[i + 1]
      OBVIOUS
    <3>3. G \in [0..M -> [[0..M -> D] -> D]]
      BY <3>1
    <3>. HIDE DEF G, N
    <3>4. ASSUME NEW i \in 0..M, NEW f \in [0..M -> D], NEW g \in [0..M -> D],
                 \A k \in 0..(i - 1) : f[k] = g[k]
          PROVE  G[i][f] = G[i][g]
      <4>1. i # 0 => i - 1 \in 0..(i - 1)
        BY <2>1
      <4>2. i # 0 => f[i - 1] = g[i - 1]
        BY <3>4, <4>1
      <4>. QED  BY <3>2, <4>2
    <3>. QED  BY <3>3, <3>4, Zenon DEF RecursionTo
  <2>4. PICK h : SolutionTo(D, M, G, h)
    <3>. HIDE DEF G
    <3>. QED  BY <1>1, <2>1, <2>3, RecursionToExists
  <2>5. \A i \in 0..M : h[i] = IF i = 0 THEN c[1] ELSE h[i - 1] \o c[i + 1]
    BY <2>4 DEF SolutionTo
  <2>6. \E f : f = [i \in 1..N |-> IF i = 1 THEN c[i] ELSE f[i - 1] \o c[i]]
    <3>. DEFINE f == [i \in 1..N |-> h[i - 1]]
    <3>1. \A i \in 1..N : i - 1 \in 0..M /\ (i - 1) + 1 = i /\ (i - 1 = 0 <=> i = 1) /\ (i # 1 => i - 1 \in 1..N)
      BY <2>1
    <3>. HIDE DEF N
    <3>2. \A i \in 1..N : f[i] = h[i - 1]
      OBVIOUS
    <3>. HIDE DEF f
    <3>3. \A i \in 1..N : f[i] = IF i = 1 THEN c[i] ELSE f[i - 1] \o c[i]
      BY <2>5, <3>1, <3>2
    <3>4. f = [i \in 1..N |-> f[i]]
      BY DEF f
    <3>5. f = [i \in 1..N |-> IF i = 1 THEN c[i] ELSE f[i - 1] \o c[i]]
      BY <3>3, <3>4
    <3>. QED  BY <3>5
  <2>7. u = [i \in 1..N |-> IF i = 1 THEN c[i] ELSE u[i - 1] \o c[i]]
    BY <2>6, Zenon
  <2>. HIDE DEF u, N
  <2>8. \A i \in 1..N : u[i] = IF i = 1 THEN c[i] ELSE u[i - 1] \o c[i]
    BY <2>7
  <2>9. \A n \in Nat : n + 1 <= N => u[n + 1] \in D
    <3>. DEFINE U == {n \in Nat : n + 1 <= N => u[n + 1] \in D}
    <3>1. 0 \in U
      BY <1>1, <2>1, <2>8
    <3>2. ASSUME NEW n \in Nat, n \in U  PROVE n + 1 \in U
      <4>. SUFFICES ASSUME (n + 1) + 1 <= N  PROVE u[(n + 1) + 1] \in D
        OBVIOUS
      <4>. DEFINE m == (n + 1) + 1
      <4>1. m \in 1..N /\ m # 1 /\ m - 1 = n + 1 /\ n + 1 <= N
        BY <1>1
      <4>2. u[n + 1] \in D
        BY <3>2, <4>1
      <4>. HIDE DEF m, U
      <4>3. u[m] = u[n + 1] \o c[m]
        BY <2>8, <4>1
      <4>. QED  BY <1>1, <1>2, <4>1, <4>2, <4>3 DEF m
    <3>. HIDE DEF U
    <3>3. \A n \in Nat : n \in U
      BY <3>1, <3>2, SetInduction
    <3>. QED  BY <3>3 DEF U
  <2>10. \A k \in 1..N : u[k] \in D
    <3>1. \A k \in 1..N : k - 1 \in Nat /\ (k - 1) + 1 = k /\ (k - 1) + 1 <= N
      BY <1>1
    <3>. QED  BY <2>9, <3>1
  <2>11. w \in [0..N -> D] /\ w[0] = <<>> /\ \A k \in 1..N : w[k] = u[k]
    BY <1>1, <2>10
  <2>. HIDE DEF w
  <2>12. \A k \in 1..N : w[k] = w[k - 1] \o c[k]
    <3>. SUFFICES ASSUME NEW k \in 1..N  PROVE w[k] = w[k - 1] \o c[k]
      OBVIOUS
    <3>1. CASE k = 1
      <4>1. w[k - 1] = <<>> /\ w[k] = c[k] /\ c[k] \in D
        BY <1>1, <2>8, <2>11, <3>1
      <4>2. <<>> \o c[k] = c[k]
        BY <4>1, ConcatEmptySeq DEF D
      <4>. QED  BY <4>1, <4>2
    <3>2. CASE k # 1
      <4>1. k - 1 \in 1..N
        BY <1>1, <3>2
      <4>. QED  BY <2>8, <2>11, <3>2, <4>1
    <3>. QED  BY <3>1, <3>2
  <2>13. w[N] = FlattenSeq(c)
    <3>1. N \in 1..N
      BY <1>1, <1>4
    <3>. QED  BY <2>2, <2>11, <3>1
  <2>. QED  BY <2>11, <2>12, <2>13 DEF Strung, N, D
<1>. QED  BY <1>3, <1>4

\* What is strung stays in front of what comes behind it.
LEMMA StrungGrows ==
  ASSUME NEW X, NEW c \in Seq(Seq(X)), NEW w, Strung(X, c, w)
  PROVE  \A k \in 0..Len(c) : \A m \in k..Len(c) :
           Len(w[k]) <= Len(w[m]) /\ \A i \in 1..Len(w[k]) : w[m][i] = w[k][i]
<1>. SUFFICES ASSUME NEW k \in 0..Len(c), NEW m \in k..Len(c)
              PROVE  Len(w[k]) <= Len(w[m]) /\ \A i \in 1..Len(w[k]) : w[m][i] = w[k][i]
  OBVIOUS
<1>. DEFINE N == Len(c)
            U == {n \in Nat : k + n <= N => /\ Len(w[k]) <= Len(w[k + n])
                                            /\ \A i \in 1..Len(w[k]) : w[k + n][i] = w[k][i]}
<1>1. N \in Nat /\ \A j \in 1..N : c[j] \in Seq(X)
  BY LenProperties, ElementOfSeq
<1>2. (\A j \in 0..N : w[j] \in Seq(X)) /\ \A j \in 1..N : w[j] = w[j - 1] \o c[j]
  BY DEF Strung
<1>. HIDE DEF N
<1>3. 0 \in U
  <2>1. k + 0 = k /\ Len(w[k]) \in Nat
    BY <1>1, <1>2, LenProperties
  <2>. QED  BY <2>1
<1>4. ASSUME NEW n \in Nat, n \in U  PROVE n + 1 \in U
  <2>. SUFFICES ASSUME k + (n + 1) <= N
                PROVE  Len(w[k]) <= Len(w[k + (n + 1)]) /\ \A i \in 1..Len(w[k]) : w[k + (n + 1)][i] = w[k][i]
    OBVIOUS
  <2>. DEFINE j == k + (n + 1)
              x == w[k + n]
              y == c[j]
  <2>1. k + n <= N /\ j \in 1..N /\ j - 1 = k + n /\ k + n \in 0..N
    BY <1>1
  <2>2. Len(w[k]) <= Len(x) /\ \A i \in 1..Len(w[k]) : x[i] = w[k][i]
    BY <1>4, <2>1
  <2>3. x \in Seq(X) /\ y \in Seq(X) /\ w[j] = x \o y
    BY <1>1, <1>2, <2>1
  <2>. HIDE DEF j, x, y, U
  <2>4. /\ Len(w[j]) = Len(x) + Len(y)
        /\ \A i \in 1..(Len(x) + Len(y)) : w[j][i] = IF i <= Len(x) THEN x[i] ELSE y[i - Len(x)]
    BY <2>3, ConcatProperties
  <2>5. Len(x) \in Nat /\ Len(y) \in Nat /\ Len(w[k]) \in Nat
    BY <1>1, <1>2, <2>3, LenProperties
  <2>6. \A i \in 1..Len(w[k]) : i \in 1..(Len(x) + Len(y)) /\ i <= Len(x)
    BY <2>2, <2>5
  <2>7. \A i \in 1..Len(w[k]) : w[j][i] = w[k][i]
    BY <2>2, <2>4, <2>6
  <2>8. Len(w[k]) <= Len(w[j])
    BY <2>2, <2>4, <2>5
  <2>. QED  BY <2>7, <2>8 DEF j
<1>. HIDE DEF U
<1>5. \A n \in Nat : n \in U
  BY <1>3, <1>4, SetInduction
<1>6. m - k \in Nat /\ k + (m - k) = m /\ k + (m - k) <= N
  BY <1>1 DEF N
<1>. QED  BY <1>5, <1>6 DEF U

\* The pattern F is how the elements q are written: the k-th ends at at[k].
Layout(q, F, at) ==
  /\ at \in [0..Len(q) -> 0..Len(F)] /\ at[0] = 0 /\ at[Len(q)] = Len(F)
  /\ \A k \in 1..Len(q) :
       IF q[k] = "**" THEN at[k] = at[k - 1] + 2 /\ F[at[k - 1] + 1] = "*" /\ F[at[k - 1] + 2] = "*"
       ELSE at[k] = at[k - 1] + 1 /\ F[at[k - 1] + 1] = q[k]

LEMMA FlatIs ==
  ASSUME NEW X, "*" \in X, NEW q \in Seq(X)
  PROVE  Flat(q) \in Seq(X) /\ \E at : Layout(q, Flat(q), at)
<1>. DEFINE N == Len(q)
            c == [k \in DOMAIN q |-> IF q[k] = "**" THEN <<"*", "*">> ELSE <<q[k]>>]
            F == Flat(q)
<1>1. N \in Nat /\ DOMAIN q = 1..N /\ \A k \in 1..N : q[k] \in X
  BY LenProperties, ElementOfSeq
<1>2. \A k \in 1..N : c[k] = IF q[k] = "**" THEN <<"*", "*">> ELSE <<q[k]>>
  BY <1>1
<1>3. \A k \in 1..N : /\ c[k] \in Seq(X) /\ Len(c[k]) = IF q[k] = "**" THEN 2 ELSE 1
                      /\ c[k][1] = IF q[k] = "**" THEN "*" ELSE q[k]
                      /\ q[k] = "**" => c[k][2] = "*"
  <2>. TAKE k \in 1..N
  <2>1. CASE q[k] = "**"
    <3>1. c[k] = <<"*", "*">>
      BY <1>2, <2>1
    <3>. QED  BY <2>1, <3>1
  <2>2. CASE q[k] # "**"
    <3>1. c[k] = <<q[k]>> /\ q[k] \in X
      BY <1>1, <1>2, <2>2
    <3>. QED  BY <2>2, <3>1
  <2>. QED  BY <2>1, <2>2
<1>4. c \in Seq(Seq(X)) /\ Len(c) = N
  <2>1. c \in [1..N -> Seq(X)]
    <3>1. \A k \in DOMAIN q : c[k] \in Seq(X)
      BY <1>1, <1>3
    <3>2. c = [k \in DOMAIN q |-> c[k]]
      OBVIOUS
    <3>. HIDE DEF c
    <3>. QED  BY <1>1, <3>1, <3>2
  <2>. HIDE DEF c, N
  <2>2. c \in Seq(Seq(X))
    BY <1>1, <2>1, SeqDef
  <2>. QED  BY <1>1, <2>1, <2>2, LenProperties
<1>5. F = FlattenSeq(c)
  BY DEF Flat
<1>. HIDE DEF F, c, N
<1>6. PICK w : Strung(X, c, w)
  BY <1>4, FlattenIs
<1>7. /\ \A k \in 0..N : w[k] \in Seq(X) /\ Len(w[k]) \in Nat
      /\ w[0] = <<>> /\ w[N] = F /\ \A k \in 1..N : w[k] = w[k - 1] \o c[k]
  BY <1>4, <1>5, <1>6, LenProperties DEF Strung
<1>. DEFINE at == [k \in 0..N |-> Len(w[k])]
<1>8. \A k \in 0..N : Len(w[k]) <= Len(F) /\ \A i \in 1..Len(w[k]) : F[i] = w[k][i]
  <2>. TAKE k \in 0..N
  <2>1. N \in k..N /\ k \in 0..Len(c) /\ N \in k..Len(c)
    BY <1>1, <1>4
  <2>2. Len(w[k]) <= Len(w[N]) /\ \A i \in 1..Len(w[k]) : w[N][i] = w[k][i]
    <3>1. c \in Seq(Seq(X)) /\ Strung(X, c, w)
      BY <1>4, <1>6
    <3>. QED  BY <2>1, <3>1, StrungGrows
  <2>. QED  BY <1>7, <2>2
<1>9. Len(F) \in Nat
  <2>1. N \in 0..N
    BY <1>1
  <2>. QED  BY <1>7, <2>1
<1>10. at \in [0..N -> 0..Len(F)] /\ at[0] = 0 /\ at[N] = Len(F)
  <2>1. \A k \in 0..N : Len(w[k]) \in 0..Len(F)
    BY <1>7, <1>8, <1>9
  <2>2. 0 \in 0..N /\ N \in 0..N
    BY <1>1
  <2>3. Len(w[0]) = 0
    BY <1>7, EmptySeq
  <2>. QED  BY <1>7, <2>1, <2>2, <2>3
<1>11. ASSUME NEW k \in 1..N
       PROVE  IF q[k] = "**" THEN at[k] = at[k - 1] + 2 /\ F[at[k - 1] + 1] = "*" /\ F[at[k - 1] + 2] = "*"
              ELSE at[k] = at[k - 1] + 1 /\ F[at[k - 1] + 1] = q[k]
  <2>. DEFINE x == w[k - 1]
              y == c[k]
              z == w[k]
  <2>1. k - 1 \in 0..N /\ k \in 0..N
    BY <1>1
  <2>2. at[k - 1] = Len(x) /\ at[k] = Len(z)
    BY <2>1
  <2>3. x \in Seq(X) /\ y \in Seq(X) /\ z = x \o y /\ Len(x) \in Nat /\ Len(y) \in {1, 2}
    BY <1>3, <1>7, <2>1
  <2>4. /\ Len(y) = IF q[k] = "**" THEN 2 ELSE 1
        /\ y[1] = IF q[k] = "**" THEN "*" ELSE q[k]
        /\ q[k] = "**" => y[2] = "*"
    BY <1>3
  <2>5. Len(z) <= Len(F) /\ \A i \in 1..Len(z) : F[i] = z[i]
    BY <1>8, <2>1
  <2>. HIDE DEF at, x, y, z
  <2>6. Len(z) = Len(x) + Len(y) /\ \A i \in 1..(Len(x) + Len(y)) : z[i] = IF i <= Len(x) THEN x[i] ELSE y[i - Len(x)]
    BY <2>3, ConcatProperties
  <2>7. ASSUME NEW i \in 1..Len(y)  PROVE F[Len(x) + i] = y[i]
    <3>. DEFINE r == Len(x) + i
    <3>1. r \in 1..(Len(x) + Len(y)) /\ ~(r <= Len(x)) /\ r - Len(x) = i
      BY <2>3
    <3>. HIDE DEF r
    <3>2. z[r] = y[i] /\ F[r] = z[r]
      BY <2>5, <2>6, <3>1
    <3>. QED  BY <3>2 DEF r
  <2>8. 1 \in 1..Len(y) /\ (q[k] = "**" => 2 \in 1..Len(y))
    BY <2>4
  <2>9. F[Len(x) + 1] = y[1] /\ (q[k] = "**" => F[Len(x) + 2] = y[2])
    BY <2>7, <2>8
  <2>. QED  BY <2>2, <2>4, <2>6, <2>9
<1>12. Layout(q, F, at)
  <2>. HIDE DEF at
  <2>. QED  BY <1>10, <1>11 DEF Layout, N
<1>13. F \in Seq(X)
  <2>1. N \in 0..N
    BY <1>1
  <2>. QED  BY <1>7, <2>1
<1>. QED  BY <1>12, <1>13 DEF F

\* The alternatives p are the parts of W between bars, from[a] to upto[a].
Parts(p, W, from, upto) ==
  /\ from[1] = 1 /\ upto[Len(p)] = Len(W)
  /\ \A a \in 1..Len(p) : /\ from[a] \in 1..(Len(W) + 1) /\ upto[a] \in (from[a] - 1)..Len(W)
                          /\ SubSeq(W, from[a], upto[a]) = Flat(p[a])
  /\ \A a \in 1..(Len(p) - 1) : /\ upto[a] < Len(W) /\ W[upto[a] + 1] = "|"
                                /\ from[a + 1] = upto[a] + 2

LEMMA WrittenIs ==
  ASSUME NEW X, {"*", "|"} \subseteq X, NEW p \in Seq(Seq(X)), p # <<>>
  PROVE  Written(p) \in Seq(X) /\ \E from, upto : Parts(p, Written(p), from, upto)
<1>. DEFINE N == Len(p)
            c == [a \in DOMAIN p |-> IF a = 1 THEN Flat(p[a]) ELSE <<"|">> \o Flat(p[a])]
            W == Written(p)
<1>1. N \in Nat \ {0} /\ DOMAIN p = 1..N /\ \A a \in 1..N : p[a] \in Seq(X)
  BY LenProperties, ElementOfSeq, EmptySeq
<1>2. \A a \in 1..N : Flat(p[a]) \in Seq(X) /\ Len(Flat(p[a])) \in Nat
  BY <1>1, FlatIs, LenProperties
<1>3. \A a \in 1..N : c[a] = IF a = 1 THEN Flat(p[a]) ELSE <<"|">> \o Flat(p[a])
  BY <1>1
\* A part, with the bar in front of it if it is not the first.
<1>4. \A a \in 1..N : LET d == IF a = 1 THEN 0 ELSE 1 IN
        /\ c[a] \in Seq(X) /\ Len(c[a]) = d + Len(Flat(p[a]))
        /\ \A i \in 1..Len(Flat(p[a])) : c[a][d + i] = Flat(p[a])[i]
        /\ a # 1 => c[a][1] = "|"
  <2>. TAKE a \in 1..N
  <2>1. CASE a = 1
    <3>1. c[a] = Flat(p[a])
      BY <1>3, <2>1
    <3>. HIDE DEF c
    <3>. QED  BY <1>2, <2>1, <3>1
  <2>2. CASE a # 1
    <3>. DEFINE g == Flat(p[a])
    <3>1. c[a] = <<"|">> \o g /\ g \in Seq(X) /\ Len(g) \in Nat /\ "|" \in X
      BY <1>2, <1>3, <2>2
    <3>. HIDE DEF c, g
    <3>2. Len(<<"|">> \o g) = 1 + Len(g) /\ (<<"|">> \o g)[1] = "|" /\ \A i \in 1..Len(g) : (<<"|">> \o g)[i + 1] = g[i]
      BY <3>1, InFront
    <3>3. <<"|">> \o g \in Seq(X)
      <4>1. <<"|">> \in Seq(X)
        BY <3>1
      <4>. QED  BY <3>1, <4>1, ConcatProperties
    <3>4. \A i \in 1..Len(g) : c[a][1 + i] = g[i]
      <4>1. \A i \in 1..Len(g) : i + 1 = 1 + i
        BY <3>1
      <4>. QED  BY <3>1, <3>2, <4>1
    <3>. QED  BY <2>2, <3>1, <3>2, <3>3, <3>4 DEF g
  <2>. QED  BY <2>1, <2>2
<1>5. c \in Seq(Seq(X)) /\ Len(c) = N
  <2>1. c \in [1..N -> Seq(X)]
    <3>1. \A a \in DOMAIN p : c[a] \in Seq(X)
      BY <1>1, <1>4
    <3>2. c = [a \in DOMAIN p |-> c[a]]
      OBVIOUS
    <3>. HIDE DEF c
    <3>. QED  BY <1>1, <3>1, <3>2
  <2>. HIDE DEF c, N
  <2>2. c \in Seq(Seq(X))
    BY <1>1, <2>1, SeqDef
  <2>. QED  BY <1>1, <2>1, <2>2, LenProperties
<1>6. W = FlattenSeq(c)
  BY DEF Written
<1>. HIDE DEF W, c, N
<1>7. PICK w : Strung(X, c, w)
  BY <1>5, FlattenIs
<1>8. /\ \A a \in 0..N : w[a] \in Seq(X) /\ Len(w[a]) \in Nat
      /\ w[0] = <<>> /\ w[N] = W /\ \A a \in 1..N : w[a] = w[a - 1] \o c[a]
  BY <1>5, <1>6, <1>7, LenProperties DEF Strung
<1>9. \A a \in 0..N : Len(w[a]) <= Len(W) /\ \A i \in 1..Len(w[a]) : W[i] = w[a][i]
  <2>. TAKE a \in 0..N
  <2>1. N \in a..N /\ a \in 0..Len(c) /\ N \in a..Len(c)
    BY <1>1, <1>5
  <2>2. Len(w[a]) <= Len(w[N]) /\ \A i \in 1..Len(w[a]) : w[N][i] = w[a][i]
    <3>1. c \in Seq(Seq(X)) /\ Strung(X, c, w)
      BY <1>5, <1>7
    <3>. QED  BY <2>1, <3>1, StrungGrows
  <2>. QED  BY <1>8, <2>2
<1>10. W \in Seq(X) /\ Len(W) \in Nat
  <2>1. N \in 0..N
    BY <1>1
  <2>. QED  BY <1>8, <2>1
<1>. DEFINE upto == [a \in 1..N |-> Len(w[a])]
            from == [a \in 1..N |-> Len(w[a]) - Len(Flat(p[a])) + 1]
            d == [a \in 1..N |-> IF a = 1 THEN 0 ELSE 1]
<1>d. \A a \in 1..N : d[a] = IF a = 1 THEN 0 ELSE 1
  OBVIOUS
<1>. HIDE DEF d
\* What a part is in W.
<1>11. ASSUME NEW a \in 1..N
       PROVE  /\ Len(w[a]) = Len(w[a - 1]) + d[a] + Len(Flat(p[a])) /\ Len(w[a - 1]) \in Nat
              /\ \A i \in 1..Len(Flat(p[a])) : W[Len(w[a - 1]) + d[a] + i] = Flat(p[a])[i]
              /\ a # 1 => W[Len(w[a - 1]) + 1] = "|"
  <2>. DEFINE x == w[a - 1]
              y == c[a]
              z == w[a]
              e == d[a]
              g == Flat(p[a])
  <2>1. a - 1 \in 0..N /\ a \in 0..N
    BY <1>1
  <2>2. /\ x \in Seq(X) /\ y \in Seq(X) /\ z = x \o y /\ Len(x) \in Nat /\ Len(g) \in Nat
        /\ e \in {0, 1} /\ (a # 1 => e = 1)
    BY <1>2, <1>4, <1>8, <1>d, <2>1
  <2>3. Len(y) = e + Len(g) /\ (\A i \in 1..Len(g) : y[e + i] = g[i]) /\ (a # 1 => y[1] = "|")
    BY <1>4, <1>d
  <2>4. Len(z) <= Len(W) /\ \A i \in 1..Len(z) : W[i] = z[i]
    BY <1>9, <2>1
  <2>. HIDE DEF x, y, z, e, g
  <2>5. Len(z) = Len(x) + Len(y) /\ \A i \in 1..(Len(x) + Len(y)) : z[i] = IF i <= Len(x) THEN x[i] ELSE y[i - Len(x)]
    BY <2>2, ConcatProperties
  <2>6. ASSUME NEW i \in 1..Len(y)  PROVE W[Len(x) + i] = y[i]
    <3>. DEFINE r == Len(x) + i
    <3>1. r \in 1..(Len(x) + Len(y)) /\ ~(r <= Len(x)) /\ r - Len(x) = i
      BY <2>2, <2>3
    <3>. HIDE DEF r
    <3>2. z[r] = y[i] /\ W[r] = z[r]
      BY <2>4, <2>5, <3>1
    <3>. QED  BY <3>2 DEF r
  <2>7. \A i \in 1..Len(g) : e + i \in 1..Len(y) /\ Len(x) + (e + i) = Len(x) + e + i
    BY <2>2, <2>3
  <2>8. \A i \in 1..Len(g) : W[Len(x) + e + i] = g[i]
    BY <2>3, <2>6, <2>7
  <2>9. a # 1 => W[Len(x) + 1] = "|"
    <3>. SUFFICES ASSUME a # 1  PROVE W[Len(x) + 1] = "|"
      OBVIOUS
    <3>1. 1 \in 1..Len(y)
      BY <2>2, <2>3
    <3>. QED  BY <2>3, <2>6, <3>1
  <2>10. Len(z) = Len(x) + e + Len(g)
    BY <2>2, <2>3, <2>5
  <2>. QED  BY <2>2, <2>8, <2>9, <2>10 DEF x, e, g, z
<1>12. \A a \in 1..N : /\ upto[a] = Len(w[a]) /\ from[a] = Len(w[a - 1]) + d[a] + 1
                       /\ from[a] \in 1..(Len(W) + 1) /\ upto[a] \in (from[a] - 1)..Len(W)
                       /\ upto[a] = from[a] - 1 + Len(Flat(p[a]))
  <2>. TAKE a \in 1..N
  <2>. DEFINE lx == Len(w[a - 1])
              lz == Len(w[a])
              lg == Len(Flat(p[a]))
              e == d[a]
  <2>1. lz = lx + e + lg /\ lx \in Nat /\ lg \in Nat /\ e \in {0, 1}
    BY <1>2, <1>11, <1>d
  <2>2. lz <= Len(W)
    <3>1. a \in 0..N
      BY <1>1
    <3>. QED  BY <1>9, <3>1
  <2>3. upto[a] = lz /\ from[a] = lz - lg + 1
    OBVIOUS
  <2>. HIDE DEF lx, lz, lg, e, upto, from
  <2>4. from[a] = lx + e + 1
    BY <2>1, <2>3
  <2>5. from[a] \in 1..(Len(W) + 1) /\ upto[a] \in (from[a] - 1)..Len(W) /\ upto[a] = from[a] - 1 + lg
    BY <1>10, <2>1, <2>2, <2>3, <2>4
  <2>. QED  BY <2>3, <2>4, <2>5 DEF lx, lz, lg, e
<1>. HIDE DEF upto, from
<1>13. ASSUME NEW a \in 1..N  PROVE SubSeq(W, from[a], upto[a]) = Flat(p[a])
  <2>. DEFINE g == Flat(p[a])
              b == from[a]
              u == upto[a]
              t == SubSeq(W, b, u)
  <2>1. b \in 1..(Len(W) + 1) /\ u \in (b - 1)..Len(W) /\ u = b - 1 + Len(g) /\ g \in Seq(X) /\ Len(g) \in Nat
    BY <1>2, <1>12
  <2>2. \A i \in 1..Len(g) : W[b + i - 1] = g[i]
    <3>1. \A i \in 1..Len(g) : W[Len(w[a - 1]) + d[a] + i] = g[i]
      BY <1>11
    <3>. DEFINE k == Len(w[a - 1]) + d[a]
    <3>2. k \in Int /\ b = k + 1
      <4>1. Len(w[a - 1]) \in Nat /\ d[a] \in {0, 1}
        BY <1>11, <1>d
      <4>. QED  BY <1>12, <4>1
    <3>. HIDE DEF k, b, g
    <3>3. \A i \in 1..Len(g) : b + i - 1 = k + i
      BY <2>1, <3>2
    <3>4. \A i \in 1..Len(g) : W[k + i] = g[i]
      BY <3>1 DEF k, g
    <3>. QED  BY <3>3, <3>4
  <2>. HIDE DEF g, b, u
  <2>3. u \in Int /\ b \in Int /\ \A i \in b..u : W[i] \in X
    BY <1>10, <2>1, ElementOfSeq
  <2>4. t \in Seq(X) /\ Len(t) = (IF b <= u THEN u - b + 1 ELSE 0) /\ \A i \in 1..(u - b + 1) : t[i] = W[b + i - 1]
    BY <2>3, SubSeqProperties
  <2>5. u - b + 1 = Len(g) /\ (~(b <= u) => Len(g) = 0)
    BY <1>10, <2>1
  <2>. HIDE DEF t
  <2>6. Len(t) = Len(g) /\ \A i \in 1..Len(t) : t[i] = g[i]
    BY <2>2, <2>4, <2>5
  <2>7. t = g
    BY <2>1, <2>4, <2>6, SeqEqual
  <2>. QED  BY <2>7 DEF t, b, u, g
<1>14. from[1] = 1
  <2>1. 1 \in 1..N /\ 1 - 1 = 0 /\ Len(w[0]) = 0
    BY <1>1, <1>8, EmptySeq
  <2>2. from[1] = Len(w[1 - 1]) + d[1] + 1 /\ d[1] = 0
    BY <1>12, <1>d, <2>1
  <2>3. Len(w[1 - 1]) = 0
    BY <2>1
  <2>. QED  BY <2>2, <2>3
<1>15. upto[N] = Len(W)
  <2>1. N \in 1..N
    BY <1>1
  <2>. QED  BY <1>8, <1>12, <2>1
<1>16. ASSUME NEW a \in 1..(N - 1)
       PROVE  upto[a] < Len(W) /\ W[upto[a] + 1] = "|" /\ from[a + 1] = upto[a] + 2
  <2>1. a \in 1..N /\ a + 1 \in 1..N /\ (a + 1) - 1 = a /\ a + 1 # 1
    BY <1>1
  <2>. DEFINE b == a + 1
  <2>. HIDE DEF b
  <2>5. b \in 1..N /\ b - 1 = a /\ b # 1
    BY <2>1 DEF b
  <2>6. upto[a] = Len(w[a]) /\ Len(w[a]) \in Nat
    BY <1>8, <1>12, <2>1
  <2>7. from[b] = Len(w[a]) + d[b] + 1 /\ d[b] = 1 /\ from[b] \in 1..(Len(W) + 1) /\ W[Len(w[a]) + 1] = "|"
    BY <1>11, <1>12, <1>d, <2>5
  <2>2. /\ upto[a] = Len(w[a]) /\ from[a + 1] = Len(w[a]) + 1 + 1 /\ W[Len(w[a]) + 1] = "|"
        /\ from[a + 1] \in 1..(Len(W) + 1) /\ Len(w[a]) \in Nat
    BY <2>6, <2>7 DEF b
  <2>3. upto[a] < Len(W) /\ from[a + 1] = upto[a] + 2
    BY <1>10, <2>2
  <2>. QED  BY <2>2, <2>3
<1>17. Parts(p, W, from, upto)
  BY <1>12, <1>13, <1>14, <1>15, <1>16 DEF Parts, N
<1>. QED  BY <1>10, <1>17 DEF W

\* What match_prefix finds from the part on that begins at i.
PartAt(p, s, match, i) ==
  LET bars  == {b \in i..Len(p) : p[b] = "|"}
      first == MatchOne(SubSeq(p, i, Min(bars) - 1), s)
  IN  IF bars = {} THEN MatchOne(From(p, i), s)
      ELSE IF first > 0 THEN first ELSE match[Min(bars) + 1]

LEMMA OneTyped ==
  ASSUME NEW X, NEW p \in Seq(X), NEW S, NEW s \in Seq(S)
  PROVE  MatchOne(p, s) \in Int
<1>1. PICK match : MatchRows(p, s, match) /\ MatchOne(p, s) = match[1][1]
  BY MatchOneIs
<1>2. 1 \in 1..(Len(p) + 1) /\ 1 \in 1..(Len(s) + 1)
  <2>1. Len(p) \in Nat /\ Len(s) \in Nat
    BY LenProperties
  <2>. QED  BY <2>1
<1>3. match[1] \in [1..(Len(s) + 1) -> Int]
  BY <1>1, <1>2 DEF MatchRows
<1>. QED  BY <1>1, <1>2, <1>3

\* The first bar from i on.
LEMMA BarIs ==
  ASSUME NEW X, NEW p \in Seq(X), NEW i \in 1..(Len(p) + 1)
  PROVE  LET bars == {b \in i..Len(p) : p[b] = "|"} IN
         bars # {} => /\ Min(bars) \in i..Len(p) /\ p[Min(bars)] = "|"
                      /\ \A b \in i..Len(p) : p[b] = "|" => Min(bars) <= b
<1>. DEFINE bars == {b \in i..Len(p) : p[b] = "|"}
<1>1. Len(p) \in Nat
  BY LenProperties
<1>2. /\ bars \subseteq Nat /\ \A b \in bars : b \in i..Len(p) /\ p[b] = "|"
      /\ \A b \in i..Len(p) : p[b] = "|" => b \in bars
  BY <1>1
<1>. HIDE DEF bars
<1>3. bars # {} => Min(bars) \in bars /\ \A b \in bars : Min(bars) <= b
  BY <1>2, LeastNatural
<1>4. bars # {} => Min(bars) \in i..Len(p) /\ p[Min(bars)] = "|" /\ \A b \in i..Len(p) : p[b] = "|" => Min(bars) <= b
  BY <1>2, <1>3
<1>. QED  BY <1>4 DEF bars

LEMMA PartTyped ==
  ASSUME NEW X, NEW p \in Seq(X), NEW S, NEW s \in Seq(S), NEW i \in 1..(Len(p) + 1),
         NEW match \in [1..(Len(p) + 1) -> Int]
  PROVE  PartAt(p, s, match, i) \in Int
<1>. DEFINE bars == {b \in i..Len(p) : p[b] = "|"}
            m == Min(bars)
<1>1. Len(p) \in Nat
  BY LenProperties
<1>2. bars # {} => m \in i..Len(p)
  BY BarIs
<1>3. From(p, i) \in Seq(X)
  BY FromIs
<1>4. bars # {} => SubSeq(p, i, m - 1) \in Seq(X)
  <2>. SUFFICES ASSUME bars # {}  PROVE SubSeq(p, i, m - 1) \in Seq(X)
    OBVIOUS
  <2>. HIDE DEF m
  <2>1. i \in Int /\ m - 1 \in Int /\ \A k \in i..(m - 1) : k \in 1..Len(p)
    BY <1>1, <1>2
  <2>2. \A k \in i..(m - 1) : p[k] \in X
    BY <2>1, ElementOfSeq
  <2>. DEFINE u == m - 1
  <2>. HIDE DEF u
  <2>3. SubSeq(p, i, u) \in Seq(X)
    BY <2>1, <2>2, SubSeqProperties DEF u
  <2>. QED  BY <2>3 DEF u
<1>5. bars # {} => match[m + 1] \in Int
  <2>. HIDE DEF bars, m
  <2>1. bars # {} => m + 1 \in 1..(Len(p) + 1)
    BY <1>1, <1>2
  <2>. QED  BY <2>1
<1>6. PartAt(p, s, match, i) = IF bars = {} THEN MatchOne(From(p, i), s)
                               ELSE IF MatchOne(SubSeq(p, i, m - 1), s) > 0
                                    THEN MatchOne(SubSeq(p, i, m - 1), s) ELSE match[m + 1]
  BY DEF PartAt
<1>. HIDE DEF bars, m
<1>7. MatchOne(From(p, i), s) \in Int /\ (bars # {} => MatchOne(SubSeq(p, i, m - 1), s) \in Int)
  BY <1>3, <1>4, OneTyped
<1>. QED  BY <1>5, <1>6, <1>7

LEMMA PartLocal ==
  ASSUME NEW X, NEW p \in Seq(X), NEW s, NEW i \in 1..(Len(p) + 1), NEW f, NEW g,
         \A k \in (i + 1)..(Len(p) + 1) : f[k] = g[k]
  PROVE  PartAt(p, s, f, i) = PartAt(p, s, g, i)
<1>. DEFINE bars == {b \in i..Len(p) : p[b] = "|"}
            m == Min(bars)
<1>1. Len(p) \in Nat
  BY LenProperties
<1>2. bars # {} => m \in i..Len(p)
  BY BarIs
<1>3. bars # {} => f[m + 1] = g[m + 1]
  <2>. HIDE DEF bars, m
  <2>1. bars # {} => m + 1 \in (i + 1)..(Len(p) + 1)
    BY <1>1, <1>2
  <2>. QED  BY <2>1
<1>. QED  BY <1>3 DEF PartAt

MatchParts(p, s, match) ==
  /\ match \in [1..(Len(p) + 1) -> Int]
  /\ \A i \in 1..(Len(p) + 1) : match[i] = PartAt(p, s, match, i)

LEMMA MatchPrefixIs ==
  ASSUME NEW X, NEW p \in Seq(X), NEW S, NEW s \in Seq(S)
  PROVE  \E match : MatchParts(p, s, match) /\ MatchPrefix(p, s) = match[1]
<1>. DEFINE N == Len(p)
            P == 1..(N + 1)
            G == [i \in P |-> [f \in [P -> Int] |-> PartAt(p, s, f, i)]]
            w == CHOOSE match : match = [i \in P |-> PartAt(p, s, match, i)]
<1>1. N \in Nat /\ P = 1..(N + 1) /\ 1 \in P
  BY LenProperties
<1>2. \A f \in [P -> Int] : \A i \in P : PartAt(p, s, f, i) \in Int
  BY PartTyped
<1>3. MatchPrefix(p, s) = w[1]
  BY DEF MatchPrefix, PartAt
<1>4. ASSUME NEW i \in P, NEW f, NEW g, \A k \in (i + 1)..(N + 1) : f[k] = g[k]
      PROVE  PartAt(p, s, f, i) = PartAt(p, s, g, i)
  BY <1>4, PartLocal
<1>5. \A i \in P : \A f \in [P -> Int] : G[i][f] = PartAt(p, s, f, i)
  OBVIOUS
<1>6. G \in [P -> [[P -> Int] -> Int]]
  <2>. HIDE DEF P
  <2>. QED  BY <1>2
<1>. HIDE DEF G, P
<1>7. RecursionDown(Int, N, G)
  <2>1. \A i \in P : \A f, g \in [P -> Int] :
          (\A k \in (i + 1)..(N + 1) : f[k] = g[k]) => G[i][f] = G[i][g]
    <3>. SUFFICES ASSUME NEW i \in P, NEW f \in [P -> Int], NEW g \in [P -> Int],
                         \A k \in (i + 1)..(N + 1) : f[k] = g[k]
                  PROVE  G[i][f] = G[i][g]
      OBVIOUS
    <3>1. PartAt(p, s, f, i) = PartAt(p, s, g, i)
      BY <1>4
    <3>. QED  BY <1>5, <3>1
  <2>. QED  BY <1>1, <1>6, <2>1, Zenon DEF RecursionDown
<1>8. PICK f : SolutionDown(Int, N, G, f)
  <2>1. N \in Nat
    BY <1>1
  <2>2. 0 \in Int
    OBVIOUS
  <2>3. Int # {}
    BY <2>2, Zenon
  <2>. HIDE DEF N
  <2>. QED  BY <1>7, <2>1, <2>3, RecursionDownExists
<1>9. f = [i \in P |-> PartAt(p, s, f, i)]
  <2>1. f \in [P -> Int] /\ \A i \in P : f[i] = G[i][f]
    BY <1>1, <1>8 DEF SolutionDown
  <2>. QED  BY <1>5, <2>1
<1>10. w = [i \in P |-> PartAt(p, s, w, i)]
  <2>1. \E g : g = [i \in P |-> PartAt(p, s, g, i)]
    BY <1>9
  <2>. QED  BY <2>1, Zenon
<1>. HIDE DEF w
<1>11. \A i \in P : w[i] = PartAt(p, s, w, i)
  BY <1>10
<1>12. \A i \in P : w[i] \in Int
  <2>. DEFINE U == {i \in P : w[i] \in Int}
  <2>1. ASSUME NEW i \in P, \A k \in (i + 1)..(N + 1) : k \in U  PROVE i \in U
    <3>. DEFINE g == [k \in P |-> IF k \in U THEN w[k] ELSE 0]
    <3>1. g \in [P -> Int] /\ \A k \in U : g[k] = w[k]
      OBVIOUS
    <3>. HIDE DEF g, U
    <3>2. PartAt(p, s, w, i) = PartAt(p, s, g, i)
      <4>1. \A k \in (i + 1)..(N + 1) : w[k] = g[k]
        BY <2>1, <3>1
      <4>. QED  BY <1>4, <4>1
    <3>3. w[i] \in Int
      BY <1>2, <1>11, <3>1, <3>2
    <3>. QED  BY <3>3 DEF U
  <2>. HIDE DEF U
  <2>2. \A i \in P : i \in U
    <3>. HIDE DEF N
    <3>. QED  BY <1>1, <2>1, DownInduction
  <2>. QED  BY <2>2 DEF U
<1>13. MatchParts(p, s, w)
  <2>1. w \in [P -> Int]
    BY <1>10, <1>12
  <2>. QED  BY <1>1, <1>11, <2>1 DEF MatchParts
<1>. QED  BY <1>3, <1>13

\* What match_prefix finds is what it finds for one of the parts, and it finds something
\* if it does for one.
LEMMA PrefixIs ==
  ASSUME NEW X, "*" \in X, "|" \notin X, NEW p \in Seq(Seq(X)), p # <<>>, NEW S, NEW s \in Seq(S)
  PROVE  /\ MatchPrefix(Written(p), s) \in Int
         /\ MatchPrefix(Written(p), s) > 0 =>
              \E a \in 1..Len(p) : MatchPrefix(Written(p), s) = MatchOne(Flat(p[a]), s)
         /\ \A a \in 1..Len(p) : MatchOne(Flat(p[a]), s) > 0 => MatchPrefix(Written(p), s) > 0
<1>. DEFINE N == Len(p)
            W == Written(p)
            Y == X \cup {"|"}
            One == [a \in 1..N |-> MatchOne(Flat(p[a]), s)]
<1>1. N \in Nat /\ N # 0 /\ \A a \in 1..N : p[a] \in Seq(X)
  BY LenProperties, ElementOfSeq, EmptySeq
<1>2. \A a \in 1..N : Flat(p[a]) \in Seq(X)
  BY <1>1, FlatIs
<1>3. \A a \in 1..N : One[a] = MatchOne(Flat(p[a]), s) /\ One[a] \in Int
  BY <1>2, OneTyped
<1>4. p \in Seq(Seq(Y)) /\ {"*", "|"} \subseteq Y
  <2>1. Seq(X) \subseteq Seq(Y)
    BY SeqMonotonic
  <2>. QED  BY <2>1, SeqMonotonic
<1>. HIDE DEF One, N
<1>5. PICK from, upto : Parts(p, W, from, upto)
  <2>. HIDE DEF Y, W
  <2>1. \E from, upto : Parts(p, Written(p), from, upto)
    BY <1>4, WrittenIs
  <2>. QED  BY <2>1 DEF W
<1>6. W \in Seq(Y)
  <2>. HIDE DEF Y
  <2>. QED  BY <1>4, WrittenIs
<1>7. Len(W) \in Nat
  BY <1>6, LenProperties
<1>. HIDE DEF W, Y
<1>8. PICK match : MatchParts(W, s, match) /\ MatchPrefix(W, s) = match[1]
  BY <1>6, MatchPrefixIs
<1>9. from[1] = 1 /\ upto[N] = Len(W)
  BY <1>5 DEF Parts, N
<1>10. \A a \in 1..N : /\ from[a] \in 1..(Len(W) + 1) /\ upto[a] \in (from[a] - 1)..Len(W)
                       /\ SubSeq(W, from[a], upto[a]) = Flat(p[a])
  BY <1>5 DEF Parts, N
<1>11. \A a \in 1..(N - 1) : /\ upto[a] < Len(W) /\ W[upto[a] + 1] = "|"
                             /\ from[a + 1] = upto[a] + 2
  BY <1>5 DEF Parts, N
<1>12. \A i \in 1..(Len(W) + 1) : match[i] \in Int /\ match[i] = PartAt(W, s, match, i)
  BY <1>8 DEF MatchParts
<1>13. ASSUME NEW a \in 1..N
       PROVE  match[from[a]] = IF a = N THEN One[a] ELSE IF One[a] > 0 THEN One[a] ELSE match[from[a + 1]]
  <2>. DEFINE i == from[a]
              u == upto[a]
              bars == {b \in i..Len(W) : W[b] = "|"}
              m == Min(bars)
  <2>1. i \in 1..(Len(W) + 1) /\ u \in (i - 1)..Len(W) /\ SubSeq(W, i, u) = Flat(p[a])
    BY <1>10
  <2>2. match[i] = PartAt(W, s, match, i)
    BY <1>12, <2>1
  <2>3. PartAt(W, s, match, i) = IF bars = {} THEN MatchOne(From(W, i), s)
                                 ELSE IF MatchOne(SubSeq(W, i, m - 1), s) > 0
                                      THEN MatchOne(SubSeq(W, i, m - 1), s) ELSE match[m + 1]
    BY DEF PartAt
  <2>4. bars # {} => m \in i..Len(W) /\ W[m] = "|" /\ \A b \in i..Len(W) : W[b] = "|" => m <= b
    BY <1>6, <2>1, BarIs
  <2>5. (\A b \in i..Len(W) : W[b] = "|" => b \in bars) /\ \A b \in bars : b \in i..Len(W) /\ W[b] = "|"
    OBVIOUS
  <2>. HIDE DEF bars, m, i, u
  <2>6. \A b \in i..u : W[b] # "|"
    <3>. SUFFICES ASSUME NEW b \in i..u  PROVE W[b] # "|"
      OBVIOUS
    <3>. DEFINE g == SubSeq(W, i, u)
                k == b - i + 1
    <3>1. i \in Int /\ u \in Int /\ i <= u /\ b \in Int /\ k \in 1..(u - i + 1) /\ i + k - 1 = b
      BY <1>7, <2>1
    <3>2. \A c \in i..u : W[c] \in Y
      <4>1. \A c \in i..u : c \in 1..Len(W)
        BY <1>7, <2>1
      <4>. QED  BY <1>6, <4>1, ElementOfSeq
    <3>3. Len(g) = u - i + 1 /\ \A c \in 1..(u - i + 1) : g[c] = W[i + c - 1]
      BY <3>1, <3>2, SubSeqProperties
    <3>4. g \in Seq(X)
      BY <1>2, <2>1
    <3>. HIDE DEF g, k
    <3>5. g[k] = W[b]
      BY <3>1, <3>3
    <3>6. g[k] \in X
      BY <3>1, <3>3, <3>4, ElementOfSeq
    <3>. QED  BY <3>5, <3>6
  <2>7. CASE a = N
    <3>1. u = Len(W)
      BY <1>9, <2>7 DEF u
    <3>2. bars = {}
      BY <2>5, <2>6, <3>1
    <3>3. From(W, i) = Flat(p[a])
      BY <2>1, <3>1 DEF From
    <3>. QED  BY <1>3, <2>2, <2>3, <2>7, <3>2, <3>3 DEF i
  <2>8. CASE a # N
    <3>1. a \in 1..(N - 1)
      BY <1>1, <2>8
    <3>2. u < Len(W) /\ W[u + 1] = "|" /\ from[a + 1] = u + 2
      BY <1>11, <3>1 DEF u
    <3>3. u + 1 \in i..Len(W)
      BY <1>7, <2>1, <3>2
    <3>4. bars # {}
      BY <2>5, <3>2, <3>3
    <3>5. m \in i..Len(W) /\ m <= u + 1 /\ ~(m \in i..u)
      BY <2>4, <2>6, <3>2, <3>3, <3>4
    <3>6. m = u + 1
      BY <1>7, <2>1, <3>5
    <3>7. m - 1 = u /\ m + 1 = u + 2
      BY <1>7, <2>1, <3>6
    <3>8. SubSeq(W, i, m - 1) = Flat(p[a])
      BY <2>1, <3>7
    <3>9. match[m + 1] = match[from[a + 1]]
      BY <3>2, <3>7
    <3>. QED  BY <1>3, <2>2, <2>3, <2>8, <3>4, <3>8, <3>9 DEF i
  <2>. QED  BY <2>7, <2>8
<1>14. \A a \in 1..N : match[from[a]] \in Int
  BY <1>10, <1>12
<1>. DEFINE U == {a \in 1..N : /\ match[from[a]] > 0 => \E b \in 1..N : match[from[a]] = One[b]
                               /\ \A b \in a..N : One[b] > 0 => match[from[a]] > 0}
<1>15. ASSUME NEW a \in 1..N, \A b \in (a + 1)..N : b \in U  PROVE a \in U
  <2>1. CASE a = N
    <3>1. match[from[a]] = One[a]
      BY <1>13, <2>1
    <3>2. \A b \in a..N : b = a
      BY <1>1, <2>1
    <3>. QED  BY <3>1, <3>2
  <2>2. CASE a # N /\ One[a] > 0
    <3>1. match[from[a]] = One[a]
      BY <1>13, <2>2
    <3>. QED  BY <2>2, <3>1
  <2>3. CASE a # N /\ ~(One[a] > 0)
    <3>1. match[from[a]] = match[from[a + 1]]
      BY <1>13, <2>3
    <3>2. a + 1 \in (a + 1)..N
      BY <1>1, <2>3
    <3>3. a + 1 \in U
      BY <1>15, <3>2
    <3>4. \A b \in a..N : b = a \/ b \in (a + 1)..N
      BY <1>1
    <3>5. /\ match[from[a + 1]] > 0 => \E b \in 1..N : match[from[a + 1]] = One[b]
          /\ \A b \in (a + 1)..N : One[b] > 0 => match[from[a + 1]] > 0
      BY <3>3
    <3>. QED  BY <2>3, <3>1, <3>4, <3>5
  <2>. QED  BY <2>1, <2>2, <2>3
<1>. HIDE DEF U
<1>16. \A a \in 1..N : a \in U
  <2>. DEFINE M == N - 1
  <2>1. M \in Nat /\ N = M + 1
    BY <1>1
  <2>. HIDE DEF M
  <2>2. \A a \in 1..(M + 1) : (\A b \in (a + 1)..(M + 1) : b \in U) => a \in U
    BY <1>15, <2>1
  <2>. QED  BY <2>1, <2>2, DownInduction
<1>17. 1 \in 1..N /\ 1 \in U
  BY <1>1, <1>16
<1>18. /\ MatchPrefix(W, s) \in Int
       /\ MatchPrefix(W, s) > 0 => \E b \in 1..N : MatchPrefix(W, s) = One[b]
       /\ \A b \in 1..N : One[b] > 0 => MatchPrefix(W, s) > 0
  BY <1>8, <1>9, <1>14, <1>17 DEF U
<1>. QED  BY <1>3, <1>18 DEF W, N

\* The element e can go from m to n in the text s.
Goes(s, e, m, n) ==
  CASE e = "**" -> m <= n
    [] e = "*"  -> m <= n /\ \A k \in (m + 1)..n : s[k] # "/"
    [] e = "$"  -> m = Len(s) /\ n = m
    [] e = "?"  -> m < Len(s) /\ n = m + 1
    [] OTHER    -> m < Len(s) /\ n = m + 1 /\ s[m + 1] = e

LEMMA AdvanceIs ==
  ASSUME NEW S, text \in Seq(S), NEW e, NEW from \in SUBSET (0..Len(text))
  PROVE  /\ Advance(e, from) \in SUBSET (0..Len(text))
         /\ \A n \in 0..Len(text) : n \in Advance(e, from) <=> \E m \in from : Goes(text, e, m, n)
<1>. DEFINE L == Len(text)
<1>1. L \in Nat
  BY LenProperties
<1>2. \A m \in from : m \in 0..L
  OBVIOUS
<1>3. CASE e = "**"
  <2>1. Advance(e, from) = {n \in 0..L : \E m \in from : m <= n}
    BY <1>3 DEF Advance
  <2>2. \A m, n : Goes(text, e, m, n) = (m <= n)
    BY <1>3 DEF Goes
  <2>. QED  BY <2>1, <2>2
<1>4. CASE e = "*"
  <2>1. Advance(e, from) = {n \in 0..L : \E m \in from : m <= n /\ \A k \in (m + 1)..n : text[k] # "/"}
    BY <1>4 DEF Advance
  <2>2. \A m, n : Goes(text, e, m, n) <=> (m <= n /\ \A k \in (m + 1)..n : text[k] # "/")
    BY <1>4 DEF Goes
  <2>. QED  BY <2>1, <2>2
<1>5. CASE e = "$"
  <2>1. Advance(e, from) = from \cap {L}
    BY <1>5 DEF Advance
  <2>2. \A m, n : Goes(text, e, m, n) <=> (m = L /\ n = m)
    BY <1>5 DEF Goes
  <2>. QED  BY <2>1, <2>2
<1>6. CASE e = "?"
  <2>1. Advance(e, from) = {m + 1 : m \in from \ {L}}
    BY <1>6 DEF Advance
  <2>2. \A m, n : Goes(text, e, m, n) <=> (m < L /\ n = m + 1)
    BY <1>6 DEF Goes
  <2>3. \A m \in from : m # L <=> m < L
    BY <1>1, <1>2
  <2>4. \A m \in from : m < L => m + 1 \in 0..L
    BY <1>1, <1>2
  <2>. QED  BY <2>1, <2>2, <2>3, <2>4
<1>7. CASE e \notin {"**", "*", "$", "?"}
  <2>1. Advance(e, from) = {m + 1 : m \in {k \in from \ {L} : text[k + 1] = e}}
    BY <1>7 DEF Advance
  <2>2. \A m, n : Goes(text, e, m, n) <=> (m < L /\ n = m + 1 /\ text[m + 1] = e)
    BY <1>7 DEF Goes
  <2>3. \A m \in from : m # L <=> m < L
    BY <1>1, <1>2
  <2>4. \A m \in from : m < L => m + 1 \in 0..L
    BY <1>1, <1>2
  <2>. QED  BY <2>1, <2>2, <2>3, <2>4
<1>. QED  BY <1>3, <1>4, <1>5, <1>6, <1>7

\* The elements of q behind the k-th go from j to n in s.
Steps(s, q, k, j, n, f) ==
  /\ f \in [k..Len(q) -> 0..Len(s)] /\ f[k] = j /\ f[Len(q)] = n
  /\ \A i \in (k + 1)..Len(q) : Goes(s, q[i], f[i - 1], f[i])
Run(s, q, k, j, n) == \E f : Steps(s, q, k, j, n, f)

LEMMA RunEnds ==
  ASSUME NEW X, NEW q \in Seq(X), NEW S, NEW s \in Seq(S), NEW j \in 0..Len(s), NEW n
  PROVE  Run(s, q, Len(q), j, n) <=> n = j
<1>. DEFINE N == Len(q)
            f == [i \in N..N |-> j]
<1>1. N \in Nat /\ N \in N..N /\ (N + 1)..N = {}
  BY LenProperties
<1>2. ASSUME n = j  PROVE Run(s, q, N, j, n)
  <2>1. Steps(s, q, N, j, n, f)
    <3>1. f \in [N..N -> 0..Len(s)] /\ f[N] = j
      BY <1>1
    <3>. HIDE DEF f
    <3>. QED  BY <1>1, <1>2, <3>1 DEF Steps
  <2>. HIDE DEF f
  <2>. QED  BY <2>1 DEF Run
<1>3. ASSUME Run(s, q, N, j, n)  PROVE n = j
  BY <1>3 DEF Run, Steps
<1>. QED  BY <1>2, <1>3

LEMMA RunBegins ==
  ASSUME NEW X, NEW q \in Seq(X), NEW S, NEW s \in Seq(S), NEW k \in 0..(Len(q) - 1), NEW j \in 0..Len(s), NEW n
  PROVE  Run(s, q, k, j, n) <=> \E m \in 0..Len(s) : Goes(s, q[k + 1], j, m) /\ Run(s, q, k + 1, m, n)
<1>. DEFINE N == Len(q)
            L == Len(s)
<1>1. N \in Nat /\ k \in Nat /\ k + 1 \in k..N /\ k \in k..N /\ N \in k..N /\ N \in (k + 1)..N /\ k + 1 \in (k + 1)..N
  BY LenProperties
<1>. HIDE DEF N, L
<1>2. \A i \in (k + 1)..N : i \in k..N /\ i # k /\ i - 1 \in k..N /\ (i # k + 1 => i - 1 \in (k + 1)..N)
  BY <1>1
<1>3. \A i \in ((k + 1) + 1)..N : i \in (k + 1)..N /\ i # k + 1
  BY <1>1
<1>4. \A i \in (k + 1)..N : i # k + 1 => i \in ((k + 1) + 1)..N
  BY <1>1
<1>5. ASSUME Run(s, q, k, j, n)
      PROVE  \E m \in 0..L : Goes(s, q[k + 1], j, m) /\ Run(s, q, k + 1, m, n)
  <2>1. PICK f : Steps(s, q, k, j, n, f)
    BY <1>5 DEF Run
  <2>2. f \in [k..N -> 0..L] /\ f[k] = j /\ f[N] = n /\ \A i \in (k + 1)..N : Goes(s, q[i], f[i - 1], f[i])
    BY <2>1 DEF Steps, N, L
  <2>. DEFINE g == [i \in (k + 1)..N |-> f[i]]
  <2>3. g \in [(k + 1)..N -> 0..L] /\ g[k + 1] = f[k + 1] /\ g[N] = n
    BY <1>1, <1>2, <2>2
  <2>4. \A i \in ((k + 1) + 1)..N : g[i] = f[i] /\ g[i - 1] = f[i - 1]
    BY <1>2, <1>3
  <2>. HIDE DEF g
  <2>5. \A i \in ((k + 1) + 1)..N : Goes(s, q[i], g[i - 1], g[i])
    BY <1>3, <2>2, <2>4
  <2>6. Steps(s, q, k + 1, f[k + 1], n, g)
    BY <2>3, <2>5 DEF Steps, N, L
  <2>7. f[k + 1] \in 0..L /\ Goes(s, q[k + 1], f[(k + 1) - 1], f[k + 1]) /\ (k + 1) - 1 = k
    BY <1>1, <2>2
  <2>8. Goes(s, q[k + 1], j, f[k + 1])
    BY <2>2, <2>7
  <2>. QED  BY <2>6, <2>7, <2>8 DEF Run
<1>6. ASSUME NEW m \in 0..L, Goes(s, q[k + 1], j, m), Run(s, q, k + 1, m, n)
      PROVE  Run(s, q, k, j, n)
  <2>1. PICK f : Steps(s, q, k + 1, m, n, f)
    BY <1>6 DEF Run
  <2>2. f \in [(k + 1)..N -> 0..L] /\ f[k + 1] = m /\ f[N] = n
          /\ \A i \in ((k + 1) + 1)..N : Goes(s, q[i], f[i - 1], f[i])
    BY <2>1 DEF Steps, N, L
  <2>. DEFINE g == [i \in k..N |-> IF i = k THEN j ELSE f[i]]
  <2>3. g[k] = j /\ \A i \in (k + 1)..N : g[i] = f[i]
    BY <1>1, <1>2
  <2>4. g \in [k..N -> 0..L]
    <3>1. \A i \in k..N : i # k => i \in (k + 1)..N
      BY <1>1
    <3>. QED  BY <2>2, <3>1 DEF L
  <2>. HIDE DEF g
  <2>5. ASSUME NEW i \in (k + 1)..N  PROVE Goes(s, q[i], g[i - 1], g[i])
    <3>1. CASE i = k + 1
      <4>1. i - 1 = k
        BY <1>1, <3>1
      <4>2. g[i - 1] = j /\ g[i] = m
        BY <1>1, <2>2, <2>3, <3>1, <4>1
      <4>. QED  BY <1>6, <3>1, <4>2
    <3>2. CASE i # k + 1
      <4>1. g[i] = f[i] /\ g[i - 1] = f[i - 1]
        BY <1>2, <2>3, <3>2
      <4>. QED  BY <1>4, <2>2, <3>2, <4>1
    <3>. QED  BY <3>1, <3>2
  <2>6. g[N] = n
    BY <1>1, <2>2, <2>3
  <2>. QED  BY <2>3, <2>4, <2>5, <2>6 DEF Run, Steps, N, L
<1>. QED  BY <1>5, <1>6 DEF L

\* What a pattern without alternatives matches is where its elements can go.
LEMMA MatchedIs ==
  ASSUME NEW S, text \in Seq(S), NEW X, NEW q \in Seq(X)
  PROVE  /\ Matched(q) \in SUBSET (0..Len(text))
         /\ \A n \in 0..Len(text) : n \in Matched(q) <=> Run(text, q, 0, 0, n)
<1>. DEFINE N == Len(q)
            L == Len(text)
            P == 0..N
            D == SUBSET (0..L)
            G == [k \in P |-> [f \in [P -> D] |-> IF k = 0 THEN {0} ELSE Advance(q[k], f[k - 1])]]
            w == CHOOSE reach : reach = [k \in P |-> IF k = 0 THEN {0} ELSE Advance(q[k], reach[k - 1])]
<1>1. N \in Nat /\ L \in Nat /\ P = 0..N /\ 0 \in P /\ N \in P
  BY LenProperties
<1>2. Matched(q) = w[N]
  BY DEF Matched
<1>3. {0} \in D /\ D # {} /\ \A e : \A from \in D : Advance(e, from) \in D
  <2>1. {0} \in D
    BY <1>1
  <2>2. D # {}
    BY <2>1, Zenon
  <2>3. \A e : \A from \in D : Advance(e, from) \in D
    <3>. TAKE e
    <3>. TAKE from \in D
    <3>. QED  BY AdvanceIs
  <2>. QED  BY <2>1, <2>2, <2>3
<1>4. \A k \in P : \A f \in [P -> D] : G[k][f] = IF k = 0 THEN {0} ELSE Advance(q[k], f[k - 1])
  OBVIOUS
<1>5. \A k \in P : k # 0 => k - 1 \in P
  BY <1>1
<1>6. G \in [P -> [[P -> D] -> D]]
  <2>. HIDE DEF D, P, N, L
  <2>1. \A k \in P : \A f \in [P -> D] : (IF k = 0 THEN {0} ELSE Advance(q[k], f[k - 1])) \in D
    BY <1>3, <1>5
  <2>. QED  BY <2>1
<1>. HIDE DEF G, D, P, N, L
<1>7. RecursionTo(D, N, G)
  <2>1. ASSUME NEW k \in P, NEW f \in [P -> D], NEW g \in [P -> D], \A i \in 0..(k - 1) : f[i] = g[i]
        PROVE  G[k][f] = G[k][g]
    <3>1. k # 0 => k - 1 \in 0..(k - 1)
      BY <1>1
    <3>2. k # 0 => f[k - 1] = g[k - 1]
      BY <2>1, <3>1
    <3>. QED  BY <1>4, <3>2
  <2>. QED  BY <1>1, <1>6, <2>1, Zenon DEF RecursionTo
<1>8. PICK h : SolutionTo(D, N, G, h)
  BY <1>1, <1>3, <1>7, RecursionToExists
<1>9. h = [k \in P |-> IF k = 0 THEN {0} ELSE Advance(q[k], h[k - 1])]
  <2>1. h \in [P -> D] /\ \A k \in P : h[k] = G[k][h]
    BY <1>1, <1>8 DEF SolutionTo
  <2>. QED  BY <1>4, <2>1
<1>10. w = [k \in P |-> IF k = 0 THEN {0} ELSE Advance(q[k], w[k - 1])]
  <2>1. \E g : g = [k \in P |-> IF k = 0 THEN {0} ELSE Advance(q[k], g[k - 1])]
    BY <1>9
  <2>. QED  BY <2>1, Zenon
<1>. HIDE DEF w
<1>11. \A k \in P : w[k] = IF k = 0 THEN {0} ELSE Advance(q[k], w[k - 1])
  BY <1>10
<1>12. \A k \in P : w[k] \in D
  <2>. DEFINE U == {k \in Nat : k \in P => w[k] \in D}
  <2>1. 0 \in U
    BY <1>1, <1>3, <1>11
  <2>2. ASSUME NEW k \in Nat, k \in U  PROVE k + 1 \in U
    <3>. SUFFICES ASSUME k + 1 \in P  PROVE w[k + 1] \in D
      OBVIOUS
    <3>1. k \in P /\ k + 1 # 0 /\ (k + 1) - 1 = k
      BY <1>1
    <3>2. w[k + 1] = Advance(q[k + 1], w[k]) /\ w[k] \in D
      BY <1>11, <2>2, <3>1
    <3>. QED  BY <1>3, <3>2
  <2>. HIDE DEF U
  <2>3. \A k \in Nat : k \in U
    BY <2>1, <2>2, SetInduction
  <2>4. \A k \in P : k \in Nat
    BY <1>1
  <2>. QED  BY <2>3, <2>4 DEF U
<1>13. \A k \in P : k # 0 => \A m \in 0..L : m \in w[k] <=> \E i \in w[k - 1] : Goes(text, q[k], i, m)
  <2>. SUFFICES ASSUME NEW k \in P, k # 0
                PROVE  \A m \in 0..L : m \in w[k] <=> \E i \in w[k - 1] : Goes(text, q[k], i, m)
    OBVIOUS
  <2>1. w[k] = Advance(q[k], w[k - 1]) /\ w[k - 1] \in SUBSET (0..L)
    BY <1>5, <1>11, <1>12 DEF D
  <2>. QED  BY <2>1, AdvanceIs DEF L
\* From each place on, the elements that are left go where all of them go.
<1>. DEFINE V == {n \in Nat : \A k \in P : N - k = n =>
                     \A m \in 0..L : m \in w[N] <=> \E i \in w[k] : Run(text, q, k, i, m)}
<1>14. 0 \in V
  <2>1. \A k \in P : N - k = 0 => k = N
    BY <1>1
  <2>2. w[N] \subseteq 0..L
    BY <1>1, <1>12 DEF D
  <2>3. \A i \in 0..L : \A m : Run(text, q, N, i, m) <=> m = i
    BY RunEnds DEF N, L
  <2>. QED  BY <2>1, <2>2, <2>3
<1>15. ASSUME NEW n \in Nat, n \in V  PROVE n + 1 \in V
  <2>. SUFFICES ASSUME NEW k \in P, N - k = n + 1, NEW m \in 0..L
                PROVE  m \in w[N] <=> \E i \in w[k] : Run(text, q, k, i, m)
    OBVIOUS
  <2>. DEFINE b == k + 1
  <2>1. b \in P /\ b # 0 /\ b - 1 = k /\ N - b = n /\ k \in 0..(N - 1)
    BY <1>1
  <2>2. m \in w[N] <=> \E i \in w[b] : Run(text, q, b, i, m)
    BY <1>15, <2>1
  <2>3. w[b] \subseteq 0..L /\ w[k] \subseteq 0..L
    BY <1>12, <2>1 DEF D
  <2>4. \A i \in 0..L : i \in w[b] <=> \E a \in w[k] : Goes(text, q[b], a, i)
    BY <1>13, <2>1
  <2>5. \A a \in 0..L : Run(text, q, k, a, m) <=> \E i \in 0..L : Goes(text, q[b], a, i) /\ Run(text, q, b, i, m)
    BY <2>1, RunBegins DEF N, L
  <2>. HIDE DEF b, V
  <2>. QED  BY <2>2, <2>3, <2>4, <2>5
<1>. HIDE DEF V
<1>16. \A n \in Nat : n \in V
  BY <1>14, <1>15, SetInduction
<1>17. \A m \in 0..L : m \in w[N] <=> \E i \in w[0] : Run(text, q, 0, i, m)
  <2>1. N - 0 = N /\ N \in V
    BY <1>1, <1>16
  <2>. QED  BY <1>1, <2>1 DEF V
<1>18. w[0] = {0} /\ w[N] \in SUBSET (0..L)
  BY <1>1, <1>11, <1>12 DEF D
<1>. QED  BY <1>2, <1>17, <1>18 DEF L

Elements == Letters \cup {"$", "?", "*", "**"}

\* What PatternsAssumption says of an alternative.
Proper(q) ==
  /\ q \in Seq(Elements)
  /\ \A k \in 1..(Len(q) - 1) : q[k] # "$" /\ ~({q[k], q[k + 1]} \subseteq {"*", "**"})

LEMMA RowOfTwo ==
  ASSUME NEW p, NEW s, NEW match, NEW i \in Nat, NEW j \in Nat, Len(s) \in Nat,
         ~(i > Len(p)), p[i] = "*", i < Len(p), p[i + 1] = "*"
  PROVE  RowAt(p, s, match, i, j) = Star(j, Len(s) + 1 - j, match[i + 2])
<1>. DEFINE any == i < Len(p) /\ p[i + 1] = "*"
            end == IF any THEN Len(s) + 1 ELSE FirstOr({k \in j..Len(s) : s[k] = "/"}, Len(s) + 1)
            two == IF any THEN 2 ELSE 1
<1>1. RowAt(p, s, match, i, j) = Star(j, end - j, match[i + two])
  BY DEF RowAt
<1>2. any
  OBVIOUS
<1>3. end = Len(s) + 1 /\ two = 2
  BY <1>2
<1>. HIDE DEF any, end, two
<1>4. end - j = Len(s) + 1 - j /\ i + two = i + 2
  BY <1>3
<1>. QED  BY <1>1, <1>4

\* What the rows of match hold for an element at the place where it is written.
ElementAt(s, q, match, at, k, j) ==
  LET e    == q[k + 1]
      here == match[at[k] + 1][j + 1]
      next == match[at[k + 1] + 1]
  IN  /\ next \in [1..(Len(s) + 1) -> Int]
      /\ \/ /\ e \in {"*", "**"}
            /\ \E most \in 0..(Len(s) - j) :
                 /\ here = Star(j + 1, most, next)
                 /\ \A n \in 0..(Len(s) - j) : n <= most <=> Goes(s, e, j, j + n)
         \/ e = "$" /\ k + 1 = Len(q) /\ here = IF j = Len(s) THEN 0 ELSE -1
         \/ /\ e \notin {"*", "**", "$"}
            /\ here = IF j < Len(s) /\ Goes(s, e, j, j + 1) THEN Plus(1, next[j + 2]) ELSE -1

LEMMA ElementIs ==
  ASSUME NEW q, Proper(q), NEW S, NEW s \in Seq(S), NEW match, MatchRows(Flat(q), s, match),
         NEW at, Layout(q, Flat(q), at), NEW k \in 0..(Len(q) - 1), NEW j \in 0..Len(s)
  PROVE  ElementAt(s, q, match, at, k, j)
<1>. DEFINE N == Len(q)
            L == Len(s)
            F == Flat(q)
            M == Len(F)
            e == q[k + 1]
            i == at[k] + 1
            here == match[i][j + 1]
            next == match[at[k + 1] + 1]
<1>1. q \in Seq(Elements) /\ "*" \in Elements
  BY DEF Proper, Elements
<1>2. F \in Seq(Elements)
  BY <1>1, FlatIs
<1>3. N \in Nat /\ L \in Nat /\ M \in Nat
  BY <1>1, <1>2, LenProperties
<1>. DEFINE b == k + 1
<1>4. b \in 1..N /\ b - 1 = k /\ k \in 0..N /\ b \in 0..N
  BY <1>3
<1>. HIDE DEF F
<1>5. /\ at \in [0..N -> 0..M] /\ at[N] = M
      /\ \A c \in 1..N : IF q[c] = "**" THEN at[c] = at[c - 1] + 2 /\ F[at[c - 1] + 1] = "*" /\ F[at[c - 1] + 2] = "*"
                         ELSE at[c] = at[c - 1] + 1 /\ F[at[c - 1] + 1] = q[c]
  BY DEF Layout, F
<1>6. IF e = "**" THEN at[b] = at[k] + 2 /\ F[i] = "*" /\ F[at[k] + 2] = "*"
      ELSE at[b] = at[k] + 1 /\ F[i] = e
  BY <1>4, <1>5
<1>7. at[k] \in 0..M /\ at[b] \in 0..M
  BY <1>4, <1>5
<1>8. i \in 1..(M + 1) /\ at[b] + 1 \in 1..(M + 1) /\ i <= M /\ i \in Nat
        /\ (IF e = "**" THEN at[b] + 1 = i + 2 /\ i < M ELSE at[b] + 1 = i + 1)
        /\ at[k] + 2 = i + 1
  <2>. DEFINE x == at[k]
              y == at[b]
  <2>1. x \in 0..M /\ y \in 0..M /\ (e = "**" => y = x + 2) /\ (e # "**" => y = x + 1)
    BY <1>6, <1>7
  <2>. HIDE DEF x, y, e, M
  <2>2. /\ x + 1 \in 1..(M + 1) /\ y + 1 \in 1..(M + 1) /\ x + 1 <= M /\ x + 1 \in Nat /\ x + 2 = (x + 1) + 1
        /\ e = "**" => y + 1 = (x + 1) + 2 /\ x + 1 < M
        /\ e # "**" => y + 1 = (x + 1) + 1
    BY <1>3, <2>1
  <2>. QED  BY <2>2 DEF x, y
<1>9. /\ match \in [1..(M + 1) -> [1..(L + 1) -> Int]]
      /\ \A r \in 1..(M + 1) : \A c \in 1..(L + 1) : match[r][c] = RowAt(F, s, match, r, c)
  BY DEF MatchRows, F
<1>. DEFINE c == j + 1
<1>10. /\ c \in 1..(L + 1) /\ c \in Nat /\ j \in Nat
       /\ (c > L <=> j = L) /\ (c <= L <=> j < L) /\ (c <= L => c + 1 = j + 2)
  BY <1>3
<1>11. here = RowAt(F, s, match, i, c) /\ next \in [1..(L + 1) -> Int]
  BY <1>8, <1>9, <1>10
<1>. HIDE DEF i, c, N, L, M, b
<1>12. CASE e = "**"
  <2>. DEFINE most == L + 1 - c
  <2>1. F[i] = "*" /\ i < M /\ F[i + 1] = "*" /\ match[i + 2] = next
    BY <1>6, <1>8, <1>12 DEF b
  <2>2. here = Star(c, L + 1 - c, match[i + 2])
    <3>1. ~(i > M) /\ F[i] # "$"
      BY <1>3, <1>8, <2>1
    <3>2. RowAt(F, s, match, i, c) = Star(c, L + 1 - c, match[i + 2])
      BY <1>3, <1>8, <1>10, <2>1, <3>1, RowOfTwo DEF M, L
    <3>. QED  BY <1>11, <3>2
  <2>3. here = Star(c, most, next) /\ most \in 0..(L - j) /\ most = L - j
    BY <1>3, <1>10, <2>1, <2>2 DEF c
  <2>4. \A n \in 0..(L - j) : n <= most /\ j <= j + n
    BY <1>3, <1>10, <2>3
  <2>5. \A n : Goes(s, e, j, n) = (j <= n)
    BY <1>12 DEF Goes
  <2>6. \A n \in 0..(L - j) : n <= most <=> Goes(s, e, j, j + n)
    BY <2>4, <2>5
  <2>. HIDE DEF most, here, next, e
  <2>. QED  BY <1>11, <1>12, <2>3, <2>6 DEF c, b, L, N, i, here, next, e, ElementAt
<1>13. CASE e = "*"
  <2>1. F[i] = "*" /\ match[i + 1] = next /\ ~(i > M)
    BY <1>3, <1>6, <1>8, <1>13 DEF b
\* The element behind a star is not one.
  <2>2. ~(i < M /\ F[i + 1] = "*")
    <3>1. CASE b = N
      <4>1. i = M
        BY <1>3, <1>5, <1>6, <1>7, <1>8, <1>13, <3>1 DEF i
      <4>. QED  BY <1>3, <4>1
    <3>2. CASE b # N
      <4>. DEFINE d == b + 1
      <4>1. d \in 1..N /\ b \in 1..(N - 1) /\ d - 1 = b
        BY <1>3, <1>4, <3>2
      <4>2. ~({q[b], q[d]} \subseteq {"*", "**"})
        BY <4>1 DEF Proper, N
      <4>3. q[d] # "*" /\ q[d] # "**"
        BY <1>13, <4>2 DEF b
      <4>4. F[at[b] + 1] = q[d]
        BY <1>5, <4>1, <4>3
      <4>5. at[b] + 1 = i + 1
        BY <1>8, <1>13
      <4>. QED  BY <4>3, <4>4, <4>5
    <3>. QED  BY <3>1, <3>2
  <2>. DEFINE end == FirstOr({r \in c..L : s[r] = "/"}, L + 1)
              most == end - c
  <2>3. here = Star(c, end - c, match[i + 1])
    <3>1. F[i] # "$"
      BY <2>1
    <3>. QED  BY <1>11, <2>1, <2>2, <3>1 DEF RowAt, M, L
  <2>4. /\ end \in c..(L + 1)
        /\ \A n \in c..(L + 1) : n <= end <=> \A r \in c..(n - 1) : s[r] # "/"
    BY <1>10, SlashIs DEF L
  <2>. HIDE DEF end
  <2>5. most \in 0..(L - j)
    BY <1>3, <1>10, <2>4 DEF c
  <2>6. ASSUME NEW n \in 0..(L - j)  PROVE n <= most <=> Goes(s, e, j, j + n)
    <3>. DEFINE m == c + n
    <3>1. m \in c..(L + 1) /\ m - 1 = j + n /\ (m <= end <=> n <= most) /\ j <= j + n
      BY <1>3, <1>10, <2>4 DEF c
    <3>2. Goes(s, e, j, j + n) <=> (j <= j + n /\ \A r \in (j + 1)..(j + n) : s[r] # "/")
      BY <1>13 DEF Goes
    <3>3. m <= end <=> \A r \in c..(m - 1) : s[r] # "/"
      BY <2>4, <3>1
    <3>. HIDE DEF m
    <3>4. m <= end <=> \A r \in (j + 1)..(j + n) : s[r] # "/"
      BY <3>1, <3>3 DEF c
    <3>. QED  BY <3>1, <3>2, <3>4
  <2>7. here = Star(c, most, next)
    BY <2>1, <2>3
  <2>. HIDE DEF most, here, next, e
  <2>. QED  BY <1>11, <1>13, <2>5, <2>6, <2>7 DEF c, b, L, N, i, here, next, e, ElementAt
<1>14. CASE e = "$"
  <2>1. b = N
    <3>1. b # N => b \in 1..(N - 1)
      BY <1>3, <1>4
    <3>2. b \in 1..(N - 1) => q[b] # "$"
      BY DEF Proper, N
    <3>. QED  BY <1>14, <3>1, <3>2 DEF b
  <2>2. F[i] = "$" /\ ~(i > M)
    BY <1>3, <1>6, <1>8, <1>14
  <2>3. here = IF c > L THEN 0 ELSE -1
    BY <1>11, <2>2 DEF RowAt, M, L
  <2>4. here = IF j = L THEN 0 ELSE -1
    BY <1>10, <2>3
  <2>. HIDE DEF here, next, e
  <2>. QED  BY <1>11, <1>14, <2>1, <2>4 DEF b, L, N, i, here, next, e, c, ElementAt
<1>15. CASE e \notin {"*", "**", "$"}
  <2>1. F[i] = e /\ match[i + 1] = next /\ ~(i > M)
    BY <1>3, <1>6, <1>8, <1>15 DEF b
  <2>2. here = IF c <= L /\ e \in {"?", s[c]} THEN Plus(1, next[c + 1]) ELSE -1
    BY <1>11, <1>15, <2>1 DEF RowAt, M, L
  <2>3. j < L => (Goes(s, e, j, j + 1) <=> e \in {"?", s[c]})
    <3>1. CASE e = "?"
      BY <3>1 DEF Goes, L
    <3>2. CASE e # "?"
      <4>1. Goes(s, e, j, j + 1) <=> (j < L /\ j + 1 = j + 1 /\ s[j + 1] = e)
        BY <1>15, <3>2 DEF Goes, L
      <4>. QED  BY <3>2, <4>1 DEF c
    <3>. QED  BY <3>1, <3>2
  <2>4. here = IF j < L /\ Goes(s, e, j, j + 1) THEN Plus(1, next[j + 2]) ELSE -1
    <3>. HIDE DEF here, next, e
    <3>. QED  BY <1>10, <2>2, <2>3
  <2>. HIDE DEF here, next, e
  <2>. QED  BY <1>11, <1>15, <2>4 DEF b, L, N, i, here, next, e, c, ElementAt
<1>. QED  BY <1>12, <1>13, <1>14, <1>15

\* What match holds where the k-th element ends is -1 exactly if the elements behind it
\* cannot be gone through, and where they can take something it is such a way.
FindsAt(s, q, k, j, v) ==
  /\ v \in Int
  /\ v # -1 => v >= 0 /\ j + v \in 0..Len(s) /\ Run(s, q, k, j, j + v)
  /\ \A n \in 0..Len(s) : Run(s, q, k, j, n) => v # -1 /\ (n > j => v > 0)
Finds(s, q, match, at, k) ==
  \A j \in 0..Len(s) : FindsAt(s, q, k, j, match[at[k] + 1][j + 1])

\* A star, if that holds behind it.
LEMMA StarFinds ==
  ASSUME NEW X, NEW q \in Seq(X), NEW S, NEW s \in Seq(S), NEW k \in 0..(Len(q) - 1), NEW j \in 0..Len(s),
         q[k + 1] \in {"*", "**"}, NEW rest \in [1..(Len(s) + 1) -> Int],
         \A m \in 0..Len(s) : FindsAt(s, q, k + 1, m, rest[m + 1]),
         NEW most \in 0..(Len(s) - j),
         \A n \in 0..(Len(s) - j) : n <= most <=> Goes(s, q[k + 1], j, j + n)
  PROVE  FindsAt(s, q, k, j, Star(j + 1, most, rest))
<1>. DEFINE L == Len(s)
            e == q[k + 1]
            v == Star(j + 1, most, rest)
<1>1. L \in Nat /\ j \in Nat /\ j <= L /\ most \in Nat /\ j + most <= L
  BY LenProperties
<1>2. \A n \in Nat : Run(s, q, k, j, n) <=> \E m \in 0..L : Goes(s, e, j, m) /\ Run(s, q, k + 1, m, n)
  BY RunBegins
<1>3. \A m, n : Goes(s, e, m, n) => m <= n
  BY DEF Goes
<1>4. /\ v \in Int
      /\ \/ v = -1 /\ \A n \in 0..most : rest[(j + 1) + n] = -1
         \/ \E n \in 0..most : /\ rest[(j + 1) + n] # -1 /\ v = n + rest[(j + 1) + n]
                               /\ \A i \in 0..most : rest[(j + 1) + i] # -1 => i <= n
  <2>. DEFINE c == j + 1
  <2>1. c \in 1..(L + 1) /\ most \in 0..(L + 1 - c)
    BY <1>1
  <2>2. rest \in [1..(L + 1) -> Int]
    OBVIOUS
  <2>. HIDE DEF c, L, v
  <2>3. v = Star(c, most, rest)
    BY DEF v, c
  <2>4. /\ Star(c, most, rest) \in Int
        /\ \/ Star(c, most, rest) = -1 /\ \A n \in 0..most : rest[c + n] = -1
           \/ \E n \in 0..most : /\ rest[c + n] # -1 /\ Star(c, most, rest) = n + rest[c + n]
                                 /\ \A i \in 0..most : rest[c + i] # -1 => i <= n
    <3>1. L \in Nat /\ c \in 1..(L + 1) /\ most \in 0..(L + 1 - c) /\ rest \in [1..(L + 1) -> Int]
      BY <1>1, <2>1, <2>2
    <3>. QED  BY <3>1, StarIs, Zenon
  <2>5. /\ v \in Int
        /\ \/ v = -1 /\ \A n \in 0..most : rest[c + n] = -1
           \/ \E n \in 0..most : /\ rest[c + n] # -1 /\ v = n + rest[c + n]
                                 /\ \A i \in 0..most : rest[c + i] # -1 => i <= n
    BY <2>3, <2>4
  <2>. QED  BY <2>5 DEF c
<1>5. \A n \in 0..most : (j + 1) + n = (j + n) + 1 /\ j + n \in 0..L /\ n \in 0..(L - j)
  BY <1>1
\* What is taken, and where that leads.
<1>6. \A n \in 0..most : Goes(s, e, j, j + n) /\ FindsAt(s, q, k + 1, j + n, rest[(j + 1) + n])
  <2>. TAKE n \in 0..most
  <2>1. n \in 0..(L - j) /\ n <= most /\ j + n \in 0..L /\ (j + 1) + n = (j + n) + 1
    BY <1>1, <1>5
  <2>. DEFINE m == j + n
  <2>2. FindsAt(s, q, k + 1, m, rest[m + 1])
    BY <2>1
  <2>3. Goes(s, e, j, j + n)
    BY <2>1
  <2>. QED  BY <2>1, <2>2, <2>3
<1>7. \A m \in 0..L : Goes(s, e, j, m) => m - j \in 0..most /\ j + (m - j) = m
  <2>. SUFFICES ASSUME NEW m \in 0..L, Goes(s, e, j, m)  PROVE m - j \in 0..most /\ j + (m - j) = m
    OBVIOUS
  <2>. DEFINE t == m - j
  <2>1. t \in 0..(L - j) /\ j + t = m
    <3>1. j <= m
      BY <1>3
    <3>. QED  BY <1>1, <3>1
  <2>. HIDE DEF t
  <2>2. t <= most
    BY <2>1
  <2>. QED  BY <1>1, <2>1, <2>2 DEF t
<1>. HIDE DEF v, L, e
<1>8. CASE v = -1 /\ \A n \in 0..most : rest[(j + 1) + n] = -1
  <2>1. ASSUME NEW n \in 0..L, Run(s, q, k, j, n)  PROVE FALSE
    <3>1. n \in Nat
      BY <1>1
    <3>2. PICK m \in 0..L : Goes(s, e, j, m) /\ Run(s, q, k + 1, m, n)
      BY <1>2, <2>1, <3>1
    <3>. DEFINE t == m - j
    <3>3. t \in 0..most /\ j + t = m
      BY <1>7, <3>2
    <3>. HIDE DEF t
    <3>4. rest[(j + 1) + t] # -1
      BY <1>6, <3>2, <3>3 DEF FindsAt, L
    <3>. QED  BY <1>8, <3>3, <3>4
  <2>. QED  BY <1>4, <1>8, <2>1 DEF FindsAt, v, L
<1>9. ASSUME NEW t \in 0..most, rest[(j + 1) + t] # -1, v = t + rest[(j + 1) + t],
             \A i \in 0..most : rest[(j + 1) + i] # -1 => i <= t
      PROVE  FindsAt(s, q, k, j, v)
  <2>. DEFINE r == rest[(j + 1) + t]
  <2>1. r \in Int /\ r >= 0 /\ (j + t) + r \in 0..L /\ Run(s, q, k + 1, j + t, (j + t) + r) /\ Goes(s, e, j, j + t)
          /\ \A n \in 0..L : Run(s, q, k + 1, j + t, n) => (n > j + t => r > 0)
    BY <1>6, <1>9 DEF FindsAt, L
  <2>. HIDE DEF r
  <2>2. t \in Nat /\ v = t + r
    BY <1>1, <1>9 DEF r
  <2>3. v >= 0 /\ j + v = (j + t) + r /\ j + v \in 0..L /\ j + v \in Nat /\ v # -1
    BY <1>1, <2>1, <2>2
  <2>4. Run(s, q, k, j, j + v)
    <3>1. j + t \in 0..L
      BY <1>5
    <3>. QED  BY <1>2, <2>1, <2>3, <3>1
  <2>5. ASSUME NEW n \in 0..L, Run(s, q, k, j, n), n > j  PROVE v > 0
    <3>1. n \in Nat
      BY <1>1
    <3>2. PICK m \in 0..L : Goes(s, e, j, m) /\ Run(s, q, k + 1, m, n)
      BY <1>2, <2>5, <3>1
    <3>. DEFINE u == m - j
    <3>3. u \in 0..most /\ j + u = m
      BY <1>7, <3>2
    <3>. HIDE DEF u
    <3>4. rest[(j + 1) + u] # -1
      BY <1>6, <3>2, <3>3 DEF FindsAt, L
    <3>5. u <= t
      BY <1>9, <3>3, <3>4
    <3>6. CASE t > 0
      BY <2>1, <2>2, <3>6
    <3>7. CASE ~(t > 0)
      <4>1. t = 0 /\ u = 0 /\ m = j + t /\ n > j + t
        BY <1>1, <2>2, <2>5, <3>1, <3>3, <3>5, <3>7
      <4>2. r > 0
        BY <2>1, <3>2, <4>1
      <4>. QED  BY <2>1, <2>2, <4>2
    <3>. QED  BY <3>6, <3>7
  <2>. QED  BY <1>4, <2>3, <2>4, <2>5 DEF FindsAt, L
<1>10. FindsAt(s, q, k, j, v)
  BY <1>4, <1>8, <1>9 DEF v
<1>. QED  BY <1>10 DEF v

LEMMA FindsOn ==
  ASSUME NEW q, Proper(q), NEW S, NEW s \in Seq(S), NEW match, MatchRows(Flat(q), s, match),
         NEW at, Layout(q, Flat(q), at), NEW k \in 0..(Len(q) - 1), Finds(s, q, match, at, k + 1)
  PROVE  Finds(s, q, match, at, k)
<1>. SUFFICES ASSUME NEW j \in 0..Len(s)  PROVE FindsAt(s, q, k, j, match[at[k] + 1][j + 1])
  BY DEF Finds
<1>. DEFINE L == Len(s)
            e == q[k + 1]
            v == match[at[k] + 1][j + 1]
            rest == match[at[k + 1] + 1]
<1>1. L \in Nat /\ j \in Nat /\ j <= L /\ q \in Seq(Elements)
  BY LenProperties DEF Proper
<1>2. /\ rest \in [1..(L + 1) -> Int]
      /\ \/ /\ e \in {"*", "**"}
            /\ \E most \in 0..(L - j) : /\ v = Star(j + 1, most, rest)
                                        /\ \A n \in 0..(L - j) : n <= most <=> Goes(s, e, j, j + n)
         \/ e = "$" /\ k + 1 = Len(q) /\ v = IF j = L THEN 0 ELSE -1
         \/ /\ e \notin {"*", "**", "$"}
            /\ v = IF j < L /\ Goes(s, e, j, j + 1) THEN Plus(1, rest[j + 2]) ELSE -1
  <2>1. ElementAt(s, q, match, at, k, j)
    BY ElementIs, Zenon
  <2>. QED  BY <2>1 DEF ElementAt
<1>3. \A m \in 0..L : FindsAt(s, q, k + 1, m, rest[m + 1])
  BY DEF Finds
<1>4. \A n : Run(s, q, k, j, n) <=> \E m \in 0..L : Goes(s, e, j, m) /\ Run(s, q, k + 1, m, n)
  BY <1>1, RunBegins
<1>. HIDE DEF rest, v
<1>5. ASSUME e \in {"*", "**"}, NEW most \in 0..(L - j), v = Star(j + 1, most, rest),
             \A n \in 0..(L - j) : n <= most <=> Goes(s, e, j, j + n)
      PROVE  FindsAt(s, q, k, j, v)
  BY <1>1, <1>2, <1>3, <1>5, StarFinds
<1>. HIDE DEF L, e
<1>6. ASSUME e = "$", k + 1 = Len(q), v = IF j = L THEN 0 ELSE -1  PROVE FindsAt(s, q, k, j, v)
  <2>1. \A m \in 0..L : Goes(s, e, j, m) <=> j = L /\ m = j
    BY <1>6 DEF Goes, L
  <2>2. \A m \in 0..L : \A n : Run(s, q, k + 1, m, n) <=> n = m
    BY <1>1, <1>6, RunEnds DEF L
  <2>3. \A n : Run(s, q, k, j, n) <=> j = L /\ n = j
    BY <1>1, <1>4, <2>1, <2>2
  <2>4. v \in Int /\ (v # -1 => v = 0 /\ j = L /\ j + v = j /\ j + v \in 0..L)
    BY <1>1, <1>6
  <2>5. v # -1 => Run(s, q, k, j, j + v)
    BY <2>3, <2>4
  <2>6. \A n \in 0..L : Run(s, q, k, j, n) => v # -1 /\ ~(n > j)
    BY <1>1, <1>6, <2>3
  <2>. QED  BY <2>4, <2>5, <2>6 DEF FindsAt, L
<1>7. ASSUME e \notin {"*", "**", "$"}, v = IF j < L /\ Goes(s, e, j, j + 1) THEN Plus(1, rest[j + 2]) ELSE -1
      PROVE  FindsAt(s, q, k, j, v)
  <2>1. \A m : Goes(s, e, j, m) => j < L /\ m = j + 1
    BY <1>7 DEF Goes, L
  <2>2. CASE j < L /\ Goes(s, e, j, j + 1)
    <3>. DEFINE c == j + 1
                r == rest[c + 1]
    <3>1. c \in 0..L /\ c + 1 = j + 2 /\ c \in Nat
      BY <1>1, <2>2
    <3>. HIDE DEF r
    <3>2. v = IF r = -1 THEN -1 ELSE 1 + r
      <4>1. v = Plus(1, r)
        BY <1>7, <2>2, <3>1 DEF r
      <4>. HIDE DEF r
      <4>. QED  BY <4>1 DEF Plus
    <3>3. /\ r \in Int /\ (r # -1 => r >= 0 /\ c + r \in 0..L /\ Run(s, q, k + 1, c, c + r))
          /\ \A n \in 0..L : Run(s, q, k + 1, c, n) => r # -1
      <4>1. FindsAt(s, q, k + 1, c, r)
        BY <1>3, <3>1 DEF r
      <4>. HIDE DEF c
      <4>. QED  BY <4>1 DEF FindsAt, L
    <3>4. v \in Int /\ (v # -1 => r # -1 /\ v > 0 /\ v >= 0 /\ j + v = c + r) /\ (r # -1 => v # -1)
      BY <1>1, <3>2, <3>3
    <3>5. \A n : Run(s, q, k, j, n) <=> Run(s, q, k + 1, c, n)
      BY <1>4, <2>1, <2>2, <3>1
    <3>. HIDE DEF c
    <3>6. v # -1 => Run(s, q, k, j, j + v) /\ j + v \in 0..L
      BY <3>3, <3>4, <3>5
    <3>7. \A n \in 0..L : Run(s, q, k, j, n) => v # -1 /\ v > 0
      BY <3>3, <3>4, <3>5
    <3>. QED  BY <3>4, <3>6, <3>7 DEF FindsAt, L
  <2>3. CASE ~(j < L /\ Goes(s, e, j, j + 1))
    <3>1. v = -1
      BY <1>7, <2>3
    <3>2. \A n : ~Run(s, q, k, j, n)
      BY <1>4, <2>1, <2>3
    <3>. QED  BY <3>1, <3>2 DEF FindsAt
  <2>. QED  BY <2>2, <2>3
<1>8. FindsAt(s, q, k, j, v)
  BY <1>2, <1>5, <1>6, <1>7
<1>. QED  BY <1>8 DEF v

\* So match_prefix finds something for an alternative exactly if its elements can go
\* somewhere, and then a way they can go.
LEMMA FindsMatched ==
  ASSUME NEW q, Proper(q), NEW S, text \in Seq(S)
  PROVE  LET v == MatchOne(Flat(q), text) IN
         /\ v > 0 => v \in Matched(q)
         /\ \A n \in Matched(q) : n > 0 => v > 0
<1>. DEFINE N == Len(q)
            L == Len(text)
            F == Flat(q)
            v == MatchOne(F, text)
<1>1. q \in Seq(Elements) /\ "*" \in Elements
  BY DEF Proper, Elements
<1>2. F \in Seq(Elements) /\ \E at : Layout(q, F, at)
  BY <1>1, FlatIs
<1>3. N \in Nat /\ L \in Nat /\ Len(F) \in Nat
  BY <1>1, <1>2, LenProperties
<1>4. PICK at : Layout(q, F, at)
  BY <1>2
<1>5. PICK match : MatchRows(F, text, match) /\ v = match[1][1]
  BY <1>2, MatchOneIs
<1>6. at[0] = 0 /\ at[N] = Len(F)
  BY <1>4 DEF Layout
<1>. HIDE DEF v, N
<1>7. Finds(text, q, match, at, N)
  <2>. SUFFICES ASSUME NEW j \in 0..L  PROVE FindsAt(text, q, N, j, match[at[N] + 1][j + 1])
    BY DEF Finds
  <2>1. Len(F) + 1 \in 1..(Len(F) + 1) /\ j + 1 \in 1..(L + 1) /\ Len(F) + 1 > Len(F)
    BY <1>3
  <2>2. match[at[N] + 1][j + 1] = 0
    <3>1. match[Len(F) + 1][j + 1] = RowAt(F, text, match, Len(F) + 1, j + 1)
      BY <1>5, <2>1 DEF MatchRows
    <3>. QED  BY <1>6, <2>1, <3>1 DEF RowAt
  <2>3. \A n : Run(text, q, N, j, n) <=> n = j
    BY <1>1, RunEnds DEF N
  <2>4. j + 0 = j /\ j \in Nat /\ j + 0 \in 0..L
    BY <1>3
  <2>5. FindsAt(text, q, N, j, 0)
    BY <2>3, <2>4 DEF FindsAt
  <2>. QED  BY <2>2, <2>5
<1>. DEFINE U == {n \in Nat : n <= N => Finds(text, q, match, at, N - n)}
<1>8. 0 \in U
  BY <1>3, <1>7
<1>9. ASSUME NEW n \in Nat, n \in U  PROVE n + 1 \in U
  <2>. SUFFICES ASSUME n + 1 <= N  PROVE Finds(text, q, match, at, N - (n + 1))
    OBVIOUS
  <2>. DEFINE k == N - (n + 1)
  <2>1. k \in 0..(Len(q) - 1) /\ k + 1 = N - n /\ n <= N
    BY <1>3 DEF N
  <2>2. Finds(text, q, match, at, k + 1)
    BY <1>9, <2>1
  <2>. HIDE DEF k
  <2>3. Finds(text, q, match, at, k)
    BY <1>4, <1>5, <2>1, <2>2, FindsOn
  <2>. QED  BY <2>3 DEF k
<1>. HIDE DEF U
<1>10. N \in U
  BY <1>3, <1>8, <1>9, SetInduction
<1>11. FindsAt(text, q, 0, 0, v)
  <2>1. Finds(text, q, match, at, 0) /\ 0 \in 0..L
    <3>1. N <= N /\ N - N = 0 /\ 0 \in 0..L
      BY <1>3
    <3>. QED  BY <1>10, <3>1 DEF U
  <2>2. FindsAt(text, q, 0, 0, match[at[0] + 1][0 + 1])
    BY <2>1 DEF Finds
  <2>. QED  BY <1>5, <1>6, <2>2
<1>12. /\ Matched(q) \in SUBSET (0..L)
       /\ \A n \in 0..L : n \in Matched(q) <=> Run(text, q, 0, 0, n)
  BY <1>1, MatchedIs
<1>. HIDE DEF L, F
<1>13. v \in Int /\ (v # -1 => 0 + v \in 0..L /\ Run(text, q, 0, 0, 0 + v))
         /\ \A n \in 0..L : Run(text, q, 0, 0, n) => (n > 0 => v > 0)
  BY <1>11 DEF FindsAt, L
<1>14. v > 0 => v \in Matched(q)
  <2>1. v > 0 => v # -1 /\ 0 + v = v
    BY <1>13
  <2>. QED  BY <1>12, <1>13, <2>1
<1>15. \A n \in Matched(q) : n > 0 => v > 0
  BY <1>12, <1>13
<1>. QED  BY <1>14, <1>15 DEF v, F

\* match_prefix matches what its documentation calls a match of one of the alternatives,
\* and finds one if there is one.
THEOREM PatternsMatch == TextSpec => []MatchesRight
<1>1. TextTyped => MatchesRight
  <2>. SUFFICES ASSUME TextTyped, NEW p \in Patterns
                PROVE  LET n   == MatchPrefix(Written(p), text)
                           all == UNION {Matched(p[i]) : i \in DOMAIN p}
                       IN  /\ n > 0 <=> \E m \in all : m > 0
                           /\ n > 0 => n \in all
    BY DEF MatchesRight
  <2>. DEFINE n == MatchPrefix(Written(p), text)
              all == UNION {Matched(p[i]) : i \in DOMAIN p}
  <2>1. text \in Seq(Characters)
    BY DEF TextTyped
  <2>2. p \in Seq(Seq(Elements)) /\ p # <<>>
    BY PatternsAssumption DEF Elements
  <2>3. \A a \in DOMAIN p : Proper(p[a])
    <3>1. \A a \in DOMAIN p : p[a] \in Seq(Elements)
      BY <2>2
    <3>. QED  BY <3>1, PatternsAssumption DEF Proper, Elements
  <2>4. "*" \in Elements /\ "|" \notin Elements
    BY PatternsAssumption DEF Elements
  <2>5. DOMAIN p = 1..Len(p)
    BY <2>2, LenProperties
  <2>6. /\ n > 0 => \E a \in DOMAIN p : n = MatchOne(Flat(p[a]), text)
        /\ \A a \in DOMAIN p : MatchOne(Flat(p[a]), text) > 0 => n > 0
    BY <2>1, <2>2, <2>4, <2>5, PrefixIs
  <2>7. \A a \in DOMAIN p :
          /\ MatchOne(Flat(p[a]), text) > 0 => MatchOne(Flat(p[a]), text) \in Matched(p[a])
          /\ \A m \in Matched(p[a]) : m > 0 => MatchOne(Flat(p[a]), text) > 0
    BY <2>1, <2>3, FindsMatched
  <2>8. \A m : m \in all <=> \E a \in DOMAIN p : m \in Matched(p[a])
    OBVIOUS
  <2>. HIDE DEF n, all
  <2>9. n > 0 => n \in all
    BY <2>6, <2>7, <2>8
  <2>10. n > 0 <=> \E m \in all : m > 0
    BY <2>6, <2>7, <2>8, <2>9
  <2>. QED  BY <2>9, <2>10 DEF n, all
<1>. QED  BY <1>1, TextTypedInit, TextTypedNext, PTL DEF TextSpec

-----------------------------------------------------------------------------
(* parse_date_string. *)

\* The leap days of the years from 1970 up to and without y.
LeapsBefore(y) == NumLeapYears(y - 1) - NumLeapYears(1970)

\* The days are those of the years, months and days before.
Counted ==
  /\ year \in Nat /\ year >= 1970 /\ month \in 1..12 /\ day \in 1..MonthLen(year, month)
  /\ days = (year - 1970) * 365 + LeapsBefore(year) + DaysBeforeMonth[month] + (day - 1)
            + (IF IsLeap(year) /\ month > 2 THEN 1 ELSE 0)

\* One leap day more in the years that have one.
LEMMA LeapCounted ==
  ASSUME NEW y \in Nat, y >= 1970
  PROVE  /\ NumLeapYears(y) \in Int /\ NumLeapYears(y - 1) \in Int
         /\ NumLeapYears(y) = NumLeapYears(y - 1) + (IF IsLeap(y) THEN 1 ELSE 0)
BY SMTT(60) DEF NumLeapYears, IsLeap

LEMMA LeapsFirst == LeapsBefore(1970) = 0
BY SMTT(60) DEF LeapsBefore, NumLeapYears

\* Months are as long as the table says.
LEMMA MonthsCounted ==
  ASSUME NEW y \in Nat, NEW m \in 1..12
  PROVE  /\ MonthLen(y, m) \in 28..31 /\ DaysBeforeMonth[m] \in Nat
         /\ m < 12 => DaysBeforeMonth[m + 1] + (IF IsLeap(y) /\ m + 1 > 2 THEN 1 ELSE 0)
                        = DaysBeforeMonth[m] + MonthLen(y, m) + (IF IsLeap(y) /\ m > 2 THEN 1 ELSE 0)
         /\ m = 12 => DaysBeforeMonth[m] + MonthLen(y, m) = 365 
<1>. DEFINE D == DaysBeforeMonth
            E == IF IsLeap(y) THEN 1 ELSE 0
<1>1. /\ D[1] = 0 /\ D[2] = 31 /\ D[3] = 59 /\ D[4] = 90 /\ D[5] = 120 /\ D[6] = 151
      /\ D[7] = 181 /\ D[8] = 212 /\ D[9] = 243 /\ D[10] = 273 /\ D[11] = 304 /\ D[12] = 334
  BY DEF DaysBeforeMonth
<1>. HIDE DEF D
<1>2. /\ MonthLen(y, 2) = 28 + E
      /\ \A n \in {4, 6, 9, 11} : MonthLen(y, n) = 30
      /\ \A n \in {1, 3, 5, 7, 8, 10, 12} : MonthLen(y, n) = 31
  BY DEF MonthLen
<1>3. /\ MonthLen(y, m) \in 28..31 /\ D[m] \in Nat
      /\ m < 12 => D[m + 1] + (IF IsLeap(y) /\ m + 1 > 2 THEN 1 ELSE 0)
                        = D[m] + MonthLen(y, m) + (IF IsLeap(y) /\ m > 2 THEN 1 ELSE 0)
      /\ m = 12 => D[m] + MonthLen(y, m) = 365 
  <2>1. \/ m = 1 \/ m = 2 \/ m = 3 \/ m = 4 \/ m = 5 \/ m = 6
        \/ m = 7 \/ m = 8 \/ m = 9 \/ m = 10 \/ m = 11 \/ m = 12
    OBVIOUS
  <2>2. E \in {0, 1} /\ (IsLeap(y) <=> E = 1)
    OBVIOUS
  <2>. HIDE DEF E
  <2>. QED  BY <1>1, <1>2, <2>1, <2>2
<1>. QED  BY <1>3 DEF D

LEMMA CountedInit == CalendarInit => Counted
<1>. SUFFICES ASSUME CalendarInit  PROVE Counted
  OBVIOUS
<1>1. year = 1970 /\ month = 1 /\ day = 1 /\ days = 0
  BY YearAssumption DEF CalendarInit
<1>2. DaysBeforeMonth[1] = 0
  BY DEF DaysBeforeMonth
<1>3. 1970 \in Nat /\ 1 \in 1..12
  OBVIOUS
<1>4. MonthLen(1970, 1) \in 28..31
  BY ONLY <1>3, MonthsCounted
<1>5. 1 \in 1..MonthLen(1970, 1)
  BY <1>4
<1>6. 0 = (1970 - 1970) * 365 + 0 + 0 + (1 - 1) + (IF IsLeap(1970) /\ 1 > 2 THEN 1 ELSE 0)
  OBVIOUS
<1>. QED  BY <1>1, <1>2, <1>3, <1>5, <1>6, LeapsFirst DEF Counted

LEMMA CountedNext == Counted /\ [NextDay]_calendar => Counted'
<1>. SUFFICES ASSUME Counted, [NextDay]_calendar  PROVE Counted'
  OBVIOUS
<1>. DEFINE E(y, m) == IF IsLeap(y) /\ m > 2 THEN 1 ELSE 0
            B(m) == DaysBeforeMonth[m]
            N == MonthLen(year, month)
<1>1. /\ year \in Nat /\ year >= 1970 /\ month \in 1..12 /\ day \in 1..N
      /\ days = (year - 1970) * 365 + LeapsBefore(year) + B(month) + (day - 1) + E(year, month)
  BY DEF Counted
<1>2. /\ N \in 28..31 /\ B(month) \in Nat /\ B(1) = 0
      /\ month < 12 => B(month + 1) + E(year, month + 1) = B(month) + N + E(year, month)
      /\ month = 12 => B(month) + N = 365
  BY <1>1, MonthsCounted DEF DaysBeforeMonth
<1>3. /\ LeapsBefore(year) \in Int
      /\ LeapsBefore(year + 1) = LeapsBefore(year) + (IF IsLeap(year) THEN 1 ELSE 0)
  <2>1. (year + 1) - 1 = year
    BY <1>1
  <2>2. NumLeapYears(1970) \in Int
    BY LeapCounted
  <2>. QED  BY <1>1, <2>1, <2>2, LeapCounted DEF LeapsBefore
<1>4. /\ MonthLen(year, month + 1) \in 28..31 \/ month = 12
      /\ MonthLen(year + 1, 1) \in 28..31
  <2>1. year + 1 \in Nat /\ (month + 1 \in 1..12 \/ month = 12)
    BY <1>1
  <2>. QED  BY <1>1, <2>1, MonthsCounted
<1>5. CASE UNCHANGED calendar
  BY <1>5 DEF calendar, Counted
<1>6. CASE NextDay /\ day < N /\ day' = day + 1 /\ UNCHANGED <<year, month>>
  <2>1. days' = days + 1
    BY <1>6 DEF NextDay
  <2>2. day' \in 1..N
    BY <1>1, <1>2, <1>6
  <2>3. days' = (year - 1970) * 365 + LeapsBefore(year) + B(month) + (day' - 1) + E(year, month)
    <3>1. E(year, month) \in {0, 1}
      OBVIOUS
    <3>. HIDE DEF E, B, N
    <3>. QED  BY <1>1, <1>2, <1>3, <1>6, <2>1, <3>1
  <2>. QED  BY <1>1, <1>6, <2>2, <2>3 DEF Counted
<1>7. CASE NextDay /\ day = N /\ month < 12 /\ day' = 1 /\ month' = month + 1 /\ UNCHANGED year
  <2>1. days' = days + 1
    BY <1>7 DEF NextDay
  <2>2. month' \in 1..12 /\ day' \in 1..MonthLen(year, month')
    BY <1>1, <1>4, <1>7
  <2>3. days' = (year - 1970) * 365 + LeapsBefore(year) + B(month') + (day' - 1) + E(year, month')
    <3>1. E(year, month) \in {0, 1} /\ E(year, month + 1) \in {0, 1}
      OBVIOUS
    <3>2. B(month + 1) \in Nat
      BY <1>1, <1>7, MonthsCounted
    <3>. HIDE DEF E, B, N
    <3>. QED  BY <1>1, <1>2, <1>3, <1>7, <2>1, <3>1, <3>2
  <2>. QED  BY <1>1, <1>7, <2>2, <2>3 DEF Counted
<1>8. CASE NextDay /\ day = N /\ month = 12 /\ day' = 1 /\ month' = 1 /\ year' = year + 1
  <2>1. days' = days + 1
    BY <1>8 DEF NextDay
  <2>2. year' \in Nat /\ year' >= 1970 /\ month' \in 1..12 /\ day' \in 1..MonthLen(year', month')
    BY <1>1, <1>4, <1>8
  <2>3. days' = (year' - 1970) * 365 + LeapsBefore(year') + B(month') + (day' - 1) + E(year', month')
    <3>1. E(year, 12) = (IF IsLeap(year) THEN 1 ELSE 0) /\ E(year + 1, 1) = 0
      OBVIOUS
    <3>2. (IF IsLeap(year) THEN 1 ELSE 0) \in {0, 1}
      OBVIOUS
    <3>. HIDE DEF E, B, N
    <3>. QED  BY <1>1, <1>2, <1>3, <1>8, <2>1, <3>1, <3>2
  <2>. QED  BY <2>2, <2>3 DEF Counted
<1>. QED  BY <1>5, <1>6, <1>7, <1>8 DEF NextDay

\* parse_date_string counts the days of every date right that is not in the first two
\* months of a leap year, up to the years whose seconds overflow an int.
THEOREM DaysCounted == CalendarInit /\ [][NextDay]_calendar => []DateRight
<1>1. Counted => DateRight
  <2>. SUFFICES ASSUME Counted, year > 1970, ~(IsLeap(year) /\ month <= 2)
                PROVE  ParseDate(year, month, day) = days
    BY DEF DateRight
  <2>1. /\ year \in Nat /\ month \in 1..12 /\ day \in 1..MonthLen(year, month)
        /\ MonthLen(year, month) \in 28..31 /\ DaysBeforeMonth[month] \in Nat
    BY MonthsCounted DEF Counted
  <2>2. NumLeapYears(year) = NumLeapYears(year - 1) + (IF IsLeap(year) THEN 1 ELSE 0)
    BY <2>1, LeapCounted
  <2>3. NumLeapYears(year) \in Int /\ NumLeapYears(year - 1) \in Int /\ NumLeapYears(1970) \in Int
    BY <2>1, LeapCounted
  <2>4. IsLeap(year) => month > 2
    BY <2>1
  <2>5. days = (year - 1970) * 365 + (NumLeapYears(year - 1) - NumLeapYears(1970)) + DaysBeforeMonth[month]
               + (day - 1) + (IF IsLeap(year) /\ month > 2 THEN 1 ELSE 0)
    BY DEF Counted, LeapsBefore
  <2>6. (IF IsLeap(year) /\ month > 2 THEN 1 ELSE 0) = (IF IsLeap(year) THEN 1 ELSE 0)
    BY <2>4
  <2>7. (IF IsLeap(year) THEN 1 ELSE 0) \in {0, 1}
    OBVIOUS
  <2>8. ParseDate(year, month, day) = (year - 1970) * 365 + DaysBeforeMonth[month] + (day - 1)
                                      + NumLeapYears(year) - NumLeapYears(1970)
    BY DEF ParseDate
  <2>. HIDE DEF DaysBeforeMonth
  <2>. QED  BY <2>1, <2>2, <2>3, <2>5, <2>6, <2>7, <2>8
<1>. QED  BY <1>1, CountedInit, CountedNext, PTL
=============================================================================
