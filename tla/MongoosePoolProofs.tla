------------------------- MODULE MongoosePoolProofs -------------------------
(***************************************************************************)
(* The threads of the web server, for any number of workers and clients    *)
(* and a ring of any size: the counting agrees with the threads there are, *)
(* nobody is served twice, and the ring is a bounded first-in first-out    *)
(* queue.                                                                  *)
(***************************************************************************)
EXTENDS MongoosePool, FiniteSetTheorems, SequenceTheorems, TLAPS

-----------------------------------------------------------------------------
(* The ring. *)

\* What a ring with this head, tail and these slots holds, in the order it came.
Contents(head, tail, slots) == [i \in 1..(head - tail) |-> slots[(tail + i - 1) % Size]]

Waiting == Contents(sqHead, sqTail, queue)

\* The part of the type invariant that is about the ring.
Indices(head, tail) == tail \in 0..Size /\ head \in tail..(tail + Size)
RingSlots == [Slots -> Sockets \cup {NoSocket}]

\* Indices run to twice the size at most, so the remainder is at most one
\* subtraction, and places less than a ring apart have slots of their own.
LEMMA SlotsDiffer ==
  ASSUME NEW t \in 0..Size, NEW i \in 0..(Size - 1), NEW j \in 0..(Size - 1)
  PROVE  /\ (t + i) % Size \in Slots
         /\ (t + i) % Size = (t + j) % Size => i = j
<1>1. (t + i) % Size = IF t + i < Size THEN t + i ELSE t + i - Size
  BY SizeAssumption
<1>2. (t + j) % Size = IF t + j < Size THEN t + j ELSE t + j - Size
  BY SizeAssumption
<1>. QED  BY <1>1, <1>2, SizeAssumption DEF Slots

\* The contents are a sequence of as many sockets as head and tail are apart.
LEMMA ContentsType ==
  ASSUME NEW h, NEW t, Indices(h, t), NEW q \in RingSlots
  PROVE  /\ h - t \in 0..Size
         /\ Contents(h, t, q) \in Seq(Sockets \cup {NoSocket})
         /\ Len(Contents(h, t, q)) = h - t
<1>1. h - t \in 0..Size /\ t \in Int
  BY SizeAssumption DEF Indices
<1>2. ASSUME NEW i \in 1..(h - t)
      PROVE  q[(t + i - 1) % Size] \in Sockets \cup {NoSocket}
  <2>1. i - 1 \in 0..(Size - 1) /\ t + (i - 1) = t + i - 1
    BY <1>1, SizeAssumption
  <2>2. (t + i - 1) % Size \in Slots
    BY <2>1, SlotsDiffer DEF Indices
  <2>. QED  BY <2>2 DEF RingSlots
<1>. QED  BY <1>1, <1>2 DEF Contents

\* The sockets that Queued names are those of the contents.
LEMMA QueuedIsWaiting ==
  ASSUME Indices(sqHead, sqTail), queue \in RingSlots
  PROVE  Queued = {Waiting[i] : i \in 1..Len(Waiting)}
<1>1. sqHead - sqTail \in 0..Size /\ sqTail \in Int /\ Len(Waiting) = sqHead - sqTail
  BY ContentsType DEF Waiting, Indices
<1>2. ASSUME NEW i \in 0..(sqHead - sqTail - 1)
      PROVE  /\ i + 1 \in 1..(sqHead - sqTail)
             /\ queue[(sqTail + i) % Size] = Waiting[i + 1]
  <2>1. i + 1 \in 1..(sqHead - sqTail) /\ sqTail + (i + 1) - 1 = sqTail + i
    BY <1>1
  <2>. QED  BY <2>1 DEF Waiting, Contents
<1>3. ASSUME NEW i \in 1..(sqHead - sqTail)
      PROVE  /\ i - 1 \in 0..(sqHead - sqTail - 1)
             /\ Waiting[i] = queue[(sqTail + (i - 1)) % Size]
  <2>1. i - 1 \in 0..(sqHead - sqTail - 1) /\ sqTail + (i - 1) = sqTail + i - 1
    BY <1>1
  <2>. QED  BY <2>1 DEF Waiting, Contents
<1>. QED  BY <1>1, <1>2, <1>3, SMTT(40) DEF Queued

\* produce_socket appends: the slot it writes is none of those in use.
LEMMA PutAppends ==
  ASSUME NEW h \in Int, NEW t \in Int, Indices(h, t), h - t < Size, NEW q \in RingSlots, NEW s \in Sockets
  PROVE  /\ Indices(h + 1, t) /\ [q EXCEPT ![h % Size] = s] \in RingSlots
         /\ Contents(h + 1, t, [q EXCEPT ![h % Size] = s]) = Append(Contents(h, t, q), s)
<1>. DEFINE n == h - t
            r == [q EXCEPT ![h % Size] = s]
<1>1. /\ n \in 0..(Size - 1) /\ t \in Int /\ h \in Int /\ h = t + n /\ h + 1 - t = n + 1
      /\ Indices(h + 1, t)
  BY SizeAssumption DEF Indices
<1>2. h % Size \in Slots
  BY <1>1, SlotsDiffer DEF Indices
<1>3. r \in RingSlots
  BY <1>2 DEF RingSlots
<1>. HIDE DEF r
<1>4. /\ Contents(h, t, q) \in Seq(Sockets \cup {NoSocket}) /\ Len(Contents(h, t, q)) = n
      /\ Contents(h + 1, t, r) \in Seq(Sockets \cup {NoSocket})
      /\ Len(Contents(h + 1, t, r)) = n + 1
  BY <1>1, <1>3, ContentsType
<1>5. ASSUME NEW i \in 1..n  PROVE  Contents(h + 1, t, r)[i] = Contents(h, t, q)[i]
  <2>1. i - 1 \in 0..(Size - 1) /\ i - 1 # n /\ t + (i - 1) = t + i - 1 /\ i \in 1..(n + 1)
    BY <1>1, SizeAssumption
  <2>2. (t + (i - 1)) % Size \in Slots /\ (t + (i - 1)) % Size # (t + n) % Size
    BY <1>1, <2>1, SlotsDiffer DEF Indices
  <2>3. r[(t + i - 1) % Size] = q[(t + i - 1) % Size]
    BY <1>1, <2>1, <2>2 DEF RingSlots, r
  <2>. QED  BY <1>1, <2>1, <2>3 DEF Contents
<1>6. Contents(h + 1, t, r)[n + 1] = s
  <2>1. t + (n + 1) - 1 = h /\ n + 1 \in 1..(n + 1)
    BY <1>1
  <2>2. r[h % Size] = s
    BY <1>2 DEF RingSlots, r
  <2>. QED  BY <1>1, <2>1, <2>2 DEF Contents
<1>. HIDE DEF n
<1>7. Contents(h + 1, t, r) = Append(Contents(h, t, q), s)
  <2>. DEFINE a == Contents(h, t, q)
              b == Contents(h + 1, t, r)
  <2>1. /\ a \in Seq(Sockets \cup {NoSocket}) /\ Len(a) = n
        /\ b \in Seq(Sockets \cup {NoSocket}) /\ Len(b) = n + 1
        /\ b[n + 1] = s /\ \A i \in 1..n : b[i] = a[i]
    BY <1>4, <1>5, <1>6
  <2>. HIDE DEF a, b
  <2>2. /\ Append(a, s) \in Seq(Sockets \cup {NoSocket}) /\ Len(Append(a, s)) = n + 1
        /\ Append(a, s)[n + 1] = s /\ \A i \in 1..n : Append(a, s)[i] = a[i]
    BY <2>1, AppendProperties
  <2>3. ASSUME NEW i \in 1..(n + 1)  PROVE  b[i] = Append(a, s)[i]
    BY <1>1, <2>1, <2>2
  <2>4. b = Append(a, s)
    BY <2>1, <2>2, <2>3, SeqEqual
  <2>. QED  BY <2>4 DEF a, b
<1>. QED  BY <1>1, <1>3, <1>7 DEF r

\* consume_socket takes the first, and the wrap moves no socket to another place.
LEMMA GetTakesFirst ==
  ASSUME Indices(sqHead, sqTail), queue \in RingSlots, ~Empty
  PROVE  LET head == Wrapped(sqHead)
             tail == Wrapped(sqTail + 1)
         IN  /\ Indices(head, tail)
             /\ Waiting # <<>>
             /\ Head(Waiting) = queue[sqTail % Size]
             /\ Contents(head, tail, queue) = Tail(Waiting)
<1>. DEFINE n == sqHead - sqTail
            head == Wrapped(sqHead)
            tail == Wrapped(sqTail + 1)
<1>1. n \in 1..Size /\ sqTail \in 0..Size
  BY SizeAssumption DEF Indices, Empty
<1>2. /\ Indices(head, tail) /\ head - tail = n - 1
      /\ tail = sqTail + 1 \/ (tail = sqTail + 1 - Size /\ sqTail + 1 > Size)
  BY SizeAssumption DEF Indices, Empty, Wrapped
<1>. HIDE DEF head, tail
<1>3. /\ Waiting \in Seq(Sockets \cup {NoSocket}) /\ Len(Waiting) = n
      /\ Contents(head, tail, queue) \in Seq(Sockets \cup {NoSocket})
      /\ Len(Contents(head, tail, queue)) = n - 1
  BY <1>2, ContentsType DEF Waiting
<1>4. Waiting # <<>> /\ Head(Waiting) = queue[sqTail % Size]
  <2>1. 1 \in 1..n /\ sqTail + 1 - 1 = sqTail
    BY <1>1
  <2>2. Waiting[1] = queue[sqTail % Size]
    BY <2>1 DEF Waiting, Contents
  <2>. QED  BY <1>1, <1>3, <2>2
<1>5. ASSUME NEW i \in 1..(n - 1)  PROVE  Contents(head, tail, queue)[i] = Waiting[i + 1]
  <2>1. i + 1 \in 1..n /\ sqTail + (i + 1) - 1 = sqTail + i
    BY <1>1
  <2>2. (tail + i - 1) % Size = (sqTail + i) % Size
    <3>. DEFINE a == sqTail + i
                b == tail + i - 1
    <3>1. /\ a \in 0..(2 * Size - 1) /\ b \in 0..(2 * Size - 1)
          /\ b = a \/ b = a - Size
      BY <1>1, <1>2, SizeAssumption
    <3>. HIDE DEF a, b
    <3>2. a % Size = IF a < Size THEN a ELSE a - Size
      BY <3>1, SizeAssumption
    <3>3. b % Size = IF b < Size THEN b ELSE b - Size
      BY <3>1, SizeAssumption
    <3>4. a % Size = b % Size
      BY <3>1, <3>2, <3>3, SizeAssumption
    <3>. QED  BY <3>4 DEF a, b
  <2>. QED  BY <1>2, <2>1, <2>2 DEF Waiting, Contents
<1>. HIDE DEF n
<1>6. Contents(head, tail, queue) = Tail(Waiting)
  BY <1>1, <1>3, <1>5
<1>. QED  BY <1>2, <1>4, <1>6 DEF head, tail

\* Where a worker may be.
Places == {"unborn", "start", "consume", "empty", "asleep",
           "consumed", "serve", "leave", "leaving", "gone"}

\* Waking one sleeper, or none, moves sleepers to the mutex and nobody else.
LEMMA SignalFullWakes ==
  ASSUME worker \in [Workers -> Places], SignalFull
  PROVE  /\ worker' \in [Workers -> Places]
         /\ \A w \in Workers :
              worker'[w] = worker[w] \/ (worker[w] = "asleep" /\ worker'[w] = "consume")
BY DEF SignalFull, AsleepOnFull, Places

-----------------------------------------------------------------------------
(* Who has which socket. *)

\* A worker has taken a socket and not closed it.
HasOpen(w) == w \in Serving /\ client[w] \notin closed \cup {NoSocket}

\* What waits in the ring is open, and waits there once.
RingSound ==
  /\ \A i \in 1..Len(Waiting) : Waiting[i] \in accepted \ closed
  /\ \A i, j \in 1..Len(Waiting) : Waiting[i] = Waiting[j] => i = j

\* The master has a socket from accept to produce, an open one that nobody else has.
MasterSound ==
  /\ so # NoSocket <=> master \in {"produce", "full", "asleep on empty"}
  /\ so # NoSocket => so \in accepted \ (closed \cup Queued)

\* A worker has an open socket just when it is about to serve it, and has it alone.
ClientsSound ==
  /\ \A w \in Workers :
       worker[w] \in {"unborn", "start", "consume", "empty", "asleep"}
         => client[w] \in closed \cup {NoSocket}
  /\ \A w \in Workers :
       worker[w] = "serve" \/ (worker[w] = "consumed" /\ stopFlag = 0) => HasOpen(w)
  /\ \A w \in Workers : HasOpen(w) => client[w] \in accepted \ (Queued \cup {so})
  /\ \A v, w \in Workers : HasOpen(v) /\ HasOpen(w) /\ client[v] = client[w] => v = w

SocketInv == RingSound /\ MasterSound /\ ClientsSound

\* A worker that mg_start has not come to is nowhere.
NotStarted == \A w \in toStart : worker[w] = "unborn"

-----------------------------------------------------------------------------
(* Types. *)

\* The first state has the types.
LEMMA TypeInit == Init => TypeOK
BY SizeAssumption DEF Init, TypeOK, Slots

\* What is closed has been accepted, since a worker only serves what it has: the types
\* need to know who has which socket.
LEMMA TypeStep ==
  ASSUME TypeOK, SocketInv, [Next]_vars
  PROVE  TypeOK'
<1>. USE DEF mainVars, masterVars, workerVars, ringVars
<1>0. /\ mainRead \in Int /\ workerRead \in [Workers -> Int] /\ stopFlag \in 0..2
      /\ sqTail \in 0..Size
  BY DEF TypeOK
<1>1. CASE MainStep \/ Stop
  <2>1. CASE \E w \in Workers : StartWorker(w)
    BY <2>1 DEF TypeOK, StartWorker
  <2>2. CASE ReadNumThreads
    BY <2>2 DEF TypeOK, ReadNumThreads
  <2>3. CASE WriteNumThreads
    <3>1. numThreads' \in Int
      BY <1>0, <2>3 DEF WriteNumThreads
    <3>. QED  BY <2>3, <3>1 DEF TypeOK, WriteNumThreads
  <2>4. CASE FreeContext \/ Stop
    <3>1. stopFlag' \in 0..2
      BY <1>0, <2>4 DEF FreeContext, Stop
    <3>. QED  BY <2>4, <3>1 DEF TypeOK, FreeContext, Stop
  <2>. QED  BY <1>1, <2>1, <2>2, <2>3, <2>4 DEF MainStep
<1>2. CASE \E s \in Sockets : Accept(s)
  BY <1>2 DEF TypeOK, Accept
<1>3. CASE \/ Poll \/ PollAgain \/ ProduceFull \/ ProduceWait
           \/ LeaveLoop \/ JoinWait \/ JoinDone
  <2>1. CASE Poll \/ PollAgain \/ ProduceFull \/ ProduceWait \/ LeaveLoop \/ JoinWait
    BY <2>1 DEF TypeOK, Poll, PollAgain, ProduceFull, ProduceWait, LeaveLoop, JoinWait
  <2>2. CASE JoinDone
    <3>1. stopFlag' \in 0..2
      BY <2>2 DEF JoinDone
    <3>. QED  BY <2>2, <3>1 DEF TypeOK, JoinDone
  <2>. QED  BY <1>3, <2>1, <2>2
<1>4. CASE Broadcast
  BY <1>4 DEF TypeOK, Broadcast
<1>5. CASE ProduceDrop
  <2>1. worker' \in [Workers -> Places]
    BY <1>5, SignalFullWakes DEF ProduceDrop, TypeOK, Places
  <2>. QED  BY <1>5, <2>1 DEF TypeOK, ProduceDrop, Places
<1>6. CASE ProducePut
  <2>1. worker' \in [Workers -> Places]
    BY <1>6, SignalFullWakes DEF ProducePut, TypeOK, Places
  <2>2. Indices(sqHead, sqTail) /\ queue \in RingSlots /\ sqHead - sqTail < Size
    BY <1>6, SizeAssumption DEF ProducePut, Full, TypeOK, Indices, RingSlots
  <2>3. /\ sqTail' = sqTail /\ sqTail \in 0..Size
        /\ sqHead' = sqHead + 1 /\ sqHead' \in sqTail..(sqTail + Size)
        /\ queue' \in RingSlots
    BY <1>6, <2>2, SizeAssumption DEF ProducePut, TypeOK, RingSlots, Slots, Indices
  <2>. QED  BY <1>6, <2>1, <2>3 DEF TypeOK, ProducePut, Places, RingSlots
<1>7. CASE WakeSpuriously
  <2>1. CASE UNCHANGED master
    BY <1>7, <2>1 DEF TypeOK, WakeSpuriously, AsleepOnFull
  <2>2. CASE UNCHANGED worker
    BY <1>7, <2>2 DEF TypeOK, WakeSpuriously
  <2>. QED  BY <1>7, <2>1, <2>2 DEF WakeSpuriously
<1>8. ASSUME NEW w \in Workers, WorkerStep(w)  PROVE TypeOK'
  <2>1. CASE Begin(w)
    BY <2>1 DEF TypeOK, Begin
  <2>2. CASE ConsumeEmpty(w) \/ ConsumeWait(w) \/ Return(w)
    BY <2>2 DEF TypeOK, ConsumeEmpty, ConsumeWait, Return
  <2>3. CASE Leave(w)
    BY <2>3 DEF TypeOK, Leave
  <2>4. CASE Leaving(w)
    <3>1. numThreads' \in Int
      BY <1>0, <2>4 DEF Leaving
    <3>2. worker' \in [Workers -> Places]
      BY <2>4 DEF TypeOK, Leaving, Places
    <3>. QED  BY <2>4, <3>1, <3>2 DEF TypeOK, Leaving, SignalCond, Places
  <2>5. CASE Serve(w)
    <3>1. client[w] \in accepted
      BY <2>5 DEF Serve, SocketInv, ClientsSound
    <3>. QED  BY <2>5, <3>1 DEF TypeOK, Serve
  <2>6. CASE Consume(w)
    <3>1. client' \in [Workers -> Sockets \cup {NoSocket}]
      <4>1. sqTail % Size \in Slots
        <5>1. 0 \in 0..(Size - 1) /\ sqTail + 0 = sqTail
          BY <1>0, SizeAssumption
        <5>. QED  BY <5>1, SlotsDiffer DEF TypeOK
      <4>. QED  BY <2>6, <4>1 DEF Consume, TypeOK
    <3>2. sqTail' \in 0..Size /\ sqHead' \in sqTail'..(sqTail' + Size)
      <4>1. CASE Empty
        BY <2>6, <4>1 DEF Consume, TypeOK
      <4>2. CASE ~Empty
        BY <2>6, <4>2, GetTakesFirst DEF Consume, TypeOK, Indices, RingSlots
      <4>. QED  BY <4>1, <4>2
    <3>3. worker' \in [Workers -> Places]
      BY <2>6 DEF Consume, TypeOK, Places
    <3>. QED  BY <2>6, <3>1, <3>2, <3>3 DEF TypeOK, Consume, SignalEmpty, Places
  <2>. QED  BY <1>8, <2>1, <2>2, <2>3, <2>4, <2>5, <2>6 DEF WorkerStep
<1>9. CASE UNCHANGED vars
  BY <1>9 DEF TypeOK, vars
<1>. QED
  BY <1>1, <1>2, <1>3, <1>4, <1>5, <1>6, <1>7, <1>8, <1>9 DEF Next, MasterStep

-----------------------------------------------------------------------------
(* Nobody loses a socket, nobody gets one twice. *)

\* No socket is anywhere yet.
LEMMA SocketInit == Init => SocketInv
<1>. SUFFICES ASSUME Init  PROVE SocketInv
  OBVIOUS
<1>1. Indices(sqHead, sqTail) /\ queue \in RingSlots
  BY SizeAssumption DEF Init, Indices, RingSlots, Slots
<1>2. Len(Waiting) = 0
  BY <1>1, ContentsType DEF Init, Waiting
<1>. QED  BY <1>2 DEF Init, SocketInv, RingSound, MasterSound, ClientsSound, HasOpen, Serving

Sleeping == {"unborn", "start", "consume", "empty", "asleep"}
Holding  == {"produce", "full", "asleep on empty"}

\* The steps that move nobody's socket: the master keeps or has none, a worker without one
\* stays without, one that has one goes on to serve it or gives it up.
LEMMA SocketFrame ==
  ASSUME SocketInv,
         UNCHANGED <<so, client, ringVars, accepted, closed>>,
         master' \in Holding <=> master \in Holding,
         stopFlag' = 0 => stopFlag = 0,
         \A w \in Workers :
           \/ worker'[w] = worker[w]
           \/ worker[w] \in Sleeping /\ worker'[w] \in Sleeping
           \/ worker'[w] \in {"leave", "leaving", "gone"}
           \/ worker[w] = "consumed" /\ stopFlag = 0 /\ worker'[w] = "serve"
  PROVE  SocketInv'
<1>1. Waiting' = Waiting /\ Queued' = Queued
  BY DEF Waiting, Queued, ringVars
<1>2. RingSound'
  BY <1>1 DEF SocketInv, RingSound
<1>3. MasterSound'
  BY <1>1 DEF SocketInv, MasterSound, Holding
<1>4. ASSUME NEW w \in Workers, HasOpen(w)'  PROVE HasOpen(w)
  BY <1>4 DEF SocketInv, ClientsSound, HasOpen, Serving, Sleeping
<1>5. ASSUME NEW w \in Workers, worker'[w] \in Sleeping  PROVE client'[w] \in closed' \cup {NoSocket}
  BY <1>5 DEF SocketInv, ClientsSound, Sleeping
<1>6. ASSUME NEW w \in Workers,
             worker'[w] = "serve" \/ (worker'[w] = "consumed" /\ stopFlag' = 0)
      PROVE  HasOpen(w)'
  BY <1>6 DEF SocketInv, ClientsSound, HasOpen, Serving, Sleeping
<1>7. ClientsSound'
  BY <1>1, <1>4, <1>5, <1>6 DEF SocketInv, ClientsSound, Sleeping, HasOpen
<1>. QED  BY <1>2, <1>3, <1>7 DEF SocketInv

\* accept gives the master a socket that is neither queued nor with a worker.
LEMMA SocketAccept ==
  ASSUME TypeOK, SocketInv, NEW s \in Sockets, Accept(s)
  PROVE  SocketInv'
<1>. USE DEF mainVars, workerVars, ringVars
<1>1. Waiting' = Waiting /\ Queued' = Queued /\ Queued = {Waiting[i] : i \in 1..Len(Waiting)}
  BY QueuedIsWaiting DEF Accept, Waiting, Queued, TypeOK, Indices, RingSlots
<1>2. /\ s \notin accepted /\ s # NoSocket /\ s \notin Queued /\ s \notin closed
      /\ so = NoSocket /\ Queued \subseteq accepted
  BY <1>1, ThreadAssumption DEF Accept, SocketInv, RingSound, MasterSound, TypeOK
<1>3. ASSUME NEW w \in Workers, HasOpen(w)
      PROVE  client[w] \in accepted /\ client[w] # s
  BY <1>2, <1>3 DEF SocketInv, ClientsSound
<1>4. \A w \in Workers : HasOpen(w)' <=> HasOpen(w)
  <2>. TAKE w \in Workers
  <2>1. HasOpen(w)' => HasOpen(w)
    BY DEF HasOpen, Serving, Accept
  <2>2. HasOpen(w) => HasOpen(w)'
    BY <1>3 DEF HasOpen, Serving, Accept
  <2>. QED  BY <2>1, <2>2
<1>5. RingSound'
  BY <1>1, <1>2 DEF Accept, SocketInv, RingSound
<1>6. MasterSound'
  BY <1>1, <1>2 DEF Accept, SocketInv, MasterSound
<1>7. ClientsSound'
  BY <1>1, <1>2, <1>3, <1>4 DEF Accept, SocketInv, ClientsSound
<1>. QED  BY <1>5, <1>6, <1>7 DEF SocketInv

\* What a socket more means for the ring, in its actions' terms.
LEMMA PutWaiting ==
  ASSUME TypeOK, SocketInv, ProducePut
  PROVE  /\ so \in Sockets /\ so \notin Queued
         /\ Len(Waiting) < Size
         /\ Waiting' = Append(Waiting, so)
         /\ Queued' = Queued \cup {so}
<1>1. so \in Sockets /\ so \notin Queued
  BY DEF TypeOK, SocketInv, MasterSound, ProducePut
<1>2. /\ sqHead \in Int /\ sqTail \in Int /\ Indices(sqHead, sqTail)
      /\ queue \in RingSlots /\ sqHead - sqTail < Size
  BY SizeAssumption DEF ProducePut, Full, TypeOK, Indices, RingSlots
<1>3. Len(Waiting) < Size
  BY <1>2, ContentsType DEF Waiting
<1>4. Indices(sqHead', sqTail') /\ queue' \in RingSlots /\ Waiting' = Append(Waiting, so)
  <2>1. sqHead' = sqHead + 1 /\ sqTail' = sqTail /\ queue' = [queue EXCEPT ![sqHead % Size] = so]
    BY DEF ProducePut
  <2>2. /\ Indices(sqHead + 1, sqTail)
        /\ [queue EXCEPT ![sqHead % Size] = so] \in RingSlots
        /\ Contents(sqHead + 1, sqTail, [queue EXCEPT ![sqHead % Size] = so])
             = Append(Contents(sqHead, sqTail, queue), so)
    BY <1>1, <1>2, PutAppends
  <2>. QED  BY <2>1, <2>2 DEF Waiting
<1>5. /\ Queued = {Waiting[i] : i \in 1..Len(Waiting)}
      /\ Queued' = {Waiting'[i] : i \in 1..Len(Waiting')}
  <2>1. (Indices(sqHead, sqTail) /\ queue \in RingSlots
           => Queued = {Waiting[i] : i \in 1..Len(Waiting)})'
    BY QueuedIsWaiting, PTL
  <2>. QED  BY <1>2, <1>4, <2>1, QueuedIsWaiting
<1>6. Waiting \in Seq(Sockets \cup {NoSocket})
  BY <1>2, ContentsType DEF Waiting
<1>7. Queued' = Queued \cup {so}
  <2>. DEFINE n == Len(Waiting)
  <2>1. /\ n \in Nat /\ Len(Waiting') = n + 1 /\ Waiting'[n + 1] = so
        /\ \A i \in 1..n : Waiting'[i] = Waiting[i]
    BY <1>1, <1>4, <1>6, LenProperties, AppendProperties
  <2>. HIDE DEF n
  <2>2. 1..(n + 1) = (1..n) \cup {n + 1}
    BY <2>1
  <2>. QED  BY <1>5, <2>1, <2>2 DEF n
<1>. QED  BY <1>1, <1>3, <1>4, <1>7

\* What a socket less means for it.
LEMMA GetWaiting ==
  ASSUME TypeOK, SocketInv, NEW w \in Workers, Consume(w), ~Empty
  PROVE  /\ Waiting # <<>> /\ Waiting' = Tail(Waiting)
         /\ client' = [client EXCEPT ![w] = Head(Waiting)]
         /\ Head(Waiting) \in Queued /\ Queued' = Queued \ {Head(Waiting)}
<1>1. Indices(sqHead, sqTail) /\ queue \in RingSlots
  BY DEF TypeOK, Indices, RingSlots
<1>2. /\ Indices(sqHead', sqTail') /\ queue' \in RingSlots
      /\ Waiting # <<>> /\ Waiting' = Tail(Waiting)
      /\ client' = [client EXCEPT ![w] = Head(Waiting)]
  BY <1>1, GetTakesFirst DEF Consume, Waiting
<1>3. /\ Queued = {Waiting[i] : i \in 1..Len(Waiting)}
      /\ Queued' = {Waiting'[i] : i \in 1..Len(Waiting')}
  <2>1. (Indices(sqHead, sqTail) /\ queue \in RingSlots
           => Queued = {Waiting[i] : i \in 1..Len(Waiting)})'
    BY QueuedIsWaiting, PTL
  <2>. QED  BY <1>1, <1>2, <2>1, QueuedIsWaiting
<1>4. Waiting \in Seq(Sockets \cup {NoSocket})
  BY <1>1, ContentsType DEF Waiting
<1>. DEFINE n == Len(Waiting)
<1>5. /\ n \in Nat /\ n > 0 /\ Len(Waiting') = n - 1 /\ Head(Waiting) = Waiting[1]
      /\ \A i \in 1..(n - 1) : Waiting'[i] = Waiting[i + 1]
  BY <1>2, <1>4, LenProperties, HeadTailProperties
<1>6. \A i, j \in 1..n : Waiting[i] = Waiting[j] => i = j
  BY DEF SocketInv, RingSound
<1>. HIDE DEF n
<1>7. Head(Waiting) \in Queued
  BY <1>3, <1>5 DEF n
<1>8. Queued' \subseteq Queued \ {Head(Waiting)}
  <2>1. \A x \in Queued' : \E i \in 1..(n - 1) : x = Waiting'[i]
    BY <1>3, <1>5
  <2>2. ASSUME NEW i \in 1..(n - 1)
        PROVE  Waiting[i + 1] \in Queued /\ Waiting[i + 1] # Waiting[1]
    <3>1. i + 1 \in 1..n /\ 1 \in 1..n /\ i + 1 # 1
      BY <1>5
    <3>. QED  BY <1>3, <1>6, <3>1 DEF n
  <2>. QED  BY <1>5, <2>1, <2>2
<1>9. Queued \ {Head(Waiting)} \subseteq Queued'
  <2>. SUFFICES ASSUME NEW i \in 1..n, Waiting[i] # Waiting[1]
                PROVE  Waiting[i] \in Queued'
    BY <1>3, <1>5 DEF n
  <2>1. i - 1 \in 1..(n - 1) /\ (i - 1) + 1 = i
    BY <1>5
  <2>. QED  BY <1>3, <1>5, <2>1
<1>. QED  BY <1>2, <1>7, <1>8, <1>9

\* produce_socket moves the master's socket to the end of the ring.
LEMMA SocketPut ==
  ASSUME TypeOK, SocketInv, ProducePut
  PROVE  SocketInv'
<1>1. /\ so \in Sockets /\ so \notin Queued
      /\ Waiting' = Append(Waiting, so) /\ Queued' = Queued \cup {so}
  BY PutWaiting
<1>2. Waiting \in Seq(Sockets \cup {NoSocket}) /\ Queued = {Waiting[i] : i \in 1..Len(Waiting)}
  BY ContentsType, QueuedIsWaiting DEF TypeOK, Indices, RingSlots, Waiting
<1>3. /\ so \in accepted \ closed /\ so # NoSocket
      /\ accepted' = accepted /\ closed' = closed /\ client' = client /\ so' = NoSocket
      /\ stopFlag' = stopFlag /\ master' = "polled"
  BY <1>1, ThreadAssumption DEF ProducePut, SocketInv, MasterSound
<1>4. RingSound'
  <2>. DEFINE n == Len(Waiting)
  <2>1. /\ n \in Nat /\ Len(Waiting') = n + 1 /\ Waiting'[n + 1] = so
        /\ \A i \in 1..n : Waiting'[i] = Waiting[i]
    BY <1>1, <1>2, LenProperties, AppendProperties
  <2>2. /\ \A i \in 1..n : Waiting[i] \in accepted \ closed /\ Waiting[i] # so
        /\ \A i, j \in 1..n : Waiting[i] = Waiting[j] => i = j
    BY <1>1, <1>2 DEF SocketInv, RingSound
  <2>. HIDE DEF n
  <2>3. \A i \in 1..(n + 1) : i = n + 1 \/ i \in 1..n
    BY <2>1
  <2>4. \A i \in 1..(n + 1) : Waiting'[i] \in accepted' \ closed'
    BY <1>3, <2>1, <2>2, <2>3
  <2>5. \A i, j \in 1..(n + 1) : Waiting'[i] = Waiting'[j] => i = j
    BY <2>1, <2>2, <2>3
  <2>. QED  BY <2>1, <2>4, <2>5 DEF RingSound
<1>5. MasterSound'
  BY <1>3 DEF MasterSound
<1>6. worker' \in [Workers -> Places]
      /\ \A w \in Workers :
           worker'[w] = worker[w] \/ (worker[w] = "asleep" /\ worker'[w] = "consume")
  BY SignalFullWakes DEF ProducePut, TypeOK, Places
<1>7. \A w \in Workers : HasOpen(w)' <=> HasOpen(w)
  BY <1>3, <1>6 DEF HasOpen, Serving
<1>8. \A w \in Workers : HasOpen(w) => client[w] # so
  BY DEF SocketInv, ClientsSound
<1>9. ClientsSound'
  <2>1. \A w \in Workers :
          worker'[w] \in {"unborn", "start", "consume", "empty", "asleep"}
            => client'[w] \in closed' \cup {NoSocket}
    BY <1>3, <1>6 DEF SocketInv, ClientsSound
  <2>2. \A w \in Workers :
          worker'[w] = "serve" \/ (worker'[w] = "consumed" /\ stopFlag' = 0) => HasOpen(w)'
    BY <1>3, <1>6, <1>7 DEF SocketInv, ClientsSound
  <2>3. \A w \in Workers : HasOpen(w)' => client'[w] \in accepted' \ (Queued' \cup {so'})
    <3>. SUFFICES ASSUME NEW w \in Workers, HasOpen(w)
                  PROVE  client[w] \in accepted \ (Queued \cup {so} \cup {NoSocket})
      BY <1>1, <1>3, <1>7
    <3>. QED  BY DEF SocketInv, ClientsSound, HasOpen
  <2>4. \A v, w \in Workers : HasOpen(v)' /\ HasOpen(w)' /\ client'[v] = client'[w] => v = w
    BY <1>3, <1>7 DEF SocketInv, ClientsSound
  <2>. QED  BY <2>1, <2>2, <2>3, <2>4 DEF ClientsSound
<1>. QED  BY <1>4, <1>5, <1>9 DEF SocketInv

\* The master forgets a socket that finds no room when the server stops.
LEMMA SocketDrop ==
  ASSUME TypeOK, SocketInv, ProduceDrop
  PROVE  SocketInv'
<1>. USE DEF mainVars, ringVars
<1>1. Waiting' = Waiting /\ Queued' = Queued
  BY DEF ProduceDrop, Waiting, Queued
<1>2. worker' \in [Workers -> Places]
      /\ \A w \in Workers :
           worker'[w] = worker[w] \/ (worker[w] = "asleep" /\ worker'[w] = "consume")
  BY SignalFullWakes DEF ProduceDrop, TypeOK, Places
<1>3. \A w \in Workers : HasOpen(w)' <=> HasOpen(w)
  BY <1>2 DEF ProduceDrop, HasOpen, Serving
<1>4. RingSound' /\ MasterSound'
  BY <1>1 DEF ProduceDrop, SocketInv, RingSound, MasterSound
<1>5. ClientsSound'
  <2>1. \A w \in Workers : HasOpen(w)' => client'[w] \in accepted' \ (Queued' \cup {so'})
    BY <1>1, <1>3 DEF ProduceDrop, SocketInv, ClientsSound, HasOpen
  <2>. QED  BY <1>2, <1>3, <2>1 DEF ProduceDrop, SocketInv, ClientsSound
<1>. QED  BY <1>4, <1>5 DEF SocketInv

\* consume_socket moves the first of the ring to one worker.
LEMMA SocketConsume ==
  ASSUME TypeOK, SocketInv, NEW w \in Workers, Consume(w)
  PROVE  SocketInv'
<1>. USE DEF mainVars
<1>1. /\ worker' = [worker EXCEPT ![w] = "consumed"] /\ worker[w] = "consume"
      /\ worker \in [Workers -> Places] /\ client \in [Workers -> Sockets \cup {NoSocket}]
      /\ so' = so /\ accepted' = accepted /\ closed' = closed /\ stopFlag' = stopFlag
      /\ master' \in Holding <=> master \in Holding
  BY DEF Consume, SignalEmpty, TypeOK, Places, Holding
<1>2. client[w] \in closed \cup {NoSocket}
  BY <1>1 DEF SocketInv, ClientsSound
<1>3. CASE Empty
  <2>1. stopFlag # 0 /\ client' = client /\ Waiting' = Waiting /\ Queued' = Queued
    BY <1>3 DEF Consume, Waiting, Queued
  <2>2. \A v \in Workers : HasOpen(v)' <=> HasOpen(v)
    BY <1>1, <1>2, <2>1 DEF HasOpen, Serving
  <2>3. RingSound' /\ MasterSound'
    BY <1>1, <2>1 DEF SocketInv, RingSound, MasterSound, Holding
  <2>4. ClientsSound'
    BY <1>1, <2>1, <2>2 DEF SocketInv, ClientsSound
  <2>. QED  BY <2>3, <2>4 DEF SocketInv
<1>4. CASE ~Empty
  <2>. DEFINE s == Head(Waiting)
  <2>1. /\ Waiting # <<>> /\ Waiting' = Tail(Waiting)
        /\ client' = [client EXCEPT ![w] = s]
        /\ s \in Queued /\ Queued' = Queued \ {s}
    BY <1>4, GetWaiting
  <2>2. Waiting \in Seq(Sockets \cup {NoSocket}) /\ Queued = {Waiting[i] : i \in 1..Len(Waiting)}
    BY ContentsType, QueuedIsWaiting DEF TypeOK, Indices, RingSlots, Waiting
  <2>. HIDE DEF s
  <2>3. s \in accepted \ closed /\ s # NoSocket /\ s # so
    <3>1. s \in accepted \ closed
      BY <2>1, <2>2 DEF SocketInv, RingSound
    <3>2. s \in Sockets /\ s # so
      BY <2>1, <3>1, ThreadAssumption DEF SocketInv, MasterSound, TypeOK
    <3>. QED  BY <3>1, <3>2, ThreadAssumption
  <2>4. RingSound'
    <3>. DEFINE n == Len(Waiting)
    <3>1. /\ n \in Nat /\ n > 0 /\ Len(Waiting') = n - 1
          /\ \A i \in 1..(n - 1) : Waiting'[i] = Waiting[i + 1]
      BY <2>1, <2>2, LenProperties, HeadTailProperties
    <3>2. /\ \A i \in 1..n : Waiting[i] \in accepted \ closed
          /\ \A i, j \in 1..n : Waiting[i] = Waiting[j] => i = j
      BY DEF SocketInv, RingSound
    <3>. HIDE DEF n
    <3>3. \A i \in 1..(n - 1) : i \in Int /\ i + 1 \in 1..n
      BY <3>1
    <3>4. \A i \in 1..(n - 1) : Waiting'[i] \in accepted' \ closed'
      BY <1>1, <3>1, <3>2, <3>3
    <3>5. ASSUME NEW i \in 1..(n - 1), NEW j \in 1..(n - 1), Waiting'[i] = Waiting'[j]
          PROVE  i = j
      <4>1. i + 1 = j + 1
        BY <3>1, <3>2, <3>3, <3>5
      <4>. QED  BY <3>3, <4>1
    <3>. QED  BY <3>1, <3>4, <3>5 DEF RingSound
  <2>5. MasterSound'
    BY <1>1, <2>1 DEF SocketInv, MasterSound, Holding
  <2>6. /\ HasOpen(w)' /\ client'[w] = s
        /\ \A v \in Workers \ {w} : (HasOpen(v)' <=> HasOpen(v)) /\ client'[v] = client[v]
                                    /\ worker'[v] = worker[v]
    BY <1>1, <2>1, <2>3 DEF HasOpen, Serving
  <2>7. \A v \in Workers : HasOpen(v) => client[v] \in accepted \ (Queued \cup {so})
    BY DEF SocketInv, ClientsSound
  <2>8. ClientsSound'
    <3>1. \A v \in Workers :
            worker'[v] \in {"unborn", "start", "consume", "empty", "asleep"}
              => client'[v] \in closed' \cup {NoSocket}
      BY <1>1, <2>6 DEF SocketInv, ClientsSound
    <3>2. \A v \in Workers :
            worker'[v] = "serve" \/ (worker'[v] = "consumed" /\ stopFlag' = 0) => HasOpen(v)'
      BY <1>1, <2>6 DEF SocketInv, ClientsSound
    <3>3. \A v \in Workers : HasOpen(v)' => client'[v] \in accepted' \ (Queued' \cup {so'})
      BY <1>1, <2>1, <2>3, <2>6, <2>7
    <3>4. \A u, v \in Workers : HasOpen(u)' /\ HasOpen(v)' /\ client'[u] = client'[v] => u = v
      BY <2>1, <2>6, <2>7 DEF SocketInv, ClientsSound
    <3>. QED  BY <3>1, <3>2, <3>3, <3>4 DEF ClientsSound
  <2>. QED  BY <2>4, <2>5, <2>8 DEF SocketInv
<1>. QED  BY <1>3, <1>4

\* A served connection is closed and its worker has none.
LEMMA SocketServe ==
  ASSUME TypeOK, SocketInv, NEW w \in Workers, Serve(w)
  PROVE  SocketInv'
<1>. USE DEF mainVars, masterVars, ringVars
<1>1. Waiting' = Waiting /\ Queued' = Queued /\ Queued = {Waiting[i] : i \in 1..Len(Waiting)}
  BY QueuedIsWaiting DEF Serve, Waiting, Queued, TypeOK, Indices, RingSlots
<1>2. /\ worker' = [worker EXCEPT ![w] = "consume"] /\ worker[w] = "serve"
      /\ worker \in [Workers -> Places]
      /\ closed' = closed \cup {client[w]} /\ client' = client
      /\ so' = so /\ master' = master /\ accepted' = accepted /\ stopFlag' = stopFlag
  BY DEF Serve, TypeOK, Places
<1>3. HasOpen(w) /\ client[w] \notin Queued /\ client[w] # so
  BY <1>2 DEF SocketInv, ClientsSound
<1>4. \A v \in Workers : HasOpen(v)' <=> HasOpen(v) /\ v # w
  <2>. TAKE v \in Workers
  <2>1. HasOpen(v)' => HasOpen(v) /\ v # w
    BY <1>2 DEF HasOpen, Serving
  <2>2. HasOpen(v) /\ v # w => HasOpen(v)'
    <3>. SUFFICES ASSUME HasOpen(v), v # w  PROVE HasOpen(v)'
      OBVIOUS
    <3>1. client[v] # client[w]
      BY <1>3 DEF SocketInv, ClientsSound
    <3>. QED  BY <1>2, <3>1 DEF HasOpen, Serving
  <2>. QED  BY <2>1, <2>2
<1>5. RingSound'
  BY <1>1, <1>2, <1>3 DEF SocketInv, RingSound
<1>6. MasterSound'
  BY <1>1, <1>2, <1>3 DEF SocketInv, MasterSound
<1>7. ClientsSound'
  BY <1>1, <1>2, <1>3, <1>4 DEF SocketInv, ClientsSound
<1>. QED  BY <1>5, <1>6, <1>7 DEF SocketInv

\* Threads that have not been started stay so until mg_start makes them.
LEMMA NotStartedStep ==
  ASSUME TypeOK, NotStarted, [Next]_vars
  PROVE  NotStarted'
<1>. USE DEF mainVars, masterVars, workerVars, ringVars, NotStarted
<1>0. worker \in [Workers -> Places] /\ toStart \subseteq Workers
  BY DEF TypeOK, Places
<1>1. ASSUME NEW w \in Workers, StartWorker(w)  PROVE NotStarted'
  BY <1>0, <1>1 DEF StartWorker
<1>2. CASE ReadNumThreads \/ WriteNumThreads \/ FreeContext \/ Stop
  BY <1>2 DEF ReadNumThreads, WriteNumThreads, FreeContext, Stop
<1>3. CASE \/ Poll \/ PollAgain \/ ProduceFull \/ ProduceWait
           \/ LeaveLoop \/ JoinWait \/ JoinDone \/ \E s \in Sockets : Accept(s)
  BY <1>3
  DEF Poll, PollAgain, ProduceFull, ProduceWait, LeaveLoop, JoinWait, JoinDone, Accept
<1>4. CASE ProducePut \/ ProduceDrop
  BY <1>0, <1>4, SignalFullWakes DEF ProducePut, ProduceDrop
<1>5. CASE Broadcast \/ WakeSpuriously
  BY <1>0, <1>5 DEF Broadcast, WakeSpuriously, AsleepOnFull
<1>6. ASSUME NEW w \in Workers, WorkerStep(w)  PROVE NotStarted'
  BY <1>0, <1>6
  DEF WorkerStep, Begin, ConsumeEmpty, ConsumeWait, Consume, Return, Serve, Leave, Leaving
<1>7. CASE UNCHANGED vars
  BY <1>7 DEF vars
<1>. QED
  BY <1>1, <1>2, <1>3, <1>4, <1>5, <1>6, <1>7 DEF Next, MainStep, MasterStep

\* Every step keeps each open socket in one place.
LEMMA SocketStep ==
  ASSUME TypeOK, SocketInv, NotStarted, [Next]_vars
  PROVE  SocketInv'
<1>. USE DEF mainVars, masterVars, workerVars, ringVars, Sleeping, Holding
<1>0. worker \in [Workers -> Places]
  BY DEF TypeOK, Places
<1>1. ASSUME NEW w \in Workers, StartWorker(w)  PROVE SocketInv'
  <2>1. \A v \in Workers :
          worker'[v] = worker[v] \/ (worker[v] \in Sleeping /\ worker'[v] \in Sleeping)
           \/ worker'[v] \in {"leave", "leaving", "gone"}
    BY <1>0, <1>1 DEF StartWorker, NotStarted
  <2>. QED  BY <1>1, <2>1, SocketFrame DEF StartWorker
<1>2. CASE ReadNumThreads \/ WriteNumThreads \/ FreeContext \/ Stop
  <2>1. /\ UNCHANGED <<so, client, ringVars, accepted, closed, master, worker>>
        /\ stopFlag' = 0 => stopFlag = 0
    BY <1>2 DEF ReadNumThreads, WriteNumThreads, FreeContext, Stop
  <2>. QED  BY <2>1, SocketFrame
<1>3. CASE \/ Poll \/ PollAgain \/ ProduceFull \/ ProduceWait
           \/ LeaveLoop \/ JoinWait \/ JoinDone
  <2>1. UNCHANGED <<so, client, ringVars, accepted, closed, worker>>
    BY <1>3
    DEF Poll, PollAgain, ProduceFull, ProduceWait, LeaveLoop, JoinWait, JoinDone
  <2>2. master' \in Holding <=> master \in Holding
    BY <1>3
    DEF Poll, PollAgain, ProduceFull, ProduceWait, LeaveLoop, JoinWait, JoinDone
  <2>3. stopFlag' = 0 => stopFlag = 0
    <3>1. stopFlag' \in {stopFlag, 2}
      BY <1>3
      DEF Poll, PollAgain, ProduceFull, ProduceWait, LeaveLoop, JoinWait, JoinDone
    <3>. QED  BY <3>1
  <2>. QED  BY <2>1, <2>2, <2>3, SocketFrame
<1>4. CASE Broadcast
  BY <1>0, <1>4, SocketFrame DEF Broadcast
<1>5. CASE WakeSpuriously
  <2>1. CASE UNCHANGED master
    BY <1>0, <1>5, <2>1, SocketFrame DEF WakeSpuriously, AsleepOnFull
  <2>2. CASE UNCHANGED worker
    BY <1>5, <2>2, SocketFrame DEF WakeSpuriously
  <2>. QED  BY <1>5, <2>1, <2>2 DEF WakeSpuriously
<1>6. ASSUME NEW w \in Workers, WorkerStep(w)  PROVE SocketInv'
  <2>1. CASE Begin(w)
    BY <1>0, <2>1, SocketFrame DEF Begin
  <2>2. CASE ConsumeEmpty(w) \/ ConsumeWait(w)
    BY <1>0, <2>2, SocketFrame DEF ConsumeEmpty, ConsumeWait
  <2>3. CASE Return(w)
    BY <1>0, <2>3, SocketFrame DEF Return
  <2>4. CASE Leave(w) \/ Leaving(w)
    BY <1>0, <2>4, SocketFrame DEF Leave, Leaving, SignalCond
  <2>. QED  BY <1>6, <2>1, <2>2, <2>3, <2>4, SocketConsume, SocketServe DEF WorkerStep
<1>7. CASE UNCHANGED vars
  BY <1>7, SocketFrame DEF vars
<1>. QED
  BY <1>1, <1>2, <1>3, <1>4, <1>5, <1>6, <1>7, SocketAccept, SocketPut, SocketDrop
  DEF Next, MainStep, MasterStep

-----------------------------------------------------------------------------
(* The threads are counted right, as long as none is without memory. *)

\* The threads that mg_start has created and that have not come to their end.
Alive == {w \in Workers : worker[w] \notin {"unborn", "gone"}}

\* num_threads lags behind between the start of a thread and its count; what was read
\* to count up or down has not changed when it is written.
CountSound ==
  /\ numThreads \in Nat
  /\ main \in {"create", "stopping", "stopped"} => Cardinality(Alive) = numThreads
  /\ main \in {"count", "counted"} => Cardinality(Alive) = numThreads + 1
  /\ main = "counted" => mainRead = numThreads
  /\ \A w \in Workers : worker[w] = "leaving" => workerRead[w] = numThreads

\* Who holds the mutex, and what must have come before: workers leave and the master
\* ends only when mg_start has created all threads and the server was stopped.
StagesSound ==
  /\ \A w \in Workers : worker[w] \in {"empty", "leaving"} => mutex = w
  /\ master = "full" => mutex = "master"
  /\ stopFlag # 0 <=> main \in {"stopping", "stopped"}
  /\ master \in {"broadcast", "join", "asleep on cond", "gone"} => stopFlag # 0
  /\ \A w \in Workers : worker[w] \in {"leave", "leaving", "gone"} => stopFlag # 0
  /\ master = "gone" => Alive = {}
  /\ stopFlag # 0 => toStart = {}

CountInv == starved = {} => CountSound /\ StagesSound

\* No thread runs and none is counted.
LEMMA CountInit == Init => CountInv
<1>. SUFFICES ASSUME Init  PROVE CountInv
  OBVIOUS
<1>1. Alive = {}
  BY DEF Init, Alive
<1>2. CountSound
  BY <1>1, FS_EmptySet DEF Init, CountSound
<1>3. StagesSound
  BY <1>1 DEF Init, StagesSound
<1>. QED  BY <1>2, <1>3 DEF CountInv

\* Alive threads can be counted: the threads are finitely many.
LEMMA AliveFinite == IsFiniteSet(Alive) /\ Cardinality(Alive) \in Nat
BY CountAssumption, FS_Subset, FS_CardinalityType DEF Alive

\* The steps after which as many threads are there as before, and nobody reads or
\* writes their number.
LEMMA CountFrame ==
  ASSUME CountSound,
         UNCHANGED <<main, mainRead, workerRead, numThreads>>,
         \A w \in Workers :
           \/ worker'[w] = worker[w]
           \/ {worker[w], worker'[w]} \cap {"unborn", "leaving", "gone"} = {}
  PROVE  CountSound' /\ Alive' = Alive
<1>1. Alive' = Alive
  BY DEF Alive
<1>. QED  BY <1>1 DEF CountSound

\* Every step keeps each thread at a stage that fits the count and the flag.
LEMMA StagesStep ==
  ASSUME TypeOK, NotStarted, CountSound, StagesSound, [Next]_vars, starved' = {}
  PROVE  StagesSound'
<1>. USE DEF mainVars, masterVars, workerVars, ringVars
<1>0. worker \in [Workers -> Places] /\ mutex \in Workers \cup {"master", NoThread}
  BY DEF TypeOK, Places
<1>1. ASSUME NEW w \in Workers, StartWorker(w)  PROVE StagesSound'
  <2>1. stopFlag = 0 /\ master # "gone"
    BY <1>1 DEF StartWorker, StagesSound
  <2>. QED  BY <1>0, <1>1, <2>1 DEF StartWorker, StagesSound
<1>2. CASE ReadNumThreads \/ WriteNumThreads
  BY <1>2 DEF ReadNumThreads, WriteNumThreads, StagesSound, Alive
<1>3. CASE FreeContext
  BY <1>3 DEF FreeContext, StagesSound, Alive
<1>14. CASE Stop
  <2>1. /\ main = "create" /\ main' = "stopping" /\ stopFlag' # 0 /\ toStart' = {}
        /\ UNCHANGED <<worker, master, mutex>>
    BY <1>14 DEF Stop
  <2>2. Alive' = Alive
    BY <2>1 DEF Alive
  <2>. QED  BY <2>1, <2>2 DEF StagesSound
<1>4. CASE Poll \/ PollAgain \/ LeaveLoop \/ JoinWait
  BY <1>4 DEF Poll, PollAgain, LeaveLoop, JoinWait, StagesSound, Alive
<1>5. CASE \E s \in Sockets : Accept(s)
  BY <1>5 DEF Accept, StagesSound, Alive
<1>6. CASE ProducePut \/ ProduceDrop
  <2>1. \A w \in Workers :
          worker'[w] = worker[w] \/ (worker[w] = "asleep" /\ worker'[w] = "consume")
    BY <1>0, <1>6, SignalFullWakes DEF ProducePut, ProduceDrop
  <2>. QED  BY <1>6, <2>1 DEF ProducePut, ProduceDrop, StagesSound
<1>7. CASE ProduceFull
  BY <1>7, MasterAssumption, ThreadAssumption DEF ProduceFull, StagesSound, Alive
<1>8. CASE ProduceWait
  BY <1>8, MasterAssumption, ThreadAssumption DEF ProduceWait, StagesSound, Alive
<1>9. CASE JoinDone
  <2>1. stopFlag # 0 /\ main \in {"stopping", "stopped"}
    BY <1>9 DEF JoinDone, StagesSound
  <2>2. Cardinality(Alive) = 0
    BY <1>9, <2>1 DEF JoinDone, CountSound
  <2>3. Alive = {}
    BY <2>2, AliveFinite, FS_EmptySet
  <2>4. /\ master' = "gone" /\ stopFlag' = 2 /\ Alive' = Alive
        /\ UNCHANGED <<worker, mutex, main, toStart>>
    BY <1>9 DEF JoinDone, Alive
  <2>5. stopFlag' # 0
    BY <2>4
  <2>. QED  BY <2>1, <2>3, <2>4, <2>5 DEF StagesSound
<1>10. CASE Broadcast
  <2>1. \A w \in Workers :
          worker'[w] = worker[w] \/ (worker[w] = "asleep" /\ worker'[w] = "consume")
    BY <1>0, <1>10 DEF Broadcast
  <2>. QED  BY <1>10, <2>1 DEF Broadcast, StagesSound
<1>11. CASE WakeSpuriously
  <2>1. \A w \in Workers :
          worker'[w] = worker[w] \/ (worker[w] = "asleep" /\ worker'[w] = "consume")
    BY <1>0, <1>11 DEF WakeSpuriously, AsleepOnFull
  <2>2. Alive' = Alive
    BY <2>1 DEF Alive
  <2>. QED  BY <1>11, <2>1, <2>2 DEF WakeSpuriously, StagesSound
<1>12. ASSUME NEW w \in Workers, WorkerStep(w)  PROVE StagesSound'
  <2>0. worker[w] \notin {"unborn", "gone"} => master # "gone"
    BY DEF StagesSound, Alive
  <2>1. CASE Begin(w)
    BY <1>0, <2>0, <2>1 DEF Begin, StagesSound
  <2>2. CASE ConsumeEmpty(w)
    BY <1>0, <2>0, <2>2, MasterAssumption, ThreadAssumption DEF ConsumeEmpty, StagesSound
  <2>3. CASE ConsumeWait(w)
    BY <1>0, <2>0, <2>3, MasterAssumption, ThreadAssumption DEF ConsumeWait, StagesSound
  <2>4. CASE Consume(w)
    BY <1>0, <2>0, <2>4 DEF Consume, SignalEmpty, StagesSound
  <2>5. CASE Return(w) \/ Serve(w)
    BY <1>0, <2>0, <2>5 DEF Return, Serve, StagesSound
  <2>6. CASE Leave(w)
    BY <1>0, <2>0, <2>6, MasterAssumption, ThreadAssumption DEF Leave, StagesSound
  <2>7. CASE Leaving(w)
    BY <1>0, <2>0, <2>7, MasterAssumption, ThreadAssumption DEF Leaving, SignalCond, StagesSound
  <2>. QED  BY <1>12, <2>1, <2>2, <2>3, <2>4, <2>5, <2>6, <2>7 DEF WorkerStep
<1>13. CASE UNCHANGED vars
  BY <1>13 DEF vars, StagesSound, Alive
<1>. QED
  BY <1>1, <1>2, <1>3, <1>4, <1>5, <1>6, <1>7, <1>8, <1>9, <1>10, <1>11, <1>12, <1>13, <1>14
  DEF Next, MainStep, MasterStep

\* Every step keeps num_threads the number of threads there are.
LEMMA CountStep ==
  ASSUME TypeOK, NotStarted, CountSound, StagesSound, [Next]_vars, starved' = {}
  PROVE  CountSound'
<1>. USE DEF mainVars, masterVars, workerVars, ringVars
<1>0. /\ worker \in [Workers -> Places] /\ mutex \in Workers \cup {"master", NoThread}
      /\ toStart \subseteq Workers /\ workerRead \in [Workers -> Int]
  BY DEF TypeOK, Places
<1>1. ASSUME NEW w \in Workers, StartWorker(w)  PROVE CountSound'
  <2>1. CASE UNCHANGED <<worker, main>>
    BY <1>1, <2>1, CountFrame DEF StartWorker
  <2>2. CASE worker' = [worker EXCEPT ![w] = "start"] /\ main' = "count"
    <3>1. w \notin Alive /\ Alive' = Alive \cup {w}
      BY <1>0, <1>1, <2>2 DEF StartWorker, NotStarted, Alive
    <3>2. Cardinality(Alive') = Cardinality(Alive) + 1
      BY <3>1, AliveFinite, FS_AddElement
    <3>3. Cardinality(Alive) = numThreads
      BY <1>1 DEF StartWorker, CountSound
    <3>4. \A v \in Workers : worker'[v] = "leaving" => worker[v] = "leaving"
      BY <1>0, <2>2
    <3>. QED  BY <1>1, <2>2, <3>2, <3>3, <3>4 DEF StartWorker, CountSound
  <2>. QED  BY <1>1, <2>1, <2>2 DEF StartWorker
<1>2. CASE ReadNumThreads
  BY <1>2 DEF ReadNumThreads, CountSound, Alive
<1>3. CASE WriteNumThreads
  <2>1. main = "counted" /\ mainRead = numThreads /\ numThreads \in Nat
    BY <1>3 DEF WriteNumThreads, CountSound
  <2>2. stopFlag = 0 /\ \A w \in Workers : worker[w] # "leaving"
    BY <2>1 DEF StagesSound
  <2>3. main' = "create" /\ numThreads' = numThreads + 1 /\ worker' = worker /\ Alive' = Alive
    BY <1>3, <2>1 DEF WriteNumThreads, Alive
  <2>. QED  BY <2>1, <2>2, <2>3 DEF CountSound
<1>4. CASE FreeContext \/ Stop
  BY <1>4 DEF FreeContext, Stop, CountSound, Alive
<1>5. CASE \/ Poll \/ PollAgain \/ \E s \in Sockets : Accept(s)
           \/ ProduceFull \/ ProduceWait \/ LeaveLoop \/ JoinWait \/ JoinDone
  <2>1. UNCHANGED <<main, mainRead, workerRead, numThreads, worker>>
    BY <1>5
    DEF Poll, PollAgain, Accept, ProduceFull, ProduceWait, LeaveLoop, JoinWait, JoinDone
  <2>. QED  BY <2>1, CountFrame
<1>6. CASE ProducePut \/ ProduceDrop \/ Broadcast \/ WakeSpuriously
  <2>1. \A w \in Workers :
          worker'[w] = worker[w] \/ (worker[w] = "asleep" /\ worker'[w] = "consume")
    BY <1>0, <1>6, SignalFullWakes
    DEF ProducePut, ProduceDrop, Broadcast, WakeSpuriously, AsleepOnFull
  <2>2. UNCHANGED <<main, mainRead, workerRead, numThreads>>
    BY <1>6 DEF ProducePut, ProduceDrop, Broadcast, WakeSpuriously
  <2>3. \A w \in Workers :
          worker'[w] = worker[w] \/ {worker[w], worker'[w]} \cap {"unborn", "leaving", "gone"} = {}
    BY <2>1
  <2>. QED  BY <2>2, <2>3, CountFrame
<1>7. ASSUME NEW w \in Workers, WorkerStep(w)  PROVE CountSound'
  <2>1. CASE Begin(w) \/ ConsumeEmpty(w) \/ ConsumeWait(w) \/ Consume(w) \/ Return(w) \/ Serve(w)
    <3>1. UNCHANGED <<main, mainRead, workerRead, numThreads>>
      BY <2>1 DEF Begin, ConsumeEmpty, ConsumeWait, Consume, Return, Serve
    <3>2. /\ worker[w] \in Places \ {"unborn", "leaving", "gone"}
          /\ worker' = [worker EXCEPT ![w] = worker'[w]]
          /\ worker'[w] \in Places \ {"unborn", "leaving", "gone"}
      BY <1>0, <2>1 DEF Begin, ConsumeEmpty, ConsumeWait, Consume, Return, Serve, Places
    <3>3. \A v \in Workers :
            worker'[v] = worker[v] \/ {worker[v], worker'[v]} \cap {"unborn", "leaving", "gone"} = {}
      BY <1>0, <3>2
    <3>. QED  BY <3>1, <3>3, CountFrame
  <2>2. CASE Leave(w)
    <3>1. /\ mutex = NoThread /\ UNCHANGED <<main, mainRead, numThreads>>
          /\ worker' = [worker EXCEPT ![w] = "leaving"] /\ worker[w] = "leave"
          /\ workerRead' = [workerRead EXCEPT ![w] = numThreads]
      BY <2>2 DEF Leave
    <3>2. Alive' = Alive
      BY <1>0, <3>1 DEF Alive
    <3>3. \A v \in Workers : worker'[v] = "leaving" => workerRead'[v] = numThreads
      BY <1>0, <3>1 DEF CountSound
    <3>. QED  BY <3>1, <3>2, <3>3 DEF CountSound
  <2>3. CASE Leaving(w)
    <3>1. /\ mutex = w /\ workerRead[w] = numThreads /\ main \in {"stopping", "stopped"}
          /\ numThreads \in Nat /\ Cardinality(Alive) = numThreads
      BY <2>3 DEF Leaving, StagesSound, CountSound
    <3>2. w \in Alive /\ Alive' = Alive \ {w}
      BY <1>0, <2>3 DEF Leaving, Alive
    <3>3. Cardinality(Alive') = numThreads - 1 /\ Cardinality(Alive') \in Nat
      <4>1. Cardinality(Alive \ {w}) = Cardinality(Alive) - 1 /\ IsFiniteSet(Alive \ {w})
        BY <3>2, AliveFinite, FS_RemoveElement
      <4>. QED  BY <3>1, <3>2, <4>1, FS_CardinalityType
    <3>4. numThreads' = numThreads - 1 /\ UNCHANGED <<main, mainRead>>
      BY <2>3, <3>1 DEF Leaving
    <3>5. \A v \in Workers : worker'[v] # "leaving"
      BY <1>0, <2>3, <3>1 DEF Leaving, StagesSound
    <3>. QED  BY <3>1, <3>3, <3>4, <3>5 DEF CountSound
  <2>. QED  BY <1>7, <2>1, <2>2, <2>3 DEF WorkerStep
<1>8. CASE UNCHANGED vars
  BY <1>8, CountFrame DEF vars
<1>. QED
  BY <1>1, <1>2, <1>3, <1>4, <1>5, <1>6, <1>7, <1>8 DEF Next, MainStep, MasterStep

-----------------------------------------------------------------------------
(* The inductive invariant, and what follows. *)

IInv == TypeOK /\ SocketInv /\ NotStarted /\ CountInv

\* The parts together are inductive.
LEMMA IInvHolds == Spec => []IInv
<1>1. Init => IInv
  <2>1. Init => NotStarted
    BY DEF Init, NotStarted
  <2>. QED  BY <2>1, TypeInit, SocketInit, CountInit DEF IInv
<1>2. IInv /\ [Next]_vars => IInv'
  <2>. SUFFICES ASSUME IInv, [Next]_vars  PROVE IInv'
    OBVIOUS
  <2>. USE DEF IInv
  <2>1. TypeOK' /\ SocketInv' /\ NotStarted'
    BY TypeStep, SocketStep, NotStartedStep
  <2>2. ASSUME starved' = {}  PROVE starved = {}
    BY <2>2
    DEF Next, vars, mainVars, masterVars, workerVars, ringVars, MainStep, MasterStep,
        WorkerStep, StartWorker, ReadNumThreads, WriteNumThreads, Stop, FreeContext, Poll,
        PollAgain, Accept, ProducePut, ProduceDrop, ProduceFull, ProduceWait, LeaveLoop,
        Broadcast, JoinWait, JoinDone, WakeSpuriously, Begin, ConsumeEmpty, ConsumeWait,
        Consume, Return, Serve, Leave, Leaving
  <2>3. CountInv'
    BY <2>2, StagesStep, CountStep DEF CountInv
  <2>. QED  BY <2>1, <2>3
<1>. QED  BY <1>1, <1>2, PTL DEF Spec

\* The types, and that the count of the threads is the number of threads: when mutex and
\* condition variables are destroyed nobody is left to use them, and the assertion at the
\* end of worker_thread holds.
THEOREM ThreadsAccounted == Spec => []PoolInv
<1>1. IInv => PoolInv
  <2>. SUFFICES ASSUME IInv, starved = {}  PROVE NobodyLeftBehind /\ ThreadsNotNegative
    BY DEF PoolInv, IInv
  <2>1. CountSound /\ StagesSound
    BY DEF IInv, CountInv
  <2>2. NobodyLeftBehind
    BY <2>1 DEF NobodyLeftBehind, StagesSound, Alive
  <2>3. ThreadsNotNegative
    BY <2>1 DEF ThreadsNotNegative, CountSound
  <2>. QED  BY <2>2, <2>3
<1>. QED  BY <1>1, IInvHolds, PTL

\* A worker that serves has an open socket to itself, whatever wakes the workers.
THEOREM EachServedOnce == Spec => []ServedOnce
<1>1. IInv => ServedOnce
  <2>. SUFFICES ASSUME IInv  PROVE ServedOnce
    OBVIOUS
  <2>1. \A w \in Workers : worker[w] = "serve" => HasOpen(w)
    BY DEF IInv, SocketInv, ClientsSound
  <2>2. \A w \in Workers : HasOpen(w) => client[w] \in accepted \ Queued /\ client[w] \notin closed
    BY DEF IInv, SocketInv, ClientsSound, HasOpen
  <2>3. accepted \subseteq Sockets
    BY DEF IInv, TypeOK
  <2>. QED  BY <2>1, <2>2, <2>3 DEF ServedOnce, IInv, SocketInv, ClientsSound
<1>. QED  BY <1>1, IInvHolds, PTL

-----------------------------------------------------------------------------
(* The ring is a queue. *)

Held  == {so} \ {NoSocket}
Taken == {client[w] : w \in Serving} \ (closed \cup {NoSocket})

\* The steps that the queue does not see.
LEMMA QueueStutters ==
  ASSUME UNCHANGED <<so, accepted, closed>>, Waiting' = Waiting, stopFlag' # 0 <=> stopFlag # 0,
         \A w \in Workers :
           (HasOpen(w)' <=> HasOpen(w)) /\ (HasOpen(w) => client'[w] = client[w])
  PROVE  UNCHANGED AsQueue!queueVars
<1>1. Taken' = Taken
  BY DEF Taken, HasOpen, Serving
<1>2. (stopFlag' # 0) = (stopFlag # 0)
  OBVIOUS
<1>. QED  BY <1>1, <1>2 DEF AsQueue!queueVars, Taken, Waiting, Contents

\* accept is the queue's Accept.
LEMMA AcceptMaps ==
  ASSUME TypeOK, SocketInv, NEW s \in Sockets, Accept(s)
  PROVE  AsQueue!Admit(s) \/ AsQueue!Deny(s)
<1>. USE DEF mainVars, workerVars, ringVars
<1>1. Waiting' = Waiting /\ stopFlag' = 0 /\ stopFlag = 0
  BY DEF Accept, Waiting
<1>2. s \notin accepted /\ s # NoSocket /\ so = NoSocket
  BY ThreadAssumption DEF Accept, SocketInv, MasterSound
<1>3. \A w \in Workers : HasOpen(w) => client[w] # s
  BY <1>2 DEF SocketInv, ClientsSound
<1>4. Taken' = Taken
  BY <1>3 DEF Accept, Taken, HasOpen, Serving
<1>5. CASE so' = s /\ closed' = closed
  <2>1. Held' = Held \cup {s} /\ (Sockets \ accepted') = (Sockets \ accepted) \ {s}
    BY <1>2, <1>5 DEF Accept, Held
  <2>. QED  BY <1>1, <1>2, <1>4, <1>5, <2>1 DEF AsQueue!Admit, Held, Taken, Waiting, Contents
<1>6. CASE so' = so /\ closed' = closed \cup {s}
  <2>1. Held' = Held /\ (Sockets \ accepted') = (Sockets \ accepted) \ {s}
    BY <1>6 DEF Accept, Held
  <2>. QED  BY <1>1, <1>2, <1>4, <1>6, <2>1 DEF AsQueue!Deny, Held, Taken, Waiting, Contents
<1>. QED  BY <1>5, <1>6 DEF Accept

\* produce_socket is the queue's Put.
LEMMA PutMaps ==
  ASSUME TypeOK, SocketInv, ProducePut
  PROVE  \E s \in Sockets : AsQueue!Put(s)
<1>1. so \in Sockets /\ so # NoSocket /\ Len(Waiting) < Size /\ Waiting' = Append(Waiting, so)
  BY PutWaiting, ThreadAssumption
<1>2. \A w \in Workers :
        worker'[w] = worker[w] \/ (worker[w] = "asleep" /\ worker'[w] = "consume")
  BY SignalFullWakes DEF ProducePut, TypeOK, Places
<1>3. so' = NoSocket /\ UNCHANGED <<accepted, closed, client, stopFlag>>
  BY DEF ProducePut
<1>4. Taken' = Taken /\ Held = {so} /\ Held' = {}
  BY <1>1, <1>2, <1>3 DEF Taken, Held, Serving
<1>5. PICK s \in Sockets : s = so
  BY <1>1
<1>6. AsQueue!Put(s)
  BY <1>1, <1>3, <1>4, <1>5 DEF AsQueue!Put, Held, Taken, Waiting, Contents
<1>. QED  BY <1>6

\* A socket that finds no room when the server stops is given up.
LEMMA DropMaps ==
  ASSUME TypeOK, SocketInv, ProduceDrop
  PROVE  \E s \in Sockets : AsQueue!GiveUp(s)
<1>. USE DEF mainVars, ringVars
<1>1. so \in Sockets /\ so # NoSocket /\ stopFlag # 0
  BY ThreadAssumption DEF ProduceDrop, SocketInv, MasterSound, TypeOK
<1>2. \A w \in Workers :
        worker'[w] = worker[w] \/ (worker[w] = "asleep" /\ worker'[w] = "consume")
  BY SignalFullWakes DEF ProduceDrop, TypeOK, Places
<1>3. so' = NoSocket /\ UNCHANGED <<accepted, closed, client, stopFlag>> /\ Waiting' = Waiting
  BY DEF ProduceDrop, Waiting
<1>4. \A w \in Workers : HasOpen(w) => client[w] # so
  BY DEF SocketInv, ClientsSound
<1>5. Taken' = Taken \ {so} /\ Held = {so} /\ Held' = {}
  BY <1>1, <1>2, <1>3, <1>4 DEF Taken, Held, HasOpen, Serving
<1>6. PICK s \in Sockets : s = so
  BY <1>1
<1>7. AsQueue!GiveUp(s)
  BY <1>1, <1>3, <1>5, <1>6 DEF AsQueue!GiveUp, Held, Taken, Waiting, Contents
<1>. QED  BY <1>7

\* consume_socket is the queue's Get of the first.
LEMMA ConsumeMaps ==
  ASSUME TypeOK, SocketInv, NEW w \in Workers, Consume(w)
  PROVE  AsQueue!Get \/ UNCHANGED AsQueue!queueVars
<1>. USE DEF mainVars
<1>1. /\ worker' = [worker EXCEPT ![w] = "consumed"] /\ worker[w] = "consume"
      /\ worker \in [Workers -> Places] /\ client \in [Workers -> Sockets \cup {NoSocket}]
      /\ so' = so /\ accepted' = accepted /\ closed' = closed /\ stopFlag' = stopFlag
  BY DEF Consume, TypeOK, Places
<1>2. client[w] \in closed \cup {NoSocket}
  BY <1>1 DEF SocketInv, ClientsSound
<1>3. CASE Empty
  <2>1. client' = client /\ Waiting' = Waiting
    BY <1>3 DEF Consume, Waiting
  <2>2. \A v \in Workers : HasOpen(v)' <=> HasOpen(v)
    BY <1>1, <1>2, <2>1 DEF HasOpen, Serving
  <2>. QED  BY <1>1, <2>1, <2>2, QueueStutters
<1>4. CASE ~Empty
  <2>1. /\ Waiting # <<>> /\ Waiting' = Tail(Waiting)
        /\ client' = [client EXCEPT ![w] = Head(Waiting)]
        /\ Head(Waiting) \in Queued
    BY <1>4, GetWaiting
  <2>2. Head(Waiting) \in accepted \ closed /\ Head(Waiting) # NoSocket
    <3>1. Queued = {Waiting[i] : i \in 1..Len(Waiting)}
      BY QueuedIsWaiting DEF TypeOK, Indices, RingSlots
    <3>2. Head(Waiting) \in accepted \ closed
      BY <2>1, <3>1 DEF SocketInv, RingSound
    <3>. QED  BY <3>2, ThreadAssumption DEF TypeOK
  <2>3. Taken' = Taken \cup {Head(Waiting)}
    <3>. DEFINE s == Head(Waiting)
    <3>1. client' = [client EXCEPT ![w] = s] /\ s \notin closed \cup {NoSocket}
      BY <2>1, <2>2
    <3>. HIDE DEF s
    <3>2. Serving' = Serving \cup {w} /\ w \notin Serving
      BY <1>1 DEF Serving
    <3>3. client'[w] = s /\ \A v \in Serving : client'[v] = client[v]
      BY <1>1, <3>1, <3>2 DEF Serving
    <3>4. Taken' = Taken \cup {s}
      BY <1>1, <3>1, <3>2, <3>3 DEF Taken
    <3>. QED  BY <3>4 DEF s
  <2>. QED  BY <1>1, <2>1, <2>3 DEF AsQueue!Get, Taken, Waiting, Contents
<1>. QED  BY <1>3, <1>4

\* process_new_connection is the queue's serving.
LEMMA ServeMaps ==
  ASSUME TypeOK, SocketInv, NEW w \in Workers, Serve(w)
  PROVE  \E s \in Sockets : AsQueue!Close(s)
<1>. USE DEF mainVars, masterVars, ringVars
<1>1. /\ worker' = [worker EXCEPT ![w] = "consume"] /\ worker[w] = "serve"
      /\ worker \in [Workers -> Places]
      /\ closed' = closed \cup {client[w]} /\ client' = client
      /\ so' = so /\ accepted' = accepted /\ stopFlag' = stopFlag /\ Waiting' = Waiting
  BY DEF Serve, TypeOK, Places, Waiting
<1>2. HasOpen(w)
  BY <1>1 DEF SocketInv, ClientsSound
<1>3. client[w] \in Sockets /\ client[w] \in Taken
  BY <1>2 DEF SocketInv, ClientsSound, TypeOK, HasOpen, Taken
<1>4. Taken' = Taken \ {client[w]}
  <2>1. Serving' = Serving \ {w}
    BY <1>1 DEF Serving
  <2>. QED  BY <1>1, <2>1 DEF Taken
<1>5. PICK s \in Sockets : s = client[w]
  BY <1>3
<1>6. AsQueue!Close(s)
  BY <1>1, <1>3, <1>4, <1>5 DEF AsQueue!Close, Held, Taken, Waiting, Contents
<1>. QED  BY <1>6

\* A worker that sees the stop gives its connection up; otherwise the queue sees nothing.
LEMMA ReturnMaps ==
  ASSUME TypeOK, SocketInv, NEW w \in Workers, Return(w)
  PROVE  \/ \E s \in Sockets : AsQueue!GiveUp(s)
         \/ UNCHANGED AsQueue!queueVars
<1>. USE DEF mainVars, masterVars, ringVars
<1>1. /\ worker' = [worker EXCEPT ![w] = IF stopFlag = 0 THEN "serve" ELSE "leave"]
      /\ worker[w] = "consumed" /\ worker \in [Workers -> Places]
      /\ closed' = closed /\ client' = client
      /\ so' = so /\ accepted' = accepted /\ stopFlag' = stopFlag /\ Waiting' = Waiting
  BY DEF Return, TypeOK, Places, Waiting
<1>2. CASE stopFlag = 0 \/ ~HasOpen(w)
  <2>1. \A v \in Workers : HasOpen(v)' <=> HasOpen(v)
    BY <1>1, <1>2 DEF HasOpen, Serving
  <2>. QED  BY <1>1, <2>1, QueueStutters
<1>3. CASE stopFlag # 0 /\ HasOpen(w)
  <2>1. client[w] \in Sockets /\ client[w] \in Taken /\ client[w] # so
    BY <1>3 DEF SocketInv, ClientsSound, TypeOK, HasOpen, Taken
  <2>2. \A v \in Workers : HasOpen(v) /\ client[v] = client[w] => v = w
    BY <1>3 DEF SocketInv, ClientsSound
  <2>3. Serving' = Serving \ {w}
    BY <1>1, <1>3 DEF Serving
  <2>4. Taken' = Taken \ {client[w]}
    BY <1>1, <2>2, <2>3 DEF Taken, HasOpen, Serving
  <2>5. Held' = Held \ {client[w]}
    BY <1>1, <2>1 DEF Held
  <2>6. PICK s \in Sockets : s = client[w]
    BY <2>1
  <2>7. AsQueue!GiveUp(s)
    BY <1>1, <1>3, <2>1, <2>4, <2>5, <2>6 DEF AsQueue!GiveUp, Held, Taken, Waiting, Contents
  <2>. QED  BY <2>7
<1>. QED  BY <1>2, <1>3

\* Both writes of stop_flag are the queue's stop.
LEMMA StopMaps ==
  ASSUME Stop \/ JoinDone
  PROVE  AsQueue!BeginStop
<1>. USE DEF mainVars, masterVars, workerVars, ringVars
<1>1. (stopFlag' # 0) = TRUE
  BY DEF Stop, JoinDone
<1>2. UNCHANGED <<so, worker, client, sqHead, sqTail, queue, accepted, closed>>
  BY DEF Stop, JoinDone
<1>. QED  BY <1>1, <1>2 DEF AsQueue!BeginStop, Serving

\* Every step is a step of the queue or one it does not see.
LEMMA QueueStep ==
  ASSUME TypeOK, SocketInv, NotStarted, [Next]_vars
  PROVE  [AsQueue!Next]_(AsQueue!queueVars)
<1>. USE DEF mainVars, masterVars, workerVars, ringVars
<1>0. worker \in [Workers -> Places]
  BY DEF TypeOK, Places
<1>1. ASSUME NEW w \in Workers, StartWorker(w)  PROVE UNCHANGED AsQueue!queueVars
  <2>1. \A v \in Workers : worker'[v] = worker[v] \/ (worker[v] = "unborn" /\ worker'[v] = "start")
    BY <1>0, <1>1 DEF StartWorker, NotStarted
  <2>. QED  BY <1>1, <2>1, QueueStutters DEF StartWorker, HasOpen, Serving, Waiting
<1>2. CASE ReadNumThreads \/ WriteNumThreads
  BY <1>2, QueueStutters DEF ReadNumThreads, WriteNumThreads, HasOpen, Serving, Waiting
<1>3. CASE \/ Poll \/ PollAgain \/ FreeContext
           \/ ProduceFull \/ ProduceWait \/ LeaveLoop \/ JoinWait
  <2>1. UNCHANGED <<so, worker, client, sqHead, sqTail, queue, accepted, closed, stopFlag>>
    BY <1>3 DEF Poll, PollAgain, FreeContext, ProduceFull, ProduceWait, LeaveLoop, JoinWait
  <2>. QED  BY <2>1, QueueStutters DEF HasOpen, Serving, Waiting
<1>4. CASE Broadcast \/ WakeSpuriously
  <2>1. \A v \in Workers :
          worker'[v] = worker[v] \/ (worker[v] = "asleep" /\ worker'[v] = "consume")
    BY <1>0, <1>4 DEF Broadcast, WakeSpuriously, AsleepOnFull
  <2>2. UNCHANGED <<so, client, sqHead, sqTail, queue, accepted, closed, stopFlag>>
    BY <1>4 DEF Broadcast, WakeSpuriously
  <2>. QED  BY <2>1, <2>2, QueueStutters DEF HasOpen, Serving, Waiting
<1>5. CASE \E s \in Sockets : Accept(s)
  BY <1>5, AcceptMaps DEF AsQueue!Next
<1>6. CASE ProducePut
  BY <1>6, PutMaps DEF AsQueue!Next
<1>7. CASE ProduceDrop
  BY <1>7, DropMaps DEF AsQueue!Next
<1>8. CASE Stop \/ JoinDone
  BY <1>8, StopMaps DEF AsQueue!Next
<1>9. ASSUME NEW w \in Workers, WorkerStep(w)  PROVE [AsQueue!Next]_(AsQueue!queueVars)
  <2>1. CASE Begin(w) \/ ConsumeEmpty(w) \/ ConsumeWait(w) \/ Leave(w) \/ Leaving(w)
    <3>1. UNCHANGED <<so, client, sqHead, sqTail, queue, accepted, closed, stopFlag>>
      BY <2>1 DEF Begin, ConsumeEmpty, ConsumeWait, Leave, Leaving
    <3>2. Serving' = Serving
      BY <1>0, <2>1 DEF Begin, ConsumeEmpty, ConsumeWait, Leave, Leaving, Serving
    <3>. QED  BY <3>1, <3>2, QueueStutters DEF HasOpen, Waiting
  <2>2. CASE Consume(w)
    BY <2>2, ConsumeMaps DEF AsQueue!Next
  <2>3. CASE Return(w)
    BY <2>3, ReturnMaps DEF AsQueue!Next
  <2>4. CASE Serve(w)
    BY <2>4, ServeMaps DEF AsQueue!Next
  <2>. QED  BY <1>9, <2>1, <2>2, <2>3, <2>4 DEF WorkerStep
<1>10. CASE UNCHANGED vars
  BY <1>10, QueueStutters DEF vars, HasOpen, Serving, Waiting
<1>. QED
  BY <1>1, <1>2, <1>3, <1>4, <1>5, <1>6, <1>7, <1>8, <1>9, <1>10
  DEF Next, MainStep, MasterStep

\* The queue starts empty.
LEMMA QueueInit == Init => AsQueue!Init
<1>. SUFFICES ASSUME Init  PROVE AsQueue!Init
  OBVIOUS
<1>1. Indices(sqHead, sqTail) /\ queue \in RingSlots
  BY SizeAssumption DEF Init, Indices, RingSlots, Slots
<1>2. Waiting \in Seq(Sockets \cup {NoSocket}) /\ Len(Waiting) = 0
  BY <1>1, ContentsType DEF Init, Waiting
<1>3. Waiting = <<>>
  BY <1>2
<1>4. Taken = {} /\ Held = {} /\ (stopFlag # 0) = FALSE
  BY DEF Init, Taken, Held, Serving
<1>. QED  BY <1>3, <1>4 DEF Init, AsQueue!Init, Taken, Held, Waiting, Contents

\* The ring, with its wrap and its spurious wakeups, is a bounded first-in first-out
\* queue: nothing waiting is overwritten or overtaken, a socket is served by one worker,
\* and it is given up only when the server stops.
THEOREM RingIsQueue == Spec => ImplementsQueue
<1>1. IInv /\ [Next]_vars => [AsQueue!Next]_(AsQueue!queueVars)
  BY QueueStep DEF IInv
<1>. QED  BY <1>1, QueueInit, IInvHolds, PTL DEF Spec, ImplementsQueue, AsQueue!Spec
=============================================================================
