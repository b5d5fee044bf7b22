---------------------------- MODULE MongoosePool ----------------------------
(***************************************************************************)
(* The threads of the web server: mg_start, master_thread, worker_thread   *)
(* and mg_stop of mongoose.c, driven by _mulle_mongoose_main.              *)
(*                                                                         *)
(* The master accepts sockets and puts them into the ring ctx->queue, the  *)
(* workers take them out and serve them.  ctx->mutex guards the ring and   *)
(* the condition variables sq_full (a socket was produced), sq_empty (one  *)
(* was consumed) and cond (a worker is leaving).  stop_flag is written and *)
(* read without the mutex, and mg_start counts num_threads without it.     *)
(*                                                                         *)
(* What a thread does from taking the mutex to giving it up is one action, *)
(* unless it looks at stop_flag or num_threads and acts on it later: then  *)
(* the look and the act are two, and the mutex has an owner in between.  A *)
(* thread asleep on a condition variable is woken by a signal, or for no   *)
(* reason at all, and starts over with taking the mutex.                   *)
(***************************************************************************)
EXTENDS Integers, Sequences, FiniteSets

CONSTANTS
  Workers,   \* the threads of the option num_threads
  Sockets,   \* bound: the connections that clients make
  Size,      \* ARRAY_SIZE(ctx->queue)
  MayFail,   \* what may go wrong: "create" a thread, "memory" of a worker
  NoThread, NoSocket

ASSUME SizeAssumption   == Size \in Nat \ {0}
ASSUME ThreadAssumption == NoThread \notin Workers /\ NoSocket \notin Sockets
ASSUME MasterAssumption == "master" \notin Workers /\ "master" # NoThread
ASSUME CountAssumption  == IsFiniteSet(Workers)

VARIABLES
  main,        \* where the thread is that calls mg_start and mg_stop
  toStart,     \* workers mg_start has not come to
  mainRead,    \* num_threads as mg_start has read it
  master,      \* where the master is
  so,          \* the accepted socket it holds
  worker,      \* worker[w]: where the worker is
  client,      \* client[w]: conn->client
  workerRead,  \* num_threads as the worker has read it
  mutex,       \* who holds ctx->mutex over more than one action
  stopFlag, numThreads,
  sqHead, sqTail, queue,
  accepted, closed,
  starved      \* history: the workers that got no memory

mainVars   == <<main, toStart, mainRead>>
masterVars == <<master, so>>
workerVars == <<worker, client, workerRead>>
ringVars   == <<sqHead, sqTail, queue>>
vars == <<mainVars, masterVars, workerVars, mutex, stopFlag, numThreads, ringVars, accepted, closed, starved>>

Slots == 0..(Size - 1)
Empty == sqHead = sqTail

\* Fault: one socket more than there are slots.
FaultyFull == sqHead - sqTail > Size

Full == sqHead - sqTail >= Size

Init ==
  /\ main = "create" /\ toStart = Workers /\ mainRead = 0
  /\ master = "loop" /\ so = NoSocket
  /\ worker = [w \in Workers |-> "unborn"]
  /\ client = [w \in Workers |-> NoSocket]
  /\ workerRead = [w \in Workers |-> 0]
  /\ mutex = NoThread /\ stopFlag = 0 /\ numThreads = 0
  /\ sqHead = 0 /\ sqTail = 0 /\ queue = [i \in Slots |-> NoSocket]
  /\ accepted = {} /\ closed = {} /\ starved = {}

-----------------------------------------------------------------------------
(* Condition variables. *)

AsleepOnFull == {w \in Workers : worker[w] = "asleep"}

\* Fault: nobody is woken for a new socket.
FaultySignalFull == UNCHANGED worker

\* pthread_cond_signal(&ctx->sq_full): one of the sleepers, if there are any.
SignalFull ==
  IF AsleepOnFull = {} THEN UNCHANGED worker
  ELSE \E w \in AsleepOnFull : worker' = [worker EXCEPT ![w] = "consume"]

\* pthread_cond_signal(&ctx->sq_empty) and (&ctx->cond): only the master waits.
SignalEmpty == master' = IF master = "asleep on empty" THEN "produce" ELSE master

\* Fault: a worker leaves without a signal.
FaultySignalCond == UNCHANGED master

SignalCond == master' = IF master = "asleep on cond" THEN "join" ELSE master

\* Fault: a worker that was woken does not look at the ring again.
FaultyWakeSpuriously ==
  /\ \E w \in AsleepOnFull : worker' = [worker EXCEPT ![w] = "consumed"]
  /\ UNCHANGED <<mainVars, masterVars, client, workerRead, mutex, stopFlag, numThreads,
                 ringVars, accepted, closed, starved>>

WakeSpuriously ==
  /\ \/ \E w \in AsleepOnFull :
          worker' = [worker EXCEPT ![w] = "consume"] /\ UNCHANGED master
     \/ /\ master \in {"asleep on empty", "asleep on cond"}
        /\ master' = IF master = "asleep on empty" THEN "produce" ELSE "join"
        /\ UNCHANGED worker
  /\ UNCHANGED <<mainVars, so, client, workerRead, mutex, stopFlag, numThreads,
                 ringVars, accepted, closed, starved>>

-----------------------------------------------------------------------------
(* mg_start and mg_stop. *)

StartWorker(w) ==
  /\ main = "create" /\ w \in toStart
  /\ toStart' = toStart \ {w}
  /\ \/ /\ worker' = [worker EXCEPT ![w] = "start"]
        /\ main' = "count"
     \/ /\ "create" \in MayFail
        /\ UNCHANGED <<worker, main>>
  /\ UNCHANGED <<mainRead, masterVars, client, workerRead, mutex, stopFlag, numThreads,
                 ringVars, accepted, closed, starved>>

\* ctx->num_threads++, a read and a write, without the mutex.
ReadNumThreads ==
  /\ main = "count"
  /\ main' = "counted" /\ mainRead' = numThreads
  /\ UNCHANGED <<toStart, masterVars, workerVars, mutex, stopFlag, numThreads,
                 ringVars, accepted, closed, starved>>

WriteNumThreads ==
  /\ main = "counted"
  /\ main' = "create" /\ numThreads' = mainRead + 1
  /\ UNCHANGED <<toStart, mainRead, masterVars, workerVars, mutex, stopFlag,
                 ringVars, accepted, closed, starved>>

\* mg_start has returned; the main thread sleeps until there is a signal.
Stop ==
  /\ main = "create" /\ toStart = {}
  /\ main' = "stopping" /\ stopFlag' = 1
  /\ UNCHANGED <<toStart, mainRead, masterVars, workerVars, mutex, numThreads,
                 ringVars, accepted, closed, starved>>

FreeContext ==
  /\ main = "stopping" /\ stopFlag = 2
  /\ main' = "stopped"
  /\ UNCHANGED <<toStart, mainRead, masterVars, workerVars, mutex, stopFlag, numThreads,
                 ringVars, accepted, closed, starved>>

-----------------------------------------------------------------------------
(* master_thread. *)

Poll ==
  /\ master = "loop" /\ stopFlag = 0
  /\ master' = "polled"
  /\ UNCHANGED <<mainVars, so, workerVars, mutex, stopFlag, numThreads,
                 ringVars, accepted, closed, starved>>

PollAgain ==
  /\ master = "polled"
  /\ master' = "loop"
  /\ UNCHANGED <<mainVars, so, workerVars, mutex, stopFlag, numThreads,
                 ringVars, accepted, closed, starved>>

\* accept_new_connection, of a client that is allowed to connect or is not.
Accept(s) ==
  /\ master = "polled" /\ stopFlag = 0 /\ s \in Sockets \ accepted
  /\ accepted' = accepted \cup {s}
  /\ \/ /\ so' = s /\ master' = "produce"
        /\ UNCHANGED closed
     \/ /\ closed' = closed \cup {s}
        /\ UNCHANGED <<master, so>>
  /\ UNCHANGED <<mainVars, workerVars, mutex, stopFlag, numThreads, ringVars, starved>>

\* produce_socket, when there is room.
ProducePut ==
  /\ master = "produce" /\ mutex = NoThread /\ ~Full
  /\ queue' = [queue EXCEPT ![sqHead % Size] = so]
  /\ sqHead' = sqHead + 1
  /\ so' = NoSocket
  /\ SignalFull
  /\ master' = "polled"
  /\ UNCHANGED <<mainVars, client, workerRead, mutex, stopFlag, numThreads, sqTail,
                 accepted, closed, starved>>

\* The ring is full and the server is stopping: the socket is dropped.
ProduceDrop ==
  /\ master = "produce" /\ mutex = NoThread /\ Full /\ stopFlag # 0
  /\ so' = NoSocket
  /\ SignalFull
  /\ master' = "polled"
  /\ UNCHANGED <<mainVars, client, workerRead, mutex, stopFlag, numThreads, ringVars,
                 accepted, closed, starved>>

ProduceFull ==
  /\ master = "produce" /\ mutex = NoThread /\ Full /\ stopFlag = 0
  /\ mutex' = "master" /\ master' = "full"
  /\ UNCHANGED <<mainVars, so, workerVars, stopFlag, numThreads, ringVars, accepted, closed, starved>>

ProduceWait ==
  /\ master = "full"
  /\ mutex' = NoThread /\ master' = "asleep on empty"
  /\ UNCHANGED <<mainVars, so, workerVars, stopFlag, numThreads, ringVars, accepted, closed, starved>>

\* Out of the loop: the listening sockets are closed.
LeaveLoop ==
  /\ master = "loop" /\ stopFlag # 0
  /\ master' = "broadcast"
  /\ UNCHANGED <<mainVars, so, workerVars, mutex, stopFlag, numThreads,
                 ringVars, accepted, closed, starved>>

\* pthread_cond_broadcast(&ctx->sq_full), without the mutex.
Broadcast ==
  /\ master = "broadcast"
  /\ worker' = [w \in Workers |-> IF worker[w] = "asleep" THEN "consume" ELSE worker[w]]
  /\ master' = "join"
  /\ UNCHANGED <<mainVars, so, client, workerRead, mutex, stopFlag, numThreads,
                 ringVars, accepted, closed, starved>>

JoinWait ==
  /\ master = "join" /\ mutex = NoThread /\ numThreads > 0
  /\ master' = "asleep on cond"
  /\ UNCHANGED <<mainVars, so, workerVars, mutex, stopFlag, numThreads,
                 ringVars, accepted, closed, starved>>

\* Fault: the last worker is not waited for.
FaultyJoinDone ==
  /\ master = "join" /\ mutex = NoThread /\ numThreads <= 1
  /\ master' = "gone" /\ stopFlag' = 2
  /\ UNCHANGED <<mainVars, so, workerVars, mutex, numThreads, ringVars, accepted, closed, starved>>

\* No thread is left: mutex and condition variables are destroyed.
JoinDone ==
  /\ master = "join" /\ mutex = NoThread /\ numThreads <= 0
  /\ master' = "gone" /\ stopFlag' = 2
  /\ UNCHANGED <<mainVars, so, workerVars, mutex, numThreads, ringVars, accepted, closed, starved>>

-----------------------------------------------------------------------------
(* worker_thread. *)

Begin(w) ==
  /\ worker[w] = "start"
  /\ \/ worker' = [worker EXCEPT ![w] = "consume"] /\ UNCHANGED starved
     \/ /\ "memory" \in MayFail
        /\ worker' = [worker EXCEPT ![w] = "leave"] /\ starved' = starved \cup {w}
  /\ UNCHANGED <<mainVars, masterVars, client, workerRead, mutex, stopFlag, numThreads,
                 ringVars, accepted, closed>>

\* consume_socket finds nothing to do: it is going to wait ...
ConsumeEmpty(w) ==
  /\ worker[w] = "consume" /\ mutex = NoThread /\ Empty /\ stopFlag = 0
  /\ mutex' = w /\ worker' = [worker EXCEPT ![w] = "empty"]
  /\ UNCHANGED <<mainVars, masterVars, client, workerRead, stopFlag, numThreads,
                 ringVars, accepted, closed, starved>>

\* ... and waits.
ConsumeWait(w) ==
  /\ worker[w] = "empty"
  /\ mutex' = NoThread /\ worker' = [worker EXCEPT ![w] = "asleep"]
  /\ UNCHANGED <<mainVars, masterVars, client, workerRead, stopFlag, numThreads,
                 ringVars, accepted, closed, starved>>

\* Fault: each of the two is wrapped when it is due itself.
FaultyWrapped(index) == IF index > Size THEN index - Size ELSE index

\* "Wrap pointers if needed", behind the increment of the tail.
Wrapped(index) == IF sqTail + 1 > Size THEN index - Size ELSE index

Consume(w) ==
  /\ worker[w] = "consume" /\ mutex = NoThread /\ (stopFlag # 0 \/ ~Empty)
  /\ IF Empty
     THEN UNCHANGED <<client, sqHead, sqTail>>
     ELSE /\ client' = [client EXCEPT ![w] = queue[sqTail % Size]]
          /\ sqTail' = Wrapped(sqTail + 1)
          /\ sqHead' = Wrapped(sqHead)
  /\ SignalEmpty
  /\ worker' = [worker EXCEPT ![w] = "consumed"]
  /\ UNCHANGED <<mainVars, so, workerRead, mutex, stopFlag, numThreads, queue, accepted, closed, starved>>

\* return !ctx->stop_flag, behind the unlock.
Return(w) ==
  /\ worker[w] = "consumed"
  /\ worker' = [worker EXCEPT ![w] = IF stopFlag = 0 THEN "serve" ELSE "leave"]
  /\ UNCHANGED <<mainVars, masterVars, client, workerRead, mutex, stopFlag, numThreads,
                 ringVars, accepted, closed, starved>>

\* process_new_connection and close_connection.
Serve(w) ==
  /\ worker[w] = "serve"
  /\ closed' = closed \cup {client[w]}
  /\ worker' = [worker EXCEPT ![w] = "consume"]
  /\ UNCHANGED <<mainVars, masterVars, client, workerRead, mutex, stopFlag, numThreads,
                 ringVars, accepted, starved>>

\* ctx->num_threads--, a read and a write, with the mutex.
Leave(w) ==
  /\ worker[w] = "leave" /\ mutex = NoThread
  /\ mutex' = w /\ worker' = [worker EXCEPT ![w] = "leaving"]
  /\ workerRead' = [workerRead EXCEPT ![w] = numThreads]
  /\ UNCHANGED <<mainVars, masterVars, client, stopFlag, numThreads, ringVars, accepted, closed, starved>>

Leaving(w) ==
  /\ worker[w] = "leaving"
  /\ numThreads' = workerRead[w] - 1
  /\ SignalCond
  /\ mutex' = NoThread /\ worker' = [worker EXCEPT ![w] = "gone"]
  /\ UNCHANGED <<mainVars, so, client, workerRead, stopFlag, ringVars, accepted, closed, starved>>

-----------------------------------------------------------------------------
MainStep == \/ \E w \in Workers : StartWorker(w)
            \/ ReadNumThreads \/ WriteNumThreads \/ FreeContext

MasterStep == \/ Poll \/ PollAgain \/ \E s \in Sockets : Accept(s)
              \/ ProducePut \/ ProduceDrop \/ ProduceFull \/ ProduceWait
              \/ LeaveLoop \/ Broadcast \/ JoinWait \/ JoinDone

WorkerStep(w) == \/ Begin(w) \/ ConsumeEmpty(w) \/ ConsumeWait(w) \/ Consume(w)
                 \/ Return(w) \/ Serve(w) \/ Leave(w) \/ Leaving(w)

Next == MainStep \/ Stop \/ MasterStep \/ WakeSpuriously \/ \E w \in Workers : WorkerStep(w)

Spec == Init /\ [][Next]_vars

\* A thread that can go on does so; one that wants the mutex gets it some time,
\* when it is free again and again.  Serving a client ends, since its socket
\* times out.  Nothing says that the server is ever stopped.
Fairness == /\ WF_vars(MainStep)
            /\ SF_vars(MasterStep)
            /\ \A w \in Workers : SF_vars(WorkerStep(w))

FairSpec == Spec /\ Fairness

-----------------------------------------------------------------------------
(* What they keep to. *)

Serving == {w \in Workers : worker[w] \in {"consumed", "serve"}}
Queued  == {queue[(sqTail + i) % Size] : i \in 0..(sqHead - sqTail - 1)}

TypeOK ==
  /\ main \in {"create", "count", "counted", "stopping", "stopped"}
  /\ toStart \subseteq Workers /\ mainRead \in Int
  /\ master \in {"loop", "polled", "produce", "full", "asleep on empty",
                 "broadcast", "join", "asleep on cond", "gone"}
  /\ so \in Sockets \cup {NoSocket}
  /\ worker \in [Workers -> {"unborn", "start", "consume", "empty", "asleep",
                              "consumed", "serve", "leave", "leaving", "gone"}]
  /\ client \in [Workers -> Sockets \cup {NoSocket}]
  /\ workerRead \in [Workers -> Int]
  /\ mutex \in Workers \cup {"master", NoThread}
  /\ stopFlag \in 0..2 /\ numThreads \in Int
  /\ sqTail \in 0..Size /\ sqHead \in sqTail..(sqTail + Size)
  /\ queue \in [Slots -> Sockets \cup {NoSocket}]
  /\ accepted \subseteq Sockets /\ closed \subseteq accepted /\ starved \subseteq Workers

\* A worker that serves has a socket of its own that nobody has closed: none
\* is served twice, by one worker or by two, whatever wakes them.
ServedOnce ==
  /\ \A w \in Workers : worker[w] = "serve" => client[w] \in Sockets \ (closed \cup Queued)
  /\ \A v, w \in Workers :
       worker[v] = "serve" /\ worker[w] = "serve" /\ client[v] = client[w] => v = w

\* When mutex and condition variables are destroyed (line 5195) and the context
\* is freed no worker is left that could use them.
NobodyLeftBehind ==
  master = "gone" => \A w \in Workers : worker[w] \in {"unborn", "gone"}

\* The assertion at the end of worker_thread: assert(ctx->num_threads >= 0).
ThreadsNotNegative == numThreads >= 0

\* The counting of the threads, in three places of which one has no mutex, agrees
\* with the threads there are; a worker that leaves for lack of memory may be
\* ahead of mg_start and spoil it.
PoolInv == TypeOK /\ (starved = {} => NobodyLeftBehind /\ ThreadsNotNegative)

\* A socket in the ring is served and closed, unless the server is stopped or
\* none of its workers came to life: no signal is lost between master and workers
\* as long as it runs.
NobodyWorks == \A w \in Workers : worker[w] = "unborn" \/ w \in starved

ServedUnlessStopped ==
  \A s \in Sockets : s \in Queued ~> (s \in closed \/ stopFlag # 0 \/ NobodyWorks)

\* "Wakeup workers that are waiting" (line 5185): mg_stop comes back.
StopEnds == main = "stopping" ~> main = "stopped"

\* The two ways to miss a wakeup: a worker has seen the flag before it was set
\* and falls asleep behind the broadcast; the master has, and falls asleep when
\* the last worker has signalled sq_empty for the last time.
WakeupMissed ==
  \/ master = "asleep on cond" /\ AsleepOnFull # {}
  \/ /\ master = "asleep on empty"
     /\ \A w \in Workers : worker[w] \in {"unborn", "consumed", "leave", "leaving", "gone"}

\* There is no third one: mg_stop comes back unless a wakeup is missed (or a worker
\* without memory has spoiled the count of the threads).
StopEndsUnlessMissed ==
  main = "stopping" ~> (main = "stopped" \/ WakeupMissed \/ starved # {})

-----------------------------------------------------------------------------
\* The ring is a queue: first come first served, nothing in it overwritten.
AsQueue == INSTANCE MongooseQueue WITH
  Bound    <- Size,
  backlog  <- Sockets \ accepted,
  held     <- {so} \ {NoSocket},
  waiting  <- [i \in 1..(sqHead - sqTail) |-> queue[(sqTail + i - 1) % Size]],
  taken    <- {client[w] : w \in Serving} \ (closed \cup {NoSocket}),
  stopping <- stopFlag # 0

ImplementsQueue == AsQueue!Spec
=============================================================================
