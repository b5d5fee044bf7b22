---------------------------- MODULE MongooseQueue ----------------------------
(***************************************************************************)
(* What the threads of the web server do with the sockets of its clients:  *)
(* a bounded first-in first-out queue between the thread that accepts them *)
(* and those that serve them.  A socket is served once, and given up only  *)
(* when the server stops.                                                  *)
(***************************************************************************)
EXTENDS Naturals, Sequences

CONSTANTS Sockets, Bound

VARIABLES
  backlog,   \* not accepted yet
  held,      \* accepted, on the way to the queue
  waiting,   \* the queue
  taken,     \* with a worker
  closed,
  stopping

queueVars == <<backlog, held, waiting, taken, closed, stopping>>

Init ==
  /\ backlog = Sockets
  /\ held = {} /\ waiting = <<>> /\ taken = {} /\ closed = {}
  /\ stopping = FALSE

Admit(s) ==
  /\ s \in backlog /\ ~stopping
  /\ backlog' = backlog \ {s} /\ held' = held \cup {s}
  /\ UNCHANGED <<waiting, taken, closed, stopping>>

Deny(s) ==
  /\ s \in backlog /\ ~stopping
  /\ backlog' = backlog \ {s} /\ closed' = closed \cup {s}
  /\ UNCHANGED <<held, waiting, taken, stopping>>

Put(s) ==
  /\ s \in held /\ Len(waiting) < Bound
  /\ held' = held \ {s} /\ waiting' = Append(waiting, s)
  /\ UNCHANGED <<backlog, taken, closed, stopping>>

Get ==
  /\ waiting # <<>>
  /\ waiting' = Tail(waiting) /\ taken' = taken \cup {Head(waiting)}
  /\ UNCHANGED <<backlog, held, closed, stopping>>

Close(s) ==
  /\ s \in taken
  /\ taken' = taken \ {s} /\ closed' = closed \cup {s}
  /\ UNCHANGED <<backlog, held, waiting, stopping>>

GiveUp(s) ==
  /\ stopping /\ s \in held \cup taken
  /\ held' = held \ {s} /\ taken' = taken \ {s}
  /\ UNCHANGED <<backlog, waiting, closed, stopping>>

BeginStop ==
  /\ stopping' = TRUE
  /\ UNCHANGED <<backlog, held, waiting, taken, closed>>

Next == \/ \E s \in Sockets : Admit(s) \/ Deny(s) \/ Put(s) \/ Close(s) \/ GiveUp(s)
        \/ Get \/ BeginStop

Spec == Init /\ [][Next]_queueVars
=============================================================================
