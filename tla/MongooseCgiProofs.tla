-------------------------- MODULE MongooseCgiProofs --------------------------
(***************************************************************************)
(* The scripts of the web server, for any number of workers, pipes and     *)
(* chunks of any size and requests of any length: no descriptor is closed  *)
(* twice or left open, each request is answered once, and what a script    *)
(* wrote is sent, if no write to the client fails.                         *)
(***************************************************************************)
EXTENDS MongooseCgi, TLAPS

-----------------------------------------------------------------------------
(* The inductive invariant. *)

Places == {"idle", "fork", "fdopen", "forward", "closein", "head", "copy", "done", "answered"}
Scripts == [pc : {"none", "reading", "writing", "exited"}, read : Nat, wrote : Nat]
HolderSets == [Workers -> [Ends -> SUBSET (Workers \cup {Server})]]

HandlerTypes ==
  /\ pc \in [Workers -> Places]
  /\ body \in [Workers -> Nat] /\ out \in [Workers -> Nat]
  /\ fds \in [Workers -> SUBSET Ends] /\ stream \in [Workers -> SUBSET {"inW", "outR"}]
  /\ forwarded \in [Workers -> Nat] /\ taken \in [Workers -> Nat]
  /\ sent \in [Workers -> Nat] /\ cut \in [Workers -> BOOLEAN] /\ answers \in [Workers -> Nat]
  /\ closes \in [Workers -> [Ends -> Nat]]

Types ==
  /\ HandlerTypes
  /\ holders \in HolderSets
  /\ inPipe \in [Workers -> 0..PipeSize] /\ outPipe \in [Workers -> 0..PipeSize]
  /\ child \in [Workers -> Scripts]

\* The descriptors the handler has at each place.
OpenAt(place, open) ==
  /\ place \in {"idle", "answered"} => open = {}
  /\ place = "fork" => open = Ends
  /\ place \in {"fdopen", "forward", "closein"} => open = {"inW", "outR"}
  /\ place \in {"head", "copy"} => open = {"outR"}
  /\ place = "done" => "outW" \notin open

\* The variables of the handler tell which ends the server holds, and those have not
\* been closed yet.
Descriptors(w) ==
  /\ OpenAt(pc[w], fds[w]) /\ stream[w] \subseteq fds[w]
  /\ pc[w] = "idle" => \A e \in Ends : closes[w][e] = 0
  /\ \A e \in Ends : /\ closes[w][e] <= 1
                     /\ e \in fds[w] => closes[w][e] = 0
                     /\ Server \in holders[w][e] <=> e \in fds[w]

\* No byte is in two places or in none.
Counted(w) ==
  /\ sent[w] <= taken[w] /\ taken[w] + outPipe[w] = child[w].wrote
  /\ child[w].read + inPipe[w] = forwarded[w]

Answered(w) ==
  /\ pc[w] \in {"idle", "fork"} => child[w].pc = "none"
  /\ pc[w] \in {"fdopen", "forward", "closein", "head", "copy"} => child[w].pc # "none"
  /\ pc[w] \in {"done", "answered"} => answers[w] = IF ForkFailed(w) THEN 2 ELSE 1
  /\ pc[w] = "copy" => answers[w] = 1
  /\ pc[w] \notin {"copy", "done", "answered"} => answers[w] = 0

\* A script that runs can still write, so an output that has ended is complete.
Delivered(w) ==
  /\ child[w].pc \in {"reading", "writing"} => w \in holders[w]["outW"]
  /\ pc[w] \notin {"copy", "done", "answered"} => sent[w] = 0
  /\ pc[w] \in {"done", "answered"} /\ sent[w] > 0 /\ ~cut[w] =>
       sent[w] = taken[w] /\ outPipe[w] = 0 /\ child[w].pc = "exited"

RequestInv(w) == Descriptors(w) /\ Counted(w) /\ Answered(w) /\ Delivered(w)

IInv == Types /\ \A w \in Workers : RequestInv(w)

-----------------------------------------------------------------------------
(* Who holds what. *)

\* Closing ends takes one process from the holders of these ends and of no others.
LEMMA ClosedHolders ==
  ASSUME NEW h \in HolderSets, NEW w \in Workers, NEW es, NEW process
  PROVE  /\ Closed(h, w, es, process) \in HolderSets
         /\ \A v \in Workers, e \in Ends :
              v # w => Closed(h, w, es, process)[v][e] = h[v][e]
         /\ \A e \in Ends :
              /\ e \in es => Closed(h, w, es, process)[w][e] = h[w][e] \ {process}
              /\ e \notin es => Closed(h, w, es, process)[w][e] = h[w][e]
BY DEF Closed, HolderSets

\* An exit takes a process from all of them.
LEMMA ExitedHolders ==
  ASSUME NEW h \in HolderSets, NEW w
  PROVE  /\ Exited(h, w) \in HolderSets
         /\ \A v \in Workers, e \in Ends : Exited(h, w)[v][e] = h[v][e] \ {w}
BY DEF Exited, HolderSets

\* fork gives the child what the server has, of all requests.
LEMMA InheritedHolders ==
  ASSUME holders \in HolderSets, NEW w \in Workers
  PROVE  /\ Inherited(w) \in HolderSets
         /\ \A v \in Workers, e \in Ends :
              Inherited(w)[v][e] =
                IF Server \in holders[v][e] THEN holders[v][e] \cup {w} ELSE holders[v][e]
BY DEF Inherited, HolderSets

\* Each end that is closed is counted once.
LEMMA CountedCloses ==
  ASSUME closes \in [Workers -> [Ends -> Nat]], NEW w \in Workers, NEW es, CountCloses(w, es)
  PROVE  /\ closes' \in [Workers -> [Ends -> Nat]]
         /\ \A v \in Workers, e \in Ends :
              closes'[v][e] = IF v = w /\ e \in es THEN closes[v][e] + 1 ELSE closes[v][e]
BY DEF CountCloses

\* The copy takes at least a byte, and no more than there is.
LEMMA SomeOf ==
  ASSUME NEW a \in Nat, NEW b \in Int, a > 0, b > 0
  PROVE  Min({a, b}) \in 1..a
<1>1. Min({a, b}) = CHOOSE x \in {a, b} : \A y \in {a, b} : x <= y
  BY DEF Min
<1>2. \E x \in {a, b} : \A y \in {a, b} : x <= y
  <2>1. CASE a <= b
    BY <2>1
  <2>2. CASE b <= a
    BY <2>2
  <2>. QED  BY <2>1, <2>2
<1>3. Min({a, b}) \in {a, b} /\ \A y \in {a, b} : Min({a, b}) <= y
  BY <1>1, <1>2
<1>. QED  BY <1>3

-----------------------------------------------------------------------------
(* Types. *)

\* The first state has the types.
LEMMA TypesInit == Init => Types
BY SizeAssumption DEF Init, Types, HandlerTypes, HolderSets, Places, Scripts, Nobody, NoScript

\* Going to a place keeps the type of pc.
LEMMA GotoType ==
  ASSUME pc \in [Workers -> Places], NEW w \in Workers, NEW to \in Places, Goto(w, to)
  PROVE  pc' \in [Workers -> Places]
BY DEF Goto

\* So does sending an error, which counts one answer more.
LEMMA SendErrorType ==
  ASSUME pc \in [Workers -> Places], answers \in [Workers -> Nat],
         NEW w \in Workers, NEW to \in Places, SendError(w, to)
  PROVE  pc' \in [Workers -> Places] /\ answers' \in [Workers -> Nat]
<1>1. answers' \in [Workers -> Nat]
  BY DEF SendError
<1>. QED  BY <1>1, GotoType DEF SendError

\* Every step keeps them.
LEMMA TypesStep ==
  ASSUME Types, [Next]_vars
  PROVE  Types'
<1>0. /\ pc \in [Workers -> Places]
      /\ body \in [Workers -> Nat] /\ out \in [Workers -> Nat]
      /\ fds \in [Workers -> SUBSET Ends] /\ stream \in [Workers -> SUBSET {"inW", "outR"}]
      /\ forwarded \in [Workers -> Nat] /\ taken \in [Workers -> Nat]
      /\ sent \in [Workers -> Nat] /\ cut \in [Workers -> BOOLEAN] /\ answers \in [Workers -> Nat]
      /\ closes \in [Workers -> [Ends -> Nat]]
      /\ holders \in HolderSets
      /\ inPipe \in [Workers -> 0..PipeSize] /\ outPipe \in [Workers -> 0..PipeSize]
      /\ child \in [Workers -> Scripts]
  BY DEF Types, HandlerTypes
<1>a. "fork" \in Places /\ "fdopen" \in Places /\ "forward" \in Places /\ "closein" \in Places
      /\ "head" \in Places /\ "copy" \in Places /\ "done" \in Places /\ "answered" \in Places
  BY DEF Places
<1>1. ASSUME NEW w \in Workers, MakePipes(w)  PROVE Types'
  <2>1. body' \in [Workers -> Nat] /\ out' \in [Workers -> Nat]
    <3>1. PICK n \in Bodies : body' = [body EXCEPT ![w] = n]
      BY <1>1 DEF MakePipes
    <3>2. PICK m \in OutSizes : out' = [out EXCEPT ![w] = m]
      BY <1>1 DEF MakePipes
    <3>3. n \in Nat /\ m \in Nat
      BY SizeAssumption
    <3>. QED  BY <1>0, <3>1, <3>2, <3>3
  <2>2. PICK made \in {Ends} \cup {{}, {"inR", "inW"}} :
          /\ fds' = [fds EXCEPT ![w] = made]
          /\ holders' = [holders EXCEPT ![w] = [e \in Ends |-> IF e \in made THEN {Server} ELSE {}]]
          /\ IF made = Ends THEN Goto(w, "fork") /\ UNCHANGED answers ELSE SendError(w, "done")
    BY <1>1 DEF MakePipes
  <2>3. fds' \in [Workers -> SUBSET Ends] /\ holders' \in HolderSets
    BY <1>0, <2>2 DEF Ends, HolderSets
  <2>4. pc' \in [Workers -> Places] /\ answers' \in [Workers -> Nat]
    BY <1>0, <1>a, <2>2, GotoType, SendErrorType
  <2>. QED  BY <1>0, <1>1, <2>1, <2>3, <2>4 DEF MakePipes, Types, HandlerTypes
<1>2. ASSUME NEW w \in Workers, Fork(w) \/ ForkFails(w)  PROVE Types'
  <2>1. holders' \in HolderSets
    BY <1>0, <1>2, ClosedHolders, InheritedHolders DEF Fork, ForkFails
  <2>2. closes' \in [Workers -> [Ends -> Nat]]
    BY <1>0, <1>2, CountedCloses DEF Fork, ForkFails
  <2>3. child' \in [Workers -> Scripts]
    <3>1. CASE Fork(w)
      BY <1>0, <3>1 DEF Fork, Scripts
    <3>2. CASE ForkFails(w)
      BY <1>0, <3>2 DEF ForkFails
    <3>. QED  BY <1>2, <3>1, <3>2
  <2>4. pc' \in [Workers -> Places]
    BY <1>0, <1>a, <1>2, GotoType DEF Fork, ForkFails
  <2>5. fds' \in [Workers -> SUBSET Ends] /\ answers' \in [Workers -> Nat]
    <3>1. /\ fds' = [fds EXCEPT ![w] = @ \ {"inR", "outW"}]
          /\ answers' = answers \/ answers' = [answers EXCEPT ![w] = @ + 2]
      BY <1>2 DEF Fork, ForkFails
    <3>. QED  BY <1>0, <3>1
  <2>. QED  BY <1>0, <1>2, <2>1, <2>2, <2>3, <2>4, <2>5 DEF Fork, ForkFails, Types, HandlerTypes
<1>3. ASSUME NEW w \in Workers, FdOpen(w)  PROVE Types'
  <2>1. PICK made \in {{"inW", "outR"}} \cup {{}, {"inW"}} :
          /\ stream' = [stream EXCEPT ![w] = made]
          /\ IF made = {"inW", "outR"}
             THEN Goto(w, IF body[w] > 0 THEN "forward" ELSE "closein") /\ UNCHANGED answers
             ELSE SendError(w, "done")
    BY <1>3 DEF FdOpen
  <2>2. stream' \in [Workers -> SUBSET {"inW", "outR"}]
    BY <1>0, <2>1
  <2>3. pc' \in [Workers -> Places] /\ answers' \in [Workers -> Nat]
    BY <1>0, <1>a, <2>1, GotoType, SendErrorType
  <2>. QED  BY <1>0, <1>3, <2>2, <2>3 DEF FdOpen, Types, HandlerTypes
<1>4. ASSUME NEW w \in Workers, ForwardBody(w)  PROVE Types'
  <2>1. inPipe' \in [Workers -> 0..PipeSize] /\ forwarded' \in [Workers -> Nat]
    BY <1>0, <1>4, SizeAssumption DEF ForwardBody
  <2>2. pc' \in [Workers -> Places]
    BY <1>0, <1>a, <1>4, GotoType DEF ForwardBody
  <2>. QED  BY <1>0, <1>4, <2>1, <2>2 DEF ForwardBody, Types, HandlerTypes
<1>5. ASSUME NEW w \in Workers, ForwardFails(w) \/ HeadFails(w)  PROVE Types'
  <2>1. pc' \in [Workers -> Places] /\ answers' \in [Workers -> Nat]
    BY <1>0, <1>a, <1>5, SendErrorType DEF ForwardFails, HeadFails
  <2>. QED  BY <1>0, <1>5, <2>1 DEF ForwardFails, HeadFails, Types, HandlerTypes
<1>6. ASSUME NEW w \in Workers, CloseIn(w)  PROVE Types'
  <2>1. holders' \in HolderSets
    BY <1>0, <1>6, ClosedHolders DEF CloseIn
  <2>2. closes' \in [Workers -> [Ends -> Nat]]
    BY <1>0, <1>6, CountedCloses DEF CloseIn
  <2>3. pc' \in [Workers -> Places]
    BY <1>0, <1>a, <1>6, GotoType DEF CloseIn
  <2>4. fds' \in [Workers -> SUBSET Ends] /\ stream' \in [Workers -> SUBSET {"inW", "outR"}]
    BY <1>0, <1>6 DEF CloseIn
  <2>. QED  BY <1>0, <1>6, <2>1, <2>2, <2>3, <2>4 DEF CloseIn, Types, HandlerTypes
<1>7. ASSUME NEW w \in Workers, ReadHead(w)  PROVE Types'
  <2>1. outPipe' \in [Workers -> 0..PipeSize] /\ taken' \in [Workers -> Nat]
    BY <1>0, <1>7, SizeAssumption DEF ReadHead
  <2>2. pc' \in [Workers -> Places] /\ answers' \in [Workers -> Nat]
    BY <1>0, <1>a, <1>7, SendErrorType DEF ReadHead
  <2>3. sent' \in [Workers -> Nat] /\ cut' \in [Workers -> BOOLEAN]
    <3>1. sent' \in [Workers -> Nat]
      BY <1>0, <1>7, <2>1 DEF ReadHead
    <3>2. cut' = cut \/ \E fails \in BOOLEAN : cut' = [cut EXCEPT ![w] = fails]
      BY <1>7 DEF ReadHead, Failures
    <3>. QED  BY <1>0, <3>1, <3>2
  <2>. QED  BY <1>0, <1>7, <2>1, <2>2, <2>3 DEF ReadHead, Types, HandlerTypes
<1>8. ASSUME NEW w \in Workers, CopyRead(w)  PROVE Types'
  <2>. DEFINE n == Min({outPipe[w], ChunkSize - (taken[w] - sent[w])})
  <2>1. /\ outPipe[w] \in 0..PipeSize /\ taken[w] \in Nat /\ sent[w] \in Nat
        /\ outPipe[w] > 0 /\ taken[w] - sent[w] < ChunkSize
    BY <1>0, <1>8 DEF CopyRead
  <2>2. outPipe[w] \in Nat /\ ChunkSize - (taken[w] - sent[w]) \in Int /\ ChunkSize - (taken[w] - sent[w]) > 0
    BY <2>1, SizeAssumption
  <2>3. n \in 1..outPipe[w]
    BY <2>1, <2>2, SomeOf
  <2>4. outPipe' = [outPipe EXCEPT ![w] = @ - n] /\ taken' = [taken EXCEPT ![w] = @ + n]
    BY <1>8 DEF CopyRead
  <2>. HIDE DEF n
  <2>5. outPipe' \in [Workers -> 0..PipeSize] /\ taken' \in [Workers -> Nat]
    BY <1>0, <2>1, <2>3, <2>4, SizeAssumption
  <2>. QED  BY <1>0, <1>8, <2>5 DEF CopyRead, Types, HandlerTypes
<1>9. ASSUME NEW w \in Workers, CopySend(w) \/ CopyFails(w) \/ CopyEnds(w)  PROVE Types'
  <2>1. pc' \in [Workers -> Places]
    BY <1>0, <1>a, <1>9, GotoType DEF CopySend, CopyFails, CopyEnds
  <2>2. sent' \in [Workers -> Nat] /\ cut' \in [Workers -> BOOLEAN]
    BY <1>0, <1>9 DEF CopySend, CopyFails, CopyEnds
  <2>. QED  BY <1>0, <1>9, <2>1, <2>2 DEF CopySend, CopyFails, CopyEnds, Types, HandlerTypes
<1>10. ASSUME NEW w \in Workers, Done(w)  PROVE Types'
  <2>1. holders' \in HolderSets
    BY <1>0, <1>10, ClosedHolders, ExitedHolders DEF Done
  <2>2. closes' \in [Workers -> [Ends -> Nat]]
    BY <1>0, <1>10, CountedCloses DEF Done
  <2>3. child' \in [Workers -> Scripts]
    <3>1. child' = [child EXCEPT ![w].pc = IF child[w].pc = "none" THEN "none" ELSE "exited"]
      BY <1>0, <1>10 DEF Done
    <3>. QED  BY <1>0, <3>1, ZenonT(60) DEF Scripts
  <2>4. pc' \in [Workers -> Places]
    BY <1>0, <1>a, <1>10, GotoType DEF Done
  <2>5. fds' \in [Workers -> SUBSET Ends] /\ stream' \in [Workers -> SUBSET {"inW", "outR"}]
    BY <1>0, <1>10 DEF Done
  <2>. QED  BY <1>0, <1>10, <2>1, <2>2, <2>3, <2>4, <2>5 DEF Done, Types, HandlerTypes
<1>11. ASSUME NEW w \in Workers, ScriptStep(w)  PROVE Types'
  <2>1. inPipe' \in [Workers -> 0..PipeSize] /\ outPipe' \in [Workers -> 0..PipeSize]
    <3>1. inPipe[w] \in 0..PipeSize /\ outPipe[w] \in 0..PipeSize
      BY <1>0
    <3>2. CASE ScriptReads(w)
      <4>1. inPipe[w] - 1 \in 0..PipeSize
        BY <3>1, <3>2, SizeAssumption DEF ScriptReads
      <4>. QED  BY <1>0, <3>2, <4>1 DEF ScriptReads
    <3>3. CASE ScriptHasRead(w)
      BY <1>0, <3>3 DEF ScriptHasRead
    <3>4. CASE ScriptWrites(w)
      <4>1. outPipe[w] + 1 \in 0..PipeSize
        BY <3>1, <3>4, SizeAssumption DEF ScriptWrites
      <4>. QED  BY <1>0, <3>4, <4>1 DEF ScriptWrites
    <3>. QED  BY <1>11, <3>2, <3>3, <3>4 DEF ScriptStep
  <2>2. child' \in [Workers -> Scripts]
    <3>1. CASE ScriptReads(w)
      <4>. DEFINE one == [child[w] EXCEPT !.read = child[w].read + 1]
      <4>1. child' = [child EXCEPT ![w] = one]
        BY <1>0, <3>1 DEF ScriptReads
      <4>2. child[w] \in Scripts
        BY <1>0
      <4>3. child[w].read + 1 \in Nat
        BY <4>2 DEF Scripts
      <4>4. one \in Scripts
        BY <4>2, <4>3 DEF Scripts
      <4>. HIDE DEF one
      <4>. QED  BY <1>0, <4>1, <4>4
    <3>2. CASE ScriptHasRead(w)
      BY <1>0, <3>2 DEF ScriptHasRead, Scripts
    <3>3. CASE ScriptWrites(w)
      <4>. DEFINE one == [child[w] EXCEPT !.wrote = child[w].wrote + 1]
      <4>1. child' = [child EXCEPT ![w] = one]
        BY <1>0, <3>3 DEF ScriptWrites
      <4>2. child[w] \in Scripts
        BY <1>0
      <4>3. child[w].wrote + 1 \in Nat
        BY <4>2 DEF Scripts
      <4>4. one \in Scripts
        BY <4>2, <4>3 DEF Scripts
      <4>. HIDE DEF one
      <4>. QED  BY <1>0, <4>1, <4>4
    <3>. QED  BY <1>11, <3>1, <3>2, <3>3 DEF ScriptStep
  <2>3. UNCHANGED <<handler, holders>>
    BY <1>11 DEF ScriptStep, ScriptReads, ScriptHasRead, ScriptWrites
  <2>. QED  BY <1>0, <2>1, <2>2, <2>3 DEF handler, Types, HandlerTypes
<1>12. ASSUME NEW w \in Workers, ScriptExits(w)  PROVE Types'
  <2>1. holders' \in HolderSets /\ child' \in [Workers -> Scripts]
    BY <1>0, <1>12, ExitedHolders, ZenonT(60) DEF ScriptExits, Scripts
  <2>. QED  BY <1>0, <1>12, <2>1 DEF ScriptExits, handler, Types, HandlerTypes
<1>13. CASE UNCHANGED vars
  BY <1>0, <1>13 DEF vars, handler, Types, HandlerTypes
<1>. QED
  BY <1>1, <1>2, <1>3, <1>4, <1>5, <1>6, <1>7, <1>8, <1>9, <1>10, <1>11, <1>12, <1>13
  DEF Next, ServerStep
-----------------------------------------------------------------------------
(* The requests. *)

\* All that RequestInv( w) reads but the holders.
State(w) ==
  <<pc[w], fds[w], stream[w], forwarded[w], taken[w], sent[w], cut[w], answers[w], closes[w],
    inPipe[w], outPipe[w], child[w]>>

\* A request depends on its own state, on what the server holds, and on its script.
LEMMA RequestFrame ==
  ASSUME NEW w \in Workers, RequestInv(w), State(w)' = State(w),
         \A e \in Ends : Server \in holders'[w][e] <=> Server \in holders[w][e],
         w \in holders[w]["outW"] => w \in holders'[w]["outW"]
  PROVE  RequestInv(w)'
<1>1. /\ pc'[w] = pc[w] /\ fds'[w] = fds[w] /\ stream'[w] = stream[w]
      /\ forwarded'[w] = forwarded[w] /\ taken'[w] = taken[w] /\ sent'[w] = sent[w] /\ cut'[w] = cut[w]
      /\ answers'[w] = answers[w] /\ closes'[w] = closes[w]
      /\ inPipe'[w] = inPipe[w] /\ outPipe'[w] = outPipe[w] /\ child'[w] = child[w]
  BY DEF State
<1>2. Descriptors(w)'
  BY <1>1 DEF RequestInv, Descriptors
<1>3. Counted(w)'
  BY <1>1 DEF RequestInv, Counted
<1>4. Answered(w)'
  BY <1>1 DEF RequestInv, Answered, ForkFailed
<1>5. Delivered(w)'
  BY <1>1 DEF RequestInv, Delivered
<1>. QED  BY <1>2, <1>3, <1>4, <1>5 DEF RequestInv

\* No step of one request touches another, but for the ends that a child inherits and
\* gives up when it exits.
LEMMA OthersKeep ==
  ASSUME Types, NEW v \in Workers, NEW w \in Workers, w # v,
         MakePipes(v) \/ ServerStep(v) \/ ScriptStep(v) \/ ScriptExits(v)
  PROVE  /\ State(w)' = State(w)
         /\ \A e \in Ends : /\ Server \in holders'[w][e] <=> Server \in holders[w][e]
                            /\ w \in holders[w][e] => w \in holders'[w][e]
<1>0. /\ DOMAIN pc = Workers /\ DOMAIN fds = Workers /\ DOMAIN stream = Workers
      /\ DOMAIN forwarded = Workers /\ DOMAIN taken = Workers /\ DOMAIN sent = Workers /\ DOMAIN cut = Workers
      /\ DOMAIN answers = Workers /\ DOMAIN closes = Workers /\ DOMAIN inPipe = Workers
      /\ DOMAIN outPipe = Workers /\ DOMAIN child = Workers /\ holders \in HolderSets
      /\ v # Server
  BY ProcessAssumption DEF Types, HandlerTypes
<1>a. ASSUME NEW h \in HolderSets, NEW es, NEW e \in Ends
      PROVE  Closed(h, v, es, Server)[w][e] = h[w][e]
  BY ClosedHolders
<1>1. CASE MakePipes(v)
  BY <1>0, <1>1 DEF MakePipes, Goto, SendError, State, HolderSets
<1>2. CASE Fork(v) \/ ForkFails(v)
  <2>1. State(w)' = State(w)
    BY <1>0, <1>2 DEF Fork, ForkFails, Goto, CountCloses, State
  <2>2. \A e \in Ends : holders'[w][e] = holders[w][e] \/ holders'[w][e] = holders[w][e] \cup {v}
    <3>1. \A e \in Ends :
            \/ Inherited(v)[w][e] = holders[w][e]
            \/ Inherited(v)[w][e] = holders[w][e] \cup {v}
      BY <1>0, InheritedHolders, ZenonT(60)
    <3>2. Inherited(v) \in HolderSets
      BY <1>0, InheritedHolders
    <3>3. \/ holders' = Closed(Inherited(v), v, {"inR", "outW"}, Server)
          \/ holders' = Closed(holders, v, {"inR", "outW"}, Server)
      BY <1>2 DEF Fork, ForkFails
    <3>. QED  BY <1>0, <1>a, <3>1, <3>2, <3>3
  <2>. QED  BY <1>0, <2>1, <2>2
<1>3. CASE FdOpen(v) \/ ForwardFails(v) \/ HeadFails(v) \/ CopySend(v) \/ CopyFails(v) \/ CopyEnds(v)
  BY <1>0, <1>3 DEF FdOpen, ForwardFails, HeadFails, CopySend, CopyFails, CopyEnds, Goto, SendError, State
<1>4. CASE ForwardBody(v) \/ ReadHead(v) \/ CopyRead(v)
  BY <1>0, <1>4 DEF ForwardBody, ReadHead, CopyRead, Goto, SendError, State
<1>5. CASE CloseIn(v)
  <2>1. State(w)' = State(w)
    BY <1>0, <1>5 DEF CloseIn, Goto, CountCloses, State
  <2>2. \A e \in Ends : holders'[w][e] = holders[w][e]
    BY <1>0, <1>a, <1>5 DEF CloseIn
  <2>. QED  BY <2>1, <2>2
<1>6. CASE Done(v)
  <2>1. State(w)' = State(w)
    BY <1>0, <1>6 DEF Done, Goto, CountCloses, State
  <2>2. \A e \in Ends : holders'[w][e] = holders[w][e] \ {v}
    <3>1. Closed(holders, v, Left(v), Server) \in HolderSets
      BY <1>0, ClosedHolders
    <3>2. \A e \in Ends : holders'[w][e] = Closed(holders, v, Left(v), Server)[w][e] \ {v}
      BY <1>6, <3>1, ExitedHolders DEF Done
    <3>. QED  BY <1>0, <1>a, <3>2
  <2>. QED  BY <1>0, <2>1, <2>2
<1>7. CASE ScriptStep(v)
  BY <1>0, <1>7 DEF ScriptStep, ScriptReads, ScriptHasRead, ScriptWrites, State, handler
<1>8. CASE ScriptExits(v)
  <2>1. State(w)' = State(w)
    BY <1>0, <1>8 DEF ScriptExits, State, handler
  <2>2. \A e \in Ends : holders'[w][e] = holders[w][e] \ {v}
    BY <1>0, <1>8, ExitedHolders DEF ScriptExits
  <2>. QED  BY <1>0, <2>1, <2>2
<1>. QED  BY <1>1, <1>2, <1>3, <1>4, <1>5, <1>6, <1>7, <1>8 DEF ServerStep

\* The first state.
LEMMA RequestInit == Init => \A w \in Workers : RequestInv(w)
BY DEF Init, RequestInv, Descriptors, OpenAt, Counted, Answered, ForkFailed, Delivered,
       Nobody, NoScript, Ends

\* Every step keeps what holds of its own request: one case for each action.
LEMMA OwnStep ==
  ASSUME Types, Types', NEW w \in Workers, RequestInv(w),
         MakePipes(w) \/ ServerStep(w) \/ ScriptStep(w) \/ ScriptExits(w)
  PROVE  RequestInv(w)'
<1>0. /\ pc \in [Workers -> Places]
      /\ fds \in [Workers -> SUBSET Ends] /\ stream \in [Workers -> SUBSET {"inW", "outR"}]
      /\ forwarded \in [Workers -> Nat] /\ taken \in [Workers -> Nat]
      /\ sent \in [Workers -> Nat] /\ cut \in [Workers -> BOOLEAN] /\ answers \in [Workers -> Nat]
      /\ closes \in [Workers -> [Ends -> Nat]]
      /\ holders \in HolderSets
      /\ inPipe \in [Workers -> Nat] /\ outPipe \in [Workers -> Nat]
      /\ child \in [Workers -> Scripts]
      /\ w # Server
  BY SizeAssumption, ProcessAssumption DEF Types, HandlerTypes
<1>a. Descriptors(w) /\ Counted(w) /\ Answered(w) /\ Delivered(w)
  BY DEF RequestInv
<1>b. ASSUME NEW h \in HolderSets, NEW es, NEW e \in Ends
      PROVE  /\ e \in es => Closed(h, w, es, Server)[w][e] = h[w][e] \ {Server}
             /\ e \notin es => Closed(h, w, es, Server)[w][e] = h[w][e]
  BY ClosedHolders
<1>1. CASE MakePipes(w)
  <2>1. PICK made \in {Ends} \cup {{}, {"inR", "inW"}} :
          /\ fds' = [fds EXCEPT ![w] = made]
          /\ holders' = [holders EXCEPT ![w] = [e \in Ends |-> IF e \in made THEN {Server} ELSE {}]]
          /\ IF made = Ends THEN Goto(w, "fork") /\ UNCHANGED answers ELSE SendError(w, "done")
    BY <1>1 DEF MakePipes
  <2>2. /\ pc[w] = "idle" /\ fds'[w] = made
        /\ \A e \in Ends : holders'[w][e] = IF e \in made THEN {Server} ELSE {}
        /\ IF made = Ends THEN pc'[w] = "fork" /\ answers'[w] = answers[w]
           ELSE pc'[w] = "done" /\ answers'[w] = answers[w] + 1
        /\ UNCHANGED <<stream, forwarded, taken, sent, cut, closes, inPipe, outPipe, child>>
    BY <1>0, <1>1, <2>1 DEF MakePipes, Goto, SendError, HolderSets
  <2>3. Descriptors(w)'
    BY <1>0, <1>a, <2>1, <2>2 DEF Descriptors, OpenAt, Ends
  <2>4. Counted(w)' /\ Answered(w)' /\ Delivered(w)'
    BY <1>0, <1>a, <2>1, <2>2 DEF Counted, Answered, Delivered, Descriptors, OpenAt, ForkFailed, Ends
  <2>. QED  BY <2>3, <2>4 DEF RequestInv
<1>2. CASE Fork(w)
  <2>1. /\ pc[w] = "fork" /\ pc'[w] = "fdopen" /\ fds'[w] = fds[w] \ {"inR", "outW"}
        /\ child'[w] = [child[w] EXCEPT !.pc = "reading"]
        /\ UNCHANGED <<answers, stream, forwarded, taken, sent, cut, inPipe, outPipe>>
    BY <1>0, <1>2 DEF Fork, Goto
  <2>2. \A e \in Ends : closes'[w][e] = IF e \in {"inR", "outW"} THEN closes[w][e] + 1 ELSE closes[w][e]
    BY <1>0, <1>2, CountedCloses DEF Fork
  <2>3. fds[w] = Ends /\ \A e \in Ends : Server \in holders[w][e]
    BY <1>a, <2>1 DEF Descriptors, OpenAt
  <2>4. \A e \in Ends :
          /\ e \in {"inR", "outW"} => holders'[w][e] = (holders[w][e] \cup {w}) \ {Server}
          /\ e \notin {"inR", "outW"} => holders'[w][e] = holders[w][e] \cup {w}
    <3>1. Inherited(w) \in HolderSets /\ \A e \in Ends : Inherited(w)[w][e] = holders[w][e] \cup {w}
      BY <1>0, <2>3, InheritedHolders
    <3>2. holders' = Closed(Inherited(w), w, {"inR", "outW"}, Server)
      BY <1>2 DEF Fork
    <3>. QED  BY <1>b, <3>1, <3>2
  <2>5. Descriptors(w)'
    BY <1>0, <1>a, <2>1, <2>2, <2>3, <2>4 DEF Descriptors, OpenAt, Ends
  <2>6. Counted(w)' /\ Answered(w)' /\ Delivered(w)'
    BY <1>0, <1>a, <2>1, <2>4 DEF Counted, Answered, Delivered, Ends, Scripts
  <2>. QED  BY <2>5, <2>6 DEF RequestInv
<1>3. CASE ForkFails(w)
  <2>1. /\ pc[w] = "fork" /\ pc'[w] = "done" /\ fds'[w] = fds[w] \ {"inR", "outW"}
        /\ answers'[w] = answers[w] + 2
        /\ UNCHANGED <<child, stream, forwarded, taken, sent, cut, inPipe, outPipe>>
    BY <1>0, <1>3 DEF ForkFails, Goto
  <2>2. \A e \in Ends : closes'[w][e] = IF e \in {"inR", "outW"} THEN closes[w][e] + 1 ELSE closes[w][e]
    BY <1>0, <1>3, CountedCloses DEF ForkFails
  <2>3. fds[w] = Ends /\ \A e \in Ends : Server \in holders[w][e]
    BY <1>a, <2>1 DEF Descriptors, OpenAt
  <2>4. \A e \in Ends :
          /\ e \in {"inR", "outW"} => holders'[w][e] = holders[w][e] \ {Server}
          /\ e \notin {"inR", "outW"} => holders'[w][e] = holders[w][e]
    <3>1. holders' = Closed(holders, w, {"inR", "outW"}, Server)
      BY <1>3 DEF ForkFails
    <3>. QED  BY <1>0, <1>b, <3>1
  <2>5. Descriptors(w)'
    BY <1>0, <1>a, <2>1, <2>2, <2>3, <2>4 DEF Descriptors, OpenAt, Ends
  <2>6. closes'[w]["outW"] = 1
    BY <1>a, <2>2, <2>3 DEF Descriptors, Ends
  <2>7. Counted(w)' /\ Answered(w)' /\ Delivered(w)'
    BY <1>0, <1>a, <2>1, <2>6 DEF Counted, Answered, Delivered, ForkFailed
  <2>. QED  BY <2>5, <2>7 DEF RequestInv
<1>4. CASE FdOpen(w)
  <2>1. PICK made \in {{"inW", "outR"}} \cup {{}, {"inW"}} :
          /\ stream' = [stream EXCEPT ![w] = made]
          /\ IF made = {"inW", "outR"}
             THEN Goto(w, IF body[w] > 0 THEN "forward" ELSE "closein") /\ UNCHANGED answers
             ELSE SendError(w, "done")
    BY <1>4 DEF FdOpen
  <2>2. /\ pc[w] = "fdopen" /\ stream'[w] = made
        /\ \/ pc'[w] \in {"forward", "closein"} /\ answers'[w] = answers[w]
           \/ pc'[w] = "done" /\ answers'[w] = answers[w] + 1
        /\ UNCHANGED <<fds, forwarded, taken, sent, cut, closes, holders, inPipe, outPipe, child>>
    BY <1>0, <1>4, <2>1 DEF FdOpen, Goto, SendError
  <2>3. Descriptors(w)'
    BY <1>0, <1>a, <2>1, <2>2 DEF Descriptors, OpenAt
  <2>4. Counted(w)' /\ Answered(w)' /\ Delivered(w)'
    BY <1>0, <1>a, <2>2 DEF Counted, Answered, Delivered, ForkFailed
  <2>. QED  BY <2>3, <2>4 DEF RequestInv
<1>5. CASE ForwardBody(w)
  <2>1. /\ pc[w] = "forward" /\ pc'[w] \in {"forward", "closein"}
        /\ inPipe'[w] = inPipe[w] + 1 /\ forwarded'[w] = forwarded[w] + 1
        /\ UNCHANGED <<fds, stream, taken, sent, cut, answers, closes, holders, outPipe, child>>
    BY <1>0, <1>5 DEF ForwardBody, Goto
  <2>2. Descriptors(w)'
    BY <1>0, <1>a, <2>1 DEF Descriptors, OpenAt
  <2>3. Counted(w)'
    BY <1>0, <1>a, <2>1 DEF Counted, Scripts
  <2>4. Answered(w)' /\ Delivered(w)'
    BY <1>0, <1>a, <2>1 DEF Answered, Delivered, ForkFailed
  <2>. QED  BY <2>2, <2>3, <2>4 DEF RequestInv
<1>6. CASE ForwardFails(w) \/ HeadFails(w)
  <2>1. /\ pc[w] \in {"forward", "head"} /\ pc'[w] = "done" /\ answers'[w] = answers[w] + 1
        /\ UNCHANGED <<fds, stream, forwarded, taken, sent, cut, closes, holders, inPipe, outPipe, child>>
    BY <1>0, <1>6 DEF ForwardFails, HeadFails, Goto, SendError
  <2>2. Descriptors(w)'
    BY <1>0, <1>a, <2>1 DEF Descriptors, OpenAt
  <2>3. Counted(w)' /\ Answered(w)' /\ Delivered(w)'
    BY <1>0, <1>a, <2>1 DEF Counted, Answered, Delivered, ForkFailed
  <2>. QED  BY <2>2, <2>3 DEF RequestInv
<1>7. CASE CloseIn(w)
  <2>1. /\ pc[w] = "closein" /\ pc'[w] = "head" /\ fds'[w] = fds[w] \ {"inW"}
        /\ stream'[w] = stream[w] \ {"inW"}
        /\ UNCHANGED <<forwarded, taken, sent, cut, answers, inPipe, outPipe, child>>
    BY <1>0, <1>7 DEF CloseIn, Goto
  <2>2. \A e \in Ends : closes'[w][e] = IF e \in {"inW"} THEN closes[w][e] + 1 ELSE closes[w][e]
    BY <1>0, <1>7, CountedCloses DEF CloseIn
  <2>3. \A e \in Ends :
          /\ e \in {"inW"} => holders'[w][e] = holders[w][e] \ {Server}
          /\ e \notin {"inW"} => holders'[w][e] = holders[w][e]
    BY <1>0, <1>b, <1>7, SMTT(40) DEF CloseIn
  <2>4. fds[w] = {"inW", "outR"}
    BY <1>a, <2>1 DEF Descriptors, OpenAt
  <2>5. Descriptors(w)'
    BY <1>0, <1>a, <2>1, <2>2, <2>3, <2>4 DEF Descriptors, OpenAt, Ends
  <2>6. Counted(w)' /\ Answered(w)'
    BY <1>0, <1>a, <2>1 DEF Counted, Answered
  <2>7. Delivered(w)'
    BY <1>0, <1>a, <2>1, <2>3 DEF Delivered, Ends
  <2>. QED  BY <2>5, <2>6, <2>7 DEF RequestInv
<1>8. CASE ReadHead(w)
  <2>1. /\ pc[w] = "head" /\ outPipe'[w] = 0 /\ taken'[w] = taken[w] + outPipe[w]
        /\ \/ pc'[w] = "copy" /\ answers'[w] = answers[w] + 1 /\ sent'[w] = taken'[w]
           \/ UNCHANGED <<pc, answers, sent, cut>>
        /\ UNCHANGED <<fds, stream, forwarded, closes, holders, inPipe, child>>
    BY <1>0, <1>8 DEF ReadHead, Goto, SendError
  <2>2. Descriptors(w)'
    BY <1>0, <1>a, <2>1 DEF Descriptors, OpenAt
  <2>3. Counted(w)'
    BY <1>0, <1>a, <2>1 DEF Counted, Scripts
  <2>4. Answered(w)' /\ Delivered(w)'
    BY <1>0, <1>a, <2>1 DEF Answered, Delivered
  <2>. QED  BY <2>2, <2>3, <2>4 DEF RequestInv
<1>9. CASE CopyRead(w)
  <2>. DEFINE n == Min({outPipe[w], ChunkSize - (taken[w] - sent[w])})
  <2>1. /\ outPipe[w] \in Nat /\ taken[w] \in Nat /\ sent[w] \in Nat
        /\ outPipe[w] > 0 /\ taken[w] - sent[w] < ChunkSize
    BY <1>0, <1>9 DEF CopyRead
  <2>2. n \in 1..outPipe[w]
    BY <2>1, SomeOf, SizeAssumption
  <2>3. /\ pc[w] = "copy" /\ outPipe'[w] = outPipe[w] - n /\ taken'[w] = taken[w] + n
        /\ UNCHANGED <<pc, fds, stream, forwarded, sent, cut, answers, closes, holders, inPipe, child>>
    BY <1>0, <1>9 DEF CopyRead
  <2>. HIDE DEF n
  <2>4. Descriptors(w)' /\ Answered(w)' /\ Delivered(w)'
    BY <1>a, <2>3 DEF Descriptors, Answered, Delivered, ForkFailed
  <2>5. Counted(w)'
    BY <1>0, <1>a, <2>2, <2>3 DEF Counted, Scripts
  <2>. QED  BY <2>4, <2>5 DEF RequestInv
<1>17. CASE CopyFails(w)
  <2>1. /\ pc[w] = "copy" /\ pc'[w] = "done" /\ cut'[w] = TRUE
        /\ UNCHANGED <<fds, stream, forwarded, taken, sent, answers, closes, holders, inPipe, outPipe, child>>
    BY <1>0, <1>17 DEF CopyFails, ChunkRead, Goto
  <2>2. Descriptors(w)'
    BY <1>0, <1>a, <2>1 DEF Descriptors, OpenAt
  <2>3. Counted(w)' /\ Answered(w)' /\ Delivered(w)'
    BY <1>0, <1>a, <2>1 DEF Counted, Answered, Delivered, ForkFailed
  <2>. QED  BY <2>2, <2>3 DEF RequestInv
<1>10. CASE CopySend(w)
  <2>1. /\ pc[w] = "copy" /\ sent'[w] = taken[w]
        /\ UNCHANGED <<pc, cut, fds, stream, forwarded, taken, answers, closes, holders, inPipe, outPipe, child>>
    BY <1>0, <1>10 DEF CopySend, ChunkRead
  <2>2. Descriptors(w)' /\ Answered(w)' /\ Delivered(w)'
    BY <1>a, <2>1 DEF Descriptors, Answered, Delivered, ForkFailed
  <2>3. Counted(w)'
    BY <1>0, <1>a, <2>1 DEF Counted
  <2>. QED  BY <2>2, <2>3 DEF RequestInv
<1>11. CASE CopyEnds(w)
  <2>1. /\ pc[w] = "copy" /\ pc'[w] = "done" /\ taken[w] = sent[w] /\ OutEnds(w)
        /\ UNCHANGED <<fds, stream, forwarded, taken, sent, cut, answers, closes, holders, inPipe, outPipe, child>>
    BY <1>0, <1>11 DEF CopyEnds, Goto
  <2>2. outPipe[w] = 0 /\ child[w].pc = "exited"
    BY <1>0, <1>a, <2>1 DEF OutEnds, Delivered, Answered, Scripts
  <2>3. Descriptors(w)'
    BY <1>0, <1>a, <2>1 DEF Descriptors, OpenAt
  <2>4. Counted(w)' /\ Answered(w)' /\ Delivered(w)'
    BY <1>0, <1>a, <2>1, <2>2 DEF Counted, Answered, Delivered, ForkFailed
  <2>. QED  BY <2>3, <2>4 DEF RequestInv
<1>12. CASE Done(w)
  <2>1. /\ pc[w] = "done" /\ pc'[w] = "answered" /\ fds'[w] = {} /\ stream'[w] = {}
        /\ child'[w] = [child[w] EXCEPT !.pc = IF child[w].pc = "none" THEN "none" ELSE "exited"]
        /\ UNCHANGED <<forwarded, taken, sent, cut, answers, inPipe, outPipe>>
    BY <1>0, <1>12 DEF Done, Goto
  <2>2. Left(w) = fds[w] /\ "outW" \notin fds[w]
    BY <1>a, <2>1 DEF Left, Descriptors, OpenAt
  <2>3. \A e \in Ends : closes'[w][e] = IF e \in fds[w] THEN closes[w][e] + 1 ELSE closes[w][e]
    BY <1>0, <1>12, <2>2, CountedCloses DEF Done
  <2>4. \A e \in Ends :
          /\ e \in fds[w] => holders'[w][e] = (holders[w][e] \ {Server}) \ {w}
          /\ e \notin fds[w] => holders'[w][e] = holders[w][e] \ {w}
    <3>1. Closed(holders, w, Left(w), Server) \in HolderSets
      BY <1>0, ClosedHolders
    <3>2. \A e \in Ends : holders'[w][e] = Closed(holders, w, Left(w), Server)[w][e] \ {w}
      BY <1>12, <3>1, ExitedHolders DEF Done
    <3>3. \A e \in Ends :
            /\ e \in fds[w] => Closed(holders, w, Left(w), Server)[w][e] = holders[w][e] \ {Server}
            /\ e \notin fds[w] => Closed(holders, w, Left(w), Server)[w][e] = holders[w][e]
      BY <1>0, <1>b, <2>2
    <3>. QED  BY <3>2, <3>3
  <2>5. Descriptors(w)'
    BY <1>0, <1>a, <2>1, <2>3, <2>4 DEF Descriptors, OpenAt
  <2>6. Counted(w)'
    BY <1>0, <1>a, <2>1 DEF Counted, Scripts
  <2>7. closes'[w]["outW"] = closes[w]["outW"]
    BY <2>2, <2>3 DEF Ends
  <2>8. child'[w].pc = IF child[w].pc = "none" THEN "none" ELSE "exited"
    BY <1>0, <2>1 DEF Scripts
  <2>9. Answered(w)' /\ Delivered(w)'
    BY <1>0, <1>a, <2>1, <2>7, <2>8 DEF Answered, Delivered, ForkFailed
  <2>. QED  BY <2>5, <2>6, <2>9 DEF RequestInv
<1>13. CASE ScriptReads(w)
  <2>1. /\ inPipe'[w] = inPipe[w] - 1 /\ child'[w] = [child[w] EXCEPT !.read = @ + 1]
        /\ UNCHANGED <<pc, fds, stream, forwarded, taken, sent, cut, answers, closes, holders, outPipe>>
    BY <1>0, <1>13 DEF ScriptReads, handler
  <2>2. /\ child'[w].pc = child[w].pc /\ child'[w].read = child[w].read + 1
        /\ child'[w].wrote = child[w].wrote
    BY <1>0, <2>1 DEF Scripts
  <2>3. Descriptors(w)' /\ Answered(w)' /\ Delivered(w)'
    BY <1>a, <2>1, <2>2 DEF Descriptors, Answered, Delivered, ForkFailed
  <2>4. Counted(w)'
    BY <1>0, <1>a, <2>1, <2>2 DEF Counted, Scripts
  <2>. QED  BY <2>3, <2>4 DEF RequestInv
<1>14. CASE ScriptHasRead(w)
  <2>1. /\ child[w].pc = "reading" /\ child'[w] = [child[w] EXCEPT !.pc = "writing"]
        /\ UNCHANGED <<pc, fds, stream, forwarded, taken, sent, cut, answers, closes, holders, inPipe, outPipe>>
    BY <1>0, <1>14 DEF ScriptHasRead, handler
  <2>2. /\ child'[w].pc = "writing" /\ child'[w].read = child[w].read
        /\ child'[w].wrote = child[w].wrote
    BY <1>0, <2>1 DEF Scripts
  <2>3. Descriptors(w)' /\ Counted(w)' /\ Answered(w)' /\ Delivered(w)'
    BY <1>a, <2>1, <2>2 DEF Descriptors, Counted, Answered, Delivered, ForkFailed
  <2>. QED  BY <2>3 DEF RequestInv
<1>15. CASE ScriptWrites(w)
  <2>1. /\ child[w].pc = "writing" /\ outPipe'[w] = outPipe[w] + 1
        /\ child'[w] = [child[w] EXCEPT !.wrote = @ + 1]
        /\ UNCHANGED <<pc, fds, stream, forwarded, taken, sent, cut, answers, closes, holders, inPipe>>
    BY <1>0, <1>15 DEF ScriptWrites, handler
  <2>2. /\ child'[w].pc = child[w].pc /\ child'[w].read = child[w].read
        /\ child'[w].wrote = child[w].wrote + 1
    BY <1>0, <2>1 DEF Scripts
  <2>3. Descriptors(w)' /\ Answered(w)' /\ Delivered(w)'
    BY <1>a, <2>1, <2>2 DEF Descriptors, Answered, Delivered, ForkFailed
  <2>4. Counted(w)'
    BY <1>0, <1>a, <2>1, <2>2 DEF Counted, Scripts
  <2>. QED  BY <2>3, <2>4 DEF RequestInv
<1>16. CASE ScriptExits(w)
  <2>1. /\ child[w].pc \in {"reading", "writing"} /\ child'[w] = [child[w] EXCEPT !.pc = "exited"]
        /\ UNCHANGED <<pc, fds, stream, forwarded, taken, sent, cut, answers, closes, inPipe, outPipe>>
    BY <1>0, <1>16 DEF ScriptExits, handler
  <2>2. \A e \in Ends : holders'[w][e] = holders[w][e] \ {w}
    BY <1>0, <1>16, ExitedHolders DEF ScriptExits
  <2>3. /\ child'[w].pc = "exited" /\ child'[w].read = child[w].read
        /\ child'[w].wrote = child[w].wrote
    BY <1>0, <2>1 DEF Scripts
  <2>4. Descriptors(w)'
    BY <1>0, <1>a, <2>1, <2>2 DEF Descriptors
  <2>5. Counted(w)' /\ Answered(w)' /\ Delivered(w)'
    BY <1>a, <2>1, <2>3 DEF Counted, Answered, Delivered, ForkFailed
  <2>. QED  BY <2>4, <2>5 DEF RequestInv
<1>. QED
  BY <1>1, <1>2, <1>3, <1>4, <1>5, <1>6, <1>7, <1>8, <1>9, <1>10, <1>11, <1>12, <1>13, <1>14,
     <1>15, <1>16, <1>17
  DEF ServerStep, ScriptStep

-----------------------------------------------------------------------------
(* The invariants. *)

\* The parts together are inductive.
LEMMA IInvHolds == Spec => []IInv
<1>1. Init => IInv
  BY TypesInit, RequestInit DEF IInv
<1>2. IInv /\ [Next]_vars => IInv'
  <2>. SUFFICES ASSUME IInv, [Next]_vars  PROVE IInv'
    OBVIOUS
  <2>1. Types'
    BY TypesStep DEF IInv
  <2>2. ASSUME NEW v \in Workers, NEW w \in Workers,
               MakePipes(v) \/ ServerStep(v) \/ ScriptStep(v) \/ ScriptExits(v)
        PROVE  RequestInv(w)'
    <3>1. CASE w = v
      BY <2>1, <2>2, <3>1, OwnStep DEF IInv
    <3>2. CASE w # v
      <4>1. /\ State(w)' = State(w)
            /\ \A e \in Ends : /\ Server \in holders'[w][e] <=> Server \in holders[w][e]
                               /\ w \in holders[w][e] => w \in holders'[w][e]
        BY <2>2, <3>2, OthersKeep DEF IInv
      <4>. QED  BY <4>1, RequestFrame DEF IInv, Ends
    <3>. QED  BY <3>1, <3>2
  <2>3. CASE UNCHANGED vars
    <3>1. \A w \in Workers : State(w)' = State(w) /\ holders' = holders
      BY <2>3 DEF vars, handler, State
    <3>. QED  BY <2>1, <3>1, RequestFrame DEF IInv
  <2>. QED  BY <2>1, <2>2, <2>3 DEF IInv, Next
<1>. QED  BY <1>1, <1>2, PTL DEF Spec

\* No byte is lost in a pipe, no descriptor is closed twice by the server or left open
\* by a request that is done, and a request has one answer, two only when fork failed.
THEOREM DescriptorsClosedOnce == Spec => []CgiInv
<1>1. IInv => CgiInv
  <2>. SUFFICES ASSUME IInv, NEW w \in Workers
                PROVE  /\ TypeOK
                       /\ \A e \in Ends : closes[w][e] <= 1
                       /\ pc[w] = "answered" => \A e \in Ends : Server \notin holders[w][e]
                       /\ answers[w] <= 1 \/ ForkFailed(w)
                       /\ pc[w] = "answered" => answers[w] = IF ForkFailed(w) THEN 2 ELSE 1
    BY DEF CgiInv, TypeOK, IInv, Types, HandlerTypes, Places, ClosedOnce, OneAnswer
  <2>1. TypeOK
    BY DEF TypeOK, IInv, Types, HandlerTypes, Places, RequestInv, Counted
  <2>2. /\ \A e \in Ends : closes[w][e] <= 1
        /\ pc[w] = "answered" => \A e \in Ends : Server \notin holders[w][e]
    BY DEF IInv, RequestInv, Descriptors, OpenAt
  <2>3. pc[w] = "answered" => answers[w] = IF ForkFailed(w) THEN 2 ELSE 1
    BY DEF IInv, RequestInv, Answered
  <2>4. answers[w] <= 1 \/ ForkFailed(w)
    BY SMTT(40) DEF IInv, RequestInv, Answered, Types, HandlerTypes, Places
  <2>. QED  BY <2>1, <2>2, <2>3, <2>4
<1>. QED  BY <1>1, IInvHolds, PTL

\* The output ends for the handler only when the script can write no more: all it wrote
\* has been sent by then, whatever chunks and pipes cut it into, or a write to the
\* client has failed.
THEOREM OutputIsSent == Spec => []AllSent
<1>1. IInv => AllSent
  BY DEF IInv, Types, HandlerTypes, RequestInv, Counted, Delivered, Scripts, AllSent
<1>. QED  BY <1>1, IInvHolds, PTL
=============================================================================
