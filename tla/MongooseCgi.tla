----------------------------- MODULE MongooseCgi -----------------------------
(***************************************************************************)
(* handle_cgi_request and spawn_process of mongoose.c: workers that run    *)
(* scripts as child processes, with a pipe to each and one from it.  A     *)
(* child has every descriptor that was open in the server when it was      *)
(* forked and that nobody closed in it, those of other workers too.        *)
(***************************************************************************)
EXTENDS Integers, FiniteSets, FiniteSetsExt

CONSTANTS
  Workers,
  Bodies,        \* lengths of the bodies clients send, all before they expect an answer
  HeadSize, OutSizes,  \* bytes of head, and of text behind it, that scripts write
  PipeSize,      \* what a pipe holds
  ChunkSize,     \* sizeof( buf) of send_file_data
  MayFail        \* what may fail: "pipe", "fork", "fdopen", reading the "body", writing to the "client"

ASSUME SizeAssumption == /\ PipeSize \in Nat \ {0} /\ ChunkSize \in Nat \ {0}
                         /\ HeadSize \in Nat \ {0}
                         /\ Bodies \subseteq Nat /\ OutSizes \subseteq Nat

VARIABLES
  pc,         \* pc[w]: where worker w is in handle_cgi_request
  body, out,  \* the request and its script
  fds,        \* the descriptors in the variables of the handler, not -1
  stream,     \* the FILEs made of them: subset of {"inW", "outR"}
  forwarded,  \* bytes of the body written to the script
  taken,      \* bytes read of the script's output
  sent,       \* bytes of it sent on
  cut,        \* cut[w]: a write to the client of w has failed
  answers,    \* status lines sent
  closes,     \* closes[w][e]: how often the server closed the descriptor
  holders,    \* holders[w][e]: the processes that have end e of the pipes of w open
  inPipe, outPipe,  \* bytes in the pipes
  child       \* the script: [pc, read, wrote]

handler == <<pc, body, out, fds, stream, forwarded, taken, sent, cut, answers, closes>>
vars == <<handler, holders, inPipe, outPipe, child>>

Ends == {"inR", "inW", "outR", "outW"}
Server == "server"

\* A process is a child, named after its worker, or the server.
ASSUME ProcessAssumption == Server \notin Workers

Closed(h, w, es, process) ==
  [h EXCEPT ![w] = [e \in Ends |-> IF e \in es THEN @[e] \ {process} ELSE @[e]]]

CountCloses(w, es) ==
  closes' = [closes EXCEPT ![w] = [e \in Ends |-> @[e] + IF e \in es THEN 1 ELSE 0]]

Nobody == [e \in Ends |-> {}]
NoScript == [pc |-> "none", read |-> 0, wrote |-> 0]

Init ==
  /\ pc = [w \in Workers |-> "idle"]
  /\ body = [w \in Workers |-> 0] /\ out = [w \in Workers |-> 0]
  /\ fds = [w \in Workers |-> {}] /\ stream = [w \in Workers |-> {}]
  /\ forwarded = [w \in Workers |-> 0] /\ taken = [w \in Workers |-> 0]
  /\ sent = [w \in Workers |-> 0] /\ cut = [w \in Workers |-> FALSE] /\ answers = [w \in Workers |-> 0]
  /\ closes = [w \in Workers |-> [e \in Ends |-> 0]]
  /\ holders = [w \in Workers |-> Nobody]
  /\ inPipe = [w \in Workers |-> 0] /\ outPipe = [w \in Workers |-> 0]
  /\ child = [w \in Workers |-> NoScript]

-----------------------------------------------------------------------------
(* The handler. *)

Goto(w, to) == pc' = [pc EXCEPT ![w] = to]

SendError(w, to) ==
  /\ Goto(w, to)
  /\ answers' = [answers EXCEPT ![w] = @ + 1]

\* The two calls of pipe; none, one or both succeed.
MakePipes(w) ==
  /\ pc[w] = "idle"
  /\ body' \in {[body EXCEPT ![w] = n] : n \in Bodies}
  /\ out' \in {[out EXCEPT ![w] = n] : n \in OutSizes}
  /\ \E made \in {Ends} \cup (IF "pipe" \in MayFail THEN {{}, {"inR", "inW"}} ELSE {}) :
       /\ fds' = [fds EXCEPT ![w] = made]
       /\ holders' = [holders EXCEPT ![w] = [e \in Ends |-> IF e \in made THEN {Server} ELSE {}]]
       /\ IF made = Ends THEN Goto(w, "fork") /\ UNCHANGED answers ELSE SendError(w, "done")
  /\ UNCHANGED <<stream, forwarded, taken, sent, cut, closes, inPipe, outPipe, child>>

\* fork: the child has all that the server has open.
Inherited(w) ==
  [v \in Workers |-> [e \in Ends |-> IF Server \in holders[v][e] THEN holders[v][e] \cup {w}
                                     ELSE holders[v][e]]]

\* Fault: the handler still takes the ends of the child for its own.
FaultyFork(w) ==
  /\ pc[w] = "fork"
  /\ holders' = Closed(Inherited(w), w, {"inR", "outW"}, Server)
  /\ child' = [child EXCEPT ![w].pc = "reading"]
  /\ CountCloses(w, {"inR", "outW"})
  /\ Goto(w, "fdopen")
  /\ UNCHANGED <<fds, answers, body, out, stream, forwarded, taken, sent, cut, inPipe, outPipe>>

\* Fault: the parent keeps the end the child writes to.
FaultyForkKeeps(w) ==
  /\ pc[w] = "fork"
  /\ holders' = Closed(Inherited(w), w, {"inR"}, Server)
  /\ child' = [child EXCEPT ![w].pc = "reading"]
  /\ CountCloses(w, {"inR"})
  /\ fds' = [fds EXCEPT ![w] = @ \ {"inR"}]
  /\ Goto(w, "fdopen")
  /\ UNCHANGED <<answers, body, out, stream, forwarded, taken, sent, cut, inPipe, outPipe>>

\* spawn_process.  The parent closes the ends of the child; the child has them as
\* its standard input and output.
Fork(w) ==
  /\ pc[w] = "fork"
  /\ holders' = Closed(Inherited(w), w, {"inR", "outW"}, Server)
  /\ child' = [child EXCEPT ![w].pc = "reading"]
  /\ CountCloses(w, {"inR", "outW"})
  /\ fds' = [fds EXCEPT ![w] = @ \ {"inR", "outW"}]
  /\ Goto(w, "fdopen")
  /\ UNCHANGED <<answers, body, out, stream, forwarded, taken, sent, cut, inPipe, outPipe>>

\* fork fails: spawn_process sends an error, then the handler does.
ForkFails(w) ==
  /\ pc[w] = "fork" /\ "fork" \in MayFail
  /\ holders' = Closed(holders, w, {"inR", "outW"}, Server)
  /\ CountCloses(w, {"inR", "outW"})
  /\ fds' = [fds EXCEPT ![w] = @ \ {"inR", "outW"}]
  /\ Goto(w, "done") /\ answers' = [answers EXCEPT ![w] = @ + 2]
  /\ UNCHANGED <<child, body, out, stream, forwarded, taken, sent, cut, inPipe, outPipe>>

\* A body is forwarded when there is one: the method is POST.
FdOpen(w) ==
  /\ pc[w] = "fdopen"
  /\ \E made \in {{"inW", "outR"}} \cup (IF "fdopen" \in MayFail THEN {{}, {"inW"}} ELSE {}) :
       /\ stream' = [stream EXCEPT ![w] = made]
       /\ IF made = {"inW", "outR"}
          THEN Goto(w, IF body[w] > 0 THEN "forward" ELSE "closein") /\ UNCHANGED answers
          ELSE SendError(w, "done")
  /\ UNCHANGED <<body, out, fds, forwarded, taken, sent, cut, closes, holders, inPipe, outPipe, child>>

\* forward_body_data, unbuffered: a byte goes to the pipe when it has room.
ForwardBody(w) ==
  /\ pc[w] = "forward" /\ forwarded[w] < body[w] /\ inPipe[w] < PipeSize /\ holders[w]["inR"] # {}
  /\ inPipe' = [inPipe EXCEPT ![w] = @ + 1]
  /\ forwarded' = [forwarded EXCEPT ![w] = @ + 1]
  /\ IF forwarded'[w] = body[w] THEN Goto(w, "closein") ELSE UNCHANGED pc
  /\ UNCHANGED <<body, out, fds, stream, taken, sent, cut, answers, closes, holders, outPipe, child>>

\* Nobody reads the pipe any more, or the client sends no more of the body.
ForwardFails(w) ==
  /\ pc[w] = "forward"
  /\ holders[w]["inR"] = {} \/ "body" \in MayFail
  /\ SendError(w, "done")
  /\ UNCHANGED <<body, out, fds, stream, forwarded, taken, sent, cut, closes, holders, inPipe, outPipe, child>>

\* fclose( in).
CloseIn(w) ==
  /\ pc[w] = "closein"
  /\ holders' = Closed(holders, w, {"inW"}, Server)
  /\ CountCloses(w, {"inW"})
  /\ fds' = [fds EXCEPT ![w] = @ \ {"inW"}]
  /\ stream' = [stream EXCEPT ![w] = @ \ {"inW"}]
  /\ Goto(w, "head")
  /\ UNCHANGED <<body, out, forwarded, taken, sent, cut, answers, inPipe, outPipe, child>>

\* Nobody can write to the pipe any more and it is empty.
OutEnds(w) == outPipe[w] = 0 /\ holders[w]["outW"] = {}

\* Writing to the client may fail.
Failures == {FALSE} \cup (IF "client" \in MayFail THEN {TRUE} ELSE {})

\* read_request takes what there is, and sends head and text on when the head is
\* complete.  What these writes return is not looked at.
ReadHead(w) ==
  /\ pc[w] = "head" /\ outPipe[w] > 0
  /\ outPipe' = [outPipe EXCEPT ![w] = 0]
  /\ taken' = [taken EXCEPT ![w] = @ + outPipe[w]]
  /\ IF taken'[w] >= HeadSize
     THEN /\ SendError(w, "copy") /\ sent' = [sent EXCEPT ![w] = taken'[w]]
          /\ \E fails \in Failures : cut' = [cut EXCEPT ![w] = fails]
     ELSE UNCHANGED <<pc, answers, sent, cut>>
  /\ UNCHANGED <<body, out, fds, stream, forwarded, closes, holders, inPipe, child>>

\* The script ends without a complete head.
HeadFails(w) ==
  /\ pc[w] = "head" /\ OutEnds(w)
  /\ SendError(w, "done")
  /\ UNCHANGED <<body, out, fds, stream, forwarded, taken, sent, cut, closes, holders, inPipe, outPipe, child>>

\* send_file_data: fread goes on until it has a chunk or is at the end,
CopyRead(w) ==
  /\ pc[w] = "copy" /\ outPipe[w] > 0 /\ taken[w] - sent[w] < ChunkSize
  /\ LET n == Min({outPipe[w], ChunkSize - (taken[w] - sent[w])}) IN
       /\ outPipe' = [outPipe EXCEPT ![w] = @ - n]
       /\ taken' = [taken EXCEPT ![w] = @ + n]
  /\ UNCHANGED <<pc, body, out, fds, stream, forwarded, sent, cut, answers, closes, holders, inPipe, child>>

\* Fault: what is left when the script ends is no chunk and not sent.
FaultyCopySend(w) ==
  /\ pc[w] = "copy" /\ taken[w] > sent[w]
  /\ \/ taken[w] - sent[w] = ChunkSize /\ sent' = [sent EXCEPT ![w] = taken[w]] /\ UNCHANGED pc
     \/ taken[w] - sent[w] < ChunkSize /\ OutEnds(w) /\ Goto(w, "done") /\ UNCHANGED sent
  /\ UNCHANGED <<cut, body, out, fds, stream, forwarded, taken, answers, closes, holders, inPipe, outPipe, child>>

\* and only then is the chunk sent,
ChunkRead(w) == pc[w] = "copy" /\ taken[w] > sent[w] /\ (taken[w] - sent[w] = ChunkSize \/ OutEnds(w))

CopySend(w) ==
  /\ ChunkRead(w)
  /\ sent' = [sent EXCEPT ![w] = taken[w]]
  /\ UNCHANGED <<pc, cut, body, out, fds, stream, forwarded, taken, answers, closes, holders, inPipe, outPipe, child>>

\* or that fails: the rest of the output is left where it is.
CopyFails(w) ==
  /\ ChunkRead(w) /\ "client" \in MayFail
  /\ cut' = [cut EXCEPT ![w] = TRUE]
  /\ Goto(w, "done")
  /\ UNCHANGED <<body, out, fds, stream, forwarded, taken, sent, answers, closes, holders, inPipe, outPipe, child>>

CopyEnds(w) ==
  /\ pc[w] = "copy" /\ taken[w] = sent[w] /\ OutEnds(w)
  /\ Goto(w, "done")
  /\ UNCHANGED <<body, out, fds, stream, forwarded, taken, sent, cut, answers, closes, holders, inPipe, outPipe, child>>

Exited(h, w) == [v \in Workers |-> [e \in Ends |-> h[v][e] \ {w}]]

\* The descriptors closed behind "done".
Left(w) == fds[w] \cup stream[w]

\* The child is killed if there is one, what is open is closed, the worker goes on
\* to another request.
Done(w) ==
  /\ pc[w] = "done"
  /\ holders' = Exited(Closed(holders, w, Left(w), Server), w)
  /\ CountCloses(w, Left(w))
  /\ fds' = [fds EXCEPT ![w] = {}] /\ stream' = [stream EXCEPT ![w] = {}]
  /\ child' = [child EXCEPT ![w].pc = IF @ = "none" THEN @ ELSE "exited"]
  /\ Goto(w, "answered")
  /\ UNCHANGED <<body, out, forwarded, taken, sent, cut, answers, inPipe, outPipe>>

-----------------------------------------------------------------------------
(* The scripts: external.  One reads the CONTENT_LENGTH bytes of its input, writes *)
(* a head and some text, and exits. *)

ScriptReads(w) ==
  /\ child[w].pc = "reading" /\ inPipe[w] > 0
  /\ inPipe' = [inPipe EXCEPT ![w] = @ - 1]
  /\ child' = [child EXCEPT ![w].read = @ + 1]
  /\ UNCHANGED <<handler, holders, outPipe>>

ScriptHasRead(w) ==
  /\ child[w].pc = "reading" /\ child[w].read = body[w]
  /\ child' = [child EXCEPT ![w].pc = "writing"]
  /\ UNCHANGED <<handler, holders, inPipe, outPipe>>

ScriptWrites(w) ==
  /\ child[w].pc = "writing" /\ child[w].wrote < HeadSize + out[w] /\ outPipe[w] < PipeSize
  /\ outPipe' = [outPipe EXCEPT ![w] = @ + 1]
  /\ child' = [child EXCEPT ![w].wrote = @ + 1]
  /\ UNCHANGED <<handler, holders, inPipe>>

\* A script exits when it has written all, or out of order.
ScriptExits(w) ==
  /\ child[w].pc \in {"reading", "writing"}
  /\ child' = [child EXCEPT ![w].pc = "exited"]
  /\ holders' = Exited(holders, w)
  /\ UNCHANGED <<handler, inPipe, outPipe>>

-----------------------------------------------------------------------------
ServerStep(w) ==
  \/ Fork(w) \/ ForkFails(w) \/ FdOpen(w) \/ ForwardBody(w) \/ ForwardFails(w) \/ CloseIn(w)
  \/ ReadHead(w) \/ HeadFails(w) \/ CopyRead(w) \/ CopySend(w) \/ CopyFails(w) \/ CopyEnds(w) \/ Done(w)

ScriptStep(w) == ScriptReads(w) \/ ScriptHasRead(w) \/ ScriptWrites(w)

Next == \E w \in Workers : MakePipes(w) \/ ServerStep(w) \/ ScriptStep(w) \/ ScriptExits(w)

Spec == Init /\ [][Next]_vars

\* The workers go on when they can, and so do the scripts, up to their exit.
FairSpec == Spec /\ \A w \in Workers :
  /\ WF_vars(ServerStep(w)) /\ WF_vars(ScriptStep(w))
  /\ WF_vars(child[w].wrote = HeadSize + out[w] /\ ScriptExits(w))

-----------------------------------------------------------------------------
TypeOK ==
  /\ pc \in [Workers -> {"idle", "fork", "fdopen", "forward", "closein", "head", "copy", "done", "answered"}]
  /\ \A w \in Workers : /\ fds[w] \subseteq Ends /\ stream[w] \subseteq {"inW", "outR"}
                        /\ inPipe[w] \in 0..PipeSize /\ outPipe[w] \in 0..PipeSize
                        /\ sent[w] <= taken[w] /\ taken[w] + outPipe[w] = child[w].wrote
                        /\ child[w].read + inPipe[w] = forwarded[w]

\* Nothing is closed twice (in a process with other threads its number may be
\* another descriptor by then; comment of mongoose.c:3218-3221) and nothing that the
\* handler opened stays open.
ClosedOnce ==
  /\ \A w \in Workers, e \in Ends : closes[w][e] <= 1
  /\ \A w \in Workers : pc[w] = "answered" => \A e \in Ends : Server \notin holders[w][e]

\* spawn_process has failed: the ends of the child are closed and there is none.
ForkFailed(w) == child[w].pc = "none" /\ closes[w]["outW"] = 1

\* One status line for each request, whatever fails but fork: then there are two.
OneAnswer == \A w \in Workers :
  /\ answers[w] <= 1 \/ ForkFailed(w)
  /\ pc[w] = "answered" => answers[w] = IF ForkFailed(w) THEN 2 ELSE 1

\* Types, descriptors and answers together.
CgiInv == TypeOK /\ ClosedOnce /\ OneAnswer

\* A request for a script that reads its body before it writes comes to its end.
CgiEnds == \A w \in Workers : pc[w] = "fork" ~> pc[w] = "answered"

\* Once the head of a script's answer has been sent, so has all it wrote, when the
\* request is done, also if the script exited before its time: unless a write to the
\* client has failed.
AllSent == \A w \in Workers :
  pc[w] = "answered" /\ sent[w] > 0 /\ ~cut[w] => sent[w] = child[w].wrote
=============================================================================
