---------------------------- MODULE ScionPrinter ----------------------------
(***************************************************************************)
(* The printer: -renderInto:localVariables:dataSource: of every class of   *)
(* the chain that moves the control (MulleScionObjectModel+Printing.m).    *)
(*                                                                         *)
(* Each renderInto: returns the object to go on with, and the commands     *)
(* that have a body render it with a loop of their own (renderBlock:), so  *)
(* the program's stack is part of the state: a frame for every command or  *)
(* template that waits for its body.  A template, also one that was        *)
(* included in the middle of the chain, renders everything behind it and   *)
(* returns nil.                                                            *)
(*                                                                         *)
(* What an expression evaluates to is the data source's business: the      *)
(* condition of an if or a while and the length of a collection are chosen *)
(* anew each time.                                                         *)
(***************************************************************************)
EXTENDS ScionNesting

CONSTANTS
  Chains,     \* the templates to render
  MaxItems,   \* bound: elements of a collection
  MaxTurns,   \* bound: turns of one while loop
  Nil

ASSUME ChainsAssumption ==
  \A c \in Chains : c \in Seq(Nodes) /\ Len(c) > 0 /\ c[1].kind = "template"
ASSUME PrinterBounds == MaxItems \in Nat /\ MaxTurns \in Nat
ASSUME PrinterNil == Nil \notin Files \cup Nat \cup Seq(Files)

VARIABLES
  chain,      \* the template
  frames,     \* the active renderInto: calls that have a body, innermost last
  curr,       \* the object the innermost loop is at
  file,       \* __FILE__
  fileStack,  \* the files pushed by blocks, Nil until the first one
  loopVar,    \* locals[x] of a loop variable x: the index of the item, or Nil
  loopInfo,   \* locals[x#]: the frame that owns the info object, or Nil
  raised      \* the exception that ended the rendering, or "no"

vars == <<chain, frames, curr, file, fileStack, loopVar, loopInfo, raised>>

control == <<chain, frames, curr>>
scope   == <<loopVar, loopInfo>>
naming  == <<file, fileStack>>

Sections == {"chain", "then", "else", "body", "empty"}
Frames   == [cmd : Nat, section : Sections, i : Nat, n : Nat]

Top     == frames[Len(frames)]
Callers == SubSeq(frames, 1, Len(frames) - 1)
Kind(at) == KindAt(chain, at)
Next_(at) == next_(chain, at)

Running == raised = "no" /\ frames # <<>>

\* The loop of a template stops at nil, that of renderBlock: at any else and at
\* the terminator of its command as well.
LoopEnds ==
  \/ curr = Nowhere
  \/ /\ Top.section # "chain"
     /\ isElse(Kind(curr)) \/ Kind(curr) = terminatorClass(Kind(Top.cmd))

\* A frame for the command at curr, whose body starts behind it or elsewhere.
Call(section, start, n) ==
  /\ frames' = Append(frames, [cmd |-> curr, section |-> section, i |-> 0, n |-> n])
  /\ curr'   = start

Return(at) ==
  /\ frames' = Callers
  /\ curr'   = at

\* Where a command goes on when it is through: behind its terminator, if that
\* is where it got to.
Behind(self, at) == IF Kind(at) = terminatorClass(self) THEN Next_(at) ELSE at

At(kind) == Running /\ ~LoopEnds /\ Kind(curr) = kind

Back(kind, section) ==
  Running /\ LoopEnds /\ Kind(Top.cmd) = kind /\ Top.section = section

-----------------------------------------------------------------------------
Init ==
  /\ chain \in Chains
  /\ frames    = << [cmd |-> 1, section |-> "chain", i |-> 0, n |-> 0] >>
  /\ curr      = next_(chain, 1)
  /\ file      = chain[1].file
  /\ fileStack = Nil
  /\ loopVar   = [x \in Identifiers |-> Nil]
  /\ loopInfo  = [x \in Identifiers |-> Nil]
  /\ raised    = "no"

\* -[MulleScionPlainText renderInto:], and every other object that has no body
\* and returns next_.
RenderText ==
  /\ At("text")
  /\ curr' = Next_(curr)
  /\ UNCHANGED <<chain, frames, scope, naming, raised>>

\* -[MulleScionTemplate renderInto:] on a template inside the chain: an included
\* file, or the marker that the including file goes on.
RenderTemplate ==
  /\ At("template")
  /\ file' = chain[curr].file
  /\ Call("chain", Next_(curr), 0)
  /\ UNCHANGED <<chain, fileStack, scope, raised>>

TemplateReturns ==
  /\ Back("template", "chain")
  /\ Return(Nowhere)
  /\ UNCHANGED <<chain, scope, naming, raised>>

\* -[MulleScionTerminator renderInto:]: every else and every end but endblock.
RenderStray ==
  /\ \E kind \in Elses \cup (Closers \ {"endblock"}) : At(kind)
  /\ raised' = "stray"
  /\ UNCHANGED <<control, scope, naming>>

\* -[MulleScionIf renderInto:]
RenderIf(flag) ==
  /\ At("if")
  /\ LET other == terminateToElse(chain, "if", Next_(curr))
     IN  CASE flag -> Call("then", Next_(curr), 0)
           [] ~flag /\ isElse(Kind(other))  -> Call("else", Next_(other), 0)
           [] ~flag /\ ~isElse(Kind(other)) ->
                curr' = Behind("if", other) /\ UNCHANGED frames
  /\ UNCHANGED <<chain, scope, naming, raised>>

ThenReturns ==
  /\ Back("if", "then")
  /\ LET other == terminateToElse(chain, "if", curr)
         at    == IF isElse(Kind(other)) THEN terminateToEnd(chain, "if", other) ELSE other
     IN  Return(Behind("if", at))
  /\ UNCHANGED <<chain, scope, naming, raised>>

ElseReturns ==
  /\ Back("if", "else")
  /\ Return(Behind("if", curr))
  /\ UNCHANGED <<chain, scope, naming, raised>>

\* -[MulleScionFor renderInto:].  The collection has n elements.
SetItem(x, i, owner) ==
  /\ loopVar'  = [loopVar EXCEPT ![x] = i]
  /\ loopInfo' = [loopInfo EXCEPT ![x] = owner]

\* Fault: all variables are removed.
FaultyForgetAll(x) ==
  /\ loopVar'  = [y \in Identifiers |-> Nil]
  /\ loopInfo' = [y \in Identifiers |-> Nil]

ForgetItem(x) ==
  /\ loopVar'  = [loopVar EXCEPT ![x] = Nil]
  /\ loopInfo' = [loopInfo EXCEPT ![x] = Nil]

RenderFor(n) ==
  /\ At("for")
  /\ LET x     == chain[curr].id
         owner == Len(frames) + 1
         other == terminateToElse(chain, "for", Next_(curr))
     IN  CASE n > 0 -> Call("body", Next_(curr), n) /\ SetItem(x, 0, owner)
           [] n = 0 /\ isElse(Kind(other)) ->
                /\ Call("empty", Next_(other), 0)
                /\ loopInfo' = [loopInfo EXCEPT ![x] = owner]
                /\ UNCHANGED loopVar
           [] n = 0 /\ ~isElse(Kind(other)) ->
                /\ curr' = Behind("for", terminateToEnd(chain, "for", other))
                /\ ForgetItem(x)
                /\ UNCHANGED frames
  /\ UNCHANGED <<chain, naming, raised>>

\* Fault: the same element again.
FaultyForTurns ==
  /\ Back("for", "body")
  /\ Top.i + 1 < Top.n
  /\ curr' = Next_(Top.cmd)
  /\ UNCHANGED <<chain, frames, scope, naming, raised>>

\* The next element.  The info object is filled anew, but only the variable is
\* set in the locals again.
ForTurns ==
  /\ Back("for", "body")
  /\ Top.i + 1 < Top.n
  /\ frames'  = [frames EXCEPT ![Len(frames)].i = @ + 1]
  /\ curr'    = Next_(Top.cmd)
  /\ loopVar' = [loopVar EXCEPT ![chain[Top.cmd].id] = Top.i + 1]
  /\ UNCHANGED <<chain, loopInfo, naming, raised>>

ForReturns ==
  /\ Back("for", "body")
  /\ Top.i + 1 = Top.n
  /\ Return(Behind("for", terminateToEnd(chain, "for", curr)))
  /\ ForgetItem(chain[Top.cmd].id)
  /\ UNCHANGED <<chain, naming, raised>>

\* Where the elsefor part got to is not looked at: the end is searched from the
\* elsefor on.
ElseForReturns ==
  /\ Back("for", "empty")
  /\ LET other == terminateToElse(chain, "for", Next_(Top.cmd))
     IN  Return(Behind("for", terminateToEnd(chain, "for", other)))
  /\ ForgetItem(chain[Top.cmd].id)
  /\ UNCHANGED <<chain, naming, raised>>

\* -[MulleScionWhile renderInto:].  i counts the turns of one execution.
RenderWhile(flag) ==
  /\ At("while")
  /\ IF flag
     THEN MaxTurns > 0 /\ Call("body", Next_(curr), 0)
     ELSE /\ curr' = Behind("while", terminateToEnd(chain, "while", Next_(curr)))
          /\ UNCHANGED frames
  /\ UNCHANGED <<chain, scope, naming, raised>>

WhileTurns ==
  /\ Back("while", "body")
  /\ Top.i + 1 < MaxTurns
  /\ frames' = [frames EXCEPT ![Len(frames)].i = @ + 1]
  /\ curr'   = Next_(Top.cmd)
  /\ UNCHANGED <<chain, scope, naming, raised>>

WhileReturns ==
  /\ Back("while", "body")
  /\ Return(Behind("while", terminateToEnd(chain, "while", curr)))
  /\ UNCHANGED <<chain, scope, naming, raised>>

\* Fault: the file is pushed and not set.
FaultyRenderBlock ==
  /\ At("block")
  /\ fileStack' = IF fileStack = Nil THEN <<file>> ELSE Append(fileStack, file)
  /\ Call("body", Next_(curr), 0)
  /\ UNCHANGED <<chain, file, scope, raised>>

\* -[MulleScionBlock renderInto:] with pushFileName.  The endblock that ends the
\* body is stepped over, not rendered.
RenderBlock ==
  /\ At("block")
  /\ fileStack' = IF fileStack = Nil THEN <<file>> ELSE Append(fileStack, file)
  /\ file'      = chain[curr].file
  /\ Call("body", Next_(curr), 0)
  /\ UNCHANGED <<chain, scope, raised>>

BlockReturns ==
  /\ Back("block", "body")
  /\ Return(Behind("block", curr))
  /\ UNCHANGED <<chain, scope, naming, raised>>

\* -[MulleScionEndBlock renderInto:] with popFileName, reached only from a loop
\* that is not the block's own.  Without a pushed file nil is set, which raises.
RenderEndBlock ==
  /\ At("endblock")
  /\ IF fileStack = Nil \/ fileStack = <<>>
     THEN raised' = "no file" /\ UNCHANGED <<naming, curr>>
     ELSE /\ file'      = fileStack[Len(fileStack)]
          /\ fileStack' = SubSeq(fileStack, 1, Len(fileStack) - 1)
          /\ curr'      = Next_(curr)
          /\ UNCHANGED raised
  /\ UNCHANGED <<chain, frames, scope>>

Next ==
  \/ RenderText \/ RenderTemplate \/ TemplateReturns \/ RenderStray
  \/ \E flag \in BOOLEAN : RenderIf(flag)
  \/ ThenReturns \/ ElseReturns
  \/ \E n \in 0..MaxItems : RenderFor(n)
  \/ ForTurns \/ ForReturns \/ ElseForReturns
  \/ \E flag \in BOOLEAN : RenderWhile(flag)
  \/ WhileTurns \/ WhileReturns
  \/ RenderBlock \/ BlockReturns \/ RenderEndBlock

Spec == Init /\ [][Next]_vars

\* One thread renders the template and never waits.
FairSpec == Spec /\ WF_vars(Next)

-----------------------------------------------------------------------------
\* Every variable has the type the code gives it; a frame is a place in the
\* chain.
PrinterTypeOK ==
  /\ chain  \in Seq(Nodes)
  /\ frames \in Seq(Frames)
  /\ \A k \in DOMAIN frames : frames[k].cmd \in DOMAIN chain
  /\ curr   \in {Nowhere} \cup DOMAIN chain
  /\ file   \in Files
  /\ fileStack \in Seq(Files) \cup {Nil}
  /\ loopVar   \in [Identifiers -> Nat \cup {Nil}]
  /\ loopInfo  \in [Identifiers -> Nat \cup {Nil}]
  /\ raised    \in {"no", "stray", "no file"}

FramesOf(kind) == {k \in DOMAIN frames : Kind(frames[k].cmd) = kind}

\* While the body of a for is rendered, however deep, its variable is the item
\* of the current turn and x# is the info of this loop: nothing inside has
\* overwritten or removed them.
LoopVisible ==
  Running =>
    \A k \in FramesOf("for") :
      LET x == chain[frames[k].cmd].id
      IN  frames[k].section = "body" => loopVar[x] = frames[k].i /\ loopInfo[x] = k

\* A loop leaves no variable behind: outside of all loops there is none.
LoopVarsRemoved ==
  Running /\ FramesOf("for") = {} =>
    \A x \in Identifiers : loopVar[x] = Nil /\ loopInfo[x] = Nil

\* __FILE__ is the file of what is being rendered (dox/Global_Variables.scion):
\* whatever evaluates an expression finds its own file there.
FileIsCurrent ==
  Running /\ ~LoopEnds /\ Kind(curr) \in {"text", "if", "for", "while"} => file = chain[curr].file

\* It is so as long as no block has ended: then every pushed file belongs to a
\* block that is still open.
FileIsCurrentUntilEnd ==
  LET pushed == IF fileStack = Nil THEN 0 ELSE Len(fileStack)
  IN  pushed = Cardinality(FramesOf("block")) => FileIsCurrent

\* Nothing is found stray.
NeverRaises == raised = "no"

IsProper == Proper(chain)

\* While the body of a for is rendered, however deep, its variable is the item
\* of the current turn and x# its own info, and outside of all loops neither is
\* left, in any properly nested template.
LoopsInScope == PrinterTypeOK /\ (IsProper => LoopVisible /\ LoopVarsRemoved)

\* __FILE__ (dox/Global_Variables.scion) is the file of what is being rendered
\* as long as no block has ended, also behind an included file.
FileIsCurrentInBlocks == IsProper => FileIsCurrentUntilEnd

\* No end and no else of a properly nested template is ever found stray.
ProperNeverRaises == IsProper => NeverRaises

\* The sections of commands the template is in.  The templates that are still to return
\* nil are no commands, and included between commands they are below all of them.
OpenSections ==
  LET templates == Cardinality({k \in DOMAIN frames : frames[k].section = "chain"})
  IN  [k \in 1..(Len(frames) - templates) |->
         [cmd |-> frames[templates + k].cmd, section |-> frames[templates + k].section]]

Flow == INSTANCE ScionFlow WITH at <- curr, open <- OpenSections

ImplementsFlowInit == IsProper => Flow!Init
ImplementsFlowNext == IsProper => Flow!Next \/ UNCHANGED Flow!flowVars

\* The searches along the chain find the ends that match, and the returned
\* places drive the control through a properly nested template as its commands
\* say: it implements ScionFlow.
ImplementsFlow == ImplementsFlowInit /\ [][ImplementsFlowNext]_vars

\* The rendering comes to an end, by itself or with an exception.
RenderingEnds == <>(~Running)
=============================================================================
