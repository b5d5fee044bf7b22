------------------------ MODULE ScionBlockExpansion ------------------------
(***************************************************************************)
(* -[MulleScionTemplate expandBlocksUsingTable:] of                        *)
(* MulleScionObjectModel+BlockExpansion.m: the blocks of a parsed template *)
(* are replaced by those an extending file has put into the block table,   *)
(* again inside of what was put in.                                        *)
(*                                                                         *)
(* A place in the chain is an index as in ScionChain; `owner` is the place *)
(* whose next_ is looked at.  The file of a node tells whether it comes    *)
(* from the template or from the table.  Classes other than block and      *)
(* endblock are all alike here.                                            *)
(***************************************************************************)
EXTENDS ScionChain, Integers

CONSTANTS
  Templates,   \* the parsed templates, not empty
  Tables,      \* the block tables: functions from some of Identifiers to
               \* chains that begin with the block of that identifier and end
               \* with its endblock (parser_do_whole_block_to_block_table)
  child,       \* the file the table was read from
  Nil

VARIABLES
  template,  \* its chain
  table,     \* the block table
  owner,     \* the place in the chain, Nil when the chain is exhausted
  open,      \* the identifiers of the blocks being expanded, outermost first
  raised     \* the exception, or "no"

expansionVars == <<template, table, owner, open, raised>>

IsBlock(at)    == at \in DOMAIN template /\ template[at].kind = "block"
IsEndBlock(at) == at \in DOMAIN template /\ template[at].kind = "endblock"

\* -[MulleScionObject nextOwnerOfBlockCommand] from a place on.
OwnersFrom(at) == {p \in at..Len(template) : IsBlock(p + 1) \/ IsEndBlock(p + 1)}

\* Fault: the last object instead of nil.
FaultyNextOwner(at) == IF OwnersFrom(at) = {} THEN Len(template) ELSE Min(OwnersFrom(at))

nextOwnerOfBlockCommand(at) == IF OwnersFrom(at) = {} THEN Nil ELSE Min(OwnersFrom(at))

\* What replaceOwnedBlockWith: takes for the end of a block.
EndOf(block) == terminateToEnd(template, "block", next_(template, block))

Working == raised = "no" /\ owner # Nil

\* How deep in blocks a place of a chain is.
Depth(c, at) == CountOf(c, "block", 1, at) - CountOf(c, "endblock", 1, at)

\* What the parser hands over: a template begins with its root, and what it puts in the
\* table is a block up to its own end, all of it marked as the table's.
InputsSound ==
  /\ Nil \notin Nat
  /\ \A t \in Templates : t \in Seq(Nodes) /\ t # <<>> /\ t[1].kind = "template"
  /\ \A tab \in Tables : \A id \in DOMAIN tab :
       LET t == tab[id]
       IN  /\ id \in Identifiers /\ t \in Seq(Nodes) /\ Len(t) > 1
           /\ t[1].kind = "block" /\ t[1].id = id
           /\ \A at \in 1..(Len(t) - 1) : Depth(t, at) > 0
           /\ Depth(t, Len(t)) = 0
           /\ \A at \in DOMAIN t : t[at].file = child

ASSUME InputsAssumption == InputsSound

-----------------------------------------------------------------------------
ExpansionInit ==
  /\ template \in Templates
  /\ table  \in Tables
  /\ owner  = 1
  /\ open   = <<>>
  /\ raised = "no"

\* Fault: the endblock of what is replaced stays.
FaultySplice(block, end, replacement) ==
  SubSeq(template, 1, block - 1) \o replacement \o SubSeq(template, end, Len(template))

Splice(block, end, replacement) ==
  SubSeq(template, 1, block - 1) \o replacement \o SubSeq(template, end + 1, Len(template))

\* The loop condition gives nil.
Finish ==
  /\ Working
  /\ nextOwnerOfBlockCommand(owner) = Nil
  /\ owner' = Nil
  /\ UNCHANGED <<template, table, open, raised>>

\* Fault: the block stays on the stack.
FaultyLeaveBlock ==
  /\ Working
  /\ LET at == nextOwnerOfBlockCommand(owner)
     IN  at # Nil /\ IsEndBlock(at + 1) /\ owner' = at + 1
  /\ UNCHANGED <<template, table, open, raised>>

\* An endblock; taking the last object off an empty array raises.
LeaveBlock ==
  /\ Working
  /\ LET at == nextOwnerOfBlockCommand(owner)
     IN  /\ at # Nil
         /\ IsEndBlock(at + 1)
         /\ \/ /\ open = <<>>
               /\ raised' = "empty stack"
               /\ UNCHANGED <<owner, open>>
            \/ /\ open # <<>>
               /\ open' = SubSeq(open, 1, Len(open) - 1)
               /\ owner' = at + 1
               /\ UNCHANGED raised
  /\ UNCHANGED <<template, table>>

Expanding(id) == id \in {open[i] : i \in DOMAIN open}

\* A block that is met inside of one of the same name.
RefuseBlock ==
  /\ Working
  /\ LET at == nextOwnerOfBlockCommand(owner)
     IN  at # Nil /\ IsBlock(at + 1) /\ Expanding(template[at + 1].id)
  /\ raised' = "already expanded"
  /\ UNCHANGED <<template, table, owner, open>>

\* Fault: the block is not put on the stack.
FaultyKeepUnstacked ==
  /\ Working
  /\ LET at == nextOwnerOfBlockCommand(owner)
     IN  /\ at # Nil
         /\ IsBlock(at + 1)
         /\ ~Expanding(template[at + 1].id)
         /\ template[at + 1].id \notin DOMAIN table
         /\ owner' = at + 1
  /\ UNCHANGED <<template, table, open, raised>>

\* Fault: the table is not asked inside of another block.
FaultyKeepInside ==
  /\ Working
  /\ LET at == nextOwnerOfBlockCommand(owner)
     IN  /\ at # Nil
         /\ IsBlock(at + 1)
         /\ ~Expanding(template[at + 1].id)
         /\ template[at + 1].id \notin DOMAIN table \/ open # <<>>
         /\ open' = Append(open, template[at + 1].id)
         /\ owner' = at + 1
  /\ UNCHANGED <<template, table, raised>>

\* A block no file has overridden; what is inside of it is next.
KeepBlock ==
  /\ Working
  /\ LET at == nextOwnerOfBlockCommand(owner)
     IN  /\ at # Nil
         /\ IsBlock(at + 1)
         /\ ~Expanding(template[at + 1].id)
         /\ template[at + 1].id \notin DOMAIN table
         /\ open' = Append(open, template[at + 1].id)
         /\ owner' = at + 1
  /\ UNCHANGED <<template, table, raised>>

\* A block that is overridden: replaceOwnedBlockWith: puts a copy of the table's
\* in its place, and that is gone through in its turn.  The assertion there
\* wants the block to have an end.
ReplaceBlock ==
  /\ Working
  /\ LET at    == nextOwnerOfBlockCommand(owner)
         block == at + 1
         id    == template[block].id
     IN  /\ at # Nil
         /\ IsBlock(block)
         /\ ~Expanding(id)
         /\ id \in DOMAIN table
         /\ open' = Append(open, id)
         /\ \/ /\ EndOf(block) = Nowhere
               /\ raised' = "no endblock"
               /\ UNCHANGED <<template, owner>>
            \/ /\ EndOf(block) # Nowhere
               /\ template' = Splice(block, EndOf(block), table[id])
               /\ owner' = block
               /\ UNCHANGED raised
  /\ UNCHANGED table

ExpansionNext == Finish \/ LeaveBlock \/ RefuseBlock \/ KeepBlock \/ ReplaceBlock

\* One thread, a loop without waiting.
ExpansionSpec == ExpansionInit /\ [][ExpansionNext]_expansionVars /\ WF_expansionVars(ExpansionNext)

-----------------------------------------------------------------------------
\* Every variable has the type the code gives it.
TypeOK ==
  /\ template \in Seq(Nodes)
  /\ \A id \in DOMAIN table : id \in Identifiers /\ table[id] \in Seq(Nodes)
  /\ owner  \in DOMAIN template \cup {Nil}
  /\ open   \in Seq(Identifiers)
  /\ raised \in {"no", "empty stack", "already expanded", "no endblock"}

Balanced(c) ==
  /\ \A to \in DOMAIN c : CountOf(c, "endblock", 1, to) <= CountOf(c, "block", 1, to)
  /\ CountOf(c, "block", 1, Len(c)) = CountOf(c, "endblock", 1, Len(c))

\* The blocks around a place: those whose end is not in front of it.
Around(at) == {b \in 1..at : IsBlock(b) /\ EndOf(b) > at}

\* Replacing never breaks the nesting: a balanced template stays balanced after
\* every step (replaceOwnedBlockWith: relinks three chains).
StaysBalanced == [][Balanced(template) => Balanced(template')]_expansionVars

\* The stack names exactly the blocks the expansion is inside of, in their order:
\* what was put in and what was there before are told apart nowhere.
StackIsNesting ==
  Working /\ Balanced(template) =>
    /\ Len(open) = Cardinality(Around(owner))
    /\ \A b \in Around(owner) : open[Cardinality({c \in Around(owner) : c <= b})] = template[b].id

\* The types, and that the stack is right.
ExpansionInv == TypeOK /\ StackIsNesting

\* When it is through, every block with an entry in the table is the table's, and
\* so is everything inside of it: nothing of what was overridden is left.
Overridden ==
  owner = Nil /\ Balanced(template) =>
    \A b \in DOMAIN template : IsBlock(b) /\ template[b].id \in DOMAIN table =>
      \A p \in b..EndOf(b) : template[p].file = child

\* A nesting that is sound is only refused for a block that contains itself, in
\* the template, in the table, or from one to the other.
RefusedOnlyIfRecursive ==
  Balanced(template) =>
    /\ raised \in {"no", "already expanded"}
    /\ raised = "already expanded" =>
         LET at == nextOwnerOfBlockCommand(owner)
         IN  /\ at # Nil
             /\ IsBlock(at + 1)
             /\ \E b \in Around(owner) : template[b].id = template[at + 1].id

\* The expansion comes to an end for every template and every table, also for
\* tables whose blocks contain each other.
ExpansionEnds == <>(~Working)
=============================================================================
