----------------------------- MODULE ScionFlow -----------------------------
(***************************************************************************)
(* How control moves through a template whose commands are properly nested *)
(* (dox/if.scion, for.scion, while.scion, block.scion): every command owns *)
(* the text up to the end that matches it, in one or two sections; a       *)
(* section is entered or passed over as a whole, the body of a loop any    *)
(* number of times, and the template goes on behind the end.               *)
(*                                                                         *)
(* The ends are matched like brackets, whatever the kind of the brackets.  *)
(***************************************************************************)
EXTENDS ScionChain

CONSTANT Chains

VARIABLES
  chain,
  at,     \* where the template is, Nowhere at its end
  open    \* the sections it is in, innermost last: [cmd, section]

flowVars == <<chain, at, open>>

CountIn(kinds, from, to) == Cardinality({p \in from..to : chain[p].kind \in kinds})

Balanced(from, to) == CountIn(Openers, from, to) = CountIn(Closers, from, to)

EndOf(cmd) ==
  Min({p \in (cmd + 1)..Len(chain) : chain[p].kind \in Closers /\ Balanced(cmd, p)})

\* The else that divides the command, if there is one.
ElsesOf(cmd) ==
  {p \in (cmd + 1)..EndOf(cmd) : isElse(chain[p].kind) /\ Balanced(cmd + 1, p)}

\* Where a section starts and where it stops.
Start(cmd, section) ==
  IF section \in {"else", "empty"} THEN Min(ElsesOf(cmd)) + 1 ELSE cmd + 1

Stop(cmd, section) ==
  IF section \in {"then", "body"} /\ ElsesOf(cmd) # {} THEN Min(ElsesOf(cmd)) ELSE EndOf(cmd)

After(cmd) == next_(chain, EndOf(cmd))

SectionsOf(cmd) ==
  (CASE chain[cmd].kind = "if"  -> {"then"} \cup (IF ElsesOf(cmd) = {} THEN {} ELSE {"else"})
     [] chain[cmd].kind = "for" -> {"body"} \cup (IF ElsesOf(cmd) = {} THEN {} ELSE {"empty"})
     [] OTHER                   -> {"body"})

\* A command without an alternative can be passed over; a block cannot.
MayPass(cmd) == chain[cmd].kind # "block" /\ ElsesOf(cmd) = {}

Inner == open[Len(open)]
Stopped == open # <<>> /\ at = Stop(Inner.cmd, Inner.section)

-----------------------------------------------------------------------------
Init ==
  /\ chain \in Chains
  /\ at   = next_(chain, 1)
  /\ open = <<>>

Plain ==
  /\ at # Nowhere /\ chain[at].kind \in {"text", "template"}
  /\ at' = next_(chain, at)
  /\ UNCHANGED <<chain, open>>

Enter ==
  /\ at # Nowhere /\ chain[at].kind \in Openers
  /\ \E section \in SectionsOf(at) :
       /\ open' = Append(open, [cmd |-> at, section |-> section])
       /\ at'   = Start(at, section)
  /\ UNCHANGED chain

Pass ==
  /\ at # Nowhere /\ chain[at].kind \in Openers /\ MayPass(at)
  /\ at' = After(at)
  /\ UNCHANGED <<chain, open>>

Again ==
  /\ Stopped /\ Inner.section = "body" /\ chain[Inner.cmd].kind \in {"for", "while"}
  /\ at' = Start(Inner.cmd, "body")
  /\ UNCHANGED <<chain, open>>

Leave ==
  /\ Stopped
  /\ at'   = After(Inner.cmd)
  /\ open' = SubSeq(open, 1, Len(open) - 1)
  /\ UNCHANGED chain

Next == Plain \/ Enter \/ Pass \/ Again \/ Leave

Spec == Init /\ [][Next]_flowVars
=============================================================================
