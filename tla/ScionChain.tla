----------------------------- MODULE ScionChain -----------------------------
(***************************************************************************)
(* A parsed template: the chain of objects that next_ links, and the two   *)
(* searches MulleScionCommand makes along it (MulleScionObjectModel.m).    *)
(*                                                                         *)
(* A chain is a sequence of nodes.  A node stands for an object of the     *)
(* model: its class (kind), the identifier it carries, and the file it was *)
(* read from.  A place in a chain is an index; Nowhere is the nil object.  *)
(* The parser checks no nesting: any order of commands is a chain.         *)
(***************************************************************************)
EXTENDS Naturals, Sequences, FiniteSets, FiniteSetsExt

CONSTANTS
  Identifiers,   \* the loop variables
  Files          \* the template files

Openers == {"if", "for", "while", "block"}
Elses   == {"else", "elsefor"}
Closers == {"endif", "endfor", "endwhile", "endblock"}
Kinds   == {"text", "template"} \cup Openers \cup Elses \cup Closers

Nodes   == [kind : Kinds, id : Identifiers, file : Files]

\* No class: what a class method returns for a command that has no such part.
NoClass == "none"

terminatorClass(kind) ==
  CASE kind = "if"    -> "endif"    [] kind = "for"   -> "endfor"
    [] kind = "while" -> "endwhile" [] kind = "block" -> "endblock"
    [] OTHER          -> NoClass

elseClass(kind) ==
  CASE kind = "if" -> "else" [] kind = "for" -> "elsefor" [] OTHER -> NoClass

\* MulleScionElseFor is a subclass of MulleScionElse and inherits the answer.
isElse(kind) == kind \in Elses

Nowhere == 0

next_(chain, at) == IF at < Len(chain) THEN at + 1 ELSE Nowhere

KindAt(chain, at) == IF at = Nowhere THEN NoClass ELSE chain[at].kind

-----------------------------------------------------------------------------
\* How many objects of exactly that class there are from one place to another.
CountOf(chain, kind, from, to) == Cardinality({p \in from..to : chain[p].kind = kind})

\* The places where the search for the end of a `self` may stop.
Ends(chain, self, curr) ==
  IF curr = Nowhere THEN {}
  ELSE {p \in curr..Len(chain) :
          /\ chain[p].kind = terminatorClass(self)
          /\ 1 + CountOf(chain, self, curr, p) = CountOf(chain, terminatorClass(self), curr, p)}

\* The places where it finds an else of its own.
OwnElses(chain, self, curr) ==
  IF curr = Nowhere THEN {}
  ELSE {p \in curr..Len(chain) :
          /\ chain[p].kind = elseClass(self)
          /\ CountOf(chain, self, curr, p) = CountOf(chain, terminatorClass(self), curr, p)
          /\ \A e \in Ends(chain, self, curr) : p < e}

First(places) == IF places = {} THEN Nowhere ELSE Min(places)

\* Fault: the searches stop at the first else or end, nested or not.
FaultyToEnd(chain, self, curr) ==
  First(IF curr = Nowhere THEN {}
        ELSE {p \in curr..Len(chain) : chain[p].kind = terminatorClass(self)})

FaultyToElse(chain, self, curr) ==
  First(IF curr = Nowhere THEN {}
        ELSE {p \in curr..Len(chain) : chain[p].kind \in {elseClass(self), terminatorClass(self)}})

\* -[MulleScionCommand terminateToEnd:]
terminateToEnd(chain, self, curr) == First(Ends(chain, self, curr))

\* -[MulleScionCommand terminateToElse:]
terminateToElse(chain, self, curr) ==
  First(Ends(chain, self, curr) \cup OwnElses(chain, self, curr))
=============================================================================
