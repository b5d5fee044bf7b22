----------------------------- MODULE ScionScan -----------------------------
(***************************************************************************)
(* The loops of -[MulleScionCommand terminateToEnd:] and terminateToElse:  *)
(* (MulleScionObjectModel.m), one step for every object they look at.      *)
(* ScionChain says in one formula what they return; this module shows that *)
(* the loops return that, for every order of commands, nested or not.      *)
(***************************************************************************)
EXTENDS ScionChain

CONSTANT Chains   \* the chains that are searched

ASSUME ScanChainsAssumption == Chains \subseteq Seq(Nodes)

VARIABLES
  chain,     \* the chain
  self,      \* the class of the command that searches
  search,    \* "end" for terminateToEnd:, "else" for terminateToElse:
  start,     \* the object it is called with, mostly next_ of the command
  curr,      \* the object it looks at, and in the end the one it returns
  stack,     \* how many commands of the class are open
  scanning   \* FALSE when it has returned

vars == <<chain, self, search, start, curr, stack, scanning>>

given == <<chain, self, search, start>>

-----------------------------------------------------------------------------
Init ==
  /\ chain  \in Chains
  /\ self   \in Openers
  /\ search \in {"end"} \cup (IF elseClass(self) = NoClass THEN {} ELSE {"else"})
  /\ start  \in {Nowhere} \cup DOMAIN chain
  /\ curr     = start
  /\ stack    = 1
  /\ scanning = TRUE

Looking == scanning /\ curr # Nowhere

Kind == KindAt(chain, curr)

\* Fault: the first else, and the end one too late.
FaultyIsOwnElse == search = "else" /\ Kind = elseClass(self)

FaultyIsOwnEnd == Kind = terminatorClass(self) /\ stack = 0

\* The else of a command that is nested is passed over.
IsOwnElse == search = "else" /\ Kind = elseClass(self) /\ stack = 1

IsOwnEnd == Kind = terminatorClass(self) /\ stack = 1

Return ==
  /\ scanning' = FALSE
  /\ UNCHANGED <<given, curr, stack>>

GoOn(depth) ==
  /\ stack' = depth
  /\ curr'  = next_(chain, curr)
  /\ UNCHANGED <<given, scanning>>

Deeper  == Looking /\ Kind = self /\ GoOn(stack + 1)

FindElse == Looking /\ IsOwnElse /\ Return

FindEnd  == Looking /\ IsOwnEnd /\ Return

Shallower == Looking /\ Kind = terminatorClass(self) /\ ~IsOwnEnd /\ GoOn(stack - 1)

PassOver ==
  /\ Looking
  /\ Kind \notin {self, terminatorClass(self)}
  /\ ~IsOwnElse
  /\ GoOn(stack)

Exhausted == scanning /\ curr = Nowhere /\ Return

Next == Deeper \/ FindElse \/ FindEnd \/ Shallower \/ PassOver \/ Exhausted

Spec == Init /\ [][Next]_vars

-----------------------------------------------------------------------------
\* The places where the search may stop.
Stops ==
  Ends(chain, self, start)
    \cup (IF search = "else" THEN OwnElses(chain, self, start) ELSE {})

\* How far it has looked: everything in front of the frontier.
Frontier == IF curr = Nowhere THEN Len(chain) + 1 ELSE curr

\* Every variable has the type the code gives it.
ScanTypeOK ==
  /\ chain    \in Seq(Nodes)
  /\ self     \in Openers
  /\ search   \in {"end", "else"}
  /\ search = "else" => elseClass(self) # NoClass
  /\ start    \in {Nowhere} \cup DOMAIN chain
  /\ curr     \in {Nowhere} \cup DOMAIN chain
  /\ stack    \in Nat
  /\ scanning \in BOOLEAN

\* While it searches, the stack is what separates the openers from the ends it
\* has seen, it is never zero (an unsigned number that would wrap), and no place
\* it has passed was one to stop at.
StackCounts ==
  scanning /\ start # Nowhere =>
    /\ Frontier \in start..(Len(chain) + 1)
    /\ stack > 0
    /\ stack + CountOf(chain, terminatorClass(self), start, Frontier - 1)
         = 1 + CountOf(chain, self, start, Frontier - 1)
    /\ \A p \in start..(Frontier - 1) : p \notin Stops

\* What the searches return is what ScionChain says: the first end that closes
\* as many as were opened, or the first else in front of it that is not nested.
FindsFirst ==
  ~scanning =>
    curr = IF search = "else" THEN terminateToElse(chain, self, start)
           ELSE terminateToEnd(chain, self, start)
=============================================================================
