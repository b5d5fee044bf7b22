---------------------------- MODULE ScionNesting ----------------------------
(***************************************************************************)
(* Properly nested templates: what an author writes and the parser then    *)
(* makes of it (MulleScionParser+Parsing.m), though no code checks it.     *)
(* The commands are matched like brackets, with a stack of those open.     *)
(***************************************************************************)
EXTENDS ScionChain

Innermost(s) == s[Len(s)]

\* The commands that are open in front of each place, the outermost first.
Nesting(chain) ==
  LET open[p \in 1..(Len(chain) + 1)] ==
        IF p = 1 THEN <<>>
        ELSE IF chain[p - 1].kind \in Openers THEN Append(open[p - 1], p - 1)
        ELSE IF chain[p - 1].kind \in Closers /\ open[p - 1] # <<>>
             THEN SubSeq(open[p - 1], 1, Len(open[p - 1]) - 1)
        ELSE open[p - 1]
  IN  open

\* The command whose end or else a place would be.
Owns(around, c, p) == around[p] # <<>> /\ Innermost(around[p]) = c

\* Every end is the one of its command, and every command has one.
EndsMatch(chain, around) ==
  /\ around[Len(chain) + 1] = <<>>
  /\ \A p \in DOMAIN chain :
       chain[p].kind \in Closers =>
         \E c \in DOMAIN chain : Owns(around, c, p) /\ chain[p].kind = terminatorClass(chain[c].kind)

\* So is every else, and a command has one at most.
ElsesMatch(chain, around) ==
  \A p \in DOMAIN chain :
    isElse(chain[p].kind) =>
      \E c \in DOMAIN chain :
        /\ Owns(around, c, p) /\ chain[p].kind = elseClass(chain[c].kind)
        /\ \A q \in DOMAIN chain : isElse(chain[q].kind) /\ Owns(around, c, q) => q = p

\* Files are included between commands.
IncludesOutside(chain, around) ==
  \A p \in DOMAIN chain : chain[p].kind = "template" => around[p] = <<>>

\* Loops in loops have variables of their own.
VariablesDiffer(chain, around) ==
  \A p \in DOMAIN chain :
    chain[p].kind = "for" =>
      \A i \in DOMAIN around[p] :
        chain[around[p][i]].kind = "for" => chain[around[p][i]].id # chain[p].id

\* The file that the text at a place comes from: a block is of the file that
\* defined it last, and behind an included file there is a marker.
Source(chain, around, p) ==
  LET blocks == {i \in DOMAIN around[p] : chain[around[p][i]].kind = "block"}
  IN  IF blocks # {}
      THEN chain[around[p][Max(blocks)]].file
      ELSE chain[Max({q \in 1..(p - 1) : chain[q].kind = "template"})].file

FilesMarked(chain, around) ==
  \A p \in DOMAIN chain :
    chain[p].kind \in {"text", "if", "for", "while"} => chain[p].file = Source(chain, around, p)

\* A properly nested template.
Proper(chain) ==
  LET around == Nesting(chain)
  IN  /\ EndsMatch(chain, around)
      /\ ElsesMatch(chain, around)
      /\ IncludesOutside(chain, around)
      /\ VariablesDiffer(chain, around)
      /\ FilesMarked(chain, around)
=============================================================================
