--------------------------- MODULE MCScionPrinter ---------------------------
(***************************************************************************)
(* The printer on small templates: all the properly nested ones of a size  *)
(* (with files included between commands and blocks of other files), all   *)
(* orders of commands whatsoever of a smaller size, and the ones that      *)
(* include a file inside of a command.                                     *)
(***************************************************************************)
EXTENDS ScionPrinter, SequencesExt

CONSTANTS
  Size,      \* bound: nodes of a properly nested template
  AnySize,   \* bound: nodes of an arbitrary one
  main, child

MCFiles       == {main, child}
MCIdentifiers == {"x", "y", "z"}

\* Loops in loops have variables of their own.
IdAt(depth) == CASE depth = 0 -> "x" [] depth = 1 -> "y" [] OTHER -> "z"

N(kind, f, depth) == [kind |-> kind, id |-> IdAt(depth), file |-> f]

Root == N("template", main, 0)

\* A command with its body, and one with an alternative.
Whole(kind, f, d, body) == <<N(kind, f, d)>> \o body \o <<N(terminatorClass(kind), f, d)>>

Divided(kind, f, d, body, rest) ==
  <<N(kind, f, d)>> \o body \o <<N(elseClass(kind), f, d)>> \o rest
    \o <<N(terminatorClass(kind), f, d)>>

\* The properly nested pieces of n nodes.  A block stands for one that was
\* replaced by that of another file.
Pieces ==
  LET P[n \in 0..Size, d \in 0..Size, f \in MCFiles] ==
        IF n = 0 THEN {<<>>}
        ELSE UNION {
          { <<N("text", f, d)>> \o r : r \in P[n - 1, d, f] },
          IF n < 2 THEN {}
          ELSE UNION { { Whole(kind, f, d, b) \o r : b \in P[k, d + 1, f], r \in P[n - 2 - k, d, f] }
                       : kind \in {"if", "for", "while"}, k \in 0..(n - 2) },
          IF n < 2 THEN {}
          ELSE UNION { { Whole("block", child, d, b) \o r
                           : b \in P[k, d + 1, child], r \in P[n - 2 - k, d, f] }
                       : k \in 0..(n - 2) },
          IF n < 3 THEN {}
          ELSE UNION { { Divided(kind, f, d, b, e) \o r
                           : b \in P[s[1], d + 1, f], e \in P[s[2], d + 1, f],
                             r \in P[(n - 3) - (s[1] + s[2]), d, f] }
                       : kind \in {"if", "for"},
                         s \in {t \in (0..(n - 3)) \X (0..(n - 3)) : t[1] + t[2] <= n - 3} }
        }
  IN  P

Nested(n) == Pieces[n, 0, main]

NestedChains == UNION { { <<Root>> \o c : c \in Nested(n) } : n \in 0..Size }

\* A file that is included between commands, with the marker behind it.
Included(n) == { <<N("template", child, 0)>> \o c \o <<Root>> : c \in Pieces[n, 0, child] }

IncludingChains ==
  UNION { { <<Root>> \o a \o i \o b : a \in Nested(s[1]), i \in Included(s[2]), b \in Nested(s[3]) }
          : s \in {t \in (0..Size) \X (0..Size) \X (0..Size) : t[1] + t[2] + t[3] <= Size - 2} }

ProperChains == NestedChains \cup IncludingChains

\* A file that is included inside of an if or a loop.
IncludingInside ==
  { <<Root>> \o Whole(kind, main, 0, i) : kind \in {"if", "for", "while"}, i \in Included(1) }

\* Whatever the parser lets through.  All its loops have the same variable.
AnyChains ==
  { <<N("template", main, 2)>> \o [i \in DOMAIN s |-> N(s[i], main, 2)]
    : s \in BoundedSeq(Kinds, AnySize) }

MCChains == ProperChains \cup AnyChains

\* The ones that are made here are what ScionNesting calls properly nested.
ASSUME MadeProperly == \A c \in ProperChains : Proper(c)
=============================================================================
