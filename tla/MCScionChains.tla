--------------------------- MODULE MCScionChains ---------------------------
(***************************************************************************)
(* The two loops that go along the chain of a parsed template: a search    *)
(* for an end or an else (ScionScan), and the expansion of the blocks      *)
(* (ScionBlockExpansion).  A behaviour is one of either; the one that does *)
(* not take place is over from the start.                                  *)
(*                                                                         *)
(* The chains that are searched are made of a command, its else, its end   *)
(* and a class that means nothing to it.  The templates that are expanded  *)
(* are the properly nested ones and those with blocks and endblocks in any *)
(* order; the tables hold blocks that are empty, have text, or have text   *)
(* and a block in them, which may be that block itself or lead back to it. *)
(***************************************************************************)
EXTENDS ScionScan, ScionBlockExpansion, SequencesExt

CONSTANTS
  ScanSize,    \* bound: nodes of a chain that is searched
  Size,        \* bound: nodes of a template, behind its root
  a, b, c,     \* identifiers
  main         \* the file of the templates

chainsVars == <<vars, expansionVars>>

MCIdentifiers == {a, b, c}
MCFiles       == {main, child}

N(kind, id, file) == [kind |-> kind, id |-> id, file |-> file]

Alphabets ==
  { {"if", "else", "endif", "elsefor"}, {"for", "elsefor", "endfor", "else"},
    {"while", "endwhile", "else"}, {"block", "endblock", "template"} }

MCChains ==
  UNION { { [i \in DOMAIN s |-> N(s[i], a, main)] : s \in BoundedSeq(kinds, ScanSize) }
          : kinds \in Alphabets }

Whole(id, file, body) == <<N("block", id, file)>> \o body \o <<N("endblock", a, file)>>

\* The properly nested pieces of at most Size nodes.
Pieces ==
  LET P[n \in 0..Size] ==
        IF n = 0 THEN {<<>>}
        ELSE { <<N("text", a, main)>> \o r : r \in P[n - 1] }
             \cup UNION { { Whole(id, main, body) \o r : body \in P[k], r \in P[n - 2 - k] }
                          : id \in MCIdentifiers, k \in 0..(n - 2) }
  IN  UNION { P[n] : n \in 0..Size }

AnyPieces ==
  BoundedSeq([kind : {"block"}, id : MCIdentifiers, file : {main}] \cup {N("endblock", a, main)},
             Size)

MCTemplates == { <<N("template", a, main)>> \o piece : piece \in Pieces \cup AnyPieces }

Bodies ==
  { <<>>, <<N("text", a, child)>> }
  \cup { <<N("text", a, child)>> \o Whole(id, child, <<>>) : id \in MCIdentifiers }

MCTables ==
  UNION { { [id \in ids |-> Whole(id, child, body[id])] : body \in [ids -> Bodies] }
          : ids \in SUBSET MCIdentifiers }

\* A template of its root alone that has been gone through.
NoExpansion ==
  /\ template = <<N("template", a, main)>>
  /\ table  = [id \in {} |-> <<>>]
  /\ owner  = Nil
  /\ open   = <<>>
  /\ raised = "no"

\* A search from nowhere that has returned.
NoScan ==
  /\ chain = <<N("template", a, main)>>
  /\ self = "block" /\ search = "end"
  /\ start = Nowhere /\ curr = Nowhere
  /\ stack = 1 /\ scanning = FALSE

ChainsInit == (Init /\ NoExpansion) \/ (ExpansionInit /\ NoScan)

ScanStep      == Next /\ UNCHANGED expansionVars
ExpansionStep == ExpansionNext /\ UNCHANGED vars

ChainsNext == ScanStep \/ ExpansionStep

\* One thread, a loop without waiting.
ChainsSpec == ChainsInit /\ [][ChainsNext]_chainsVars /\ WF_expansionVars(ExpansionNext)

=============================================================================
