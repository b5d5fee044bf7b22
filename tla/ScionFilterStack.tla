-------------------------- MODULE ScionFilterStack --------------------------
(***************************************************************************)
(* What the filters promise a template (dox/filter.scion): filters nest;   *)
(* what is written inside goes through every open filter that wants its    *)
(* kind of text, the innermost first, and an endfilter brings the template *)
(* back to where it was before the matching filter.                        *)
(*                                                                         *)
(* There is one stack of open filters, each with its options and with what *)
(* it still holds back.  Nothing is said of how the printer keeps it.      *)
(***************************************************************************)
EXTENDS Naturals, Sequences, SequencesExt

CONSTANTS Filters, Buffering, MaxDepth, MaxText

Kinds   == {"plaintext", "output"}
Options == (SUBSET Kinds) \ {{}}

VARIABLES
  open,     \* the open filters, the innermost last: [filter, options, held]
  output,
  returned,
  fed,
  stopped   \* why the rendering was given up, or "no"

stackVars == <<open, output, returned, fed, stopped>>

\* The levels that take text of a kind.  A buffering one among them lets nothing
\* through to the levels around it.
Takers(stack, kind)  == {l \in DOMAIN stack : kind \in stack[l].options}
Catchers(stack, kind) == {l \in Takers(stack, kind) : stack[l].filter \in Buffering}
Passed(stack, kind)  == {l \in Takers(stack, kind) : \A c \in Catchers(stack, kind) : l > c}

\* The filters text of a kind goes through at once, from the innermost outwards.
Route(stack, kind) ==
  LET way[k \in 0..Len(stack)] ==
        IF k = 0 THEN <<>>
        ELSE LET l == Len(stack) + 1 - k
             IN  IF l \in Passed(stack, kind) THEN Append(way[k - 1], stack[l].filter)
                 ELSE way[k - 1]
  IN  way[Len(stack)]

Routed(stack, kind, text) ==
  [i \in DOMAIN text |-> [text[i] EXCEPT !.by = @ \o Route(stack, kind)]]

Write(stack, kind, text) ==
  IF Catchers(stack, kind) = {}
  THEN open' = stack /\ output' = output \o Routed(stack, kind, text)
  ELSE /\ open' = [stack EXCEPT ![Max(Catchers(stack, kind))].held = @ \o Routed(stack, kind, text)]
       /\ UNCHANGED output

New == << [id |-> fed + 1, by |-> <<>>] >>

-----------------------------------------------------------------------------
Init ==
  /\ open     = <<>>
  /\ output   = <<>>
  /\ returned = <<>>
  /\ fed      = 0
  /\ stopped  = "no"

Open(f, o) ==
  /\ stopped = "no" /\ Len(open) < MaxDepth
  /\ open' = Append(open, [filter |-> f, options |-> o, held |-> <<>>])
  /\ UNCHANGED <<output, returned, fed, stopped>>

OpenFails ==
  /\ stopped = "no" /\ Len(open) < MaxDepth
  /\ stopped' = "filter argument"
  /\ UNCHANGED <<open, output, returned, fed>>

\* What a buffering filter held back is output of the filters around it.
Close ==
  /\ stopped = "no" /\ open # <<>>
  /\ LET top  == Last(open)
         held == [i \in DOMAIN top.held |-> [top.held[i] EXCEPT !.by = Append(@, top.filter)]]
     IN  Write(Front(open), "output", held)
  /\ UNCHANGED <<returned, fed, stopped>>

CloseFails ==
  /\ stopped = "no" /\ open = <<>>
  /\ stopped' = "stray endfilter"
  /\ UNCHANGED <<open, output, returned, fed>>

Text(kind) ==
  /\ stopped = "no" /\ fed < MaxText
  /\ fed' = fed + 1
  /\ Write(open, kind, New)
  /\ UNCHANGED <<returned, stopped>>

\* filter() sees the innermost filter alone.
Apply ==
  /\ stopped = "no" /\ fed < MaxText
  /\ fed' = fed + 1
  /\ LET alone  == IF open = <<>> THEN <<>> ELSE <<Last(open)>>
         caught == Catchers(alone, "output") # {}
     IN  /\ open'     = IF caught THEN [open EXCEPT ![Len(open)].held = @ \o New] ELSE open
         /\ returned' = IF caught THEN returned ELSE returned \o Routed(alone, "output", New)
  /\ UNCHANGED <<output, stopped>>

Next ==
  \/ \E f \in Filters, o \in Options : Open(f, o)
  \/ OpenFails \/ Close \/ CloseFails
  \/ \E kind \in Kinds : Text(kind)
  \/ Apply

Spec == Init /\ [][Next]_stackVars
=============================================================================
