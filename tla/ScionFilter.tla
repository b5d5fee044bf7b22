---------------------------- MODULE ScionFilter ----------------------------
(***************************************************************************)
(* The output filters of the printer: MulleScionFilter, MulleScionEndFilter*)
(* and MulleScionFilteredString of MulleScionObjectModel+Printing.m.       *)
(*                                                                         *)
(* The state is what those handlers keep in the `locals` dictionary:       *)
(* __FILTER__, __FILTER_MODE__, __FILTER_STACK__, __FILTER_MODE_STACK__.   *)
(* A key that is not in the dictionary is Nil.  Filters do not follow the  *)
(* block structure of a template (a `filter` may open in an if and close   *)
(* behind it, or open on every turn of a loop), so the sequence of handler *)
(* calls is arbitrary.                                                     *)
(*                                                                         *)
(* A filter in Buffering is an object like Hoedown: it keeps what it is    *)
(* given and hands it back when it is flushed.  Every `filter` command     *)
(* makes a fresh object, hence the buffers are indexed by nesting level.   *)
(*                                                                         *)
(* A string is a sequence of atoms.  An atom remembers which piece of the  *)
(* template it is (id) and the filters it went through, first to last (by).*)
(***************************************************************************)
EXTENDS Naturals, Sequences, SequencesExt

CONSTANTS
  Filters,    \* the filters a template can name
  Buffering,  \* those that buffer until they are flushed
  MaxDepth,   \* bound: how many filters are open at once
  MaxText,    \* bound: how many strings a template renders
  Nil         \* the absent dictionary entry, the nil object

FilterPlaintext           == "plaintext"
FilterOutput              == "output"
FilterApplyStackedFilters == "stacked"

\* What parser_do_filter lets through as the flags of a filter command.
Modes == { {FilterPlaintext}, {FilterOutput}, {FilterPlaintext, FilterOutput} }

Atoms == [id : Nat, by : Seq(Filters)]

ASSUME BufferingAssumption == Buffering \subseteq Filters
ASSUME BoundAssumption     == MaxDepth \in Nat /\ MaxText \in Nat
ASSUME NilAssumption       == /\ Nil \notin Filters
                              /\ Nil \notin Modes
                              /\ Nil \notin Seq(Filters)
                              /\ Nil \notin Seq(Modes)
                              /\ Nil \notin Seq(Atoms)

VARIABLES
  filter,      \* __FILTER__
  mode,        \* __FILTER_MODE__
  filterStack, \* __FILTER_STACK__
  modeStack,   \* __FILTER_MODE_STACK__
  buffers,     \* buffers[l]: what the filter object of level l holds back
  output,      \* what went to the output
  returned,    \* what the filter() function gave back to the template
  fed,         \* how many strings the template rendered so far
  raised,      \* the exception that ended the rendering, or "no"
  again        \* history: a filter was nested where NestsAgain says so

vars   == <<filter, mode, filterStack, modeStack, buffers, output, returned, fed, raised, again>>

-----------------------------------------------------------------------------
\* Length of an array that may be nil, as a message to nil gives 0.
Count(array) == IF array = Nil THEN 0 ELSE Len(array)

\* The locals as the rendering functions read them; Locals' are the ones a
\* handler leaves behind.
Locals == [filter |-> filter, mode |-> mode, filterStack |-> filterStack, modeStack |-> modeStack]

\* How many filters are open.
DepthOf(L) == IF L.filter = Nil THEN 0 ELSE Count(L.filterStack) + 1
Depth      == DepthOf(Locals)

Through(f, text) == [i \in DOMAIN text |-> [text[i] EXCEPT !.by = Append(@, f)]]

\* One filter object evaluates a string.  It yields Nil in place of the
\* string when it keeps it; nothing reaches the filters behind it then.
Evaluate(f, level, acc) ==
  IF f \in Buffering
  THEN [text |-> Nil, buffers |-> [acc.buffers EXCEPT ![level] = @ \o acc.text]]
  ELSE [acc EXCEPT !.text = Through(f, @)]

FilterAt(L, level) == IF level = DepthOf(L) THEN L.filter ELSE L.filterStack[level]

\* Fault: every filter is asked with the mask of the current one.
FaultyMaskAt(L, level) == L.mode

\* The mask of that filter.  The two arrays are walked from their ends, and a
\* mode that is not there has no bit set.
MaskAt(L, level) ==
  LET k == (level + Count(L.modeStack)) - Count(L.filterStack)
  IN  CASE level = DepthOf(L)                                        -> L.mode
        [] level # DepthOf(L) /\ k \in 1..Count(L.modeStack)    -> L.modeStack[k]
        [] level # DepthOf(L) /\ k \notin 1..Count(L.modeStack) -> {}

\* One filter on the way of a string, that of a level, when the string still is
\* there and the filter wants it.
Meet(level, acc, bits, L) ==
  IF /\ acc.text # Nil
     /\ level = DepthOf(L) \/ FilterApplyStackedFilters \in bits
     /\ MaskAt(L, level) \cap bits # {}
  THEN Evaluate(FilterAt(L, level), level, acc)
  ELSE acc

\* MulleScionFilteredString: the current filter, then with the stacked bit all
\* the previous ones, the innermost first.
FilteredString(text, bits, L, bufs) ==
  LET walked[k \in 0..DepthOf(L)] ==
        IF k = 0
        THEN [text |-> text, buffers |-> bufs]
        ELSE Meet(DepthOf(L) + 1 - k, walked[k - 1], bits, L)
  IN  walked[DepthOf(L)]

OutputBits    == {FilterOutput, FilterApplyStackedFilters}
PlaintextBits == {FilterPlaintext, FilterApplyStackedFilters}

\* MulleScionRenderString and MulleScionRenderPlaintextString, with the locals
\* and the buffers there are when they are called.
Render(text, bits, L, bufs) ==
  LET r == FilteredString(text, bits, L, bufs)
  IN  /\ buffers' = r.buffers
      /\ output'  = IF r.text = Nil THEN output ELSE output \o r.text

Fresh == << [id |-> fed + 1, by |-> <<>>] >>

Running == raised = "no"

-----------------------------------------------------------------------------
Init ==
  /\ filter      = Nil
  /\ mode        = Nil
  /\ filterStack = Nil
  /\ modeStack   = Nil
  /\ buffers     = <<>>
  /\ output      = <<>>
  /\ returned    = <<>>
  /\ fed         = 0
  /\ raised      = "no"
  /\ again       = FALSE

\* Fault: only the first mode is pushed.
FaultyPushOneMode ==
  IF filter = Nil
  THEN UNCHANGED <<filterStack, modeStack>>
  ELSE /\ filterStack' = IF filterStack = Nil THEN <<filter>> ELSE Append(filterStack, filter)
       /\ modeStack'   = IF filterStack = Nil THEN <<mode>> ELSE modeStack

\* Fault: making the arrays forgets to push the mode.
FaultyPushFirstMode ==
  IF filter = Nil
  THEN UNCHANGED <<filterStack, modeStack>>
  ELSE /\ filterStack' = IF filterStack = Nil THEN <<filter>> ELSE Append(filterStack, filter)
       /\ modeStack'   = IF filterStack = Nil THEN <<>>
                         ELSE IF modeStack = Nil THEN Nil ELSE Append(modeStack, mode)

\* The first half of -[MulleScionFilter renderInto:].  Both arrays are made when
\* the first one is missing, and only then; adding to a nil array does nothing.
PushCurrentFilter ==
  IF filter = Nil
  THEN UNCHANGED <<filterStack, modeStack>>
  ELSE /\ filterStack' = IF filterStack = Nil THEN <<filter>> ELSE Append(filterStack, filter)
       /\ modeStack'   = IF filterStack = Nil THEN <<mode>>
                         ELSE IF modeStack = Nil THEN Nil ELSE Append(modeStack, mode)

\* A nested group of filters has been closed, and its outermost filter has no stack
\* of modes any more.
NestsAgain == filter # Nil /\ filterStack # Nil /\ modeStack = Nil

RenderFilter(f, m) ==
  /\ Running
  /\ Depth < MaxDepth
  /\ again' = (again \/ NestsAgain)
  /\ PushCurrentFilter
  /\ filter'  = f
  /\ mode'    = m
  /\ buffers' = Append(buffers, <<>>)
  /\ UNCHANGED <<output, returned, fed, raised>>

\* The expression of a filter that is a method is evaluated after the push; it
\* may give nil or an object that cannot filter.
RenderFilterNotAFilter ==
  /\ Running
  /\ Depth < MaxDepth
  /\ again' = (again \/ NestsAgain)
  /\ PushCurrentFilter
  /\ raised' = "filter argument"
  /\ UNCHANGED <<filter, mode, buffers, output, returned, fed>>

\* -[MulleScionEndFilter renderInto:], which has three ways to go.
RenderStrayEndFilter ==
  /\ Running
  /\ filter = Nil
  /\ raised' = "stray endfilter"
  /\ UNCHANGED <<filter, mode, filterStack, modeStack, buffers, output, returned, fed, again>>

\* Fault: the filter is popped without being flushed.
FaultyFlush == buffers' = Front(buffers) /\ UNCHANGED output

\* The innermost filter is flushed first; the string it hands back is rendered
\* as output with the locals and the filter objects that are left.
FlushThroughRemaining ==
  IF filter \in Buffering
  THEN Render(Through(filter, Last(buffers)), OutputBits, Locals', Front(buffers))
  ELSE buffers' = Front(buffers) /\ UNCHANGED output

RenderEndFilterToEnclosing ==
  /\ Running
  /\ filter # Nil
  /\ Count(filterStack) > 0
  /\ filter'      = Last(filterStack)
  /\ filterStack' = Front(filterStack)
  /\ IF Count(modeStack) > 0
     THEN /\ mode'      = Last(modeStack)
          /\ modeStack' = Front(modeStack)
          /\ FlushThroughRemaining
          /\ UNCHANGED raised
     ELSE \* the mode is nil, and a dictionary takes no nil
          /\ raised' = "nil filter mode"
          /\ UNCHANGED <<mode, modeStack, buffers, output>>
  /\ UNCHANGED <<returned, fed, again>>

\* The outermost endfilter drops the filter and the stack of modes, not the
\* mode and not the stack of filters.
RenderEndFilterOutermost ==
  /\ Running
  /\ filter # Nil
  /\ Count(filterStack) = 0
  /\ filter'    = Nil
  /\ modeStack' = Nil
  /\ UNCHANGED <<mode, filterStack, returned, fed, raised, again>>
  /\ FlushThroughRemaining

\* -[MulleScionPlainText renderInto:] and -[MulleScionExpression renderInto:].
RenderText(bits) ==
  /\ Running
  /\ fed < MaxText
  /\ fed' = fed + 1
  /\ Render(Fresh, bits, Locals, buffers)
  /\ UNCHANGED <<filter, mode, filterStack, modeStack, returned, raised, again>>

\* The filter() function: only the current filter, and the result stays in the
\* template.
FilterFunction ==
  /\ Running
  /\ fed < MaxText
  /\ fed' = fed + 1
  /\ LET r == FilteredString(Fresh, {FilterOutput}, Locals, buffers)
     IN  /\ buffers'  = r.buffers
         /\ returned' = IF r.text = Nil THEN returned ELSE returned \o r.text
  /\ UNCHANGED <<filter, mode, filterStack, modeStack, output, raised, again>>

Next ==
  \/ \E f \in Filters, m \in Modes : RenderFilter(f, m)
  \/ RenderFilterNotAFilter
  \/ RenderStrayEndFilter
  \/ RenderEndFilterToEnclosing
  \/ RenderEndFilterOutermost
  \/ RenderText(PlaintextBits)
  \/ RenderText(OutputBits)
  \/ FilterFunction

Spec == Init /\ [][Next]_vars

-----------------------------------------------------------------------------
LocalsTypeOK ==
  /\ filter      \in Filters \cup {Nil}
  /\ mode        \in Modes \cup {Nil}
  /\ filterStack \in Seq(Filters) \cup {Nil}
  /\ modeStack   \in Seq(Modes) \cup {Nil}
  /\ raised      \in {"no", "filter argument", "stray endfilter", "nil filter mode"}

TextTypeOK ==
  /\ buffers  \in Seq(Seq(Atoms))
  /\ output   \in Seq(Atoms)
  /\ returned \in Seq(Atoms)
  /\ fed      \in 0..MaxText

\* What the two assertions of -[MulleScionFilter renderInto:] say: a filter
\* that is installed has its mode beside it, and there is no stack of modes
\* without a stack of filters.
NestingAsserts ==
  /\ filter # Nil => mode # Nil
  /\ filterStack = Nil => modeStack = Nil

\* As long as there is a stack of modes it runs level with the stack of
\* filters, so that every stacked filter is met with its own mode.
StacksAligned == modeStack # Nil => Len(modeStack) = Count(filterStack)

\* The four dictionary entries have the types the code gives them and belong together:
\* each part needs the others to be kept by a push or a pop.
FilterInv == LocalsTypeOK /\ NestingAsserts /\ StacksAligned

\* All the places where text can be.
Texts == <<output, returned>> \o buffers

\* Between them the texts have each of the first n pieces at exactly one place, and
\* nothing else.
EachOnce(texts, n) ==
  /\ \A t \in DOMAIN texts : \A i \in DOMAIN texts[t] : texts[t][i].id \in 1..n
  /\ \A id \in 1..n : \E t \in DOMAIN texts : \E i \in DOMAIN texts[t] : texts[t][i].id = id
  /\ \A t, u \in DOMAIN texts : \A i \in DOMAIN texts[t], j \in DOMAIN texts[u] :
       texts[t][i].id = texts[u][j].id => t = u /\ i = j

\* No string is lost or doubled on its way: as long as nothing was raised,
\* every string a template has rendered is either in the output, or handed back
\* by filter(), or in exactly one of the filter objects that are still open.
NothingLost == TextTypeOK /\ (Running => EachOnce(Texts, fed))

\* RELEASENOTES 1853.1 says that endfilter respects the options of the filter
\* it returns to: it always finds them.
EndFilterFindsOptions == raised # "nil filter mode"

\* It does in the templates whose filters nest in one place only: once the last of a
\* nested group of filters is closed, no filter is nested again.
FindsOptionsOnce == ~again => EndFilterFindsOptions

-----------------------------------------------------------------------------
\* One level per filter object that is alive; a filter command that raised has
\* pushed the current filter and installed none.
OpenFilters ==
  [l \in 1..Len(buffers) |->
     [filter  |-> FilterAt(Locals, l),
      options |-> MaskAt(Locals, l),
      held    |-> buffers[l]]]

Stack == INSTANCE ScionFilterStack WITH open <- OpenFilters, stopped <- raised

\* The printer keeps what dox/filter.scion promises: the dictionary entries are
\* a stack, text takes the route through every open filter that wants it, and
\* endfilter goes back to the enclosing filter with the options it had, as long as
\* filters are nested in one place only.
ImplementsFilterStack == Stack!Init /\ [][again' \/ Stack!Next]_(Stack!stackVars)
=============================================================================
