------------------------------ MODULE Hoedown ------------------------------
(***************************************************************************)
(* Paragraphs of a few characters and documents of a few lines, as the     *)
(* parsers of HoedownSpan and HoedownBlocks write them.  The words of a    *)
(* document are numbered, "w" being the next one.                          *)
(***************************************************************************)
EXTENDS HoedownBlocks

CONSTANT Samples
  \* Samples[f]: the texts of family f are put together of pieces, sequences of
  \* characters or lines (spans), as long as they have less than max characters or
  \* lines; nesting is the limit of work buffers, refs the references that are defined.

VARIABLES family, text

Sample == Samples[family]

\* A paragraph has one work buffer in use, a document none.
Written(t) == LET st == Start(Sample.nesting, Sample.refs, {})
              IN  IF Sample.spans THEN Inline(st, t, 1).out ELSE Blocks(st, t, 0).out

Names    == <<"a", "b", "c", "d", "e", "f", "g", "i", "j", "k">>
Words(s) == SelectSeq(s, LAMBDA c : c \in Letters \cup Range(Names))
Source   == IF Sample.spans THEN text ELSE Joined(text)

Numbered(l, n) ==
  [k \in DOMAIN l |-> IF l[k] = "w" THEN Names[n + Cardinality({j \in 1..k : l[j] = "w"})] ELSE l[k]]

-----------------------------------------------------------------------------
Init == family \in DOMAIN Samples /\ text = <<>>

Next ==
  /\ Len(text) < Sample.max
  /\ \E p \in Sample.pieces :
       text' = IF Sample.spans THEN text \o p ELSE Append(text, Numbered(p, Len(Words(Joined(text)))))
  /\ UNCHANGED family

Spec == Init /\ [][Next]_<<family, text>>

-----------------------------------------------------------------------------
\* The code loses a letter behind "^(" if the parenthesis is not closed, and the contents of
\* a superscript or a link beyond the limit of nesting.  A link takes up to three buffers,
\* what else nests one.
BuffersAtMost == 3 * Cardinality(Positions(Source, {"["}))
                 + Cardinality(Positions(Source, {"^", "*", "_", "~", "=", "\""}))
Lossless ==
  /\ \A i \in 1..(Len(Source) - 1) : SubSeq(Source, i, i + 1) # <<"^", "(">>
  /\ Positions(Source, {"[", "^"}) = {} \/ BuffersAtMost + 1 < Sample.nesting

\* Every letter of the text is written once and in its place, whatever spans nest or do not
\* close and whatever blocks it is in (document.h:118 "return 0 prints the span verbatim"),
\* but for the two cases in which the code drops letters.
LettersKept == Lossless => Words(Written(text)) = Words(Source)

EscapedStars == {i \in Positions(text, {"*"}) : Escaped(text, i)}

\* What is_escaped says is never taken for markup (find_emph_char, document.c:521: "not
\* counting escaped chars"), where each bracket and each backtick is escaped too.  In the
\* code one that is begun hides the backslashes behind it, even if it does not close.
EscapedKept ==
  Sample.spans /\ (\A i \in Positions(text, {"tick", "["}) : Escaped(text, i)) =>
    Count(Written(text), "*") >= Cardinality(EscapedStars)

\* A document of which every line is quoted is a quote of what the document is: no block
\* reaches out of its quote or is cut by it.
QuotedText == [k \in DOMAIN text |-> <<">", " ">> \o text[k]]
QuotedWhole(written) == written[QuotedText] = Tagged(Block, written[text])

\* An empty line at the end changes nothing.
Solid(toks) == SelectSeq(toks, LAMBDA c : c \notin Space)
EmptyEnd(written) == Solid(written[Append(text, <<>>)]) = Solid(written[text])

\* The blocks of a document end where it does, within a quote too.
BlocksEnd ==
  ~Sample.spans /\ text # <<>> =>
    \A written \in {[t \in {text, QuotedText, Append(text, <<>>)} |-> Written(t)]} :
      QuotedWhole(written) /\ EmptyEnd(written)
=============================================================================
