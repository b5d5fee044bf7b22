--------------------------- MODULE HoedownBlocks ---------------------------
(***************************************************************************)
(* The block parser of document.c and the blocks html.c writes.  A text is *)
(* a sequence of lines, a line one of characters; what is parsed as a tag  *)
(* of a block ("<div>", "</div>", "<!--", "-->", "<hr") is one character.  *)
(* A parser gets the lines from its block on and returns how many of them  *)
(* it took.  Alignment, language and layout are left out.                  *)
(***************************************************************************)
EXTENDS HoedownSpan

P     == <<"<p>", "</p>">>
Pre   == <<"<pre>", "</pre>">>
Block == <<"<blockquote>", "</blockquote>">>
Ul    == <<"<ul>", "</ul>">>
Ol    == <<"<ol>", "</ol>">>
Li    == <<"<li>", "</li>">>
Table == <<"<table>", "</table>">>
Tr    == <<"<tr>", "</tr>">>
Th    == <<"<th>", "</th>">>
Td    == <<"<td>", "</td>">>
Header(level) == << <<"<h1>", "<h2>", "<h3>", "<h4>", "<h5>", "<h6>">>[level], "</h>" >>

Fresh(st) == [st EXCEPT !.out = <<>>]
\* What inner has written goes between the two tags to what st has written.
Around(st, tags, inner) == [inner EXCEPT !.out = st.out \o Tagged(tags, @)]

Joined(lines) == FoldLeftDomain(LAMBDA t, k : t \o (IF k = 1 THEN <<>> ELSE <<"\n">>) \o lines[k], <<>>, lines)
Ended(lines)  == FoldLeft(LAMBDA t, l : t \o l \o <<"\n">>, <<>>, lines)

-----------------------------------------------------------------------------
(* What a line is. *)

Indent(l, most) == LET n == RunLen(l, " ") IN IF n > most THEN most ELSE n
IsEmpty(l)  == RunLen(l, " ") = Len(l)
At(l, k, set) == k <= Len(l) /\ l[k] \in set

IsHrule(l) ==
  LET t == From(l, Indent(l, 3) + 1)
  IN  /\ At(t, 1, {"*", "-", "_"})
      /\ Range(t) \subseteq {t[1], " "}
      /\ Count(t, t[1]) >= 3

\* is_codefence: where the fence ends, its width and character; width 0 is no fence.
Fence(l) ==
  LET i == Indent(l, 3)
      n == IF At(l, i + 1, {"tick", "~"}) THEN RunLen(From(l, i + 1), l[i + 1]) ELSE 0
  IN  IF n < 3 THEN [end |-> 0, width |-> 0, chr |-> ""] ELSE [end |-> i + n, width |-> n, chr |-> l[i + 1]]

\* parse_codefence: the line is no code span.
OpensFence(l) ==
  LET f     == Fence(l)
      start == FirstOr({k \in (f.end + 1)..Len(l) : l[k] # " "}, Len(l) + 1)
  IN  f.width > 0 /\ \A k \in start..(Len(l) - 2) : \E j \in k..(k + 2) : l[j] # f.chr

IsAtxHeader(l) == At(l, 1, {"#"})

HeaderLine(l) ==
  IF At(l, 1, {"=", "-"}) /\ IsEmpty(From(l, RunLen(l, l[1]) + 1))
  THEN (IF l[1] = "=" THEN 1 ELSE 2) ELSE 0

PrefixQuote(l) ==
  LET i == Indent(l, 3) + 1
  IN  IF ~At(l, i, {">"}) THEN 0 ELSE IF At(l, i + 1, {" "}) THEN i + 1 ELSE i

PrefixCode(l) == IF RunLen(l, " ") >= 4 THEN 4 ELSE 0

PrefixUli(l) ==
  LET i == Indent(l, 3) + 1
  IN  IF At(l, i, {"*", "+", "-"}) /\ At(l, i + 1, {" "}) THEN i + 1 ELSE 0

PrefixOli(l) ==
  LET i == Indent(l, 3) + 1
      k == FirstOr({j \in i..Len(l) : l[j] \notin Digits}, Len(l) + 1)
  IN  IF k > i /\ At(l, k, {"."}) /\ At(l, k + 1, {" "}) THEN k + 1 ELSE 0

\* With more than its line to look at, prefix_uli and prefix_oli want no header line next.
PrefixItem(lines) ==
  IF Len(lines) > 1 /\ HeaderLine(lines[2]) > 0 THEN 0
  ELSE IF PrefixUli(lines[1]) > 0 THEN PrefixUli(lines[1]) ELSE PrefixOli(lines[1])

-----------------------------------------------------------------------------
(* Blocks that hold no others. *)

Headed(st, level, line, d) == Around(st, Header(level), Inline(Fresh(st), line, d + 1))

\* What is left of the line when the "#"s at its end are taken off, and then the spaces.
AtxHeader(st, l, d) ==
  LET level == Min({RunLen(l, "#"), 6})
      start == level + RunLen(From(l, level + 1), " ")
      end   == LastOr({k \in 1..LastOr({j \in DOMAIN l : l[j] # "#"}, 0) : l[k] # " "}, 0)
  IN  IF end <= start THEN st ELSE Headed(st, level, SubSeq(l, start + 1, end), d)

\* rndr_paragraph: nothing but white space is no paragraph.
AsParagraph(st, lines, d) ==
  LET solid(toks)   == {k \in DOMAIN toks : toks[k] \notin Space}
      written(inner) == IF solid(inner.out) = {} THEN [inner EXCEPT !.out = st.out]
                        ELSE Around(st, P, [inner EXCEPT !.out = From(@, Min(solid(@)))])
  IN  written(Inline(Fresh(st), Joined(lines), d + 1))

\* The line before a header line is the header, the lines before that are a paragraph.
AsHeader(st, lines, level, d) ==
  Headed(IF Len(lines) > 1 THEN AsParagraph(st, Front(lines), d) ELSE st,
         level, IF lines = <<>> THEN <<>> ELSE Last(lines), d)

\* A paragraph ends with an empty line or a header line, or before a line that begins a block.
Begins(l) == IsAtxHeader(l) \/ IsHrule(l) \/ PrefixQuote(l) > 0
ParagraphUpto(st, lines, k, body, d) ==
  IF k <= Len(lines) /\ HeaderLine(lines[k]) > 0 THEN Took(k, AsHeader(st, body, HeaderLine(lines[k]), d))
  ELSE Took(IF k <= Len(lines) /\ IsEmpty(lines[k]) THEN k ELSE k - 1, AsParagraph(st, body, d))

Paragraph(st, lines, d) ==
  LET k == FirstOr({j \in DOMAIN lines : IsEmpty(lines[j]) \/ HeaderLine(lines[j]) > 0 \/ Begins(lines[j])},
                   Len(lines) + 1)
  IN  ParagraphUpto(st, lines, k, Upto(lines, k - 1), d)

\* A fence that is not closed reaches to the end.
FencedCode(st, lines) ==
  LET lang(info)  == Upto(info, FirstOr(Positions(info, {" "}), Len(info) + 1) - 1)
      closes(f)   == {k \in 2..Len(lines) : Fence(lines[k]) = f /\ IsEmpty(From(lines[k], f.end + 1))}
      upto(f, k)  == Took(Min({k, Len(lines)}),
                          Put(st, Tagged(Pre, lang(TrimSpaces(From(lines[1], f.end + 1)))
                                                \o Ended(SubSeq(lines, 2, k - 1)))))
      fenced(f)   == upto(f, FirstOr(closes(f), Len(lines) + 1))
  IN  fenced(Fence(lines[1]))

BlockCode(st, lines) ==
  LET n    == FirstOr({k \in DOMAIN lines : PrefixCode(lines[k]) = 0 /\ ~IsEmpty(lines[k])}, Len(lines) + 1) - 1
      line(l) == LET t == From(l, PrefixCode(l) + 1) IN IF IsEmpty(t) THEN <<>> ELSE t
      code == [k \in 1..n |-> line(lines[k])]
      last == LastOr({k \in 1..n : code[k] # <<>>}, 0)
  IN  Took(n, Put(st, Tagged(Pre, Ended(Upto(code, last)))))

EndsHtml(lines, k) == k = Len(lines) \/ IsEmpty(lines[k + 1])

\* parse_htmlblock: how many lines a block of HTML takes; 0 if there is none.
Close == ("<div>" :> "</div>") @@ ("<ins>" :> "</ins>")
HtmlLines(lines) ==
  LET tag   == lines[1][1]
      ends(k, c)  == \E p \in Positions(lines[k], {c}) : IsEmpty(From(lines[k], p + 1))
      strict == {k \in DOMAIN lines : (k = 1 \/ ~At(lines[k], 1, {" "})) /\ ends(k, Close[tag]) /\ EndsHtml(lines, k)}
      laxist == {k \in DOMAIN lines : ends(k, Close[tag])}
      \* The first c has nothing behind it in its line.
      special(c) ==
        LET k == FirstOr({j \in DOMAIN lines : c \in Range(lines[j])}, 0)
        IN  IF k > 0 /\ IsEmpty(From(lines[k], Min(Positions(lines[k], {c})) + 1)) THEN k ELSE 0
  IN  IF tag \in DOMAIN Close
      THEN IF strict # {} THEN Min(strict) ELSE IF tag = "<ins>" THEN 0 ELSE FirstOr(laxist, 0)
      ELSE IF tag = "<!--" THEN special("-->")
      ELSE IF tag = "<hr" THEN special(">") ELSE 0

-----------------------------------------------------------------------------
(* Tables. *)

\* The dashes and colons below one column.
IsUnder(t) == Len(t) >= 3 /\ \A k \in DOMAIN t : t[k] = "-" \/ (t[k] = ":" /\ k \in {1, Len(t)})

\* How many of the columns are missing from the line below the header.
RECURSIVE Underline(_, _)
Underline(u, columns) ==
  LET bar == FirstOr(Positions(u, {"|", "+"}), Len(u) + 1)
  IN  IF columns = 0 \/ ~IsUnder(TrimSpaces(Upto(u, bar - 1))) THEN columns
      ELSE Underline(From(u, bar + 1), columns - 1)

\* parse_table_header: how many columns; 0 if the lines begin no table.
Columns(lines) ==
  LET head  == TrimRight(lines[1])
      pipes == Count(head, "|")
      inner == pipes - (IF At(head, 1, {"|"}) THEN 1 ELSE 0) - (IF pipes > 0 /\ Last(head) = "|" THEN 1 ELSE 0)
      under == IF At(lines[2], 1, {"|"}) THEN Tail(lines[2]) ELSE lines[2]
  IN  IF pipes = 0 \/ inner < 0 \/ Len(lines) < 2 THEN 0
      ELSE IF Underline(under, inner + 1) > 0 THEN 0 ELSE inner + 1

\* The cells of a row from position i on; one cell and those behind it.
RECURSIVE Cells(_, _, _, _, _, _)
Cell(st, t, start, stop, columns, tags, d) ==
  Cells(Around(st, tags, Inline(Fresh(st), TrimRight(SubSeq(t, start, stop - 1)), d + 1)),
        t, stop + 1, columns - 1, tags, d)

Cells(st, t, i, columns, tags, d) ==
  LET start == FirstOr({k \in i..Len(t) : t[k] \notin Space}, Len(t) + 1)
      len   == Find(From(t, start), "|")
  IN  IF columns = 0 THEN st
      ELSE IF i > Len(t) THEN Cells(Put(st, tags), t, i, columns - 1, tags, d)
      ELSE Cell(st, t, start, IF len = 0 THEN Len(t) + 1 ELSE start + len, columns, tags, d)

TableRow(st, t, columns, tags, d) ==
  Around(st, Tr, Cells(Fresh(st), t, IF At(t, 1, {"|"}) THEN 2 ELSE 1, columns, tags, d + 1))

Rows(st, rows, columns, d) ==
  FoldLeftDomain(LAMBDA s, k : TableRow(s, rows[k], columns, IF k = 1 THEN Th ELSE Td, d), st, rows)

ParseTable(st, lines, d) ==
  LET n    == FirstOr({k \in 3..Len(lines) : Count(lines[k], "|") = 0}, Len(lines) + 1) - 1
      rows == <<TrimRight(lines[1])>> \o SubSeq(lines, 3, n)
  IN  Took(n, Around(st, Table, Rows(Fresh(st), rows, Columns(lines), d + 3)))

-----------------------------------------------------------------------------
(* Blocks that hold blocks. *)

RECURSIVE Blocks(_, _, _)

\* parse_blockquote: up to an empty line with neither a quote nor another one behind it.
Blockquote(st, lines, d) ==
  LET ends(k) == /\ PrefixQuote(lines[k]) = 0 /\ IsEmpty(lines[k])
                 /\ k < Len(lines) => PrefixQuote(lines[k + 1]) = 0 /\ ~IsEmpty(lines[k + 1])
      k    == FirstOr({j \in DOMAIN lines : ends(j)}, Len(lines) + 1)
      work == [j \in 1..(k - 1) |-> From(lines[j], PrefixQuote(lines[j]) + 1)]
  IN  Took(IF k > Len(lines) THEN Len(lines) ELSE k, Around(st, Block, Blocks(Fresh(st), work, d + 1)))

\* The lines of a list item, from line k on.  g is the work buffer, the number of lines
\* in front of a sublist, and what has been noticed.
RECURSIVE Gather(_, _, _, _)

\* What a line is that is not in a fence, or in one.
LineIn(t, fence) ==
  [fence |-> fence, uli |-> ~fence /\ PrefixUli(t) > 0, oli |-> ~fence /\ PrefixOli(t) > 0, rule |-> IsHrule(t)]

\* Line k, which is not empty: t is it without its indent i, l what it is.
GatherLine(lines, k, ordered, g, i, t, l) ==
  LET item  == (l.uli /\ ~l.rule) \/ l.oli
      blank == IF g.empty THEN << <<>> >> ELSE <<>>
  IN  IF item /\ i <= g.indent
      THEN [g EXCEPT !.n = k - 1, !.inside = @ \/ g.empty, !.last = g.empty /\ (IF ordered THEN l.uli ELSE l.oli)]
      ELSE IF ~item /\ g.empty /\ i = 0 THEN [g EXCEPT !.n = k - 1, !.last = TRUE]
      ELSE Gather(lines, k + 1, ordered,
                  [g EXCEPT !.work = @ \o blank \o <<t>>, !.sub = IF item /\ @ = 0 THEN Len(g.work) ELSE @,
                            !.inside = @ \/ g.empty, !.empty = FALSE, !.fence = l.fence])

Gather(lines, k, ordered, g) ==
  LET i == Indent(lines[k], 4)
      t == From(lines[k], i + 1)
  IN  IF k > Len(lines) THEN [g EXCEPT !.n = Len(lines)]
      ELSE IF IsEmpty(lines[k]) THEN Gather(lines, k + 1, ordered, [g EXCEPT !.empty = TRUE])
      ELSE GatherLine(lines, k, ordered, g, i, t, LineIn(t, (Fence(t).width > 0) # g.fence))

\* Fault: an empty line behind the item makes it one that holds blocks.
FaultyHoldsBlocks(block, g) == block \/ g.inside \/ g.empty

HoldsBlocks(block, g) == block \/ g.inside

\* What an item has gathered: the lines in front of a sublist, as blocks or as a span,
\* and those of the sublist as blocks.
Content(st, lines, blocks, d) == IF blocks THEN Blocks(st, lines, d) ELSE Inline(st, Ended(lines), d)

ItemOf(st, g, block, d) ==
  LET sub    == IF g.sub = 0 THEN Len(g.work) ELSE g.sub
      blocks == HoldsBlocks(block, g)
  IN  [n |-> g.n, block |-> blocks, last |-> g.last,
       st |-> Around(st, Li, Blocks(Content(Fresh(st), Upto(g.work, sub), blocks, d + 2), From(g.work, sub + 1), d + 2))]

\* parse_listitem: n is 0 where no item begins, block says that the items hold blocks.
ListItem(st, lines, ordered, block, d) ==
  LET first == From(lines[1], PrefixItem(lines) + 1)
      start == [n |-> 0, work |-> <<first>>, sub |-> 0, indent |-> Indent(lines[1], 3), empty |-> FALSE,
                inside |-> FALSE, fence |-> FALSE, last |-> FALSE]
  IN  IF PrefixItem(lines) = 0 THEN [n |-> 0, st |-> st, block |-> block, last |-> TRUE]
      ELSE ItemOf(st, Gather(lines, 2, ordered, start), block, d)

RECURSIVE Items(_, _, _, _, _, _)
Items(st, lines, n, ordered, block, d) ==
  LET behind(r) == IF r.last THEN Took(n + r.n, r.st)
                   ELSE Items(r.st, lines, n + r.n, ordered, r.block, d)
  IN  IF n = Len(lines) THEN Took(n, st)
      ELSE behind(ListItem(st, From(lines, n + 1), ordered, block, d))

ParseList(st, lines, ordered, d) ==
  LET listed(r) == Took(r.n, Around(st, IF ordered THEN Ol ELSE Ul, r.st))
  IN  listed(Items(Fresh(st), lines, 0, ordered, FALSE, d + 1))

ParseBlock(st, lines, d) ==
  LET l == lines[1] IN
  IF IsAtxHeader(l) THEN Took(1, AtxHeader(st, l, d))
  ELSE IF l # <<>> /\ HtmlLines(lines) > 0 THEN Took(HtmlLines(lines), Put(st, Joined(Upto(lines, HtmlLines(lines)))))
  ELSE IF IsEmpty(l) THEN Took(1, st)
  ELSE IF IsHrule(l) THEN Took(1, Put(st, <<"<hr>">>))
  ELSE IF OpensFence(l) THEN FencedCode(st, lines)
  ELSE IF Columns(lines) > 0 THEN ParseTable(st, lines, d)
  ELSE IF PrefixQuote(l) > 0 THEN Blockquote(st, lines, d)
  ELSE IF PrefixCode(l) > 0 THEN BlockCode(st, lines)
  ELSE IF PrefixItem(lines) > 0 THEN ParseList(st, lines, PrefixUli(l) = 0, d)
  ELSE Paragraph(st, lines, d)

RECURSIVE BlocksFrom(_, _, _)
BlocksFrom(st, lines, d) ==
  LET behind(r) == BlocksFrom(r.st, From(lines, r.n + 1), d)
  IN  IF lines = <<>> THEN st ELSE behind(ParseBlock(st, lines, d))

Blocks(st, lines, d) == IF d > st.max THEN st ELSE BlocksFrom(st, lines, d)
=============================================================================
