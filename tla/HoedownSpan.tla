---------------------------- MODULE HoedownSpan ---------------------------
(***************************************************************************)
(* The inline parser of document.c with the renderer of html.c, in the     *)
(* configuration of NSData+Hoedown.m: all extensions of blocks and spans.  *)
(* A text is a sequence of characters, what is written one of characters   *)
(* and tags; a tag is a string of its own, the address of a link is left   *)
(* out of it; "tick" is the backtick.  Positions count from 1, offsets and *)
(* results, as in the code, from 0: offset k is the character s[k + 1].    *)
(***************************************************************************)
EXTENDS HoedownAutolink

Escapable == {"\\", "tick", "*", "_", "[", "]", "(", ")", "+", "-", ".", "!", ":", "&", "<", ">", "^", "~", "=", "\"", "$", "#"}

\* How many backslashes are in front of s[i]: an odd number escapes it.
Escaped(s, i) == Before(s, i, {"\\"}) % 2 = 1

RunLen(s, c) == FirstOr({k \in DOMAIN s : s[k] # c}, Len(s) + 1) - 1

TrimSpaces(s) ==
  LET solid == {k \in DOMAIN s : s[k] # " "}
  IN  IF solid = {} THEN <<>> ELSE SubSeq(s, Min(solid), Max(solid))

\* The end of the first run of n characters c behind the offset n, or 0.
ClosingRun(s, c, n) ==
  FirstOr({e \in (2 * n)..Len(s) : \A k \in (e - n + 1)..e : s[k] = c}, 0)

\* find_emph_char: the offset of the next c that is neither escaped nor in a code span
\* or a link; 0 also says there is none.
RECURSIVE FindFrom(_, _, _)

\* The first character of the set behind s[k].
Behind(s, k, set) == FirstOr({j \in (k + 1)..Len(s) : s[j] \in set}, Len(s) + 1)

\* Where the first c in one of the ranges is, as an offset; 0 if nowhere.
InRanges(s, c, ranges) == FirstOr({j \in UNION ranges : s[j] = c}, 1) - 1

\* Past the code span that n ticks at k open and that takes close characters.
PastCodespan(s, c, k, n, close) ==
  IF close = 0 \/ k + close - 1 = Len(s) THEN InRanges(s, c, {(k + n)..Len(s)})
  ELSE FindFrom(s, c, k + close)

\* Past the link the bracket at k opens; next is what follows its text.
PastLink(s, c, k, close, next) ==
  LET inner == InRanges(s, c, {(k + 1)..(close - 1)})
      past(end) == IF end > Len(s) THEN InRanges(s, c, {(k + 1)..(close - 1), (next + 1)..Len(s)})
                   ELSE FindFrom(s, c, end + 1)
  IN  IF next <= Len(s) /\ s[next] \in {"[", "("}
      THEN past(Behind(s, next, {IF s[next] = "[" THEN "]" ELSE ")"}))
      ELSE IF next > Len(s) \/ inner > 0 THEN inner ELSE FindFrom(s, c, next)

FindAt(s, c, k) ==
  LET span(n)     == PastCodespan(s, c, k, n, ClosingRun(From(s, k), "tick", n))
      link(close) == PastLink(s, c, k, close, Behind(s, close, Range(s) \ Space))
  IN  IF Escaped(s, k) THEN FindFrom(s, c, k + 1)
      ELSE IF s[k] = c THEN k - 1
      ELSE IF s[k] = "tick" THEN span(RunLen(From(s, k), "tick")) ELSE link(Behind(s, k, {"]"}))

FindFrom(s, c, i) ==
  LET stops == {k \in i..Len(s) : s[k] \in {c, "[", "tick"}}
  IN  IF stops = {} THEN 0 ELSE FindAt(s, c, Min(stops))

\* Fault: escaped characters are found as well.
FaultyFind(s, c) == FirstOr(Positions(s, {c}), 1) - 1

Find(s, c) == FindFrom(s, c, 1)

-----------------------------------------------------------------------------
(* st is the work buffers beyond which nothing is parsed (max), what has been  *)
(* written (out), whether the content of a link is parsed                      *)
(* (inLink), the names of references and footnotes the document defines, and   *)
(* the footnotes used so far.  A callback of an active character returns st    *)
(* and how many characters it took, 0 when it does not apply.                  *)

Start(max, refs, notes) ==
  [max |-> max, out |-> <<>>, inLink |-> FALSE, refs |-> refs, notes |-> notes, used |-> <<>>]

Took(n, st)   == [n |-> n, st |-> st]
No(st)        == Took(0, st)
Put(st, toks) == [st EXCEPT !.out = @ \o toks]

Em     == <<"<em>", "</em>">>
Under  == <<"<u>", "</u>">>
Strong == <<"<strong>", "</strong>">>
Del    == <<"<del>", "</del>">>
Mark   == <<"<mark>", "</mark>">>
Quote  == <<"<q>", "</q>">>
Sup    == <<"<sup>", "</sup>">>
Code   == <<"<code>", "</code>">>
Math   == <<"<math>", "</math>">>
Anchor == <<"<a>", "</a>">>
Auto   == <<"<a:>", "</a>">>
Image  == <<"<img>", "</img>">>

Tagged(tag, toks) == <<tag[1]>> \o toks \o <<tag[2]>>

RECURSIVE Inline(_, _, _)

\* Fault: what is empty is taken all the same.
FaultyRender(st, tags, s, d, n) ==
  LET inner == Inline([st EXCEPT !.out = <<>>], s, d + 1)
  IN  Took(n, [inner EXCEPT !.out = st.out \o inner.out])

\* newbuf, parse_inline into it, a callback of the renderer that returns 0 when there is
\* nothing in it, popbuf.
Render(st, tags, s, d, n) ==
  LET tagged(inner) ==
        IF inner.out = <<>> THEN No([inner EXCEPT !.out = st.out])
        ELSE Took(n, [inner EXCEPT !.out = st.out \o FoldRight(LAMBDA tag, toks : Tagged(tag, toks), tags, inner.out)])
  IN  tagged(Inline([st EXCEPT !.out = <<>>], s, d + 1))

\* parse_emph1.  An offset at which the text does not end the emphasis is found again at
\* once, as the next search begins there: there is one try.
Emph1(st, t, c, d) ==
  LET from == IF Len(t) > 1 /\ t[1] = c /\ t[2] = c THEN 1 ELSE 0
      upto(k) == IF k = from \/ t[k] \in Space THEN No(st)
                 ELSE Render(st, <<IF c = "_" THEN Under ELSE Em>>, Upto(t, k), d, k + 1)
  IN  upto(from + Find(From(t, from + 1), c))

\* Where parse_emph2 finds its end, searching from offset i on; 0 if nowhere.
RECURSIVE Emph2End(_, _, _)
Emph2End(t, c, i) ==
  LET endsAt(k) == IF k = i THEN 0
                   ELSE IF k + 1 < Len(t) /\ t[k + 2] = c /\ t[k] \notin Space THEN k
                   ELSE Emph2End(t, c, k + 1)
  IN  endsAt(i + Find(From(t, i + 1), c))

Emph2(st, t, c, d) ==
  LET tag     == IF c = "~" THEN Del ELSE IF c = "=" THEN Mark ELSE Strong
      upto(k) == IF k = 0 THEN No(st) ELSE Render(st, <<tag>>, Upto(t, k), d, k + 2)
  IN  upto(Emph2End(t, c, 0))

Less(r, n) == IF r.n = 0 THEN r ELSE [r EXCEPT !.n = @ - n]

Emph3(st, t, c, d) ==
  LET upto(k) ==
        IF k = 0 \/ t[k] \in Space THEN No(st)
        ELSE IF k + 2 < Len(t) /\ t[k + 2] = c /\ t[k + 3] = c
             THEN Render(st, <<Strong, Em>>, Upto(t, k), d, k + 3)
        ELSE IF k + 1 < Len(t) /\ t[k + 2] = c THEN Less(Emph1(st, <<c, c>> \o t, c, d), 2)
        ELSE Less(Emph2(st, <<c>> \o t, c, d), 1)
  IN  upto(Find(t, c))

More(r, n) == IF r.n = 0 THEN r ELSE [r EXCEPT !.n = @ + n]

CharEmphasis(st, s, i, d) ==
  LET t == From(s, i)
      c == s[i]
      n == RunLen(t, c)
      pair == c \in {"~", "="}
  IN  IF n > 3 \/ Len(t) <= n + 1 \/ t[n + 1] \in Space \/ (pair /\ n # 2) THEN No(st)
      ELSE CASE n = 1 -> More(Emph1(st, From(t, 2), c, d), 1)
             [] n = 2 -> More(Emph2(st, From(t, 3), c, d), 2)
             [] n = 3 -> More(Emph3(st, From(t, 4), c, d), 3)

\* A line break takes the spaces before it off what is written.
CharLinebreak(st, s, i) ==
  IF i < 3 \/ s[i - 1] # " " \/ s[i - 2] # " " THEN No(st)
  ELSE Took(1, [st EXCEPT !.out = Upto(@, LastOr({k \in DOMAIN @ : @[k] # " "}, 0)) \o <<"<br>">>])

CharCodespan(st, s, i) ==
  LET t == From(s, i)
      n == RunLen(t, "tick")
      upto(end) == IF end = 0 THEN No(st)
                   ELSE Took(end, Put(st, Tagged(Code, TrimSpaces(SubSeq(t, n + 1, end - n)))))
  IN  upto(ClosingRun(t, "tick", n))

\* The end of a quote opened by n characters, searching from offset i on.
RECURSIVE QuoteEnd(_, _, _)
QuoteEnd(t, n, i) ==
  LET width(start)  == RunLen(From(t, start + 1), "\"")
      endsAt(start) == IF start = i THEN 0
                       ELSE IF width(start) >= n THEN start + n ELSE QuoteEnd(t, n, start + width(start))
  IN  endsAt(i + Find(From(t, i + 1), "\""))

CharQuote(st, s, i, d) ==
  LET t == From(s, i)
      n == RunLen(t, "\"")
      quoted(content, end) == IF content = <<>> THEN No(st) ELSE Render(st, <<Quote>>, content, d, end)
      upto(end) == IF end = 0 THEN No(st) ELSE quoted(TrimSpaces(SubSeq(t, n + 1, end - n)), end)
  IN  upto(QuoteEnd(t, n, n))

\* parse_math, the text between two delimiters.
ParseMath(st, t, end) ==
  LET n     == Len(end)
      found == {k \in (n + 1)..(Len(t) - n + 1) : SubSeq(t, k, k + n - 1) = end /\ ~Escaped(t, k)}
  IN  IF found = {} THEN No(st)
      ELSE Took(Min(found) + n - 1, Put(st, Tagged(Math, SubSeq(t, n + 1, Min(found) - 1))))

CharMath(st, s, i) ==
  IF i < Len(s) /\ s[i + 1] = "$" THEN ParseMath(st, From(s, i), <<"$", "$">>) ELSE No(st)

CharEscape(st, s, i) ==
  LET t    == From(s, i)
      math == IF Len(t) > 2 /\ t[2] = "\\" /\ t[3] \in {"(", "["}
              THEN ParseMath(st, t, <<"\\", "\\", IF t[3] = "(" THEN ")" ELSE "]">>) ELSE No(st)
  IN  IF math.n > 0 THEN math
      ELSE IF Len(t) = 1 THEN Took(2, Put(st, t))
      ELSE IF t[2] \in Escapable THEN Took(2, Put(st, <<t[2]>>)) ELSE No(st)

CharEntity(st, s, i) ==
  LET t    == From(s, i)
      name == IF Len(t) > 1 /\ t[2] = "#" THEN 3 ELSE 2
      end  == FirstOr({k \in name..Len(t) : t[k] \notin Alnum}, Len(t) + 1)
  IN  IF end <= Len(t) /\ t[end] = ";" THEN Took(end, Put(st, Upto(t, end))) ELSE No(st)

\* unscape_text: a backslash at the end is dropped.
RECURSIVE Unescaped(_)
Unescaped(s) ==
  IF s = <<>> \/ s = <<"\\">> THEN <<>>
  ELSE IF Head(s) = "\\" THEN <<s[2]>> \o Unescaped(From(s, 3))
  ELSE <<Head(s)>> \o Unescaped(Tail(s))

\* is_mail_autolink, from the "@" on.
MailEnd(t) ==
  LET gt == FirstOr(Positions(t, Range(t) \ (Alnum \cup {"@", "-", ".", "_"})), 0)
  IN  IF gt > 0 /\ t[gt] = ">" /\ Count(Upto(t, gt), "@") = 1 THEN gt ELSE 0

RECURSIVE UriEnd(_, _)
UriEnd(t, k) == IF k > Len(t) \/ t[k] \in {">", "'", "\"", " ", "\n"} THEN k
                ELSE UriEnd(t, IF t[k] = "\\" THEN k + 2 ELSE k + 1)

\* tag_length: of a tag or an address between angle brackets.
TagLength(t) ==
  LET first  == IF t[2] = "/" THEN 3 ELSE 2
      k      == FirstOr({j \in first..Len(t) : t[j] \notin Alnum \cup {".", "+", "-"}}, Len(t) + 1)
      at(c)  == k <= Len(t) /\ t[k] = c
      mail   == IF at("@") THEN MailEnd(From(t, k)) ELSE 0
      scheme == k > 3 /\ at(":")
      stop   == IF scheme THEN UriEnd(t, k + 1) ELSE k
      tag(n, auto) == [n |-> n, auto |-> auto]
  IN  IF Len(t) < 3 \/ t[first] \notin Alnum THEN tag(0, FALSE)
      ELSE IF mail > 0 THEN tag(k - 1 + mail, TRUE)
      ELSE IF stop > Len(t) THEN tag(0, FALSE)
      ELSE IF scheme /\ stop > k + 1 /\ t[stop] = ">" THEN tag(stop, TRUE)
      ELSE tag(FirstOr({j \in stop..Len(t) : t[j] = ">"}, 0), FALSE)

CharLangle(st, s, i) ==
  LET t == From(s, i)
      written(tag, uri) ==
        IF tag.n = 0 \/ (tag.auto /\ uri = <<>>) THEN No(st)
        ELSE Took(tag.n, Put(st, IF tag.auto THEN Tagged(Anchor, uri) ELSE Upto(t, tag.n)))
      tagged(tag) == written(tag, Unescaped(SubSeq(t, 2, tag.n - 1)))
  IN  tagged(TagLength(t))

\* ob->size -= rewind: right if what is taken off is the n characters of the text before i.
Rewound(st, s, i, n) ==
  [st EXCEPT !.out = IF IsSuffix(SubSeq(s, i - n, i - 1), @) THEN Upto(@, Len(@) - n)
                     ELSE Append(@, "mangled")]

\* char_autolink_www, char_autolink_email, char_autolink_url.
CharAutolink(st, s, i) ==
  LET linked(r) ==
        IF st.inLink \/ r.n = 0 THEN No(st)
        ELSE Took(r.n, Put(Rewound(st, s, i, r.rewind), Tagged(Auto, SubSeq(s, i - r.rewind, i + r.n - 1))))
  IN  linked(CASE s[i] = "w" -> Www(s, i) [] s[i] = "@" -> Email(s, i) [] s[i] = ":" -> Url(s, i))

-----------------------------------------------------------------------------
(* char_link. *)

\* Where the address in parentheses ends: at the one that closes, or a title.
RECURSIVE AddressEnd(_, _, _)
AddressEnd(t, k, nested) ==
  IF k > Len(t) THEN k
  ELSE CASE t[k] = "\\" -> AddressEnd(t, k + 2, nested)
         [] t[k] = "("  -> AddressEnd(t, k + 1, nested + 1)
         [] t[k] = ")"  -> IF nested = 0 THEN k ELSE AddressEnd(t, k + 1, nested - 1)
         [] OTHER       -> IF t[k] \in {"'", "\""} /\ t[k - 1] \in Space THEN k
                           ELSE AddressEnd(t, k + 1, nested)

\* Where a title ends: at a parenthesis behind its second quote.
RECURSIVE TitleEnd(_, _, _, _)
TitleEnd(t, k, quote, open) ==
  IF k > Len(t) \/ (t[k] = ")" /\ ~open) THEN k
  ELSE TitleEnd(t, IF t[k] = "\\" THEN k + 2 ELSE k + 1, quote, open /\ t[k] # quote)

\* A target is an address, the length of the whole link, and the buffers in use for it.
Target(n, address, bufs) == [n |-> n, address |-> address, bufs |-> bufs]
NoTarget == Target(0, <<>>, 0)

TrimRight(s) == Upto(s, LastOr({k \in DOMAIN s : s[k] \notin Space}, 0))
Unbracketed(s) ==
  LET left == IF s # <<>> /\ Head(s) = "<" THEN Tail(s) ELSE s
  IN  IF left # <<>> /\ Last(left) = ">" THEN Front(left) ELSE left

InlineTarget(t, k) ==
  LET start == FirstOr({j \in k..Len(t) : t[j] \notin Space}, Len(t) + 1)
      stop  == AddressEnd(t, start, 0)
      quote == stop <= Len(t) /\ t[stop] # ")"
      end   == IF quote THEN TitleEnd(t, stop + 1, t[stop], TRUE) ELSE stop
      close == LastOr({j \in (stop + 2)..(end - 1) : t[j] \notin Space}, stop + 1)
      title == quote /\ t[close] \in {"'", "\""}
      address == Unbracketed(TrimRight(SubSeq(t, start, (IF title THEN stop ELSE end) - 1)))
      used(b) == IF b THEN 1 ELSE 0
  IN  IF end > Len(t) THEN NoTarget
      ELSE Target(end, address, used(address # <<>>) + used(title /\ close > stop + 1))

\* replace_spacing: a newline becomes a space, or nothing behind one.
ReplaceSpacing(s) ==
  FoldLeftDomain(LAMBDA id, k : IF s[k] # "\n" THEN Append(id, s[k])
                                ELSE IF k > 1 /\ s[k - 1] = " " THEN id ELSE Append(id, " "), <<>>, s)

ReferenceTarget(st, t, k, name) ==
  LET end == FirstOr({j \in k..Len(t) : t[j] = "]"}, 0)
      id  == IF end = k THEN ReplaceSpacing(name) ELSE SubSeq(t, k, end - 1)
  IN  IF end = 0 \/ id \notin st.refs THEN NoTarget ELSE Target(end, id, 1)

ShortcutTarget(st, n, name) ==
  IF ReplaceSpacing(name) \notin st.refs THEN NoTarget ELSE Target(n, name, 1)

\* A footnote is marked at its first use; another one is left as it is written.
Footnote(st, id, n) ==
  IF id = <<>> \/ id \notin st.notes \ Range(st.used) THEN No(st)
  ELSE Took(n, Put([st EXCEPT !.used = Append(@, id)], Tagged(Sup, Tagged(Anchor, <<>>))))

\* The target of the name that ends at txt, by the first solid character behind it.
TargetOf(st, t, txt, name) ==
  LET next  == FirstOr({j \in (txt + 2)..Len(t) : t[j] \notin Space}, Len(t) + 1)
      at(k) == IF k > Len(t) THEN "" ELSE t[k]
  IN  CASE at(next) = "(" -> InlineTarget(t, next + 1)
        [] at(next) = "[" -> ReferenceTarget(st, t, next + 1, name)
        [] OTHER          -> ShortcutTarget(st, txt + 1, name)

LinkTo(st, target, name, d) ==
  LET content == IF name = <<>> THEN [st EXCEPT !.out = <<>>]
                 ELSE [Inline([st EXCEPT !.out = <<>>, !.inLink = TRUE], name, d + target.bufs + 1)
                         EXCEPT !.inLink = FALSE]
  IN  Took(target.n, [content EXCEPT !.out = st.out \o Tagged(Anchor, @)])

\* The "!" in front of an image is taken off what is written, also if the image is refused.
ImageOf(st, target, name) ==
  LET before == [st EXCEPT !.out = IF @ # <<>> /\ Last(@) = "!" THEN Front(@) ELSE @]
  IN  IF Unescaped(target.address) = <<>> THEN No(before)
      ELSE Took(target.n, Put(before, Tagged(Image, name)))

\* The text between the brackets ends at txt.
LinkUpto(st, t, txt, isImg, d) ==
  LET name == SubSeq(t, 2, txt)
      to(target) == IF target.n = 0 THEN No(st)
                    ELSE IF isImg THEN ImageOf(st, target, name) ELSE LinkTo(st, target, name, d)
  IN  IF txt >= Len(t) \/ t[txt + 1] # "]" THEN No(st)
      ELSE IF t[2] = "^" THEN Footnote(st, SubSeq(t, 3, txt), txt + 1)
      ELSE to(TargetOf(st, t, txt, name))

CharLink(st, s, i, d) ==
  LET isImg == i > 1 /\ s[i - 1] = "!" /\ ~Escaped(s, i - 1)
  IN  LinkUpto(st, From(s, i), 1 + Find(From(s, i + 1), "]"), isImg, d)

\* The check for a text that ends before its parenthesis never applies: see Find.
CharSuperscript(st, s, i, d) ==
  LET t     == From(s, i)
      paren == Len(t) > 1 /\ t[2] = "("
      from  == IF paren THEN 3 ELSE 2
      upto(len, n) ==
        IF Len(t) < 2 \/ (paren /\ len = Len(t)) \/ (~paren /\ len = 1) THEN No(st)
        ELSE IF len < from THEN Took(3, st)
        ELSE Took(n, Render(st, <<Sup>>, SubSeq(t, from, len), d, n).st)
      closed(k) == upto(k, k + 1)
      word(k)   == upto(k, k)
  IN  IF paren THEN closed(2 + Find(From(t, 3), ")"))
      ELSE word(FirstOr({k \in 2..Len(t) : t[k] \in Space}, Len(t) + 1) - 1)

-----------------------------------------------------------------------------
(* parse_inline *)

Callback(st, s, i, d) ==
  LET c == s[i] IN
  CASE c \in {"*", "_", "~", "="} -> CharEmphasis(st, s, i, d)
    [] c = "tick" -> CharCodespan(st, s, i)
    [] c = "\n"   -> CharLinebreak(st, s, i)
    [] c = "["    -> CharLink(st, s, i, d)
    [] c = "<"    -> CharLangle(st, s, i)
    [] c = "\\"   -> CharEscape(st, s, i)
    [] c = "&"    -> CharEntity(st, s, i)
    [] c \in {":", "@", "w"} -> CharAutolink(st, s, i)
    [] c = "^"    -> CharSuperscript(st, s, i, d)
    [] c = "\""   -> CharQuote(st, s, i, d)
    [] c = "$"    -> CharMath(st, s, i)
    [] OTHER      -> No(st)

\* What no callback took is written as it is, a character at a time.
RECURSIVE InlineFrom(_, _, _, _)
InlineFrom(st, s, i, d) ==
  LET behind(r) == IF r.n = 0 THEN InlineFrom(Put(r.st, <<s[i]>>), s, i + 1, d)
                   ELSE InlineFrom(r.st, s, i + r.n, d)
  IN  IF i > Len(s) THEN st ELSE behind(Callback(st, s, i, d))

Inline(st, s, d) == IF d > st.max THEN st ELSE InlineFrom(st, s, 1, d)
=============================================================================
