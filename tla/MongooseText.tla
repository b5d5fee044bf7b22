---------------------------- MODULE MongooseText ----------------------------
(***************************************************************************)
(* The functions of mongoose.c that take requests apart: match_prefix,     *)
(* url_decode, remove_double_dots_and_double_slashes, get_request_len,     *)
(* skip_quoted, mg_get_var, mg_get_cookie, each against a definition of    *)
(* what it is for.  A state is a function and a text to give it; the next  *)
(* ones have a text a character longer, as more of it arrives.  "sp" is a  *)
(* space, "sc" a semicolon, "dq" a double quote.                           *)
(***************************************************************************)
EXTENDS Integers, Sequences, FiniteSets, SequencesExt, FiniteSetsExt

CONSTANTS
  Inputs,     \* Inputs[f]: alphabet and greatest length of the texts for function f
  Letters,    \* characters of patterns that match themselves
  Patterns    \* patterns to match: alternatives, each a sequence of elements

\* What the documentation of the options calls a pattern: a "$" ends it, and stars do
\* not follow one another.
ASSUME PatternsAssumption ==
  /\ Letters \cap {"|", "$", "?", "*", "**"} = {}
  /\ \A p \in Patterns :
       /\ p \in Seq(Seq(Letters \cup {"$", "?", "*", "**"})) /\ p # <<>>
       /\ \A a \in DOMAIN p : \A k \in 1..(Len(p[a]) - 1) :
            p[a][k] # "$" /\ ~({p[a][k], p[a][k + 1]} \subseteq {"*", "**"})

VARIABLES
  asked,      \* the function that is tried, for good
  text

From(s, i) == SubSeq(s, i, Len(s))
Upto(s, i) == SubSeq(s, 1, i)
PlacesOf(s, set) == {i \in DOMAIN s : s[i] \in set}
FirstOr(set, default) == IF set = {} THEN default ELSE Min(set)

-----------------------------------------------------------------------------
(* match_prefix: length of what the pattern matches at the beginning of s, or -1. *)

Plus(n, m) == IF m = -1 THEN -1 ELSE n + m

\* Fault: a star takes all it can and gives nothing back.
FaultyStar(j, most, rest) == Plus(most, rest[j + most])

\* A star at j that could take most characters, and what the rest of the pattern
\* matches behind it.
Star(j, most, rest) ==
  LET takes == {n \in 0..most : rest[j + n] # -1}
  IN  IF takes = {} THEN -1 ELSE Max(takes) + rest[j + Max(takes)]

\* What a pattern without bars matches from its place i on, at each place of s, if
\* match has that for the places behind i.
MatchRow(p, s, match, i) ==
  [j \in 1..(Len(s) + 1) |->
    IF i > Len(p) THEN 0
    ELSE IF p[i] = "$" THEN IF j > Len(s) THEN 0 ELSE -1
    ELSE IF p[i] = "*" THEN
      LET any == i < Len(p) /\ p[i + 1] = "*"
          end == IF any THEN Len(s) + 1 ELSE FirstOr({k \in j..Len(s) : s[k] = "/"}, Len(s) + 1)
      IN  Star(j, end - j, match[i + (IF any THEN 2 ELSE 1)])
    ELSE IF j <= Len(s) /\ p[i] \in {"?", s[j]} THEN Plus(1, match[i + 1][j + 1])
    ELSE -1]

MatchOne(p, s) ==
  LET match[i \in 1..(Len(p) + 1)] == MatchRow(p, s, match, i)
  IN  match[1][1]

\* Its parts between bars, from i on, one after the other.
MatchPrefix(p, s) ==
  LET match[i \in 1..(Len(p) + 1)] ==
        LET bars  == {b \in i..Len(p) : p[b] = "|"}
            first == MatchOne(SubSeq(p, i, Min(bars) - 1), s)
        IN  IF bars = {} THEN MatchOne(From(p, i), s)
            ELSE IF first > 0 THEN first ELSE match[Min(bars) + 1]
  IN  match[1]

-----------------------------------------------------------------------------
(* url_decode and remove_double_dots_and_double_slashes. *)

\* The codes of "/" and ".", and others; "x" is what the others stand for.
Codes == {"2", "e", "f"} \X {"2", "e", "f"}
Escaped(code) == IF code = <<"2", "f">> THEN "/" ELSE IF code = <<"2", "e">> THEN "." ELSE "x"

\* A round of the loop: b is what was written and how much of s was read.
DecodeRound(s, form, b) ==
  LET i == b.read + 1
  IN  IF b.read = Len(s) THEN b
      ELSE IF s[i] = "%" /\ i + 2 <= Len(s) /\ <<s[i + 1], s[i + 2]>> \in Codes
      THEN [text |-> Append(b.text, Escaped(<<s[i + 1], s[i + 2]>>)), read |-> b.read + 3]
      ELSE [text |-> Append(b.text, IF form /\ s[i] = "+" THEN "sp" ELSE s[i]), read |-> b.read + 1]

Decoded(s, form) ==
  LET done[n \in Nat] == IF n = 0 THEN [text |-> <<>>, read |-> 0] ELSE DecodeRound(s, form, done[n - 1])
  IN  done

\* dstLen counts the final zero.
UrlDecodeTo(s, form, dstLen) == Decoded(s, form)[dstLen - 1]

UrlDecode(s) == UrlDecodeTo(s, FALSE, Len(s) + 1).text

Slashes == {"/", "\\"}

IsDots(s, i) == i < Len(s) /\ s[i] = "." /\ s[i + 1] = "."

\* Fault: dots or a slash are skipped once.
FaultySkipDots(s) ==
  [i \in 1..(Len(s) + 1) |-> IF i <= Len(s) /\ s[i] \in Slashes THEN i + 1
                            ELSE IF IsDots(s, i) THEN i + 2 ELSE i]

\* Where the inner loop ends that begins at i.
SkipDots(s) ==
  LET skip[i \in 1..(Len(s) + 1)] ==
        IF i <= Len(s) /\ s[i] \in Slashes THEN skip[i + 1]
        ELSE IF IsDots(s, i) THEN skip[i + 2] ELSE i
  IN  skip

\* What is left of s from i on.
RemoveDots(s) ==
  LET left[i \in 1..(Len(s) + 1)] ==
        IF i > Len(s) THEN <<>>
        ELSE <<s[i]>> \o left[IF s[i] \in Slashes THEN SkipDots(s)[i + 1] ELSE i + 1]
  IN  left[1]

\* What handle_request makes of the URI of a request.
Canonical(uri) == RemoveDots(UrlDecode(uri))

-----------------------------------------------------------------------------
(* get_request_len.  "r", "n": carriage return, line feed; "c": another control *)
(* character. *)

\* Where the loop is when it ends, and what it has found.
HeadEndsAt(s, i) == IF s[i] = "n" /\ s[i + 1] = "n" THEN i + 1
                    ELSE IF s[i] = "n" /\ i + 2 <= Len(s) /\ s[i + 1] = "r" /\ s[i + 2] = "n" THEN i + 2
                    ELSE 0

RequestLen(s) ==
  LET found == {i \in 1..(Len(s) - 1) : s[i] = "c" \/ HeadEndsAt(s, i) > 0}
  IN  IF found = {} THEN 0
      ELSE IF s[Min(found)] = "c" THEN -1 ELSE HeadEndsAt(s, Min(found))

-----------------------------------------------------------------------------
(* skip_quoted with the quote character "\", one delimiter and one whitespace: the *)
(* word it leaves and where it goes on.  The word is closed up in place. *)

NextDelimiter(s, delimiter, from) == FirstOr({k \in from..Len(s) : s[k] = delimiter}, Len(s) + 1)

\* The last character of the word is the quote.
EndsQuoted(word) == word # <<>> /\ word[Len(word)] = "\\"
Shortened(word)  == Upto(word, Len(word) - 1)

\* A round of the loop moves what is up to the next delimiter over the quote.
UnquoteRound(s, delimiter, b) ==
  LET next == NextDelimiter(s, delimiter, b.end + 1)
  IN  IF b.end > Len(s) \/ ~EndsQuoted(b.word) THEN b
      ELSE [word |-> Shortened(b.word) \o SubSeq(s, b.end, next - 1), end |-> next]

\* Fault: a delimiter is taken for quoted only once in a word.
FaultyUnquote(s, delimiter, end) == UnquoteRound(s, delimiter, [word |-> Upto(s, end - 1), end |-> end])

Unquote(s, delimiter, end) ==
  LET round[n \in Nat] == IF n = 0 THEN [word |-> Upto(s, end - 1), end |-> end]
                          ELSE UnquoteRound(s, delimiter, round[n - 1])
  IN  round[Len(s)]

\* Whitespace is skipped from i on.
SkipWhite(s, whitespace, i) == FirstOr({k \in i..Len(s) : s[k] # whitespace}, Len(s) + 1)

\* A quote that nothing follows is cut off.
SkipQuoted(s, delimiter, whitespace) ==
  LET left == Unquote(s, delimiter, NextDelimiter(s, delimiter, 1))
  IN  [word |-> IF left.end > Len(s) /\ EndsQuoted(left.word) THEN Shortened(left.word) ELSE left.word,
       rest |-> From(s, SkipWhite(s, whitespace, left.end + 1))]

-----------------------------------------------------------------------------
(* mg_get_var and mg_get_cookie for the name <<"a">>: the value, or -1 or -2. *)

NotFound == [error |-> -1, value |-> <<>>]
TooSmall == [error |-> -2, value |-> <<>>]
Found(v) == [error |-> 0, value |-> v]

GetVar(data, dstLen) ==
  LET at == {i \in 1..(Len(data) - 1) : /\ i = 1 \/ data[i - 1] = "&"
                                        /\ data[i] = "a" /\ data[i + 1] = "="}
      value == From(data, Min(at) + 2)
      coded == Upto(value, FirstOr(PlacesOf(value, {"&"}), Len(value) + 1) - 1)
      d     == UrlDecodeTo(coded, TRUE, dstLen)
  IN  IF at = {} THEN NotFound ELSE IF d.read < Len(coded) THEN TooSmall ELSE Found(d.text)

\* mg_get_cookie: the first "a" followed by "=".  The value goes to the next space, a
\* semicolon and quotes around it are left out.
GetCookie(s, dstLen) ==
  LET at     == {i \in 1..(Len(s) - 1) : s[i] = "a" /\ s[i + 1] = "="}
      start  == Min(at) + 2
      space  == FirstOr({i \in start..Len(s) : s[i] = "sp"}, Len(s) + 1)
      stop   == IF s[space - 1] = "sc" THEN space - 1 ELSE space
      quoted == stop > start + 1 /\ s[start] = "dq" /\ s[stop - 1] = "dq"
      value  == IF quoted THEN SubSeq(s, start + 1, stop - 2) ELSE SubSeq(s, start, stop - 1)
  IN  IF at = {} THEN NotFound ELSE IF Len(value) < dstLen THEN Found(value) ELSE TooSmall

-----------------------------------------------------------------------------
TextInit == asked \in DOMAIN Inputs /\ text = <<>>
TextNext == /\ Len(text) < Inputs[asked].max
            /\ \E c \in Inputs[asked].chars : text' = Append(text, c)
            /\ UNCHANGED asked
TextSpec == TextInit /\ [][TextNext]_<<asked, text>>

\* Where an element can go from a set of positions in the text.
Advance(e, from) ==
  CASE e = "**" -> {n \in 0..Len(text) : \E m \in from : m <= n}
    [] e = "*"  -> {n \in 0..Len(text) : \E m \in from : m <= n /\ \A k \in (m + 1)..n : text[k] # "/"}
    [] e = "$"  -> from \cap {Len(text)}
    [] e = "?"  -> {m + 1 : m \in from \ {Len(text)}}
    [] OTHER    -> {m + 1 : m \in {k \in from \ {Len(text)} : text[k + 1] = e}}

\* The lengths a pattern without alternatives matches.
Matched(p) ==
  LET reach[k \in 0..Len(p)] == IF k = 0 THEN {0} ELSE Advance(p[k], reach[k - 1])
  IN  reach[Len(p)]

\* A pattern as it is written, its elements and its alternatives one after the other.
Flat(p)    == FlattenSeq([k \in DOMAIN p |-> IF p[k] = "**" THEN <<"*", "*">> ELSE <<p[k]>>])
Written(p) == FlattenSeq([a \in DOMAIN p |-> IF a = 1 THEN Flat(p[a]) ELSE <<"|">> \o Flat(p[a])])

\* match_prefix finds something exactly if the pattern matches something, and what it
\* finds is such a match.  (Its callers tell apart what is greater than 0.)
MatchesRight == asked = "match" =>
  \A p \in Patterns :
    LET n   == MatchPrefix(Written(p), text)
        all == UNION {Matched(p[i]) : i \in DOMAIN p}
    IN  /\ n > 0 <=> \E m \in all : m > 0
        /\ n > 0 => n \in all

\* No name in the path handed to the file system begins with two dots, none is empty
\* (mongoose.c:1872 "removing '..', excessive '/' and '\' characters").
NoDoubleDots == asked = "uri" =>
  LET s == Canonical(text) IN
  \A i \in 1..(Len(s) - 1) : s[i] \in Slashes => /\ s[i + 1] \notin Slashes
                                                 /\ ~(i + 2 <= Len(s) /\ s[i + 1] = "." /\ s[i + 2] = ".")

\* However the head arrives in parts: read_request asks after every part, and what it
\* has been told once stays true.
RequestLenStays == asked = "head" =>
  \A k \in DOMAIN text : RequestLen(Upto(text, k)) # 0 => RequestLen(text) = RequestLen(Upto(text, k))

\* mongoose.c:757-760: the word ends at the first delimiter that is not quoted, and
\* quoted delimiters are in it without their quote; the delimiter and the whitespace
\* that follows it are skipped.
Quoted(i) == i > 1 /\ text[i - 1] = "\\"
SkipsQuoted == asked = "word" =>
  LET ends  == {i \in DOMAIN text : text[i] = "q" /\ ~Quoted(i)}
      end   == FirstOr(ends, Len(text) + 1)
      gone  == {i \in 1..(end - 1) : text[i] = "\\" /\ (i = Len(text) \/ text[i + 1] = "q")}
      kept  == (1..(end - 1)) \ gone
      left  == SkipQuoted(text, "q", "sp")
      rest  == From(text, end + 1)
  IN  /\ Len(left.word) = Cardinality(kept)
      /\ \A i \in kept : left.word[Cardinality({k \in kept : k <= i})] = text[i]
      /\ left.rest = From(rest, FirstOr(DOMAIN rest \ PlacesOf(rest, {"sp"}), Len(rest) + 1))

\* mongoose.h:205-212: length of the variable, -1 if there is none, -2 if the buffer
\* does not hold it.
GetsVar == asked = "var" =>
  LET decoded(value) == UrlDecodeTo(value, TRUE, Len(value) + 1).text
      starts == {i \in DOMAIN text : (i = 1 \/ text[i - 1] = "&") /\ IsPrefix(<<"a", "=">>, From(text, i))}
      value  == From(text, Min(starts) + 2)
      want   == decoded(Upto(value, FirstOr(PlacesOf(value, {"&"}), Len(value) + 1) - 1))
  IN  \A dstLen \in 1..4 :
        GetVar(text, dstLen) = IF starts = {} THEN NotFound
                               ELSE IF Len(want) < dstLen THEN Found(want) ELSE TooSmall

\* mongoose.h:219 "Fetch value of certain cookie variable": cookies are separated by
\* "; ", and it is the first of the name, if no other has a name that ends in it; its
\* value is what is between the quotes, if it has such.
InQuotes(value) == Len(value) > 1 /\ value[1] = "dq" /\ value[Len(value)] = "dq"
GetsCookie == asked = "cookie" =>
  LET named == {i \in DOMAIN text : IsPrefix(<<"a", "=">>, From(text, i))}
      first == Min(named)
      item  == Upto(From(text, first + 2), FirstOr(PlacesOf(From(text, first + 2), {"sp"}),
                                                   Len(text) - first) - 1)
      value == IF item # <<>> /\ item[Len(item)] = "sc" THEN Shortened(item) ELSE item
      want  == IF InQuotes(value) THEN Tail(Shortened(value)) ELSE value
  IN  (\A i \in named : i = 1 \/ text[i - 1] = "sp") =>
        \A dstLen \in 1..4 :
          GetCookie(text, dstLen) = IF named = {} THEN NotFound
                                    ELSE IF Len(want) < dstLen THEN Found(want) ELSE TooSmall

\* The functions that read the head of a request and what is in it.
ReadsRight == RequestLenStays /\ SkipsQuoted /\ GetsVar /\ GetsCookie
=============================================================================
