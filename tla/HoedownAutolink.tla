-------------------------- MODULE HoedownAutolink --------------------------
(***************************************************************************)
(* autolink.c of hoedown: the links found in plain text at "www.", ":" and *)
(* "@".  s is a text, i the position of the character that made the        *)
(* parser look; a result is how much of s from i on belongs to the link    *)
(* and how much before i, which the parser has written already.            *)
(***************************************************************************)
EXTENDS Integers, Sequences, SequencesExt, FiniteSetsExt

Space   == {" ", "\n"}
Digits  == {"1", "2"}
Letters == {"x", "y", "w", "h", "t", "p"}
Alnum   == Letters \cup Digits

From(s, i) == SubSeq(s, i, Len(s))
Upto(s, i) == SubSeq(s, 1, i)
Positions(s, set) == {i \in DOMAIN s : s[i] \in set}
FirstOr(set, default) == IF set = {} THEN default ELSE Min(set)
LastOr(set, default)  == IF set = {} THEN default ELSE Max(set)
Count(s, c) == Len(SelectSeq(s, LAMBDA d : d = c))

NoLink == [n |-> 0, rewind |-> 0]

\* hoedown_autolink_is_safe: the schemes, of which http stands for all.
Http == <<"h", "t", "t", "p", ":", "/", "/">>
IsSafe(s) == Len(s) > Len(Http) /\ IsPrefix(Http, s) /\ s[Len(Http) + 1] \in Alnum

\* The loop of autolink_delim that drops punctuation and entities from the end.
RECURSIVE Trimmed(_)
Trimmed(s) ==
  IF s = <<>> THEN 0
  ELSE IF Last(s) \in {"?", "!", ".", ",", ":"} THEN Trimmed(Front(s))
  ELSE IF Last(s) = ";" THEN
    LET name == LastOr({i \in 1..(Len(s) - 1) : s[i] \notin Letters}, 1)
    IN  Trimmed(Upto(s, IF name < Len(s) - 1 /\ s[name] = "&" THEN name - 1 ELSE Len(s) - 1))
  ELSE Len(s)

Opener == (")" :> "(") @@ ("]" :> "[") @@ ("\"" :> "\"")

\* autolink_delim: how much of s is the link.  A quote counts as opening only.
Delim(s) ==
  LET n     == Trimmed(Upto(s, FirstOr(Positions(s, {"<"}), Len(s) + 1) - 1))
      kept  == Upto(s, n)
      close == kept[n]
      open  == Opener[close]
  IN  IF n = 0 \/ close \notin DOMAIN Opener THEN n
      ELSE IF Count(kept, open) # (IF open = close THEN 0 ELSE Count(kept, close)) THEN n - 1 ELSE n

\* check_domain: its length, or 0.
Domain(s, short) ==
  LET stop == FirstOr({i \in 2..(Len(s) - 1) : s[i] \notin Alnum \cup {".", ":", "-"}},
                      IF Len(s) > 1 THEN Len(s) ELSE 2) - 1
  IN  IF s[1] \notin Alnum \/ ~(short \/ \E i \in 2..stop : s[i] \in {".", ":"}) THEN 0 ELSE stop

WordEnd(s, n) == FirstOr({i \in (n + 1)..Len(s) : s[i] \in Space}, Len(s) + 1) - 1

\* hoedown_autolink__www
Www(s, i) ==
  LET rest == From(s, i) IN
  IF \/ i > 1 /\ s[i - 1] \in Alnum
     \/ ~IsPrefix(<<"w", "w", "w", ".">>, rest)
     \/ Domain(rest, FALSE) = 0
  THEN NoLink
  ELSE [n |-> Delim(Upto(rest, WordEnd(rest, Domain(rest, FALSE)))), rewind |-> 0]

\* How many characters before i are of the set.
Before(s, i, set) == (i - 1) - LastOr({k \in 1..(i - 1) : s[k] \notin set}, 0)

\* hoedown_autolink__email
Email(s, i) ==
  LET rest   == From(s, i)
      rewind == Before(s, i, Alnum \cup {".", "+", "-", "_"})
      stop   == FirstOr({k \in DOMAIN rest : /\ rest[k] \notin Alnum \cup {"@", "-", "_"}
                                             /\ ~(rest[k] = "." /\ k < Len(rest))}, Len(rest) + 1) - 1
      mail   == Upto(rest, stop)
  IN  IF rewind = 0 \/ stop < 2 \/ Count(mail, "@") # 1 \/ Count(mail, ".") = 0 \/ mail[stop] \notin Letters
      THEN NoLink ELSE [n |-> Delim(mail), rewind |-> rewind]

\* hoedown_autolink__url, at the ":".
Url(s, i) ==
  LET rest   == From(s, i)
      rewind == Before(s, i, Letters)
      domain == Domain(From(rest, 4), FALSE)
  IN  IF Len(rest) < 4 \/ ~IsPrefix(<<":", "/", "/">>, rest) \/ ~IsSafe(From(s, i - rewind)) \/ domain = 0
      THEN NoLink
      ELSE [n |-> Delim(Upto(rest, WordEnd(rest, 3 + domain))), rewind |-> rewind]
=============================================================================
