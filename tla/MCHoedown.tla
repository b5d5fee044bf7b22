------------------------------ MODULE MCHoedown ------------------------------
(* Constants of Hoedown for TLC. *)
EXTENDS Hoedown

Single(chars) == {<<c>> : c \in chars}
Spans(pieces, max, nesting) ==
  [spans |-> TRUE, pieces |-> pieces, max |-> max, nesting |-> nesting, refs |-> {<<".">>}]
Lines(pieces, max) == [spans |-> FALSE, pieces |-> pieces, max |-> max, nesting |-> 16, refs |-> {}]

Emphases == Single({"*", "_", "tick", "x", "\"", " "})
Escapes  == Single({"*", "\\", "x", "["})
Raised   == Single({"^", "*", "x", "(", ")", " "})
Links    == Single({"!", "[", "]", "x", "."}) \cup { <<"]", "(", ".", ")">>, <<" ", "w", "w", "w", ".", "x", " ">> }

Rule  == <<"tick", "tick", "tick">>
In(n) == [k \in 1..n |-> " "]
Word  == <<"w">>
Empty == <<>>
Item  == <<"-", " ", "w">>

Nested == { Word, Empty, Item, In(2) \o Word, In(2) \o Item, <<">", " ">> \o Item, <<">", " ", "w">>,
            <<"1", ".", " ", "w">>, Rule, In(2) \o Rule }
Plain  == { Word, Empty, <<"#", " ", "w", " ", "#">>, <<"=">>, <<"-", "-", "-">>, <<"*", " ", "*", " ", "*">>,
            In(4) \o Word, In(4), <<"~", "~", "~", "w">>, <<"~", "~", "~">> }
Tables == { <<"w", "|", "w">>, <<"-", "-", "-", "|", "-", "-", "-">>, <<" ", "|", "w">>, <<"-", "-", "-", "|", ":", "-", "-">>, Word, Empty,
            <<">", " ", "w", "|", " ", "w">> }
Html   == { <<"<div>", "w">>, <<"</div>">>, <<" ", "</div>">>, <<"w", "</div>", " ">>, <<"<ins>">>, <<"</ins>">>,
            <<"<!--", "w">>, <<"w", "-->">>, Word, Empty }

MCSamples == [emphases |-> Spans(Emphases, 6, 16), shallow |-> Spans(Emphases, 6, 2),
              escapes |-> Spans(Escapes, 7, 16), raised |-> Spans(Raised, 6, 16),
              links |-> Spans(Links, 6, 16), nested |-> Lines(Nested, 4), plain |-> Lines(Plain, 4),
              tables |-> Lines(Tables, 5), html |-> Lines(Html, 4)]
=============================================================================
