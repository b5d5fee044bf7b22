--------------------------- MODULE MCMongooseText ---------------------------
(* MongooseText and MongooseDate for TLC, one of them at a time. *)
EXTENDS MongooseText, MongooseDate

\* The patterns of the options of mongoose.c, of the tests of such patterns, and all of
\* up to three elements.
MCLetters == {"a", "b", "/"}
Elements  == {"a", "/", "?", "*", "**"}
Stars     == {"*", "**"}
Short     == {<<s>> : s \in {t \in UNION {[1..n -> Elements] : n \in 1..3} :
                             \A i \in 2..Len(t) : ~({t[i - 1], t[i]} \subseteq Stars)}}
MCPatterns == Short
  \cup { << <<"**", "a", "$">>, <<"*", "b", "$">> >>, << <<"a", "$">>, <<"**", "/">> >>,
         << <<"*", "a", "?", "$">>, <<"?", "b">>, <<"**", "b", "*">> >>, << <<"$">>, <<"a">> >> }

MCInputs == [match  |-> [chars |-> {"a", "b", "/"}, max |-> 5],
             uri    |-> [chars |-> {"/", ".", "%", "2", "e", "f"}, max |-> 6],
             head   |-> [chars |-> {"r", "n", "c", "x"}, max |-> 7],
             word   |-> [chars |-> {"q", "\\", "x", "sp"}, max |-> 7],
             var    |-> [chars |-> {"a", "=", "&", "+", "%", "2"}, max |-> 6],
             cookie |-> [chars |-> {"a", "=", "sc", "sp", "dq"}, max |-> 7]]

MCInit == CalendarInit /\ text = <<>> /\ asked \in {"date"} \cup DOMAIN MCInputs

MCNext == \/ asked # "date" /\ TextNext /\ UNCHANGED calendar
          \/ asked = "date" /\ NextDay /\ UNCHANGED <<asked, text>>

MCSpec == MCInit /\ [][MCNext]_<<asked, text, calendar>>
=============================================================================
