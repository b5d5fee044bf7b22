-------------------------- MODULE MCMongooseFiles --------------------------
(* Constants of MongooseFiles for TLC. *)
EXTENDS MongooseFiles

Request(method, path) ==
  [method |-> method, path |-> path, slash |-> FALSE, user |-> TRUE, cond |-> "none",
   range |-> <<>>, body |-> 0, byte |-> 1]

Slash(r)   == [r EXCEPT !.slash = TRUE]
NoUser(r)  == [r EXCEPT !.user = FALSE]
If(r, c)   == [r EXCEPT !.cond = c]
Part(r, x) == [r EXCEPT !.range = x]
Body(r, n, b) == [r EXCEPT !.body = n, !.byte = b]

F == <<"f">>   \* a file in the document root
D == <<"d">>   \* a directory with an index file, a hidden file and passwords
N == <<"n">>   \* a directory that is not there

AllPaths == {<<>>, D, <<"d", "i">>, <<"d", "h">>, <<"d", "p">>, N, <<"n", "a">>, <<"n", "b">>,
             <<"s">>, <<"c">>, F}
AllDirs  == {<<>>, D}
AllFiles == {<<"d", "i">>, <<"d", "h">>, <<"d", "p">>, <<"s">>, <<"c">>, F}

\* Reading and writing of one file.
FileRequests == { Request("GET", F), If(Request("GET", F), "etag"), If(Request("GET", F), "since"),
                  Body(Request("PUT", F), 2, 1), Request("DELETE", F) }

\* Directories, scripts, passwords, other ranges, clients without permission.
TreeRequests == { Request("GET", D), Slash(Request("GET", D)), NoUser(Slash(Request("GET", D))),
                  Request("GET", <<"d", "h">>), Slash(Request("PROPFIND", D)), Request("DELETE", <<"d", "i">>),
                  Request("DELETE", N), Slash(Request("PUT", N)), Slash(Request("GET", N)),
                  Body(Request("PUT", <<"n", "a">>), 1, 1), Body(Request("PUT", <<"n", "b">>), 0, 2),
                  Body(Request("PUT", N), 1, 3), Request("OPTIONS", F), Request("POST", <<"c">>),
                  Request("PROPFIND", <<"c">>), Request("OPTIONS", <<"c">>), Request("GET", <<"s">>),
                  Body(Request("PUT", <<"d", "i">>), 1, 4), Request("HEAD", F),
                  Part(Request("GET", F), <<1>>), Part(Request("GET", F), <<0, 1>>),
                  Part(Body(Request("PUT", F), 1, 4), <<1>>),
                  Body(Request("PUT", F), 2, 1), Body(Request("PUT", F), 1, 2), Body(Request("PUT", F), -1, 3),
                  NoUser(Request("DELETE", F)), NoUser(Body(Request("PUT", F), 1, 5)) }

FileAndTree == [file |-> [requests |-> FileRequests, max |-> 3, seconds |-> 2],
                tree |-> [requests |-> TreeRequests, max |-> 2, seconds |-> 1]]
IndexI  == <<"i">>
=============================================================================
