------------------------ MODULE MCMongooseConnection ------------------------
(* Constants of MongooseConnection for TLC. *)
EXTENDS MongooseConnection

Request(body, keep, user, valid) ==
  [head |-> 2, body |-> body, expects |-> FALSE, keep |-> keep, user |-> user, valid |-> valid]

\* GET, POST of one and of three bytes, POST without a length, a request that
\* ends the connection, one that is authenticated, one with an invalid URI, and
\* a head that does not fit in a buffer of four.
Requests == { Request(0, TRUE, FALSE, TRUE), Request(1, TRUE, FALSE, TRUE),
              Request(3, TRUE, TRUE, TRUE),  Request(-1, TRUE, FALSE, TRUE),
              Request(0, FALSE, TRUE, TRUE), Request(1, TRUE, FALSE, FALSE),
              [Request(1, TRUE, FALSE, TRUE) EXCEPT !.head = 5] }

MCScripts == {<<>>} \cup {<<a>> : a \in Requests} \cup {<<a, b>> : a, b \in Requests}

\* Lengths that are negative, as an int or not, and one with which a sum overflows; and
\* an expectation that is not met.  Another request follows.
Odd == { Request(-2, TRUE, FALSE, TRUE), Request(-15, TRUE, FALSE, TRUE),
         Request(15, TRUE, FALSE, TRUE),
         [Request(1, TRUE, FALSE, TRUE) EXCEPT !.expects = TRUE] }
OddScripts == {<<a, Request(1, TRUE, TRUE, TRUE)>> : a \in Odd}

\* Every request has a handler and a head that fits.
HandledScripts == {s \in MCScripts : \A i \in DOMAIN s : s[i].head = 2 /\ s[i].valid}
  \cup {<<Request(1, TRUE, FALSE, TRUE), Request(-2, TRUE, FALSE, TRUE)>>}

\* Connections kept alive, with all handlers and clients; with odd requests; with
\* handlers that read the body; the server as the tool starts it.
MCSettings ==
  [ any |-> [keepAlive |-> TRUE, handlers |-> {"callback", "forward", "refuse"}, slow |-> TRUE,
     full |-> TRUE, scripts |-> MCScripts, connections |-> 1],
    odd |-> [keepAlive |-> TRUE, handlers |-> {"callback", "forward"}, slow |-> TRUE,
     full |-> TRUE, scripts |-> OddScripts, connections |-> 1],
    reading |-> [keepAlive |-> TRUE, handlers |-> {"forward", "refuse"}, slow |-> FALSE,
     full |-> FALSE, scripts |-> HandledScripts, connections |-> 1],
    closing |-> [keepAlive |-> FALSE, handlers |-> {"callback"}, slow |-> TRUE,
     full |-> FALSE, scripts |-> MCScripts, connections |-> 2] ]
=============================================================================
