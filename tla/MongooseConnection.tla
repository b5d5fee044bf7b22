------------------------- MODULE MongooseConnection -------------------------
(***************************************************************************)
(* One worker of the web server and the connections it serves one after    *)
(* the other: process_new_connection, getreq, read_request, pull and       *)
(* forward_body_data of mongoose.c, with the fields of struct              *)
(* mg_connection that outlive a request or a connection.                   *)
(*                                                                         *)
(* A client sends a script of requests as one stream of bytes and closes   *)
(* its end at some point.  A request has a head, which ends in a blank     *)
(* line, and a body of the length it declares.  Only the positions in the  *)
(* stream count: base is that of conn->buf[0].  What lies between two      *)
(* heads is not a request itself and holds no blank line.  A declared      *)
(* length may be any, a negative one too: then no body follows.            *)
(***************************************************************************)
EXTENDS Integers, Sequences, FiniteSetsExt

CONSTANTS
  Settings,      \* servers with their clients, by name: the records below
  BufSize,       \* MAX_REQUEST_SIZE
  IntMax, LongMax  \* the greatest values of int and of int64_t

ASSUME SizeAssumption == BufSize \in Nat \ {0}
ASSUME WidthAssumption == /\ IntMax \in Nat /\ LongMax \in Nat /\ BufSize <= IntMax
                          /\ (LongMax + 1) % (2 * (IntMax + 1)) = 0

\* What strtoll may make of a Content-Length; -1 is also a POST or PUT without one.
Requested == [head : Nat \ {0}, body : -(LongMax + 1)..LongMax, expects : BOOLEAN,
              keep : BOOLEAN, user : BOOLEAN, valid : BOOLEAN]

ASSUME SettingsAssumption == \A name \in DOMAIN Settings : LET s == Settings[name] IN
  /\ s.keepAlive \in BOOLEAN        \* the option enable_keep_alive
  /\ s.handlers \subseteq {"callback", "forward", "refuse"}  \* what handle_request may end in
  /\ s.slow \in BOOLEAN             \* whether clients are slower than request_timeout_ms
  /\ s.full \in BOOLEAN             \* whether a file or script may take no more of a body
  /\ s.connections \in Nat          \* bound: connections of the worker
  /\ s.scripts \subseteq Seq(Requested)  \* what a client may send

VARIABLES
  setting,             \* the name of the server and its clients
  script, sent, eof,   \* the client: its requests, bytes sent, end closed
  connections,
  stopFlag,
  phase,               \* where process_new_connection is
  base, got,           \* stream position of buf[0], bytes taken off the socket
  dataLen, requestLen, contentLen, consumed, status,
  info,                \* whose request is in request_info, 0: nobody's, -1: garbage
  infoKeeps,           \* what its version and Connection header say of keep-alive
  remoteUser,          \* "none", "user" or, left behind, "freed"
  handled              \* the requests handled on this connection, in order

clientVars == <<script, sent, eof>>
stopVars   == <<setting, stopFlag>>
infoVars   == <<info, infoKeeps>>
lenVars    == <<dataLen, requestLen, contentLen, consumed>>
vars == <<stopVars, clientVars, connections, phase, base, got, lenVars, status,
          infoVars, remoteUser, handled>>

Setting == Settings[setting]

\* Numbers that wrap around: a conversion to int, and what an overflow of int64_t may
\* come to.
Wrapped(n, max) == ((n + max + 1) % (2 * (max + 1))) - (max + 1)
AsInt(n)  == Wrapped(n, IntMax)
AsLong(n) == Wrapped(n, LongMax)

-----------------------------------------------------------------------------
(* The stream. *)

Size(request) == request.head + Max({request.body, 0})

\* The positions of the first bytes of the requests, counted from 0, and of the end.
Positions(requests) ==
  LET at[i \in 1..(Len(requests) + 1)] == IF i = 1 THEN 0 ELSE at[i - 1] + Size(requests[i - 1])
  IN  at

Start(i)   == Positions(script)[i]
HeadEnd(i) == Start(i) + script[i].head
StreamLen  == Start(Len(script) + 1)

\* The end of the first head that lies in the buffer.
HeadEnds == {i \in DOMAIN script : HeadEnd(i) > base /\ HeadEnd(i) <= base + dataLen}

\* get_request_len of the buffer.
BufferedRequestLen == IF HeadEnds = {} THEN 0 ELSE Min({HeadEnd(i) : i \in HeadEnds}) - base
RequestAtBase == {i \in HeadEnds : Start(i) = base}

\* What pull may give, asked for at most n bytes, and whether it may give nothing.
Available  == sent - got
Pulled(n)  == IF stopFlag THEN {} ELSE 1..Min({n, Available})

\* Fault: the end of the stream is not noticed.
FaultyPullsNothing == stopFlag

PullsNothing == stopFlag \/ (Available = 0 /\ (eof \/ Setting.slow))

-----------------------------------------------------------------------------
Init ==
  /\ setting \in DOMAIN Settings
  /\ script = <<>> /\ sent = 0 /\ eof = FALSE
  /\ connections = 0 /\ stopFlag = FALSE
  /\ phase = "idle"
  /\ base = 0 /\ got = 0
  /\ dataLen = 0 /\ requestLen = 0 /\ contentLen = 0 /\ consumed = 0 /\ status = 0
  /\ info = 0 /\ infoKeeps = TRUE
  /\ remoteUser = "none" /\ handled = <<>>

\* The client.
Send ==
  /\ phase # "idle" /\ ~eof /\ sent < StreamLen
  /\ sent' \in (sent + 1)..StreamLen
  /\ UNCHANGED <<script, eof, connections, stopVars, phase, base, got, lenVars, status,
                 infoVars, remoteUser, handled>>

CloseEnd ==
  /\ phase # "idle" /\ ~eof
  /\ eof' = TRUE
  /\ UNCHANGED <<script, sent, connections, stopVars, phase, base, got, lenVars, status,
                 infoVars, remoteUser, handled>>

Stop ==
  /\ ~stopFlag
  /\ stopFlag' = TRUE
  /\ UNCHANGED <<setting, clientVars, connections, phase, base, got, lenVars, status,
                 infoVars, remoteUser, handled>>

\* consume_socket gave the worker a socket: the receiving buffer is reset, the
\* rest of the connection is as the last one left it.
Begin ==
  /\ phase = "idle" /\ connections < Setting.connections /\ ~stopFlag
  /\ connections' = connections + 1
  /\ script' \in Setting.scripts /\ sent' = 0 /\ eof' = FALSE
  /\ base' = 0 /\ got' = 0 /\ handled' = <<>>
  /\ dataLen' = 0
  /\ phase' = "getreq"
  /\ UNCHANGED <<stopVars, requestLen, contentLen, consumed, status, infoVars, remoteUser>>

-----------------------------------------------------------------------------
(* getreq. *)

\* reset_per_request_attributes.
ResetRequest ==
  /\ phase = "getreq"
  /\ consumed' = 0 /\ status' = -1 /\ requestLen' = 0
  /\ phase' = "reading"
  /\ UNCHANGED <<clientVars, connections, stopVars, base, got, dataLen, contentLen,
                 infoVars, remoteUser, handled>>

\* read_request reads on.
ReadMore ==
  /\ phase = "reading" /\ BufferedRequestLen = 0
  /\ \E n \in Pulled(BufSize - dataLen) :
       /\ dataLen' = dataLen + n
       /\ got' = got + n
  /\ UNCHANGED <<clientVars, connections, stopVars, phase, base, requestLen, contentLen,
                 consumed, status, infoVars, remoteUser, handled>>

\* The client is gone or too slow, or its head does not fit in the buffer.
\* Nothing of the last request is forgotten.
ReadFails ==
  /\ phase = "reading" /\ BufferedRequestLen = 0
  /\ dataLen = BufSize \/ PullsNothing
  /\ requestLen' = IF dataLen = BufSize THEN 0 ELSE -1
  /\ status' = 500
  /\ phase' = "failed"
  /\ UNCHANGED <<clientVars, connections, stopVars, base, got, dataLen, contentLen,
                 consumed, infoVars, remoteUser, handled>>

\* parse_http_message finds a request, which is good, or has an invalid URI or
\* version and is answered by an error.
ReadRequest ==
  /\ phase = "reading"
  /\ \E i \in RequestAtBase :
       /\ requestLen' = BufferedRequestLen
       /\ info' = i /\ infoKeeps' = script[i].keep
       /\ contentLen' = script[i].body
       /\ IF script[i].valid
          THEN phase' = "handle" /\ UNCHANGED status
          ELSE phase' = "failed" /\ status' = 400
  /\ remoteUser' = "none"
  /\ UNCHANGED <<clientVars, connections, stopVars, base, got, dataLen, consumed, handled>>

\* It finds something else: what is behind the head of another request.  The
\* version it takes for one is not 1.1.
ReadGarbage ==
  /\ phase = "reading" /\ BufferedRequestLen > 0 /\ RequestAtBase = {}
  /\ requestLen' = BufferedRequestLen
  /\ info' = -1 /\ infoKeeps' = FALSE
  /\ remoteUser' = "none"
  /\ status' = 500
  /\ phase' = "failed"
  /\ UNCHANGED <<clientVars, connections, stopVars, base, got, dataLen, contentLen,
                 consumed, handled>>

-----------------------------------------------------------------------------
(* handle_request. *)

\* The request is authorized against a passwords file, if there is one.
Authorized == remoteUser' = IF script[info].user THEN "user" ELSE remoteUser

\* mulle_mongoose_begin_request answers and reads nothing of the body.
Callback ==
  /\ phase = "handle" /\ "callback" \in Setting.handlers
  /\ Authorized
  /\ handled' = Append(handled, info)
  /\ phase' = "answered"
  /\ UNCHANGED <<clientVars, connections, stopVars, base, got, lenVars, status, infoVars>>

\* send_authorization_request.
Refuse ==
  /\ phase = "handle" /\ "refuse" \in Setting.handlers
  /\ handled' = Append(handled, info)
  /\ status' = 401
  /\ phase' = "answered"
  /\ UNCHANGED <<clientVars, connections, stopVars, base, got, lenVars, infoVars, remoteUser>>

\* What forward_body_data takes of the buffer: all that is behind the head, or the
\* declared length, whatever that is as an int.
FirstPart(buffered) ==
  IF buffered = 0 THEN 0 ELSE IF buffered > contentLen THEN AsInt(contentLen) ELSE buffered

\* forward_body_data begins, with what is in the buffer; whether that could be written
\* is not looked at.  Without a length, and for a client that expects anything but
\* "100-continue", an error is sent and no body is read.
Forward ==
  /\ phase = "handle" /\ "forward" \in Setting.handlers
  /\ Authorized
  /\ handled' = Append(handled, info)
  /\ IF contentLen = -1 \/ script[info].expects
     THEN /\ status' = IF contentLen = -1 THEN 411 ELSE 417
          /\ phase' = "answered"
          /\ UNCHANGED consumed
     ELSE /\ consumed' = FirstPart(dataLen - requestLen)
          /\ phase' = "forward"
          /\ UNCHANGED status
  /\ UNCHANGED <<clientVars, connections, stopVars, base, got, dataLen, requestLen,
                 contentLen, infoVars>>

ForwardMore ==
  /\ phase = "forward" /\ consumed < contentLen
  /\ \E n \in Pulled(contentLen - consumed) :
       /\ consumed' = consumed + n
       /\ got' = got + n
  /\ UNCHANGED <<clientVars, connections, stopVars, phase, base, dataLen, requestLen,
                 contentLen, status, infoVars, remoteUser, handled>>

\* What has been read cannot be written, and no more is read.
ForwardFails ==
  /\ phase = "forward" /\ consumed < contentLen /\ Setting.full
  /\ \E n \in Pulled(contentLen - consumed) : got' = got + n
  /\ status' = 577
  /\ phase' = "answered"
  /\ UNCHANGED <<clientVars, connections, stopVars, base, lenVars, infoVars, remoteUser, handled>>

\* The loop ends when all is read, when no more comes, or for a negative length at once.
ForwardEnds ==
  /\ phase = "forward"
  /\ consumed >= contentLen \/ PullsNothing
  /\ status' = IF consumed = contentLen THEN 200 ELSE 577
  /\ phase' = "answered"
  /\ UNCHANGED <<clientVars, connections, stopVars, base, got, lenVars, infoVars,
                 remoteUser, handled>>

-----------------------------------------------------------------------------
(* The end of the loop of process_new_connection. *)

\* Fault: the body is not discarded with the head.
FaultyDiscardLens == {IF requestLen > 0 /\ requestLen < dataLen THEN requestLen ELSE dataLen}

\* Fault: a body of which a part is still to come is discarded as a whole.
FaultyDiscardBody == {IF contentLen >= 0 /\ requestLen > 0 THEN requestLen + contentLen ELSE dataLen}

\* Fault: the next request goes with the one that is done.
FaultyDiscardAll == {dataLen}

\* What is discarded.  The sum may overflow, which is undefined: it may go on counting
\* or wrap.
DiscardLens ==
  IF contentLen >= 0 /\ requestLen > 0
  THEN {IF n < dataLen THEN AsInt(n) ELSE dataLen :
          n \in {requestLen + contentLen, AsLong(requestLen + contentLen)}}
  ELSE {dataLen}

\* should_keep_alive.  When no request was read the headers of the last one
\* are looked at, at places of the buffer that new data may have overwritten.
ShouldKeepAlive ==
  IF phase = "failed" /\ requestLen <= 0 /\ dataLen > 0 THEN BOOLEAN
  ELSE {infoKeeps /\ status # 401}

Finish ==
  /\ phase \in {"answered", "failed"}
  /\ remoteUser' = IF remoteUser = "none" THEN "none" ELSE "freed"
  /\ \E keep \in ShouldKeepAlive :
       phase' = IF ~stopFlag /\ Setting.keepAlive /\ contentLen >= 0 /\ keep THEN "getreq" ELSE "close"
  /\ \E len \in DiscardLens :
       /\ base' = IF dataLen = len THEN got ELSE base + len
       /\ dataLen' = dataLen - len
  /\ UNCHANGED <<clientVars, connections, stopVars, got, requestLen, contentLen, consumed,
                 status, infoVars, handled>>

CloseConnection ==
  /\ phase = "close"
  /\ phase' = "idle"
  /\ UNCHANGED <<clientVars, connections, stopVars, base, got, lenVars, status, infoVars,
                 remoteUser, handled>>

ServerStep == \/ ResetRequest \/ ReadMore \/ ReadFails \/ ReadRequest \/ ReadGarbage
              \/ Callback \/ Refuse \/ Forward \/ ForwardMore \/ ForwardFails
              \/ ForwardEnds \/ Finish \/ CloseConnection

Next == Send \/ CloseEnd \/ Stop \/ Begin \/ ServerStep

Spec == Init /\ [][Next]_vars

\* The worker goes on whenever it can; a client does not stay silent for ever,
\* it sends on or closes its end, or the socket times out.
FairSpec == Spec /\ WF_vars(ServerStep) /\ WF_vars(Send \/ CloseEnd)

-----------------------------------------------------------------------------
TypeOK ==
  /\ sent \in Nat /\ got \in 0..sent /\ base \in 0..got
  /\ phase \in {"idle", "getreq", "reading", "handle", "forward", "answered", "failed", "close"}
  /\ dataLen \in 0..BufSize /\ contentLen \in -(LongMax + 1)..LongMax
  /\ consumed \in Int /\ status \in Int
  /\ info \in Int /\ infoKeeps \in BOOLEAN
  /\ remoteUser \in {"none", "user", "freed"}
  /\ handled \in Seq(Nat)

\* The assertions of getreq, forward_body_data and process_new_connection
\* (lines 2990, 4900, 4991-4995); no more of a body is consumed than it has, and no
\* more than has come.  (Of a length below the range of int the code takes the lower
\* bits for the number of bytes it has.)
LengthsAgree ==
  /\ phase \notin {"idle", "getreq", "close"} =>
       /\ requestLen < 0 \/ requestLen <= dataLen
       /\ DiscardLens \subseteq 0..dataLen
  /\ phase = "forward" =>
       /\ requestLen > 0
       /\ contentLen >= 0 => consumed \in 0..contentLen
       /\ contentLen >= -(IntMax + 1) => consumed <= got - base - requestLen

\* mongoose.h:40 says of remote_user "Authenticated user, or NULL if no auth used": so it
\* is from when a request has been read until it is done.  When none could be read on a
\* connection that was kept, it is the freed one of the last request, in the code too.
UserIsCurrent ==
  \/ phase \in {"handle", "forward", "answered"}
  \/ phase = "failed" /\ requestLen > 0
  => remoteUser # "freed"

\* The types, that the lengths agree, and whose user it is.
ConnectionInv == TypeOK /\ LengthsAgree /\ UserIsCurrent

\* The handlers read the body, of clients that send it in time, and can write what they
\* read; no request is answered by an error before it has a handler or instead of
\* reading its body, and no length makes an overflow.
ReadsBodies ==
  /\ "callback" \notin Setting.handlers /\ ~Setting.slow /\ ~Setting.full
  /\ \A i \in DOMAIN script : /\ script[i].valid /\ script[i].head <= BufSize
                               /\ ~script[i].expects /\ script[i].head + script[i].body <= LongMax

\* The requests of a client are handled in the order sent, each once, and every
\* one from its own first byte: what is left of one never counts as the next, as
\* long as all bodies are read.
InStep ==
  ReadsBodies => /\ \A k \in DOMAIN handled : handled[k] = k
                 /\ phase = "failed" /\ requestLen > 0 => info # -1

\* A request that is sent as a whole is handled, or its connection closed.
Answered ==
  \A i \in 1..2 :
    (ReadsBodies /\ phase # "idle" /\ i \in DOMAIN script /\ sent >= Start(i + 1))
      ~> (i \in DOMAIN handled \/ phase \in {"close", "idle"})

\* A connection ends when its client is gone (comment of lines 5128-5133: "figure out
\* that the client is down and will close the server end"), where connections are
\* not kept alive.
ConnectionEnds == eof /\ ~Setting.keepAlive ~> phase = "idle"
=============================================================================
