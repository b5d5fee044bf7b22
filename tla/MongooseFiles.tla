---------------------------- MODULE MongooseFiles ----------------------------
(***************************************************************************)
(* What handle_request of mongoose.c does with a request that              *)
(* begin_request left alone: workers that serve, list, store and remove    *)
(* files of one file system at the same time.                              *)
(*                                                                         *)
(* A path is a sequence of names below the document root.  A file is a     *)
(* node; a worker that has opened one keeps it when its path is removed.   *)
(* The file system changes, and seconds pass, between any two calls of a   *)
(* worker.                                                                 *)
(***************************************************************************)
EXTENDS Integers, Sequences, SequencesExt, FiniteSetsExt

CONSTANTS
  Workers,
  Paths,          \* the paths there can be, <<>> is the document root
  InitialDirs, InitialFiles,  \* paths; a file holds two bytes at the beginning
  Passwords,      \* the name of the passwords files
  HiddenNames,    \* option hide_files_patterns
  IndexFiles,     \* option index_files, a sequence of names
  CgiNames, SsiNames,         \* options cgi_pattern and ssi_pattern
  Listing, DocumentRoot, PutPasswords, \* options that are set or not
  Mixes           \* Mixes[m]: the requests clients make, how many, in how many seconds

ASSUME OptionAssumption == {Listing, DocumentRoot, PutPasswords} \subseteq BOOLEAN

\* Files and directories are in directories.
ASSUME TreeAssumption ==
  /\ Paths \subseteq Seq(STRING) /\ IndexFiles \in Seq(STRING) /\ \A p \in Paths \ {<<>>} : Front(p) \in Paths
  /\ <<>> \in InitialDirs /\ InitialDirs \cup InitialFiles \subseteq Paths
  /\ InitialDirs \cap InitialFiles = {} /\ IsFiniteSet(InitialFiles)
  /\ \A p \in (InitialDirs \cup InitialFiles) \ {<<>>} : Front(p) \in InitialDirs

Methods == {"GET", "HEAD", "POST", "CONNECT", "PUT", "DELETE", "OPTIONS", "PROPFIND"}

\* What a client asks for: slash if the path ends with one, user if his name and
\* password are right, cond if he has a copy, the first byte and maybe the last of a
\* range, and how many bytes he sends (-1 if he does not say), which are all the same.
Requested == [method : Methods, path : Paths, slash : BOOLEAN, user : BOOLEAN,
              cond : {"none", "etag", "since"}, range : {r \in Seq(Nat) : Len(r) <= 2},
              body : Nat \cup {-1}, byte : Nat]

ASSUME MixAssumption == \A m \in DOMAIN Mixes :
  Mixes[m].max \in Nat /\ Mixes[m].seconds \in Nat /\ Mixes[m].requests \subseteq Requested

VARIABLES
  now,       \* the clock, in seconds, at most Mixes[mix].seconds
  fs,        \* fs[p]: None, Dir, or the number of a node
  store,     \* store[n]: modification time and bytes of node n
  job,       \* job[w]: the request worker w is at
  copies,    \* history: the complete answers clients have, with their Etag
  served,    \* the number of requests taken, at most Mixes[mix].max
  mix        \* one of Mixes, for good

vars == <<now, fs, store, job, copies, served, mix>>

None == 0
Dir  == -1
NoStat == [node |-> None, mtime |-> 0, data |-> <<>>]
IdleJob == [pc |-> "idle", stat |-> NoStat, heads |-> 0]

-----------------------------------------------------------------------------
(* The file system. *)

\* mg_stat: data stands for the size, and for what there was to be read then.  What
\* changes in a directory is not dated, it counts as changed just now.
Stat(p) == IF fs[p] > 0 THEN [node |-> fs[p], mtime |-> store[fs[p]].mtime, data |-> store[fs[p]].data]
           ELSE [NoStat EXCEPT !.node = fs[p], !.mtime = IF fs[p] = Dir THEN now ELSE 0]

\* construct_etag.
Etag(stat) == <<stat.mtime, Len(stat.data)>>

\* must_hide_file.
Hidden(p) == p # <<>> /\ Last(p) \in HiddenNames \cup {Passwords}

\* The directory a passwords file is looked for in, by open_auth_file.
AuthDir(p) == IF p = <<>> \/ fs[p] = Dir THEN p ELSE Front(p)

PasswordsFor(p) == LET file == Append(AuthDir(p), Passwords)
                   IN  file \in Paths /\ fs[file] > 0

\* Jobs that looked at node n before worker w changed it.
Touch(w, n, jobs) ==
  [v \in Workers |-> IF v # w /\ jobs[v].pc # "idle" /\ n \in {jobs[v].stat.node, jobs[v].node}
                     THEN [jobs[v] EXCEPT !.touched = TRUE] ELSE jobs[v]]

-----------------------------------------------------------------------------
Init ==
  /\ now = 1 /\ served = 0 /\ copies = {} /\ mix \in DOMAIN Mixes
  /\ LET order == SetToSeq(InitialFiles) IN
       fs = [p \in Paths |-> IF p \in InitialDirs THEN Dir
                             ELSE IF p \in InitialFiles THEN CHOOSE n \in DOMAIN order : order[n] = p
                             ELSE None]
  /\ store = [n \in 1..Cardinality(InitialFiles) |-> [mtime |-> 0, data |-> <<9, 9>>]]
  /\ job = [w \in Workers |-> IdleJob]

\* A second passes.
Tick == /\ now < Mixes[mix].seconds /\ now' = now + 1
        /\ UNCHANGED <<fs, store, job, copies, served, mix>>

\* A request is read, its URI converted to a path and that looked up.
Take(w) ==
  /\ job[w].pc = "idle" /\ served < Mixes[mix].max
  /\ served' = served + 1
  /\ \E r \in Mixes[mix].requests :
     \E copy \in IF r.cond = "none" THEN {<<>>} ELSE {c \in copies : c.path = r.path} :
       job' = [job EXCEPT ![w] =
         [pc |-> "decide", req |-> r, copy |-> copy, path |-> r.path, stat |-> Stat(r.path),
          node |-> None, dirs |-> <<>>, pos |-> 0, left |-> 0, buf |-> <<>>,
          status |-> -1, length |-> -1, sent |-> <<>>, listed |-> {}, heads |-> 0,
          touched |-> FALSE, gone |-> FALSE, at |-> now]]
  /\ UNCHANGED <<now, fs, store, copies, mix>>

\* What a client keeps of a complete answer; end of the request.
Finish(w) ==
  /\ job[w].pc = "done"
  /\ copies' = IF job[w].req.method = "GET" /\ job[w].status = 200 /\ job[w].node > 0
                  /\ Len(job[w].sent) = job[w].length /\ job[w].path = job[w].req.path
               THEN copies \cup {[path |-> job[w].path, etag |-> Etag(job[w].stat), data |-> job[w].sent,
                                at |-> job[w].at]}
               ELSE copies
  /\ job' = [job EXCEPT ![w] = IdleJob]
  /\ UNCHANGED <<now, fs, store, served, mix>>

-----------------------------------------------------------------------------
(* The decision: the first condition that holds, in the order of the code. *)

PutOrDelete(r) == r.method \in {"PUT", "DELETE"}

\* check_authorization of a client whose user name and password are right, or not.
CheckAuthorization(w) == PasswordsFor(job[w].path) => job[w].req.user

\* Fault: files are stored without asking.
FaultyAuthorizedForPut(r) == TRUE

\* PUT_DELETE_PASSWORDS_FILE and is_authorized_for_put.
AuthorizedForPut(r) == PutPasswords /\ r.user

\* Fault: the dates are compared the other way round.
FaultyIsNotModified(w) ==
  CASE job[w].req.cond = "etag"  -> Etag(job[w].stat) = job[w].copy.etag
    [] job[w].req.cond = "since" -> job[w].stat.mtime >= job[w].copy.etag[1]
    [] OTHER -> FALSE

\* is_not_modified.
IsNotModified(w) ==
  CASE job[w].req.cond = "etag"  -> Etag(job[w].stat) = job[w].copy.etag
    [] job[w].req.cond = "since" -> job[w].stat.mtime <= job[w].copy.etag[1]
    [] OTHER -> FALSE

First(cases) == cases[CHOOSE i \in DOMAIN cases : cases[i][1] /\ \A k \in 1..(i - 1) : ~cases[k][1]][2]

FileCases(w) ==
  LET name == IF job[w].path = <<>> THEN Passwords ELSE Last(job[w].path)
      cgi  == name \in CgiNames
      run  == job[w].req.method \in {"POST", "HEAD", "GET"}
  IN  << <<cgi /\ ~run, "unimplemented">>, <<cgi, "cgi">>, <<name \in SsiNames, "ssi">>,
         <<IsNotModified(w), "unmodified">>, <<TRUE, "open">> >>

Cases(w) ==
  LET r == job[w].req
      s == job[w].stat
  IN  << <<~PutOrDelete(r) /\ ~CheckAuthorization(w), "unauthorized">>,
         <<r.method = "OPTIONS", "options">>,
         <<~DocumentRoot, "notfound">>,
         <<PutOrDelete(r) /\ ~AuthorizedForPut(r), "unauthorized">>,
         <<r.method = "PUT", "put">>,
         <<r.method = "DELETE", "delete">>,
         <<s.node = None \/ Hidden(job[w].path), "notfound">>,
         <<s.node = Dir /\ ~r.slash, "moved">>,
         <<r.method = "PROPFIND", "propfind">>,
         <<s.node = Dir, "index">>,
         <<TRUE, First(FileCases(w))>> >>

Decide(w) ==
  /\ job[w].pc = "decide"
  /\ job' = [job EXCEPT ![w].pc = First(Cases(w))]
  /\ UNCHANGED <<now, fs, store, copies, served, mix>>

-----------------------------------------------------------------------------
(* Answers.  A length of -1 is an answer that gives none. *)

Answered(j, pc, status, length) ==
  [j EXCEPT !.pc = pc, !.status = status, !.length = length, !.heads = @ + 1]

Answer(w, status, length) ==
  /\ job' = [job EXCEPT ![w] = Answered(@, "done", status, length)]
  /\ UNCHANGED <<now, fs, store, copies, served, mix>>

\* The answers that need nothing of the file system.
Status == [unauthorized |-> 401, options |-> 200, notfound |-> 404, moved |-> 301,
           unimplemented |-> 501, unmodified |-> 304]

AnswerOnly(w) ==
  /\ job[w].pc \in DOMAIN Status
  /\ Answer(w, Status[job[w].pc], IF job[w].pc \in {"options", "moved"} THEN -1 ELSE 0)

\* mg_remove: a file, or a directory with nothing in it.
Delete(w) ==
  LET p == job[w].path
      removable == fs[p] > 0 \/ (fs[p] = Dir /\ p # <<>> /\ \A q \in Paths : q # <<>> /\ Front(q) = p => fs[q] = None)
  IN  /\ job[w].pc = "delete"
      /\ fs' = IF removable THEN [fs EXCEPT ![p] = None] ELSE fs
      /\ job' = [job EXCEPT ![w] = Answered(@, "done", IF removable THEN 200 ELSE 500, 0)]
      /\ UNCHANGED <<now, store, copies, served, mix>>

\* Fault: everything of a directory is listed.
FaultyEntries(p) == {q \in Paths \ {<<>>} : Front(q) = p /\ fs[q] # None}

\* scan_directory.
Entries(p) == {q \in Paths \ {<<>>} : Front(q) = p /\ fs[q] # None /\ ~Hidden(q)}

\* handle_propfind: the entries are left out of the answer when the directory is gone.
PropFind(w) ==
  /\ job[w].pc = "propfind"
  /\ job' = [job EXCEPT ![w] = [Answered(@, "done", 207, -1) EXCEPT
       !.listed = IF Listing /\ job[w].stat.node = Dir THEN Entries(job[w].path) ELSE {}]]
  /\ UNCHANGED <<now, fs, store, copies, served, mix>>

\* substitute_index_file, and what is done when there is none.
Index(w) ==
  LET p     == job[w].path
      found == {i \in DOMAIN IndexFiles : /\ Append(p, IndexFiles[i]) \in Paths
                                          /\ fs[Append(p, IndexFiles[i])] # None}
      q     == Append(p, IndexFiles[Min(found)])
  IN  /\ job[w].pc = "index"
      /\ job' = IF found # {} THEN [job EXCEPT ![w].pc = "file", ![w].path = q, ![w].stat = Stat(q),
                                                 ![w].at = now]
                ELSE IF Listing THEN [job EXCEPT ![w].pc = "list"]
                ELSE [job EXCEPT ![w] = Answered(@, "done", 403, 0)]
      /\ UNCHANGED <<now, fs, store, copies, served, mix>>

DecideFile(w) ==
  /\ job[w].pc = "file"
  /\ job' = [job EXCEPT ![w].pc = First(FileCases(w))]
  /\ UNCHANGED <<now, fs, store, copies, served, mix>>

\* handle_directory_request.
List(w) ==
  /\ job[w].pc = "list"
  /\ job' = [job EXCEPT ![w] = IF fs[job[w].path] # Dir THEN Answered(@, "done", 500, 0)
                               ELSE [Answered(@, "done", 200, -1) EXCEPT !.listed = Entries(job[w].path)]]
  /\ UNCHANGED <<now, fs, store, copies, served, mix>>

\* handle_ssi_file_request and handle_cgi_request answer, or fail to.
Script(w) ==
  /\ job[w].pc \in {"cgi", "ssi"}
  /\ \/ fs[job[w].path] # None /\ Answer(w, 200, -1)
     \/ (job[w].pc = "cgi" \/ fs[job[w].path] = None) /\ Answer(w, 500, 0)

-----------------------------------------------------------------------------
(* handle_file_request. *)

\* Content-Length, of a file of the size given.  Range is <<>>, <<first>> or
\* <<first, last>>.
RangeLength(size, range) ==
  CASE Len(range) = 2 -> (IF range[2] > size THEN size ELSE range[2]) - range[1] + 1
    [] Len(range) = 1 -> size - range[1]
    [] OTHER          -> size

RangeStart(range) == IF range = <<>> THEN 0 ELSE range[1]

OpenFile(w) ==
  LET j      == job[w]
      n      == fs[j.path]
      length == RangeLength(Len(j.stat.data), j.req.range)
  IN  /\ j.pc = "open"
      /\ job' = [job EXCEPT ![w] =
           IF n = None THEN Answered(j, "done", 500, 0)
           ELSE [Answered(j, IF j.req.method = "HEAD" THEN "done" ELSE "send",
                          IF j.req.range = <<>> THEN 200 ELSE 206, length) EXCEPT
                   !.node = n, !.pos = RangeStart(j.req.range), !.left = length,
                   !.touched = @ \/ n # j.stat.node]]
      /\ UNCHANGED <<now, fs, store, copies, served, mix>>

\* Fault: a file that ends early is waited for.
FaultyAtEnd(j) == j.left <= 0

\* The bytes there are to read; fread of a directory gives none.
Readable(j) == IF j.node = Dir THEN <<>> ELSE store[j.node].data

\* fread gives nothing, or there is nothing left to send.
AtEnd(j) == j.left <= 0 \/ j.pos >= Len(Readable(j))

\* send_file_data.
SendData(w) ==
  LET j == job[w] IN
  /\ j.pc = "send" /\ ~AtEnd(j) /\ j.pos < Len(Readable(j))
  /\ job' = [job EXCEPT ![w].sent = Append(@, Readable(j)[j.pos + 1]),
                        ![w].pos = @ + 1, ![w].left = @ - 1]
  /\ UNCHANGED <<now, fs, store, copies, served, mix>>

\* The loop ends,
SendEnds(w) ==
  /\ job[w].pc = "send" /\ AtEnd(job[w])
  /\ job' = [job EXCEPT ![w].pc = "done"]
  /\ UNCHANGED <<now, fs, store, copies, served, mix>>

\* or the client has gone.
SendFails(w) ==
  /\ job[w].pc = "send" /\ ~AtEnd(job[w])
  /\ job' = [job EXCEPT ![w].pc = "done", ![w].gone = TRUE]
  /\ UNCHANGED <<now, fs, store, copies, served, mix>>

-----------------------------------------------------------------------------
(* put_file. *)

\* The status is decided, and the directories put_dir makes are listed.
Put(w) ==
  LET p == job[w].path
      above == [i \in 1..(IF job[w].req.slash THEN Len(p) ELSE Len(p) - 1) |-> SubSeq(p, 1, i)]
  IN  /\ job[w].pc = "put"
      /\ job' = [job EXCEPT ![w].pc = "putdir", ![w].dirs = above,
                            ![w].status = IF fs[p] # None THEN 200 ELSE 201]
      /\ UNCHANGED <<now, fs, store, copies, served, mix>>

\* put_dir asks for a directory,
TestDir(w) ==
  /\ job[w].pc = "putdir" /\ job[w].dirs # <<>>
  /\ job' = IF fs[Head(job[w].dirs)] # None THEN [job EXCEPT ![w].dirs = Tail(@)]
            ELSE [job EXCEPT ![w].pc = "mkdir"]
  /\ UNCHANGED <<now, fs, store, copies, served, mix>>

\* makes it when there was nothing, and fails if there is something now.
MakeDir(w) ==
  LET d == Head(job[w].dirs)
      fine == fs[d] = None /\ fs[Front(d)] = Dir
  IN  /\ job[w].pc = "mkdir"
      /\ fs' = IF fine THEN [fs EXCEPT ![d] = Dir] ELSE fs
      /\ job' = IF fine THEN [job EXCEPT ![w].pc = "putdir", ![w].dirs = Tail(@)]
                ELSE [job EXCEPT ![w] = Answered(@, "done", 500, 0)]
      /\ UNCHANGED <<now, store, copies, served, mix>>

\* A path that ends in a slash is a directory and done.
DirPut(w) ==
  /\ job[w].pc = "putdir" /\ job[w].dirs = <<>> /\ job[w].req.slash
  /\ Answer(w, job[w].status, -1)

Truncated(n) == [store EXCEPT ![n] = [mtime |-> now, data |-> <<>>]]

\* mg_fopen( "wb+"): a new file, or an old one that loses its contents.
OpenPut(w) ==
  LET j == job[w]
      p == j.path
      new == Len(store) + 1
      n == IF fs[p] = None THEN new ELSE fs[p]
      opened == [j EXCEPT !.pc = "store", !.node = n, !.pos = RangeStart(j.req.range),
                          !.left = j.req.body, !.touched = FALSE,
                          !.status = IF j.req.range = <<>> THEN @ ELSE 206]
  IN  /\ j.pc = "putdir" /\ j.dirs = <<>> /\ ~j.req.slash
      /\ IF fs[p] = Dir \/ p = <<>> \/ fs[Front(p)] # Dir
         THEN /\ job' = [job EXCEPT ![w] = Answered(j, "done", 500, 0)]
              /\ UNCHANGED <<fs, store>>
         ELSE /\ fs' = [fs EXCEPT ![p] = n]
              /\ store' = IF fs[p] = None THEN Append(store, [mtime |-> now, data |-> <<>>])
                          ELSE Truncated(n)
              /\ job' = Touch(w, n, [job EXCEPT ![w] = opened])
      /\ UNCHANGED <<now, copies, served, mix>>

\* The byte a client sends is the number of its request.
Byte(j) == j.req.byte

\* forward_body_data: bytes go into the buffer of the stream.
Store(w) ==
  /\ job[w].pc = "store" /\ job[w].left > 0
  /\ job' = [job EXCEPT ![w].buf = Append(@, Byte(job[w])), ![w].left = @ - 1]
  /\ UNCHANGED <<now, fs, store, copies, served, mix>>

\* data with bytes written over it behind pos; what was never written is 0.
Written(data, pos, bytes) ==
  [i \in 1..Max({Len(data), pos + Len(bytes)}) |->
     IF i \in (pos + 1)..(pos + Len(bytes)) THEN bytes[i - pos]
     ELSE IF i <= Len(data) THEN data[i] ELSE 0]

\* Fault: every part goes to the beginning of the file.
FaultyFlushed(w) ==
  store' = [store EXCEPT ![job[w].node] = [mtime |-> now, data |-> Written(@.data, 0, job[w].buf)]]

\* The buffer goes to the file.
Flushed(w) ==
  store' = [store EXCEPT ![job[w].node] = [mtime |-> now, data |-> Written(@.data, job[w].pos, job[w].buf)]]

\* It does when it is full,
Flush(w) ==
  /\ job[w].pc = "store" /\ job[w].buf # <<>>
  /\ Flushed(w)
  /\ job' = Touch(w, job[w].node, [job EXCEPT ![w].pos = @ + Len(job[w].buf), ![w].buf = <<>>])
  /\ UNCHANGED <<now, fs, copies, served, mix>>

\* forward_body_data failed and has answered by itself: there is no length (411),
\* or the client is gone or too slow (577).
PutFails(w) ==
  /\ job[w].pc = "store"
  /\ \/ job[w].left = -1
     \/ job[w].left > 0
  /\ job' = [job EXCEPT ![w] = Answered(@, "close", IF job[w].left = -1 THEN 411 ELSE 577, 0)]
  /\ UNCHANGED <<now, fs, store, copies, served, mix>>

\* The client has its answer
PutAnswer(w) ==
  /\ job[w].pc = "store" /\ job[w].left = 0
  /\ job' = [job EXCEPT ![w] = Answered(@, "close", job[w].status, -1)]
  /\ UNCHANGED <<now, fs, store, copies, served, mix>>

\* before the file is closed and the rest of the buffer written.
ClosePut(w) ==
  /\ job[w].pc = "close"
  /\ IF job[w].buf = <<>> THEN /\ job' = [job EXCEPT ![w].pc = "done"]
                               /\ UNCHANGED store
     ELSE /\ Flushed(w)
          /\ job' = Touch(w, job[w].node, [job EXCEPT ![w].pc = "done", ![w].buf = <<>>])
  /\ UNCHANGED <<now, fs, copies, served, mix>>

-----------------------------------------------------------------------------
Step(w) ==
  \/ Decide(w) \/ AnswerOnly(w) \/ Delete(w) \/ PropFind(w) \/ Index(w) \/ DecideFile(w)
  \/ List(w) \/ Script(w) \/ OpenFile(w) \/ SendData(w) \/ SendEnds(w)
  \/ Put(w) \/ TestDir(w) \/ MakeDir(w) \/ DirPut(w) \/ OpenPut(w) \/ Store(w) \/ Flush(w)
  \/ PutFails(w) \/ PutAnswer(w) \/ ClosePut(w) \/ Finish(w)

Next == Tick \/ \E w \in Workers : Take(w) \/ Step(w) \/ SendFails(w)

Spec == Init /\ [][Next]_vars

\* Every worker goes on; pull has a timeout, so that a client that sends nothing
\* does not hold one.
FairSpec == Spec /\ \A w \in Workers : WF_vars(Step(w))

-----------------------------------------------------------------------------
Active == {w \in Workers : job[w].pc # "idle"}
Done   == {w \in Workers : job[w].pc = "done"}

TypeOK ==
  /\ now \in Nat /\ served \in 0..Mixes[mix].max
  /\ \A p \in Paths : fs[p] \in {None, Dir} \cup DOMAIN store
  /\ \A w \in Active : /\ job[w].req \in Mixes[mix].requests /\ job[w].path \in Paths
                       /\ job[w].node \in {None, Dir} \cup DOMAIN store
                       /\ job[w].heads \in Nat /\ job[w].pos \in Nat
  /\ \A c \in copies : c.etag = <<c.etag[1], Len(c.data)>>

\* Every request is answered by one status line, the answers of put_file,
\* forward_body_data and send_http_error together.
OneAnswer == \A w \in Active : /\ job[w].heads <= 1
                               /\ job[w].pc = "done" => job[w].heads = 1

\* The file system changes only for a request that may change it.
ChangesAuthorized ==
  [][<<fs, store>>' # <<fs, store>> =>
       \E w \in Active : PutOrDelete(job[w].req) /\ PutPasswords /\ job[w].req.user]_vars

\* Hidden files are neither sent nor listed (mongoose.c:2601 "Do not show current dir
\* and hidden files").
HiddenStays ==
  \A w \in Active : /\ \A q \in job[w].listed : Last(q) \notin HiddenNames \cup {Passwords}
                    /\ job[w].pc = "send" => Last(job[w].path) \notin HiddenNames \cup {Passwords}

WithinFile(range, size) == /\ \A i \in DOMAIN range : range[i] < size
                           /\ Len(range) = 2 => range[1] <= range[2]

\* What is served while nobody changes the file is the range asked for, if it lies
\* within the file, of the length announced, and what is stored while nobody else does is the body.
Transferred ==
  \A w \in Done :
    LET j == job[w] IN
    ~j.touched /\ ~j.gone /\ j.node > 0 =>
      /\ j.req.method = "GET" /\ j.status = 200 => j.sent = j.stat.data /\ j.length = Len(j.sent)
      /\ j.req.method = "GET" /\ j.status = 206 /\ WithinFile(j.req.range, Len(j.stat.data)) =>
           /\ j.length = Len(j.sent)
           /\ j.sent = SubSeq(j.stat.data, j.req.range[1] + 1, j.req.range[1] + j.length)
      /\ j.req.method = "PUT" /\ j.status \in {200, 201} =>
           store[j.node].data = [i \in 1..j.req.body |-> Byte(j)]

\* Types, answers and contents together.
FilesInv == TypeOK /\ OneAnswer /\ Transferred

\* A client that is told "not modified" has what was in the file when it was looked
\* up: comment of mongoose.c:2959 "Return True if we should reply 304 Not Modified."
\* Modification times are in seconds: a file that was looked up for the copy in the very
\* second of its last change can change once more in it, and the code cannot tell; then
\* nothing is promised.  It is however often and whenever the file changes afterwards.
NotModifiedIsTrue ==
  \A w \in Done : LET copy == job[w].copy IN
    job[w].status = 304 /\ copy.etag[1] < copy.at => copy.data = job[w].stat.data

\* Every request is answered and its worker free again.  As clients make at most
\* Mixes[mix].max of them, this is to say that in the end all workers are free for good.
Served == <>[](Active = {})
=============================================================================
