------------------------- MODULE MongooseFilesProofs -------------------------
(***************************************************************************)
(* Proofs about MongooseFiles: who changes the tree, what is hidden, how   *)
(* often is answered, what is transferred, and when "not modified" is true *)
(* hold for any number of workers and any requests in any tree.            *)
(*                                                                         *)
(* What is known of a worker is stated of his record and of the parts of   *)
(* the state it depends on, so that the steps of the others can be judged  *)
(* by what they do to those parts.                                         *)
(***************************************************************************)
EXTENDS MongooseFiles, NaturalsLemmas, SequenceTheorems, FiniteSetTheorems

-----------------------------------------------------------------------------
(* The invariant. *)

Names   == Seq(STRING)
Bytes   == Seq(Nat)
Etags   == Nat \X Nat
Content == [mtime : Nat, data : Bytes]
Stats   == [node : Int, mtime : Nat, data : Bytes]
Copies  == [path : Paths, etag : Etags, data : Bytes, at : Nat]

FilePcs == {"unimplemented", "cgi", "ssi", "unmodified", "open"}
PutPcs  == {"put", "putdir", "mkdir", "store", "close"}
Pcs == FilePcs \cup PutPcs \cup {"decide", "unauthorized", "options", "notfound", "delete",
                                 "moved", "propfind", "index", "file", "list", "send", "done"}

Jobs == [pc : Pcs, req : Requested, copy : Copies \cup {<<>>}, path : Paths, stat : Stats,
         node : Int, dirs : Seq(Names), pos : Nat, left : Int, buf : Bytes, status : Int,
         length : Int, sent : Bytes, listed : SUBSET Paths, heads : Nat,
         touched : BOOLEAN, gone : BOOLEAN, at : Nat]

Types == /\ now \in Nat /\ served \in 0..Mixes[mix].max /\ mix \in DOMAIN Mixes
         /\ fs \in [Paths -> Int] /\ store \in Seq(Content) /\ copies \subseteq Copies
         /\ job \in [Workers -> Jobs \cup {IdleJob}]

\* A number that stands for nothing, a directory or one of the nodes.
Valid(n, nodes) == n \in {None, Dir} \/ n \in DOMAIN nodes

Tree(f, nodes) ==
  /\ \A p \in Paths : Valid(f[p], nodes)
  /\ f[<<>>] = Dir
  /\ \A p \in Paths \ {<<>>} : f[p] # None => f[Front(p)] = Dir

\* Etags are those of the data, no time is later than the clock.
Dated(nodes, cs, time) ==
  /\ \A n \in DOMAIN nodes : nodes[n].mtime <= time
  /\ \A c \in cs : c.at <= time /\ c.etag[2] = Len(c.data)

\* The request is one of those clients make, the way it goes is the one for its
\* method, and it is answered once.
Way(j, requests) ==
  /\ j.req \in requests
  /\ j.pc \in PutPcs => j.req.method = "PUT" /\ AuthorizedForPut(j.req)
  /\ j.pc = "delete" => j.req.method = "DELETE" /\ AuthorizedForPut(j.req)
  /\ PutOrDelete(j.req) => j.pc \in PutPcs \cup {"decide", "unauthorized", "options", "notfound",
                                                 "delete", "done"}
  /\ j.heads = IF j.pc \in {"send", "close", "done"} THEN 1 ELSE 0
  /\ j.path # j.req.path => j.pc \in FilePcs \cup {"file", "send", "done"}

\* Nodes are those there are.
Found(j, nodes, time) ==
  /\ Valid(j.node, nodes) /\ Valid(j.stat.node, nodes) /\ j.at <= time
  /\ j.node # None => j.pc \in {"send", "store", "close", "done"}
  /\ j.node = None => j.sent = <<>> /\ j.buf = <<>>
  /\ j.pc \in {"store", "close"} => j.node > 0
  /\ j.pc = "send" => j.node # None
  /\ j.stat.node = None => j.stat.data = <<>>

\* What was looked up is still there, unless somebody else has changed it.
Untouched(j, nodes) ==
  j.req.method # "PUT" /\ ~j.touched /\ j.stat.node > 0 => nodes[j.stat.node].data = j.stat.data

\* A file was opened to be served: what is announced
Opened(j) ==
  j.req.method # "PUT" /\ j.node # None =>
    /\ j.pc \in {"send", "done"} /\ j.status = IF j.req.range = <<>> THEN 200 ELSE 206
    /\ j.length = RangeLength(Len(j.stat.data), j.req.range)
    /\ ~j.touched => j.node = j.stat.node

\* and how much of it has been sent.
Sending(j) ==
  j.req.method \notin {"PUT", "HEAD"} /\ j.node > 0 /\ ~j.touched =>
    LET first == RangeStart(j.req.range)
        size  == Len(j.stat.data)
    IN  /\ j.pos = first + Len(j.sent) /\ j.left = j.length - Len(j.sent)
        /\ j.sent # <<>> => j.pos <= size /\ j.left >= 0
        /\ \A i \in 1..Len(j.sent) : first + i <= size /\ j.sent[i] = j.stat.data[first + i]
        /\ j.pc = "done" /\ ~j.gone => j.left <= 0 \/ j.pos >= size

\* A file that is stored from its beginning has what has come of the body, but for
\* what the buffer holds.
Stored(j, nodes) ==
  LET n == j.req.body
      here(count) == nodes[j.node].data = [i \in 1..count |-> Byte(j)]
      buffer == \A i \in 1..Len(j.buf) : j.buf[i] = Byte(j)
  IN  /\ j.pc \in {"putdir", "mkdir"} => j.status \in {200, 201}
      /\ j.pc = "mkdir" => j.dirs # <<>>
      /\ j.pc = "store" => /\ j.left >= -1 /\ (j.left = -1 => n = -1)
                           /\ j.status \in {200, 201} => j.pos + Len(j.buf) + j.left = n \/ j.left = -1
      /\ j.pc = "close" /\ j.status \in {200, 201} => j.pos + Len(j.buf) = n
      /\ j.pc \in {"store", "close"} /\ j.status \in {200, 201} /\ ~j.touched => here(j.pos) /\ buffer
      /\ j.pc = "done" /\ j.req.method = "PUT" /\ j.node > 0 /\ j.status \in {200, 201} /\ ~j.touched => here(n)

JobInv(j, nodes, time, requests) ==
  /\ Way(j, requests) /\ Found(j, nodes, time) /\ Untouched(j, nodes)
  /\ Opened(j) /\ Sending(j) /\ Stored(j, nodes)

IInv == /\ Types /\ Tree(fs, store) /\ Dated(store, copies, now)
        /\ \A w \in Active : JobInv(job[w], store, now, Mixes[mix].requests)

-----------------------------------------------------------------------------
(* Hidden files. *)

\* Files that are hidden from clients.
Secret(p) == Last(p) \in HiddenNames \cup {Passwords}

Seen(j) == /\ \A q \in j.listed : ~Secret(q)
           /\ j.pc = "decide" => (j.path = <<>> => j.stat.node = Dir)
           /\ j.pc \in FilePcs \cup {"file", "send"} => j.path # <<>> /\ ~Secret(j.path)

-----------------------------------------------------------------------------
(* Copies of what had its last change in a second before it was looked up. *)

\* The time of what is at a path.
Time(p, f, nodes, time) == IF f[p] > 0 THEN nodes[f[p]].mtime ELSE time

\* What has not changed since a copy was made is what was copied, and what is below
\* its path is newer.
Current(c, f, nodes, time) ==
  c.etag[1] < c.at =>
    /\ f[c.path] > 0 /\ nodes[f[c.path]].mtime <= c.etag[1] => nodes[f[c.path]].data = c.data
    /\ \A q \in Paths \ {<<>>} : Front(q) = c.path /\ f[q] # None => Time(q, f, nodes, time) > c.etag[1]

\* The same of what is served.
Keeps(j, f, nodes, time) ==
  j.req.method # "PUT" /\ j.path = j.req.path /\ j.stat.node > 0 /\ j.stat.mtime < j.at =>
    /\ f[j.path] > 0 /\ nodes[f[j.path]].mtime <= j.stat.mtime => f[j.path] = j.stat.node /\ ~j.touched
    /\ \A q \in Paths \ {<<>>} : Front(q) = j.path /\ f[q] # None => Time(q, f, nodes, time) > j.stat.mtime

\* What was looked up, against the copy the client has.
Compared(j, cs) ==
  /\ j.pc \in FilePcs \cup {"file", "send"} /\ j.path = j.req.path => j.stat.node > 0
  /\ j.status = 304 => j.pc = "done"
  /\ j.node > 0 /\ j.path = j.req.path /\ j.req.method # "PUT" => j.stat.node > 0
  /\ j.req.cond # "none" => j.copy \in cs /\ j.copy.path = j.req.path
  /\ j.req.cond # "none" /\ j.copy.etag[1] < j.copy.at =>
       /\ j.path = j.req.path /\ j.stat.node > 0 /\ j.stat.mtime <= j.copy.etag[1] => j.stat.data = j.copy.data
       /\ j.path # j.req.path => j.stat.mtime > j.copy.etag[1]
  /\ (j.pc = "unmodified" \/ j.status = 304) /\ j.copy.etag[1] < j.copy.at => j.copy.data = j.stat.data

CopyInv == /\ \A c \in copies : Current(c, fs, store, now)
           /\ \A w \in Active : Keeps(job[w], fs, store, now) /\ Compared(job[w], copies)

-----------------------------------------------------------------------------
(* Records and answers. *)

\* The fields that stay in an answer.
Keeping(j, k) ==
  /\ k.req = j.req /\ k.copy = j.copy /\ k.path = j.path /\ k.stat = j.stat /\ k.dirs = j.dirs
  /\ k.pos = j.pos /\ k.left = j.left /\ k.buf = j.buf /\ k.sent = j.sent
  /\ k.node = j.node /\ k.touched = j.touched /\ k.gone = j.gone /\ k.at = j.at

\* What an answer does to the record of a worker.
LEMMA AnsweredJob ==
  ASSUME NEW j \in Jobs, NEW pc \in Pcs, NEW status \in Int, NEW length \in Int
  PROVE  /\ Answered(j, pc, status, length) \in Jobs
         /\ Keeping(j, Answered(j, pc, status, length))
         /\ Answered(j, pc, status, length).pc = pc /\ Answered(j, pc, status, length).status = status
         /\ Answered(j, pc, status, length).length = length
         /\ Answered(j, pc, status, length).heads = j.heads + 1
         /\ Answered(j, pc, status, length).listed = j.listed
<1>. DEFINE k == Answered(j, pc, status, length)
<1>1. j.heads + 1 \in Nat
  BY DEF Jobs
<1>2. k \in Jobs
  <2>1. \A h \in Nat : [j EXCEPT !.pc = pc, !.status = status, !.length = length, !.heads = h] \in Jobs
    BY DEF Jobs
  <2>2. k = [j EXCEPT !.pc = pc, !.status = status, !.length = length, !.heads = j.heads + 1]
    BY DEF Answered
  <2>. QED  BY <1>1, <2>1, <2>2
<1>3. k.pc = pc /\ k.status = status /\ k.length = length /\ k.heads = j.heads + 1 /\ k.listed = j.listed
  BY DEF Answered, Jobs
<1>4. Keeping(j, k)
  BY DEF Answered, Jobs, Keeping
<1>. QED  BY <1>2, <1>3, <1>4

\* A request that is answered and done before a file was opened.
LEMMA AnsweredAtOnce ==
  ASSUME NEW j \in Jobs, NEW k \in Jobs, Keeping(j, k), k.pc = "done", k.heads = j.heads + 1,
         j.pc \notin {"send", "store", "close", "done"},
         NEW nodes, NEW time, NEW requests, JobInv(j, nodes, time, requests)
  PROVE  JobInv(k, nodes, time, requests)
<1>1. Way(j, requests) /\ Found(j, nodes, time) /\ Untouched(j, nodes)
  BY DEF JobInv
<1>2. j.node = None /\ k.node = None
  BY <1>1 DEF Found, Keeping
<1>3. Way(k, requests)
  BY <1>1 DEF Way, Keeping, PutPcs
<1>4. Found(k, nodes, time)
  BY <1>1, <1>2 DEF Found, Keeping
<1>5. Untouched(k, nodes)
  BY <1>1 DEF Untouched, Keeping
<1>6. Opened(k) /\ Sending(k) /\ Stored(k, nodes)
  BY <1>2 DEF Opened, Sending, Stored, None
<1>. QED  BY <1>3, <1>4, <1>5, <1>6 DEF JobInv

-----------------------------------------------------------------------------
(* The decision. *)

\* The first case that holds.
LEMMA FirstHolds ==
  ASSUME NEW cases, NEW last \in Nat, DOMAIN cases = 1..last, last > 0, cases[last][1]
  PROVE  \E i \in 1..last : /\ cases[i][1] /\ First(cases) = cases[i][2]
                            /\ \A k \in 1..last : k < i => ~cases[k][1]
<1>. DEFINE holding == {i \in DOMAIN cases : cases[i][1]}
            least == Min(holding)
            i == CHOOSE i \in DOMAIN cases : cases[i][1] /\ \A k \in 1..(i - 1) : ~cases[k][1]
<1>1. least \in holding /\ \A k \in holding : least <= k
  <2>1. last \in holding /\ holding \subseteq Nat
    OBVIOUS
  <2>. QED  BY <2>1, LeastNatural
<1>. HIDE DEF least
<1>2. \E x \in DOMAIN cases : cases[x][1] /\ \A k \in 1..(x - 1) : ~cases[k][1]
  <2>1. \A k \in 1..(least - 1) : k \in DOMAIN cases /\ ~(least <= k)
    BY <1>1
  <2>. QED  BY <1>1, <2>1
<1>3. i \in DOMAIN cases /\ cases[i][1] /\ \A k \in 1..(i - 1) : ~cases[k][1]
  BY <1>2
<1>4. First(cases) = cases[i][2]
  BY DEF First
<1>. HIDE DEF i
<1>5. \A k \in DOMAIN cases : k < i => k \in 1..(i - 1)
  BY <1>3
<1>. QED  BY <1>3, <1>4, <1>5

\* What is known of a request that goes on to its file.
LEMMA FileDecided ==
  ASSUME NEW w \in Workers
  PROVE  /\ First(FileCases(w)) \in FilePcs
         /\ First(FileCases(w)) = "unmodified" => IsNotModified(w)
<1>. DEFINE cases == FileCases(w)
<1>1. DOMAIN cases = 1..5 /\ cases[5][1] /\ cases[4][1] = IsNotModified(w)
      /\ cases[1][2] = "unimplemented" /\ cases[2][2] = "cgi" /\ cases[3][2] = "ssi"
      /\ cases[4][2] = "unmodified" /\ cases[5][2] = "open"
  BY DEF FileCases
<1>. HIDE DEF cases
<1>2. PICK i \in 1..5 : /\ cases[i][1] /\ First(cases) = cases[i][2]
                        /\ \A k \in 1..5 : k < i => ~cases[k][1]
  <2>1. 5 \in Nat /\ 5 > 0
    OBVIOUS
  <2>. QED  BY <1>1, <2>1, FirstHolds, Zenon
<1>3. i = 1 \/ i = 2 \/ i = 3 \/ i = 4 \/ i = 5
  BY <1>2
<1>. QED  BY <1>1, <1>2, <1>3 DEF cases, FilePcs

\* The other cases do not hold when one of them is chosen.
LEMMA Decided ==
  ASSUME NEW w \in Workers
  PROVE  LET r  == job[w].req
             pc == First(Cases(w))
         IN  /\ pc \in Pcs
             /\ pc = "put" => r.method = "PUT" /\ AuthorizedForPut(r)
             /\ pc = "delete" => r.method = "DELETE" /\ AuthorizedForPut(r)
             /\ pc \notin {"decide", "send", "store", "close", "done", "putdir", "mkdir", "file"}
             /\ PutOrDelete(r) => pc \in {"unauthorized", "options", "notfound", "put", "delete"}
             /\ pc \in FilePcs => job[w].stat.node \notin {None, Dir} /\ ~Hidden(job[w].path)
             /\ pc = "unmodified" => IsNotModified(w)
             /\ pc = "index" => job[w].stat.node = Dir
<1>. DEFINE cases == Cases(w)
            r     == job[w].req
            s     == job[w].stat
<1>1. /\ DOMAIN cases = 1..11 /\ cases[11][1] /\ cases[11][2] = First(FileCases(w))
      /\ cases[4][1] = (PutOrDelete(r) /\ ~AuthorizedForPut(r))
      /\ cases[5][1] = (r.method = "PUT") /\ cases[6][1] = (r.method = "DELETE")
      /\ cases[7][1] = (s.node = None \/ Hidden(job[w].path)) /\ cases[10][1] = (s.node = Dir)
      /\ cases[1][2] = "unauthorized" /\ cases[2][2] = "options" /\ cases[3][2] = "notfound"
      /\ cases[4][2] = "unauthorized" /\ cases[5][2] = "put" /\ cases[6][2] = "delete"
      /\ cases[7][2] = "notfound" /\ cases[8][2] = "moved" /\ cases[9][2] = "propfind"
      /\ cases[10][2] = "index"
  BY DEF Cases
<1>. HIDE DEF cases
<1>2. PICK i \in 1..11 : /\ cases[i][1] /\ First(cases) = cases[i][2]
                         /\ \A k \in 1..11 : k < i => ~cases[k][1]
  <2>1. 11 \in Nat /\ 11 > 0
    OBVIOUS
  <2>. QED  BY <1>1, <2>1, FirstHolds, Zenon
<1>3. First(FileCases(w)) \in FilePcs /\ (First(FileCases(w)) = "unmodified" => IsNotModified(w))
  BY FileDecided
<1>4. /\ i > 4 => (PutOrDelete(r) => AuthorizedForPut(r))
      /\ i > 6 => r.method # "PUT" /\ r.method # "DELETE"
      /\ i > 7 => s.node # None /\ ~Hidden(job[w].path)
      /\ i > 10 => s.node # Dir
  <2>1. /\ i > 4 => ~cases[4][1]
        /\ i > 6 => ~cases[5][1] /\ ~cases[6][1]
        /\ i > 7 => ~cases[7][1]
        /\ i > 10 => ~cases[10][1]
    BY <1>2
  <2>2. i > 4 => (PutOrDelete(r) => AuthorizedForPut(r))
    BY <1>1, <2>1
  <2>3. i > 6 => r.method # "PUT" /\ r.method # "DELETE"
    BY <1>1, <2>1
  <2>4. i > 7 => s.node # None /\ ~Hidden(job[w].path)
    BY <1>1, <2>1
  <2>5. i > 10 => s.node # Dir
    BY <1>1, <2>1
  <2>. QED  BY <2>2, <2>3, <2>4, <2>5
<1>5. \/ i \in {1, 2, 3, 4} \/ i = 5 \/ i = 6 \/ i \in {7, 8, 9, 10} \/ i = 11
  BY <1>2
<1>6. CASE i \in {1, 2, 3, 4}
  <2>1. First(cases) \in {"unauthorized", "options", "notfound"}
    BY <1>1, <1>2, <1>6
  <2>. QED  BY <2>1 DEF cases, Pcs, FilePcs
<1>7. CASE i = 5
  <2>1. First(cases) = "put" /\ r.method = "PUT" /\ AuthorizedForPut(r)
    BY <1>1, <1>2, <1>4, <1>7 DEF PutOrDelete
  <2>. QED  BY <2>1 DEF cases, Pcs, FilePcs, PutPcs
<1>8. CASE i = 6
  <2>1. First(cases) = "delete" /\ r.method = "DELETE" /\ AuthorizedForPut(r)
    BY <1>1, <1>2, <1>4, <1>8 DEF PutOrDelete
  <2>. QED  BY <2>1 DEF cases, Pcs, FilePcs
<1>9. CASE i \in {7, 8, 9, 10}
  <2>1. First(cases) \in {"notfound", "moved", "propfind", "index"} /\ ~PutOrDelete(r)
        /\ (First(cases) = "index" => s.node = Dir)
    BY <1>1, <1>2, <1>4, <1>9 DEF PutOrDelete
  <2>. QED  BY <2>1 DEF cases, Pcs, FilePcs
<1>10. CASE i = 11
  <2>1. First(cases) = First(FileCases(w)) /\ ~PutOrDelete(r) /\ s.node # None /\ s.node # Dir
        /\ ~Hidden(job[w].path)
    BY <1>1, <1>2, <1>4, <1>10 DEF PutOrDelete
  <2>. QED  BY <1>3, <2>1 DEF cases, Pcs, FilePcs
<1>. QED  BY <1>5, <1>6, <1>7, <1>8, <1>9, <1>10

-----------------------------------------------------------------------------
(* What the steps of others do. *)

\* The fields of a record that Touch leaves.
Touching(j, k) ==
  /\ k.pc = j.pc /\ k.req = j.req /\ k.copy = j.copy /\ k.path = j.path /\ k.stat = j.stat
  /\ k.node = j.node /\ k.dirs = j.dirs /\ k.pos = j.pos /\ k.left = j.left /\ k.buf = j.buf
  /\ k.status = j.status /\ k.length = j.length /\ k.sent = j.sent /\ k.listed = j.listed
  /\ k.heads = j.heads /\ k.gone = j.gone /\ k.at = j.at

\* What being touched does to the record of a worker.
LEMMA TouchedJob ==
  ASSUME NEW j \in Jobs
  PROVE  /\ [j EXCEPT !.touched = TRUE] \in Jobs /\ [j EXCEPT !.touched = TRUE].touched = TRUE
         /\ Touching(j, [j EXCEPT !.touched = TRUE])
<1>1. [j EXCEPT !.touched = TRUE] \in Jobs
  BY DEF Jobs
<1>2. [j EXCEPT !.touched = TRUE].touched = TRUE
  BY DEF Jobs
<1>3. Touching(j, [j EXCEPT !.touched = TRUE])
  BY DEF Jobs, Touching
<1>. QED  BY <1>1, <1>2, <1>3

\* Another worker changes node n, or makes it: who does not look at it, or is
\* touched, knows what he knew.
LEMMA ElsewhereWritten ==
  ASSUME NEW j \in Jobs, NEW k \in Jobs, Touching(j, k), NEW n \in Int,
         n \in {j.stat.node, j.node} => k.touched, n \notin {j.stat.node, j.node} => k.touched = j.touched,
         NEW nodes \in Seq(Content), NEW nodes2 \in Seq(Content), Len(nodes) <= Len(nodes2),
         \A m \in DOMAIN nodes : m # n => nodes2[m] = nodes[m],
         NEW time \in Nat, NEW time2 \in Nat, time <= time2,
         NEW requests, JobInv(j, nodes, time, requests)
  PROVE  JobInv(k, nodes2, time2, requests)
<1>1. /\ Way(j, requests) /\ Found(j, nodes, time) /\ Untouched(j, nodes)
      /\ Opened(j) /\ Sending(j) /\ Stored(j, nodes)
  BY DEF JobInv
<1>2. Way(k, requests)
  BY <1>1 DEF Way, Touching
<1>3. DOMAIN nodes \subseteq DOMAIN nodes2
  BY LenProperties
<1>4. Found(k, nodes2, time2)
  <2>1. j.at \in Nat
    BY DEF Jobs
  <2>2. Valid(k.node, nodes2) /\ Valid(k.stat.node, nodes2)
    BY <1>1, <1>3 DEF Found, Touching, Valid
  <2>3. k.at <= time2
    BY <1>1, <2>1 DEF Found, Touching
  <2>. QED  BY <1>1, <2>2, <2>3 DEF Found, Touching
<1>5. ~k.touched => ~j.touched /\ n # j.stat.node /\ n # j.node
  BY DEF Jobs
<1>6. Untouched(k, nodes2)
  <2>. SUFFICES ASSUME k.req.method # "PUT", ~k.touched, k.stat.node > 0
                PROVE  nodes2[k.stat.node].data = k.stat.data
    BY DEF Untouched
  <2>1. j.stat.node \in DOMAIN nodes /\ nodes2[j.stat.node] = nodes[j.stat.node]
    BY <1>1, <1>5 DEF Found, Touching, Valid, None, Dir
  <2>. QED  BY <1>1, <1>5, <2>1 DEF Untouched, Touching
<1>7. Opened(k)
  BY <1>1, <1>5 DEF Opened, Touching
<1>8. Sending(k)
  BY <1>1, <1>5 DEF Sending, Touching
<1>9. Stored(k, nodes2)
  <2>1. ~k.touched /\ j.node > 0 => nodes2[j.node] = nodes[j.node]
    BY <1>1, <1>5 DEF Found, Valid, None, Dir
  <2>2. j.pc \in {"store", "close"} => j.node > 0
    BY <1>1 DEF Found
  <2>. QED  BY <1>1, <1>5, <2>1, <2>2 DEF Stored, Touching, Byte
<1>. QED  BY <1>2, <1>4, <1>6, <1>7, <1>8, <1>9 DEF JobInv

\* The same when only the clock goes on.
LEMMA ClockOnly ==
  ASSUME NEW j \in Jobs, NEW nodes, NEW time \in Nat, NEW time2 \in Nat, time <= time2,
         NEW requests, JobInv(j, nodes, time, requests)
  PROVE  JobInv(j, nodes, time2, requests)
<1>1. j.at \in Nat
  BY DEF Jobs
<1>. QED  BY <1>1 DEF JobInv, Found

-----------------------------------------------------------------------------
(* Steps. *)

\* A worker that has a request.
LEMMA ActiveJob ==
  ASSUME IInv, NEW w \in Workers, job[w].pc # "idle"
  PROVE  job[w] \in Jobs /\ JobInv(job[w], store, now, Mixes[mix].requests)
BY DEF IInv, Types, Active, IdleJob

\* A record of a request is not idle.
LEMMA JobNotIdle == \A j \in Jobs : j.pc # "idle" /\ j.pc \in Pcs
BY DEF Jobs, Pcs, FilePcs, PutPcs

\* A step that changes the record of its worker and nothing else.
LEMMA OwnStep ==
  ASSUME IInv, NEW w \in Workers, job' = [job EXCEPT ![w] = job'[w]], job'[w] \in Jobs,
         JobInv(job'[w], store, now, Mixes[mix].requests), UNCHANGED <<now, fs, store, copies, mix>>,
         served' \in 0..Mixes[mix].max
  PROVE  IInv'
<1>1. job \in [Workers -> Jobs \cup {IdleJob}] /\ Types
  BY DEF IInv, Types
<1>2. Types'
  BY <1>1 DEF Types
<1>3. Tree(fs', store') /\ Dated(store', copies', now')
  BY DEF IInv
<1>4. ASSUME NEW v \in Workers, job'[v].pc # "idle"
      PROVE  JobInv(job'[v], store, now, Mixes[mix].requests)
  <2>1. CASE v = w
    BY <2>1
  <2>2. CASE v # w
    <3>1. job'[v] = job[v]
      BY <1>1, <2>2
    <3>. QED  BY <1>4, <3>1, ActiveJob
  <2>. QED  BY <2>1, <2>2
<1>. QED  BY <1>2, <1>3, <1>4 DEF IInv, Active

\* What is looked up.
LEMMA StatFacts ==
  ASSUME IInv, NEW p \in Paths
  PROVE  /\ Stat(p) \in Stats /\ Stat(p).node = fs[p] /\ Valid(fs[p], store) /\ Stat(p).mtime <= now
         /\ fs[p] > 0 => /\ Stat(p).data = store[fs[p]].data /\ Stat(p).mtime = store[fs[p]].mtime
         /\ fs[p] = None => Stat(p).data = <<>>
         /\ fs[p] = Dir => Stat(p).mtime = now
<1>1. /\ now \in Nat /\ fs[p] \in Int /\ store \in Seq(Content) /\ Valid(fs[p], store)
      /\ \A n \in DOMAIN store : store[n].mtime <= now
  BY DEF IInv, Types, Tree, Dated
<1>2. <<>> \in Bytes
  BY DEF Bytes
<1>3. CASE fs[p] > 0
  <2>1. fs[p] \in DOMAIN store /\ store[fs[p]] \in Content
    BY <1>1, <1>3, ElementOfSeq DEF Valid, None, Dir
  <2>2. store[fs[p]].mtime \in Nat /\ store[fs[p]].data \in Bytes /\ store[fs[p]].mtime <= now
    BY <1>1, <2>1 DEF Content
  <2>3. Stat(p) = [node |-> fs[p], mtime |-> store[fs[p]].mtime, data |-> store[fs[p]].data]
    BY <1>3 DEF Stat
  <2>. QED  BY <1>1, <1>3, <2>2, <2>3 DEF Stats, None, Dir
<1>4. CASE ~(fs[p] > 0)
  <2>1. Stat(p) = [node |-> fs[p], mtime |-> IF fs[p] = Dir THEN now ELSE 0, data |-> <<>>]
    BY <1>4 DEF Stat, NoStat
  <2>. QED  BY <1>1, <1>2, <1>4, <2>1 DEF Stats, None, Dir
<1>. QED  BY <1>3, <1>4

\* A request is taken.
LEMMA TakeStep ==
  ASSUME IInv, NEW w \in Workers, Take(w)
  PROVE  IInv'
<1>1. PICK r \in Mixes[mix].requests :
        \E copy \in IF r.cond = "none" THEN {<<>>} ELSE {c \in copies : c.path = r.path} :
          job' = [job EXCEPT ![w] =
            [pc |-> "decide", req |-> r, copy |-> copy, path |-> r.path, stat |-> Stat(r.path),
             node |-> None, dirs |-> <<>>, pos |-> 0, left |-> 0, buf |-> <<>>,
             status |-> -1, length |-> -1, sent |-> <<>>, listed |-> {}, heads |-> 0,
             touched |-> FALSE, gone |-> FALSE, at |-> now]]
  BY DEF Take
<1>2. PICK copy \in IF r.cond = "none" THEN {<<>>} ELSE {c \in copies : c.path = r.path} :
        job' = [job EXCEPT ![w] =
          [pc |-> "decide", req |-> r, copy |-> copy, path |-> r.path, stat |-> Stat(r.path),
           node |-> None, dirs |-> <<>>, pos |-> 0, left |-> 0, buf |-> <<>>,
           status |-> -1, length |-> -1, sent |-> <<>>, listed |-> {}, heads |-> 0,
           touched |-> FALSE, gone |-> FALSE, at |-> now]]
  BY <1>1
<1>. DEFINE k == job'[w]
<1>3. /\ job \in [Workers -> Jobs \cup {IdleJob}] /\ copies \subseteq Copies /\ mix \in DOMAIN Mixes
      /\ served \in 0..Mixes[mix].max
  BY DEF IInv, Types
<1>4. k = [pc |-> "decide", req |-> r, copy |-> copy, path |-> r.path, stat |-> Stat(r.path),
           node |-> None, dirs |-> <<>>, pos |-> 0, left |-> 0, buf |-> <<>>,
           status |-> -1, length |-> -1, sent |-> <<>>, listed |-> {}, heads |-> 0,
           touched |-> FALSE, gone |-> FALSE, at |-> now]
      /\ job' = [job EXCEPT ![w] = k]
  BY <1>2, <1>3
<1>5. r \in Requested /\ r.path \in Paths /\ r.method \in Methods
  BY <1>1, <1>3, MixAssumption DEF Requested
<1>6. copy \in Copies \cup {<<>>}
  BY <1>2, <1>3
<1>7. <<>> \in Bytes /\ <<>> \in Seq(Names)
  BY DEF Bytes
<1>8. k \in Jobs
  <2>1. now \in Nat
    BY DEF IInv, Types
  <2>. QED  BY <1>4, <1>5, <1>6, <1>7, <2>1, StatFacts DEF Jobs, Pcs, None
<1>. HIDE DEF k
<1>9. /\ k.pc = "decide" /\ k.req = r /\ k.path = r.path /\ k.stat = Stat(r.path) /\ k.node = None /\ k.heads = 0
      /\ k.sent = <<>> /\ k.buf = <<>> /\ k.at = now
  BY <1>4
<1>10. JobInv(k, store, now, Mixes[mix].requests)
  <2>1. Way(k, Mixes[mix].requests)
    BY <1>1, <1>9 DEF Way, PutPcs
  <2>2. Found(k, store, now)
    <3>1. now \in Nat
      BY DEF IInv, Types
    <3>. QED  BY <1>5, <1>9, <3>1, StatFacts DEF Found, Valid
  <2>3. Untouched(k, store)
    BY <1>5, <1>9, StatFacts DEF Untouched
  <2>4. Opened(k) /\ Sending(k) /\ Stored(k, store)
    BY <1>9 DEF Opened, Sending, Stored, None
  <2>. QED  BY <2>1, <2>2, <2>3, <2>4 DEF JobInv
<1>11. UNCHANGED <<now, fs, store, copies, mix>> /\ served' \in 0..Mixes[mix].max
  BY <1>3, MixAssumption DEF Take
<1>. QED  BY <1>4, <1>8, <1>10, <1>11, OwnStep DEF k

\* A record that only goes on.
LEMMA GoesOn ==
  ASSUME NEW j \in Jobs, NEW pc \in Pcs
  PROVE  /\ [j EXCEPT !.pc = pc] \in Jobs /\ [j EXCEPT !.pc = pc].pc = pc
         /\ Keeping(j, [j EXCEPT !.pc = pc])
         /\ [j EXCEPT !.pc = pc].status = j.status /\ [j EXCEPT !.pc = pc].length = j.length
         /\ [j EXCEPT !.pc = pc].heads = j.heads /\ [j EXCEPT !.pc = pc].listed = j.listed
<1>1. [j EXCEPT !.pc = pc] \in Jobs
  BY DEF Jobs
<1>2. Keeping(j, [j EXCEPT !.pc = pc])
  BY DEF Jobs, Keeping
<1>. QED  BY <1>1, <1>2 DEF Jobs

\* Before a file is opened it does not matter how a request goes on, but for its way.
LEMMA GoesItsWay ==
  ASSUME NEW j \in Jobs, NEW k \in Jobs, Keeping(j, k), k.heads = j.heads,
         j.pc \notin {"send", "store", "close", "done"},
         k.pc \notin {"send", "store", "close", "done", "putdir", "mkdir"},
         NEW nodes, NEW time, NEW requests, JobInv(j, nodes, time, requests), Way(k, requests)
  PROVE  JobInv(k, nodes, time, requests)
<1>1. Found(j, nodes, time) /\ Untouched(j, nodes)
  BY DEF JobInv
<1>2. j.node = None /\ k.node = None
  BY <1>1 DEF Found, Keeping
<1>3. Found(k, nodes, time)
  BY <1>1, <1>2 DEF Found, Keeping
<1>4. Untouched(k, nodes)
  BY <1>1 DEF Untouched, Keeping
<1>5. Opened(k) /\ Sending(k) /\ Stored(k, nodes)
  BY <1>2 DEF Opened, Sending, Stored, None
<1>. QED  BY <1>3, <1>4, <1>5 DEF JobInv

\* What is done with it is decided,
LEMMA DecideStep ==
  ASSUME IInv, NEW w \in Workers, Decide(w)
  PROVE  IInv'
<1>. DEFINE j == job[w]
            k == job'[w]
            p == First(Cases(w))
<1>1. j.pc = "decide" /\ job' = [job EXCEPT ![w].pc = p] /\ UNCHANGED <<now, fs, store, copies, served, mix>>
  BY DEF Decide
<1>2. j \in Jobs /\ JobInv(j, store, now, Mixes[mix].requests)
  BY <1>1, ActiveJob
<1>3. job \in [Workers -> Jobs \cup {IdleJob}] /\ served \in 0..Mixes[mix].max
  BY DEF IInv, Types
<1>4. k = [j EXCEPT !.pc = p] /\ job' = [job EXCEPT ![w] = k]
  BY <1>1, <1>3
<1>5. /\ p \in Pcs /\ (p = "put" => j.req.method = "PUT" /\ AuthorizedForPut(j.req))
      /\ p = "delete" => j.req.method = "DELETE" /\ AuthorizedForPut(j.req)
      /\ p \notin {"send", "store", "close", "done", "putdir", "mkdir", "file"}
      /\ PutOrDelete(j.req) => p \in {"unauthorized", "options", "notfound", "put", "delete"}
  BY Decided
<1>. HIDE DEF j, k, p
<1>6. k \in Jobs /\ k.pc = p /\ Keeping(j, k) /\ k.heads = j.heads
  BY <1>2, <1>4, <1>5, GoesOn
<1>7. Way(k, Mixes[mix].requests)
  <2>1. Way(j, Mixes[mix].requests)
    BY <1>2 DEF JobInv
  <2>. QED  BY <1>1, <1>5, <1>6, <2>1 DEF Way, Keeping, PutPcs, FilePcs, j
<1>8. JobInv(k, store, now, Mixes[mix].requests)
  BY <1>1, <1>2, <1>5, <1>6, <1>7, GoesItsWay DEF j
<1>. QED  BY <1>1, <1>3, <1>4, <1>6, <1>8, OwnStep DEF k

\* A step that changes the record of its worker and the tree.
LEMMA TreeStep ==
  ASSUME IInv, NEW w \in Workers, job' = [job EXCEPT ![w] = job'[w]], job'[w] \in Jobs,
         JobInv(job'[w], store, now, Mixes[mix].requests), UNCHANGED <<store, copies, served, mix>>,
         fs' \in [Paths -> Int], Tree(fs', store), now' = now
  PROVE  IInv'
<1>1. job \in [Workers -> Jobs \cup {IdleJob}] /\ Types /\ now \in Nat
  BY DEF IInv, Types
<1>2. Types'
  BY <1>1 DEF Types
<1>3. Dated(store', copies', now')
  BY DEF IInv
<1>4. ASSUME NEW v \in Workers, job'[v].pc # "idle"
      PROVE  JobInv(job'[v], store, now', Mixes[mix].requests)
  <2>1. job'[v] \in Jobs /\ JobInv(job'[v], store, now, Mixes[mix].requests)
    <3>1. CASE v = w
      BY <3>1
    <3>2. CASE v # w
      <4>1. job'[v] = job[v]
        BY <1>1, <3>2
      <4>. QED  BY <1>4, <4>1, ActiveJob
    <3>. QED  BY <3>1, <3>2
  <2>. QED  BY <2>1
<1>. QED  BY <1>2, <1>3, <1>4 DEF IInv, Active

\* The record of a worker that has answered at once.
AnsweredNow(j, k) == k \in Jobs /\ Keeping(j, k) /\ k.pc = "done" /\ k.heads = j.heads + 1

\* An answer ends the request,
LEMMA AnsweredDone ==
  ASSUME NEW j \in Jobs, NEW status \in Int, NEW length \in Int
  PROVE  /\ AnsweredNow(j, Answered(j, "done", status, length))
         /\ Answered(j, "done", status, length).status = status
         /\ Answered(j, "done", status, length).listed = j.listed
<1>1. "done" \in Pcs
  BY DEF Pcs
<1>. QED  BY <1>1, AnsweredJob DEF AnsweredNow

\* one that lists what there is, too.
LEMMA AnsweredListed ==
  ASSUME NEW j \in Jobs, NEW status \in Int, NEW length \in Int, NEW paths \in SUBSET Paths
  PROVE  /\ AnsweredNow(j, [Answered(j, "done", status, length) EXCEPT !.listed = paths])
         /\ [Answered(j, "done", status, length) EXCEPT !.listed = paths].status = status
         /\ [Answered(j, "done", status, length) EXCEPT !.listed = paths].listed = paths
<1>. DEFINE a == Answered(j, "done", status, length)
            k == [a EXCEPT !.listed = paths]
<1>1. AnsweredNow(j, a) /\ a.status = status
  BY AnsweredDone
<1>2. a \in Jobs
  BY <1>1 DEF AnsweredNow
<1>. HIDE DEF a
<1>3. k \in Jobs
  BY <1>2 DEF Jobs
<1>4. Keeping(a, k)
  BY <1>2 DEF Jobs, Keeping
<1>5. k.pc = a.pc /\ k.status = a.status /\ k.heads = a.heads /\ k.listed = paths
  BY <1>2 DEF Jobs
<1>. HIDE DEF k
<1>6. AnsweredNow(j, k) /\ k.status = status /\ k.listed = paths
  BY <1>1, <1>3, <1>4, <1>5 DEF AnsweredNow, Keeping
<1>. QED  BY <1>6 DEF a, k

\* It keeps what is known of it.
LEMMA AtOnce ==
  ASSUME IInv, NEW w \in Workers, job' = [job EXCEPT ![w] = job'[w]], AnsweredNow(job[w], job'[w]),
         job[w].pc \notin {"idle", "send", "store", "close", "done"}
  PROVE  job'[w] \in Jobs /\ JobInv(job'[w], store, now, Mixes[mix].requests)
<1>1. job[w] \in Jobs /\ JobInv(job[w], store, now, Mixes[mix].requests)
  BY ActiveJob
<1>. QED  BY <1>1, AnsweredAtOnce DEF AnsweredNow

\* The steps that answer and change nothing else.
LEMMA AtOnceStep ==
  ASSUME IInv, NEW w \in Workers, job' = [job EXCEPT ![w] = job'[w]], AnsweredNow(job[w], job'[w]),
         job[w].pc \notin {"idle", "send", "store", "close", "done"},
         UNCHANGED <<now, fs, store, copies, served, mix>>
  PROVE  IInv'
<1>1. served' \in 0..Mixes[mix].max
  BY DEF IInv, Types
<1>. QED  BY <1>1, AtOnce, OwnStep

\* A step that gives the record of its worker a value.
LEMMA NewRecord ==
  ASSUME IInv, NEW w \in Workers, NEW k, job' = [job EXCEPT ![w] = k]
  PROVE  job'[w] = k /\ job' = [job EXCEPT ![w] = job'[w]]
BY DEF IInv, Types

\* The answer is given at once.
LEMMA AnswerStep ==
  ASSUME IInv, NEW w \in Workers, NEW status \in Int, NEW length \in Int, Answer(w, status, length),
         job[w].pc \notin {"idle", "send", "store", "close", "done"}
  PROVE  IInv'
<1>1. job[w] \in Jobs
  BY ActiveJob
<1>2. job'[w] = Answered(job[w], "done", status, length) /\ job' = [job EXCEPT ![w] = job'[w]]
  BY NewRecord DEF Answer
<1>3. AnsweredNow(job[w], job'[w])
  BY <1>1, <1>2, AnsweredDone
<1>. QED  BY <1>2, <1>3, AtOnceStep DEF Answer

\* These answers are.
LEMMA AnswerSteps ==
  ASSUME IInv, NEW w \in Workers, AnswerOnly(w) \/ PropFind(w) \/ List(w) \/ Script(w)
  PROVE  IInv'
<1>1. CASE AnswerOnly(w)
  <2>1. job[w].pc \in {"unauthorized", "options", "notfound", "moved", "unimplemented", "unmodified"}
    BY <1>1 DEF AnswerOnly, Status
  <2>2. Status[job[w].pc] \in Int
    BY <2>1 DEF Status
  <2>3. PICK length \in Int : Answer(w, Status[job[w].pc], length)
    BY <1>1 DEF AnswerOnly
  <2>. QED  BY <2>1, <2>2, <2>3, AnswerStep
<1>2. CASE PropFind(w)
  <2>. DEFINE paths == IF Listing /\ job[w].stat.node = Dir THEN Entries(job[w].path) ELSE {}
  <2>1. paths \in SUBSET Paths
    BY DEF Entries
  <2>2. /\ job[w].pc = "propfind" /\ UNCHANGED <<now, fs, store, copies, served, mix>>
        /\ job' = [job EXCEPT ![w] = [Answered(@, "done", 207, -1) EXCEPT !.listed = paths]]
    BY <1>2 DEF PropFind
  <2>. HIDE DEF paths
  <2>3. job'[w] = [Answered(job[w], "done", 207, -1) EXCEPT !.listed = paths]
        /\ job' = [job EXCEPT ![w] = job'[w]] /\ job[w] \in Jobs
    BY <2>2, NewRecord, ActiveJob, ZenonT(60)
  <2>4. AnsweredNow(job[w], job'[w])
    <3>1. \A status, length \in Int :
            AnsweredNow(job[w], [Answered(job[w], "done", status, length) EXCEPT !.listed = paths])
      BY <2>1, <2>3, AnsweredListed
    <3>2. 207 \in Int /\ -1 \in Int
      OBVIOUS
    <3>. QED  BY <2>3, <3>1, <3>2
  <2>. QED  BY <2>2, <2>3, <2>4, AtOnceStep
<1>3. CASE List(w)
  <2>. DEFINE paths == Entries(job[w].path)
  <2>1. paths \in SUBSET Paths
    BY DEF Entries
  <2>2. /\ job[w].pc = "list" /\ UNCHANGED <<now, fs, store, copies, served, mix>>
        /\ \/ job' = [job EXCEPT ![w] = Answered(@, "done", 500, 0)]
           \/ job' = [job EXCEPT ![w] = [Answered(@, "done", 200, -1) EXCEPT !.listed = paths]]
    BY <1>3 DEF List
  <2>. HIDE DEF paths
  <2>3. /\ job' = [job EXCEPT ![w] = job'[w]] /\ job[w] \in Jobs
        /\ \/ job'[w] = Answered(job[w], "done", 500, 0)
           \/ job'[w] = [Answered(job[w], "done", 200, -1) EXCEPT !.listed = paths]
    BY <2>2, NewRecord, ActiveJob
  <2>4. AnsweredNow(job[w], job'[w])
    <3>1. \A status, length \in Int :
            /\ AnsweredNow(job[w], [Answered(job[w], "done", status, length) EXCEPT !.listed = paths])
            /\ AnsweredNow(job[w], Answered(job[w], "done", status, length))
      BY <2>1, <2>3, AnsweredListed, AnsweredDone
    <3>2. 200 \in Int /\ -1 \in Int /\ 500 \in Int /\ 0 \in Int
      OBVIOUS
    <3>3. CASE job'[w] = Answered(job[w], "done", 500, 0)
      <4>1. AnsweredNow(job[w], Answered(job[w], "done", 500, 0))
        BY <3>1, <3>2, ZenonT(60)
      <4>. QED  BY <3>3, <4>1
    <3>4. CASE job'[w] = [Answered(job[w], "done", 200, -1) EXCEPT !.listed = paths]
      BY <3>1, <3>2, <3>4
    <3>. QED  BY <2>3, <3>3, <3>4
  <2>. QED  BY <2>2, <2>3, <2>4, AtOnceStep
<1>4. CASE Script(w)
  <2>1. job[w].pc \in {"cgi", "ssi"} /\ (Answer(w, 200, -1) \/ Answer(w, 500, 0))
    BY <1>4 DEF Script
  <2>. QED  BY <2>1, AnswerStep
<1>. QED  BY <1>1, <1>2, <1>3, <1>4

\* A path is removed, or is not.
LEMMA DeleteStep ==
  ASSUME IInv, NEW w \in Workers, Delete(w)
  PROVE  IInv'
<1>. DEFINE p == job[w].path
            removable == fs[p] > 0 \/ (fs[p] = Dir /\ p # <<>> /\ \A q \in Paths : q # <<>> /\ Front(q) = p => fs[q] = None)
            status == IF removable THEN 200 ELSE 500
<1>1. /\ job[w].pc = "delete" /\ UNCHANGED <<now, store, copies, served, mix>>
      /\ fs' = IF removable THEN [fs EXCEPT ![p] = None] ELSE fs
      /\ job' = [job EXCEPT ![w] = Answered(@, "done", status, 0)]
  BY DEF Delete
<1>2. /\ job[w] \in Jobs /\ p \in Paths /\ fs \in [Paths -> Int] /\ Tree(fs, store) /\ now \in Nat
  BY <1>1, ActiveJob DEF Jobs, IInv, Types
<1>3. fs' \in [Paths -> Int] /\ Tree(fs', store)
  <2>1. CASE removable
    <3>1. /\ p # <<>> /\ \A q \in Paths \ {<<>>} : Front(q) = p => fs[q] = None
      BY <1>2, <2>1 DEF Tree, None, Dir
    <3>2. \A q \in Paths : fs'[q] = IF q = p THEN None ELSE fs[q]
      BY <1>1, <1>2, <2>1
    <3>3. fs' \in [Paths -> Int]
      BY <1>1, <1>2, <2>1 DEF None
    <3>4. Tree(fs', store)
      BY <1>2, <3>1, <3>2, TreeAssumption DEF Tree, Valid, None, Dir
    <3>. QED  BY <3>3, <3>4
  <2>2. CASE ~removable
    BY <1>1, <1>2, <2>2
  <2>. QED  BY <2>1, <2>2
<1>4. status \in Int
  OBVIOUS
<1>. HIDE DEF status, removable
<1>5. job'[w] = Answered(job[w], "done", status, 0) /\ job' = [job EXCEPT ![w] = job'[w]]
  BY <1>1, NewRecord
<1>6. AnsweredNow(job[w], job'[w])
  <2>1. 0 \in Int
    OBVIOUS
  <2>2. AnsweredNow(job[w], Answered(job[w], "done", status, 0))
    BY <1>2, <1>4, <2>1, AnsweredDone
  <2>. QED  BY <1>5, <2>2
<1>7. job'[w] \in Jobs /\ JobInv(job'[w], store, now, Mixes[mix].requests)
  BY <1>1, <1>5, <1>6, AtOnce
<1>8. UNCHANGED <<now, store, copies, served, mix>>
  BY <1>1
<1>. QED  BY <1>3, <1>5, <1>7, <1>8, TreeStep

\* An index file has another path than its directory.
LEMMA IndexStep ==
  ASSUME IInv, NEW w \in Workers, Index(w)
  PROVE  IInv'
<1>. DEFINE j == job[w]
            p == job[w].path
            found == {i \in DOMAIN IndexFiles : /\ Append(p, IndexFiles[i]) \in Paths
                                                /\ fs[Append(p, IndexFiles[i])] # None}
            q == Append(p, IndexFiles[Min(found)])
            k == job'[w]
<1>1. /\ j.pc = "index" /\ UNCHANGED <<now, fs, store, copies, served, mix>>
      /\ job' = IF found # {} THEN [job EXCEPT ![w].pc = "file", ![w].path = q, ![w].stat = Stat(q), ![w].at = now]
                ELSE IF Listing THEN [job EXCEPT ![w].pc = "list"]
                ELSE [job EXCEPT ![w] = Answered(@, "done", 403, 0)]
  BY DEF Index
<1>2. /\ j \in Jobs /\ JobInv(j, store, now, Mixes[mix].requests) /\ served \in 0..Mixes[mix].max
      /\ job \in [Workers -> Jobs \cup {IdleJob}] /\ Way(j, Mixes[mix].requests) /\ ~PutOrDelete(j.req)
  <2>1. j \in Jobs /\ JobInv(j, store, now, Mixes[mix].requests) /\ Way(j, Mixes[mix].requests)
    BY <1>1, ActiveJob DEF JobInv
  <2>. QED  BY <1>1, <2>1 DEF IInv, Types, Way, PutPcs
<1>3. CASE found # {}
  <2>1. q \in Paths
    <3>1. found \subseteq Nat
      BY TreeAssumption
    <3>. QED  BY <1>3, <3>1, LeastNatural
  <2>2. k = [j EXCEPT !.pc = "file", !.path = q, !.stat = Stat(q), !.at = now] /\ job' = [job EXCEPT ![w] = k]
    BY <1>1, <1>2, <1>3
  <2>. HIDE DEF j, k, q, found
  <2>3. Stat(q) \in Stats /\ "file" \in Pcs /\ now \in Nat
    BY <2>1, StatFacts DEF Pcs, IInv, Types
  <2>4. k \in Jobs
    BY <1>2, <2>1, <2>2, <2>3 DEF Jobs
  <2>5. /\ k.pc = "file" /\ k.path = q /\ k.stat = Stat(q) /\ k.req = j.req /\ k.node = j.node
        /\ k.heads = j.heads /\ k.touched = j.touched /\ k.sent = j.sent /\ k.buf = j.buf
        /\ k.at = now
    BY <1>2, <2>2 DEF Jobs
  <2>6. j.node = None /\ j.sent = <<>> /\ j.buf = <<>>
    BY <1>1, <1>2 DEF JobInv, Found, j
  <2>7. Way(k, Mixes[mix].requests)
    BY <1>1, <1>2, <2>5 DEF Way, PutPcs, j
  <2>8. Found(k, store, now)
    BY <2>1, <2>3, <2>5, <2>6, StatFacts DEF Found, Valid
  <2>9. Untouched(k, store)
    BY <2>1, <2>5, StatFacts DEF Untouched
  <2>10. Opened(k) /\ Sending(k) /\ Stored(k, store)
    BY <2>5, <2>6 DEF Opened, Sending, Stored, None
  <2>. QED  BY <1>1, <1>2, <2>2, <2>4, <2>7, <2>8, <2>9, <2>10, OwnStep DEF JobInv, k
<1>4. CASE found = {} /\ Listing
  <2>1. k = [j EXCEPT !.pc = "list"] /\ job' = [job EXCEPT ![w] = k]
    BY <1>1, <1>2, <1>4
  <2>. HIDE DEF j, k, found
  <2>2. k \in Jobs /\ k.pc = "list" /\ Keeping(j, k) /\ k.heads = j.heads
    <3>1. "list" \in Pcs
      BY DEF Pcs
    <3>. QED  BY <1>2, <2>1, <3>1, GoesOn
  <2>3. Way(k, Mixes[mix].requests)
    BY <1>1, <1>2, <2>2 DEF Way, PutPcs, FilePcs, Keeping, j
  <2>4. JobInv(k, store, now, Mixes[mix].requests)
    BY <1>1, <1>2, <2>2, <2>3, GoesItsWay DEF j
  <2>. QED  BY <1>1, <1>2, <2>1, <2>2, <2>4, OwnStep DEF k
<1>5. CASE found = {} /\ ~Listing
  <2>1. Answer(w, 403, 0)
    BY <1>1, <1>5 DEF Answer
  <2>2. job[w].pc \notin {"idle", "send", "store", "close", "done"}
    <3>1. job[w].pc = "index"
      BY DEF Index
    <3>. QED  BY <3>1
  <2>. QED  BY <2>1, <2>2, AnswerStep, SMTT(40)
<1>. QED  BY <1>3, <1>4, <1>5

\* The same for an index file.
LEMMA DecideFileStep ==
  ASSUME IInv, NEW w \in Workers, DecideFile(w)
  PROVE  IInv'
<1>. DEFINE j == job[w]
            k == job'[w]
            p == First(FileCases(w))
<1>1. j.pc = "file" /\ job' = [job EXCEPT ![w].pc = p] /\ UNCHANGED <<now, fs, store, copies, served, mix>>
  BY DEF DecideFile
<1>2. j \in Jobs /\ JobInv(j, store, now, Mixes[mix].requests)
  BY <1>1, ActiveJob
<1>3. job \in [Workers -> Jobs \cup {IdleJob}] /\ served \in 0..Mixes[mix].max
  BY DEF IInv, Types
<1>4. k = [j EXCEPT !.pc = p] /\ job' = [job EXCEPT ![w] = k]
  BY <1>1, <1>3
<1>5. p \in FilePcs
  BY FileDecided
<1>. HIDE DEF j, k, p
<1>6. k \in Jobs /\ k.pc = p /\ Keeping(j, k) /\ k.heads = j.heads
  BY <1>2, <1>4, <1>5, GoesOn DEF Pcs
<1>7. Way(k, Mixes[mix].requests)
  <2>1. Way(j, Mixes[mix].requests)
    BY <1>2 DEF JobInv
  <2>. QED  BY <1>1, <1>5, <1>6, <2>1 DEF Way, Keeping, PutPcs, FilePcs, j
<1>8. JobInv(k, store, now, Mixes[mix].requests)
  BY <1>1, <1>2, <1>5, <1>6, <1>7, GoesItsWay DEF j, FilePcs
<1>. QED  BY <1>1, <1>3, <1>4, <1>6, <1>8, OwnStep DEF k

-----------------------------------------------------------------------------
(* Serving a file. *)

\* A length is an integer.
LEMMA RangeTypes ==
  ASSUME NEW size \in Nat, NEW r \in Requested
  PROVE  RangeLength(size, r.range) \in Int /\ RangeStart(r.range) \in Nat
<1>1. /\ r.range \in Seq(Nat) /\ Len(r.range) \in Nat
      /\ \A i \in 1..Len(r.range) : r.range[i] \in Nat
  BY DEF Requested
<1>2. r.range # <<>> => Len(r.range) >= 1
  BY <1>1
<1>3. RangeStart(r.range) \in Nat
  BY <1>1, <1>2 DEF RangeStart
<1>4. RangeLength(size, r.range) \in Int
  <2>1. CASE Len(r.range) = 2
    BY <1>1, <2>1 DEF RangeLength
  <2>2. CASE Len(r.range) = 1
    BY <1>1, <2>2 DEF RangeLength
  <2>3. CASE Len(r.range) # 1 /\ Len(r.range) # 2
    BY <2>3 DEF RangeLength
  <2>. QED  BY <2>1, <2>2, <2>3
<1>. QED  BY <1>3, <1>4

\* A file is opened to be sent, or is not there.
LEMMA OpenFileStep ==
  ASSUME IInv, NEW w \in Workers, OpenFile(w)
  PROVE  IInv'
<1>. DEFINE j == job[w]
            k == job'[w]
            n == fs[j.path]
            length == RangeLength(Len(j.stat.data), j.req.range)
            a == Answered(j, IF j.req.method = "HEAD" THEN "done" ELSE "send",
                          IF j.req.range = <<>> THEN 200 ELSE 206, length)
            b == [a EXCEPT !.node = n, !.pos = RangeStart(j.req.range), !.left = length,
                           !.touched = @ \/ n # j.stat.node]
<1>1. /\ j.pc = "open" /\ UNCHANGED <<now, fs, store, copies, served, mix>>
      /\ job' = [job EXCEPT ![w] = IF n = None THEN Answered(j, "done", 500, 0) ELSE b]
  BY DEF OpenFile
<1>2. /\ j \in Jobs /\ JobInv(j, store, now, Mixes[mix].requests) /\ j.path \in Paths /\ j.req \in Requested
      /\ j.stat.data \in Bytes /\ j.touched \in BOOLEAN
  <2>1. j \in Jobs /\ JobInv(j, store, now, Mixes[mix].requests)
    BY <1>1, ActiveJob
  <2>. QED  BY <2>1 DEF Jobs, Stats
<1>3. /\ fs \in [Paths -> Int] /\ Valid(n, store) /\ n \in Int /\ served \in 0..Mixes[mix].max
  BY <1>2 DEF IInv, Types, Tree
<1>4. CASE n = None
  <2>1. Answer(w, 500, 0)
    BY <1>1, <1>4 DEF Answer
  <2>2. job[w].pc \notin {"idle", "send", "store", "close", "done"}
    <3>1. job[w].pc = "open"
      BY DEF OpenFile
    <3>. QED  BY <3>1
  <2>. QED  BY <2>1, <2>2, AnswerStep
<1>5. CASE n # None
  <2>1. k = b /\ job' = [job EXCEPT ![w] = k]
    <3>1. job' = [job EXCEPT ![w] = b]
      BY <1>1, <1>5
    <3>. HIDE DEF b
    <3>. QED  BY <3>1, NewRecord
  <2>2. length \in Int /\ RangeStart(j.req.range) \in Nat
    BY <1>2, RangeTypes DEF Bytes
  <2>3. /\ a \in Jobs /\ Keeping(j, a) /\ a.heads = j.heads + 1 /\ a.length = length
        /\ a.pc = (IF j.req.method = "HEAD" THEN "done" ELSE "send")
        /\ a.status = (IF j.req.range = <<>> THEN 200 ELSE 206)
    <3>1. (IF j.req.method = "HEAD" THEN "done" ELSE "send") \in Pcs
      BY DEF Pcs
    <3>2. (IF j.req.range = <<>> THEN 200 ELSE 206) \in Int
      OBVIOUS
    <3>. QED  BY <1>2, <2>2, <3>1, <3>2, AnsweredJob
  <2>. HIDE DEF a, length, n, j, k
  <2>4. (a.touched \/ n # j.stat.node) \in BOOLEAN
    OBVIOUS
  <2>5. k = [a EXCEPT !.node = n, !.pos = RangeStart(j.req.range), !.left = length,
                      !.touched = (a.touched \/ n # j.stat.node)]
    BY <2>1
  <2>6. k \in Jobs
    <3>1. \A m, left \in Int, pos \in Nat, touched \in BOOLEAN :
            [a EXCEPT !.node = m, !.pos = pos, !.left = left, !.touched = touched] \in Jobs
      BY <2>3, ZenonT(60) DEF Jobs
    <3>. QED  BY <1>3, <2>2, <2>4, <2>5, <3>1
  <2>7. /\ k.node = n /\ k.pos = RangeStart(j.req.range) /\ k.left = length
        /\ k.touched = (a.touched \/ n # j.stat.node)
    BY <2>3, <2>5 DEF Jobs
  <2>8. /\ k.pc = a.pc /\ k.req = a.req /\ k.path = a.path /\ k.stat = a.stat
        /\ k.status = a.status /\ k.length = a.length /\ k.heads = a.heads /\ k.sent = a.sent /\ k.at = a.at
    BY <2>3, <2>5 DEF Jobs
  <2>9. /\ k.pc \in {"done", "send"} /\ (k.pc = "done" => j.req.method = "HEAD") /\ k.req = j.req /\ k.path = j.path /\ k.stat = j.stat
        /\ k.heads = j.heads + 1 /\ k.length = length /\ k.sent = j.sent /\ k.at = j.at
        /\ k.status = (IF j.req.range = <<>> THEN 200 ELSE 206)
        /\ ~k.touched => ~j.touched /\ n = j.stat.node
    BY <2>3, <2>7, <2>8, ZenonT(60) DEF Keeping
  <2>10. /\ Way(j, Mixes[mix].requests) /\ Found(j, store, now) /\ Untouched(j, store) /\ j.sent = <<>>
    BY <1>1, <1>2 DEF JobInv, Found, j
  <2>11. Way(k, Mixes[mix].requests)
    BY <1>1, <2>9, <2>10 DEF Way, PutPcs, j
  <2>12. Found(k, store, now)
    BY <1>3, <1>5, <2>7, <2>9, <2>10 DEF Found
  <2>13. Untouched(k, store)
    BY <2>9, <2>10 DEF Untouched
  <2>14. Opened(k)
    BY <2>7, <2>9 DEF Opened, length
  <2>15. Sending(k)
    BY <2>2, <2>7, <2>9, <2>10 DEF Sending
  <2>16. Stored(k, store)
    <3>1. j.req.method # "PUT"
      BY <1>1, <2>10 DEF Way, PutOrDelete, PutPcs, j
    <3>. QED  BY <2>9, <3>1 DEF Stored
  <2>17. JobInv(k, store, now, Mixes[mix].requests)
    BY <2>11, <2>12, <2>13, <2>14, <2>15, <2>16 DEF JobInv
  <2>. QED  BY <1>1, <1>3, <2>1, <2>6, <2>17, OwnStep DEF k
<1>. QED  BY <1>4, <1>5

\* A byte of it is sent.
LEMMA SendDataStep ==
  ASSUME IInv, NEW w \in Workers, SendData(w)
  PROVE  IInv'
<1>. DEFINE j == job[w]
            k == job'[w]
            byte == Readable(j)[j.pos + 1]
<1>1. /\ j.pc = "send" /\ ~AtEnd(j) /\ j.pos < Len(Readable(j))
      /\ UNCHANGED <<now, fs, store, copies, served, mix>>
      /\ job' = [job EXCEPT ![w].sent = Append(@, byte), ![w].pos = @ + 1, ![w].left = @ - 1]
  BY DEF SendData
<1>2. /\ j \in Jobs /\ JobInv(j, store, now, Mixes[mix].requests) /\ served \in 0..Mixes[mix].max
      /\ job \in [Workers -> Jobs \cup {IdleJob}] /\ store \in Seq(Content)
  BY <1>1, ActiveJob DEF IInv, Types
<1>3. /\ j.sent \in Bytes /\ j.pos \in Nat /\ j.left \in Int /\ j.left > 0 /\ j.length \in Int
      /\ j.stat.data \in Bytes /\ j.req \in Requested /\ j.node \in Int
  BY <1>1, <1>2, SMTT(40) DEF Jobs, AtEnd, Stats
<1>4. /\ Way(j, Mixes[mix].requests) /\ Found(j, store, now) /\ Untouched(j, store)
      /\ Opened(j) /\ Sending(j) /\ ~PutOrDelete(j.req) /\ j.node # None
  <2>1. /\ Way(j, Mixes[mix].requests) /\ Found(j, store, now) /\ Untouched(j, store)
        /\ Opened(j) /\ Sending(j)
    BY <1>2 DEF JobInv
  <2>2. ~PutOrDelete(j.req)
    BY <1>1, <2>1 DEF Way, PutPcs
  <2>3. j.node # None
    BY <1>1, <2>1 DEF Found
  <2>. QED  BY <2>1, <2>2, <2>3
<1>5. j.node > 0 /\ j.node \in DOMAIN store /\ Readable(j) = store[j.node].data /\ Readable(j) \in Bytes
  <2>1. j.node # Dir
    BY <1>1, <1>3 DEF Readable
  <2>2. j.node \in DOMAIN store
    BY <1>4, <2>1 DEF Found, Valid
  <2>3. store[j.node] \in Content /\ j.node > 0
    BY <1>2, <2>2, ElementOfSeq
  <2>. QED  BY <2>1, <2>2, <2>3 DEF Readable, Content
<1>6. byte \in Nat
  <2>. DEFINE data == Readable(j)
  <2>1. data \in Seq(Nat) /\ j.pos \in Nat /\ j.pos < Len(data)
    BY <1>1, <1>3, <1>5 DEF Bytes
  <2>. HIDE DEF data
  <2>2. j.pos + 1 \in 1..Len(data)
    BY <2>1
  <2>3. data[j.pos + 1] \in Nat
    BY <2>1, <2>2
  <2>. QED  BY <2>3 DEF data
<1>7. k = [j EXCEPT !.sent = Append(j.sent, byte), !.pos = j.pos + 1, !.left = j.left - 1]
      /\ job' = [job EXCEPT ![w] = k]
  BY <1>1, <1>2
<1>. HIDE DEF j, k, byte
<1>8. k \in Jobs
  <2>1. \A sent \in Bytes, pos \in Nat, left \in Int :
          [j EXCEPT !.sent = sent, !.pos = pos, !.left = left] \in Jobs
    BY <1>2 DEF Jobs
  <2>2. Append(j.sent, byte) \in Bytes /\ j.pos + 1 \in Nat /\ j.left - 1 \in Int
    BY <1>3, <1>6 DEF Bytes
  <2>. QED  BY <1>7, <2>1, <2>2
<1>9. k.sent = Append(j.sent, byte) /\ k.pos = j.pos + 1 /\ k.left = j.left - 1
  BY <1>2, <1>7 DEF Jobs
<1>10. /\ k.pc = j.pc /\ k.req = j.req /\ k.path = j.path /\ k.stat = j.stat /\ k.node = j.node
       /\ k.status = j.status /\ k.length = j.length /\ k.heads = j.heads /\ k.touched = j.touched
       /\ k.gone = j.gone /\ k.buf = j.buf /\ k.at = j.at
  BY <1>2, <1>7 DEF Jobs
<1>11. Way(k, Mixes[mix].requests)
  BY <1>4, <1>10 DEF Way
<1>12. Found(k, store, now)
  BY <1>4, <1>10 DEF Found
<1>13. Untouched(k, store)
  BY <1>4, <1>10 DEF Untouched
<1>14. Opened(k)
  BY <1>4, <1>10 DEF Opened
<1>15. Sending(k)
  <2>. SUFFICES ASSUME k.req.method \notin {"PUT", "HEAD"}, ~k.touched
                PROVE  LET first == RangeStart(k.req.range)
                           size  == Len(k.stat.data)
                       IN  /\ k.pos = first + Len(k.sent) /\ k.left = k.length - Len(k.sent)
                           /\ k.sent # <<>> => k.pos <= size /\ k.left >= 0
                           /\ \A i \in 1..Len(k.sent) : first + i <= size /\ k.sent[i] = k.stat.data[first + i]
                           /\ k.pc = "done" /\ ~k.gone => k.left <= 0 \/ k.pos >= size
    BY DEF Sending
  <2>. DEFINE first == RangeStart(j.req.range)
              size  == Len(j.stat.data)
  <2>1. j.req.method \notin {"PUT", "HEAD"} /\ ~j.touched /\ j.node = j.stat.node
    BY <1>4, <1>10 DEF Opened
  <2>2. /\ j.pos = first + Len(j.sent) /\ j.left = j.length - Len(j.sent)
        /\ \A i \in 1..Len(j.sent) : first + i <= size /\ j.sent[i] = j.stat.data[first + i]
    BY <1>4, <1>5, <2>1 DEF Sending
  <2>3. Readable(j) = j.stat.data
    BY <1>4, <1>5, <2>1 DEF Untouched
  <2>4. first \in Nat /\ size \in Nat /\ Len(j.sent) \in Nat
    <3>1. size \in Nat /\ Len(j.sent) \in Nat
      BY <1>3 DEF Bytes
    <3>. QED  BY <1>3, <3>1, RangeTypes
  <2>5. /\ Len(k.sent) = Len(j.sent) + 1 /\ k.sent[Len(j.sent) + 1] = byte
        /\ \A i \in 1..Len(j.sent) : k.sent[i] = j.sent[i]
    BY <1>3, <1>6, <1>9, AppendProperties DEF Bytes
  <2>6. j.pos < size /\ byte = j.stat.data[first + (Len(j.sent) + 1)]
    <3>1. j.pos + 1 = first + (Len(j.sent) + 1)
      BY <2>2, <2>4
    <3>. QED  BY <1>1, <2>3, <3>1 DEF byte, j
  <2>. HIDE DEF first, size
  <2>7. k.pos = first + Len(k.sent) /\ k.left = k.length - Len(k.sent)
    BY <1>3, <1>9, <1>10, <2>2, <2>4, <2>5
  <2>8. k.pos <= size /\ k.left >= 0
    BY <1>3, <1>9, <2>4, <2>6
  <2>9. ASSUME NEW i \in 1..Len(k.sent)
        PROVE  first + i <= size /\ k.sent[i] = j.stat.data[first + i]
    <3>1. CASE i \in 1..Len(j.sent)
      BY <2>2, <2>5, <3>1
    <3>2. CASE i = Len(j.sent) + 1
      BY <2>2, <2>4, <2>5, <2>6, <3>2
    <3>. QED  BY <2>4, <2>5, <3>1, <3>2
  <2>10. k.pc = "send"
    BY <1>1, <1>10 DEF j
  <2>. QED  BY <1>10, <2>7, <2>8, <2>9, <2>10 DEF first, size
<1>16. Stored(k, store)
  BY <1>1, <1>4, <1>10 DEF Stored, PutOrDelete, j
<1>17. JobInv(k, store, now, Mixes[mix].requests)
  BY <1>11, <1>12, <1>13, <1>14, <1>15, <1>16 DEF JobInv
<1>. QED  BY <1>1, <1>2, <1>7, <1>8, <1>17, OwnStep DEF k

\* The end of the loop, by itself or because nobody listens.
LEMMA SendOverSteps ==
  ASSUME IInv, NEW w \in Workers, SendEnds(w) \/ SendFails(w)
  PROVE  IInv'
<1>. DEFINE j == job[w]
            k == job'[w]
<1>1. /\ j.pc = "send" /\ UNCHANGED <<now, fs, store, copies, served, mix>>
      /\ \/ AtEnd(j) /\ job' = [job EXCEPT ![w].pc = "done"]
         \/ job' = [job EXCEPT ![w].pc = "done", ![w].gone = TRUE]
  BY DEF SendEnds, SendFails
<1>2. /\ j \in Jobs /\ JobInv(j, store, now, Mixes[mix].requests) /\ served \in 0..Mixes[mix].max
      /\ job \in [Workers -> Jobs \cup {IdleJob}] /\ store \in Seq(Content)
  BY <1>1, ActiveJob DEF IInv, Types
<1>3. /\ job' = [job EXCEPT ![w] = k]
      /\ \/ AtEnd(j) /\ k = [j EXCEPT !.pc = "done"]
         \/ k = [j EXCEPT !.pc = "done", !.gone = TRUE]
  BY <1>1, <1>2
<1>. HIDE DEF j, k
<1>4. /\ k \in Jobs /\ k.pc = "done" /\ (k.gone \/ AtEnd(j))
      /\ k.req = j.req /\ k.path = j.path /\ k.stat = j.stat /\ k.node = j.node /\ k.sent = j.sent /\ k.buf = j.buf
      /\ k.pos = j.pos /\ k.left = j.left /\ k.at = j.at
      /\ k.status = j.status /\ k.length = j.length /\ k.heads = j.heads /\ k.touched = j.touched
  <2>0. "done" \in Pcs
    BY DEF Pcs
  <2>1. CASE AtEnd(j) /\ k = [j EXCEPT !.pc = "done"]
    BY <1>2, <2>0, <2>1, GoesOn DEF Keeping
  <2>2. CASE k = [j EXCEPT !.pc = "done", !.gone = TRUE]
    <3>1. k \in Jobs
      BY <1>2, <2>0, <2>2 DEF Jobs
    <3>2. k.gone = TRUE /\ k.pc = "done"
      BY <1>2, <2>2 DEF Jobs
    <3>3. /\ k.req = j.req /\ k.path = j.path /\ k.stat = j.stat /\ k.node = j.node /\ k.sent = j.sent /\ k.buf = j.buf
          /\ k.pos = j.pos /\ k.left = j.left /\ k.at = j.at
          /\ k.status = j.status /\ k.length = j.length /\ k.heads = j.heads /\ k.touched = j.touched
      BY <1>2, <2>2 DEF Jobs
    <3>. QED  BY <3>1, <3>2, <3>3
  <2>. QED  BY <1>3, <2>1, <2>2
<1>5. /\ Way(j, Mixes[mix].requests) /\ Found(j, store, now) /\ Untouched(j, store)
      /\ Opened(j) /\ Sending(j) /\ ~PutOrDelete(j.req)
  <2>1. /\ Way(j, Mixes[mix].requests) /\ Found(j, store, now) /\ Untouched(j, store)
        /\ Opened(j) /\ Sending(j)
    BY <1>2 DEF JobInv
  <2>2. ~PutOrDelete(j.req)
    BY <1>1, <2>1 DEF Way, PutPcs, j
  <2>. QED  BY <2>1, <2>2
<1>6. Way(k, Mixes[mix].requests)
  BY <1>1, <1>4, <1>5 DEF Way, PutPcs, j
<1>7. Found(k, store, now)
  BY <1>4, <1>5 DEF Found
<1>8. Untouched(k, store)
  BY <1>4, <1>5 DEF Untouched
<1>9. Opened(k)
  BY <1>4, <1>5 DEF Opened
<1>10. Sending(k)
  <2>1. ASSUME j.req.method # "PUT", j.node > 0, ~j.touched, AtEnd(j)
        PROVE  j.left <= 0 \/ j.pos >= Len(j.stat.data)
    <3>1. j.node = j.stat.node
      BY <1>5, <2>1 DEF Opened, None
    <3>. QED  BY <1>5, <2>1, <3>1 DEF AtEnd, Readable, Untouched, Dir
  <2>. QED  BY <1>4, <1>5, <2>1 DEF Sending
<1>11. Stored(k, store)
  BY <1>4, <1>5 DEF Stored, PutOrDelete
<1>12. JobInv(k, store, now, Mixes[mix].requests)
  BY <1>6, <1>7, <1>8, <1>9, <1>10, <1>11 DEF JobInv
<1>. QED  BY <1>1, <1>2, <1>3, <1>4, <1>12, OwnStep DEF k

-----------------------------------------------------------------------------
(* Storing a file: directories. *)

\* The directories of a file that is to be stored are listed.
LEMMA PutStep ==
  ASSUME IInv, NEW w \in Workers, Put(w)
  PROVE  IInv'
<1>. DEFINE j == job[w]
            k == job'[w]
            p == job[w].path
            count == IF job[w].req.slash THEN Len(p) ELSE Len(p) - 1
            above == [i \in 1..count |-> SubSeq(p, 1, i)]
            status == IF fs[p] # None THEN 200 ELSE 201
<1>1. /\ j.pc = "put" /\ UNCHANGED <<now, fs, store, copies, served, mix>>
      /\ job' = [job EXCEPT ![w].pc = "putdir", ![w].dirs = above, ![w].status = status]
  BY DEF Put
<1>2. /\ j \in Jobs /\ JobInv(j, store, now, Mixes[mix].requests) /\ served \in 0..Mixes[mix].max
      /\ job \in [Workers -> Jobs \cup {IdleJob}]
  BY <1>1, ActiveJob DEF IInv, Types
<1>3. above \in Seq(Names)
  <2>1. p \in Seq(STRING) /\ Len(p) \in Nat
    BY <1>2, TreeAssumption DEF Jobs
  <2>2. \A i \in 1..count : SubSeq(p, 1, i) \in Names
    BY <2>1 DEF Names
  <2>3. PICK m \in Nat : 1..count = 1..m
    <3>1. CASE count \in Nat
      BY <3>1
    <3>2. CASE count \notin Nat
      <4>1. count = -1
        BY <2>1, <3>2
      <4>. QED  BY <4>1
    <3>. QED  BY <3>1, <3>2
  <2>. HIDE DEF count
  <2>4. above = [i \in 1..m |-> SubSeq(p, 1, i)]
    BY <2>3
  <2>5. \A i \in 1..m : SubSeq(p, 1, i) \in Names
    BY <2>2, <2>3
  <2>. HIDE DEF above
  <2>. QED  BY <2>4, <2>5
<1>4. k = [j EXCEPT !.pc = "putdir", !.dirs = above, !.status = status] /\ job' = [job EXCEPT ![w] = k]
  BY <1>1, <1>2, ZenonT(60)
<1>5. status \in {200, 201}
  OBVIOUS
<1>. HIDE DEF j, k, above, status
<1>6. k \in Jobs
  <2>1. \A dirs \in Seq(Names), s \in Int : [j EXCEPT !.pc = "putdir", !.dirs = dirs, !.status = s] \in Jobs
    <3>1. "putdir" \in Pcs
      BY DEF Pcs, PutPcs
    <3>. QED  BY <1>2, <3>1 DEF Jobs
  <2>2. status \in Int
    BY <1>5
  <2>. QED  BY <1>3, <1>4, <2>1, <2>2
<1>7. /\ k.pc = "putdir" /\ k.status = status /\ k.req = j.req /\ k.path = j.path /\ k.stat = j.stat
      /\ k.node = j.node /\ k.heads = j.heads /\ k.touched = j.touched /\ k.sent = j.sent /\ k.buf = j.buf
      /\ k.at = j.at
  BY <1>2, <1>4 DEF Jobs
<1>8. Way(j, Mixes[mix].requests) /\ Found(j, store, now) /\ j.req.method = "PUT"
  BY <1>1, <1>2 DEF JobInv, Way, PutPcs, j
<1>9. j.node = None
  BY <1>1, <1>8 DEF Found, j
<1>10. Way(k, Mixes[mix].requests)
  BY <1>1, <1>7, <1>8 DEF Way, PutPcs, FilePcs, j
<1>11. Found(k, store, now)
  BY <1>7, <1>8, <1>9 DEF Found
<1>12. Untouched(k, store) /\ Opened(k) /\ Sending(k)
  BY <1>7, <1>8 DEF Untouched, Opened, Sending
<1>13. Stored(k, store)
  BY <1>5, <1>7 DEF Stored
<1>. QED  BY <1>1, <1>2, <1>4, <1>6, <1>10, <1>11, <1>12, <1>13, OwnStep DEF k, JobInv

\* One directory less to make, or one to make.
LEMMA NextDir ==
  ASSUME NEW j \in Jobs, NEW k, NEW nodes, NEW time, NEW requests, JobInv(j, nodes, time, requests),
         j.pc \in {"putdir", "mkdir"}, j.dirs # <<>>,
         k \in {[j EXCEPT !.pc = "mkdir"], [j EXCEPT !.pc = "putdir", !.dirs = Tail(j.dirs)]}
  PROVE  k \in Jobs /\ JobInv(k, nodes, time, requests)
<1>1. "putdir" \in Pcs /\ "mkdir" \in Pcs
  BY DEF Pcs, PutPcs
<1>2. j.dirs \in Seq(Names) /\ Tail(j.dirs) \in Seq(Names)
  BY DEF Jobs
<1>3. k \in Jobs
  <2>1. \A pc \in Pcs, dirs \in Seq(Names) :
          [j EXCEPT !.pc = pc] \in Jobs /\ [j EXCEPT !.pc = pc, !.dirs = dirs] \in Jobs
    BY DEF Jobs
  <2>2. [j EXCEPT !.pc = "mkdir"] \in Jobs /\ [j EXCEPT !.pc = "putdir", !.dirs = Tail(j.dirs)] \in Jobs
    BY <1>1, <1>2, <2>1
  <2>. HIDE DEF Jobs
  <2>. QED  BY <2>2
<1>4. /\ k.pc \in {"putdir", "mkdir"} /\ (k.pc = "mkdir" => k.dirs = j.dirs)
      /\ k.req = j.req /\ k.path = j.path /\ k.stat = j.stat /\ k.status = j.status
      /\ k.node = j.node /\ k.heads = j.heads /\ k.touched = j.touched /\ k.sent = j.sent /\ k.buf = j.buf
      /\ k.at = j.at
  BY ZenonT(60) DEF Jobs
<1>5. Way(j, requests) /\ Found(j, nodes, time) /\ Stored(j, nodes) /\ j.req.method = "PUT"
  BY DEF JobInv, Way, PutPcs
<1>6. j.node = None
  BY <1>5 DEF Found
<1>. HIDE DEF Jobs
<1>7. Way(k, requests)
  BY <1>4, <1>5 DEF Way, PutPcs, FilePcs
<1>8. Found(k, nodes, time)
  BY <1>4, <1>5, <1>6 DEF Found
<1>9. Untouched(k, nodes) /\ Opened(k) /\ Sending(k)
  BY <1>4, <1>5 DEF Untouched, Opened, Sending
<1>10. Stored(k, nodes)
  BY <1>4, <1>5 DEF Stored
<1>. QED  BY <1>3, <1>7, <1>8, <1>9, <1>10 DEF JobInv

\* One of them is there, or is not.
LEMMA TestDirStep ==
  ASSUME IInv, NEW w \in Workers, TestDir(w)
  PROVE  IInv'
<1>. DEFINE j == job[w]
<1>1. /\ j.pc = "putdir" /\ j.dirs # <<>> /\ UNCHANGED <<now, fs, store, copies, served, mix>>
      /\ \/ job' = [job EXCEPT ![w].dirs = Tail(@)]
         \/ job' = [job EXCEPT ![w].pc = "mkdir"]
  BY DEF TestDir
<1>2. /\ j \in Jobs /\ JobInv(j, store, now, Mixes[mix].requests) /\ served \in 0..Mixes[mix].max
      /\ job \in [Workers -> Jobs \cup {IdleJob}]
  BY <1>1, ActiveJob DEF IInv, Types
<1>3. /\ job' = [job EXCEPT ![w] = job'[w]]
      /\ job'[w] \in {[j EXCEPT !.pc = "mkdir"], [j EXCEPT !.pc = "putdir", !.dirs = Tail(j.dirs)]}
  <2>1. CASE job' = [job EXCEPT ![w].dirs = Tail(@)]
    <3>1. job'[w] = [j EXCEPT !.dirs = Tail(j.dirs)] /\ job' = [job EXCEPT ![w] = job'[w]]
      BY <1>2, <2>1
    <3>2. [j EXCEPT !.dirs = Tail(j.dirs)] = [j EXCEPT !.pc = "putdir", !.dirs = Tail(j.dirs)]
      BY <1>1, <1>2 DEF Jobs
    <3>. QED  BY <3>1, <3>2
  <2>2. CASE job' = [job EXCEPT ![w].pc = "mkdir"]
    BY <1>2, <2>2
  <2>. QED  BY <1>1, <2>1, <2>2
<1>4. job'[w] \in Jobs /\ JobInv(job'[w], store, now, Mixes[mix].requests)
  BY <1>1, <1>2, <1>3, NextDir
<1>. QED  BY <1>1, <1>2, <1>3, <1>4, OwnStep

\* It is made, or cannot be.
LEMMA MakeDirStep ==
  ASSUME IInv, NEW w \in Workers, MakeDir(w)
  PROVE  IInv'
<1>. DEFINE j == job[w]
            d == Head(job[w].dirs)
            fine == fs[d] = None /\ fs[Front(d)] = Dir
<1>1. /\ j.pc = "mkdir" /\ UNCHANGED <<now, store, copies, served, mix>>
      /\ fs' = IF fine THEN [fs EXCEPT ![d] = Dir] ELSE fs
      /\ job' = IF fine THEN [job EXCEPT ![w].pc = "putdir", ![w].dirs = Tail(@)]
                ELSE [job EXCEPT ![w] = Answered(@, "done", 500, 0)]
  BY DEF MakeDir
<1>2. /\ j \in Jobs /\ JobInv(j, store, now, Mixes[mix].requests) /\ served \in 0..Mixes[mix].max
      /\ job \in [Workers -> Jobs \cup {IdleJob}] /\ now \in Nat /\ fs \in [Paths -> Int] /\ Tree(fs, store)
  BY <1>1, ActiveJob, SMTT(40) DEF IInv, Types
<1>3. CASE fine
  <2>2. fs' \in [Paths -> Int] /\ Tree(fs', store)
    <3>1. \A q \in Paths : fs'[q] = IF q = d THEN Dir ELSE fs[q]
      BY <1>1, <1>2, <1>3
    <3>2. fs' \in [Paths -> Int]
      <4>1. fs' = [fs EXCEPT ![d] = Dir] /\ Dir \in Int
        BY <1>1, <1>3 DEF Dir
      <4>. HIDE DEF d
      <4>. QED  BY <1>2, <4>1
    <3>3. Tree(fs', store)
      BY <1>2, <1>3, <3>1, TreeAssumption DEF Tree, Valid, None, Dir
    <3>. QED  BY <3>2, <3>3
  <2>3. job' = [job EXCEPT ![w] = job'[w]] /\ job'[w] = [j EXCEPT !.pc = "putdir", !.dirs = Tail(j.dirs)]
    <3>1. job' = [job EXCEPT ![w].pc = "putdir", ![w].dirs = Tail(@)]
      BY <1>1, <1>3
    <3>. QED  BY <1>2, <3>1
  <2>4. j.dirs # <<>>
    BY <1>1, <1>2 DEF JobInv, Stored
  <2>5. job'[w] \in Jobs /\ JobInv(job'[w], store, now, Mixes[mix].requests)
    BY <1>1, <1>2, <2>3, <2>4, NextDir, ZenonT(60)
  <2>. QED  BY <1>1, <2>2, <2>3, <2>5, TreeStep
<1>4. CASE ~fine
  <2>1. Answer(w, 500, 0)
    BY <1>1, <1>4 DEF Answer
  <2>2. job[w].pc \notin {"idle", "send", "store", "close", "done"}
    <3>1. job[w].pc = "mkdir"
      BY DEF MakeDir
    <3>. QED  BY <3>1
  <2>. QED  BY <2>1, <2>2, AnswerStep
<1>. QED  BY <1>3, <1>4

\* All of them are there, and nothing else was asked for.
LEMMA DirPutStep ==
  ASSUME IInv, NEW w \in Workers, DirPut(w)
  PROVE  IInv'
<1>1. job[w].pc = "putdir"
  BY DEF DirPut
<1>2. job[w].status \in Int
  BY <1>1, ActiveJob DEF Jobs
<1>3. job[w].pc \notin {"idle", "send", "store", "close", "done"}
  BY <1>1
<1>. QED  BY <1>2, <1>3, AnswerStep DEF DirPut

-----------------------------------------------------------------------------
(* Storing a file: contents. *)

\* The greater of two numbers.
LEMMA MaxOfTwo ==
  ASSUME NEW a \in Int, NEW b \in Int
  PROVE  Max({a, b}) = IF a >= b THEN a ELSE b
<1>. DEFINE m == IF a >= b THEN a ELSE b
<1>1. m \in {a, b} /\ \A y \in {a, b} : m >= y
  OBVIOUS
<1>2. \A x \in {a, b} : (\A y \in {a, b} : x >= y) => x = m
  OBVIOUS
<1>. QED  BY <1>1, <1>2 DEF Max

\* What is in a file after a write.
WriteEnd(data, pos, bytes) == IF Len(data) >= pos + Len(bytes) THEN Len(data) ELSE pos + Len(bytes)

WrittenTo(data, pos, bytes, end) ==
  [i \in 1..end |-> IF i \in (pos + 1)..(pos + Len(bytes)) THEN bytes[i - pos]
                    ELSE IF i <= Len(data) THEN data[i] ELSE 0]

\* Bytes that are all the same.
Equal(count, byte) == [i \in 1..count |-> byte]

\* The end of a file does not move back.
LEMMA WrittenIs ==
  ASSUME NEW data \in Bytes, NEW pos \in Nat, NEW bytes \in Bytes
  PROVE  Written(data, pos, bytes) = WrittenTo(data, pos, bytes, WriteEnd(data, pos, bytes))
<1>1. Len(data) \in Int /\ pos + Len(bytes) \in Int
  BY DEF Bytes
<1>2. \A a, b \in Int : Max({a, b}) = IF a >= b THEN a ELSE b
  BY MaxOfTwo
<1>3. Max({Len(data), pos + Len(bytes)}) = IF Len(data) >= pos + Len(bytes) THEN Len(data) ELSE pos + Len(bytes)
  BY <1>1, <1>2
<1>. QED  BY <1>3 DEF Written, WrittenTo, WriteEnd

\* It stays a sequence of bytes.
LEMMA WrittenBytes ==
  ASSUME NEW data \in Bytes, NEW pos \in Nat, NEW bytes \in Bytes
  PROVE  Written(data, pos, bytes) \in Bytes
<1>. DEFINE end  == WriteEnd(data, pos, bytes)
            f(i) == IF i \in (pos + 1)..(pos + Len(bytes)) THEN bytes[i - pos]
                    ELSE IF i <= Len(data) THEN data[i] ELSE 0
<1>1. Len(data) \in Nat /\ Len(bytes) \in Nat /\ data \in Seq(Nat) /\ bytes \in Seq(Nat)
  BY DEF Bytes
<1>2. end \in Nat
  BY <1>1 DEF WriteEnd
<1>3. Written(data, pos, bytes) = [i \in 1..end |-> f(i)]
  BY WrittenIs DEF WrittenTo
<1>4. \A i \in 1..end : f(i) \in Nat
  <2>1. TAKE i \in 1..end
  <2>2. CASE i \in (pos + 1)..(pos + Len(bytes))
    <3>1. i - pos \in 1..Len(bytes)
      BY <1>1, <2>2
    <3>. QED  BY <1>1, <2>2, <3>1
  <2>3. CASE i \notin (pos + 1)..(pos + Len(bytes))
    BY <1>1, <2>1, <2>3 DEF WriteEnd
  <2>. QED  BY <2>2, <2>3
<1>. HIDE DEF f, end
<1>. QED  BY <1>2, <1>3, <1>4 DEF Bytes

\* A file of equal bytes that is written to at its end has equal bytes.
LEMMA WrittenEqual ==
  ASSUME NEW byte \in Nat, NEW pos \in Nat, NEW bytes \in Bytes, NEW data \in Bytes,
         data = Equal(pos, byte), \A i \in 1..Len(bytes) : bytes[i] = byte
  PROVE  Written(data, pos, bytes) = Equal(pos + Len(bytes), byte)
<1>. DEFINE end  == WriteEnd(data, pos, bytes)
            f(i) == IF i \in (pos + 1)..(pos + Len(bytes)) THEN bytes[i - pos]
                    ELSE IF i <= Len(data) THEN data[i] ELSE 0
<1>1. Len(bytes) \in Nat /\ Len(data) = pos /\ \A i \in 1..pos : data[i] = byte
  BY DEF Bytes, Equal
<1>2. end = pos + Len(bytes)
  BY <1>1 DEF WriteEnd
<1>3. Written(data, pos, bytes) = [i \in 1..end |-> f(i)]
  BY WrittenIs DEF WrittenTo
<1>4. \A i \in 1..(pos + Len(bytes)) : f(i) = byte
  <2>1. TAKE i \in 1..(pos + Len(bytes))
  <2>2. CASE i \in (pos + 1)..(pos + Len(bytes))
    <3>1. i - pos \in 1..Len(bytes)
      BY <1>1, <2>2
    <3>. QED  BY <2>2, <3>1
  <2>3. CASE i \notin (pos + 1)..(pos + Len(bytes))
    BY <1>1, <2>1, <2>3
  <2>. QED  BY <2>2, <2>3
<1>. HIDE DEF f, end
<1>. QED  BY <1>2, <1>3, <1>4 DEF Equal

\* What a change of a node does to the records of the others.
LEMMA TouchOthers ==
  ASSUME IInv, NEW w \in Workers, NEW n, NEW k, job' = Touch(w, n, [job EXCEPT ![w] = k])
  PROVE  /\ DOMAIN job' = Workers /\ job'[w] = k
         /\ \A v \in Workers \ {w} : job'[v] = job[v] \/ (job[v].pc # "idle" /\ job'[v] = [job[v] EXCEPT !.touched = TRUE])
         /\ \A v \in Workers \ {w} : job[v].pc # "idle" =>
              job'[v] = IF n \in {job[v].stat.node, job[v].node} THEN [job[v] EXCEPT !.touched = TRUE] ELSE job[v]
<1>. DEFINE jobs == [job EXCEPT ![w] = k]
<1>1. job \in [Workers -> Jobs \cup {IdleJob}]
  BY DEF IInv, Types
<1>2. jobs[w] = k /\ \A v \in Workers \ {w} : jobs[v] = job[v]
  BY <1>1
<1>. HIDE DEF jobs
<1>3. job' = Touch(w, n, jobs)
  BY DEF jobs
<1>4. DOMAIN job' = Workers
      /\ \A v \in Workers : job'[v] = IF v # w /\ jobs[v].pc # "idle" /\ n \in {jobs[v].stat.node, jobs[v].node}
                                      THEN [jobs[v] EXCEPT !.touched = TRUE] ELSE jobs[v]
  BY <1>3 DEF Touch
<1>. QED  BY <1>2, <1>4, ZenonT(60)

\* A step that changes one node, and maybe where it is, and the record of its worker.
LEMMA WriteStep ==
  ASSUME IInv, NEW w \in Workers, NEW n \in Int, NEW k \in Jobs,
         job' = Touch(w, n, [job EXCEPT ![w] = k]), UNCHANGED <<now, copies, served, mix>>,
         store' \in Seq(Content), Len(store) <= Len(store'),
         \A m \in DOMAIN store : m # n => store'[m] = store[m],
         \A m \in DOMAIN store' : store'[m].mtime <= now,
         fs' \in [Paths -> Int], Tree(fs', store'), JobInv(k, store', now, Mixes[mix].requests)
  PROVE  IInv'
<1>1. /\ DOMAIN job' = Workers /\ job'[w] = k
      /\ \A v \in Workers \ {w} : job'[v] = job[v] \/ (job[v].pc # "idle" /\ job'[v] = [job[v] EXCEPT !.touched = TRUE])
      /\ \A v \in Workers \ {w} : job[v].pc # "idle" =>
           job'[v] = IF n \in {job[v].stat.node, job[v].node} THEN [job[v] EXCEPT !.touched = TRUE] ELSE job[v]
  BY TouchOthers
<1>2. /\ job \in [Workers -> Jobs \cup {IdleJob}] /\ now \in Nat /\ store \in Seq(Content)
      /\ copies \subseteq Copies /\ served \in 0..Mixes[mix].max /\ mix \in DOMAIN Mixes
      /\ Dated(store, copies, now)
  BY DEF IInv, Types
<1>3. ASSUME NEW v \in Workers \ {w}, job[v].pc # "idle"
      PROVE  job'[v] \in Jobs /\ JobInv(job'[v], store', now, Mixes[mix].requests)
  <2>. DEFINE j == job[v]
              l == job'[v]
  <2>1. j \in Jobs /\ JobInv(j, store, now, Mixes[mix].requests)
    BY <1>3, ActiveJob
  <2>2. l = IF n \in {j.stat.node, j.node} THEN [j EXCEPT !.touched = TRUE] ELSE j
    BY <1>1, <1>3
  <2>. HIDE DEF j, l
  <2>3. /\ l \in Jobs /\ Touching(j, l)
        /\ n \in {j.stat.node, j.node} => l.touched
        /\ n \notin {j.stat.node, j.node} => l.touched = j.touched
    <3>1. CASE n \in {j.stat.node, j.node}
      <4>1. l = [j EXCEPT !.touched = TRUE]
        BY <2>2, <3>1
      <4>. QED  BY <2>1, <3>1, <4>1, TouchedJob
    <3>2. CASE n \notin {j.stat.node, j.node}
      <4>1. l = j
        BY <2>2, <3>2
      <4>. QED  BY <2>1, <3>2, <4>1 DEF Touching
    <3>. QED  BY <3>1, <3>2
  <2>4. JobInv(l, store', now, Mixes[mix].requests)
    <3>1. now \in Nat /\ now <= now /\ store \in Seq(Content)
      BY <1>2
    <3>. QED  BY <2>1, <2>3, <3>1, ElsewhereWritten, SMTT(60)
  <2>. QED  BY <2>3, <2>4 DEF l
<1>4. ASSUME NEW v \in Workers
      PROVE  /\ job'[v] \in Jobs \cup {IdleJob}
             /\ job'[v].pc # "idle" => JobInv(job'[v], store', now, Mixes[mix].requests)
  <2>1. CASE v = w
    BY <1>1, <2>1
  <2>2. CASE v # w /\ job[v].pc # "idle"
    BY <1>3, <2>2
  <2>3. CASE v # w /\ job[v].pc = "idle"
    <3>1. job'[v] = job[v]
      BY <1>1, <2>3
    <3>. QED  BY <1>2, <2>3, <3>1
  <2>. QED  BY <2>1, <2>2, <2>3
<1>5. job' \in [Workers -> Jobs \cup {IdleJob}]
  <2>1. job' = [v \in Workers |-> job'[v]]
    <3>1. job' = Touch(w, n, [job EXCEPT ![w] = k])
      OBVIOUS
    <3>. QED  BY <3>1 DEF Touch
  <2>. QED  BY <1>4, <2>1
<1>6. Types'
  BY <1>2, <1>5 DEF Types
<1>7. Dated(store', copies', now)
  <2>1. \A c \in copies : c.etag[1] \in Nat
    BY <1>2 DEF Copies, Etags
  <2>. QED  BY <1>2, <2>1 DEF Dated
<1>. QED  BY <1>4, <1>6, <1>7 DEF IInv, Active

\* A step that changes the record of a worker that is storing a file, and maybe a node.
LEMMA PutRecord ==
  ASSUME NEW j \in Jobs, NEW k \in Jobs, NEW nodes, NEW nodes2, NEW time, NEW time2 \in Nat, NEW requests,
         JobInv(j, nodes, time, requests), j.req.method = "PUT", time \in Nat, time <= time2,
         \A m \in {None, Dir} \cup DOMAIN nodes : Valid(m, nodes2),
         k.req = j.req, k.path = j.path, k.stat = j.stat, k.at = j.at, j.pc \in PutPcs,
         k.pc \in PutPcs \cup {"done"}, k.heads = (IF k.pc \in {"close", "done"} THEN 1 ELSE 0),
         k.node \in DOMAIN nodes2, k.node > 0, k.pc \in {"store", "close", "done"},
         Stored(k, nodes2)
  PROVE  JobInv(k, nodes2, time2, requests)
<1>1. Way(j, requests) /\ Found(j, nodes, time) /\ j.at \in Nat
  BY DEF JobInv, Jobs
<1>2. Way(k, requests)
  BY <1>1 DEF Way, PutPcs, FilePcs
<1>3. Valid(k.node, nodes2) /\ Valid(k.stat.node, nodes2)
  BY <1>1 DEF Found, Valid
<1>4. Found(k, nodes2, time2)
  BY <1>1, <1>3 DEF Found, None
<1>5. Untouched(k, nodes2) /\ Opened(k) /\ Sending(k)
  BY DEF Untouched, Opened, Sending
<1>. QED  BY <1>2, <1>4, <1>5 DEF JobInv

\* The record of a worker that has opened its file.
PutOpened(j, n) == [j EXCEPT !.pc = "store", !.node = n, !.pos = RangeStart(j.req.range),
                             !.left = j.req.body, !.touched = FALSE,
                             !.status = IF j.req.range = <<>> THEN j.status ELSE 206]

Storing(j, n, k) ==
  /\ k.pc = "store" /\ k.node = n /\ k.pos = RangeStart(j.req.range)
  /\ k.left = j.req.body /\ k.touched = FALSE
  /\ k.status = (IF j.req.range = <<>> THEN j.status ELSE 206)
  /\ k.req = j.req /\ k.path = j.path /\ k.stat = j.stat /\ k.heads = j.heads
  /\ k.buf = j.buf /\ k.sent = j.sent /\ k.copy = j.copy /\ k.listed = j.listed /\ k.at = j.at

\* What opening a file to store it does to the record of a worker,
LEMMA PutOpenedFacts ==
  ASSUME NEW j \in Jobs, NEW n \in Int
  PROVE  PutOpened(j, n) \in Jobs /\ Storing(j, n, PutOpened(j, n))
<1>. DEFINE k == PutOpened(j, n)
            pos == RangeStart(j.req.range)
            status == IF j.req.range = <<>> THEN j.status ELSE 206
<1>1. j.req \in Requested /\ j.req.body \in Int /\ j.status \in Int
  BY DEF Jobs, Requested
<1>2. pos \in Nat
  <2>1. 0 \in Nat
    OBVIOUS
  <2>. QED  BY <1>1, <2>1, RangeTypes
<1>3. status \in Int /\ "store" \in Pcs /\ FALSE \in BOOLEAN
  BY <1>1 DEF Pcs, PutPcs
<1>. HIDE DEF pos, status
<1>4. k = [j EXCEPT !.pc = "store", !.node = n, !.pos = pos, !.left = j.req.body, !.touched = FALSE,
                    !.status = status]
  BY DEF PutOpened, pos, status
<1>. HIDE DEF k
<1>5. k \in Jobs
  BY <1>1, <1>2, <1>3, <1>4 DEF Jobs
<1>6. /\ k.pc = "store" /\ k.node = n /\ k.pos = pos /\ k.left = j.req.body /\ k.touched = FALSE
      /\ k.status = status
  BY <1>4 DEF Jobs
<1>7. /\ k.req = j.req /\ k.path = j.path /\ k.stat = j.stat /\ k.heads = j.heads
      /\ k.buf = j.buf /\ k.sent = j.sent /\ k.copy = j.copy /\ k.listed = j.listed /\ k.at = j.at
  BY <1>4 DEF Jobs
<1>8. Storing(j, n, k)
  BY <1>6, <1>7 DEF Storing, pos, status
<1>. QED  BY <1>5, <1>8 DEF k

\* A node that is new or empty.
Emptied(nodes, n, time) == IF n = Len(nodes) + 1 THEN Append(nodes, [mtime |-> time, data |-> <<>>])
                           ELSE [nodes EXCEPT ![n] = [mtime |-> time, data |-> <<>>]]

\* and to the nodes.
LEMMA EmptyNode ==
  ASSUME NEW nodes \in Seq(Content), NEW n \in 1..(Len(nodes) + 1), NEW time \in Nat, NEW before \in Nat,
         before <= time, \A m \in DOMAIN nodes : nodes[m].mtime <= before,
         NEW nodes2, nodes2 = Emptied(nodes, n, time)
  PROVE  /\ nodes2 \in Seq(Content) /\ Len(nodes) <= Len(nodes2) /\ n \in DOMAIN nodes2
         /\ DOMAIN nodes \subseteq DOMAIN nodes2
         /\ nodes2[n] = [mtime |-> time, data |-> <<>>]
         /\ \A m \in DOMAIN nodes : m # n => nodes2[m] = nodes[m]
         /\ \A m \in DOMAIN nodes2 : nodes2[m].mtime <= time
<1>. DEFINE new == [mtime |-> time, data |-> <<>>]
<1>1. new \in Content
  BY DEF Content, Bytes
<1>2. new.mtime = time
  OBVIOUS
<1>. HIDE DEF new
<1>3. Len(nodes) \in Nat /\ DOMAIN nodes = 1..Len(nodes)
  OBVIOUS
<1>4. \A m \in DOMAIN nodes : nodes[m].mtime \in Nat
  <2>1. \A m \in DOMAIN nodes : nodes[m] \in Content
    BY ElementOfSeq
  <2>. QED  BY <2>1 DEF Content
<1>5. \A m \in DOMAIN nodes : nodes[m].mtime <= time
  BY <1>4
<1>6. CASE n = Len(nodes) + 1
  <2>1. nodes2 = Append(nodes, new)
    BY <1>6 DEF new, Emptied
  <2>2. /\ nodes2 \in Seq(Content) /\ Len(nodes2) = Len(nodes) + 1 /\ nodes2[n] = new
        /\ \A m \in 1..Len(nodes) : nodes2[m] = nodes[m]
    BY <1>1, <1>6, <2>1, AppendProperties
  <2>3. DOMAIN nodes2 = 1..(Len(nodes) + 1)
    BY <2>2
  <2>4. \A m \in DOMAIN nodes2 : nodes2[m].mtime <= time
    BY <1>2, <1>3, <1>5, <1>6, <2>2, <2>3
  <2>. QED  BY <1>3, <1>6, <2>2, <2>3, <2>4 DEF new
<1>7. CASE n # Len(nodes) + 1
  <2>1. nodes2 = [nodes EXCEPT ![n] = new]
    BY <1>7 DEF new, Emptied
  <2>2. n \in 1..Len(nodes)
    BY <1>3, <1>7
  <2>3. /\ nodes2 \in Seq(Content) /\ Len(nodes2) = Len(nodes) /\ nodes2[n] = new
        /\ \A m \in 1..Len(nodes) : m # n => nodes2[m] = nodes[m]
    BY <1>1, <2>1, <2>2
  <2>4. DOMAIN nodes2 = 1..Len(nodes)
    BY <2>3
  <2>5. \A m \in DOMAIN nodes2 : nodes2[m].mtime <= time
    <3>1. TAKE m \in DOMAIN nodes2
    <3>2. CASE m = n
      BY <1>2, <2>3, <3>2
    <3>3. CASE m # n
      BY <1>3, <1>5, <2>3, <2>4, <3>3
    <3>. QED  BY <3>2, <3>3
  <2>6. Len(nodes) <= Len(nodes2) /\ n \in DOMAIN nodes2 /\ DOMAIN nodes \subseteq DOMAIN nodes2
    BY <1>3, <2>2, <2>3, <2>4
  <2>7. nodes2 \in Seq(Content) /\ nodes2[n] = new /\ \A m \in DOMAIN nodes : m # n => nodes2[m] = nodes[m]
    BY <1>3, <2>3
  <2>. QED  BY <2>5, <2>6, <2>7 DEF new
<1>. QED  BY <1>6, <1>7

\* A file that is opened to be stored is empty.
LEMMA OpenPutStep ==
  ASSUME IInv, NEW w \in Workers, OpenPut(w)
  PROVE  IInv'
<1>. DEFINE j == job[w]
            p == job[w].path
            n == IF fs[p] = None THEN Len(store) + 1 ELSE fs[p]
            refused == fs[p] = Dir \/ p = <<>> \/ fs[Front(p)] # Dir
            k == PutOpened(j, n)
<1>1. /\ j.pc = "putdir" /\ UNCHANGED <<now, copies, served, mix>>
      /\ refused => job' = [job EXCEPT ![w] = Answered(j, "done", 500, 0)] /\ UNCHANGED <<fs, store>>
      /\ ~refused => /\ fs' = [fs EXCEPT ![p] = n]
                     /\ store' = IF fs[p] = None THEN Append(store, [mtime |-> now, data |-> <<>>]) ELSE Truncated(n)
                     /\ job' = Touch(w, n, [job EXCEPT ![w] = k])
  BY DEF OpenPut, PutOpened
<1>2. /\ j \in Jobs /\ JobInv(j, store, now, Mixes[mix].requests) /\ p \in Paths
      /\ store \in Seq(Content) /\ now \in Nat /\ fs \in [Paths -> Int] /\ Tree(fs, store)
      /\ \A m \in DOMAIN store : store[m].mtime <= now
  <2>1. j \in Jobs /\ JobInv(j, store, now, Mixes[mix].requests)
    BY <1>1, ActiveJob
  <2>. QED  BY <2>1 DEF Jobs, IInv, Types, Dated
<1>3. CASE refused
  <2>1. Answer(w, 500, 0)
    BY <1>1, <1>3 DEF Answer
  <2>2. job[w].pc \notin {"idle", "send", "store", "close", "done"}
    <3>1. job[w].pc = "putdir"
      BY <1>1
    <3>. QED  BY <3>1
  <2>. QED  BY <2>1, <2>2, AnswerStep
<1>4. CASE ~refused
  <2>2. /\ n \in 1..(Len(store) + 1) /\ n \in Int /\ p # <<>> /\ fs[Front(p)] = Dir
        /\ (n = Len(store) + 1) <=> (fs[p] = None)
    <3>1. Valid(fs[p], store) /\ Len(store) \in Nat
      BY <1>2 DEF Tree
    <3>2. CASE fs[p] = None
      BY <1>4, <3>1, <3>2
    <3>3. CASE fs[p] # None
      BY <1>4, <3>1, <3>3 DEF Valid
    <3>. QED  BY <3>2, <3>3
  <2>. HIDE DEF n
  <2>3. store' = Emptied(store, n, now)
    BY <1>1, <1>4, <2>2 DEF Truncated, Emptied
  <2>4. /\ store' \in Seq(Content) /\ Len(store) <= Len(store') /\ n \in DOMAIN store'
        /\ DOMAIN store \subseteq DOMAIN store'
        /\ store'[n] = [mtime |-> now, data |-> <<>>]
        /\ \A m \in DOMAIN store : m # n => store'[m] = store[m]
        /\ \A m \in DOMAIN store' : store'[m].mtime <= now
    BY <1>2, <2>2, <2>3, EmptyNode
  <2>5. fs' \in [Paths -> Int] /\ Tree(fs', store')
    <3>1. fs' = [fs EXCEPT ![p] = n]
      BY <1>1, <1>4
    <3>2. \A q \in Paths : fs'[q] = IF q = p THEN n ELSE fs[q]
      BY <1>2, <3>1
    <3>3. fs' \in [Paths -> Int]
      BY <1>2, <2>2, <3>1
    <3>4. \A q \in Paths : Valid(fs'[q], store')
      BY <1>2, <2>4, <3>2 DEF Tree, Valid
    <3>5. fs[p] # Dir
      BY <1>4
    <3>6. Tree(fs', store')
      BY <1>2, <2>2, <3>2, <3>4, <3>5, TreeAssumption DEF Tree, None, Dir
    <3>. QED  BY <3>3, <3>6
  <2>6. /\ k \in Jobs /\ k.pc = "store" /\ k.node = n /\ k.pos = RangeStart(j.req.range)
        /\ k.left = j.req.body /\ k.touched = FALSE
        /\ k.status = (IF j.req.range = <<>> THEN j.status ELSE 206)
        /\ k.req = j.req /\ k.path = j.path /\ k.stat = j.stat /\ k.heads = j.heads
        /\ k.buf = j.buf /\ k.at = j.at
    <3>1. k \in Jobs /\ Storing(j, n, k)
      <4>. HIDE DEF j
      <4>. QED  BY <1>2, <2>2, PutOpenedFacts
    <3>. HIDE DEF j, k
    <3>. QED  BY <3>1 DEF Storing
  <2>7. job' = Touch(w, n, [job EXCEPT ![w] = k])
    BY <1>1, <1>4
  <2>. HIDE DEF j, k
  <2>8. /\ j.req.method = "PUT" /\ j.heads = 0 /\ j.buf = <<>> /\ j.req.body \in Nat \cup {-1}
    <3>1. j.req.method = "PUT" /\ j.heads = 0
      BY <1>1, <1>2 DEF JobInv, Way, PutPcs, j
    <3>2. j.buf = <<>>
      BY <1>1, <1>2 DEF JobInv, Found, j
    <3>3. j.req.body \in Nat \cup {-1}
      BY <1>2 DEF Jobs, Requested
    <3>. QED  BY <3>1, <3>2, <3>3
  <2>9. Stored(k, store')
    <3>1. k.left >= -1 /\ (k.left = -1 => k.req.body = -1)
      BY <2>6, <2>8
    <3>2. k.status \in {200, 201} => k.pos = 0
      BY <2>6 DEF RangeStart
    <3>3. k.pos = 0 => store'[n].data = [i \in 1..k.pos |-> Byte(k)]
      BY <2>4
    <3>4. Len(k.buf) = 0 /\ \A i \in 1..Len(k.buf) : k.buf[i] = Byte(k)
      BY <2>6, <2>8
    <3>5. k.pos = 0 => k.pos + Len(k.buf) + k.left = k.req.body
      BY <2>6, <2>8, <3>4
    <3>. QED  BY <2>6, <3>1, <3>2, <3>3, <3>4, <3>5 DEF Stored
  <2>10. JobInv(k, store', now, Mixes[mix].requests)
    <3>1. j.pc \in PutPcs /\ k.pc \in PutPcs /\ n > 0
      BY <1>1, <1>2, <2>2, <2>6 DEF PutPcs, j
    <3>2. \A m \in {None, Dir} \cup DOMAIN store : Valid(m, store')
      BY <2>4 DEF Valid
    <3>3. now \in Nat /\ now <= now
      BY <1>2
    <3>. QED  BY <1>2, <2>4, <2>6, <2>8, <2>9, <3>1, <3>2, <3>3, PutRecord, ZenonT(60)
  <2>. QED  BY <1>1, <2>2, <2>4, <2>5, <2>6, <2>7, <2>10, WriteStep, ZenonT(60)
<1>. QED  BY <1>3, <1>4

\* A worker whose file is open to be stored.
LEMMA PutFacts ==
  ASSUME IInv, NEW w \in Workers, job[w].pc \in {"store", "close"}
  PROVE  /\ job[w] \in Jobs /\ JobInv(job[w], store, now, Mixes[mix].requests)
         /\ job[w].req.method = "PUT" /\ job[w].node \in DOMAIN store /\ job[w].node > 0
         /\ job[w].heads = (IF job[w].pc = "close" THEN 1 ELSE 0)
         /\ job[w].pos \in Nat /\ job[w].left \in Int /\ job[w].buf \in Bytes /\ job[w].status \in Int
         /\ Byte(job[w]) \in Nat /\ job[w].req.body \in Int /\ Stored(job[w], store) /\ job[w].pc \in PutPcs
<1>. DEFINE j == job[w]
<1>1. j \in Jobs /\ JobInv(j, store, now, Mixes[mix].requests)
  BY ActiveJob
<1>2. j.pc \in {"store", "close"}
  OBVIOUS
<1>. HIDE DEF j
<1>3. j.req.method = "PUT" /\ j.heads = (IF j.pc = "close" THEN 1 ELSE 0) /\ j.pc \in PutPcs
  BY <1>1, <1>2 DEF JobInv, Way, PutPcs
<1>4. j.node \in DOMAIN store /\ j.node > 0 /\ Stored(j, store)
  BY <1>1, <1>2 DEF JobInv, Found, Valid, None, Dir
<1>5. /\ j.pos \in Nat /\ j.left \in Int /\ j.buf \in Bytes /\ j.status \in Int
      /\ Byte(j) \in Nat /\ j.req.body \in Int
  <2>1. j.req \in Requested /\ j.pos \in Nat /\ j.left \in Int /\ j.buf \in Bytes /\ j.status \in Int
    BY <1>1 DEF Jobs
  <2>2. Byte(j) \in Nat /\ j.req.body \in Int
    BY <2>1 DEF Requested, Byte
  <2>. QED  BY <2>1, <2>2
<1>. QED  BY <1>1, <1>3, <1>4, <1>5 DEF j

\* A step of such a worker that changes its record and nothing else.
LEMMA PutOwnStep ==
  ASSUME IInv, NEW w \in Workers, job[w].pc \in {"store", "close"},
         NEW k \in Jobs, job' = [job EXCEPT ![w] = k], UNCHANGED <<now, fs, store, copies, served, mix>>,
         k.req = job[w].req, k.path = job[w].path, k.stat = job[w].stat, k.node = job[w].node, k.at = job[w].at,
         k.pc \in {"store", "close", "done"}, k.heads = (IF k.pc \in {"close", "done"} THEN 1 ELSE 0),
         Stored(k, store)
  PROVE  IInv'
<1>1. /\ job[w] \in Jobs /\ JobInv(job[w], store, now, Mixes[mix].requests)
      /\ job[w].req.method = "PUT" /\ job[w].node \in DOMAIN store /\ job[w].node > 0 /\ job[w].pc \in PutPcs
  BY PutFacts
<1>2. now \in Nat /\ served' \in 0..Mixes[mix].max /\ now <= now
  BY DEF IInv, Types
<1>3. k.pc \in PutPcs \cup {"done"} /\ \A m \in {None, Dir} \cup DOMAIN store : Valid(m, store)
  BY DEF PutPcs, Valid
<1>4. JobInv(k, store, now, Mixes[mix].requests)
  BY <1>1, <1>2, <1>3, PutRecord
<1>5. job'[w] = k /\ job' = [job EXCEPT ![w] = job'[w]]
  BY NewRecord
<1>. QED  BY <1>2, <1>4, <1>5, OwnStep

\* Bytes go into the buffer.
LEMMA StoreStep ==
  ASSUME IInv, NEW w \in Workers, Store(w)
  PROVE  IInv'
<1>. DEFINE j == job[w]
            k == [j EXCEPT !.buf = Append(j.buf, Byte(j)), !.left = j.left - 1]
<1>1. /\ j.pc = "store" /\ j.left > 0 /\ UNCHANGED <<now, fs, store, copies, served, mix>>
      /\ job' = [job EXCEPT ![w] = k]
  BY DEF Store
<1>2. /\ j \in Jobs /\ j.pos \in Nat /\ j.left \in Int /\ j.buf \in Bytes /\ Byte(j) \in Nat
      /\ j.req.body \in Int /\ Stored(j, store) /\ j.heads = 0
  BY <1>1, PutFacts
<1>3. Append(j.buf, Byte(j)) \in Bytes /\ j.left - 1 \in Int
  BY <1>2 DEF Bytes
<1>4. Len(j.buf) \in Nat /\ Len(Append(j.buf, Byte(j))) = Len(j.buf) + 1
      /\ \A i \in 1..Len(Append(j.buf, Byte(j))) :
           Append(j.buf, Byte(j))[i] = IF i <= Len(j.buf) THEN j.buf[i] ELSE Byte(j)
  BY <1>2 DEF Bytes
<1>. HIDE DEF j, k
<1>5. k \in Jobs
  <2>1. \A buf \in Bytes, left \in Int : [j EXCEPT !.buf = buf, !.left = left] \in Jobs
    BY <1>2 DEF Jobs
  <2>. QED  BY <1>3, <2>1 DEF k
<1>6. k.buf = Append(j.buf, Byte(j)) /\ k.left = j.left - 1
  BY <1>2 DEF Jobs, k
<1>7. /\ k.pc = j.pc /\ k.req = j.req /\ k.path = j.path /\ k.stat = j.stat /\ k.node = j.node
      /\ k.pos = j.pos /\ k.status = j.status /\ k.heads = j.heads /\ k.touched = j.touched /\ k.at = j.at
  BY <1>2 DEF Jobs, k
<1>8. j.pc = "store" /\ j.left > 0
  BY <1>1 DEF j
<1>9. Stored(k, store)
  <2>1. Byte(k) = Byte(j)
    BY <1>7 DEF Byte
  <2>2. Len(k.buf) = Len(j.buf) + 1 /\ \A i \in 1..Len(k.buf) : k.buf[i] = IF i <= Len(j.buf) THEN j.buf[i] ELSE Byte(j)
    BY <1>4, <1>6
  <2>3. /\ j.status \in {200, 201} => j.pos + Len(j.buf) + j.left = j.req.body
        /\ j.status \in {200, 201} /\ ~j.touched =>
             /\ store[j.node].data = [i \in 1..j.pos |-> Byte(j)]
             /\ \A i \in 1..Len(j.buf) : j.buf[i] = Byte(j)
    BY <1>2, <1>8 DEF Stored
  <2>4. k.left >= -1 /\ k.left # -1
    BY <1>2, <1>6, <1>8
  <2>5. k.status \in {200, 201} => k.pos + Len(k.buf) + k.left = k.req.body
    <3>1. k.status = j.status /\ k.pos = j.pos /\ k.req = j.req
      BY <1>7
    <3>2. ASSUME j.status \in {200, 201}
          PROVE  j.pos + Len(k.buf) + k.left = j.req.body
      <4>1. j.pos + Len(j.buf) + j.left = j.req.body
        BY <2>3, <3>2
      <4>2. Len(k.buf) = Len(j.buf) + 1 /\ k.left = j.left - 1
        BY <1>6, <2>2
      <4>3. j.pos \in Int /\ j.left \in Int /\ Len(j.buf) \in Int
        BY <1>2, <1>4
      <4>. QED  BY <4>1, <4>2, <4>3, SMTT(40)
    <3>. QED  BY <3>1, <3>2
  <2>6. k.status \in {200, 201} /\ ~k.touched =>
          /\ store[k.node].data = [i \in 1..k.pos |-> Byte(k)]
          /\ \A i \in 1..Len(k.buf) : k.buf[i] = Byte(k)
    BY <1>4, <1>7, <2>1, <2>2, <2>3
  <2>. QED  BY <1>7, <1>8, <2>4, <2>5, <2>6 DEF Stored
<1>. QED  BY <1>1, <1>2, <1>5, <1>7, <1>8, <1>9, PutOwnStep DEF j

\* The request is answered, with an error or not, before the file is closed.
LEMMA PutAnswerSteps ==
  ASSUME IInv, NEW w \in Workers, PutFails(w) \/ PutAnswer(w)
  PROVE  IInv'
<1>. DEFINE j == job[w]
<1>1. j.pc = "store" /\ UNCHANGED <<now, fs, store, copies, served, mix>>
  BY DEF PutFails, PutAnswer
<1>2. /\ j \in Jobs /\ j.pos \in Nat /\ j.left \in Int /\ j.buf \in Bytes /\ Byte(j) \in Nat
      /\ j.status \in Int /\ j.req.body \in Int /\ Stored(j, store) /\ j.heads = 0
  BY <1>1, PutFacts
<1>. DEFINE Answers(status, length) ==
       /\ job' = [job EXCEPT ![w] = Answered(j, "close", status, length)]
       /\ status \notin {200, 201} \/ (status = j.status /\ j.left = 0)
<1>3. PICK status \in Int, length \in Int : Answers(status, length)
  <2>1. CASE PutFails(w)
    <3>1. job' = [job EXCEPT ![w] = Answered(j, "close", IF j.left = -1 THEN 411 ELSE 577, 0)]
      BY <2>1 DEF PutFails
    <3>2. (IF j.left = -1 THEN 411 ELSE 577) \in Int /\ (IF j.left = -1 THEN 411 ELSE 577) \notin {200, 201} /\ 0 \in Int
      OBVIOUS
    <3>3. Answers(IF j.left = -1 THEN 411 ELSE 577, 0)
      BY <3>1, <3>2
    <3>. HIDE DEF Answers
    <3>. QED  BY <3>2, <3>3
  <2>2. CASE PutAnswer(w)
    <3>1. job' = [job EXCEPT ![w] = Answered(j, "close", j.status, -1)] /\ j.left = 0 /\ -1 \in Int
      BY <2>2 DEF PutAnswer
    <3>2. Answers(j.status, -1) /\ j.status \in Int
      BY <1>2, <3>1
    <3>. HIDE DEF Answers
    <3>. QED  BY <3>1, <3>2
  <2>. HIDE DEF Answers
  <2>. QED  BY <2>1, <2>2
<1>. DEFINE k == Answered(j, "close", status, length)
<1>4. "close" \in Pcs
  BY DEF Pcs, PutPcs
<1>. HIDE DEF j
<1>5. k \in Jobs /\ Keeping(j, k) /\ k.pc = "close" /\ k.status = status /\ k.heads = j.heads + 1
  <2>1. j \in Jobs /\ status \in Int /\ length \in Int
    BY <1>2
  <2>. QED  BY <1>4, <2>1, AnsweredJob
<1>6. job' = [job EXCEPT ![w] = k] /\ (status \notin {200, 201} \/ (status = j.status /\ j.left = 0))
  BY <1>3
<1>. HIDE DEF k
<1>7. Stored(k, store)
  <2>1. Byte(k) = Byte(j)
    BY <1>5 DEF Byte, Keeping
  <2>2. ASSUME k.status \in {200, 201}
        PROVE  /\ k.pos + Len(k.buf) = k.req.body
               /\ ~k.touched => /\ store[k.node].data = [i \in 1..k.pos |-> Byte(k)]
                                /\ \A i \in 1..Len(k.buf) : k.buf[i] = Byte(k)
    <3>1. j.status \in {200, 201} /\ j.left = 0 /\ j.pc = "store"
      BY <1>1, <1>5, <1>6, <2>2 DEF j
    <3>2. /\ j.pos + Len(j.buf) + j.left = j.req.body
          /\ ~j.touched => /\ store[j.node].data = [i \in 1..j.pos |-> Byte(j)]
                           /\ \A i \in 1..Len(j.buf) : j.buf[i] = Byte(j)
      BY <1>2, <3>1 DEF Stored
    <3>3. j.pos + Len(j.buf) = j.req.body
      BY <1>2, <3>1, <3>2 DEF Bytes
    <3>. QED  BY <1>5, <2>1, <3>2, <3>3 DEF Keeping
  <2>. QED  BY <1>5, <2>2 DEF Stored
<1>8. k.req = j.req /\ k.path = j.path /\ k.stat = j.stat /\ k.node = j.node /\ k.heads = 1 /\ k.at = j.at
  BY <1>2, <1>5 DEF Keeping
<1>. QED  BY <1>1, <1>5, <1>6, <1>7, <1>8, PutOwnStep DEF j

\* What the file holds when the buffer has gone to it.
LEMMA FlushedFacts ==
  ASSUME IInv, NEW w \in Workers, job[w].pc \in {"store", "close"}, Flushed(w)
  PROVE  LET j == job[w]
         IN  /\ store' \in Seq(Content) /\ Len(store) <= Len(store')
             /\ DOMAIN store' = DOMAIN store
             /\ \A m \in DOMAIN store : m # j.node => store'[m] = store[m]
             /\ \A m \in DOMAIN store : store'[m].mtime <= now
             /\ store'[j.node].mtime = now
             /\ store'[j.node].data = Written(store[j.node].data, j.pos, j.buf)
             /\ Tree(fs, store')
<1>. DEFINE j == job[w]
            n == j.node
            new == [mtime |-> now, data |-> Written(store[n].data, j.pos, j.buf)]
<1>1. j \in Jobs /\ j.node \in DOMAIN store /\ j.node > 0 /\ j.pos \in Nat /\ j.buf \in Bytes
  BY PutFacts
<1>2. /\ now \in Nat /\ store \in Seq(Content) /\ Tree(fs, store)
      /\ \A m \in DOMAIN store : store[m].mtime <= now
  BY DEF IInv, Types, Dated
<1>4. store[n] \in Content
  BY <1>1, <1>2, ElementOfSeq
<1>5. new \in Content
  <2>1. store[n].data \in Bytes
    BY <1>4 DEF Content
  <2>. HIDE DEF n, j
  <2>2. Written(store[n].data, j.pos, j.buf) \in Bytes
    BY <1>1, <2>1, WrittenBytes
  <2>. QED  BY <1>2, <2>2 DEF Content
<1>6. store' = [store EXCEPT ![n] = new]
  BY <1>1 DEF Flushed
<1>7. new.mtime = now /\ new.data = Written(store[n].data, j.pos, j.buf)
  OBVIOUS
<1>10. n \in 1..Len(store) /\ Len(store) \in Nat
  BY <1>1, <1>2
<1>. HIDE DEF n, new, j
<1>11. /\ store' \in Seq(Content) /\ Len(store') = Len(store) /\ store'[n] = new
       /\ DOMAIN store' = DOMAIN store
       /\ \A m \in DOMAIN store : m # n => store'[m] = store[m]
  BY <1>2, <1>5, <1>6, <1>10
<1>12. \A m \in DOMAIN store : store'[m].mtime <= now
  <2>1. TAKE m \in DOMAIN store
  <2>2. CASE m = n
    BY <1>2, <1>7, <1>11, <2>2
  <2>3. CASE m # n
    BY <1>2, <1>11, <2>3
  <2>. QED  BY <2>2, <2>3
<1>13. Tree(fs, store')
  BY <1>2, <1>11 DEF Tree, Valid
<1>. QED  BY <1>7, <1>10, <1>11, <1>12, <1>13 DEF n, j

\* A step that writes the buffer.
LEMMA FlushedStep ==
  ASSUME IInv, NEW w \in Workers, job[w].pc \in {"store", "close"}, Flushed(w),
         NEW k \in Jobs, job' = Touch(w, job[w].node, [job EXCEPT ![w] = k]), UNCHANGED <<now, fs, copies, served, mix>>,
         k.req = job[w].req, k.path = job[w].path, k.stat = job[w].stat, k.node = job[w].node, k.at = job[w].at,
         k.pc \in {"store", "close", "done"}, k.heads = (IF k.pc \in {"close", "done"} THEN 1 ELSE 0),
         Stored(k, store')
  PROVE  IInv'
<1>. DEFINE n == job[w].node
<1>1. /\ store' \in Seq(Content) /\ Len(store) <= Len(store')
      /\ DOMAIN store' = DOMAIN store
      /\ \A m \in DOMAIN store : m # n => store'[m] = store[m]
      /\ \A m \in DOMAIN store : store'[m].mtime <= now
      /\ Tree(fs, store')
  BY FlushedFacts
<1>2. /\ job[w] \in Jobs /\ JobInv(job[w], store, now, Mixes[mix].requests)
      /\ job[w].req.method = "PUT" /\ n \in DOMAIN store /\ n > 0 /\ job[w].pc \in PutPcs
  BY PutFacts
<1>3. now \in Nat /\ now <= now /\ n \in Int /\ fs \in [Paths -> Int]
  BY <1>2 DEF IInv, Types
<1>4. k.pc \in PutPcs \cup {"done"} /\ \A m \in {None, Dir} \cup DOMAIN store : Valid(m, store')
  BY <1>1 DEF PutPcs, Valid
<1>5. JobInv(k, store', now, Mixes[mix].requests)
  BY <1>1, <1>2, <1>3, <1>4, PutRecord
<1>6. fs' \in [Paths -> Int] /\ Tree(fs', store')
  BY <1>1, <1>3
<1>. QED  BY <1>1, <1>3, <1>5, <1>6, WriteStep

\* The file is equal bytes before and after.
LEMMA FlushedEqual ==
  ASSUME IInv, NEW w \in Workers, job[w].pc \in {"store", "close"}, Flushed(w),
         job[w].status \in {200, 201}, ~job[w].touched
  PROVE  store'[job[w].node].data = [i \in 1..(job[w].pos + Len(job[w].buf)) |-> Byte(job[w])]
<1>. DEFINE j == job[w]
<1>1. /\ j.node \in DOMAIN store /\ j.pos \in Nat /\ j.buf \in Bytes /\ Byte(j) \in Nat /\ Stored(j, store)
  BY PutFacts
<1>2. store'[j.node].data = Written(store[j.node].data, j.pos, j.buf)
  BY FlushedFacts
<1>3. j.pc \in {"store", "close"} /\ j.status \in {200, 201} /\ ~j.touched
  OBVIOUS
<1>4. store[j.node].data \in Bytes
  <2>1. store[j.node] \in Content
    BY <1>1, ElementOfSeq DEF IInv, Types
  <2>. QED  BY <2>1 DEF Content
<1>. HIDE DEF j
<1>5. store[j.node].data = [i \in 1..j.pos |-> Byte(j)] /\ \A i \in 1..Len(j.buf) : j.buf[i] = Byte(j)
  BY <1>1, <1>3 DEF Stored
<1>6. store'[j.node].data = [i \in 1..(j.pos + Len(j.buf)) |-> Byte(j)]
  <2>. DEFINE data == store[j.node].data
              pos == j.pos
              bytes == j.buf
              byte == Byte(j)
  <2>1. data \in Bytes /\ pos \in Nat /\ bytes \in Bytes /\ byte \in Nat
    BY <1>1, <1>4
  <2>2. data = Equal(pos, byte) /\ \A i \in 1..Len(bytes) : bytes[i] = byte
    BY <1>5 DEF Equal
  <2>3. store'[j.node].data = Written(data, pos, bytes)
    BY <1>2
  <2>. HIDE DEF data, pos, bytes, byte
  <2>4. Written(data, pos, bytes) = Equal(pos + Len(bytes), byte)
    BY <2>1, <2>2, WrittenEqual
  <2>5. store'[j.node].data = [i \in 1..(pos + Len(bytes)) |-> byte]
    BY <2>3, <2>4 DEF Equal
  <2>. QED  BY <2>5 DEF pos, bytes, byte
<1>. QED  BY <1>6 DEF j

\* The buffer is full,
LEMMA FlushStep ==
  ASSUME IInv, NEW w \in Workers, Flush(w)
  PROVE  IInv'
<1>. DEFINE j == job[w]
            pos == j.pos + Len(j.buf)
            k == [j EXCEPT !.pos = pos, !.buf = <<>>]
<1>1. /\ j.pc = "store" /\ Flushed(w) /\ UNCHANGED <<now, fs, copies, served, mix>>
      /\ job' = Touch(w, j.node, [job EXCEPT ![w] = k])
  <2>1. [job EXCEPT ![w].pos = @ + Len(job[w].buf), ![w].buf = <<>>] = [job EXCEPT ![w] = k]
    BY DEF IInv, Types
  <2>. QED  BY <2>1 DEF Flush
<1>2. /\ j \in Jobs /\ j.pos \in Nat /\ j.left \in Int /\ j.buf \in Bytes /\ Byte(j) \in Nat
      /\ j.req.body \in Int /\ Stored(j, store) /\ j.heads = 0
  BY <1>1, PutFacts
<1>3. pos \in Nat /\ <<>> \in Bytes
  BY <1>2 DEF Bytes
<1>4. j.status \in {200, 201} /\ ~j.touched => store'[j.node].data = [i \in 1..pos |-> Byte(j)]
  BY <1>1, FlushedEqual
<1>. HIDE DEF j, pos, k
<1>5. k \in Jobs
  BY <1>2, <1>3 DEF Jobs, k
<1>6. k.pos = pos /\ k.buf = <<>>
  BY <1>2 DEF Jobs, k
<1>7. /\ k.pc = j.pc /\ k.req = j.req /\ k.path = j.path /\ k.stat = j.stat /\ k.node = j.node
      /\ k.left = j.left /\ k.status = j.status /\ k.heads = j.heads /\ k.touched = j.touched /\ k.at = j.at
  BY <1>2 DEF Jobs, k
<1>8. j.pc = "store"
  BY <1>1 DEF j
<1>9. Stored(k, store')
  <2>1. Byte(k) = Byte(j) /\ Len(k.buf) = 0 /\ \A i \in 1..Len(k.buf) : k.buf[i] = Byte(k)
    BY <1>6, <1>7 DEF Byte
  <2>2. /\ j.left >= -1 /\ (j.left = -1 => j.req.body = -1)
        /\ j.status \in {200, 201} => pos + j.left = j.req.body \/ j.left = -1
    <3>1. /\ j.left >= -1 /\ (j.left = -1 => j.req.body = -1)
          /\ j.status \in {200, 201} => j.pos + Len(j.buf) + j.left = j.req.body \/ j.left = -1
      BY <1>2, <1>8 DEF Stored
    <3>. QED  BY <3>1 DEF pos
  <2>3. k.status \in {200, 201} => k.pos + Len(k.buf) + k.left = k.req.body \/ k.left = -1
    <3>1. pos + Len(k.buf) = pos
      BY <1>3, <2>1
    <3>. QED  BY <1>6, <1>7, <2>2, <3>1
  <2>4. k.status \in {200, 201} /\ ~k.touched => store'[k.node].data = [i \in 1..k.pos |-> Byte(k)]
    BY <1>4, <1>6, <1>7, <2>1
  <2>. QED  BY <1>7, <1>8, <2>1, <2>2, <2>3, <2>4 DEF Stored
<1>10. job' = Touch(w, job[w].node, [job EXCEPT ![w] = k])
  BY <1>1 DEF j
<1>. QED  BY <1>1, <1>2, <1>5, <1>7, <1>8, <1>9, <1>10, FlushedStep DEF j

\* or the file is closed.
LEMMA ClosePutStep ==
  ASSUME IInv, NEW w \in Workers, ClosePut(w)
  PROVE  IInv'
<1>. DEFINE j == job[w]
            k == [j EXCEPT !.pc = "done", !.buf = <<>>]
<1>1. j.pc = "close" /\ UNCHANGED <<now, fs, copies, served, mix>>
  BY DEF ClosePut
<1>2. /\ j \in Jobs /\ j.pos \in Nat /\ j.buf \in Bytes /\ Byte(j) \in Nat
      /\ j.req.body \in Int /\ Stored(j, store) /\ j.heads = 1
  BY <1>1, PutFacts
<1>3. job \in [Workers -> Jobs \cup {IdleJob}]
  BY DEF IInv, Types
<1>4. "done" \in Pcs /\ <<>> \in Bytes
  BY DEF Pcs, Bytes
<1>5. /\ j.buf = <<>> => job' = [job EXCEPT ![w] = k] /\ UNCHANGED store
      /\ j.buf # <<>> => Flushed(w) /\ job' = Touch(w, j.node, [job EXCEPT ![w] = k])
  <2>1. CASE j.buf = <<>>
    <3>1. [j EXCEPT !.pc = "done"] = k
      BY <1>2, <2>1 DEF Jobs
    <3>2. job' = [job EXCEPT ![w].pc = "done"] /\ UNCHANGED store
      BY <2>1 DEF ClosePut
    <3>3. job' = [job EXCEPT ![w] = [j EXCEPT !.pc = "done"]]
      BY <1>3, <3>2
    <3>. QED  BY <2>1, <3>1, <3>2, <3>3
  <2>2. CASE j.buf # <<>>
    <3>1. Flushed(w) /\ job' = Touch(w, j.node, [job EXCEPT ![w].pc = "done", ![w].buf = <<>>])
      BY <2>2 DEF ClosePut
    <3>2. [job EXCEPT ![w].pc = "done", ![w].buf = <<>>] = [job EXCEPT ![w] = k]
      BY <1>3
    <3>. QED  BY <2>2, <3>1, <3>2
  <2>. QED  BY <2>1, <2>2
<1>6. j.buf # <<>> /\ j.status \in {200, 201} /\ ~j.touched =>
        store'[j.node].data = [i \in 1..(j.pos + Len(j.buf)) |-> Byte(j)]
  BY <1>1, <1>5, FlushedEqual
<1>7. UNCHANGED <<now, fs, copies, served, mix>> /\ job[w].pc \in {"store", "close"}
  BY <1>1
<1>. HIDE DEF j, k
<1>8. k \in Jobs
  BY <1>2, <1>4 DEF Jobs, k
<1>9. /\ k.pc = "done" /\ k.req = j.req /\ k.path = j.path /\ k.stat = j.stat /\ k.node = j.node
      /\ k.pos = j.pos /\ k.status = j.status /\ k.heads = 1 /\ k.touched = j.touched /\ k.at = j.at
  BY <1>2 DEF Jobs, k
<1>10. ASSUME j.status \in {200, 201}, ~j.touched
       PROVE  /\ j.pos + Len(j.buf) = j.req.body
              /\ store[j.node].data = [i \in 1..j.pos |-> Byte(j)]
  <2>1. j.pc = "close"
    BY <1>1 DEF j
  <2>. QED  BY <1>2, <1>10, <2>1 DEF Stored
<1>11. Byte(k) = Byte(j)
  BY <1>9 DEF Byte
<1>12. CASE j.buf = <<>>
  <2>1. Stored(k, store)
    <3>1. ASSUME j.status \in {200, 201}, ~j.touched
          PROVE  store[j.node].data = [i \in 1..j.req.body |-> Byte(j)]
      <4>1. j.pos = j.req.body
        <5>1. Len(j.buf) = 0 /\ j.pos + Len(j.buf) = j.req.body
          BY <1>10, <1>12, <3>1
        <5>. QED  BY <1>2, <5>1
      <4>. QED  BY <1>10, <3>1, <4>1
    <3>. QED  BY <1>9, <1>11, <3>1 DEF Stored
  <2>2. job' = [job EXCEPT ![w] = k] /\ UNCHANGED store
    BY <1>5, <1>12
  <2>. QED  BY <1>7, <1>8, <1>9, <2>1, <2>2, PutOwnStep DEF j
<1>13. CASE j.buf # <<>>
  <2>1. Stored(k, store')
    <3>1. ASSUME j.status \in {200, 201}, ~j.touched
          PROVE  store'[j.node].data = [i \in 1..j.req.body |-> Byte(j)]
      <4>1. j.pos + Len(j.buf) = j.req.body
        BY <1>10, <3>1
      <4>. QED  BY <1>6, <1>13, <3>1, <4>1
    <3>. QED  BY <1>9, <1>11, <3>1 DEF Stored
  <2>2. Flushed(w) /\ job' = Touch(w, job[w].node, [job EXCEPT ![w] = k])
    BY <1>5, <1>13 DEF j
  <2>. QED  BY <1>7, <1>8, <1>9, <2>1, <2>2, FlushedStep DEF j
<1>. QED  BY <1>12, <1>13

-----------------------------------------------------------------------------
(* The end of a request. *)

\* What a client keeps has the length and the time of what was looked up.
LEMMA NewCopy ==
  ASSUME NEW j \in Jobs, NEW nodes, NEW time, NEW requests, JobInv(j, nodes, time, requests),
         j.req.method = "GET", j.status = 200, j.node > 0, Len(j.sent) = j.length
  PROVE  LET c == [path |-> j.path, etag |-> Etag(j.stat), data |-> j.sent, at |-> j.at]
         IN  c \in Copies /\ c.at <= time /\ c.etag[2] = Len(c.data)
<1>1. j.path \in Paths /\ j.at \in Nat /\ j.stat.mtime \in Nat /\ j.stat.data \in Bytes /\ j.sent \in Bytes /\ Len(j.stat.data) \in Nat
  BY DEF Jobs, Stats, Bytes
<1>2. Opened(j) /\ j.at <= time
  BY DEF JobInv, Found
<1>3. j.length = RangeLength(Len(j.stat.data), <<>>)
  BY <1>2 DEF Opened, None
<1>4. RangeLength(Len(j.stat.data), <<>>) = Len(j.stat.data)
  BY DEF RangeLength
<1>5. Etag(j.stat) \in Etags /\ Etag(j.stat)[1] = j.stat.mtime /\ Etag(j.stat)[2] = Len(j.sent)
  BY <1>1, <1>3, <1>4 DEF Etag, Etags
<1>. QED  BY <1>1, <1>2, <1>5 DEF Copies

\* A request is finished.
LEMMA FinishStep ==
  ASSUME IInv, NEW w \in Workers, Finish(w)
  PROVE  IInv'
<1>. DEFINE j == job[w]
            c == [path |-> j.path, etag |-> Etag(j.stat), data |-> j.sent, at |-> j.at]
<1>1. /\ j.pc = "done" /\ UNCHANGED <<now, fs, store, served, mix>> /\ job' = [job EXCEPT ![w] = IdleJob]
      /\ \/ copies' = copies
         \/ /\ j.req.method = "GET" /\ j.status = 200 /\ j.node > 0 /\ Len(j.sent) = j.length
            /\ copies' = copies \cup {c}
  BY DEF Finish
<1>2. /\ j \in Jobs /\ JobInv(j, store, now, Mixes[mix].requests)
      /\ job \in [Workers -> Jobs \cup {IdleJob}] /\ copies \subseteq Copies /\ Dated(store, copies, now)
  BY <1>1, ActiveJob DEF IInv, Types
<1>3. copies' \subseteq Copies /\ Dated(store, copies', now)
  <2>1. CASE copies' = copies
    BY <1>2, <2>1
  <2>2. CASE /\ j.req.method = "GET" /\ j.status = 200 /\ j.node > 0 /\ Len(j.sent) = j.length
             /\ copies' = copies \cup {c}
    <3>1. c \in Copies /\ c.at <= now /\ c.etag[2] = Len(c.data)
      BY <1>2, <2>2, NewCopy
    <3>. HIDE DEF c
    <3>. QED  BY <1>2, <2>2, <3>1 DEF Dated
  <2>. QED  BY <1>1, <2>1, <2>2
<1>4. Types'
  BY <1>1, <1>2, <1>3 DEF IInv, Types
<1>5. \A v \in Workers : v # w => job'[v] = job[v]
  BY <1>1, <1>2
<1>6. job'[w].pc = "idle"
  BY <1>1, <1>2 DEF IdleJob
<1>. QED  BY <1>1, <1>3, <1>4, <1>5, <1>6 DEF IInv, Active

-----------------------------------------------------------------------------
(* The beginning. *)

\* Every file there is at the beginning has a number.
LEMMA InitialNumbers ==
  /\ Cardinality(InitialFiles) \in Nat /\ DOMAIN SetToSeq(InitialFiles) = 1..Cardinality(InitialFiles)
  /\ \A p \in InitialFiles : \E n \in DOMAIN SetToSeq(InitialFiles) : SetToSeq(InitialFiles)[n] = p
<1>. DEFINE size == Cardinality(InitialFiles)
            order == SetToSeq(InitialFiles)
<1>1. size \in Nat /\ ExistsBijection(1..size, InitialFiles) /\ IsFiniteSet(InitialFiles)
  BY TreeAssumption, FS_CardinalityType
<1>2. \E f \in [1..size -> InitialFiles] : IsInjective(f)
  BY <1>1 DEF ExistsBijection, Bijection, Injection
<1>3. order \in [1..size -> InitialFiles] /\ IsInjective(order)
  BY <1>2 DEF SetToSeq
<1>4. order \in Injection(1..size, InitialFiles)
  BY <1>3 DEF Injection
<1>5. Cardinality(1..size) = size
  BY <1>1, FS_Interval
<1>. HIDE DEF order, size
<1>6. order \in Surjection(1..size, InitialFiles)
  BY <1>1, <1>4, <1>5, FS_Injection DEF size
<1>7. \A p \in InitialFiles : \E n \in 1..size : order[n] = p
  BY <1>6 DEF Surjection
<1>. QED  BY <1>1, <1>3, <1>7 DEF order, size

\* The invariant holds at the beginning,
LEMMA InitHolds == Init => IInv
<1>. SUFFICES ASSUME Init PROVE IInv
  OBVIOUS
<1>. DEFINE size == Cardinality(InitialFiles)
            order == SetToSeq(InitialFiles)
<1>1. size \in Nat /\ DOMAIN order = 1..size /\ \A p \in InitialFiles : \E n \in DOMAIN order : order[n] = p
  BY InitialNumbers
<1>2. /\ now = 1 /\ served = 0 /\ copies = {} /\ mix \in DOMAIN Mixes
      /\ fs = [p \in Paths |-> IF p \in InitialDirs THEN Dir
                               ELSE IF p \in InitialFiles THEN CHOOSE n \in DOMAIN order : order[n] = p
                               ELSE None]
      /\ store = [n \in 1..size |-> [mtime |-> 0, data |-> <<9, 9>>]]
      /\ job = [w \in Workers |-> IdleJob]
  BY DEF Init
<1>. HIDE DEF size, order
<1>3. \A p \in InitialFiles : (CHOOSE n \in DOMAIN order : order[n] = p) \in 1..size
  BY <1>1
<1>4. \A p \in Paths : fs[p] \in {None, Dir} \cup 1..size
  BY <1>2, <1>3
<1>5. /\ \A p \in InitialDirs : fs[p] = Dir
      /\ \A p \in Paths : fs[p] # None => p \in InitialDirs \cup InitialFiles
  BY <1>2, TreeAssumption
<1>6. fs \in [Paths -> Int]
  <2>1. \A p \in Paths : fs[p] \in Int
    BY <1>1, <1>4 DEF None, Dir
  <2>2. DOMAIN fs = Paths /\ fs = [p \in Paths |-> fs[p]]
    BY <1>2
  <2>. QED  BY <2>1, <2>2
<1>7. store \in Seq(Content) /\ DOMAIN store = 1..size /\ \A n \in DOMAIN store : store[n].mtime = 0
  <2>1. [mtime |-> 0, data |-> <<9, 9>>] \in Content
    BY DEF Content, Bytes
  <2>2. \A n \in 1..size : store[n] \in Content
    BY <1>2, <2>1
  <2>. QED  BY <1>1, <1>2, <2>1
<1>8. Tree(fs, store)
  <2>1. \A p \in Paths : Valid(fs[p], store)
    BY <1>4, <1>7 DEF Valid
  <2>2. fs[<<>>] = Dir /\ \A p \in Paths \ {<<>>} : fs[p] # None => fs[Front(p)] = Dir
    BY <1>5, TreeAssumption
  <2>. QED  BY <2>1, <2>2 DEF Tree
<1>9. Dated(store, copies, now)
  BY <1>2, <1>7 DEF Dated
<1>10. Types
  <2>1. 0 \in 0..Mixes[mix].max
    BY <1>2, MixAssumption
  <2>2. job \in [Workers -> Jobs \cup {IdleJob}]
    BY <1>2
  <2>. QED  BY <1>2, <1>6, <1>7, <2>1, <2>2 DEF Types
<1>11. Active = {}
  BY <1>2 DEF Active, IdleJob
<1>. QED  BY <1>8, <1>9, <1>10, <1>11 DEF IInv

\* The invariant is kept by every step.
LEMMA NextKeeps == IInv /\ [Next]_vars => IInv'
<1>. SUFFICES ASSUME IInv, [Next]_vars PROVE IInv'
  OBVIOUS
<1>1. CASE UNCHANGED vars
  BY <1>1 DEF vars, IInv, Types, Active, Tree, Dated
<1>2. ASSUME NEW w \in Workers, Take(w) \/ Step(w) \/ SendFails(w)
      PROVE  IInv'
  <2>1. CASE Take(w)
    BY <2>1, TakeStep
  <2>2. CASE Decide(w)
    BY <2>2, DecideStep
  <2>3. CASE AnswerOnly(w) \/ PropFind(w) \/ List(w) \/ Script(w)
    BY <2>3, AnswerSteps
  <2>4. CASE Delete(w)
    BY <2>4, DeleteStep
  <2>5. CASE Index(w)
    BY <2>5, IndexStep
  <2>6. CASE DecideFile(w)
    BY <2>6, DecideFileStep
  <2>7. CASE OpenFile(w)
    BY <2>7, OpenFileStep
  <2>8. CASE SendData(w)
    BY <2>8, SendDataStep
  <2>9. CASE SendEnds(w) \/ SendFails(w)
    BY <2>9, SendOverSteps
  <2>10. CASE Put(w)
    BY <2>10, PutStep
  <2>11. CASE TestDir(w)
    BY <2>11, TestDirStep
  <2>12. CASE MakeDir(w)
    BY <2>12, MakeDirStep
  <2>13. CASE DirPut(w)
    BY <2>13, DirPutStep
  <2>14. CASE OpenPut(w)
    BY <2>14, OpenPutStep
  <2>15. CASE Store(w)
    BY <2>15, StoreStep
  <2>16. CASE Flush(w)
    BY <2>16, FlushStep
  <2>17. CASE PutFails(w) \/ PutAnswer(w)
    BY <2>17, PutAnswerSteps
  <2>18. CASE ClosePut(w)
    BY <2>18, ClosePutStep
  <2>19. CASE Finish(w)
    BY <2>19, FinishStep
  <2>. QED  BY <1>2, <2>1, <2>2, <2>3, <2>4, <2>5, <2>6, <2>7, <2>8, <2>9, <2>10, <2>11, <2>12,
              <2>13, <2>14, <2>15, <2>16, <2>17, <2>18, <2>19 DEF Step
<1>3. CASE Tick
  <2>1. now \in Nat /\ now' = now + 1 /\ UNCHANGED <<fs, store, job, copies, served, mix>>
    BY <1>3 DEF IInv, Types, Tick
  <2>2. Types' /\ Tree(fs', store')
    BY <2>1 DEF IInv, Types
  <2>3. Dated(store', copies', now')
    <3>1. Dated(store, copies, now) /\ store \in Seq(Content) /\ copies \subseteq Copies
      BY DEF IInv, Types
    <3>2. \A n \in DOMAIN store : store[n].mtime \in Nat
      <4>1. \A n \in DOMAIN store : store[n] \in Content
        BY <3>1, ElementOfSeq
      <4>. QED  BY <4>1 DEF Content
    <3>3. \A c \in copies : c.at \in Nat
      BY <3>1 DEF Copies
    <3>4. (\A n \in DOMAIN store : store[n].mtime <= now + 1) /\ \A c \in copies : c.at <= now + 1
      BY <2>1, <3>1, <3>2, <3>3 DEF Dated
    <3>. QED  BY <2>1, <3>1, <3>4 DEF Dated
  <2>4. ASSUME NEW v \in Workers, job[v].pc # "idle"
        PROVE  JobInv(job[v], store, now + 1, Mixes[mix].requests)
    <3>1. job[v] \in Jobs /\ JobInv(job[v], store, now, Mixes[mix].requests)
      BY <2>4, ActiveJob
    <3>. QED  BY <2>1, <3>1, ClockOnly
  <2>. QED  BY <2>1, <2>2, <2>3, <2>4 DEF IInv, Active
<1>. QED  BY <1>1, <1>2, <1>3 DEF Next

-----------------------------------------------------------------------------
(* What follows from it. *)

\* A file that is served whole is sent whole.
LEMMA SentWhole ==
  ASSUME NEW j \in Jobs, Opened(j), Sending(j), j.pc = "done", ~j.touched, ~j.gone, j.node > 0,
         j.req.method = "GET", j.status = 200
  PROVE  j.sent = j.stat.data /\ j.length = Len(j.sent)
<1>1. /\ j.sent \in Bytes /\ j.stat.data \in Bytes /\ Len(j.sent) \in Nat /\ Len(j.stat.data) \in Nat
      /\ j.pos \in Nat /\ j.left \in Int
  BY DEF Jobs, Stats, Bytes
<1>. DEFINE size == Len(j.stat.data)
            count == Len(j.sent)
<1>2. j.req.range = <<>> /\ j.length = RangeLength(size, j.req.range)
  BY DEF Opened, None
<1>3. j.length = size /\ RangeStart(j.req.range) = 0
  BY <1>2 DEF RangeLength, RangeStart
<1>4. /\ j.pos = 0 + count /\ j.left = j.length - count
      /\ j.sent # <<>> => j.pos <= size /\ j.left >= 0
      /\ \A i \in 1..count : 0 + i <= size /\ j.sent[i] = j.stat.data[0 + i]
      /\ j.left <= 0 \/ j.pos >= size
  <2>1. j.req.method \notin {"PUT", "HEAD"}
    OBVIOUS
  <2>. QED  BY <1>3, <2>1 DEF Sending
<1>5. count = size
  <2>1. CASE j.sent = <<>>
    <3>1. count = 0
      BY <2>1
    <3>. QED  BY <1>1, <1>3, <1>4, <3>1
  <2>2. CASE j.sent # <<>>
    <3>1. count <= size
      BY <1>1, <1>4, <2>2
    <3>2. count >= size
      BY <1>1, <1>3, <1>4
    <3>. QED  BY <1>1, <3>1, <3>2
  <2>. QED  BY <2>1, <2>2
<1>6. \A i \in 1..count : j.sent[i] = j.stat.data[i]
  BY <1>1, <1>4
<1>7. j.sent = j.stat.data
  <2>. DEFINE sent == j.sent
              data == j.stat.data
  <2>1. sent \in Seq(Nat) /\ data \in Seq(Nat) /\ Len(sent) = Len(data) /\ \A i \in 1..Len(sent) : sent[i] = data[i]
    BY <1>1, <1>5, <1>6 DEF Bytes
  <2>. HIDE DEF sent, data
  <2>2. sent = data
    BY <2>1, SeqEqual
  <2>. QED  BY <2>2 DEF sent, data
<1>. QED  BY <1>3, <1>5, <1>7

\* What is announced for a range within the file.
LEMMA RangeWithin ==
  ASSUME NEW r \in Requested, NEW size \in Nat, r.range # <<>>, WithinFile(r.range, size)
  PROVE  LET first  == r.range[1]
             length == RangeLength(size, r.range)
         IN  /\ first \in Nat /\ RangeStart(r.range) = first
             /\ length \in Nat /\ length > 0 /\ first + length <= size
<1>1. /\ r.range \in Seq(Nat) /\ Len(r.range) \in {1, 2}
  <2>1. r.range \in Seq(Nat) /\ Len(r.range) <= 2
    BY DEF Requested
  <2>2. Len(r.range) \in Nat /\ Len(r.range) # 0
    BY <2>1
  <2>3. Len(r.range) = 1 \/ Len(r.range) = 2
    <3>. DEFINE len == Len(r.range)
    <3>1. len \in Nat /\ len # 0 /\ len <= 2
      BY <2>1, <2>2
    <3>. HIDE DEF len
    <3>2. len = 1 \/ len = 2
      BY <3>1
    <3>. QED  BY <3>2 DEF len
  <2>. QED  BY <2>1, <2>3
<1>2. RangeStart(r.range) = r.range[1]
  BY DEF RangeStart
<1>3. CASE Len(r.range) = 1
  <2>1. r.range[1] \in Nat /\ r.range[1] < size
    BY <1>1, <1>3 DEF WithinFile
  <2>2. RangeLength(size, r.range) = size - r.range[1]
    BY <1>3 DEF RangeLength
  <2>. QED  BY <1>2, <2>1, <2>2
<1>4. CASE Len(r.range) = 2
  <2>1. r.range[1] \in Nat /\ r.range[2] \in Nat /\ r.range[2] < size /\ r.range[1] <= r.range[2]
    BY <1>1, <1>4 DEF WithinFile
  <2>2. RangeLength(size, r.range) = r.range[2] - r.range[1] + 1
    BY <1>4, <2>1 DEF RangeLength
  <2>. QED  BY <1>2, <2>1, <2>2
<1>. QED  BY <1>1, <1>3, <1>4

\* A range within the file is sent whole.
LEMMA SentRange ==
  ASSUME NEW j \in Jobs, Opened(j), Sending(j), j.pc = "done", ~j.touched, ~j.gone, j.node > 0,
         j.req.method = "GET", j.status = 206, WithinFile(j.req.range, Len(j.stat.data))
  PROVE  /\ j.length = Len(j.sent)
         /\ j.sent = SubSeq(j.stat.data, j.req.range[1] + 1, j.req.range[1] + j.length)
<1>. DEFINE size == Len(j.stat.data)
            count == Len(j.sent)
            first == j.req.range[1]
            length == RangeLength(size, j.req.range)
<1>1. /\ j.sent \in Bytes /\ j.stat.data \in Bytes /\ count \in Nat /\ size \in Nat
      /\ j.pos \in Nat /\ j.left \in Int /\ j.req \in Requested
  BY DEF Jobs, Stats, Bytes
<1>2. j.req.range # <<>> /\ j.length = length
  BY DEF Opened, None
<1>3. first \in Nat /\ RangeStart(j.req.range) = first /\ length \in Nat /\ length > 0 /\ first + length <= size
  BY <1>1, <1>2, RangeWithin
<1>4. /\ j.pos = first + count /\ j.left = length - count
      /\ j.sent # <<>> => j.pos <= size /\ j.left >= 0
      /\ \A i \in 1..count : first + i <= size /\ j.sent[i] = j.stat.data[first + i]
      /\ j.left <= 0 \/ j.pos >= size
  <2>1. j.req.method \notin {"PUT", "HEAD"}
    OBVIOUS
  <2>. QED  BY <1>2, <1>3, <2>1 DEF Sending
<1>. HIDE DEF length, first
<1>5. count = length
  <2>1. CASE j.sent = <<>>
    <3>1. count = 0
      BY <2>1
    <3>. QED  BY <1>1, <1>3, <1>4, <3>1
  <2>2. CASE j.sent # <<>>
    BY <1>1, <1>3, <1>4, <2>2
  <2>. QED  BY <2>1, <2>2
<1>6. /\ SubSeq(j.stat.data, first + 1, first + length) \in Bytes
      /\ Len(SubSeq(j.stat.data, first + 1, first + length)) = length
      /\ \A i \in 1..length : SubSeq(j.stat.data, first + 1, first + length)[i] = j.stat.data[first + i]
  <2>1. \A i \in (first + 1)..(first + length) : j.stat.data[i] \in Nat
    <3>1. j.stat.data \in Seq(Nat)
      BY <1>1 DEF Bytes
    <3>2. (first + 1)..(first + length) \subseteq 1..Len(j.stat.data)
      BY <1>1, <1>3
    <3>. QED  BY <3>1, <3>2
  <2>2. first + 1 \in Int /\ first + length \in Int
    BY <1>3
  <2>3. /\ SubSeq(j.stat.data, first + 1, first + length) \in Seq(Nat)
        /\ Len(SubSeq(j.stat.data, first + 1, first + length)) =
             IF first + 1 <= first + length THEN (first + length) - (first + 1) + 1 ELSE 0
        /\ \A i \in 1..((first + length) - (first + 1) + 1) :
             SubSeq(j.stat.data, first + 1, first + length)[i] = j.stat.data[(first + 1) + i - 1]
    BY <2>1, <2>2, SubSeqProperties, SMTT(40)
  <2>4. (first + length) - (first + 1) + 1 = length /\ first + 1 <= first + length
        /\ \A i \in 1..length : (first + 1) + i - 1 = first + i
    BY <1>3
  <2>. QED  BY <2>3, <2>4, SMTT(40) DEF Bytes
<1>7. \A i \in 1..count : j.sent[i] = SubSeq(j.stat.data, first + 1, first + length)[i]
  BY <1>4, <1>5, <1>6
<1>8. j.sent = SubSeq(j.stat.data, first + 1, first + length)
  <2>. DEFINE sent == j.sent
              part == SubSeq(j.stat.data, first + 1, first + length)
  <2>1. sent \in Seq(Nat) /\ part \in Seq(Nat) /\ Len(sent) = Len(part) /\ \A i \in 1..Len(sent) : sent[i] = part[i]
    BY <1>1, <1>5, <1>6, <1>7 DEF Bytes
  <2>. HIDE DEF sent, part
  <2>2. sent = part
    BY <2>1, SeqEqual
  <2>. QED  BY <2>2 DEF sent, part
<1>. QED  BY <1>2, <1>5, <1>8 DEF first

\* The invariant gives the properties.
LEMMA Follows == IInv => FilesInv
<1>. SUFFICES ASSUME IInv PROVE FilesInv
  OBVIOUS
<1>1. /\ now \in Nat /\ served \in 0..Mixes[mix].max /\ copies \subseteq Copies
      /\ Tree(fs, store) /\ Dated(store, copies, now)
      /\ \A w \in Active : job[w] \in Jobs /\ JobInv(job[w], store, now, Mixes[mix].requests)
  BY DEF IInv, Types, Active, IdleJob
<1>2. TypeOK
  <2>1. \A p \in Paths : fs[p] \in {None, Dir} \cup DOMAIN store
    BY <1>1 DEF Tree, Valid
  <2>2. ASSUME NEW w \in Active
        PROVE  /\ job[w].req \in Mixes[mix].requests /\ job[w].path \in Paths
               /\ job[w].node \in {None, Dir} \cup DOMAIN store
               /\ job[w].heads \in Nat /\ job[w].pos \in Nat
    <3>1. job[w].path \in Paths /\ job[w].heads \in Nat /\ job[w].pos \in Nat
      BY <1>1 DEF Jobs
    <3>2. job[w].req \in Mixes[mix].requests /\ job[w].node \in {None, Dir} \cup DOMAIN store
      BY <1>1 DEF JobInv, Way, Found, Valid
    <3>. QED  BY <3>1, <3>2
  <2>3. ASSUME NEW c \in copies
        PROVE  c.etag = <<c.etag[1], Len(c.data)>>
    <3>1. c.etag \in Nat \X Nat /\ c.etag[2] = Len(c.data)
      BY <1>1 DEF Copies, Etags, Dated
    <3>. QED  BY <3>1
  <2>. QED  BY <1>1, <2>1, <2>2, <2>3 DEF TypeOK
<1>3. OneAnswer
  BY <1>1 DEF OneAnswer, JobInv, Way
<1>4. Transferred
  <2>. SUFFICES ASSUME NEW w \in Done, ~job[w].touched, ~job[w].gone, job[w].node > 0
                PROVE  LET j == job[w] IN
                       /\ j.req.method = "GET" /\ j.status = 200 => j.sent = j.stat.data /\ j.length = Len(j.sent)
                       /\ j.req.method = "GET" /\ j.status = 206 /\ WithinFile(j.req.range, Len(j.stat.data)) =>
                            /\ j.length = Len(j.sent)
                            /\ j.sent = SubSeq(j.stat.data, j.req.range[1] + 1, j.req.range[1] + j.length)
                       /\ j.req.method = "PUT" /\ j.status \in {200, 201} =>
                            store[j.node].data = [i \in 1..j.req.body |-> Byte(j)]
    BY DEF Transferred
  <2>. DEFINE j == job[w]
  <2>1. j \in Jobs /\ j.pc = "done" /\ Opened(j) /\ Sending(j) /\ Stored(j, store)
    BY <1>1 DEF Done, Active, JobInv
  <2>2. ~j.touched /\ ~j.gone /\ j.node > 0
    OBVIOUS
  <2>. HIDE DEF j
  <2>3. j.req.method = "GET" /\ j.status = 200 => j.sent = j.stat.data /\ j.length = Len(j.sent)
    BY <2>1, <2>2, SentWhole
  <2>4. j.req.method = "GET" /\ j.status = 206 /\ WithinFile(j.req.range, Len(j.stat.data)) =>
          /\ j.length = Len(j.sent)
          /\ j.sent = SubSeq(j.stat.data, j.req.range[1] + 1, j.req.range[1] + j.length)
    BY <2>1, <2>2, SentRange
  <2>5. j.req.method = "PUT" /\ j.status \in {200, 201} => store[j.node].data = [i \in 1..j.req.body |-> Byte(j)]
    BY <2>1, <2>2 DEF Stored
  <2>. QED  BY <2>3, <2>4, <2>5 DEF j
<1>. QED  BY <1>2, <1>3, <1>4 DEF FilesInv

\* The file system changes only in steps of a request that may change it.
LEMMA OnlyTheseChange ==
  IInv /\ [Next]_vars => (<<fs, store>>' # <<fs, store>> =>
                            \E w \in Active : PutOrDelete(job[w].req) /\ PutPasswords /\ job[w].req.user)
<1>. SUFFICES ASSUME IInv, Next, <<fs, store>>' # <<fs, store>>
              PROVE  \E w \in Active : PutOrDelete(job[w].req) /\ PutPasswords /\ job[w].req.user
  BY DEF vars
<1>1. PICK w \in Workers : Take(w) \/ Step(w) \/ SendFails(w)
  BY DEF Next, Tick
<1>2. Delete(w) \/ MakeDir(w) \/ OpenPut(w) \/ Flush(w) \/ ClosePut(w)
  <2>1. /\ Take(w) \/ SendFails(w) => UNCHANGED <<fs, store>>
        /\ Decide(w) \/ AnswerOnly(w) \/ PropFind(w) \/ Index(w) \/ DecideFile(w) \/ List(w) \/ Script(w) => UNCHANGED <<fs, store>>
        /\ OpenFile(w) \/ SendData(w) \/ SendEnds(w) \/ Put(w) \/ TestDir(w) \/ DirPut(w) => UNCHANGED <<fs, store>>
        /\ Store(w) \/ PutFails(w) \/ PutAnswer(w) \/ Finish(w) => UNCHANGED <<fs, store>>
    BY DEF Take, SendFails, Decide, AnswerOnly, PropFind, Index, DecideFile, List, Script, Answer, OpenFile,
           SendData, SendEnds, Put, TestDir, DirPut, Store, PutFails, PutAnswer, Finish
  <2>. QED  BY <1>1, <2>1, SMTT(40) DEF Step
<1>3. job[w].pc \in {"delete", "mkdir", "putdir", "store", "close"}
  BY <1>2 DEF Delete, MakeDir, OpenPut, Flush, ClosePut
<1>4. w \in Active /\ JobInv(job[w], store, now, Mixes[mix].requests)
  BY <1>3, ActiveJob DEF Active
<1>. QED  BY <1>3, <1>4 DEF JobInv, Way, PutPcs, PutOrDelete, AuthorizedForPut

-----------------------------------------------------------------------------
(* For any number of workers, any tree and any requests: *)

-----------------------------------------------------------------------------
(* Most steps only take a request further. *)

\* What was looked up, and compared, stays; what is listed may be seen.
Calm(j, k) ==
  /\ k.req = j.req /\ k.copy = j.copy /\ k.path = j.path /\ k.stat = j.stat /\ k.touched = j.touched
  /\ k.node = j.node /\ k.at = j.at /\ k.pc # "decide"
  /\ \A q \in k.listed : q \in j.listed \/ ~Secret(q)
  /\ k.pc \in FilePcs \cup {"file", "send"} => k.pc = j.pc
  /\ k.status = 304 => (k.pc = "done" /\ j.pc = "unmodified") \/ k.status = j.status

\* An answer takes a request further,
LEMMA CalmAnswer ==
  ASSUME NEW j \in Jobs, NEW pc \in {"done", "close"}, NEW status \in Int, NEW length \in Int,
         status = 304 => (pc = "done" /\ j.pc = "unmodified") \/ status = j.status
  PROVE  Calm(j, Answered(j, pc, status, length))
<1>1. pc \in Pcs
  BY DEF Pcs, PutPcs
<1>2. /\ Answered(j, pc, status, length) \in Jobs /\ Keeping(j, Answered(j, pc, status, length))
      /\ Answered(j, pc, status, length).pc = pc /\ Answered(j, pc, status, length).status = status
      /\ Answered(j, pc, status, length).listed = j.listed
  BY <1>1, AnsweredJob
<1>. QED  BY <1>2 DEF Calm, Keeping, FilePcs

\* and one that lists what may be seen does.
LEMMA CalmList ==
  ASSUME NEW j \in Jobs, NEW status \in Int, NEW length \in Int, NEW paths \in SUBSET Paths,
         status # 304, \A q \in paths : ~Secret(q)
  PROVE  Calm(j, [Answered(j, "done", status, length) EXCEPT !.listed = paths])
<1>. DEFINE k == [Answered(j, "done", status, length) EXCEPT !.listed = paths]
<1>1. AnsweredNow(j, k) /\ k.status = status /\ k.listed = paths
  BY AnsweredListed
<1>. HIDE DEF k
<1>2. Calm(j, k)
  BY <1>1 DEF Calm, AnsweredNow, Keeping, FilePcs
<1>. QED  BY <1>2 DEF k

\* Nothing hidden is listed.
LEMMA EntriesSeen == \A p : Entries(p) \subseteq Paths /\ \A q \in Entries(p) : ~Secret(q)
BY DEF Entries, Hidden, Secret

\* So do the steps that answer at once,
LEMMA CalmSteps1 ==
  ASSUME IInv, NEW w \in Workers, AnswerOnly(w) \/ PropFind(w) \/ List(w) \/ Script(w) \/ Delete(w)
  PROVE  /\ job' = [job EXCEPT ![w] = job'[w]] /\ job[w].pc \notin {"idle", "done"}
         /\ Calm(job[w], job'[w])
<1>. DEFINE j == job[w]
<1>. HIDE DEF j
<1>1. CASE AnswerOnly(w) \/ Script(w) \/ Delete(w)
  <2>1. /\ j.pc \in DOMAIN Status \cup {"cgi", "ssi", "delete"}
        /\ \E status \in Int, length \in Int :
             /\ job' = [job EXCEPT ![w] = Answered(j, "done", status, length)]
             /\ status = 304 => j.pc = "unmodified"
    <3>. DEFINE Answers(status, length) ==
           /\ job' = [job EXCEPT ![w] = Answered(j, "done", status, length)]
           /\ status = 304 => j.pc = "unmodified"
    <3>1. CASE AnswerOnly(w)
      <4>1. j.pc \in {"unauthorized", "options", "notfound", "moved", "unimplemented", "unmodified"}
        BY <3>1 DEF AnswerOnly, Status, j
      <4>2. Status[j.pc] \in Int /\ (Status[j.pc] = 304 => j.pc = "unmodified")
        BY <4>1 DEF Status
      <4>3. PICK length \in Int : job' = [job EXCEPT ![w] = Answered(j, "done", Status[j.pc], length)]
        <5>1. PICK length \in Int : Answer(w, Status[job[w].pc], length)
          BY <3>1 DEF AnswerOnly
        <5>. QED  BY <5>1 DEF Answer, j
      <4>4. Answers(Status[j.pc], length)
        BY <4>2, <4>3
      <4>5. j.pc \in DOMAIN Status
        BY <4>1 DEF Status
      <4>. HIDE DEF Answers
      <4>6. \E status \in Int, l \in Int : Answers(status, l)
        BY <4>2, <4>4
      <4>. QED  BY <4>5, <4>6 DEF Answers
    <3>2. CASE Script(w)
      <4>1. j.pc \in {"cgi", "ssi"}
        BY <3>2 DEF Script, j
      <4>2. Answers(200, -1) \/ Answers(500, 0)
        BY <3>2 DEF Script, Answer, j
      <4>3. 200 \in Int /\ -1 \in Int /\ 500 \in Int /\ 0 \in Int
        OBVIOUS
      <4>. HIDE DEF Answers
      <4>4. \E status \in Int, l \in Int : Answers(status, l)
        <5>1. CASE Answers(200, -1)
          BY <4>3, <5>1
        <5>2. CASE Answers(500, 0)
          BY <4>3, <5>2
        <5>. QED  BY <4>2, <5>1, <5>2
      <4>. QED  BY <4>1, <4>4 DEF Answers
    <3>3. CASE Delete(w)
      <4>1. j.pc = "delete"
        BY <3>3 DEF Delete, j
      <4>2. Answers(200, 0) \/ Answers(500, 0)
        <5>. DEFINE p == job[w].path
                    removable == fs[p] > 0 \/ (fs[p] = Dir /\ p # <<>> /\ \A q \in Paths : q # <<>> /\ Front(q) = p => fs[q] = None)
        <5>1. job' = [job EXCEPT ![w] = Answered(job[w], "done", IF removable THEN 200 ELSE 500, 0)]
          BY <3>3 DEF Delete
        <5>. HIDE DEF removable
        <5>2. CASE removable
          BY <5>1, <5>2 DEF j
        <5>3. CASE ~removable
          BY <5>1, <5>3 DEF j
        <5>. QED  BY <5>2, <5>3
      <4>3. 200 \in Int /\ 500 \in Int /\ 0 \in Int
        OBVIOUS
      <4>. HIDE DEF Answers
      <4>4. \E status \in Int, l \in Int : Answers(status, l)
        <5>1. CASE Answers(200, 0)
          BY <4>3, <5>1
        <5>2. CASE Answers(500, 0)
          BY <4>3, <5>2
        <5>. QED  BY <4>2, <5>1, <5>2
      <4>. QED  BY <4>1, <4>4 DEF Answers
    <3>. QED  BY <1>1, <3>1, <3>2, <3>3
  <2>2. PICK status \in Int, length \in Int :
          /\ job' = [job EXCEPT ![w] = Answered(j, "done", status, length)]
          /\ status = 304 => j.pc = "unmodified"
    BY <2>1
  <2>3. j.pc \notin {"idle", "done"}
    BY <2>1 DEF Status
  <2>4. j \in Jobs
    BY <2>3, ActiveJob DEF j
  <2>5. job'[w] = Answered(j, "done", status, length) /\ job' = [job EXCEPT ![w] = job'[w]]
    BY <2>2, NewRecord
  <2>6. Calm(j, Answered(j, "done", status, length))
    BY <2>2, <2>4, CalmAnswer
  <2>. QED  BY <2>3, <2>5, <2>6 DEF j
<1>2. CASE PropFind(w)
  <2>. DEFINE paths == IF Listing /\ job[w].stat.node = Dir THEN Entries(job[w].path) ELSE {}
  <2>1. paths \in SUBSET Paths /\ \A q \in paths : ~Secret(q)
    BY EntriesSeen
  <2>2. j.pc = "propfind" /\ job' = [job EXCEPT ![w] = [Answered(j, "done", 207, -1) EXCEPT !.listed = paths]]
    BY <1>2 DEF PropFind, j
  <2>. HIDE DEF paths
  <2>3. job'[w] = [Answered(j, "done", 207, -1) EXCEPT !.listed = paths]
        /\ job' = [job EXCEPT ![w] = job'[w]]
    BY <2>2, NewRecord
  <2>4. j \in Jobs /\ j.pc \notin {"idle", "done"}
    BY <2>2, ActiveJob DEF j
  <2>5. 207 \in Int /\ -1 \in Int /\ 207 # 304
    OBVIOUS
  <2>6. Calm(j, [Answered(j, "done", 207, -1) EXCEPT !.listed = paths])
    BY <2>1, <2>4, <2>5, CalmList, SMTT(40)
  <2>. QED  BY <2>3, <2>4, <2>6 DEF j
<1>3. CASE List(w)
  <2>. DEFINE paths == Entries(job[w].path)
  <2>1. paths \in SUBSET Paths /\ \A q \in paths : ~Secret(q)
    BY EntriesSeen
  <2>2. /\ j.pc = "list"
        /\ \/ job' = [job EXCEPT ![w] = Answered(j, "done", 500, 0)]
           \/ job' = [job EXCEPT ![w] = [Answered(j, "done", 200, -1) EXCEPT !.listed = paths]]
    BY <1>3 DEF List, j
  <2>. HIDE DEF paths
  <2>3. j \in Jobs /\ j.pc \notin {"idle", "done"}
    BY <2>2, ActiveJob DEF j
  <2>4. 200 \in Int /\ -1 \in Int /\ 500 \in Int /\ 0 \in Int /\ 200 # 304 /\ 500 # 304
    OBVIOUS
  <2>5. CASE job' = [job EXCEPT ![w] = Answered(j, "done", 500, 0)]
    <3>1. job'[w] = Answered(j, "done", 500, 0) /\ job' = [job EXCEPT ![w] = job'[w]]
      BY <2>5, NewRecord, ZenonT(60)
    <3>2. Calm(j, Answered(j, "done", 500, 0))
      BY <2>3, <2>4, CalmAnswer
    <3>. QED  BY <2>3, <3>1, <3>2 DEF j
  <2>6. CASE job' = [job EXCEPT ![w] = [Answered(j, "done", 200, -1) EXCEPT !.listed = paths]]
    <3>1. job'[w] = [Answered(j, "done", 200, -1) EXCEPT !.listed = paths]
          /\ job' = [job EXCEPT ![w] = job'[w]]
      BY <2>6, NewRecord
    <3>2. Calm(j, [Answered(j, "done", 200, -1) EXCEPT !.listed = paths])
      BY <2>1, <2>3, <2>4, CalmList, SMTT(40)
    <3>. QED  BY <2>3, <3>1, <3>2 DEF j
  <2>. QED  BY <2>2, <2>5, <2>6
<1>. QED  BY <1>1, <1>2, <1>3

\* the steps that send a file,
LEMMA CalmSteps2 ==
  ASSUME IInv, NEW w \in Workers, SendData(w) \/ SendEnds(w) \/ SendFails(w)
  PROVE  job[w].pc = "send" /\ Calm(job[w], job'[w]) /\ job' = [job EXCEPT ![w] = job'[w]]
<1>. DEFINE j == job[w]
            k == job'[w]
<1>1. j.pc = "send"
  BY DEF SendData, SendEnds, SendFails
<1>2. j \in Jobs /\ job \in [Workers -> Jobs \cup {IdleJob}]
  BY <1>1, ActiveJob DEF IInv, Types
<1>3. /\ job' = [job EXCEPT ![w] = k]
      /\ \/ \E sent, pos, left : k = [j EXCEPT !.sent = sent, !.pos = pos, !.left = left]
         \/ k = [j EXCEPT !.pc = "done"]
         \/ k = [j EXCEPT !.pc = "done", !.gone = TRUE]
  <2>1. CASE SendData(w)
    <3>1. job' = [job EXCEPT ![w].sent = Append(@, Readable(j)[j.pos + 1]), ![w].pos = @ + 1, ![w].left = @ - 1]
      BY <2>1 DEF SendData
    <3>2. k = [j EXCEPT !.sent = Append(j.sent, Readable(j)[j.pos + 1]), !.pos = j.pos + 1, !.left = j.left - 1]
          /\ job' = [job EXCEPT ![w] = k]
      BY <1>2, <3>1
    <3>. HIDE DEF j, k
    <3>3. \E sent, pos, left : k = [j EXCEPT !.sent = sent, !.pos = pos, !.left = left]
      BY <3>2, Zenon
    <3>. QED  BY <3>2, <3>3
  <2>2. CASE SendEnds(w)
    BY <1>2, <2>2 DEF SendEnds
  <2>3. CASE SendFails(w)
    BY <1>2, <2>3 DEF SendFails
  <2>. QED  BY <2>1, <2>2, <2>3
<1>. HIDE DEF j, k
<1>4. j.pc = "send"
  BY <1>1 DEF j
<1>5. Calm(j, k)
  <2>1. CASE \E sent, pos, left : k = [j EXCEPT !.sent = sent, !.pos = pos, !.left = left]
    <3>1. PICK sent, pos, left : k = [j EXCEPT !.sent = sent, !.pos = pos, !.left = left]
      BY <2>1
    <3>2. /\ k.req = j.req /\ k.copy = j.copy /\ k.path = j.path /\ k.stat = j.stat /\ k.touched = j.touched
          /\ k.node = j.node /\ k.at = j.at /\ k.pc = j.pc /\ k.listed = j.listed /\ k.status = j.status
      BY <1>2, <3>1 DEF Jobs
    <3>. QED  BY <1>4, <3>2 DEF Calm
  <2>2. CASE k = [j EXCEPT !.pc = "done"]
    <3>1. /\ k.req = j.req /\ k.copy = j.copy /\ k.path = j.path /\ k.stat = j.stat /\ k.touched = j.touched
          /\ k.node = j.node /\ k.at = j.at /\ k.pc = "done" /\ k.listed = j.listed /\ k.status = j.status
      BY <1>2, <2>2 DEF Jobs
    <3>. QED  BY <3>1 DEF Calm, FilePcs
  <2>3. CASE k = [j EXCEPT !.pc = "done", !.gone = TRUE]
    <3>1. /\ k.req = j.req /\ k.copy = j.copy /\ k.path = j.path /\ k.stat = j.stat /\ k.touched = j.touched
          /\ k.node = j.node /\ k.at = j.at /\ k.pc = "done" /\ k.listed = j.listed /\ k.status = j.status
      BY <1>2, <2>3, SMTT(40) DEF Jobs
    <3>. QED  BY <3>1 DEF Calm, FilePcs
  <2>. QED  BY <1>3, <2>1, <2>2, <2>3
<1>. QED  BY <1>1, <1>3, <1>5 DEF j, k

\* and those that store one; opening it makes it the worker's own.
LEMMA CalmSteps3 ==
  ASSUME IInv, NEW w \in Workers, Put(w) \/ TestDir(w) \/ MakeDir(w) \/ DirPut(w) \/ Store(w) \/ PutFails(w) \/ PutAnswer(w)
  PROVE  /\ job[w].pc \in PutPcs /\ Calm(job[w], job'[w]) /\ job' = [job EXCEPT ![w] = job'[w]]
<1>. DEFINE j == job[w]
            k == job'[w]
<1>1. j.pc \in PutPcs
  BY DEF PutPcs, Put, TestDir, MakeDir, DirPut, Store, PutFails, PutAnswer
<1>2. j \in Jobs /\ job \in [Workers -> Jobs \cup {IdleJob}] /\ j.status \in Int
  <2>1. j.pc # "idle"
    BY <1>1 DEF PutPcs
  <2>2. j \in Jobs
    BY <2>1, ActiveJob
  <2>. QED  BY <2>2 DEF IInv, Types, Jobs
<1>. DEFINE Goes(pc, dirs, status, left, buf) ==
              k = [j EXCEPT !.pc = pc, !.dirs = dirs, !.status = status, !.left = left, !.buf = buf]
            Ends(pc, status, length) == k = Answered(j, pc, status, length)
<1>3. /\ job' = [job EXCEPT ![w] = k]
      /\ \/ \E pc \in PutPcs : \E dirs, left, buf : \E status \in {200, 201, j.status} :
              Goes(pc, dirs, status, left, buf)
         \/ \E pc \in {"done", "close"}, status \in {500, 411, 577, j.status}, length \in Int : Ends(pc, status, length)
  <2>1. CASE Put(w)
    <3>. DEFINE p == job[w].path
                above == [i \in 1..(IF job[w].req.slash THEN Len(p) ELSE Len(p) - 1) |-> SubSeq(p, 1, i)]
                status == IF fs[p] # None THEN 200 ELSE 201
    <3>1. job' = [job EXCEPT ![w].pc = "putdir", ![w].dirs = above, ![w].status = status]
      BY <2>1 DEF Put
    <3>2. status \in {200, 201, j.status} /\ "putdir" \in PutPcs
      BY DEF PutPcs
    <3>. HIDE DEF above, status
    <3>3. k = [j EXCEPT !.pc = "putdir", !.dirs = above, !.status = status] /\ job' = [job EXCEPT ![w] = k]
      BY <1>2, <3>1
    <3>4. Goes("putdir", above, status, j.left, j.buf)
      BY <1>2, <3>3 DEF Jobs
    <3>. HIDE DEF Goes
    <3>. QED  BY <3>2, <3>3, <3>4
  <2>2. CASE TestDir(w)
    <3>1. \/ job' = [job EXCEPT ![w].dirs = Tail(@)]
          \/ job' = [job EXCEPT ![w].pc = "mkdir"]
      BY <2>2 DEF TestDir
    <3>2. /\ job' = [job EXCEPT ![w] = k]
          /\ k = [j EXCEPT !.dirs = Tail(j.dirs)] \/ k = [j EXCEPT !.pc = "mkdir"]
      BY <1>2, <3>1
    <3>3. Goes(j.pc, Tail(j.dirs), j.status, j.left, j.buf) \/ Goes("mkdir", j.dirs, j.status, j.left, j.buf)
      BY <1>2, <3>2, ZenonT(60) DEF Jobs
    <3>4. "mkdir" \in PutPcs
      BY DEF PutPcs
    <3>. HIDE DEF Goes
    <3>. QED  BY <1>1, <3>2, <3>3, <3>4
  <2>3. CASE MakeDir(w)
    <3>1. \/ job' = [job EXCEPT ![w].pc = "putdir", ![w].dirs = Tail(@)]
          \/ job' = [job EXCEPT ![w] = Answered(j, "done", 500, 0)]
      BY <2>3 DEF MakeDir
    <3>2. /\ job' = [job EXCEPT ![w] = k]
          /\ k = [j EXCEPT !.pc = "putdir", !.dirs = Tail(j.dirs)] \/ k = Answered(j, "done", 500, 0)
      BY <1>2, <3>1, ZenonT(60)
    <3>3. Goes("putdir", Tail(j.dirs), j.status, j.left, j.buf) \/ Ends("done", 500, 0)
      BY <1>2, <3>2, ZenonT(60) DEF Jobs
    <3>4. "putdir" \in PutPcs /\ 0 \in Int
      BY DEF PutPcs
    <3>. HIDE DEF Goes, Ends
    <3>. QED  BY <3>2, <3>3, <3>4
  <2>4. CASE DirPut(w) \/ PutFails(w) \/ PutAnswer(w)
    <3>1. \/ job' = [job EXCEPT ![w] = Answered(j, "done", j.status, -1)]
          \/ job' = [job EXCEPT ![w] = Answered(j, "close", j.status, -1)]
          \/ job' = [job EXCEPT ![w] = Answered(j, "close", 411, 0)]
          \/ job' = [job EXCEPT ![w] = Answered(j, "close", 577, 0)]
      <4>1. CASE DirPut(w) \/ PutAnswer(w)
        BY <4>1 DEF DirPut, PutAnswer, Answer
      <4>2. CASE PutFails(w) /\ j.left = -1
        BY <4>2 DEF PutFails
      <4>3. CASE PutFails(w) /\ j.left # -1
        BY <4>3 DEF PutFails
      <4>. QED  BY <2>4, <4>1, <4>2, <4>3
    <3>2. /\ job' = [job EXCEPT ![w] = k]
          /\ Ends("done", j.status, -1) \/ Ends("close", j.status, -1) \/ Ends("close", 411, 0) \/ Ends("close", 577, 0)
      BY <1>2, <3>1
    <3>3. -1 \in Int /\ 0 \in Int
      OBVIOUS
    <3>. HIDE DEF Goes, Ends
    <3>. QED  BY <3>2, <3>3
  <2>5. CASE Store(w)
    <3>1. job' = [job EXCEPT ![w].buf = Append(@, Byte(job[w])), ![w].left = @ - 1]
      BY <2>5 DEF Store
    <3>2. job' = [job EXCEPT ![w] = k] /\ k = [j EXCEPT !.buf = Append(j.buf, Byte(j)), !.left = j.left - 1]
      BY <1>2, <3>1
    <3>3. Goes(j.pc, j.dirs, j.status, j.left - 1, Append(j.buf, Byte(j)))
      BY <1>2, <3>2 DEF Jobs
    <3>. HIDE DEF Goes
    <3>. QED  BY <1>1, <3>2, <3>3
  <2>. HIDE DEF Goes, Ends, j, k
  <2>. QED  BY <2>1, <2>2, <2>3, <2>4, <2>5
<1>4. j.pc \in PutPcs
  BY <1>1
<1>. HIDE DEF j, k
<1>5. CASE \E pc \in PutPcs : \E dirs, left, buf : \E status \in {200, 201, j.status} :
             Goes(pc, dirs, status, left, buf)
  <2>1. PICK pc \in PutPcs : \E dirs, left, buf : \E status \in {200, 201, j.status} :
               Goes(pc, dirs, status, left, buf)
    BY <1>5
  <2>5. PICK dirs, left, buf : \E status \in {200, 201, j.status} :
               Goes(pc, dirs, status, left, buf)
    BY <2>1
  <2>2. PICK status \in {200, 201, j.status} : Goes(pc, dirs, status, left, buf)
    BY <2>5
  <2>3. /\ k.req = j.req /\ k.copy = j.copy /\ k.path = j.path /\ k.stat = j.stat /\ k.touched = j.touched
        /\ k.node = j.node /\ k.at = j.at /\ k.pc = pc /\ k.listed = j.listed /\ k.status = status
    BY <1>2, <2>2 DEF Jobs
  <2>4. Calm(j, k)
    BY <2>3 DEF Calm, PutPcs, FilePcs
  <2>. QED  BY <1>3, <1>4, <2>4, ZenonT(60) DEF j, k
<1>6. CASE \E pc \in {"done", "close"}, status \in {500, 411, 577, j.status}, length \in Int : Ends(pc, status, length)
  <2>1. PICK pc \in {"done", "close"}, status \in {500, 411, 577, j.status}, length \in Int : Ends(pc, status, length)
    BY <1>6
  <2>2. status \in Int /\ (status = 304 => status = j.status)
    BY <1>2
  <2>3. Calm(j, Answered(j, pc, status, length))
    BY <1>2, <2>2, CalmAnswer
  <2>. QED  BY <1>3, <1>4, <2>1, <2>3, ZenonT(60) DEF j, k
<1>. QED  BY <1>3, <1>5, <1>6, ZenonT(60)

\* The steps that write.
LEMMA CalmSteps4 ==
  ASSUME IInv, NEW w \in Workers, Flush(w) \/ ClosePut(w)
  PROVE  /\ job[w].pc \in {"store", "close"} /\ Calm(job[w], job'[w])
         /\ \/ job' = [job EXCEPT ![w] = job'[w]] /\ UNCHANGED store
            \/ job' = Touch(w, job[w].node, [job EXCEPT ![w] = job'[w]]) /\ Flushed(w)
<1>. DEFINE j == job[w]
            k == job'[w]
            flushed == [j EXCEPT !.pos = j.pos + Len(j.buf), !.buf = <<>>]
            closed == [j EXCEPT !.pc = "done", !.buf = <<>>]
            ended == [j EXCEPT !.pc = "done"]
<1>1. j.pc \in {"store", "close"}
  BY DEF Flush, ClosePut
<1>2. j \in Jobs /\ job \in [Workers -> Jobs \cup {IdleJob}]
  BY <1>1, ActiveJob DEF IInv, Types
<1>3. \/ job' = [job EXCEPT ![w] = ended] /\ UNCHANGED store
      \/ job' = Touch(w, j.node, [job EXCEPT ![w] = flushed]) /\ Flushed(w)
      \/ job' = Touch(w, j.node, [job EXCEPT ![w] = closed]) /\ Flushed(w)
  <2>1. /\ [job EXCEPT ![w].pos = @ + Len(j.buf), ![w].buf = <<>>] = [job EXCEPT ![w] = flushed]
        /\ [job EXCEPT ![w].pc = "done", ![w].buf = <<>>] = [job EXCEPT ![w] = closed]
        /\ [job EXCEPT ![w].pc = "done"] = [job EXCEPT ![w] = ended]
    BY <1>2
  <2>2. CASE Flush(w)
    BY <2>1, <2>2 DEF Flush
  <2>3. CASE ClosePut(w) /\ j.buf = <<>>
    BY <2>1, <2>3 DEF ClosePut
  <2>4. CASE ClosePut(w) /\ j.buf # <<>>
    BY <2>1, <2>4 DEF ClosePut
  <2>. QED  BY <2>2, <2>3, <2>4
<1>. HIDE DEF flushed, closed, ended
<1>4. /\ k \in {flushed, closed, ended}
      /\ \/ job' = [job EXCEPT ![w] = k] /\ UNCHANGED store
         \/ job' = Touch(w, j.node, [job EXCEPT ![w] = k]) /\ Flushed(w)
  <2>1. CASE job' = [job EXCEPT ![w] = ended] /\ UNCHANGED store
    BY <2>1, NewRecord
  <2>2. CASE job' = Touch(w, j.node, [job EXCEPT ![w] = flushed]) /\ Flushed(w)
    <3>1. job'[w] = flushed
      BY <2>2, TouchOthers, ZenonT(60)
    <3>. QED  BY <2>2, <3>1
  <2>3. CASE job' = Touch(w, j.node, [job EXCEPT ![w] = closed]) /\ Flushed(w)
    <3>1. job'[w] = closed
      BY <2>3, TouchOthers, ZenonT(60)
    <3>. QED  BY <2>3, <3>1
  <2>. QED  BY <1>3, <2>1, <2>2, <2>3
<1>5. k \in {flushed, closed, ended} /\ j.pc \in {"store", "close"}
  BY <1>1, <1>4
<1>. HIDE DEF j, k
<1>6. /\ k.req = j.req /\ k.copy = j.copy /\ k.path = j.path /\ k.stat = j.stat /\ k.touched = j.touched
      /\ k.node = j.node /\ k.at = j.at /\ k.pc \in {j.pc, "done"} /\ k.listed = j.listed /\ k.status = j.status
  <2>1. CASE k = flushed
    BY <1>2, <2>1 DEF Jobs, flushed
  <2>2. CASE k = closed
    BY <1>2, <2>2 DEF Jobs, closed
  <2>3. CASE k = ended
    BY <1>2, <2>3 DEF Jobs, ended
  <2>. QED  BY <1>5, <2>1, <2>2, <2>3
<1>7. Calm(j, k)
  BY <1>5, <1>6 DEF Calm, FilePcs
<1>. QED  BY <1>1, <1>4, <1>7 DEF j, k

-----------------------------------------------------------------------------
(* The other steps. *)

\* A request that is taken has looked up its path.
LEMMA TakeIs ==
  ASSUME IInv, NEW w \in Workers, Take(w)
  PROVE  /\ job' = [job EXCEPT ![w] = job'[w]] /\ UNCHANGED <<now, fs, store, copies, mix>>
         /\ LET k == job'[w]
            IN  /\ k.pc = "decide" /\ k.req \in Requested /\ k.path = k.req.path /\ k.path \in Paths
                /\ k.stat = Stat(k.path) /\ k.listed = {} /\ k.status = -1 /\ k.node = None /\ k.touched = FALSE
                /\ k.at = now
                /\ k.req.cond # "none" => k.copy \in copies /\ k.copy.path = k.path
<1>1. PICK r \in Mixes[mix].requests :
        \E copy \in IF r.cond = "none" THEN {<<>>} ELSE {c \in copies : c.path = r.path} :
          job' = [job EXCEPT ![w] =
            [pc |-> "decide", req |-> r, copy |-> copy, path |-> r.path, stat |-> Stat(r.path),
             node |-> None, dirs |-> <<>>, pos |-> 0, left |-> 0, buf |-> <<>>,
             status |-> -1, length |-> -1, sent |-> <<>>, listed |-> {}, heads |-> 0,
             touched |-> FALSE, gone |-> FALSE, at |-> now]]
  BY DEF Take
<1>2. PICK copy \in IF r.cond = "none" THEN {<<>>} ELSE {c \in copies : c.path = r.path} :
        job' = [job EXCEPT ![w] =
          [pc |-> "decide", req |-> r, copy |-> copy, path |-> r.path, stat |-> Stat(r.path),
           node |-> None, dirs |-> <<>>, pos |-> 0, left |-> 0, buf |-> <<>>,
           status |-> -1, length |-> -1, sent |-> <<>>, listed |-> {}, heads |-> 0,
           touched |-> FALSE, gone |-> FALSE, at |-> now]]
  BY <1>1
<1>. DEFINE new == [pc |-> "decide", req |-> r, copy |-> copy, path |-> r.path, stat |-> Stat(r.path),
                    node |-> None, dirs |-> <<>>, pos |-> 0, left |-> 0, buf |-> <<>>,
                    status |-> -1, length |-> -1, sent |-> <<>>, listed |-> {}, heads |-> 0,
                    touched |-> FALSE, gone |-> FALSE, at |-> now]
<1>3. /\ new.pc = "decide" /\ new.req = r /\ new.copy = copy /\ new.path = r.path /\ new.stat = Stat(r.path)
      /\ new.listed = {} /\ new.status = -1 /\ new.node = None /\ new.touched = FALSE
      /\ new.at = now
  OBVIOUS
<1>4. job' = [job EXCEPT ![w] = new]
  BY <1>2
<1>. HIDE DEF new
<1>5. job'[w] = new /\ job' = [job EXCEPT ![w] = job'[w]]
  BY <1>4, NewRecord
<1>6. r \in Requested /\ r.path \in Paths
  BY <1>1, MixAssumption DEF Requested, IInv, Types
<1>7. r.cond # "none" => copy \in copies /\ copy.path = r.path
  BY <1>2
<1>8. UNCHANGED <<now, fs, store, copies, mix>>
  BY DEF Take
<1>. QED  BY <1>3, <1>5, <1>6, <1>7, <1>8

\* What is decided depends on what was looked up; that stays.
LEMMA DecideIs ==
  ASSUME IInv, NEW w \in Workers, Decide(w) \/ DecideFile(w)
  PROVE  /\ job' = [job EXCEPT ![w] = job'[w]] /\ UNCHANGED <<now, fs, store, copies, mix>>
         /\ job[w].pc \in {"decide", "file"} /\ Keeping(job[w], job'[w])
         /\ job'[w].listed = job[w].listed /\ job'[w].status = job[w].status
         /\ job'[w].pc \notin {"decide", "idle", "file", "send", "done"}
         /\ job[w].pc = "decide" => job'[w].pc = First(Cases(w))
         /\ job[w].pc = "file" => job'[w].pc = First(FileCases(w))
<1>. DEFINE j == job[w]
            k == job'[w]
            p == IF j.pc = "decide" THEN First(Cases(w)) ELSE First(FileCases(w))
<1>1. /\ j.pc \in {"decide", "file"} /\ job' = [job EXCEPT ![w].pc = p]
      /\ UNCHANGED <<now, fs, store, copies, served, mix>>
  BY DEF Decide, DecideFile
<1>2. j \in Jobs /\ job \in [Workers -> Jobs \cup {IdleJob}]
  BY <1>1, ActiveJob DEF IInv, Types
<1>3. k = [j EXCEPT !.pc = p] /\ job' = [job EXCEPT ![w] = k]
  BY <1>1, <1>2
<1>4. p \in Pcs /\ p \notin {"decide", "idle", "file", "send", "done"}
  <2>1. CASE j.pc = "decide"
    <3>1. First(Cases(w)) \in Pcs
          /\ First(Cases(w)) \notin {"decide", "send", "store", "close", "done", "putdir", "mkdir", "file"}
      BY Decided
    <3>. QED  BY <2>1, <3>1 DEF Pcs, FilePcs, PutPcs
  <2>2. CASE j.pc # "decide"
    <3>1. First(FileCases(w)) \in FilePcs
      BY FileDecided
    <3>. QED  BY <2>2, <3>1 DEF Pcs, FilePcs, PutPcs
  <2>. QED  BY <2>1, <2>2
<1>5. /\ j.pc = "decide" => p = First(Cases(w))
      /\ j.pc = "file" => p = First(FileCases(w))
  OBVIOUS
<1>. HIDE DEF j, k, p
<1>6. k.pc = p /\ Keeping(j, k) /\ k.status = j.status /\ k.listed = j.listed
  BY <1>2, <1>3, <1>4, GoesOn
<1>. QED  BY <1>1, <1>3, <1>4, <1>5, <1>6 DEF j, k

\* An index file is looked up,
Indexed(j, k) ==
  /\ k.req = j.req /\ k.copy = j.copy /\ k.node = j.node /\ k.touched = j.touched
  /\ k.status = j.status /\ k.listed = j.listed /\ k.pc = "file" /\ k.path \in Paths
  /\ \E i \in DOMAIN IndexFiles : k.path = Append(j.path, IndexFiles[i])
  /\ fs[k.path] # None /\ k.stat = Stat(k.path)

\* or the directory is answered for.
LEMMA IndexIs ==
  ASSUME IInv, NEW w \in Workers, Index(w)
  PROVE  /\ job' = [job EXCEPT ![w] = job'[w]] /\ UNCHANGED <<now, fs, store, copies, mix>>
         /\ job[w].pc = "index"
         /\ Calm(job[w], job'[w]) \/ Indexed(job[w], job'[w])
<1>. DEFINE j == job[w]
            p == job[w].path
            found == {i \in DOMAIN IndexFiles : /\ Append(p, IndexFiles[i]) \in Paths
                                                /\ fs[Append(p, IndexFiles[i])] # None}
            q == Append(p, IndexFiles[Min(found)])
            k == job'[w]
<1>1. /\ j.pc = "index" /\ UNCHANGED <<now, fs, store, copies, served, mix>>
      /\ job' = IF found # {} THEN [job EXCEPT ![w].pc = "file", ![w].path = q, ![w].stat = Stat(q), ![w].at = now]
                ELSE IF Listing THEN [job EXCEPT ![w].pc = "list"]
                ELSE [job EXCEPT ![w] = Answered(j, "done", 403, 0)]
  BY DEF Index
<1>2. j \in Jobs /\ job \in [Workers -> Jobs \cup {IdleJob}]
  BY <1>1, ActiveJob DEF IInv, Types
<1>3. CASE found # {}
  <2>1. Min(found) \in found
    <3>1. found \subseteq Nat
      BY TreeAssumption
    <3>. QED  BY <1>3, <3>1, LeastNatural
  <2>2. q \in Paths /\ fs[q] # None /\ \E i \in DOMAIN IndexFiles : q = Append(j.path, IndexFiles[i])
    BY <2>1
  <2>3. k = [j EXCEPT !.pc = "file", !.path = q, !.stat = Stat(q), !.at = now] /\ job' = [job EXCEPT ![w] = k]
    BY <1>1, <1>2, <1>3
  <2>. HIDE DEF j, k, q, found
  <2>4. /\ k.pc = "file" /\ k.path = q /\ k.stat = Stat(q) /\ k.req = j.req /\ k.node = j.node
        /\ k.copy = j.copy /\ k.status = j.status /\ k.touched = j.touched /\ k.listed = j.listed
    BY <1>2, <2>3 DEF Jobs
  <2>5. Indexed(j, k)
    BY <2>2, <2>4 DEF Indexed
  <2>. QED  BY <1>1, <2>3, <2>5 DEF j, k
<1>4. CASE found = {} /\ Listing
  <2>1. k = [j EXCEPT !.pc = "list"] /\ job' = [job EXCEPT ![w] = k]
    BY <1>1, <1>2, <1>4
  <2>. HIDE DEF j, k, found
  <2>2. /\ k.req = j.req /\ k.copy = j.copy /\ k.path = j.path /\ k.stat = j.stat /\ k.touched = j.touched
        /\ k.node = j.node /\ k.at = j.at /\ k.pc = "list" /\ k.listed = j.listed /\ k.status = j.status
    BY <1>2, <2>1 DEF Jobs
  <2>3. Calm(j, k)
    BY <2>2 DEF Calm, FilePcs
  <2>. QED  BY <1>1, <2>1, <2>3, SMTT(40) DEF j, k
<1>5. CASE found = {} /\ ~Listing
  <2>1. job' = [job EXCEPT ![w] = Answered(j, "done", 403, 0)]
    BY <1>1, <1>5
  <2>2. k = Answered(j, "done", 403, 0) /\ job' = [job EXCEPT ![w] = k]
    BY <1>2, <2>1
  <2>3. 403 \in Int /\ 0 \in Int /\ 403 # 304
    OBVIOUS
  <2>. HIDE DEF j, k, found
  <2>4. Calm(j, Answered(j, "done", 403, 0))
    BY <1>2, <2>3, CalmAnswer
  <2>5. Calm(j, k)
    BY <2>2, <2>4
  <2>. QED  BY <1>1, <2>2, <2>5, SMTT(40) DEF j, k
<1>. QED  BY <1>3, <1>4, <1>5

\* A file is opened, or is not there.
LEMMA OpenFileIs ==
  ASSUME IInv, NEW w \in Workers, OpenFile(w)
  PROVE  /\ job' = [job EXCEPT ![w] = job'[w]] /\ UNCHANGED <<now, fs, store, copies, mix>>
         /\ job[w].pc = "open"
         /\ LET j == job[w]
                k == job'[w]
            IN  \/ Calm(j, k)
                \/ /\ k.req = j.req /\ k.copy = j.copy /\ k.path = j.path /\ k.stat = j.stat /\ k.listed = j.listed
                   /\ k.at = j.at
                   /\ k.node = fs[j.path] /\ k.pc \in {"send", "done"} /\ k.status \in {200, 206}
                   /\ k.touched = (j.touched \/ fs[j.path] # j.stat.node)
<1>. DEFINE j == job[w]
            k == job'[w]
            n == fs[j.path]
            pc == IF j.req.method = "HEAD" THEN "done" ELSE "send"
            status == IF j.req.range = <<>> THEN 200 ELSE 206
            length == RangeLength(Len(j.stat.data), j.req.range)
            a == Answered(j, pc, status, length)
            b == [a EXCEPT !.node = n, !.pos = RangeStart(j.req.range), !.left = length,
                           !.touched = @ \/ n # j.stat.node]
<1>1. /\ j.pc = "open" /\ UNCHANGED <<now, fs, store, copies, served, mix>>
      /\ job' = [job EXCEPT ![w] = IF n = None THEN Answered(j, "done", 500, 0) ELSE b]
  BY DEF OpenFile
<1>2. j \in Jobs /\ job \in [Workers -> Jobs \cup {IdleJob}] /\ j.req \in Requested /\ Len(j.stat.data) \in Nat
  <2>1. j \in Jobs
    BY <1>1, ActiveJob
  <2>. QED  BY <2>1, SMTT(40) DEF IInv, Types, Jobs, Stats, Bytes
<1>3. CASE n = None
  <2>1. job' = [job EXCEPT ![w] = Answered(j, "done", 500, 0)]
    BY <1>1, <1>3
  <2>2. k = Answered(j, "done", 500, 0) /\ job' = [job EXCEPT ![w] = k]
    BY <1>2, <2>1
  <2>3. 500 \in Int /\ 0 \in Int /\ 500 # 304
    OBVIOUS
  <2>. HIDE DEF j, k
  <2>4. Calm(j, Answered(j, "done", 500, 0))
    BY <1>2, <2>3, CalmAnswer
  <2>5. Calm(j, k)
    BY <2>2, <2>4
  <2>. QED  BY <1>1, <2>2, <2>5 DEF j, k
<1>4. CASE n # None
  <2>1. job' = [job EXCEPT ![w] = b]
    BY <1>1, <1>4
  <2>2. pc \in Pcs /\ pc \in {"send", "done"} /\ status \in {200, 206} /\ status \in Int
    BY DEF Pcs
  <2>3. length \in Int
    BY <1>2, RangeTypes
  <2>. HIDE DEF pc, status, length
  <2>4. a \in Jobs /\ Keeping(j, a) /\ a.pc = pc /\ a.status = status /\ a.listed = j.listed
    BY <1>2, <2>2, <2>3, AnsweredJob
  <2>. HIDE DEF a
  <2>5. k = [a EXCEPT !.node = n, !.pos = RangeStart(j.req.range), !.left = length,
                      !.touched = (a.touched \/ n # j.stat.node)]
        /\ job' = [job EXCEPT ![w] = k]
    BY <1>2, <2>1
  <2>. HIDE DEF j, k, n
  <2>6. k.node = n /\ k.touched = (a.touched \/ n # j.stat.node)
    BY <2>4, <2>5 DEF Jobs
  <2>7. /\ k.req = a.req /\ k.copy = a.copy /\ k.path = a.path /\ k.stat = a.stat /\ k.listed = a.listed
        /\ k.pc = a.pc /\ k.status = a.status /\ k.at = a.at
    BY <2>4, <2>5 DEF Jobs
  <2>8. /\ k.req = j.req /\ k.copy = j.copy /\ k.path = j.path /\ k.stat = j.stat /\ k.listed = j.listed
        /\ k.at = j.at
        /\ k.node = n /\ k.pc \in {"send", "done"} /\ k.status \in {200, 206}
        /\ k.touched = (j.touched \/ n # j.stat.node)
    BY <2>2, <2>4, <2>6, <2>7 DEF Keeping
  <2>9. UNCHANGED <<now, fs, store, copies, mix>> /\ job' = [job EXCEPT ![w] = k] /\ j.pc = "open"
    BY <1>1, <2>5 DEF j
  <2>. QED  BY <2>8, <2>9 DEF j, k, n
<1>. QED  BY <1>3, <1>4

\* A file is opened to be stored, or cannot be.
LEMMA OpenPutIs ==
  ASSUME IInv, NEW w \in Workers, OpenPut(w)
  PROVE  /\ job[w].pc = "putdir"
         /\ \/ Calm(job[w], job'[w]) /\ job' = [job EXCEPT ![w] = job'[w]] /\ UNCHANGED <<now, fs, store, copies, mix>>
            \/ LET p == job[w].path
                   n == IF fs[p] = None THEN Len(store) + 1 ELSE fs[p]
               IN  /\ Storing(job[w], n, job'[w]) /\ fs' = [fs EXCEPT ![p] = n]
                   /\ n \in 1..(Len(store) + 1) /\ store' = Emptied(store, n, now) /\ UNCHANGED <<now, copies, mix>>
                   /\ job' = Touch(w, n, [job EXCEPT ![w] = job'[w]])
<1>. DEFINE j == job[w]
            p == job[w].path
            n == IF fs[p] = None THEN Len(store) + 1 ELSE fs[p]
            refused == fs[p] = Dir \/ p = <<>> \/ fs[Front(p)] # Dir
            k == PutOpened(j, n)
<1>1. /\ j.pc = "putdir" /\ UNCHANGED <<now, copies, served, mix>>
      /\ refused => job' = [job EXCEPT ![w] = Answered(j, "done", 500, 0)] /\ UNCHANGED <<fs, store>>
      /\ ~refused => /\ fs' = [fs EXCEPT ![p] = n]
                     /\ store' = IF fs[p] = None THEN Append(store, [mtime |-> now, data |-> <<>>]) ELSE Truncated(n)
                     /\ job' = Touch(w, n, [job EXCEPT ![w] = k])
  BY DEF OpenPut, PutOpened
<1>2. j \in Jobs /\ p \in Paths /\ store \in Seq(Content) /\ Tree(fs, store)
  <2>1. j \in Jobs
    BY <1>1, ActiveJob
  <2>. QED  BY <2>1 DEF Jobs, IInv, Types
<1>3. CASE refused
  <2>1. job'[w] = Answered(j, "done", 500, 0) /\ job' = [job EXCEPT ![w] = job'[w]]
    BY <1>1, <1>3, NewRecord, ZenonT(60)
  <2>2. 500 \in Int /\ 0 \in Int /\ 500 # 304
    OBVIOUS
  <2>. HIDE DEF j
  <2>3. Calm(j, Answered(j, "done", 500, 0))
    BY <1>2, <2>2, CalmAnswer
  <2>4. Calm(j, job'[w])
    BY <2>1, <2>3
  <2>. QED  BY <1>1, <1>3, <2>1, <2>4 DEF j
<1>4. CASE ~refused
  <2>1. n \in 1..(Len(store) + 1) /\ n \in Int /\ (n = Len(store) + 1 <=> fs[p] = None)
    <3>1. Valid(fs[p], store) /\ Len(store) \in Nat
      BY <1>2 DEF Tree
    <3>2. CASE fs[p] = None
      BY <1>4, <3>1, <3>2
    <3>3. CASE fs[p] # None
      BY <1>4, <3>1, <3>3 DEF Valid
    <3>. QED  BY <3>2, <3>3
  <2>. HIDE DEF n
  <2>2. store' = Emptied(store, n, now)
    BY <1>1, <1>4, <2>1 DEF Truncated, Emptied
  <2>3. job' = Touch(w, n, [job EXCEPT ![w] = k]) /\ fs' = [fs EXCEPT ![p] = n]
        /\ UNCHANGED <<now, copies, mix>> /\ j.pc = "putdir"
    BY <1>1, <1>4
  <2>4. Storing(j, n, k)
    <3>. HIDE DEF j
    <3>. QED  BY <1>2, <2>1, PutOpenedFacts
  <2>. HIDE DEF k
  <2>5. job'[w] = k
    BY <2>3, TouchOthers, ZenonT(60)
  <2>. QED  BY <2>1, <2>2, <2>3, <2>4, <2>5 DEF n
<1>. QED  BY <1>3, <1>4

\* What a step does to the others: they are touched when what they look at is changed.
Rewritten(n) == n \in DOMAIN store' /\ n > 0 /\ store'[n].mtime = now

\* A step changes the record of its worker, and touches others that look at what it writes.
LEMMA RecordsChange ==
  ASSUME IInv, NEW w \in Workers, Take(w) \/ Step(w) \/ SendFails(w)
  PROVE  \/ job' = [job EXCEPT ![w] = job'[w]]
         \/ \E n : Rewritten(n) /\ job' = Touch(w, n, [job EXCEPT ![w] = job'[w]])
<1>1. CASE Take(w)
  BY <1>1, TakeIs
<1>2. CASE Decide(w) \/ DecideFile(w)
  BY <1>2, DecideIs
<1>3. CASE AnswerOnly(w) \/ PropFind(w) \/ List(w) \/ Script(w) \/ Delete(w)
  BY <1>3, CalmSteps1
<1>4. CASE Index(w)
  BY <1>4, IndexIs
<1>5. CASE OpenFile(w)
  BY <1>5, OpenFileIs
<1>6. CASE SendData(w) \/ SendEnds(w) \/ SendFails(w)
  BY <1>6, CalmSteps2
<1>7. CASE Put(w) \/ TestDir(w) \/ MakeDir(w) \/ DirPut(w) \/ Store(w) \/ PutFails(w) \/ PutAnswer(w)
  BY <1>7, CalmSteps3
<1>8. CASE Finish(w)
  <2>1. job' = [job EXCEPT ![w] = IdleJob]
    BY <1>8 DEF Finish
  <2>. QED  BY <2>1, NewRecord
<1>9. CASE OpenPut(w)
  <2>. DEFINE p == job[w].path
              n == IF fs[p] = None THEN Len(store) + 1 ELSE fs[p]
  <2>1. CASE job' = [job EXCEPT ![w] = job'[w]]
    BY <2>1
  <2>2. CASE job' # [job EXCEPT ![w] = job'[w]]
    <3>1. /\ n \in 1..(Len(store) + 1) /\ store' = Emptied(store, n, now)
          /\ job' = Touch(w, n, [job EXCEPT ![w] = job'[w]])
      BY <1>9, <2>2, OpenPutIs
    <3>. HIDE DEF n
    <3>2. /\ store \in Seq(Content) /\ now \in Nat /\ \A m \in DOMAIN store : store[m].mtime <= now
      BY DEF IInv, Types, Dated
    <3>3. n \in DOMAIN store' /\ store'[n] = [mtime |-> now, data |-> <<>>]
      BY <3>1, <3>2, EmptyNode
    <3>4. n > 0 /\ store'[n].mtime = now
      BY <3>1, <3>2, <3>3
    <3>5. Rewritten(n)
      BY <3>3, <3>4 DEF Rewritten
    <3>. QED  BY <3>1, <3>5
  <2>. QED  BY <2>1, <2>2
<1>10. CASE Flush(w) \/ ClosePut(w)
  <2>1. job[w].pc \in {"store", "close"}
    BY <1>10, CalmSteps4
  <2>2. CASE job' = [job EXCEPT ![w] = job'[w]]
    BY <2>2
  <2>3. CASE job' # [job EXCEPT ![w] = job'[w]]
    <3>1. job' = Touch(w, job[w].node, [job EXCEPT ![w] = job'[w]]) /\ Flushed(w)
      BY <1>10, <2>3, CalmSteps4
    <3>2. Rewritten(job[w].node)
      BY <2>1, <3>1, FlushedFacts, PutFacts DEF Rewritten
    <3>. QED  BY <3>1, <3>2
  <2>. QED  BY <2>2, <2>3
<1>. QED  BY <1>1, <1>2, <1>3, <1>4, <1>5, <1>6, <1>7, <1>8, <1>9, <1>10 DEF Step

\* The record of another worker stays, or is touched.
LEMMA OthersStep ==
  ASSUME IInv, NEW w \in Workers, Take(w) \/ Step(w) \/ SendFails(w), NEW v \in Workers, v # w
  PROVE  \/ job'[v] = job[v]
         \/ /\ job[v].pc # "idle" /\ job'[v] = [job[v] EXCEPT !.touched = TRUE]
            /\ \E n \in {job[v].stat.node, job[v].node} : Rewritten(n)
<1>1. CASE job' = [job EXCEPT ![w] = job'[w]]
  <2>1. job \in [Workers -> Jobs \cup {IdleJob}]
    BY DEF IInv, Types
  <2>. QED  BY <1>1, <2>1
<1>2. CASE \E n : Rewritten(n) /\ job' = Touch(w, n, [job EXCEPT ![w] = job'[w]])
  <2>1. PICK n : Rewritten(n) /\ job' = Touch(w, n, [job EXCEPT ![w] = job'[w]])
    BY <1>2
  <2>2. /\ job'[v] = job[v] \/ (job[v].pc # "idle" /\ job'[v] = [job[v] EXCEPT !.touched = TRUE])
        /\ job[v].pc # "idle" => job'[v] = IF n \in {job[v].stat.node, job[v].node}
                                           THEN [job[v] EXCEPT !.touched = TRUE] ELSE job[v]
    <3>1. v \in Workers \ {w}
      OBVIOUS
    <3>2. /\ \A u \in Workers \ {w} : job'[u] = job[u] \/ (job[u].pc # "idle" /\ job'[u] = [job[u] EXCEPT !.touched = TRUE])
          /\ \A u \in Workers \ {w} : job[u].pc # "idle" =>
               job'[u] = IF n \in {job[u].stat.node, job[u].node} THEN [job[u] EXCEPT !.touched = TRUE] ELSE job[u]
      BY <2>1, TouchOthers
    <3>. QED  BY <3>1, <3>2
  <2>. QED  BY <2>1, <2>2
<1>. QED  BY <1>1, <1>2, RecordsChange

-----------------------------------------------------------------------------
(* What is hidden stays hidden, if no index file has the name of a hidden one. *)

AllSeen == \A w \in Active : Seen(job[w])

NoSecretIndex == \A i \in DOMAIN IndexFiles : IndexFiles[i] \notin HiddenNames \cup {Passwords}

\* A request that goes on sees no more than before.
LEMMA CalmSeen == \A j, k : Seen(j) /\ Calm(j, k) => Seen(k)
BY DEF Seen, Calm

\* A step of a worker shows him nothing that is hidden,
LEMMA SeenOwn ==
  ASSUME IInv, AllSeen, NoSecretIndex, NEW w \in Workers, Take(w) \/ Step(w) \/ SendFails(w), job'[w].pc # "idle"
  PROVE  Seen(job'[w])
<1>. DEFINE j == job[w]
            k == job'[w]
<1>1. ASSUME j.pc # "idle"
      PROVE  j \in Jobs /\ Seen(j) /\ Way(j, Mixes[mix].requests)
  BY <1>1, ActiveJob DEF AllSeen, Active, JobInv
<1>2. CASE Take(w)
  <2>1. k.pc = "decide" /\ k.path \in Paths /\ k.stat = Stat(k.path) /\ k.listed = {}
    BY <1>2, TakeIs
  <2>2. k.path = <<>> => k.stat.node = Dir
    BY <2>1, StatFacts DEF IInv, Tree
  <2>. HIDE DEF k
  <2>. QED  BY <2>1, <2>2 DEF Seen, FilePcs, k
<1>3. CASE Decide(w) \/ DecideFile(w)
  <2>1. /\ j.pc \in {"decide", "file"} /\ Keeping(j, k) /\ k.listed = j.listed
        /\ k.pc \notin {"decide", "idle", "file", "send", "done"}
        /\ j.pc = "decide" => k.pc = First(Cases(w))
    BY <1>3, DecideIs
  <2>2. Seen(j)
    BY <1>1, <2>1
  <2>3. j.pc = "decide" /\ k.pc \in FilePcs => j.stat.node # Dir /\ ~Hidden(j.path)
    BY <2>1, Decided
  <2>. HIDE DEF j, k
  <2>4. k.pc \in FilePcs => k.path # <<>> /\ ~Secret(k.path)
    BY <2>1, <2>2, <2>3 DEF Seen, Keeping, Hidden, Secret
  <2>5. Seen(k)
    BY <2>1, <2>2, <2>4 DEF Seen
  <2>. QED  BY <2>5 DEF k
<1>4. CASE AnswerOnly(w) \/ PropFind(w) \/ List(w) \/ Script(w) \/ Delete(w)
  BY <1>1, <1>4, CalmSteps1, CalmSeen
<1>5. CASE Index(w)
  <2>1. j.pc = "index" /\ (Calm(j, k) \/ Indexed(j, k))
    BY <1>5, IndexIs
  <2>2. Seen(j) /\ j \in Jobs
    BY <1>1, <2>1
  <2>. HIDE DEF j, k
  <2>3. CASE Indexed(j, k)
    <3>1. PICK i \in DOMAIN IndexFiles : k.path = Append(j.path, IndexFiles[i])
      BY <2>3 DEF Indexed
    <3>2. j.path \in Seq(STRING) /\ IndexFiles[i] \in STRING
      BY <2>2, TreeAssumption DEF Jobs
    <3>3. k.path # <<>> /\ Last(k.path) = IndexFiles[i]
      BY <3>1, <3>2 DEF Last
    <3>4. ~Secret(k.path)
      BY <3>3 DEF Secret, NoSecretIndex
    <3>5. Seen(k)
      BY <2>2, <2>3, <3>3, <3>4 DEF Seen, Indexed
    <3>. QED  BY <3>5 DEF k
  <2>4. CASE Calm(j, k)
    BY <2>2, <2>4, CalmSeen DEF k
  <2>. QED  BY <2>1, <2>3, <2>4
<1>6. CASE OpenFile(w)
  <2>1. /\ j.pc = "open"
        /\ \/ Calm(j, k)
           \/ k.path = j.path /\ k.listed = j.listed /\ k.pc \in {"send", "done"}
    BY <1>6, OpenFileIs
  <2>2. Seen(j)
    BY <1>1, <2>1
  <2>. HIDE DEF j, k
  <2>3. CASE Calm(j, k)
    BY <2>2, <2>3, CalmSeen DEF k
  <2>4. CASE k.path = j.path /\ k.listed = j.listed /\ k.pc \in {"send", "done"}
    <3>1. Seen(k)
      BY <2>1, <2>2, <2>4 DEF Seen, FilePcs
    <3>. QED  BY <3>1 DEF k
  <2>. QED  BY <2>1, <2>3, <2>4
<1>7. CASE SendData(w) \/ SendEnds(w) \/ SendFails(w)
  BY <1>1, <1>7, CalmSteps2, CalmSeen
<1>8. CASE Put(w) \/ TestDir(w) \/ MakeDir(w) \/ DirPut(w) \/ Store(w) \/ PutFails(w) \/ PutAnswer(w)
  <2>1. j.pc \in PutPcs /\ Calm(j, k)
    BY <1>8, CalmSteps3
  <2>2. j.pc # "idle"
    BY <2>1 DEF PutPcs
  <2>. QED  BY <1>1, <2>1, <2>2, CalmSeen
<1>9. CASE OpenPut(w)
  <2>1. j.pc = "putdir"
    BY <1>9, OpenPutIs
  <2>2. Calm(j, k) \/ \E n : Storing(j, n, k)
    BY <1>9, OpenPutIs
  <2>3. Seen(j)
    BY <1>1, <2>1
  <2>. HIDE DEF j, k
  <2>4. CASE Calm(j, k)
    BY <2>3, <2>4, CalmSeen DEF k
  <2>5. CASE \E n : Storing(j, n, k)
    <3>1. Seen(k)
      BY <2>3, <2>5 DEF Seen, Storing, FilePcs
    <3>. QED  BY <3>1 DEF k
  <2>. QED  BY <2>2, <2>4, <2>5
<1>10. CASE Flush(w) \/ ClosePut(w)
  BY <1>1, <1>10, CalmSteps4, CalmSeen
<1>11. CASE Finish(w)
  <2>1. job' = [job EXCEPT ![w] = IdleJob]
    BY <1>11 DEF Finish
  <2>2. job'[w] = IdleJob
    BY <2>1, NewRecord
  <2>. QED  BY <2>2 DEF IdleJob
<1>. QED  BY <1>2, <1>3, <1>4, <1>5, <1>6, <1>7, <1>8, <1>9, <1>10, <1>11 DEF Step

\* and no step shows others.
LEMMA SeenKept == NoSecretIndex => (IInv /\ AllSeen /\ [Next]_vars => AllSeen')
<1>. SUFFICES ASSUME NoSecretIndex, IInv, AllSeen, [Next]_vars PROVE AllSeen'
  OBVIOUS
<1>1. CASE UNCHANGED vars
  BY <1>1 DEF vars, AllSeen, Active
<1>2. ASSUME NEW w \in Workers, Take(w) \/ Step(w) \/ SendFails(w), NEW v \in Workers, job'[v].pc # "idle"
      PROVE  Seen(job'[v])
  <2>1. CASE v = w
    BY <1>2, <2>1, SeenOwn
  <2>2. CASE v # w
    <3>1. job'[v] = job[v] \/ (job[v].pc # "idle" /\ job'[v] = [job[v] EXCEPT !.touched = TRUE])
      BY <1>2, <2>2, OthersStep
    <3>2. CASE job'[v] = job[v]
      BY <1>2, <3>2 DEF AllSeen, Active
    <3>3. CASE job[v].pc # "idle" /\ job'[v] = [job[v] EXCEPT !.touched = TRUE]
      <4>1. job[v] \in Jobs /\ Seen(job[v])
        BY <3>3, ActiveJob DEF AllSeen, Active
      <4>2. Touching(job[v], job'[v])
        BY <3>3, <4>1, TouchedJob
      <4>. QED  BY <4>1, <4>2 DEF Seen, Touching
    <3>. QED  BY <3>1, <3>2, <3>3
  <2>. QED  BY <2>1, <2>2
<1>3. CASE Tick
  BY <1>3 DEF Tick, AllSeen, Active
<1>. QED  BY <1>1, <1>2, <1>3 DEF Next, AllSeen, Active

-----------------------------------------------------------------------------
(* What has not changed since it was looked up is what was looked up, if   *)
(* it had not changed in the same second before.                           *)

\* What is at a path is what was there, or it is gone, or changed just now.
Moved(f, nodes, time, f2, nodes2) ==
  \A q \in Paths :
    \/ f2[q] = f[q] /\ (f[q] > 0 => nodes2[f[q]] = nodes[f[q]])
    \/ f2[q] = None
    \/ f2[q] > 0 /\ nodes2[f2[q]].mtime = time
    \/ f2[q] = Dir

\* A tree that has only times.
Timed(f, nodes) == \A q \in Paths : f[q] \in Int /\ (f[q] > 0 => nodes[f[q]].mtime \in Nat)

\* What was below a path is newer, or stays so.
LEMMA BelowKept ==
  ASSUME NEW path \in Paths, NEW e \in Nat, NEW f, NEW nodes, NEW time \in Nat, NEW f2, NEW nodes2, NEW time2 \in Nat,
         Timed(f, nodes), Timed(f2, nodes2), Moved(f, nodes, time, f2, nodes2), e < time, time <= time2,
         \A q \in Paths \ {<<>>} : Front(q) = path /\ f[q] # None => Time(q, f, nodes, time) > e,
         NEW q \in Paths \ {<<>>}, Front(q) = path, f2[q] # None
  PROVE  Time(q, f2, nodes2, time2) > e
<1>1. CASE f2[q] = f[q] /\ (f[q] > 0 => nodes2[f[q]] = nodes[f[q]])
  <2>1. Time(q, f, nodes, time) > e
    BY <1>1
  <2>2. CASE f[q] > 0
    BY <1>1, <2>1, <2>2 DEF Time
  <2>3. CASE ~(f[q] > 0)
    <3>1. time > e /\ Time(q, f2, nodes2, time2) = time2
      BY <1>1, <2>1, <2>3 DEF Time
    <3>. QED  BY <3>1
  <2>. QED  BY <2>2, <2>3
<1>2. CASE f2[q] > 0 /\ nodes2[f2[q]].mtime = time
  BY <1>2 DEF Time
<1>3. CASE f2[q] = Dir
  BY <1>3 DEF Time, Dir
<1>. QED  BY <1>1, <1>2, <1>3 DEF Moved

\* Copies stay current.
LEMMA CurrentKept ==
  ASSUME NEW c \in Copies, NEW f, NEW nodes, NEW time \in Nat, NEW f2, NEW nodes2, NEW time2 \in Nat,
         Timed(f, nodes), Timed(f2, nodes2), Moved(f, nodes, time, f2, nodes2), time <= time2,
         c.at <= time, Current(c, f, nodes, time)
  PROVE  Current(c, f2, nodes2, time2)
<1>. SUFFICES ASSUME c.etag[1] < c.at
              PROVE  /\ f2[c.path] > 0 /\ nodes2[f2[c.path]].mtime <= c.etag[1] => nodes2[f2[c.path]].data = c.data
                     /\ \A q \in Paths \ {<<>>} : Front(q) = c.path /\ f2[q] # None => Time(q, f2, nodes2, time2) > c.etag[1]
  BY DEF Current
<1>1. c.path \in Paths /\ c.etag[1] \in Nat /\ c.etag[1] < time
  <2>1. c.path \in Paths /\ c.etag[1] \in Nat /\ c.at \in Nat
    BY DEF Copies, Etags
  <2>. QED  BY <2>1
<1>2. ASSUME f2[c.path] > 0, nodes2[f2[c.path]].mtime <= c.etag[1]
      PROVE  nodes2[f2[c.path]].data = c.data
  <2>1. nodes2[f2[c.path]].mtime \in Nat
    BY <1>1, <1>2 DEF Timed
  <2>2. f2[c.path] = f[c.path] /\ (f[c.path] > 0 => nodes2[f[c.path]] = nodes[f[c.path]])
    <3>1. nodes2[f2[c.path]].mtime # time
      BY <1>1, <1>2, <2>1
    <3>2. f2[c.path] # None /\ f2[c.path] # Dir
      BY <1>2 DEF None, Dir
    <3>. QED  BY <1>1, <3>1, <3>2 DEF Moved
  <2>. QED  BY <1>2, <2>2 DEF Current
<1>3. \A q \in Paths \ {<<>>} : Front(q) = c.path /\ f2[q] # None => Time(q, f2, nodes2, time2) > c.etag[1]
  <2>. DEFINE e == c.etag[1]
              path == c.path
  <2>1. \A q \in Paths \ {<<>>} : Front(q) = path /\ f[q] # None => Time(q, f, nodes, time) > e
    BY DEF Current
  <2>2. e \in Nat /\ path \in Paths /\ e < time
    BY <1>1
  <2>. HIDE DEF e, path
  <2>3. \A q \in Paths \ {<<>>} : Front(q) = path /\ f2[q] # None => Time(q, f2, nodes2, time2) > e
    BY <2>1, <2>2, BelowKept
  <2>. QED  BY <2>3 DEF e, path
<1>. QED  BY <1>2, <1>3

\* What others hold is kept, touched when it is written.
LEMMA KeepsKept ==
  ASSUME NEW j \in Jobs, NEW k, NEW f, NEW nodes, NEW time \in Nat, NEW f2, NEW nodes2, NEW time2 \in Nat,
         Timed(f, nodes), Timed(f2, nodes2), Moved(f, nodes, time, f2, nodes2), time <= time2,
         j.at <= time, Opened(j), Keeps(j, f, nodes, time),
         k.req = j.req, k.path = j.path, k.stat = j.stat, k.at = j.at,
         k.touched => j.touched \/ \E n \in {j.stat.node, j.node} : n > 0 /\ nodes2[n].mtime = time
  PROVE  Keeps(k, f2, nodes2, time2)
<1>. SUFFICES ASSUME j.req.method # "PUT", j.path = j.req.path, j.stat.node > 0, j.stat.mtime < j.at
              PROVE  /\ f2[j.path] > 0 /\ nodes2[f2[j.path]].mtime <= j.stat.mtime => f2[j.path] = j.stat.node /\ ~k.touched
                     /\ \A q \in Paths \ {<<>>} : Front(q) = j.path /\ f2[q] # None => Time(q, f2, nodes2, time2) > j.stat.mtime
  BY DEF Keeps
<1>1. j.path \in Paths /\ j.stat.mtime \in Nat /\ j.stat.node \in Int /\ j.stat.mtime < time
  <2>1. j.path \in Paths /\ j.stat.mtime \in Nat /\ j.stat.node \in Int /\ j.at \in Nat
    BY DEF Jobs, Stats
  <2>. QED  BY <2>1
<1>2. /\ f[j.path] > 0 /\ nodes[f[j.path]].mtime <= j.stat.mtime => f[j.path] = j.stat.node /\ ~j.touched
      /\ \A q \in Paths \ {<<>>} : Front(q) = j.path /\ f[q] # None => Time(q, f, nodes, time) > j.stat.mtime
  BY DEF Keeps
<1>3. ASSUME f2[j.path] > 0, nodes2[f2[j.path]].mtime <= j.stat.mtime
      PROVE  f2[j.path] = j.stat.node /\ ~k.touched
  <2>1. nodes2[f2[j.path]].mtime \in Nat
    BY <1>1, <1>3 DEF Timed
  <2>2. nodes2[f2[j.path]].mtime # time
    BY <1>1, <1>3, <2>1
  <2>3. f2[j.path] = f[j.path] /\ (f[j.path] > 0 => nodes2[f[j.path]] = nodes[f[j.path]])
    <3>1. f2[j.path] # None /\ f2[j.path] # Dir
      BY <1>3 DEF None, Dir
    <3>. QED  BY <1>1, <2>2, <3>1 DEF Moved
  <2>4. f[j.path] = j.stat.node /\ ~j.touched
    BY <1>2, <1>3, <2>3
  <2>5. j.node > 0 => j.node = j.stat.node
    BY <2>4 DEF Opened, None
  <2>6. ~\E n \in {j.stat.node, j.node} : n > 0 /\ nodes2[n].mtime = time
    BY <2>2, <2>3, <2>4, <2>5
  <2>. QED  BY <2>3, <2>4, <2>6
<1>4. \A q \in Paths \ {<<>>} : Front(q) = j.path /\ f2[q] # None => Time(q, f2, nodes2, time2) > j.stat.mtime
  <2>. DEFINE e == j.stat.mtime
              path == j.path
  <2>1. \A q \in Paths \ {<<>>} : Front(q) = path /\ f[q] # None => Time(q, f, nodes, time) > e
    BY <1>2
  <2>2. e \in Nat /\ path \in Paths /\ e < time
    BY <1>1
  <2>. HIDE DEF e, path
  <2>3. \A q \in Paths \ {<<>>} : Front(q) = path /\ f2[q] # None => Time(q, f2, nodes2, time2) > e
    BY <2>1, <2>2, BelowKept
  <2>. QED  BY <2>3 DEF e, path
<1>. QED  BY <1>3, <1>4

\* The steps of a worker change the tree that way.
LEMMA IsTimed == IInv => Timed(fs, store)
<1>. SUFFICES ASSUME IInv, NEW q \in Paths PROVE fs[q] \in Int /\ (fs[q] > 0 => store[fs[q]].mtime \in Nat)
  BY DEF Timed
<1>1. fs[q] \in Int /\ store \in Seq(Content) /\ Valid(fs[q], store)
  BY DEF IInv, Types, Tree
<1>2. fs[q] > 0 => fs[q] \in DOMAIN store
  BY <1>1 DEF Valid, None, Dir
<1>3. fs[q] > 0 => store[fs[q]] \in Content
  BY <1>1, <1>2, ElementOfSeq
<1>. QED  BY <1>1, <1>3 DEF Content

\* A step moves the tree like that.
LEMMA MovedStep ==
  ASSUME IInv, NEW w \in Workers, Take(w) \/ Step(w) \/ SendFails(w)
  PROVE  Moved(fs, store, now, fs', store') /\ now' = now
<1>1. now \in Nat /\ fs \in [Paths -> Int] /\ store \in Seq(Content) /\ Tree(fs, store)
      /\ \A m \in DOMAIN store : store[m].mtime <= now
  BY DEF IInv, Types, Dated
<1>3. CASE UNCHANGED <<now, fs, store>>
  BY <1>1, <1>3 DEF Moved
<1>4. CASE Delete(w)
  <2>1. UNCHANGED <<now, store>> /\ (fs' = fs \/ fs' = [fs EXCEPT ![job[w].path] = None])
    BY <1>4 DEF Delete
  <2>2. \A q \in Paths : fs'[q] = fs[q] \/ fs'[q] = None
    BY <1>1, <2>1
  <2>. QED  BY <1>1, <2>1, <2>2 DEF Moved
<1>5. CASE MakeDir(w)
  <2>. DEFINE d == Head(job[w].dirs)
  <2>1. UNCHANGED <<now, store>> /\ (fs' = fs \/ fs' = [fs EXCEPT ![d] = Dir])
    BY <1>5 DEF MakeDir
  <2>. HIDE DEF d
  <2>2. \A q \in Paths : fs'[q] = fs[q] \/ fs'[q] = Dir
    BY <1>1, <2>1
  <2>. QED  BY <1>1, <2>1, <2>2 DEF Moved
<1>6. CASE OpenPut(w)
  <2>. DEFINE p == job[w].path
              n == IF fs[p] = None THEN Len(store) + 1 ELSE fs[p]
  <2>1. CASE UNCHANGED <<now, fs, store>>
    BY <1>3, <2>1
  <2>2. CASE ~UNCHANGED <<now, fs, store>>
    <3>1. now' = now /\ fs' = [fs EXCEPT ![p] = n] /\ n \in 1..(Len(store) + 1) /\ store' = Emptied(store, n, now)
      BY <1>6, <2>2, OpenPutIs
    <3>. HIDE DEF n, p
    <3>3. /\ store'[n] = [mtime |-> now, data |-> <<>>]
          /\ \A m \in DOMAIN store : m # n => store'[m] = store[m]
      BY <1>1, <3>1, EmptyNode
    <3>4. n > 0 /\ store'[n].mtime = now
      BY <1>1, <3>1, <3>3
    <3>5. ASSUME NEW q \in Paths
          PROVE  \/ fs'[q] = fs[q] /\ (fs[q] > 0 => store'[fs[q]] = store[fs[q]])
                 \/ fs'[q] = None
                 \/ fs'[q] > 0 /\ store'[fs'[q]].mtime = now
      <4>1. fs'[q] = n \/ fs'[q] = fs[q]
        BY <1>1, <3>1
      <4>2. CASE fs'[q] = n
        BY <3>4, <4>2
      <4>3. CASE fs'[q] = fs[q] /\ fs[q] # n
        <5>1. fs[q] > 0 => fs[q] \in DOMAIN store
          BY <1>1 DEF Tree, Valid, None, Dir
        <5>. QED  BY <3>3, <4>3, <5>1
      <4>. QED  BY <4>1, <4>2, <4>3
    <3>. QED  BY <3>1, <3>5 DEF Moved
  <2>. QED  BY <2>1, <2>2
<1>7. CASE Flush(w) \/ ClosePut(w)
  <2>1. /\ fs' = fs /\ job[w].pc \in {"store", "close"}
        /\ now' = now /\ (UNCHANGED store \/ Flushed(w))
    BY <1>7, CalmSteps4 DEF Flush, ClosePut
  <2>2. CASE UNCHANGED store
    BY <1>3, <2>1, <2>2
  <2>3. CASE Flushed(w)
    <3>. DEFINE n == job[w].node
    <3>1. /\ \A m \in DOMAIN store : m # n => store'[m] = store[m]
          /\ store'[n].mtime = now /\ n > 0
      BY <2>1, <2>3, FlushedFacts, PutFacts
    <3>. HIDE DEF n
    <3>3. ASSUME NEW q \in Paths
          PROVE  \/ fs'[q] = fs[q] /\ (fs[q] > 0 => store'[fs[q]] = store[fs[q]])
                 \/ fs'[q] > 0 /\ store'[fs'[q]].mtime = now
      <4>1. CASE fs[q] = n
        BY <2>1, <3>1, <4>1
      <4>2. CASE fs[q] # n
        <5>1. fs[q] > 0 => fs[q] \in DOMAIN store
          BY <1>1 DEF Tree, Valid, None, Dir
        <5>. QED  BY <2>1, <3>1, <4>2, <5>1
      <4>. QED  BY <4>1, <4>2
    <3>. QED  BY <2>1, <3>3 DEF Moved
  <2>. QED  BY <2>1, <2>2, <2>3
<1>. QED
  <2>1. /\ Take(w) \/ SendFails(w) => UNCHANGED <<now, fs, store>>
        /\ Decide(w) \/ AnswerOnly(w) \/ PropFind(w) \/ Index(w) \/ DecideFile(w) \/ List(w) \/ Script(w) => UNCHANGED <<now, fs, store>>
        /\ OpenFile(w) \/ SendData(w) \/ SendEnds(w) \/ Put(w) \/ TestDir(w) \/ DirPut(w) => UNCHANGED <<now, fs, store>>
        /\ Store(w) \/ PutFails(w) \/ PutAnswer(w) \/ Finish(w) => UNCHANGED <<now, fs, store>>
    BY DEF Take, SendFails, Decide, AnswerOnly, PropFind, Index, DecideFile, List, Script, Answer, OpenFile,
           SendData, SendEnds, Put, TestDir, DirPut, Store, PutFails, PutAnswer, Finish
  <2>. QED  BY <1>3, <1>4, <1>5, <1>6, <1>7, <2>1, SMTT(40) DEF Step

\* What a step does to the tree, with the times before and after.
LEMMA MovedNext ==
  ASSUME IInv, NEW w \in Workers, Take(w) \/ Step(w) \/ SendFails(w)
  PROVE  /\ now \in Nat /\ now' = now /\ Timed(fs, store) /\ Timed(fs', store')
         /\ Moved(fs, store, now, fs', store')
<1>1. IInv'
  BY NextKeeps DEF Next
<1>2. (IInv => Timed(fs, store))'
  BY IsTimed, PTL
<1>3. Timed(fs, store) /\ Timed(fs', store')
  BY <1>1, <1>2, IsTimed DEF Timed
<1>4. now \in Nat
  BY DEF IInv, Types
<1>. QED  BY <1>3, <1>4, MovedStep

\* What a worker has looked up stays, in a step of his own.
LEMMA KeepsOwn ==
  ASSUME IInv, CopyInv, NEW w \in Workers, Take(w) \/ Step(w) \/ SendFails(w), job'[w].pc # "idle"
  PROVE  Keeps(job'[w], fs', store', now')
<1>. DEFINE j == job[w]
            k == job'[w]
<1>1. ASSUME j.pc # "idle", k.req = j.req, k.path = j.path, k.stat = j.stat, k.at = j.at, k.touched => j.touched
      PROVE  Keeps(k, fs', store', now')
  <2>1. j \in Jobs /\ JobInv(j, store, now, Mixes[mix].requests) /\ Keeps(j, fs, store, now)
    BY <1>1, ActiveJob DEF CopyInv, Active
  <2>2. Opened(j) /\ j.at <= now
    BY <2>1 DEF JobInv, Found
  <2>3. now \in Nat /\ now' = now /\ now <= now /\ Timed(fs, store) /\ Timed(fs', store') /\ Moved(fs, store, now, fs', store')
    BY MovedNext
  <2>. HIDE DEF j, k
  <2>. QED  BY <1>1, <2>1, <2>2, <2>3, KeepsKept
<1>2. ASSUME j.pc # "idle", Calm(j, k) PROVE Keeps(k, fs', store', now')
  BY <1>1, <1>2 DEF Calm
<1>3. CASE Take(w)
  <2>1. /\ k.path \in Paths /\ k.path = k.req.path /\ k.stat = Stat(k.path) /\ k.touched = FALSE
        /\ UNCHANGED <<now, fs, store, copies, mix>>
    BY <1>3, TakeIs
  <2>2. k.stat.node = fs[k.path]
    BY <2>1, StatFacts
  <2>3. \A q \in Paths \ {<<>>} : Front(q) = k.path /\ fs[q] # None => fs[k.path] = Dir
    BY DEF IInv, Tree
  <2>. HIDE DEF k
  <2>4. fs[k.path] > 0 => fs[k.path] # Dir
    BY DEF Dir
  <2>5. Keeps(k, fs, store, now)
    BY <2>1, <2>2, <2>3, <2>4 DEF Keeps
  <2>. QED  BY <2>1, <2>5 DEF k
<1>4. CASE Decide(w) \/ DecideFile(w)
  <2>1. j.pc \in {"decide", "file"} /\ Keeping(j, k)
    BY <1>4, DecideIs
  <2>. QED  BY <1>1, <2>1 DEF Keeping
<1>5. CASE AnswerOnly(w) \/ PropFind(w) \/ List(w) \/ Script(w) \/ Delete(w)
  BY <1>2, <1>5, CalmSteps1
<1>6. CASE Index(w)
  <2>1. j.pc = "index" /\ (Calm(j, k) \/ Indexed(j, k))
    BY <1>6, IndexIs
  <2>2. CASE Indexed(j, k)
    <3>1. j \in Jobs /\ Way(j, Mixes[mix].requests)
      BY <2>1, ActiveJob DEF JobInv
    <3>. HIDE DEF j, k
    <3>2. k.path # k.req.path
      <4>1. PICK i \in DOMAIN IndexFiles : k.path = Append(j.path, IndexFiles[i])
        BY <2>2 DEF Indexed
      <4>2. j.path \in Seq(STRING) /\ IndexFiles[i] \in STRING
        BY <3>1, TreeAssumption DEF Jobs
      <4>3. k.path # j.path
        <5>1. Len(k.path) = Len(j.path) + 1 /\ Len(j.path) \in Nat
          BY <4>1, <4>2
        <5>. QED  BY <5>1
      <4>4. j.path = j.req.path
        BY <2>1, <3>1 DEF Way, FilePcs
      <4>. QED  BY <2>2, <4>3, <4>4 DEF Indexed
    <3>3. Keeps(k, fs', store', now')
      BY <3>2 DEF Keeps
    <3>. QED  BY <3>3 DEF k
  <2>. QED  BY <1>2, <2>1, <2>2
<1>7. CASE OpenFile(w)
  <2>1. /\ j.pc = "open" /\ UNCHANGED <<now, fs, store, copies, mix>>
        /\ \/ Calm(j, k)
           \/ k.req = j.req /\ k.path = j.path /\ k.stat = j.stat /\ k.at = j.at /\ k.touched = (j.touched \/ fs[j.path] # j.stat.node)
    BY <1>7, OpenFileIs
  <2>2. CASE k.req = j.req /\ k.path = j.path /\ k.stat = j.stat /\ k.at = j.at /\ k.touched = (j.touched \/ fs[j.path] # j.stat.node)
    <3>1. Keeps(j, fs, store, now)
      BY <2>1 DEF CopyInv, Active
    <3>. HIDE DEF j, k
    <3>2. Keeps(k, fs, store, now)
      BY <2>2, <3>1 DEF Keeps
    <3>. QED  BY <2>1, <3>2 DEF k
  <2>. QED  BY <1>2, <2>1, <2>2
<1>8. CASE SendData(w) \/ SendEnds(w) \/ SendFails(w)
  BY <1>2, <1>8, CalmSteps2
<1>9. CASE Put(w) \/ TestDir(w) \/ MakeDir(w) \/ DirPut(w) \/ Store(w) \/ PutFails(w) \/ PutAnswer(w)
  <2>1. j.pc \in PutPcs /\ Calm(j, k)
    BY <1>9, CalmSteps3
  <2>2. j.pc # "idle"
    BY <2>1 DEF PutPcs
  <2>. QED  BY <1>2, <2>1, <2>2
<1>10. CASE OpenPut(w)
  <2>1. j.pc = "putdir" /\ (Calm(j, k) \/ \E n : Storing(j, n, k))
    BY <1>10, OpenPutIs
  <2>2. CASE \E n : Storing(j, n, k)
    <3>1. j.req.method = "PUT"
      BY <2>1, ActiveJob DEF JobInv, Way, PutPcs
    <3>. HIDE DEF j, k
    <3>2. Keeps(k, fs', store', now')
      BY <2>2, <3>1 DEF Storing, Keeps
    <3>. QED  BY <3>2 DEF k
  <2>. QED  BY <1>2, <2>1, <2>2
<1>11. CASE Flush(w) \/ ClosePut(w)
  BY <1>2, <1>11, CalmSteps4
<1>12. CASE Finish(w)
  <2>1. job' = [job EXCEPT ![w] = IdleJob]
    BY <1>12 DEF Finish
  <2>2. job'[w] = IdleJob
    BY <2>1, NewRecord
  <2>. QED  BY <2>2 DEF IdleJob
<1>. QED  BY <1>3, <1>4, <1>5, <1>6, <1>7, <1>8, <1>9, <1>10, <1>11, <1>12 DEF Step

\* The directory of an index file is the one it was looked for in.
LEMMA FrontOfAppend == ASSUME NEW s \in Seq(STRING), NEW e \in STRING PROVE Front(Append(s, e)) = s
BY DEF Front

\* A request that goes on stays compared with the copy.
LEMMA CalmCompared ==
  \A j, k, cs, cs2 : Compared(j, cs) /\ j.pc # "done" /\ Calm(j, k) /\ cs \subseteq cs2 => Compared(k, cs2)
BY DEF Compared, Calm, FilePcs

\* What is decided to be not modified is what the copy has.
LEMMA UnmodifiedIs ==
  ASSUME NEW w \in Workers, job[w] \in Jobs, Compared(job[w], copies), copies \subseteq Copies, IsNotModified(w),
         job[w].path = job[w].req.path => job[w].stat.node > 0, job[w].copy.etag[1] < job[w].copy.at
  PROVE  job[w].copy.data = job[w].stat.data
<1>. DEFINE j == job[w]
<1>1. j.req.cond \in {"etag", "since"}
  BY DEF IsNotModified, Jobs, Requested
<1>2. /\ j.copy \in copies
      /\ j.path = j.req.path /\ j.stat.node > 0 /\ j.stat.mtime <= j.copy.etag[1] => j.stat.data = j.copy.data
      /\ j.path # j.req.path => j.stat.mtime > j.copy.etag[1]
  BY <1>1 DEF Compared
<1>3. j.copy.etag \in Nat \X Nat /\ j.stat.mtime \in Nat
  <2>1. j.copy \in Copies
    BY <1>2
  <2>. QED  BY <2>1 DEF Copies, Etags, Jobs, Stats
<1>4. j.stat.mtime <= j.copy.etag[1]
  <2>1. CASE j.req.cond = "etag"
    <3>1. Etag(j.stat) = j.copy.etag
      BY <2>1 DEF IsNotModified
    <3>2. j.copy.etag[1] = j.stat.mtime
      BY <3>1 DEF Etag
    <3>. QED  BY <1>3, <3>2
  <2>2. CASE j.req.cond = "since"
    BY <2>2 DEF IsNotModified
  <2>. QED  BY <1>1, <2>1, <2>2
<1>5. j.copy.etag[1] \in Nat
  BY <1>3
<1>6. j.path = j.req.path
  BY <1>2, <1>3, <1>4, <1>5
<1>. QED  BY <1>2, <1>4, <1>6

\* The answer of a worker is compared, in a step of his own.
LEMMA ComparedOwn ==
  ASSUME IInv, CopyInv, NEW w \in Workers, Take(w) \/ Step(w) \/ SendFails(w), job'[w].pc # "idle", copies \subseteq copies'
  PROVE  Compared(job'[w], copies')
<1>. DEFINE j == job[w]
            k == job'[w]
<1>1. ASSUME j.pc # "idle"
      PROVE  /\ j \in Jobs /\ Compared(j, copies) /\ copies \subseteq Copies
             /\ Way(j, Mixes[mix].requests) /\ Found(j, store, now)
  BY <1>1, ActiveJob DEF CopyInv, Active, IInv, Types, JobInv
<1>2. ASSUME j.pc \notin {"idle", "done"}, Calm(j, k) PROVE Compared(k, copies')
  <2>1. Compared(j, copies)
    BY <1>1, <1>2
  <2>. HIDE DEF j, k
  <2>. QED  BY <1>2, <2>1, CalmCompared
<1>3. CASE Take(w)
  <2>1. /\ k.pc = "decide" /\ k.path = k.req.path /\ k.path \in Paths /\ k.stat = Stat(k.path)
        /\ k.status = -1 /\ k.node = None /\ UNCHANGED <<now, fs, store, copies, mix>>
        /\ k.req.cond # "none" => k.copy \in copies /\ k.copy.path = k.path
    BY <1>3, TakeIs
  <2>2. k.stat.node = fs[k.path] /\ (fs[k.path] > 0 => k.stat.data = store[fs[k.path]].data /\ k.stat.mtime = store[fs[k.path]].mtime)
    BY <2>1, StatFacts
  <2>3. \A c \in copies : c.etag[1] < c.at /\ c.path = k.path /\ k.stat.node > 0 /\ k.stat.mtime <= c.etag[1] => k.stat.data = c.data
    BY <2>2 DEF CopyInv, Current
  <2>. HIDE DEF k
  <2>4. k.status # 304 /\ ~(k.node > 0)
    BY <2>1 DEF None
  <2>5. Compared(k, copies)
    BY <2>1, <2>3, <2>4 DEF Compared, FilePcs
  <2>. QED  BY <2>1, <2>5 DEF k
<1>4. CASE Decide(w) \/ DecideFile(w)
  <2>1. /\ j.pc \in {"decide", "file"} /\ Keeping(j, k) /\ k.status = j.status /\ UNCHANGED copies
        /\ k.pc \notin {"decide", "idle", "file", "send", "done"}
        /\ j.pc = "decide" => k.pc = First(Cases(w))
        /\ j.pc = "file" => k.pc = First(FileCases(w))
    BY <1>4, DecideIs
  <2>2. j.node = None /\ Valid(j.stat.node, store) /\ Compared(j, copies) /\ j \in Jobs /\ copies \subseteq Copies
    BY <1>1, <2>1 DEF Found
  <2>3. k.pc \in FilePcs /\ j.path = j.req.path => j.stat.node > 0
    <3>1. CASE j.pc = "decide"
      <4>1. k.pc \in FilePcs => j.stat.node \notin {None, Dir}
        BY <2>1, <3>1, Decided
      <4>2. j.stat.node \in DOMAIN store => j.stat.node > 0
        BY DEF IInv, Types
      <4>. QED  BY <2>2, <4>1, <4>2 DEF Valid
    <3>2. CASE j.pc = "file"
      BY <2>2, <3>2 DEF Compared
    <3>. QED  BY <2>1, <3>1, <3>2
  <2>4. k.pc = "unmodified" /\ j.copy.etag[1] < j.copy.at => j.copy.data = j.stat.data
    <3>1. k.pc = "unmodified" => IsNotModified(w)
      BY <2>1, Decided, FileDecided
    <3>2. "unmodified" \in FilePcs
      BY DEF FilePcs
    <3>. QED  BY <2>2, <2>3, <3>1, <3>2, UnmodifiedIs
  <2>. HIDE DEF j, k
  <2>5. j.status # 304 /\ ~(j.node > 0)
    BY <2>1, <2>2 DEF Compared, None
  <2>6. Compared(k, copies)
    BY <2>1, <2>2, <2>3, <2>4, <2>5 DEF Compared, Keeping
  <2>. QED  BY <2>1, <2>6 DEF k
<1>5. CASE AnswerOnly(w) \/ PropFind(w) \/ List(w) \/ Script(w) \/ Delete(w)
  BY <1>2, <1>5, CalmSteps1
<1>6. CASE Index(w)
  <2>1. j.pc = "index" /\ (Calm(j, k) \/ Indexed(j, k)) /\ UNCHANGED copies
    BY <1>6, IndexIs
  <2>2. CASE Indexed(j, k)
    <3>1. /\ j \in Jobs /\ Way(j, Mixes[mix].requests) /\ Found(j, store, now) /\ Compared(j, copies)
          /\ copies \subseteq Copies
      BY <1>1, <2>1
    <3>2. /\ k.path \in Paths /\ k.stat = Stat(k.path) /\ fs[k.path] # None
          /\ k.req = j.req /\ k.copy = j.copy /\ k.node = j.node /\ k.status = j.status /\ k.pc = "file"
      BY <2>2 DEF Indexed
    <3>3. k.path \in Paths \ {<<>>} /\ Front(k.path) = j.path
      <4>1. PICK i \in DOMAIN IndexFiles : k.path = Append(j.path, IndexFiles[i])
        BY <2>2 DEF Indexed
      <4>2. j.path \in Seq(STRING) /\ IndexFiles[i] \in STRING
        BY <3>1, TreeAssumption DEF Jobs
      <4>. HIDE DEF j, k
      <4>3. k.path # <<>>
        BY <4>1, <4>2
      <4>4. Front(k.path) = j.path
        BY <4>1, <4>2, FrontOfAppend
      <4>. QED  BY <3>2, <4>3, <4>4
    <3>4. j.path = j.req.path /\ k.path # j.path
      <4>1. j.path = j.req.path
        BY <2>1, <3>1 DEF Way, FilePcs
      <4>2. PICK i \in DOMAIN IndexFiles : k.path = Append(j.path, IndexFiles[i])
        BY <2>2 DEF Indexed
      <4>3. j.path \in Seq(STRING) /\ IndexFiles[i] \in STRING
        BY <3>1, TreeAssumption DEF Jobs
      <4>. HIDE DEF j, k
      <4>4. Len(k.path) = Len(j.path) + 1 /\ Len(j.path) \in Nat
        BY <4>2, <4>3
      <4>. QED  BY <4>1, <4>4
    <3>5. k.stat.mtime = Time(k.path, fs, store, now)
      <4>1. fs[k.path] > 0 \/ fs[k.path] = Dir
        <5>1. Valid(fs[k.path], store) /\ store \in Seq(Content)
          BY <3>2 DEF IInv, Tree, Types
        <5>. QED  BY <3>2, <5>1 DEF Valid
      <4>2. ~(Dir > 0)
        BY DEF Dir
      <4>. QED  BY <3>2, <4>1, <4>2, StatFacts DEF Time
    <3>6. j.req.cond # "none" /\ j.copy.etag[1] < j.copy.at => k.stat.mtime > j.copy.etag[1]
      <4>1. ASSUME j.req.cond # "none", j.copy.etag[1] < j.copy.at PROVE Time(k.path, fs, store, now) > j.copy.etag[1]
        <5>1. j.copy \in copies /\ j.copy.path = j.req.path
          BY <3>1, <4>1 DEF Compared
        <5>2. Current(j.copy, fs, store, now)
          BY <5>1 DEF CopyInv
        <5>. QED  BY <3>2, <3>3, <3>4, <4>1, <5>1, <5>2 DEF Current
      <4>. QED  BY <3>5, <4>1
    <3>7. j.node = None /\ ~(j.node > 0)
      BY <2>1, <3>1 DEF Found, None
    <3>. HIDE DEF j, k
    <3>8. Compared(k, copies)
      BY <2>1, <3>1, <3>2, <3>4, <3>6, <3>7 DEF Compared, FilePcs
    <3>. QED  BY <2>1, <3>8 DEF k
  <2>. QED  BY <1>2, <2>1, <2>2
<1>7. CASE OpenFile(w)
  <2>1. /\ j.pc = "open" /\ UNCHANGED copies
        /\ \/ Calm(j, k)
           \/ /\ k.req = j.req /\ k.copy = j.copy /\ k.path = j.path /\ k.stat = j.stat
              /\ k.pc \in {"send", "done"} /\ k.status \in {200, 206}
    BY <1>7, OpenFileIs
  <2>2. CASE /\ k.req = j.req /\ k.copy = j.copy /\ k.path = j.path /\ k.stat = j.stat
             /\ k.pc \in {"send", "done"} /\ k.status \in {200, 206}
    <3>1. Compared(j, copies)
      BY <1>1, <2>1
    <3>. HIDE DEF j, k
    <3>2. k.status # 304
      BY <2>2
    <3>3. Compared(k, copies)
      BY <2>1, <2>2, <3>1, <3>2 DEF Compared, FilePcs
    <3>. QED  BY <2>1, <3>3 DEF k
  <2>. QED  BY <1>2, <2>1, <2>2
<1>8. CASE SendData(w) \/ SendEnds(w) \/ SendFails(w)
  BY <1>2, <1>8, CalmSteps2
<1>9. CASE Put(w) \/ TestDir(w) \/ MakeDir(w) \/ DirPut(w) \/ Store(w) \/ PutFails(w) \/ PutAnswer(w)
  <2>1. j.pc \in PutPcs /\ Calm(j, k)
    BY <1>9, CalmSteps3
  <2>2. j.pc \notin {"idle", "done"}
    BY <2>1 DEF PutPcs
  <2>. QED  BY <1>2, <2>1, <2>2
<1>10. CASE OpenPut(w)
  <2>1. j.pc = "putdir" /\ (Calm(j, k) \/ \E n : Storing(j, n, k)) /\ UNCHANGED copies
    BY <1>10, OpenPutIs
  <2>2. CASE \E n : Storing(j, n, k)
    <3>1. j.req.method = "PUT" /\ j.status \in {200, 201}
      BY <2>1, ActiveJob DEF JobInv, Way, PutPcs, Stored
    <3>2. Compared(j, copies)
      BY <1>1, <2>1
    <3>. HIDE DEF j, k
    <3>3. /\ k.pc = "store" /\ k.req = j.req /\ k.path = j.path /\ k.stat = j.stat /\ k.copy = j.copy
          /\ k.status # 304
      BY <2>2, <3>1 DEF Storing
    <3>4. Compared(k, copies)
      BY <3>1, <3>2, <3>3 DEF Compared, FilePcs
    <3>. QED  BY <2>1, <3>4 DEF k
  <2>. QED  BY <1>2, <2>1, <2>2
<1>11. CASE Flush(w) \/ ClosePut(w)
  <2>1. j.pc \in {"store", "close"} /\ Calm(j, k)
    BY <1>11, CalmSteps4
  <2>. QED  BY <1>2, <2>1
<1>12. CASE Finish(w)
  <2>1. job' = [job EXCEPT ![w] = IdleJob]
    BY <1>12 DEF Finish
  <2>2. job'[w] = IdleJob
    BY <2>1, NewRecord
  <2>. QED  BY <2>2 DEF IdleJob
<1>. QED  BY <1>3, <1>4, <1>5, <1>6, <1>7, <1>8, <1>9, <1>10, <1>11, <1>12 DEF Step

\* The copy a client makes of an answer.
Copied(j) == [path |-> j.path, etag |-> Etag(j.stat), data |-> j.sent, at |-> j.at]

\* A copy that is made of a complete answer is current.
LEMMA FreshCopy ==
  ASSUME IInv, CopyInv, NEW w \in Workers, job[w].pc = "done", job[w].req.method = "GET", job[w].status = 200,
         job[w].node > 0, Len(job[w].sent) = job[w].length, job[w].path = job[w].req.path
  PROVE  Current(Copied(job[w]), fs, store, now)
<1>. DEFINE j == job[w]
            c == Copied(j)
<1>1. /\ j \in Jobs /\ Opened(j) /\ Sending(j) /\ Untouched(j, store)
      /\ Keeps(j, fs, store, now) /\ Compared(j, copies)
  BY ActiveJob DEF JobInv, CopyInv, Active
<1>2. j.stat.node > 0
  BY <1>1 DEF Compared
<1>3. c.path = j.path /\ c.etag[1] = j.stat.mtime /\ c.at = j.at /\ c.data = j.sent
  BY DEF Etag, Copied
<1>4. /\ j.pc = "done" /\ j.req.method = "GET" /\ j.status = 200 /\ j.node > 0 /\ Len(j.sent) = j.length
      /\ j.path = j.req.path
  OBVIOUS
<1>. HIDE DEF j, c
<1>5. j.stat.mtime < j.at =>
      /\ fs[j.path] > 0 /\ store[fs[j.path]].mtime <= j.stat.mtime => fs[j.path] = j.stat.node /\ ~j.touched
      /\ \A q \in Paths \ {<<>>} : Front(q) = j.path /\ fs[q] # None => Time(q, fs, store, now) > j.stat.mtime
  BY <1>1, <1>2, <1>4 DEF Keeps
<1>6. ASSUME j.stat.mtime < j.at, fs[j.path] > 0, store[fs[j.path]].mtime <= j.stat.mtime
      PROVE  store[fs[j.path]].data = j.sent
  <2>1. fs[j.path] = j.stat.node /\ ~j.touched
    BY <1>5, <1>6
  <2>2. store[fs[j.path]].data = j.stat.data
    BY <1>1, <1>2, <1>4, <2>1 DEF Untouched
  <2>3. j.sent = j.stat.data
    <3>1. j.sent \in Seq(Nat) /\ j.stat.data \in Seq(Nat)
      BY <1>1 DEF Jobs, Stats, Bytes
    <3>2. j.req.range = <<>> /\ j.length = RangeLength(Len(j.stat.data), j.req.range)
      BY <1>1, <1>4 DEF Opened, None
    <3>3. j.length = Len(j.stat.data) /\ RangeStart(j.req.range) = 0
      BY <3>2 DEF RangeLength, RangeStart
    <3>4. \A i \in 1..Len(j.sent) : j.sent[i] = j.stat.data[0 + i]
      BY <1>1, <1>4, <2>1, <3>3 DEF Sending
    <3>5. Len(j.sent) = Len(j.stat.data)
      BY <1>4, <3>3
    <3>6. \A i \in 1..Len(j.sent) : j.sent[i] = j.stat.data[i]
      BY <3>1, <3>4
    <3>. DEFINE sent == j.sent
                data == j.stat.data
    <3>7. sent \in Seq(Nat) /\ data \in Seq(Nat) /\ Len(sent) = Len(data) /\ \A i \in 1..Len(sent) : sent[i] = data[i]
      BY <3>1, <3>5, <3>6
    <3>. HIDE DEF sent, data
    <3>8. sent = data
      BY <3>7, SeqEqual
    <3>. QED  BY <3>8 DEF sent, data
  <2>. QED  BY <2>2, <2>3
<1>7. Current(c, fs, store, now)
  BY <1>3, <1>5, <1>6 DEF Current
<1>8. Current(Copied(job[w]), fs, store, now)
  BY <1>7 DEF c, j
<1>. QED  BY <1>8

\* Copies are only added.
LEMMA CopiesStep ==
  ASSUME IInv, CopyInv, NEW w \in Workers, Take(w) \/ Step(w) \/ SendFails(w)
  PROVE  copies \subseteq copies' /\ \A c \in copies' \ copies : Current(c, fs', store', now')
<1>1. CASE UNCHANGED copies
  BY <1>1
<1>2. CASE Finish(w)
  <2>. DEFINE c == Copied(job[w])
              complete == job[w].req.method = "GET" /\ job[w].status = 200 /\ job[w].node > 0
                            /\ Len(job[w].sent) = job[w].length /\ job[w].path = job[w].req.path
  <2>1. job[w].pc = "done" /\ UNCHANGED <<now, fs, store>> /\ copies' = IF complete THEN copies \cup {c} ELSE copies
    BY <1>2 DEF Finish, Copied
  <2>2. complete => Current(c, fs, store, now)
    <3>1. SUFFICES ASSUME complete PROVE Current(c, fs, store, now)
      OBVIOUS
    <3>2. job[w].req.method = "GET" /\ job[w].status = 200 /\ job[w].node > 0
          /\ Len(job[w].sent) = job[w].length /\ job[w].path = job[w].req.path
      BY <3>1
    <3>. HIDE DEF complete
    <3>. QED  BY <2>1, <3>2, FreshCopy
  <2>. HIDE DEF c, complete
  <2>. QED  BY <2>1, <2>2
<1>. QED
  <2>1. /\ Take(w) \/ SendFails(w) => UNCHANGED copies
        /\ Decide(w) \/ AnswerOnly(w) \/ Delete(w) \/ PropFind(w) \/ Index(w) \/ DecideFile(w) \/ List(w) \/ Script(w) => UNCHANGED copies
        /\ OpenFile(w) \/ SendData(w) \/ SendEnds(w) \/ Put(w) \/ TestDir(w) \/ MakeDir(w) \/ DirPut(w) => UNCHANGED copies
        /\ OpenPut(w) \/ Store(w) \/ Flush(w) \/ PutFails(w) \/ PutAnswer(w) \/ ClosePut(w) => UNCHANGED copies
    BY DEF Take, SendFails, Decide, AnswerOnly, Delete, PropFind, Index, DecideFile, List, Script, Answer, OpenFile,
           SendData, SendEnds, Put, TestDir, MakeDir, DirPut, OpenPut, Store, Flush, PutFails, PutAnswer, ClosePut
  <2>. QED  BY <1>1, <1>2, <2>1, SMTT(40) DEF Step

\* What the others have looked up, and compared, stays.
LEMMA CopyOthers ==
  ASSUME IInv, CopyInv, NEW w \in Workers, Take(w) \/ Step(w) \/ SendFails(w),
         copies \subseteq copies', NEW v \in Workers, v # w, job'[v].pc # "idle"
  PROVE  Keeps(job'[v], fs', store', now') /\ Compared(job'[v], copies')
<1>. DEFINE j == job[v]
            k == job'[v]
<1>1. \/ k = j
      \/ /\ j.pc # "idle" /\ k = [j EXCEPT !.touched = TRUE]
         /\ \E n \in {j.stat.node, j.node} : Rewritten(n)
  BY OthersStep
<1>2. j.pc # "idle"
  BY <1>1
<1>3. j \in Jobs /\ JobInv(j, store, now, Mixes[mix].requests) /\ Keeps(j, fs, store, now) /\ Compared(j, copies)
  BY <1>2, ActiveJob DEF CopyInv, Active
<1>. HIDE DEF j, k
<1>4. k = j \/ Touching(j, k)
  BY <1>1, <1>3, TouchedJob
<1>5. k.touched => j.touched \/ \E n \in {j.stat.node, j.node} : n > 0 /\ store'[n].mtime = now
  <2>1. CASE k = j
    BY <2>1
  <2>2. CASE k # j
    BY <1>1, <2>2 DEF Rewritten
  <2>. QED  BY <2>1, <2>2
<1>6. k.req = j.req /\ k.path = j.path /\ k.stat = j.stat /\ k.at = j.at
  BY <1>4 DEF Touching
<1>7. Opened(j) /\ j.at <= now
  BY <1>3 DEF JobInv, Found
<1>8. Keeps(k, fs', store', now')
  <2>1. now \in Nat /\ now' = now /\ now <= now /\ Timed(fs, store) /\ Timed(fs', store') /\ Moved(fs, store, now, fs', store')
    BY MovedNext
  <2>. QED  BY <1>3, <1>5, <1>6, <1>7, <2>1, KeepsKept
<1>9. Compared(k, copies')
  BY <1>3, <1>4 DEF Compared, Touching
<1>. QED  BY <1>8, <1>9 DEF k

\* Every step keeps copies, and what is compared with them.
LEMMA CopiesKept == IInv /\ CopyInv /\ [Next]_vars => CopyInv'
<1>. SUFFICES ASSUME IInv, CopyInv, [Next]_vars PROVE CopyInv'
  OBVIOUS
<1>1. CASE UNCHANGED vars
  BY <1>1 DEF vars, CopyInv, Active
<1>2. CASE \E w \in Workers : Take(w) \/ Step(w) \/ SendFails(w)
  <2>1. PICK w \in Workers : Take(w) \/ Step(w) \/ SendFails(w)
    BY <1>2
  <2>2. copies \subseteq copies' /\ \A c \in copies' \ copies : Current(c, fs', store', now')
    BY <2>1, CopiesStep
  <2>3. ASSUME NEW c \in copies
        PROVE  Current(c, fs', store', now')
    <3>1. c \in Copies /\ c.at <= now /\ Current(c, fs, store, now)
      BY DEF IInv, Types, Dated, CopyInv
    <3>2. now \in Nat /\ now' = now /\ now <= now /\ Timed(fs, store) /\ Timed(fs', store') /\ Moved(fs, store, now, fs', store')
      BY <2>1, MovedNext
    <3>. QED  BY <3>1, <3>2, CurrentKept
  <2>4. ASSUME NEW v \in Workers, job'[v].pc # "idle"
        PROVE  Keeps(job'[v], fs', store', now') /\ Compared(job'[v], copies')
    <3>1. CASE v = w
      BY <2>1, <2>2, <2>4, <3>1, KeepsOwn, ComparedOwn
    <3>2. CASE v # w
      BY <2>1, <2>2, <2>4, <3>2, CopyOthers
    <3>. QED  BY <3>1, <3>2
  <2>. QED  BY <2>2, <2>3, <2>4 DEF CopyInv, Active
<1>3. CASE Tick
  <2>1. now \in Nat /\ now' = now + 1 /\ UNCHANGED <<fs, store, job, copies>> /\ Timed(fs, store)
    BY <1>3, IsTimed DEF IInv, Types, Tick
  <2>2. Moved(fs, store, now, fs, store) /\ now + 1 \in Nat /\ now <= now + 1
    BY <2>1 DEF Moved
  <2>3. ASSUME NEW c \in copies
        PROVE  Current(c, fs, store, now + 1)
    <3>1. c \in Copies /\ c.at <= now /\ Current(c, fs, store, now)
      BY DEF IInv, Types, Dated, CopyInv
    <3>. QED  BY <2>1, <2>2, <3>1, CurrentKept
  <2>4. ASSUME NEW v \in Workers, job[v].pc # "idle"
        PROVE  Keeps(job[v], fs, store, now + 1) /\ Compared(job[v], copies)
    <3>1. job[v] \in Jobs /\ Opened(job[v]) /\ job[v].at <= now
      BY <2>4, ActiveJob DEF JobInv, Found
    <3>2. Keeps(job[v], fs, store, now) /\ Compared(job[v], copies)
      BY <2>4 DEF CopyInv, Active
    <3>. QED  BY <2>1, <2>2, <3>1, <3>2, KeepsKept
  <2>. QED  BY <2>1, <2>3, <2>4 DEF CopyInv, Active
<1>. QED  BY <1>1, <1>2, <1>3 DEF Next

-----------------------------------------------------------------------------
(* What holds of the files that are served, in every behaviour. *)

\* A request has one answer; a file that nobody else changes is sent and stored as it
\* is, whole or the range asked for, by handle_file_request and put_file;
THEOREM FilesSound == Spec => []FilesInv
BY InitHolds, NextKeeps, Follows, PTL DEF Spec

\* and nothing changes but for a PUT or DELETE request that is_authorized_for_put let pass.
THEOREM OnlyAuthorizedChanges == Spec => ChangesAuthorized
BY InitHolds, NextKeeps, OnlyTheseChange, PTL DEF Spec, ChangesAuthorized

\* Nothing hidden is sent or listed, if the index files are not hidden ones: the code
\* asks must_hide_file for the path of the request, and not for an index file.
THEOREM HiddenIsHidden == ASSUME NoSecretIndex PROVE Spec => []HiddenStays
<1>1. Init => AllSeen
  BY DEF Init, AllSeen, Active, IdleJob
<1>2. AllSeen => HiddenStays
  BY DEF AllSeen, HiddenStays, Seen, Secret
<1>. QED  BY <1>1, <1>2, InitHolds, NextKeeps, SeenKept, PTL DEF Spec

\* A client that is told "not modified" has what was in the file, if what he has was
\* looked up in a later second than that of its last change: is_not_modified compares
\* times in seconds and sizes.
THEOREM UnmodifiedIsTrue == Spec => []NotModifiedIsTrue
<1>1. Init => CopyInv
  BY DEF Init, CopyInv, Active, IdleJob
<1>2. CopyInv => NotModifiedIsTrue
  BY DEF CopyInv, NotModifiedIsTrue, Compared, Active, Done
<1>. QED  BY <1>1, <1>2, InitHolds, NextKeeps, CopiesKept, PTL DEF Spec
=============================================================================
