# MulleScion in TLA+

MulleScion is a template engine: a parser turns a template file into a chain of
objects, the chain is rewritten (blocks, macros), and a printer walks it against a
data source and writes text. A filter can hand text to the markdown converter
Hoedown, and the tool can serve templates over HTTP with Mongoose; both are vendored
C code in `src/`. The modules here model the parts in which several handlers share
state, where threads, processes and files interleave, and where text is taken apart
in ways a unit test sees one example of. Paths are relative to the repository root;
`Printing.m` is `src/MulleScionObjectModel+Printing.m`, `mongoose.c` and `document.c`
are those under `src/mongoose` and `src/hoedown`.

The engine itself runs in one thread. What is hard there is *order*: filters, files,
loops and blocks are opened and closed by separate objects of the chain, the parser
checks no nesting at all, and each handler keeps its bookkeeping in shared `locals`.
The web server has a thread that calls `mg_start` and `mg_stop`, a master thread that
accepts, and `num_threads` worker threads; CGI scripts are processes of their own. The
tool starts one worker (`main.m` 472-478) and leaves keep-alive off; the modules take
the number of workers and the option as parameters.

## 1. Inventory

| Component | State | Operations | Interaction | What is hard, what makes it correct |
|---|---|---|---|---|
| Output filters (`Printing.m` 269-359, 2202-2335, `Hoedown+MulleScionPrinting.m`) | `__FILTER__`, `__FILTER_MODE__`, `__FILTER_STACK__`, `__FILTER_MODE_STACK__` in `locals`; the buffer of a buffering filter | `filter`, `endfilter`, `filter()`, every text or expression that renders | every rendering object calls `MulleScionFilteredString`; filters are independent of the command nesting | four entries that must stay in step; exceptions in between; flush while popping. Correct: a stack of filters with their own options, no text lost |
| Printer control flow (`Printing.m` 528-591, 1201-1777) | the C stack, `locals` (`__FILE__`, its stack, loop variables and `x#` infos) | `renderInto:` of every class | calls the searches of the object model; recursion through templates and commands | each handler decides where the next one goes on; included templates in the chain. Correct: the control moves as the nesting says, scopes are restored |
| Object model (`MulleScionObjectModel.m`) | the `next_` chain | `terminateToEnd:`, `terminateToElse:`, copying | used by printer and block expansion | counting by exact class; broken nesting. Correct: the first matching end or own else |
| Block expansion (`BlockExpansion.m`) | the chain, a stack of identifiers | `expandBlocksUsingTable:` | run by the parser after a parse with the block table of extending files | relinking of three chains while walking one of them; recursive tables. Correct: ends, keeps nesting, every override applied |
| Parser, commands (`MulleScionParser+Parsing.m`, `MulleScionParser.m`) | parser record (position, `inMacro`, `skipComments`, `wasMacroCall`), tables of definitions, macros, blocks, dependencies | `includes`, `extends`, `block`, `macro`, `define`, error recovery | recursive: a file includes a file with the same tables | two modes (before and after `extends`), flags left behind by an exception, self-inclusion |
| Parser, expressions | the expression tree | binary operators, `hierarchicalExchange:` | | rotation of pipes and dots gives the right binding |
| Macro expansion (`MacroExpansion.m`) | copy of a macro body | substitution, binding of arguments | called by the parser | several parameters in one object |
| Expression evaluation (`Printing.m` 596-1180, 1785-2195) | `__SELF_REPLACEMENT__` in `locals` | pipes, dots, and/or, indexing, assignment | data source callbacks | the entry is set and removed around a call that can do the same |
| Cache and archive (`MulleScion.m`, `CompressedArchive.m`) | cache files, the enabled flag | load, write, switch off | file system | staleness, name collisions, failed writes, lengths |
| Web server, threads (`mongoose.c` 4998-5344) | the ring of accepted sockets, `stop_flag`, `num_threads`, one mutex, three condition variables | `mg_start`, `master_thread`, `produce_socket`, `consume_socket`, `worker_thread`, `mg_stop` | threads | a flag and a counter outside of the mutex, signals and who sleeps. Correct: a bounded queue, every socket served once, stop comes back |
| Web server, connections (`mongoose.c` 2875-3060, 4850-4996) | the buffer of a connection and the fields of `struct mg_connection` that outlive a request | `process_new_connection`, `getreq`, `read_request`, `pull`, `forward_body_data` | client, handlers | pipelined requests, bodies nobody reads, what is left of a request. Correct: requests are handled in order, each from its first byte |
| Web server, files (`mongoose.c` 2560-2990, 3330-3420, 4330-4450) | the file system, the open file and the `struct file` of each worker | GET, HEAD, PUT, DELETE, PROPFIND, directory listing, index files, conditions, ranges | workers and others change the same files | what `stat` said before `fopen`. Correct: one answer, what is sent is the file, no change without permission |
| Web server, CGI (`mongoose.c` 1420-1460, 3130-3320) | pipes, descriptors of server and children | `handle_cgi_request`, `spawn_process` | fork inherits what other workers have open | descriptors closed once and all, end of file. Correct: comes to an end, all is sent |
| Web server, text (`mongoose.c` 750-960, 1600-1910) | none | patterns, decoding, double dots, heads, quoted words, variables, cookies, dates | called on what clients send | each against what it is for |
| Hoedown (`src/hoedown`) | buffers in use, list flags | inline spans, blocks, autolinks | called by the filter of that name | a parser that gives up has parsed and written already; blocks cut out of the text in place. Correct: every letter is written once, blocks end where their container does |
| NSCoding, data source protocol, KVC, HTML escape, descriptions, tracing, Graphviz, command line | | | | no logic of their own that a model would show; see `PROJECT.json` "components" for each |

The hazards, each at its line, are in `PROJECT.json` "hazards".

## 2. Modules

| Module | Models |
|---|---|
| `ScionFilter` | the filters, one action per way through a handler |
| `ScionFilterStack` | abstract: one stack of open filters, each with options and held text |
| `ScionFilterProofs` | proofs about `ScionFilter`, among them that it implements `ScionFilterStack` |
| `ScionChain` | chains of nodes, classes, what the two searches return, as formulas |
| `ScionScan` | the loops of the two searches, one step per object looked at |
| `ScionNesting` | properly nested templates: a stack of the commands open at each place, and what `Proper` asks of it |
| `ScionPrinter` | the interpreter: frames for the active `renderInto:` calls |
| `ScionFlow` | abstract: how control moves through a properly nested template |
| `ScionPrinterProofs` | proofs about `ScionPrinter`, among them that it implements `ScionFlow` |
| `ScionBlockExpansion` | the loop of `expandBlocksUsingTable:` |
| `ScionChainsProofs` | proofs about the two loops along a chain: `ScionScan` returns what the formulas of `ScionChain` say, and what `ScionBlockExpansion` keeps |
| `MongoosePool`, `MongooseQueue` | the threads of the web server; abstract: a bounded queue between one that accepts and those that serve |
| `MongooseConnection` | one worker and the connections it serves one after the other |
| `MongooseFiles` | workers that answer requests for files of one tree |
| `MongooseCgi` | workers that run scripts: pipes, descriptors, children |
| `MongooseText`, `MongooseDate` | the functions that take requests apart, each with a definition of what it is for; loops are recursive functions |
| `MongoosePoolProofs`, `MongooseFilesProofs`, `MongooseCgiProofs` | proofs about `MongoosePool`, `MongooseFiles`, `MongooseCgi` |
| `MongooseRequestsProofs` | proofs about requests: `MongooseConnection`, `MongooseText`, `MongooseDate` |
| `NaturalsLemmas` | induction over the naturals for a set, least and greatest elements, existence of recursive functions; used by the proofs |
| `HoedownSpan`, `HoedownBlocks`, `HoedownAutolink`, `Hoedown` | the parsers of spans, blocks and links as recursive operators; what they keep |
| `MC...` | constants, generators of inputs and refinement mappings for TLC; `MCScionChains` puts `ScionScan` and `ScionBlockExpansion` side by side |

`ScionPrinter` and `ScionScan` both extend `ScionChain`; the printer jumps by the
formulas, `ScionScan` and its proof justify that for the code's loops. `ScionNesting`
extends `ScionChain` too; the printer's properties and its proofs use it, its actions do
not.

Operators called `Faulty...` are versions of the definition that follows them with
a plausible bug. No specification uses them; they are there to see that the
properties notice the bug.

### 2.1 Filters

`filter`, `mode`, `filterStack`, `modeStack` are the four `locals` entries, `Nil` when
absent (a message to nil gives 0, adding to a nil array does nothing, setting nil
raises: all three matter). `buffers[l]` is what the filter object on level `l` holds
back. Text is a sequence of atoms that remember the piece of the template they are
and the filters they went through, so that `NothingLost` and the refinement can see
loss, duplication, a skipped filter or a wrong order. `OpenFilters` reads the stack of
`ScionFilterStack` out of the entries and the buffers: the stacked filters with the modes
from behind, the current one on top. `-[MulleScionFilter renderInto:]`
pushes before it evaluates its expression, so `RenderFilterNotAFilter` leaves the
push behind. `endfilter` has four ways: stray, to the enclosing filter, to the
enclosing filter without a mode (raises), and outermost. Any order of the handlers
is allowed because `filter` is not a block command.

Assumed: a filter that does not buffer returns a string (one that returns nil drops
the text by design), and every `filter` command makes a filter object of its own, as
`[Hoedown hoedown]` does.

### 2.2 Printer

A frame is an active call that waits for a body: the `chain` of a template, the
`then`/`else` of an if, the `body` of a loop or block, the `empty` part (elsefor) of a
for. `LoopEnds` is the loop condition of `renderBlock:` or of the template.
`TemplateReturns` returns nil, as the code does: a template in the chain renders all
that is behind it. Objects without a body (text, expressions, set, log, filter...)
are all `RenderText`. What the parser would call well-formed is `Proper` in
`ScionNesting`, for chains of any length: every end and else is its command's, files are
included between commands, loops in loops have variables of their own. The code checks
none of it. TLC gets its proper templates from a generator, and `MadeProperly` compares
those with the definition. `OpenSections` are the frames of commands; those of templates
lie below them, so that returning from one is a stutter of `ScionFlow`. The condition of an if or while and the length of a collection
are chosen nondeterministically each time; a loop variable's value is the index of
the item, and `loopInfo` says which loop's info object `x#` is.

### 2.3 Searches

`ScionScan` transcribes the two loops with their unsigned counter. `FindsFirst`
connects them to `ScionChain`.

### 2.4 Block expansion

`ScionBlockExpansion` walks chains as `ScionChain` defines them and finds the end of a
block with the `terminateToEnd` of that module, as the code does. The file of a node
is the template's or the table's, so that `Overridden` can see what is left. `owner` is
the place whose `next_` is looked at. Taking the last object off an empty array, the
assertion on a block without end, and the recursion check are the three ways to raise.
`InputsSound` says what the parser hands over: `parser_do_whole_block_to_block_table`
reads a block up to its own endblock, while templates may be nested in any way. The
variables `template` and `open` are the code's `self` and `stack`: `MCScionChains` extends
both this module and `ScionScan`, which has a `chain` and a `stack` of its own.

### 2.5 Threads of the web server

What a thread does between taking the mutex and giving it up is one action, unless it
reads `stop_flag` or `num_threads` and acts on it later: then the look and the act are
two steps. A thread asleep on a condition variable is woken by a signal or for no
reason (`WakeSpuriously`) and takes the mutex anew. `queue`, `sqHead`, `sqTail` are the
ring with its wrap (`Wrapped`). A worker may fail to be created or get no memory;
`starved` remembers the latter. The actions map to `MongooseQueue` by the sockets that
wait, are taken, and are given up.

### 2.6 Connections

A client's script of requests is one stream; only positions count. `base` is the place
of `conn->buf[0]` in the stream, `dataLen`, `requestLen`, `contentLen`, `consumed` are
the code's. Bytes arrive in parts of any size. `info`, `infoKeeps` and `remoteUser` are
fields that the next request or connection finds as the last one left them.

A declared length is whatever `strtoll` returns: any value of an int64_t, negative too.
`FirstPart` converts it to an int where the code does, `DiscardLens` is the sum of head
and body with the outcomes an overflow may have (`IntMax` and `LongMax` are constants).
`forward_body_data` has all of its ends: no length (411), an expectation that is not met
(417), a file or script that takes no more (`ForwardFails`), a client that sends no more,
a negative length, and a body read as a whole.

### 2.7 Files

A file is a node; a worker that has opened one keeps it when the path is removed. Every
call to the file system is a step, so that two workers interleave between `stat` and
`fopen`, between `fopen` and the copying, between a test for a directory and its making.
`Tick` lets a second pass anywhere between two calls, so that a file may change several
times in one; the times of files, which etags and `If-Modified-Since` compare, are seconds.
`at` is the second in which a file was looked up; no code reads it. Changes of what a
directory holds are not dated one by one: a directory always counts as changed just now.

### 2.8 CGI

`holders[w][e]` is the set of processes that have an end of a pipe open; a child gets all
that were open in the server when it was forked. Pipes have a size; the body is written
as a whole before anything is read. Scripts read their body, then write. `MayFail` names
what may fail, a write to the client among it: `cut` remembers that one did, in which case
the copying ends at once (`CopyFails`).

### 2.9 Text and markdown

Characters that the functions tell apart are themselves, one letter stands for all
others; quotes and whitespace are among them where words and cookies are taken apart, and
`mg_get_var` and `mg_get_cookie` get buffers that are too small. `MongooseText` grows a text a character at a time and evaluates the function on
it, as the code does when more has arrived. A loop is a recursive function of the place it
is at (`MatchRow`, `SkipDots`) or of the rounds it has made (`DecodeRound`,
`UnquoteRound`), so that it can be proved about. `match_prefix` calls itself on the rest of
the pattern and of the string: `MatchRow` holds its results for every rest of both, `Star`
is its loop that gives back one character at a time. `MongooseDate` turns a calendar day
by day.
The operators of `Hoedown...` keep the names and the order of the callbacks of
`document.c`, in the configuration `NSData+Hoedown.m` chooses; output is a sequence of
letters and tags. A document grows a line (or a character) at a time.

## 3. Runs

All configurations switch the deadlock check off: every one of these programs stops,
by itself or with an exception, or its clients have nothing more to ask.

| Run | Question | Bounds |
|---|---|---|
| `ScionFilter` | Do the entries of the locals belong together, is no text lost, for any order of handlers, and is it a stack of filters as documented if they nest in one place only (`~again`)? | two filters (one buffers), 3 open at once, 3 strings: a push onto an existing stack, a pop to a stacked filter, and a second nesting after the outermost end all occur |
| `ScionFilterTwice` | The options of the enclosing filter with a second nesting | **violated**, finding 1 |
| `ScionPrinter` | Does control follow the nesting, are scopes right (proper templates), does the rendering end (any template)? | all proper templates up to 6 commands behind the root, up to 2 items or turns: nested commands of one kind, else parts with commands in them, loops in loops, blocks from another file in any of them, one file included between commands; and all sequences of 13 classes up to length 4 |
| `ScionPrinterInside` | A file included inside a command | **violated**, finding 2 |
| `ScionChains` | Do the searches find the first match without wrapping their counter? Are overrides complete, is nesting kept, is only recursion refused, does it end? | chains up to 5 of command, else, end and a class without meaning, from every start; three identifiers, proper templates and any order of blocks and endblocks up to 4 nodes, all tables of blocks that are empty, hold text, or hold text and one block (so tables that contain themselves directly, in twos and in threes) |
| `MongoosePool` | A queue, each socket served once, no signal lost while it runs, stop comes back unless a wakeup was missed, the counting of threads agrees | 2 workers, 3 sockets, a ring of 2: it is full, wraps, and both workers compete; threads and memory may fail |
| `MongoosePoolStop` | `mg_stop` comes back | **violated**, finding 3 |
| `MongooseConnection` | Requests in step, answered, connection ends, lengths agree | scripts of up to two out of seven requests, a buffer of 4 bytes with heads of 2 (or 5: too long) and bodies of up to 3 (longer than the buffer), int of 4 bits and int64_t of 5; four settings: anything, lengths that are negative or overflow and an expectation, handlers that read, keep-alive off with two connections |
| `MongooseFiles` | One answer, right contents, 304 only if true, hidden files hidden, changes only with permission, always served | 2 workers; 3 requests out of 5 that read, store and remove one file in two seconds, and 2 out of 27 on a tree of 11 paths |
| `MongooseCgi` | Descriptors closed once and all, all output sent unless a write fails, ends | 2 workers that fork in any order, bodies of 0 or 2 bytes and a pipe of 1 (so that writing blocks), pipe, fork, fdopen, body and writes to the client may fail |
| `MongooseText` | Patterns, paths, heads, words, variables, cookies, dates | all texts of up to 5-7 characters out of 3-6, more than a hundred patterns; all days from 1970 until the seconds no longer fit an int |
| `Hoedown` | Letters kept, escapes respected, blocks end with their container | all paragraphs of up to 6-7 pieces in five families (emphasis and code spans, with a nesting limit of 16 and of 2; escapes with brackets; superscripts; links and images), all documents of up to 4-5 lines in four families |

Longer chains add nothing new to the control: every handler looks at one command,
its own else and end, and what encloses it; six commands hold a command in a command
with alternatives on both levels. In the printer's proper templates loops in loops have
variables of their own. A loop over the variable of an enclosing loop removes it at its
end (the code says "always nil anyway"); that is a hazard with a note, not a checked
property.

Some properties hold under a condition that names a divergence of section 5:
`FindsOptionsOnce` (`~again`), `StopEndsUnlessMissed` (`WakeupMissed`), `PoolInv`
(`starved`), `ConnectionEnds` (keep-alive off), `InStep` and `Answered` (`ReadsBodies`: no
417, no body that cannot be written or comes late, no overflow), `Transferred` (ranges
that end within the file), `NotModifiedIsTrue` (the copy was not looked up in the second
of the file's last change), `HiddenStays` (the index file is not hidden), `AllSent`
(`cut`), `DateRight` (not the first two months of a leap year), `GetsCookie` (no other
name ends in the one looked for), `LettersKept` (`Lossless`), `EscapedKept` (no bracket or
code span begun). `CgiEnds` is for scripts that read their body before they write.

### Fairness

`FairSpec` of `ScionPrinter` and the fairness of `ScionBlockExpansion` in `ScionChains`
is weak fairness of the whole next-state relation: one thread that never waits.
`RenderingEnds` bounds the turns of a while by `MaxTurns`, that is, it takes the
template's conditions to become false.

`MongoosePool`: strong fairness of the master and of each worker, as a thread that wants
a mutex which is free again and again gets it in the end; weak fairness of the starting
thread. Serving a client ends because its socket times out. No fairness of `Stop`, of
accepting, or of spurious wakeups. `MongooseConnection`: weak fairness of the server's
steps (a read returns with data, end of file, or the timeout) and of the client, who
sends what he has or closes. `MongooseFiles`: weak fairness of each worker; the calls it
makes return. `MongooseCgi`: weak fairness of each worker and of each script, and that a
script which has written all exits. No fairness is assumed of any single choice.

## 4. Proofs

| Theorem | For | Argument |
|---|---|---|
| `FilterStacksSound` | any filters, any bounds | the invariant `FilterInv`, the conjunction of types, `NestingAsserts` and `StacksAligned`, is inductive: a push makes both arrays or extends both, a pop shortens both; after the outermost end the modes are gone and `StacksAligned` says nothing |
| `OnceFindsOptions` | the same | `FindsOptionsOnce`, strengthened with: as long as filters were not nested again, where filters are stacked there are modes, as long as the rendering runs |
| `TextIsKept` | the same, with any text and any nesting | `NothingLost`: every atom fed is in exactly one place (output, a buffer, a string returned by `filter()`), below |
| `FiltersImplementStack` | the same, as long as filters nest in one place only (`again`) | `ImplementsFilterStack`: each handler is an action of `ScionFilterStack` or a stutter, below |
| `PrinterTypeCorrect` | every template, nested in any way | `PrinterTypeOK` |
| `NothingFoundStray`, `LoopsKeepScope`, `FileKeptUntilBlockEnds` | properly nested templates of any length and depth, collections and loops of any number of turns up to the bounds | `ProperNeverRaises`, `LoopsInScope`, `FileIsCurrentInBlocks` from one inductive invariant, below |
| `PrinterImplementsFlow` | the same | `ImplementsFlow`: each step is a step of `ScionFlow` or a stutter |
| `ScanFindsFirst`, `ScanStackCounts` | every chain, any length and nesting | the loop invariant `StackCounts`: counter + ends seen = 1 + openers seen, and nothing passed was a place to stop at. So "the counter is one at an end" is "this end closes as many as were opened", which is the formula of `ScionChain` |
| `StackNamesNesting`, `OverriddenIsReplaced`, `OnlyRecursionIsRefused`, `ReplacingKeepsBalance` | templates and tables of any size, any names and any nesting, if the table holds whole blocks (`InputsSound`) | `ExpansionInv` (types and `StackIsNesting`), `Overridden`, `RefusedOnlyIfRecursive`, `StaysBalanced` from one inductive invariant, below |
| `ThreadsAccounted`, `EachServedOnce` | any number of workers and sockets, a ring of any size | `PoolInv`, `ServedOnce` from one inductive invariant, below |
| `RingIsQueue` | the same | each step of the pool is a step of `MongooseQueue` or a stutter: head, tail and the wrapped array are a sequence, `produce_socket` appends to it, `consume_socket` takes its head |
| `LengthsStayInBounds`, `RequestsStayInStep` | a buffer of any size, any sequences of requests, any lengths that an int64_t holds, any settings and errors; int and int64_t of any width | `ConnectionInv`, whatever the lengths; `InStep` where bodies are read (`ReadsBodies`): there the buffer's `base` is always the first byte of a request |
| `PathsHaveNoDots` | URIs of any characters and any length | `NoDoubleDots`, below |
| `RequestsAreRead` | texts of any characters and any length | `ReadsRight`: heads in parts, quoted words, variables, cookies with and without quotes, below |
| `PatternsMatch` | any patterns as documented (`PatternsAssumption`), with any number of alternatives of any length, and any text | `MatchesRight`, below |
| `DaysCounted` | every day from 1970 to the last year before the overflow | `DateRight` from `Counted`: the days are those of the years, the leap years and the months before |
| `DescriptorsClosedOnce`, `OutputIsSent` | any number of workers, pipes of any size, anything may fail | `CgiInv`; `AllSent`, where no write to the client failed |
| `FilesSound`, `OnlyAuthorizedChanges` | any number of workers, any requests in any finite or infinite tree | `FilesInv`, `ChangesAuthorized` |
| `HiddenIsHidden` | the same, if no index file has a hidden name | `HiddenStays` |
| `UnmodifiedIsTrue` | any number of workers, any requests, any tree, any number of changes in one second | `NotModifiedIsTrue` |

The inductive invariants are stronger than what is asked of the state, each in a way that
says why the code is right:

- *Filter text.* `NothingLost` needs to know how many buffers there are: `LevelsOpen` says
  one for each open filter, that filters which do not buffer hold nothing, and that
  the last `endfilter` leaves none stacked. The walk of a text down the levels is a
  recursive function; that it exists and keeps `EachOnce` at each level is shown by
  `SetInduction` (`WalkIs`). A text that is split, held back or flushed moves atoms between
  the places (`PutBehind`), and each such move keeps that every one is in one place.
- *Filter stack.* `StackInv` is the two invariants above together: to be a stack the arrays
  must be as long as the buffers are many, and to give an enclosing filter its options
  there must be a mode for it. `WalkIsRoute` says that above the innermost filter that
  catches a text the code's loop, which reads two arrays from behind and looks at masks,
  has applied the filters the abstract `Route` applies, in that order, and that nothing
  gets past it. `Route` begins at the innermost filter and goes outwards.
- *Printer.* The searches count commands and ends of one class only; nesting is about all
  of them. `Nesting` gives each place the stack of the commands open there, and
  `AboveCounts` shows that, on a proper chain, what a search has counted is how many of its
  class the stack has above the command it began at. So `terminateToEnd:` finds the
  command's own end (`EndFound`) and `terminateToElse:` its own else or that end
  (`ElseFound`). `FrameInv` says where the control is: below, a frame for each
  template that is to return; above it one frame for each command open at the place, in
  the order of the nesting, in the section the place is in. `LoopsScoped` adds, for each
  frame of a for, that its variable is bound to the item and its info is its own, and that
  no other variable is bound; `FilesRight` adds that no more blocks are open than have
  pushed a file, and that while it is as many, `__FILE__` is the file of the place.
  None of the three checked properties is inductive without `FrameInv`: they speak of the
  top frame, and a return uncovers the one below. Every step of a proper template is then
  one of seven moves (`Moves`), and these map to `Plain`, `Enter`, `Pass`, `Again` and
  `Leave` of `ScionFlow`; `ScionFlow` counts all classes alike, and `FlowEnd` and
  `FlowElse` show that on a proper chain both ways of counting find the same place.
- *Block expansion.* Everything is said with the depth of a place, the blocks that begin
  up to it less those that end: a chain is balanced if its depth is never negative and
  comes back to zero (`BalancedDepth`), the search with its two counts finds the first
  place less deep than the block (`EndFound`), and the blocks around a place are as many
  as it is deep (`OpeningsCounted`). What is put in has depth zero at both ends, so that
  the depths in front of it and behind it stay (`SplicedDepth`). `IInv` says, of a
  balanced chain: the stack has at each depth the name of the block that is open there,
  and the blocks up to the owner which the table has are the table's. `Overridden` alone
  is not inductive, it says nothing before the end; `PutInOverrides` shows that a block
  around the one replaced still ends where it should (`SplicedEnd`).
- *Pool.* `IInv` adds where every thread and every socket is. The workers that are counted
  in `num_threads` are those not yet gone; a socket is in the ring, in the hands of one
  worker, or done with, and never in two of them. `ContentsType`, `PutAppends` and the
  lemmas about `%` show that places less than a ring apart have slots of their own,
  though `sq_head` and `sq_tail` are only reduced together.
- *Connection.* Positions in the stream are a recursive function of the requests; that it
  exists and grows (`PositionsStep`, `PositionsGrow`) is shown by `SetInduction`. What is
  inductive is that `base` is the position of the request that is next, that the bytes
  taken out of the buffer are those of one request, and that what is left over is not
  more than what came. The lengths alone need less: that the head is in the buffer and at
  least a byte long. From that a negative or overflowing length still discards between
  nothing and all of the buffer (`ConnectionInv`), though not the right bytes.
- *Text.* That a text stays one is all that is inductive; the work is in the functions. A
  recursive function is `CHOOSE`n by its equation; `RecursionExists`, `RecursionDownExists`
  and `RecursionToExists` say that the equation has a solution when each value depends on
  those before (or behind) it only, and then each loop is an invariant of its own.
  *Paths:* where the inner loop stops there is neither a slash nor two dots
  (`SkipStops`), so that what is left from any place on is clean (`RemovesAll`, from the
  end of the text to its beginning). *Heads:* what ends a head in the beginning of a
  text is still the first that does in all of it (`HeadStays`). *Variables:* each round
  writes one character and reads at least one (`RoundDoes`), so that a buffer either is
  not filled or holds the beginning of the value (`DecodesWhatFits`). *Quoted words:*
  after each round the word is what is to be kept of the text below (`Unquoted`), as a
  sequence picked out by rank (`Picks`, `Rank`). *Patterns:* `Run` says that the elements
  left can go from one place to another; `FindsAt` says that `match` holds -1 exactly
  where they can go nowhere, else a way they go, and one that takes something if there is
  one. It goes down from the end of the pattern (`FindsOn`); a star needs the largest
  number it can take to be as good as any (`StarFinds`). `Layout` and `Parts` relate the
  elements and alternatives to the string they are written as.
- *CGI.* The place of a worker tells which descriptors he has (`OpenAt`), a counter for
  each end says that what he has was not closed before, and written = taken + still in the
  pipe, on both sides. End of file means that the script has no writing end any more
  (`Delivered`), also when other workers' children inherited one.
- *Files.* `IInv` says of each worker what he has looked up and opened, as a predicate of
  his record and the nodes (`JobInv`), so that a step of another worker is judged by what
  it does to the nodes: it leaves those alone he looks at, or marks him `touched`.
  Hidden files need that whoever is about to open a file came through
  `must_hide_file` or an index file. `NotModifiedIsTrue` is not about one worker and one
  moment: a copy is made, its file changed, removed, made a directory, its index file
  taken for it. `Current`, `Keeps` and `Compared` say what survives of a copy and of what
  was looked up: what has not changed since is what was copied, and what is below a path
  that once was a file is newer than the file was. Both need that the clock had gone on
  since the file's last change when it was looked up: what changes it later is then newer.

The assumptions are those the modules state: buffering filters are filters, `Nil` is none
of the values (of the filters, and of what the printer's entries hold), chains are
sequences of nodes, blocks of the table are whole, sizes are positive, an int holds the size of the buffer and
an int64_t is whole ints wide, the tree at the
beginning is one (files and directories are in directories), requests are what
`parse_http_message` lets through, patterns are as the documentation has them (`$` at the
end, no star behind a star), dates end before their seconds overflow. TLC evaluates them in the runs. One theorem has a
hypothesis of its own (`HiddenIsHidden`), which is needed: the code does not look at the
names of index files.

Planning the proofs found two things that the bounds of the runs had hidden.
`RefusedOnlyIfRecursive` took the refused block to be the node right behind the owner,
which is false when text is in between; the tables of `ScionChains` have such bodies now.
And `MongooseFiles` gave directories no modification time; with longer histories
`NotModifiedIsTrue` was false of that, and it is a time like that of a file now.

Only model-checked are the liveness properties (`StopEnds...`, `Answered`,
`ConnectionEnds`, `Served`, `CgiEnds`, `RenderingEnds`...), which are out of the prover's
reach, and `LettersKept`, `EscapedKept` and `BlocksEnd` of `Hoedown`: its parsers of
spans and blocks call each other with operators that are declared `RECURSIVE`, as the code
does, which the prover cannot use, and what they write is compared over all small inputs.
Of all other modules every safety property, action property and refinement that a passing
run checks is also a theorem.

## 5. Findings

With a run of their own:

1. `Printing.m` 2323: the outermost `endfilter` removes the stack of modes where it
   should remove the mode (or both stacks). The second time filters are nested, the
   inner `endfilter` raises (`ScionFilterTwice`).
2. `Printing.m` 566: `includes` inside of an if, for or while raises "stray", while
   `dox/includes.scion` calls it copy and paste (`ScionPrinterInside`). Between commands
   it works (`ScionPrinter`).
3. `mongoose.c` 5186: `mg_stop` sets its flag, and the master broadcasts, without the
   mutex. A worker that has read the flag as 0 and falls asleep behind the broadcast is
   not woken again, and neither is the master that has read it in `produce_socket`
   before the last worker signals (`MongoosePoolStop`).

Met while modelling. The models show these behaviours too; the properties above are
stated so that they hold beside them:

- `Printing.m` 1753: `popFileName` is never reached for a block that is closed properly;
  `__FILE__` stays that of the overriding file (`FileIsCurrent` without the condition of
  `FileIsCurrentInBlocks`).
- `mongoose.c` 5026 and 5092: sockets that were accepted are given up without being closed
  when the server stops. 5339: `num_threads` is counted after the thread was started and
  without the mutex; a worker without memory can make it negative (assertion at 5074).
- `mongoose.c` 4984: with keep-alive, a connection from which nothing can be read is kept
  for what the last request has left behind, and read again for ever.
- `mongoose.c` 4976: `remote_user` is freed at the end of a request and only reset when the
  next one is parsed. If the next one cannot be read on a connection that is kept, the
  freed user is freed again.
- `mongoose.c` 4912: a Content-Length may be negative or huge. The assertions about the
  buffer hold all the same, but `consumed_content` can be negative or larger than what came
  (below the range of an int), and when the sum at 4989 overflows what is left in the
  buffer is not the next request.
- `mongoose.c` 2982 and 3008: an error is sent in place of the body's rest, for an
  expectation, because the file or script takes no more, or because the client is slow;
  the connection is kept, and the rest of the body read as the next request.
- `mongoose.c` 2734: when a write to the client of a script fails, the rest of the script's
  output is not read; writes in `handle_cgi_request` (3293-3299) are not looked at.
- `mongoose.c` 2967: a file that is looked up in the second of its last change and
  changes again in it, to the same size, is "not modified" to who has the first contents.
  4404: an index file with a hidden name is sent.
- `mongoose.c` 2794: a range that ends at the size of the file or behind it is announced
  one byte too long, one that ends before it begins with a length below 1. 3354: a directory that another worker makes between the test and
  `mkdir` gives a 500.
- `mongoose.c` 3212: pipes are made without close-on-exec, so that a child keeps the
  writing end of its own input and gets no end of file ("Close so child gets an EOF",
  3252); a script must read by length. 3227: when fork fails, two errors are sent. 2729:
  the output of a script is read with `fread`, which waits for a full buffer.
- `mongoose.c` 4395: the length of the URI is taken before it is decoded and shortened, a
  directory asked for with a double slash or an escape is redirected for ever. 1734: the
  name of a cookie is found at the end of another one's. 1863: in January and February of
  a leap year the date is a day late.
- `document.c` 560: `find_emph_char` is to find a character "not counting escaped chars"
  (521); behind a bracket (560, 583) or code span (544) that is begun it takes an escaped
  one, also if that does not close, as in `*[x\*`.
- `document.c` 1304: `^(xy` loses the x, the parenthesis that is not closed is taken for an
  empty one. 1291 and 1316: beyond the limit of nesting a link or a superscript is written
  without its content.
- `document.c` 611 and 614: `***x**y*` and `*x *y*` are not emphasis as the comments say. 1265: an
  address behind a link in a link becomes a link. 1276: `![]()` loses its mark. 1854: a
  fence that begins an item is taken for its end. 1872: the type of a list only counts
  behind an empty line. `autolink.c` 113: differs from its third example.

## 6. Not modelled, and the plan

Next, in this order:

1. `ScionMacro`: substitution over the body of a macro (all parameters against the
   `break` of the code) and the binding of arguments; the substitution as a function
   against a reference definition.
2. `ScionParser`: the parser's modes and flags, `includes`, `extends` with the block
   table ("the last read block wins"), markers, tables, self-inclusion and the error
   recovery of `dependencyTable`; composed with `ScionBlockExpansion` and
   `ScionPrinter`, whose chains then come from the parser.
3. `ScionExpression`: the rotation of pipes and dots against a grammar, null
   propagation, `__SELF_REPLACEMENT__` around nested calls.

The template cache and the archive are left out: that a template is not compared with its
file is documented (`mulle-scion.1` 64-67), that templates of one name share a cache file
is noted at the method itself, and the rest is a write that fails or succeeds as a whole.

Left out for good: scanning of the characters of a template, conversion and escaping of
text, calls of methods by type signature, memory management, tracing, the command line;
of Mongoose SSL, websockets, SSI, Digest authentication, the proxy, MD5 and the Windows
code; of Hoedown smartypants, footnotes, math, the table of contents and the layout of
the HTML it writes.
