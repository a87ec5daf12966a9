# JSCoverage in TLA+

JSCoverage instruments JavaScript programs so that they count how often each of
their lines runs, serves them over HTTP, and collects the counts into reports.
This directory holds TLA+ models of the parts whose correctness depends on
order, failure and concurrency, TLC configurations that check them on small
instances, and proofs, checked by TLAPS, for every instance.

## The system

| part | source | state | operations |
|---|---|---|---|
| server lifecycle | `http-server.c` | listening socket, `is_shutdown` under `shutdown_mutex`, one detached thread per connection | accept, start a handler, shut down, wake `accept()` |
| coverage store | `jscoverage-server.c` (`handle_jscoverage_request`), `resource-manager.c`, `util.c` | report directories on disk, `javascript_mutex`, the highlighter's file-scope scanner position | parse a POST body, make directories, merge, rewrite `jscoverage.json`, copy and mark `jscoverage.js` |
| HTTP messages | `http-message.c`, `http-exchange.c` | start line, headers, body position, chunk state | read and write messages |
| connection | `http-connection.c` | input and output buffer, socket | read, peek, write, flush |
| proxy | `jscoverage-server.c` | `source_cache` under `source_cache_mutex` | relay, instrument on the way, remember the source |
| merging | `instrument-js.cpp` (`jscoverage_parse_json`) | table of files and counts | add the counts of a document |
| instrumenter | `instrument-js.cpp` | parse tree, output stream | rewrite statements, count lines, conditional comments |
| directory instrumenter | `jscoverage.c`, `instrument.c`, `util.c` | destination tree | checks, copying, instrumenting |
| report page | `jscoverage.js`, `jscoverage.html`, `report.js` | tabs, `jscoverage_inLengthyOperation`, loaded counts | open a window, show, sort, store |
| local files | `jscoverage-server.c` (`handle_local_request`), `http-url.c` | none: the file system | take a URL apart, serve a file or a list, redirect |
| highlighter | `highlight.cpp` | position and class of the scan, in file-scope variables | mark the tokens of a source |
| encodings, streams, hosts | `encoding.c`, `stream.c`, `http-host.c` | none that lasts | conversions |

How they interact: the main thread of `HTTPServer_run` hands every accepted
connection to a new detached thread; the thread reads one request, calls
`handler` (local or proxy), which calls the store, the shutdown or the
instrumenter, and flushes the answer.  The threads share the JavaScript engine
(`javascript_mutex`), the source cache (`source_cache_mutex`), the shutdown flag
(`shutdown_mutex`) and, without any lock, the report directory and the
highlighter's scanner variables.  `exit()` is called from any of them through
`fatal()`.

What is hard: the file operations of two stores interleave; the process may end
between any two of them; the files outlive it; the shutdown needs a connection
to itself to leave `accept()`; the main thread does not wait for the others; the
octets of a message come in pieces that have nothing to do with its structure;
a source is remembered after the script has been sent to a client that may store
its counts at once; what the instrumenter writes between two statements meets
every `break`, `return` and exception; the report page is a set of callbacks that
a click or an answer may come between.

What makes the parts correct:

* store: nothing that was stored is lost; data that is refused leaves no trace;
  data of different shapes is never added up; the engine is used by one thread
  at a time where it takes the mutex; who has sent a request is answered, whatever
  others do.
* lifecycle: the server stops when it is told to; it does not before it has tried
  to answer who asked for it;
  nobody is left waiting for a mutex by a forgotten UNLOCK.
* connection and messages: the octets that are read and written are those of the
  stream, in order; a body is whole or an error, and nothing whole is refused.
* proxy: a client never holds a script whose source is not remembered; no entry
  of the shared list gets lost; every request comes to an end.
* merging: a report has the exact sum of what was stored, whatever the order;
  documents of different shape are refused, and no others.
* instrumenter: the instrumented script does what the script does, counts every
  statement as often as it begins, and leaves out of the statistics what the
  directives say and nothing else; an expression is written so that it is read
  again as the same expression.
* highlighter: the marked source has the lines and the characters of the source.
* local files: a link of a list leads to what it names; the source of a script
  is found under the name it was served by.
* directory instrumenter: the source tree is not written to, and a directory that
  exists is only overwritten if JSCoverage has made it.
* report page: one lengthy operation at a time; what is shown belongs together;
  the page becomes free again; the links of the missing column lead to the
  missing lines and no others.

## The modules

### CoverageStore

One process of the server, a set of `Stores` (threads with a POST to the store)
and of `Loads` (threads that serve an instrumented script).  `pc[t]` names the
next system call or critical section of thread `t`; every action is one of them
(a stat, an fopen, one flush of a stdio buffer, a LOCK), so every interleaving
of the real calls is an interleaving of actions.

* `json[d]` is `jscoverage.json` of directory `d`: a sequence of `Blocks`
  blocks, one per source file, each the set of the stores it adds up (`has`)
  with its writer (`by`).  `WriteAt` is a write at a file position: a handler
  that writes to a file another one has truncated meanwhile leaves a hole.
  `Parses` says what reading such a text can result in.
* `js[d]` is `jscoverage.js`: the copied body and the appended flag.
* `buf[r]`, `off[r]`: what handler `r` has read of the old file, and how many
  blocks of the new one it has written.
* `statics`: whose scan the variables of `highlight.cpp` follow.
* `raced` and `damaged` are history variables.  They only record that two
  handlers updated a directory at once, and that an update was cut short.
* `Exit`, `MkdirFatal`, `CopyFatal` and `EngineRace` end the process in any
  state; `Restart` starts it again over the same files.

Bounds: `MaxFaults` failing file operations and `MaxExits` exits.

### ReportStore and StoreRefinement

`ReportStore` is what a client is promised: a directory is a set of stores, a
store joins it in one step (`Commit`), is acknowledged afterwards, and nothing
leaves it, until updates collide or are cut short in that directory (`Void`).
`StoreRefinement` maps the files to it.  From the `fopen()` that empties the
json file to the `fclose()` a directory "contains" what its writer has read
before; the commit point is the `fclose()`.

### ServerLifecycle

The main thread (`main`), the queue of `listen()` (`backlog`), a thread per
client connection (`pc[c]`), the shutdown flag and its mutex.  `Wake` stands for
the connection the server makes to itself.  `server` and `globals` say whether
the main thread has already freed the `HTTPServer` structure and the JavaScript
context; `UseFreed` is what a thread that still needs them may run into.
`answered` are the clients that have their answer and `broken` those it could not be
written to: `FlushFails` is the failing `HTTPExchange_flush_response` of
`http-server.c:83-85`, which is logged only, so that the thread goes on and wakes the
main thread all the same.

### ByteStream and ConnectionBuffer

`ByteStream` is what the callers of `http-connection.c` rely on: a peer's octets
are read one after the other, looking at one does not take it, an answer is the
next octet, the end or an error; what is written arrives as a prefix, all of it
after a flush.  `ConnectionBuffer` has the two buffers, `recv()` that returns any
number of octets, and `HTTPConnection_write` as a loop of three steps
(`WriteSends`, `WriteCopies`, `WriteReturns`).  It implements `ByteStream` with
`taken` mapped to the octets received less those still in the buffer.  A blocking
`send()` that reports no error is taken to have sent everything; the code does
not look at its result either.

### MessageHead and MessageBody

`MessageHead` is the start line and the headers: how `add_header` combines what
has one name, how `find_header` finds the first of a name in whatever letters, how
a Content-Length and the last of a list of transfer codings are read, and which
headers the proxy passes on (`Relayed`, `Rewritten`: a copy without `HopByHop`,
with `Via` and `Connection`).  A line is a sequence of lexemes, white space and
folded line ends being one.  What the code does in a loop over headers or
characters is a recursive function here (`Headers`, `ContentLength`, `Copied`).

`MessageBody` reads a message whole: the head (`ReadHeaders`), then
`HTTPMessage_read_message_body` with its `chunked_body_state`, as its two callers
use it: with decoding, to the end (`HTTPMessage_read_entire_entity_body`), or
without, buffer by buffer (`copy_http_message_body`).  An octet is a member of a
set of nine that the reader tells apart.  `SizeMax` stands for `SIZE_MAX`, and
`bytes_remaining` wraps around at it.  Four kinds of messages are misread without
an error and named by `Misread`: a head that the end of the input cuts off, a body
shorter than its Content-Length, chunks beside a Content-Length that is not zero,
and a name that comes in two spellings.  The run sends sizes of chunks without
leading zeros and no empty size lines.

What a sender meant is defined apart from the reader.  `Meant(m)` says what octets
mean: chunks are found one behind the other (`Longer`, `ChunksOf`), with sizes of
any magnitude (`Announced`), up to one of size zero (`AllOf`), and a blank line ends
the trailer (`TrailerEnds`).  Two things are as the code has them: a size without
digits is zero, and the end of the input ends a line.  `MeaningAssumption` holds the
messages of `MCBody` to it.  `HeadMeant` says that the head announces the body the
way its sender marked its end; it is a part of `EntireBody`.

### ProxyCache

`handle_proxy_request`, one action per call that may fail or that another thread
can see, `add_cached_source` in three steps around its mutex, and the source
lookup of `write_json`.  `client[r]` says how much of the answer has reached the
client: all of it only after the flush, because the last octets are still in the
output buffer of the connection.  A script at its origin has versions, so that an
old source can be told from a new one.  Two things that an origin sends end the whole
process: a status without a reason phrase (`AbortUnknown`) and a script that cannot be
parsed (`ParseFatal`).

### JavaScript and Instrumenter

`JavaScript` says how a script runs, for what the instrumenter touches: a script
is a stack of statements still to be done and of frames that a completion (normal,
break, continue, return, throw) meets on its way out; an expression is an event
whose outcome the environment chooses.  It models the browser, not this program.

`Instrumenter` rewrites the tree of a script as `output_statement` and
`instrument_statement` do (`OutputIf`, `OutputLoop`, `OutputSwitch`, `OutputTry`,
`OutputLabel`, `OutputScope`, `InstrumentFunction`) and then runs both: the script
as it was goes on to its next expression, which gets an outcome; the instrumented
one has to come to the same expression and gets the same outcome.  `excess[l]` is
how often line `l` has been counted less how often its statements have begun.
Statements written after a label belong to it only up to the first, which is what
the browser's parser makes of the text.  `LeftOut` and `Missing` are what the
report page makes of the counts, with `ConditionalEnds` of `Summary`.  `LinesNoted(b)`
are the lines of a branch that its conditional covers, and `Unending` the then-branches
whose conditional ends on the line it begins on, so that its end is never met.  The text of
expressions and declarations is abstracted here; a function in an expression is a
`call`, run on the spot.

### ReportPage

`jscoverage.js` as a browser runs it: `timers` is what `setTimeout` was given,
called in the order in which a browser calls them (`Due`); `loading` and `storing`
are its requests.  `thrown` counts the clicks on the store button whose handler threw
in `open()`, while it wrote the report or in `send()` (`jscoverage.js:1068-1100`, where
nothing catches it): such a click keeps the flag up and no answer will come.  Every
handler and callback is one action, with everything it calls.  The five modes are those of the table at `jscoverage.js:55`.  `tab` is the
tab that is marked and `page` the page that is shown, two things that
`jscoverage_selectTab` changes separately for the disabled tab.

### Conversions, and what it puts together

Parts of the system that only compute, each in a module of its own; a step of
`Conversions` is one call, and its state (`Calls`) is what came of it.  Three of
the modules have a specification of their own, `StoresSpec` of `ReportSum`,
`SummarySpec` of `MissingColumn` and `RequestsSpec` of `LocalServer`, because the
theorems are about these: the trees and texts of `ExpressionText` and `Highlighter`
need RECURSIVE operators, and a theorem cannot be stated of a module that has any
below it.  Every step of `Conversions` is by its definition a step of one of the
three, or a call that leaves their reports, columns and answers alone, so that the
run of `Conversions` checks the properties of all of them.

* `ExpressionText`: `output_expression`, from a tree to tokens, with the
  parentheses it writes and those it leaves out.  `Read` is a parser of
  expressions, an external one, that makes a tree of the text again.
* `Highlighter`: `highlight.cpp` follows the places of the tokens character by
  character (`MarkGap`, `MarkToken`), and `jscoverage_write_source` makes an array
  of lines of it.  The tokenizer is external; it is told whether to expect an
  operand, as `highlight.cpp:236` does.
* `CoverageMerge`: `jscoverage_parse_json` adds a document to a table and
  `write_json` makes a document of the table; counts are of the width of `IntMax`.
  `ReportSum` has the stores to one report, `Store`, one after another.  Stores
  count here; in `CoverageStore` they come at the same time, and do not.
* `Summary`: which lines the loop over the counts of a file in
  `jscoverage_recalculateSummaryTab` looks at, and which of them conditionals leave
  out.  `MissingColumn`: which lines are missing, and the links it makes of them.
* `LocalServer`: `handle_local_request`: a URL is taken apart, decoded and looked up
  in a tree; a directory is answered with a redirect or a list of links, a script
  under the name that the store will look for later (`SourceOf`).  `Get` is one
  request, of any URL.  Text is octets,
  since the properties are about how they are written.  The client is external:
  it resolves links and redirects as RFC 3986 says (`Resolve`), so that `Request`,
  `Redirect` and `Follow` are a session.

### DirectoryInstrumenter

`jscoverage_instrument` over a file system with links: the checks of source and
destination, then one action per file operation, a file being cut from `Open` to
`Write`.  `Kill` ends the process anywhere and `Run` starts it again over what is
there.  A world is a tree with the arguments of a run; a content says what was
instrumented, so that nothing is instrumented twice unseen.

A path is a sequence of names, and `Real` says where it leads, name by name.
`WorldAssumption` says that a world is a file system: finitely many paths, each in
a directory, and a link with the path behind it already without links (`Straight`);
and that source and destination are in directories, without which
`make_canonical_path` ends the program.  `NameAssumption` is about names only.
`mkdirs` goes through the links on its way (`Blocked`, `MissingDirs`), and `fopen`
needs a directory to write in and no directory to write over (`Writable`).
In Mozilla mode `chrome/jscoverage` is made before the first resource is copied
(`MakeChrome`).

Two things of `util.c` are left out: hard links, so that two paths are the same file
(`is_same_file`, `util.c:335-380`) only if they lead to one place, and a `stat()` that
fails for another reason than that there is nothing, which ends the program.
`mkdirs` is one step, although the program may be killed between two of the
directories it makes.

`OnlyDestination` cannot promise that all changes are below the destination: a link
found in a destination of an earlier run is followed.  `Leads(p)` is the exact
exception: `p` is at or below the target of a link in the destination, or of a
link found there, and so on (`Closed`).  The program makes no links, so this is
about the tree as it was in the beginning.

`Complete` says where each file is to be (`Place`) and what it is to be (`Becomes`).
It cannot promise that either if a link in the destination leads into the source, or
leads two of the files to one place, or one to a file that is read through a link in
the source: then what is written last stays, or what is read has been written before.
`Apart` excludes this.  `Covered` is what a list of the user says,
compared as the code does, by where paths lead.

## What TLC checks

| run | instance | what it shows |
|---|---|---|
| `StoreReport` | three stores, two directories, a fault, an exit and a restart | `Durable`: nothing stored is lost in a directory without collisions; `ReportUsable`: the page of a stored report is a whole, marked copy; `KeepsPromise`: the handler implements `ReportStore` |
| `StoreDirs` | two stores of equal or different shape, a load, three directories of which one cannot be made, a fault and an exit | `NoTraceOfRefused`, `ShapesAgree`, `MutexDiscipline`; under fairness of the threads `Answered`: a handler that has read its request comes to its answer or ends with the process, also while the bodies of other requests never come |
| `Lifecycle` | two shutdown requests, an ordinary client and a silent one, queue of two, a failing call | `ShutdownMutex`, `WakeNeverServed`, `RequesterAnswered` (the answer was written, or failed to be); `Stops` and `Served` as long as no call fails |
| `ConnectionStream` | buffers of 3 octets, payloads up to more than twice that, a failing call | `KeepsStream`: implements `ByteStream`; `NothingDropped`; `WriteEnds` |
| `Body` | heads in every notation of what marks the end of a body, malformed ones, heads cut off at every lexeme; bodies of up to two chunks, cut off at every octet, followed by others; buffers of 3 octets, `SIZE_MAX` = 255 | `EntireBody`, `AcceptsWhole`, `RelaysPrefix`, `Ends` |
| `Proxy` | two requests, a store, two scripts of two versions, a failing call | `ServedIsCached`, `EntriesStay`, `Finishes` |
| `Instrumenter` | 535 scripts: every compound statement with every way to leave it, in every loop behind two labels, in functions, with directives, then-branches on one line and without braces | `SameBehaviour`, `CountsExact`, `LeftOutExactly`, `Follows` |
| `ReportPage` | the five modes, two files, five clicks | `OneAtATime`, `ViewsAgree`, `LastClickShown`; `Usable` as long as the store button's handler does not throw |
| `Conversions` | every kind of expression in every other in every place; every three lexemes; every file of six lines; three documents stored; URLs of up to three pieces, names of every kind and two links followed | `SameExpression`, `WellMarked`, `LinksExact`, `SumsExact`, `RefusedRightly`, `LinksLead`, `SourceFound` |
| `Directory` | eight sources, with two more that are links or in the destination, with everything that may be where the destination is to be, in it, above it or linked to it; two runs, the first one killed anywhere | `OnlyDestination`, `Complete`, `Repeatable` |

Type invariants are not checked by runs of their own: those of `CoverageStore`,
`ServerLifecycle`, `ConnectionBuffer`, `ReportPage`, `ProxyCache`, `MessageBody` and
`DirectoryInstrumenter` are proved, as parts of the inductive invariants below.

Two runs show that the program departs from what it says of itself (listed
under `findings` in PROJECT.json with the sentences it contradicts):

* `StoreLost`: two overlapping stores are both answered 200 and one is lost.
* `LifecycleElsewhere`: with an `--ip-address` that connections to 127.0.0.1 do
  not reach, the waking connection goes to the wrong address and the server keeps
  running.

Other departures have no run of their own.  Some are named by an operator that a
property excepts, most of them with an equivalence, so that the run shows the
exception is real as well:

| named by | departure |
|---|---|
| `Garbled`, `Bare` in `SameExpression` | `(-1)[x]` is written `-1[x]`, a statement `({})[x]` is written `{}[x]`, `a in b in c` ends the program, the `yield` of an array comprehension is dropped |
| `SlashMistaken` in `WellMarked` | a regular expression at the beginning or behind `)` or `}`, and a division behind a keyword that names a property, end the program |
| `Unending` in `LeftOutExactly` | a then-branch on one line after `//#JSCOVERAGE_IF` has a conditional that begins and ends on that line; `jscoverage.js:498` never meets its end, and all the rest of the file is left out of the summary, contrary to `doc/manual.html:682` |
| `LinesNoted` in `LeftOutExactly` | the first line of a then-branch is not left out with it, so that a branch without braces, or a statement on the line of the brace, counts as missing |
| `thrown` in `Usable` | an exception in the handler of the store button leaves the flag up for good |
| `broken` in `RequesterAnswered` | the answer to a shutdown cannot be written, and the server stops all the same |
| `Fits` in `SumsExact` | a sum of counts wraps, is written as null and makes later stores a mismatch |
| `Misread` in `EntireBody` | the four kinds of messages above; a relayed chunked body may also lose its last octet (`RelaysPrefix`) |
| `Astray` in `LinksLead` | links to names with two dots, with octets above 127, with a colon, with the prefix of the server's own pages, and below two slashes; with a query the redirect of a directory never ends |
| the condition on the last octet in `SourceFound` | a script that is asked for with a slash behind it, also when that is written `%2F` or has a cut-off escape behind it, is served, and its source never found |
| `Overlap` in `OnlyDestination` | a destination that is a link into the source, or has the source in it, is written to nevertheless |
| `Apart` in `Complete` | with a link in the destination to another file of it, or to one that is read, a run succeeds and one of the two is not there |
| the last line of `Repeatable` | a Mozilla destination that was not finished is refused the next time |

The rest is noted under `hazards`: two first stores that both make the directory
(`util.c:222`), a status of an origin that has no reason phrase
(`http-exchange.c:453`), an error page that becomes the source of a script
(`jscoverage-server.c:499`), the unlocked highlighter (`jscoverage-server.c:467`), a
thread that cannot be created (`http-server.c:211`), a label before `for (var a = b in c)`
(`instrument-js.cpp:1370`), and clicks during the loading of a report
(`jscoverage.js:305`).

### Why the bounds are enough

Store: two handlers are needed for every race; a third one shows what a race
leaves behind to a later store; two blocks are the least for which a file can be
cut in the middle; one fault and one exit reach every place they can happen at,
and the properties do not count them.  Threads of the same role are
interchangeable, so their permutations are symmetries.  Lifecycle: two shutdown
requests are the fewest that compete for the flag, and two places in the queue let
a client stand before or behind the waking connection.  Connections and bodies: a
buffer of three octets ends at every point of a size line, a chunk or a payload,
and payloads of more than twice its size fill it twice.  Proxy: two requests and a
store can add three entries at once, one of them for the URL of another.
Instrumenter: nesting of two statements is what one step of the rewriting can
confuse, since every statement is rewritten by itself with only the flag of an
`else if` passed on; loops run on as long as their tests say.  Report page: an
operation takes at most six callbacks, and five clicks let three operations overlap
where the flag fails, with two before to set the page up.

Expressions: parentheses depend on an operator and the ones right outside and
inside it, so three levels have every pair in every context.  Lexemes: what the
scanner does between two tokens depends on the two and on the gap.  Lines: the
links look at neighbours, and six lines hold two conditionals or three separate
links.  Documents: the third store meets what a sum of two has left, and `IntMax`
= 7 is reached by two.  URLs: a name is met at the root and in a directory, by a
link from every kind of list; a second link is resolved against what the first
one led to.  Directories: the second run meets whatever the first one, killed or
failed anywhere, has left; being killed in the last run would show nothing that
is looked at again.  `readdir` gives its entries in one order or the reverse, so
that each of two files comes first once.  At most one path is excluded and one
copied plainly, since each is compared by itself.  Heads: each notation is met
alone and beside another header; the length 255 is the largest that fits.

### Fairness

Nothing is assumed of faults, exits, restarts, arrivals, clicks or changes at an
origin.  `StoreDirs`: each thread of a running process is scheduled (`WF` of its
own steps), but nothing says that the body of a request comes: `recv()` has no
timeout, and `ReadBody`, which waits for the client, is not fair.  `Lifecycle`: the
main thread and the handlers are scheduled; a client that is not one of `Silent` sends
its request, and takes the short answer it is sent; a `connect()` that finds the queue
full eventually times out, as TCP does.
`ConnectionStream`: a thread inside `HTTPConnection_write` goes on.  `Body`: the
reader goes on, and `recv()` returns, at the latest when the peer closes.
`Proxy`: threads go on, and origins answer or close.  `Instrumenter`: a browser
that runs a script goes on with it; nothing is assumed of the script as it was,
which may loop for ever.  `ReportPage`: a browser calls what is due, and a
request that was sent ends with an answer or an error.  Mutexes need no strong fairness because
each thread takes each of them a bounded number of times.

## What is proved

All theorems hold for every set of threads, directories, clients and requests, and
for every value of the bounds; they assume only the `...Assumption` of their
module, which say that the constants are what their comments say and that `None`
is not a text.

* `CoverageStoreProofs`: `TypeSafe` and `MutexCorrect`.  The type invariant needs
  `Opened`: a handler that reads, writes or appends to a file has made it exist,
  since nothing removes a file.
  `DurableCorrect`, in the same module: `Durable` is not inductive: it says
  nothing while a file is being rewritten.  The strengthening `DurableInv` says
  of every directory that is neither raced nor damaged that one handler at a time
  is between its `stat()` and its `fclose()` (`Alone`), that what it has read is
  what the file holds, that from then on it carries the counts of every store of
  the directory, and that the blocks it has written contain them together with
  its own (`Memory`); and of every handler that it starts with an empty buffer
  (`Fresh`).  `Frame`, `Progress` and `Aside` say once what a step must leave
  alone for this to survive; each action is then an instance of one of them.
* In the same module, `NoTraceCorrect`, `ShapesCorrect` and `UsableCorrect`.  `TraceInv`
  follows the counts of a store from text to text, into files, buffers and what a
  handler has parsed: each is of a handler that came to writing and whose data
  fits the block it is in.  Reading and writing only copy blocks, in raced and
  damaged directories too, and adding up is done by who was found to fit.
  `ScriptInv` says the same of `jscoverage.js`: a file that nobody works on is
  whole and marked, since who copies it later marks it later too.
  `PromiseCorrect` is the refinement.  `ExactInv` sharpens
  `DurableInv` from "contains" to "is": in a directory that is neither raced nor
  damaged, what a handler carries is what the file held when it read it, and what
  it has written is the front part of its document.  With it every step is
  `Commit` (at `fclose()`), `Acknowledge` (at the append that `200` follows), a
  `Void` (where a race or a cut begins) or leaves the abstract store alone.
* `ServerLifecycleProofs`: `ShutdownMutexCorrect` and `WakeCorrect`.  The first
  needs `QueueInv`: a connection waits in the queue of `listen()` once and has no
  thread yet, so that handing it over cannot disturb a thread that holds the
  mutex.  `AnswerCorrect` needs `AnswerInv`: who has closed its connection has
  answered or failed to; behind the raised flag there is a handler that raised it, and behind
  the waking connection one that is done; and the loop is left at that connection
  or at a client that cut in.
* `ConnectionProofs`: `ConnectionImplementsStream`, every step of the buffers is a
  step of `ByteStream` or none, and `ConnectionCorrect`, the invariant behind it:
  the input buffer is the newest part of what was received, and while no `send()`
  has failed what was written is what arrived, the output buffer and the rest of
  the payload, in this order.  For every capacity, every input and every payload.
* `ReportPageProofs`: `OneAtATimeCorrect`, `ViewsCorrect` and `LastClickCorrect`.
  `FlagInv` adds to `OneAtATime` that the timers are a sequence of what handlers
  set, that nothing goes on before the page is loaded (`Quiet`:
  `jscoverage_body_load` would otherwise raise no flag for what it finds) and that
  only a report is asked for.  A click needs the flag down and starts one operation
  (`ClickKeeps`); a callback but the last sets one timer for the one it was (`ThenKeeps`); the last finds exactly its own.  `ViewInv` is
  about the modes in which operations overlap: the last of the callbacks that
  render a source is given the current file and all others come before it
  (`Rendered`), since those of one kind wait for the same time (`InOrder`); and
  those of the checkbox undo one another, the first what the table has, the last
  giving what the box says (`Toggled`).  `ClickInv` says what the one callback of a
  page with a browser tab still has to do for the last click.
* `ProxyProofs`: `EntriesStayCorrect` and `ServedIsCachedCorrect`.  `ListInv` says
  that who is between `LOCK` and `UNLOCK` of `source_cache_mutex` owns it
  (`MutexInv`), so that the list a thread has put behind its new entry is still the
  whole list when it sets the head (`Linked`); hence entries only come in front.
  `ServedInv` follows a request: once its script has been read and decoded it holds
  a version of it, and it is past `add_cached_source` before the flush that lets
  the client have the last octets.  Entries stay, so what was true then stays true.

* `DirectoryProofs`: `OnlyDestinationCorrect`, `RepeatableCorrect` and
  `NothingIsRemoved`, for every file system, every pair of arguments and any number
  of runs, killed anywhere.  First, what paths and links do: `RealAppend` and
  `RealStraight` (a path leads to a path without links), `Ancestors` (what exists is
  in directories), `Grown` (a tree that only gains files and directories leads every
  path to where it led before, `GrownReal`), and that `mkdirs` and a write make the
  tree grow (`MkdirsGrows`, `WrittenGrows`).  Then `Reach`: a path below the
  destination leads into it or to where its links lead.  `Inv` says that the tree
  has grown from the first one and differs from it only there (`TreeOK`), that what
  the checks have found stays true (`CheckedOK`), that a file being written is below
  the destination (`FileOK`), and that a destination with anything in it has the
  page, since that is copied first (`PageOK`); `Repeatable` follows from `PageOK`,
  and the source from `AcceptedOverlap`.
  `CompleteCorrect` rests on `CompleteInv`, which says of worlds with `Apart`: no file
  is touched but the `Outputs` (`ExactOK`); the list of files is that of the source
  as it was in the beginning, though it is read when the resources are there already
  (`CopyingOK`, with `SourceStays`); what is being written is what the file is to
  become (`WritingOK`, with `ContentStays`: what is read has not been written); and
  each resource and each file is still to come, being written, or there
  (`ResourcesOK`, `FilesOK`), so that it is there when the lists are empty
  (`CopiedOK`).  `OrdersAll` says that a list of files in the order of `readdir` has
  all of them, by induction over the sets of those still to be listed, and
  `ListedMeans` that `is_same_file` and `contains_file` find on a list of the user
  what `Covered` says, in a tree that has grown since.
* `MessageBodyProofs`: `RelaysPrefixCorrect`, `EntireBodyCorrect` and
  `AcceptsWholeCorrect`.  The first half of `RelaysPrefix` needs `RelayInv`: in
  each state of the chunk reader, what has been handed out, what is in the caller's
  buffer and what is left of the line in `chunk_buffer` are what has been read, in
  this order (`PlaceOK`, `ReadingOK`), and only the return at the end of a trailer
  leaves one octet out (`CompleteOK`).  The second half is about any list of
  headers: a copy without some names has what the list has under every other name,
  found in the same order and combined to the same value (`Extended` and `Changed`
  say what `add_header` does to `find_header`), so that it frames the body alike.
  The other two are about messages with `HeadMeant`, whatever their octets are.
  `SizeRead` says that `read_chunk_size` gives the number a line announces, or refuses
  it if it does not fit; `BeforeLast`, `ChunkInTime` and `TrailerInTime` that what comes
  before the last chunk are whole chunks and that none of it lies behind the end of
  the message.  `MeantInv` then places both readers in the chunks by definition: what
  the decoding one has handed out is what is encoded before the place it is at
  (`BetweenChunks`, `InChunk`, `BehindChunks`), and the other one is where its state
  says (`AtChunk`, `InLine`, `InData`, `InTrailer`, `InTrailerLine`) if the octets have a
  last chunk; if they have none the message is cut off or wrong, and may be refused.

* `ConversionsProofs`: what is computed, for every input.  Each of the specifications
  only needs that a call starts from what the calls before have left.
  `SumsExactCorrect` and `RefusedRightlyCorrect` are of `StoresSpec`.  `StoresInv` says
  that the report has (`Reports`) what the accepted documents add up to, if that fits
  in an int.  A store reads its document entry by entry and then the report, and after
  each entry the table is `Sound`: it `Holds` every file once, with the sums of the
  entries so far, or it was refused and the entries do not agree.  So it is at the end,
  by induction over the entries; and since the report has an entry like each of those
  it was made of (`Covers`), agreeing with the report is agreeing with them.  They
  assume of documents and of the table only what `DocumentsAssumption` and `MergeAssumption` say: counters are natural numbers.
  `LinksExactCorrect` is of `SummarySpec`.  `MissingRight`: the lines that are pushed
  are the missing ones, each once and in order.  `Leads` says of the links made of the
  first lines on that list that they lead over these and over no line with a count,
  each as far as it may; a line begins a link (`LeadsNew`) or extends the last one
  (`LeadsOn`).
  `SourceFoundCorrect` is of `RequestsSpec`, with any request at any time.  The path of
  a URL begins with a slash (`URLIs`), and still does when it is decoded
  (`DecodedIs`); a path that ends in a slash has an empty last name, behind which
  `stat` finds directories only (`SplitEnds`), and so the name a script is
  instrumented under (`ScriptIs`) is one that `SourceOf` takes apart to the same names
  (`SourceIs`).

Where something is proved of a recursive function it is by a least counterexample:
`LeastNatural` gives the smallest number at which a statement fails, and the
statement is that of the function concerned.  That a function with such equations
exists is `Recursion`, proved in the same way.

Proving changed the model where it was wrong.  `OnlyDestination` did not except the
files behind links in the destination (`Leads`), which the program overwrites;
`Open` let a file be made in a directory that is not there (`Writable`); `EntireBody`
compared with an entity that only the instance knew, now with `Meant`; the arms of
some CASE expressions overlapped, so that their values were not determined;
`SourceFound` excepted URLs that end in a slash, but not those that only do so once
they are decoded; `Complete` excepted the worlds with `Overlap`, where it needs not
be false, and not all of those where it is, and it compared the lists of the user by
their text, where the program follows links.

Only model-checked:

* the liveness properties (`Answered`, `Stops`, `Served`, `WriteEnds`, `Ends`,
  `Finishes`, `Follows`, `Usable`): fairness is beyond the prover;
* the properties of `Instrumenter`, and `SameExpression` and `WellMarked` of
  `Conversions`: the rewriting of trees and the parsing of texts are RECURSIVE
  operators, which the prover cannot expand;
* `LinksLead`, an equivalence about every way to write a name and a URL, through
  encoding, the client's `Resolve`, taking apart and decoding, each octet by octet;
* `HeadMeant`, the part of `EntireBody` that is about the head: what a sender means by
  the lexemes of a head has no definition apart from `MessageHead`, and `MCBody` says
  it together with each message.

## Plan

What is done is in the order of the modules above.  What comes next:

1. Proofs: `HeadMeant`, with a meaning of heads that is defined apart from the
   reader; `LinksLead`, for which decoding has to be shown to undo encoding.
2. `Stream` growth (`stream.c:43-96`) with wrapping sizes, and the ports of URLs
   (`http-url.c:29`).
3. The text of what `ExpressionText` leaves out: regular expressions, escapes of
   strings, lists of `var`, destructuring.

## Not modelled

The vendored JavaScript engine, which is 97 of 100 lines of the source below
`src/`; it is third-party code, used as a parser, and what the program relies on is
modelled as external where it matters (`JavaScript`, `Read` of `ExpressionText`,
`Tokens` of `Highlighter`).  The documentation's examples, the build and the Windows
branches of the code.  How JSON text and character encodings are parsed is abstracted
to whether it succeeds.  Hosts and ports are cut off a URL and no more.  PROJECT.json
says of every component how far it is modelled.
