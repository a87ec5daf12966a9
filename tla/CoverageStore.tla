--------------------------- MODULE CoverageStore ---------------------------
(***************************************************************************)
(* The part of jscoverage-server that several detached handler threads    *)
(* share: the POST /jscoverage-store handler (jscoverage-server.c), the    *)
(* report directory it reads and rewrites, and the JavaScript engine that  *)
(* the store handlers share with the handlers that serve instrumented      *)
(* JavaScript.                                                             *)
(*                                                                         *)
(* jscoverage.json is a sequence of Blocks blocks, one per source file     *)
(* reported on; a block is what one stdio flush writes.  Its data is       *)
(* abstracted to the set of stores whose counts it adds up (has) and the   *)
(* handler that wrote it (by).  Merging adds counts, so "the counts of r   *)
(* are in the report" is r \in has.                                        *)
(***************************************************************************)
EXTENDS Naturals, Sequences

CONSTANTS
  Stores,       \* threads that handle a POST /jscoverage-store
  Loads,        \* threads that handle a GET of an instrumented script
  Dirs,         \* report directories a request can name
  Root,         \* the --report-dir directory itself
  Uncreatable,  \* directories mkdir(2) refuses (a missing or read-only parent)
  Shapes,       \* the lengths of the coverage arrays of a posted report
  Sourceless,   \* stores that post counts without the source text
  Highlight,    \* jscoverage_highlight: FALSE under --no-highlight
  Serial,       \* TRUE when clients send a store only after the last ended
  Blocks,       \* blocks of a document
  MaxFaults,    \* bound on failing file operations
  MaxExits,     \* bound on exits the store handlers do not cause
  None          \* no thread, no file

ASSUME StoreAssumption ==
  /\ Stores \cap Loads = {}
  /\ None \notin Stores \cup Loads
  /\ Root \in Dirs /\ Uncreatable \subseteq Dirs
  /\ Sourceless \subseteq Stores
  /\ Highlight \in BOOLEAN /\ Serial \in BOOLEAN
  /\ Blocks \in Nat \ {0}
  /\ MaxFaults \in Nat /\ MaxExits \in Nat

VARIABLES
  up,               \* the server process is running
  pc,               \* what each handler thread does next
  dir, shape,       \* the directory a store names, the shape of its data
  javascript_mutex, \* its holder, or None
  statics,          \* whose scan the file-scope variables of highlight.cpp follow
  dirs,             \* directories that exist
  json,             \* jscoverage.json of each directory
  js,               \* jscoverage.js of each directory
  buf,              \* what a handler has read of the json file
  off,              \* blocks of its own document a handler has written
  raced,            \* history: directories two handlers updated at once
  damaged,          \* history: directories a cut or failed update was left in
  faults, exits     \* counted against MaxFaults and MaxExits

files   == <<dirs, json, js>>
engine  == <<javascript_mutex, statics>>
local   == <<dir, shape, buf, off>>
history == <<raced, damaged>>
env     == <<up, faults, exits>>
vars    == <<pc, files, engine, local, history, env>>

----------------------------------------------------------------------------
Threads == Stores \cup Loads

Final == {"200", "400", "405", "500merge", "500write", "500append", "dead"}

\* between the stat() of jscoverage.json and the fclose() of its rewriting
Reading == {"openread", "read", "lockmerge", "merge", "openwrite"}
Writing == {"write", "highlight"}
Window  == Reading \cup Writing

Stored == {"copy", "copywrite", "append", "200", "500append"}

StorePC == {"idle", "body", "lockparse", "parse", "statroot", "mkroot",
            "statdir", "mkdir", "statjson"} \cup Window \cup Stored \cup Final
LoadPC  == {"idle", "lockload", "instrument", "200", "dead"}

Active(t) == pc[t] \notin Final \cup {"idle"}

\* executing code of the JavaScript engine, which serves one thread at a time
InEngine(t) == pc[t] \in {"parse", "merge", "highlight", "instrument"}

Block == [by : Stores \cup {None}, has : SUBSET Stores]
Hole  == [by |-> None, has |-> {}]

\* no text is taken for a missing file
ASSUME NoFileAssumption == None \notin Seq(Block) \cup Seq({"body", "flag"})

\* a write of block b at position i of a file, whatever its length now is
WriteAt(f, i, b) ==
  [k \in 1 .. (IF i > Len(f) THEN i ELSE Len(f)) |->
     IF k = i THEN b ELSE IF k <= Len(f) THEN f[k] ELSE Hole]

\* what parsing a text can say: a document of one writer parses, a short or
\* gapped one does not, a mix of two writers' blocks parses if it happens to
\* line up
Parses(f) ==
  IF Len(f) # Blocks \/ (\E k \in DOMAIN f : f[k] = Hole) THEN {FALSE}
  ELSE IF \A j, k \in DOMAIN f : f[j].by = f[k].by THEN {TRUE}
  ELSE BOOLEAN

\* mutant: the merged data is not written
DocBlock_Own(r, k) == [by |-> r, has |-> {r}]

\* block k of the document of r: what it merged, plus its own counts
DocBlock(r, k) ==
  [by |-> r, has |-> {r} \cup (IF k \in DOMAIN buf[r] THEN buf[r][k].has ELSE {})]

\* write_json_for_file runs the highlighter when neither the posted data nor
\* the merged data has the source of the file
NeedsHighlight(r) == Highlight /\ r \in Sourceless /\ buf[r] = <<>>

----------------------------------------------------------------------------
Init ==
  /\ up = TRUE
  /\ pc = [t \in Threads |-> "idle"]
  /\ dir = [r \in Stores |-> Root]
  /\ shape \in [Stores -> Shapes]
  /\ javascript_mutex = None
  /\ statics = None
  /\ dirs = {}
  /\ json = [d \in Dirs |-> None]
  /\ js = [d \in Dirs |-> None]
  /\ buf = [r \in Stores |-> <<>>]
  /\ off = [r \in Stores |-> 0]
  /\ raced = {} /\ damaged = {}
  /\ faults = 0 /\ exits = 0

Goto(t, a, b) ==
  /\ up
  /\ pc[t] = a
  /\ pc' = [pc EXCEPT ![t] = b]

\* send_response(), after which the handler has released its memory
Answer(r, a, status) ==
  /\ Goto(r, a, status)
  /\ buf' = [buf EXCEPT ![r] = <<>>]
  /\ off' = [off EXCEPT ![r] = 0]
  /\ UNCHANGED <<dir, shape>>

Fault ==
  /\ faults < MaxFaults
  /\ faults' = faults + 1
  /\ UNCHANGED <<up, exits>>

\* exit() of the process: every handler is gone, the files stay as they are
ProcessExits ==
  /\ up
  /\ up' = FALSE
  /\ pc' = [t \in Threads |-> IF Active(t) THEN "dead" ELSE pc[t]]
  /\ javascript_mutex' = None
  /\ statics' = None
  /\ buf' = [r \in Stores |-> <<>>]
  /\ off' = [r \in Stores |-> 0]
  /\ damaged' = damaged \cup {dir[r] : r \in
                   {q \in Stores : pc[q] \in Writing \cup {"copywrite", "append"}}}
  /\ UNCHANGED <<dir, shape, raced, files>>

----------------------------------------------------------------------------
\* handle_jscoverage_request: a request for the store arrives
Accept(r, d) ==
  /\ Serial => \A q \in Stores : ~ Active(q)
  /\ Goto(r, "idle", "body")
  /\ dir' = [dir EXCEPT ![r] = d]
  /\ UNCHANGED <<shape, buf, off, files, engine, history, env>>

RejectMethod(r) ==
  /\ Goto(r, "idle", "405")
  /\ UNCHANGED <<files, engine, local, history, env>>

ReadBody(r) ==
  /\ \/ Goto(r, "body", "lockparse")
     \/ Goto(r, "body", "400")
  /\ UNCHANGED <<files, engine, local, history, env>>

\* LOCK(&javascript_mutex) in the three places that take it
LockJS(t) ==
  /\ javascript_mutex = None
  /\ \/ t \in Stores /\ Goto(t, "lockparse", "parse")
     \/ t \in Stores /\ Goto(t, "lockmerge", "merge")
     \/ t \in Loads /\ Goto(t, "lockload", "instrument")
  /\ javascript_mutex' = t
  \* instrumenting highlights its source, which restarts the scan
  /\ statics' = IF t \in Loads /\ Highlight THEN t ELSE statics
  /\ UNCHANGED <<files, local, history, env>>

\* mutant: the 400 path returns before UNLOCK
ParseBody_Leaks(r) ==
  /\ \/ Goto(r, "parse", "statroot") /\ javascript_mutex' = None
     \/ Goto(r, "parse", "400") /\ UNCHANGED javascript_mutex
  /\ UNCHANGED <<statics, files, local, history, env>>

ParseBody(r) ==
  /\ \/ Goto(r, "parse", "statroot")
     \/ Goto(r, "parse", "400")
  /\ javascript_mutex' = None
  /\ UNCHANGED <<statics, files, local, history, env>>

\* mkdir_if_necessary(d): stat, then mkdir if there was nothing
StatDir(r, d, here, missing, next) ==
  /\ Goto(r, here, IF d \in dirs THEN next ELSE missing)
  /\ UNCHANGED <<files, engine, local, history, env>>

MakeDir(r, d, here, next) ==
  /\ d \notin dirs \cup Uncreatable
  /\ Goto(r, here, next)
  /\ dirs' = dirs \cup {d}
  /\ UNCHANGED <<json, js, engine, local, history, env>>

\* mkdir fails, also because the directory has appeared since the stat:
\* xmkdir calls fatal
MakeDirFatal(r, d, here) ==
  /\ d \in dirs \cup Uncreatable
  /\ pc[r] = here
  /\ ProcessExits
  /\ UNCHANGED <<faults, exits>>

StatRoot(r)     == StatDir(r, Root, "statroot", "mkroot", "statdir")
MakeRoot(r)     == MakeDir(r, Root, "mkroot", "statdir")
StatTarget(r)   == StatDir(r, dir[r], "statdir", "mkdir", "statjson")
MakeTarget(r)   == MakeDir(r, dir[r], "mkdir", "statjson")
MkdirFatal(r)   == MakeDirFatal(r, Root, "mkroot") \/ MakeDirFatal(r, dir[r], "mkdir")

\* mutant: the existing report is always overwritten
StatJson_Overwrite(r) ==
  /\ Goto(r, "statjson", "openwrite")
  /\ raced' = IF \E q \in Stores \ {r} : dir[q] = dir[r] /\ pc[q] \in Window
              THEN raced \cup {dir[r]} ELSE raced
  /\ UNCHANGED <<damaged, files, engine, local, env>>

\* stat() of the json file decides between merging and starting afresh
StatJson(r) ==
  /\ Goto(r, "statjson", IF json[dir[r]] = None THEN "openwrite" ELSE "openread")
  /\ raced' = IF \E q \in Stores \ {r} : dir[q] = dir[r] /\ pc[q] \in Window
              THEN raced \cup {dir[r]} ELSE raced
  /\ UNCHANGED <<damaged, files, engine, local, env>>

OpenRead(r) ==
  /\ Goto(r, "openread", "read")
  /\ UNCHANGED <<files, engine, local, history, env>>

OpenReadFails(r) ==
  /\ Answer(r, "openread", "500merge")
  /\ Fault
  /\ UNCHANGED <<files, engine, history>>

\* Stream_write_file_contents reads to the end the file has at that moment
ReadBlock(r) ==
  /\ Goto(r, "read", "read")
  /\ Len(buf[r]) < Len(json[dir[r]])
  /\ buf' = [buf EXCEPT ![r] = Append(@, json[dir[r]][Len(@) + 1])]
  /\ UNCHANGED <<dir, shape, off, files, engine, history, env>>

ReadEnd(r) ==
  /\ Goto(r, "read", "lockmerge")
  /\ Len(buf[r]) >= Len(json[dir[r]])
  /\ UNCHANGED <<files, engine, local, history, env>>

\* mutant: the lengths of the arrays are not compared
Compatible_Always(r) == r \in Stores

\* jscoverage_parse_json refuses arrays of another length
Compatible(r) ==
  \A k \in DOMAIN buf[r] : \A q \in buf[r][k].has : shape[q] = shape[r]

Merge(r) ==
  /\ Goto(r, "merge", "openwrite")
  /\ TRUE \in Parses(buf[r]) /\ Compatible(r)
  /\ javascript_mutex' = None
  /\ UNCHANGED <<statics, files, local, history, env>>

\* mutant: a failed merge returns before UNLOCK
MergeFails_Leaks(r) ==
  /\ Answer(r, "merge", "500merge")
  /\ FALSE \in Parses(buf[r]) \/ ~ Compatible(r)
  /\ UNCHANGED <<javascript_mutex, statics, files, history, env>>

MergeFails(r) ==
  /\ Answer(r, "merge", "500merge")
  /\ FALSE \in Parses(buf[r]) \/ ~ Compatible(r)
  /\ javascript_mutex' = None
  /\ UNCHANGED <<statics, files, history, env>>

\* fopen(path, "wb") truncates what was there
OpenWrite(r) ==
  /\ Goto(r, "openwrite", "write")
  /\ json' = [json EXCEPT ![dir[r]] = <<>>]
  /\ UNCHANGED <<dirs, js, engine, local, history, env>>

OpenWriteFails(r) ==
  /\ Answer(r, "openwrite", "500write")
  /\ Fault
  /\ UNCHANGED <<files, engine, history>>

\* jscoverage_highlight_js without the mutex: resets the scanner variables
HighlightStart(r) ==
  /\ NeedsHighlight(r)
  /\ Goto(r, "write", "highlight")
  /\ statics' = r
  /\ UNCHANGED <<javascript_mutex, files, local, history, env>>

\* mutant: the path is made from report_directory
PutBlock_InRoot(r, b) ==
  /\ json' = [json EXCEPT ![Root] = WriteAt(IF @ = None THEN <<>> ELSE @, off[r] + 1, b)]
  /\ UNCHANGED <<dirs, js>>

PutBlock(r, b) ==
  /\ json' = [json EXCEPT ![dir[r]] = WriteAt(@, off[r] + 1, b)]
  /\ UNCHANGED <<dirs, js>>

\* mutant: a block too many is written
WriteBlock_NoEnd(r) ==
  /\ \/ ~ NeedsHighlight(r) /\ Goto(r, "write", "write")
     \/ Goto(r, "highlight", "write")
  /\ PutBlock(r, DocBlock(r, off[r] + 1))
  /\ off' = [off EXCEPT ![r] = @ + 1]
  /\ UNCHANGED <<dir, shape, buf, engine, history, env>>

\* a block is flushed while later ones are still to be written
WriteBlock(r) ==
  /\ off[r] + 1 < Blocks
  /\ \/ ~ NeedsHighlight(r) /\ Goto(r, "write", "write")
     \/ Goto(r, "highlight", "write")
  /\ PutBlock(r, DocBlock(r, off[r] + 1))
  /\ off' = [off EXCEPT ![r] = @ + 1]
  /\ UNCHANGED <<dir, shape, buf, engine, history, env>>

\* a flush fails between two fputs: nobody looks at ferror(), the text is
\* lost and the document goes on without it (its place is marked by Hole)
LoseBlock(r) ==
  /\ off[r] + 1 < Blocks
  /\ \/ ~ NeedsHighlight(r) /\ Goto(r, "write", "write")
     \/ Goto(r, "highlight", "write")
  /\ PutBlock(r, Hole)
  /\ off' = [off EXCEPT ![r] = @ + 1]
  /\ damaged' = damaged \cup {dir[r]}
  /\ Fault
  /\ UNCHANGED <<dir, shape, buf, raced, engine>>

\* fclose() flushes the last block
CloseWrite(r) ==
  /\ off[r] + 1 = Blocks
  /\ \/ ~ NeedsHighlight(r) /\ Answer(r, "write", "copy")
     \/ Answer(r, "highlight", "copy")
  /\ PutBlock(r, DocBlock(r, Blocks))
  /\ UNCHANGED <<engine, history, env>>

CloseWriteFails(r) ==
  /\ off[r] + 1 = Blocks
  /\ \/ ~ NeedsHighlight(r) /\ Answer(r, "write", "500write")
     \/ Answer(r, "highlight", "500write")
  /\ damaged' = damaged \cup {dir[r]}
  /\ Fault
  /\ UNCHANGED <<raced, files, engine>>

----------------------------------------------------------------------------
\* jscoverage_copy_resources: jscoverage.js is truncated, then written
CopyOpen(r) ==
  /\ Goto(r, "copy", "copywrite")
  /\ js' = [js EXCEPT ![dir[r]] = <<>>]
  /\ UNCHANGED <<dirs, json, engine, local, history, env>>

CopyWrite(r) ==
  /\ Goto(r, "copywrite", "append")
  /\ js' = [js EXCEPT ![dir[r]] = <<"body">> \o SubSeq(@, 2, Len(@))]
  /\ UNCHANGED <<dirs, json, engine, local, history, env>>

\* xfopen and copy_resource_to_stream give up with fatal()
CopyFatal(r) ==
  /\ pc[r] \in {"copy", "copywrite"}
  /\ faults < MaxFaults
  /\ faults' = faults + 1
  /\ ProcessExits
  /\ UNCHANGED exits

\* mutant: jscoverage.js is opened with "wb"
AppendFlag_Truncates(r) ==
  /\ Goto(r, "append", "200")
  /\ js' = [js EXCEPT ![dir[r]] = <<"flag">>]
  /\ UNCHANGED <<dirs, json, engine, local, history, env>>

\* fopen(path, "ab") and one line that makes the copy a report
AppendFlag(r) ==
  /\ Goto(r, "append", "200")
  /\ js' = [js EXCEPT ![dir[r]] = Append(@, "flag")]
  /\ UNCHANGED <<dirs, json, engine, local, history, env>>

AppendFails(r) ==
  /\ Goto(r, "append", "500append")
  /\ damaged' = damaged \cup {dir[r]}
  /\ Fault
  /\ UNCHANGED <<raced, files, engine, local>>

----------------------------------------------------------------------------
\* instrument_js for a served script
AcceptLoad(t) ==
  /\ Goto(t, "idle", "lockload")
  /\ UNCHANGED <<files, engine, local, history, env>>

Instrument(t) ==
  /\ Goto(t, "instrument", "200")
  /\ javascript_mutex' = None
  /\ UNCHANGED <<statics, files, local, history, env>>

\* two threads inside the engine: undefined, from no effect at all to the end
\* of the process (the asserts of jscoverage_highlight_js are one such end)
EngineRace(r) ==
  /\ pc[r] = "highlight"
  /\ \E t \in Threads \ {r} : InEngine(t)
  /\ ProcessExits
  /\ UNCHANGED <<faults, exits>>

\* the process ends for a reason outside these handlers: a shutdown that
\* does not wait for them, a signal, a fatal() of another request
Exit ==
  /\ exits < MaxExits
  /\ exits' = exits + 1
  /\ ProcessExits
  /\ UNCHANGED faults

Restart ==
  /\ ~ up
  /\ up' = TRUE
  /\ UNCHANGED <<pc, faults, exits, files, engine, local, history>>

----------------------------------------------------------------------------
\* what a store handler that has its request does by itself, every file
\* operation succeeding
StoreWork(r) ==
  \/ LockJS(r) \/ ParseBody(r)
  \/ StatRoot(r) \/ MakeRoot(r) \/ StatTarget(r) \/ MakeTarget(r) \/ MkdirFatal(r)
  \/ StatJson(r) \/ OpenRead(r) \/ ReadBlock(r) \/ ReadEnd(r)
  \/ Merge(r) \/ MergeFails(r)
  \/ OpenWrite(r) \/ HighlightStart(r) \/ WriteBlock(r) \/ CloseWrite(r)
  \/ CopyOpen(r) \/ CopyWrite(r) \/ AppendFlag(r)

StoreStep(r) == ReadBody(r) \/ StoreWork(r)

StoreFault(r) ==
  \/ OpenReadFails(r) \/ OpenWriteFails(r) \/ LoseBlock(r) \/ CloseWriteFails(r)
  \/ CopyFatal(r) \/ AppendFails(r)

LoadStep(t) == LockJS(t) \/ Instrument(t)

Next ==
  \/ \E r \in Stores :
       \/ \E d \in Dirs : Accept(r, d)
       \/ RejectMethod(r) \/ StoreStep(r) \/ StoreFault(r) \/ EngineRace(r)
  \/ \E t \in Loads : AcceptLoad(t) \/ LoadStep(t)
  \/ Exit
  \/ Restart

Spec == Init /\ [][Next]_vars

\* The operating system runs every thread of a running process.  ReadBody is
\* not among what is fair: it waits in recv() for the client, without timeout.
Fairness ==
  /\ \A r \in Stores : WF_vars(StoreWork(r))
  /\ \A t \in Loads : WF_vars(LoadStep(t))

FairSpec == Spec /\ Fairness

----------------------------------------------------------------------------
(* Properties *)

Files == [Dirs -> Seq(Block) \cup {None}]

\* Every variable keeps its type.
TypeOK ==
  /\ up \in BOOLEAN
  /\ pc \in [Threads -> StorePC \cup LoadPC]
  /\ \A r \in Stores : pc[r] \in StorePC
  /\ \A t \in Loads : pc[t] \in LoadPC
  /\ dir \in [Stores -> Dirs]
  /\ shape \in [Stores -> Shapes]
  /\ javascript_mutex \in Threads \cup {None}
  /\ statics \in Threads \cup {None}
  /\ dirs \subseteq Dirs
  /\ json \in Files
  /\ js \in [Dirs -> Seq({"body", "flag"}) \cup {None}]
  /\ buf \in [Stores -> Seq(Block)]
  /\ off \in [Stores -> 0 .. Blocks]
  /\ raced \subseteq Dirs /\ damaged \subseteq Dirs
  /\ faults \in 0 .. MaxFaults /\ exits \in 0 .. MaxExits

\* Parsing, merging and instrumenting happen with javascript_mutex held, so
\* no two threads are ever in those parts of the engine together, and a thread
\* gives the mutex back on every path out of them.
MutexDiscipline ==
  \A t \in Threads :
    (javascript_mutex = t) <=> pc[t] \in {"parse", "merge", "instrument"}

StoredIn(d) == {r \in Stores : dir[r] = d /\ pc[r] \in Stored}

Quiet(d) == \A r \in Stores : dir[r] = d => pc[r] \notin Writing

\* The counts of r are in every block of the json file of d.
Contains(d, r) ==
  /\ json[d] # None
  /\ \A k \in 1 .. Blocks : k \in DOMAIN json[d] /\ r \in json[d][k].has

\* Nothing that was written for a store is lost as long as no two handlers
\* update its directory at once and no update of it is cut short, whatever
\* happens to other directories and whatever other requests fail.
Durable ==
  \A d \in Dirs \ (raced \cup damaged) :
    Quiet(d) => \A r \in StoredIn(d) : Contains(d, r)

\* The report a client was told is stored holds its data once no handler is
\* rewriting it (doc/manual.html:447, "the new data will be merged with the
\* previous data").
MergedWithPrevious ==
  \A d \in Dirs \ damaged :
    Quiet(d) => \A r \in StoredIn(d) : Contains(d, r)

Texts(d) ==
  (IF json[d] = None THEN {} ELSE {json[d][k] : k \in DOMAIN json[d]})
    \cup UNION {{buf[r][k] : k \in DOMAIN buf[r]} : r \in {q \in Stores : dir[q] = d}}

\* A store refused as a bad request or for data that does not fit leaves no
\* trace, in its own directory or in another one; neither does a store whose
\* handler has not come to writing yet.
NoTraceOfRefused ==
  \A d \in Dirs : \A b \in Texts(d) : \A r \in b.has :
    /\ dir[r] = d
    /\ pc[r] \in Writing \cup Stored \cup {"500write", "dead"}

\* Counts of differently shaped data are never added up in one block, even by
\* handlers that race for the file.
ShapesAgree ==
  \A d \in Dirs : \A b \in Texts(d) : \A q, r \in b.has : shape[q] = shape[r]

\* Once no handler is rewriting it, the jscoverage.js of a stored report is a
\* whole copy marked as a report, also after handlers have copied and marked
\* it at the same time.
ReportUsable ==
  \A d \in Dirs \ damaged :
    /\ \E r \in Stores : dir[r] = d /\ pc[r] = "200"
    /\ \A r \in Stores : dir[r] = d => pc[r] \notin {"copywrite", "append"}
    => js[d] # None /\ Len(js[d]) > 1 /\ js[d][1] = "body" /\ js[d][Len(js[d])] = "flag"

\* Every handler that has read its request comes to its answer or dies with the
\* process, also while the body of another request never comes: nobody waits
\* for a client with the mutex held, and no path leaves it locked.
Answered == \A t \in Threads : pc[t] \in {"lockparse", "lockload"} ~> pc[t] \in Final
============================================================================
