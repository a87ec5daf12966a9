------------------------ MODULE CoverageStoreProofs ------------------------
(***************************************************************************)
(* Theorems about CoverageStore for every set of handler threads,          *)
(* directories and shapes and every number of blocks: its types, what the  *)
(* mutex protects, and what a client can rely on.  The files hold all that *)
(* was stored and nothing that was refused, and together with the mutex    *)
(* they are the store ReportStore describes.                               *)
(***************************************************************************)
EXTENDS StoreRefinement, TLAPS

\* A file that a handler has open, or has found, exists.
Opened ==
  \A r \in Stores :
    /\ pc[r] \in {"openread", "read", "lockmerge", "merge"} \cup Writing => json[dir[r]] # None
    /\ pc[r] \in {"copywrite", "append"} => js[dir[r]] # None

TypeInv == TypeOK /\ Opened

\* Writing a block anywhere in a file leaves a sequence of blocks, which has
\* the block in its place and the old blocks in theirs.
LEMMA WriteAtProps ==
  ASSUME NEW f \in Seq(Block), NEW i \in Nat \ {0}, NEW b \in Block
  PROVE  /\ WriteAt(f, i, b) \in Seq(Block)
         /\ Len(WriteAt(f, i, b)) = IF i > Len(f) THEN i ELSE Len(f)
         /\ WriteAt(f, i, b)[i] = b
         /\ \A k \in 1 .. Len(f) : k # i => WriteAt(f, i, b)[k] = f[k]
  <1> DEFINE n == IF i > Len(f) THEN i ELSE Len(f)
  <1>1. n \in Nat /\ i \in 1 .. n /\ \A k \in 1 .. Len(f) : k \in 1 .. n
    OBVIOUS
  <1>2. Hole \in Block
    BY DEF Hole, Block
  <1>3. WriteAt(f, i, b) = [k \in 1 .. n |-> IF k = i THEN b ELSE IF k <= Len(f) THEN f[k] ELSE Hole]
    BY DEF WriteAt
  <1>4. \A k \in 1 .. n : (IF k = i THEN b ELSE IF k <= Len(f) THEN f[k] ELSE Hole) \in Block
    BY <1>2
  <1> HIDE DEF n
  <1>5. WriteAt(f, i, b) \in Seq(Block)
    BY <1>1, <1>3, <1>4
  <1>6. Len(WriteAt(f, i, b)) = n
    BY <1>1, <1>3, <1>5
  <1>7. QED
    BY <1>1, <1>3, <1>5, <1>6 DEF n

\* A block of a document is a block.
LEMMA DocBlockType ==
  ASSUME TypeOK, NEW r \in Stores, NEW k \in Nat
  PROVE  DocBlock(r, k) \in Block
  <1>1. buf[r] \in Seq(Block)
    BY DEF TypeOK
  <1>2. k \in DOMAIN buf[r] => buf[r][k].has \subseteq Stores
    <2>1. k \in DOMAIN buf[r] => buf[r][k] \in Block
      BY <1>1
    <2>2. QED
      BY <2>1 DEF Block
  <1>3. QED
    BY <1>2 DEF DocBlock, Block

\* the types of the program counters
PcOK ==
  /\ pc \in [Threads -> StorePC \cup LoadPC]
  /\ \A r \in Stores : pc[r] \in StorePC
  /\ \A t \in Loads : pc[t] \in LoadPC

\* What a step of a store handler does to the program counters.
LEMMA GotoStore ==
  ASSUME PcOK, NEW r \in Stores, NEW a, NEW b \in StorePC, Goto(r, a, b)
  PROVE  PcOK' /\ pc[r] = a /\ pc'[r] = b /\ \A t \in Threads \ {r} : pc'[t] = pc[t]
  BY StoreAssumption DEF PcOK, Goto, Threads

\* What a step of a load handler does to the program counters.
LEMMA GotoLoad ==
  ASSUME PcOK, NEW r \in Loads, NEW a, NEW b \in LoadPC, Goto(r, a, b)
  PROVE  PcOK' /\ pc[r] = a /\ pc'[r] = b /\ \A t \in Threads \ {r} : pc'[t] = pc[t]
  BY StoreAssumption DEF PcOK, Goto, Threads

\* A thread that ends with the process was active; the others stay as they are.
LEMMA ExitPcs ==
  ASSUME PcOK, ProcessExits
  PROVE  PcOK' /\ \A t \in Threads : pc'[t] = "dead" \/ (pc'[t] = pc[t] /\ ~ Active(t))
  <1>1. "dead" \in StorePC /\ "dead" \in LoadPC
    BY DEF StorePC, LoadPC, Final
  <1>2. QED
    BY <1>1, StoreAssumption DEF PcOK, ProcessExits, Threads

\* the types of everything else
RestOK ==
  /\ up \in BOOLEAN
  /\ dir \in [Stores -> Dirs]
  /\ shape \in [Stores -> Shapes]
  /\ javascript_mutex \in Threads \cup {None}
  /\ statics \in Threads \cup {None}
  /\ dirs \subseteq Dirs
  /\ json \in Files
  /\ js \in [Dirs -> Seq({"body", "flag"}) \cup {None}]
  /\ buf \in [Stores -> Seq(Block)]
  /\ off \in [Stores -> 0 .. Blocks]
  /\ raced \subseteq Dirs /\ damaged \subseteq Dirs
  /\ faults \in 0 .. MaxFaults /\ exits \in 0 .. MaxExits

\* The type invariant is the types of the program counters and of the rest.
LEMMA TypeSplit == TypeOK <=> PcOK /\ RestOK
  BY DEF TypeOK, PcOK, RestOK

\* Writing a block of a document changes one file, and to a text.
LEMMA PutBlockProps ==
  ASSUME RestOK, NEW r \in Stores, json[dir[r]] # None, NEW b \in Block, PutBlock(r, b)
  PROVE  /\ json' \in Files
         /\ json'[dir[r]] = WriteAt(json[dir[r]], off[r] + 1, b)
         /\ json'[dir[r]] # None
         /\ \A d \in Dirs \ {dir[r]} : json'[d] = json[d]
         /\ dirs' = dirs /\ js' = js
  <1>1. json[dir[r]] \in Seq(Block) /\ off[r] + 1 \in Nat \ {0} /\ dir[r] \in Dirs
    BY StoreAssumption DEF RestOK, Files
  <1>2. WriteAt(json[dir[r]], off[r] + 1, b) \in Seq(Block)
    BY <1>1, WriteAtProps
  <1> QED
    BY <1>1, <1>2, NoFileAssumption DEF PutBlock, RestOK, Files

\* An answer leaves the memory of the handler empty.
LEMMA AnswerProps ==
  ASSUME RestOK, NEW r \in Stores, NEW a, NEW b, Answer(r, a, b)
  PROVE  /\ buf' \in [Stores -> Seq(Block)] /\ off' \in [Stores -> 0 .. Blocks]
         /\ dir' = dir /\ shape' = shape
  <1>1. <<>> \in Seq(Block) /\ 0 \in 0 .. Blocks
    BY StoreAssumption
  <1>2. QED
    BY <1>1 DEF RestOK, Answer

\* A failing operation is counted.
LEMMA FaultProps ==
  ASSUME RestOK, Fault
  PROVE  faults' \in 0 .. MaxFaults /\ up' = up /\ exits' = exits
  BY StoreAssumption DEF RestOK, Fault

\* Every step preserves the types of the files and of the memory of the
\* handlers.
LEMMA RestStep == TypeInv /\ [Next]_vars => RestOK'
  <1> SUFFICES ASSUME TypeInv, [Next]_vars PROVE RestOK'
    OBVIOUS
  <1> USE DEF files, engine, local, history, env
  <1>0. RestOK /\ PcOK /\ Opened
    BY TypeSplit DEF TypeInv
  <1>b. \A r \in Stores : \A k \in Nat : DocBlock(r, k) \in Block
    BY DocBlockType DEF TypeInv
  <1>h. Hole \in Block
    BY DEF Hole, Block
  <1>w. \A r \in Stores : pc[r] \in Writing => json[dir[r]] # None
    BY <1>0 DEF Opened
  <1>1. ASSUME NEW r \in Stores, NEW d \in Dirs, Accept(r, d) \/ RejectMethod(r) \/ ReadBody(r)
        PROVE  RestOK'
    BY <1>0, <1>1 DEF RestOK, Accept, RejectMethod, ReadBody
  <1>2. ASSUME NEW t \in Threads, LockJS(t) PROVE RestOK'
    BY <1>0, <1>2 DEF RestOK, LockJS
  <1>3. ASSUME NEW r \in Stores, ParseBody(r) \/ StatRoot(r) \/ StatTarget(r) \/ MakeRoot(r) \/ MakeTarget(r)
        PROVE  RestOK'
    BY <1>0, <1>3, StoreAssumption DEF RestOK, ParseBody, StatRoot, StatTarget, StatDir, MakeRoot, MakeTarget, MakeDir
  <1>4. ASSUME NEW r \in Stores, StatJson(r) \/ OpenRead(r) \/ OpenReadFails(r) PROVE RestOK'
    <2>1. CASE StatJson(r)
      <3>1. raced' \subseteq Dirs
        BY <1>0, <2>1 DEF RestOK, StatJson
      <3> QED
        BY <1>0, <2>1, <3>1 DEF RestOK, StatJson
    <2>2. CASE OpenRead(r)
      BY <1>0, <2>2 DEF RestOK, OpenRead
    <2>3. CASE OpenReadFails(r)
      BY <1>0, <2>3, AnswerProps, FaultProps DEF RestOK, OpenReadFails
    <2> QED
      BY <1>4, <2>1, <2>2, <2>3
  <1>5. ASSUME NEW r \in Stores, ReadBlock(r) PROVE RestOK'
    <2>1. json[dir[r]] \in Seq(Block) /\ buf[r] \in Seq(Block) /\ Len(buf[r]) < Len(json[dir[r]])
      BY <1>0, <1>5 DEF ReadBlock, Goto, RestOK, Files, Opened
    <2>2. json[dir[r]][Len(buf[r]) + 1] \in Block
      BY <2>1
    <2>3. Append(buf[r], json[dir[r]][Len(buf[r]) + 1]) \in Seq(Block)
      BY <2>1, <2>2
    <2> QED
      BY <1>0, <1>5, <2>3 DEF RestOK, ReadBlock
  <1>6. ASSUME NEW r \in Stores, ReadEnd(r) \/ Merge(r) \/ MergeFails(r) PROVE RestOK'
    <2>1. CASE ReadEnd(r) \/ Merge(r)
      BY <1>0, <2>1 DEF RestOK, ReadEnd, Merge
    <2>2. CASE MergeFails(r)
      BY <1>0, <2>2, AnswerProps DEF RestOK, MergeFails
    <2> QED
      BY <1>6, <2>1, <2>2
  <1>7. ASSUME NEW r \in Stores, OpenWrite(r) \/ OpenWriteFails(r) \/ HighlightStart(r) PROVE RestOK'
    <2>1. CASE OpenWrite(r)
      <3>1. <<>> \in Seq(Block)
        OBVIOUS
      <3>2. json' \in Files
        BY <1>0, <2>1, <3>1 DEF RestOK, OpenWrite, Files
      <3> QED
        BY <1>0, <2>1, <3>2 DEF RestOK, OpenWrite
    <2>2. CASE HighlightStart(r)
      BY <1>0, <2>2 DEF RestOK, HighlightStart, Threads
    <2>3. CASE OpenWriteFails(r)
      BY <1>0, <2>3, AnswerProps, FaultProps DEF RestOK, OpenWriteFails
    <2> QED
      BY <1>7, <2>1, <2>2, <2>3
  <1>8. ASSUME NEW r \in Stores, NEW b \in Block, pc[r] \in Writing, PutBlock(r, b) PROVE json' \in Files /\ dirs' = dirs /\ js' = js
    BY <1>0, <1>8, <1>w, PutBlockProps
  <1>9. ASSUME NEW r \in Stores, WriteBlock(r) \/ LoseBlock(r) PROVE RestOK'
    <2>1. off[r] + 1 \in Nat /\ pc[r] \in Writing
      BY <1>0, <1>9 DEF RestOK, WriteBlock, LoseBlock, Goto, Writing
    <2>2. json' \in Files /\ dirs' = dirs /\ js' = js
      BY <1>8, <1>9, <1>b, <1>h, <2>1 DEF WriteBlock, LoseBlock
    <2>3. off' \in [Stores -> 0 .. Blocks]
      <3>1. off[r] + 1 \in 0 .. Blocks /\ off' = [off EXCEPT ![r] = off[r] + 1]
        BY <1>0, <1>9, StoreAssumption DEF RestOK, WriteBlock, LoseBlock
      <3> QED
        BY <1>0, <3>1 DEF RestOK
    <2>4. CASE WriteBlock(r)
      BY <1>0, <2>2, <2>3, <2>4 DEF RestOK, WriteBlock
    <2>5. CASE LoseBlock(r)
      <3>1. damaged' \subseteq Dirs
        BY <1>0, <2>5 DEF RestOK, LoseBlock
      <3> QED
        BY <1>0, <2>2, <2>3, <2>5, <3>1, FaultProps DEF RestOK, LoseBlock
    <2> QED
      BY <1>9, <2>4, <2>5
  <1>10. ASSUME NEW r \in Stores, CloseWrite(r) PROVE RestOK'
    <2>1. pc[r] \in Writing
      BY <1>10 DEF CloseWrite, Answer, Goto, Writing
    <2>2. json' \in Files /\ dirs' = dirs /\ js' = js
      BY <1>8, <1>10, <1>b, <2>1, StoreAssumption DEF CloseWrite
    <2> QED
      <3>1. buf' \in [Stores -> Seq(Block)] /\ off' \in [Stores -> 0 .. Blocks] /\ dir' = dir /\ shape' = shape
        BY <1>0, <1>10, AnswerProps DEF CloseWrite
      <3> QED
        BY <1>0, <1>10, <2>2, <3>1 DEF RestOK, CloseWrite
  <1>11. ASSUME NEW r \in Stores, CloseWriteFails(r) PROVE RestOK'
    <2>1. buf' \in [Stores -> Seq(Block)] /\ off' \in [Stores -> 0 .. Blocks] /\ dir' = dir /\ shape' = shape
      BY <1>0, <1>11, AnswerProps DEF CloseWriteFails
    <2>2. damaged' \subseteq Dirs
      BY <1>0, <1>11 DEF RestOK, CloseWriteFails
    <2> QED
      BY <1>0, <1>11, <2>1, <2>2, FaultProps DEF RestOK, CloseWriteFails
  <1>12. ASSUME NEW r \in Stores, CopyOpen(r) \/ CopyWrite(r) \/ AppendFlag(r) \/ AppendFails(r) PROVE RestOK'
    <2>1. js[dir[r]] # None /\ pc[r] \in {"copywrite", "append"} => js[dir[r]] \in Seq({"body", "flag"})
      BY <1>0 DEF RestOK
    <2>2. pc[r] \in {"copywrite", "append"} => js[dir[r]] # None
      BY <1>0 DEF Opened
    <2>3. ASSUME CopyOpen(r) PROVE RestOK'
      BY <1>0, <2>3 DEF RestOK, CopyOpen
    <2>4. ASSUME CopyWrite(r) PROVE RestOK'
      <3>1. <<"body">> \o SubSeq(js[dir[r]], 2, Len(js[dir[r]])) \in Seq({"body", "flag"})
        BY <2>1, <2>2, <2>4 DEF CopyWrite, Goto
      <3> QED
        BY <1>0, <2>4, <3>1 DEF RestOK, CopyWrite
    <2>5. ASSUME AppendFlag(r) PROVE RestOK'
      <3>1. Append(js[dir[r]], "flag") \in Seq({"body", "flag"})
        BY <2>1, <2>2, <2>5 DEF AppendFlag, Goto
      <3> QED
        BY <1>0, <2>5, <3>1 DEF RestOK, AppendFlag
    <2>6. ASSUME AppendFails(r) PROVE RestOK'
      <3>1. damaged' \subseteq Dirs
        BY <1>0, <2>6 DEF RestOK, AppendFails
      <3> QED
        BY <1>0, <2>6, <3>1, FaultProps DEF RestOK, AppendFails
    <2> QED
      BY <1>12, <2>3, <2>4, <2>5, <2>6
  <1>13. ASSUME NEW t \in Loads, AcceptLoad(t) \/ Instrument(t) PROVE RestOK'
    BY <1>0, <1>13 DEF RestOK, AcceptLoad, Instrument
  <1>14. ASSUME ProcessExits, faults' \in 0 .. MaxFaults, exits' \in 0 .. MaxExits PROVE RestOK'
    <2>1. <<>> \in Seq(Block) /\ 0 \in 0 .. Blocks
      BY StoreAssumption
    <2>2. damaged' \subseteq Dirs
      BY <1>0, <1>14 DEF RestOK, ProcessExits
    <2> QED
      BY <1>0, <1>14, <2>1, <2>2 DEF RestOK, ProcessExits
  <1>f. faults \in 0 .. MaxFaults /\ exits \in 0 .. MaxExits
    BY <1>0 DEF RestOK
  <1>15. ASSUME NEW r \in Stores, MkdirFatal(r) \/ CopyFatal(r) \/ EngineRace(r) PROVE RestOK'
    BY <1>0, <1>14, <1>15, StoreAssumption DEF MkdirFatal, MakeDirFatal, CopyFatal, EngineRace, RestOK
  <1>16. CASE Exit
    BY <1>0, <1>14, <1>16, StoreAssumption DEF Exit, RestOK
  <1>17. CASE Restart \/ UNCHANGED vars
    BY <1>0, <1>17 DEF Restart, vars, RestOK
  <1>18. ASSUME NEW r \in Stores, StoreStep(r) PROVE RestOK'
    <2>1. r \in Threads /\ Root \in Dirs
      BY StoreAssumption DEF Threads
    <2> QED
      BY <1>1, <1>2, <1>3, <1>4, <1>5, <1>6, <1>7, <1>9, <1>10, <1>12, <1>15, <1>18, <2>1 DEF StoreStep, StoreWork
  <1>19. ASSUME NEW r \in Stores, StoreFault(r) PROVE RestOK'
    BY <1>4, <1>7, <1>9, <1>11, <1>12, <1>15, <1>19 DEF StoreFault
  <1>20. ASSUME NEW t \in Loads, LoadStep(t) PROVE RestOK'
    BY <1>2, <1>13, <1>20 DEF LoadStep, Threads
  <1>21. Root \in Dirs
    BY StoreAssumption
  <1> QED
    BY <1>1, <1>13, <1>15, <1>16, <1>17, <1>18, <1>19, <1>20, <1>21 DEF Next

----------------------------------------------------------------------------
\* Every step moves the handlers between the places they can be in.
LEMMA PcStep == TypeInv /\ [Next]_vars => PcOK'
  <1> SUFFICES ASSUME TypeInv, [Next]_vars PROVE PcOK'
    OBVIOUS
  <1>0. PcOK
    BY TypeSplit DEF TypeInv
  <1>s. {"body", "lockparse", "parse", "statroot", "mkroot", "statdir", "mkdir", "statjson",
         "openread", "read", "lockmerge", "merge", "openwrite", "write", "highlight", "copy",
         "copywrite", "append", "200", "400", "405", "500merge", "500write", "500append"} \subseteq StorePC
    BY DEF StorePC, Window, Reading, Writing, Stored, Final
  <1>l. {"lockload", "instrument", "200"} \subseteq LoadPC
    BY DEF LoadPC
  <1>g. ASSUME NEW r \in Stores, NEW a, NEW b \in StorePC, Goto(r, a, b) PROVE PcOK'
    BY <1>0, <1>g, GotoStore
  <1>1. ASSUME NEW r \in Stores, NEW d \in Dirs, Accept(r, d) \/ RejectMethod(r) \/ ReadBody(r)
        PROVE  PcOK'
    BY <1>1, <1>g, <1>s DEF Accept, RejectMethod, ReadBody
  <1>2. ASSUME NEW t \in Threads, LockJS(t) PROVE PcOK'
    <2>1. CASE t \in Stores
      BY <1>2, <1>g, <1>s, <2>1, StoreAssumption DEF LockJS
    <2>2. CASE t \in Loads
      BY <1>0, <1>2, <1>l, <2>2, GotoLoad, StoreAssumption DEF LockJS
    <2> QED
      BY <2>1, <2>2 DEF Threads
  <1>3. ASSUME NEW r \in Stores, ParseBody(r) \/ StatRoot(r) \/ StatTarget(r) \/ MakeRoot(r) \/ MakeTarget(r)
        PROVE  PcOK'
    BY <1>3, <1>g, <1>s DEF ParseBody, StatRoot, StatTarget, StatDir, MakeRoot, MakeTarget, MakeDir
  <1>4. ASSUME NEW r \in Stores, StatJson(r) \/ OpenRead(r) \/ OpenReadFails(r) \/ ReadBlock(r) \/ ReadEnd(r)
        PROVE  PcOK'
    BY <1>4, <1>g, <1>s DEF StatJson, OpenRead, OpenReadFails, ReadBlock, ReadEnd, Answer
  <1>5. ASSUME NEW r \in Stores, Merge(r) \/ MergeFails(r) \/ OpenWrite(r) \/ OpenWriteFails(r) \/ HighlightStart(r)
        PROVE  PcOK'
    BY <1>5, <1>g, <1>s DEF Merge, MergeFails, OpenWrite, OpenWriteFails, HighlightStart, Answer
  <1>6. ASSUME NEW r \in Stores, WriteBlock(r) \/ LoseBlock(r) \/ CloseWrite(r) \/ CloseWriteFails(r)
        PROVE  PcOK'
    BY <1>6, <1>g, <1>s DEF WriteBlock, LoseBlock, CloseWrite, CloseWriteFails, Answer
  <1>7. ASSUME NEW r \in Stores, CopyOpen(r) \/ CopyWrite(r) \/ AppendFlag(r) \/ AppendFails(r)
        PROVE  PcOK'
    BY <1>7, <1>g, <1>s DEF CopyOpen, CopyWrite, AppendFlag, AppendFails
  <1>8. ASSUME NEW t \in Loads, AcceptLoad(t) \/ Instrument(t) PROVE PcOK'
    BY <1>0, <1>8, <1>l, GotoLoad DEF AcceptLoad, Instrument
  <1>9. ASSUME ProcessExits PROVE PcOK'
    BY <1>0, <1>9, ExitPcs
  <1>10. ASSUME NEW r \in Stores, MkdirFatal(r) \/ CopyFatal(r) \/ EngineRace(r) \/ Exit PROVE PcOK'
    BY <1>9, <1>10 DEF MkdirFatal, MakeDirFatal, CopyFatal, EngineRace, Exit
  <1>11. CASE Exit
    BY <1>9, <1>11 DEF Exit
  <1>12. CASE Restart \/ UNCHANGED vars
    BY <1>0, <1>12 DEF Restart, vars, PcOK
  <1>13. ASSUME NEW r \in Stores, StoreStep(r) PROVE PcOK'
    <2>1. r \in Threads /\ Root \in Dirs
      BY StoreAssumption DEF Threads
    <2> QED
      BY <1>1, <1>2, <1>3, <1>4, <1>5, <1>6, <1>7, <1>10, <1>13, <2>1 DEF StoreStep, StoreWork
  <1>14. ASSUME NEW r \in Stores, StoreFault(r) PROVE PcOK'
    BY <1>4, <1>5, <1>6, <1>7, <1>10, <1>14 DEF StoreFault
  <1>15. ASSUME NEW t \in Loads, LoadStep(t) PROVE PcOK'
    BY <1>2, <1>8, <1>15 DEF LoadStep, Threads
  <1>16. Root \in Dirs
    BY StoreAssumption
  <1> QED
    BY <1>1, <1>8, <1>10, <1>11, <1>12, <1>13, <1>14, <1>15, <1>16 DEF Next

\* An update that has a file open keeps it; only fopen makes a file.
LEMMA OpenedStep == TypeInv /\ [Next]_vars => Opened'
  <1> SUFFICES ASSUME TypeInv, [Next]_vars PROVE Opened'
    OBVIOUS
  <1> USE DEF files, engine, local, history, env
  <1>0. RestOK /\ PcOK /\ Opened
    BY TypeSplit DEF TypeInv
  <1>w. Writing = {"write", "highlight"}
    BY DEF Writing
  <1> DEFINE J == {"openread", "read", "lockmerge", "merge"} \cup Writing
             A == {"copywrite", "append"}
  <1>o. \A r \in Stores : (pc[r] \in J => json[dir[r]] # None) /\ (pc[r] \in A => js[dir[r]] # None)
    BY <1>0 DEF Opened
  <1>d. \A r \in Stores : dir[r] \in Dirs
    BY <1>0 DEF RestOK
  <1>g. ASSUME NEW r \in Stores, NEW a, NEW b \in StorePC, Goto(r, a, b),
               \A d \in Dirs : (json[d] # None => json'[d] # None) /\ (js[d] # None => js'[d] # None),
               dir' = dir,
               b \in J => a \in J \/ json'[dir[r]] # None,
               b \in A => a \in A \/ js'[dir[r]] # None
        PROVE  Opened'
    <2>1. pc[r] = a /\ pc'[r] = b /\ \A t \in Threads \ {r} : pc'[t] = pc[t]
      BY <1>0, <1>g, GotoStore
    <2> HIDE DEF J, A
    <2>2. \A q \in Stores : (pc'[q] \in J => json'[dir[q]] # None) /\ (pc'[q] \in A => js'[dir[q]] # None)
      BY <1>g, <1>d, <1>o, <2>1 DEF Threads
    <2> QED
      BY <1>g, <2>2 DEF Opened, J, A
  <1>s. {"body", "lockparse", "parse", "statroot", "mkroot", "statdir", "mkdir", "statjson",
         "openread", "read", "lockmerge", "merge", "openwrite", "write", "highlight", "copy",
         "copywrite", "append", "200", "400", "405", "500merge", "500write", "500append"} \subseteq StorePC
    BY DEF StorePC, Window, Reading, Writing, Stored, Final
  <1>1. ASSUME NEW r \in Stores, NEW d \in Dirs, Accept(r, d) PROVE Opened'
    <2>1. pc'[r] = "body" /\ \A t \in Threads \ {r} : pc'[t] = pc[t]
      BY <1>0, <1>1, <1>s, GotoStore DEF Accept
    <2>2. \A q \in Stores \ {r} : dir'[q] = dir[q]
      BY <1>0, <1>1 DEF Accept, RestOK
    <2> QED
      BY <1>0, <1>1, <1>w, <2>1, <2>2 DEF Opened, Accept, Threads
  <1>2. ASSUME NEW r \in Stores, RejectMethod(r) \/ ReadBody(r) PROVE Opened'
    BY <1>2, <1>g, <1>s, <1>w DEF RejectMethod, ReadBody
  <1>3. ASSUME NEW t \in Threads, LockJS(t) PROVE Opened'
    <2>1. CASE t \in Stores
      BY <1>3, <1>g, <1>s, <1>w, <2>1, StoreAssumption DEF LockJS
    <2>2. CASE t \in Loads
      <3>1. \A q \in Stores : pc'[q] = pc[q]
        BY <1>0, <1>3, <2>2, GotoLoad, StoreAssumption DEF LockJS, LoadPC, Threads
      <3> QED
        BY <1>0, <1>3, <3>1 DEF Opened, LockJS
    <2> QED
      BY <2>1, <2>2 DEF Threads
  <1>4. ASSUME NEW r \in Stores, ParseBody(r) \/ StatRoot(r) \/ StatTarget(r) \/ MakeRoot(r) \/ MakeTarget(r)
        PROVE  Opened'
    BY <1>4, <1>g, <1>s, <1>w DEF ParseBody, StatRoot, StatTarget, StatDir, MakeRoot, MakeTarget, MakeDir
  <1>5. ASSUME NEW r \in Stores, StatJson(r) \/ OpenRead(r) \/ OpenReadFails(r) \/ ReadBlock(r) \/ ReadEnd(r)
        PROVE  Opened'
    BY <1>5, <1>g, <1>s, <1>w DEF StatJson, OpenRead, OpenReadFails, ReadBlock, ReadEnd, Answer
  <1>6. ASSUME NEW r \in Stores, Merge(r) \/ MergeFails(r) \/ OpenWriteFails(r) \/ HighlightStart(r)
        PROVE  Opened'
    BY <1>6, <1>g, <1>s, <1>w DEF Merge, MergeFails, OpenWriteFails, HighlightStart, Answer
  <1>7. ASSUME NEW r \in Stores, OpenWrite(r) PROVE Opened'
    <2>1. <<>> # None
      <3>1. <<>> \in Seq(Block)
        OBVIOUS
      <3> QED
        BY <3>1, NoFileAssumption
    <2>2. json'[dir[r]] = <<>> /\ (\A d \in Dirs \ {dir[r]} : json'[d] = json[d]) /\ js' = js
      BY <1>0, <1>7 DEF OpenWrite, RestOK, Files
    <2> QED
      BY <1>7, <1>g, <1>s, <1>w, <2>1, <2>2 DEF OpenWrite
  <1>8. ASSUME NEW r \in Stores, WriteBlock(r) \/ LoseBlock(r) \/ CloseWrite(r) PROVE Opened'
    <2>1. pc[r] \in Writing
      BY <1>8, <1>w DEF WriteBlock, LoseBlock, CloseWrite, Answer, Goto
    <2>2. PICK b \in Block : PutBlock(r, b)
      <3>1. off[r] + 1 \in Nat /\ Blocks \in Nat
        BY <1>0, StoreAssumption DEF RestOK
      <3>2. DocBlock(r, off[r] + 1) \in Block /\ DocBlock(r, Blocks) \in Block
        BY <3>1, DocBlockType DEF TypeInv
      <3>3. Hole \in Block
        BY DEF Hole, Block
      <3> QED
        BY <1>8, <3>2, <3>3 DEF WriteBlock, LoseBlock, CloseWrite
    <2>3. json'[dir[r]] # None /\ (\A d \in Dirs \ {dir[r]} : json'[d] = json[d]) /\ js' = js
      BY <1>0, <1>w, <2>1, <2>2, PutBlockProps DEF Opened
    <2> QED
      BY <1>8, <1>g, <1>s, <1>w, <2>1, <2>3 DEF WriteBlock, LoseBlock, CloseWrite, Answer
  <1>9. ASSUME NEW r \in Stores, CloseWriteFails(r) PROVE Opened'
    BY <1>9, <1>g, <1>s, <1>w DEF CloseWriteFails, Answer
  <1>10. ASSUME NEW r \in Stores, CopyOpen(r) \/ CopyWrite(r) \/ AppendFlag(r) PROVE Opened'
    <2>1. js' \in [Dirs -> Seq({"body", "flag"}) \cup {None}]
      BY <1>10, RestStep DEF RestOK, Next, StoreStep, StoreWork
    <2>2. js'[dir[r]] \in Seq({"body", "flag"})
      <3>1. pc[r] \in A => js[dir[r]] \in Seq({"body", "flag"})
        BY <1>0, <1>o, <1>d DEF RestOK
      <3>2. CASE CopyOpen(r)
        <4>1. js'[dir[r]] = <<>>
          BY <1>0, <1>d, <3>2 DEF CopyOpen, RestOK
        <4> QED
          BY <4>1
      <3>3. CASE CopyWrite(r)
        <4>1. js'[dir[r]] = <<"body">> \o SubSeq(js[dir[r]], 2, Len(js[dir[r]])) /\ pc[r] \in A
          BY <1>0, <1>d, <3>3 DEF CopyWrite, RestOK, Goto
        <4> QED
          BY <3>1, <4>1
      <3>4. CASE AppendFlag(r)
        <4>1. js'[dir[r]] = Append(js[dir[r]], "flag") /\ pc[r] \in A
          BY <1>0, <1>d, <3>4 DEF AppendFlag, RestOK, Goto
        <4> QED
          BY <3>1, <4>1
      <3> QED
        BY <1>10, <3>2, <3>3, <3>4
    <2>3. js'[dir[r]] # None
      BY <2>2, NoFileAssumption
    <2>4. \A d \in Dirs \ {dir[r]} : js'[d] = js[d]
      BY <1>0, <1>10 DEF CopyOpen, CopyWrite, AppendFlag, RestOK
    <2> QED
      BY <1>10, <1>g, <1>s, <1>w, <2>3, <2>4 DEF CopyOpen, CopyWrite, AppendFlag
  <1>11. ASSUME NEW r \in Stores, AppendFails(r) PROVE Opened'
    BY <1>11, <1>g, <1>s, <1>w DEF AppendFails
  <1>12. ASSUME NEW t \in Loads, AcceptLoad(t) \/ Instrument(t) PROVE Opened'
    <2>1. \A q \in Stores : pc'[q] = pc[q]
      BY <1>0, <1>12, GotoLoad, StoreAssumption DEF AcceptLoad, Instrument, LoadPC, Threads
    <2> QED
      BY <1>0, <1>12, <2>1 DEF Opened, AcceptLoad, Instrument
  <1>13. ASSUME ProcessExits PROVE Opened'
    <2>1. \A q \in Stores : pc'[q] = "dead" \/ pc'[q] = pc[q]
      BY <1>0, <1>13, ExitPcs DEF Threads
    <2> QED
      BY <1>0, <1>13, <1>w, <2>1 DEF Opened, ProcessExits
  <1>14. ASSUME NEW r \in Stores, MkdirFatal(r) \/ CopyFatal(r) \/ EngineRace(r) PROVE Opened'
    BY <1>13, <1>14 DEF MkdirFatal, MakeDirFatal, CopyFatal, EngineRace
  <1>15. CASE Exit
    BY <1>13, <1>15 DEF Exit
  <1>16. CASE Restart \/ UNCHANGED vars
    BY <1>0, <1>16 DEF Restart, vars, Opened
  <1>17. ASSUME NEW r \in Stores, StoreStep(r) PROVE Opened'
    <2>1. r \in Threads
      BY DEF Threads
    <2> QED
      BY <1>2, <1>3, <1>4, <1>5, <1>6, <1>7, <1>8, <1>10, <1>14, <1>17, <2>1 DEF StoreStep, StoreWork
  <1>18. ASSUME NEW r \in Stores, StoreFault(r) PROVE Opened'
    BY <1>5, <1>6, <1>8, <1>9, <1>11, <1>14, <1>18 DEF StoreFault
  <1>19. ASSUME NEW t \in Loads, LoadStep(t) PROVE Opened'
    BY <1>3, <1>12, <1>19 DEF LoadStep, Threads
  <1> QED
    BY <1>1, <1>2, <1>12, <1>14, <1>15, <1>16, <1>17, <1>18, <1>19 DEF Next

\* The initial state has the types and nothing open.
LEMMA TypeInit == Init => TypeInv
  <1> SUFFICES ASSUME Init PROVE TypeInv
    OBVIOUS
  <1>1. "idle" \in StorePC /\ "idle" \in LoadPC /\ <<>> \in Seq(Block)
    BY DEF StorePC, LoadPC
  <1>2. PcOK
    BY <1>1 DEF Init, PcOK, Threads
  <1>3. RestOK
    BY <1>1, StoreAssumption DEF Init, RestOK, Files
  <1>4. Opened
    BY DEF Init, Opened, Writing, Threads
  <1> QED
    BY <1>2, <1>3, <1>4, TypeSplit DEF TypeInv

\* The type invariant is inductive.
LEMMA TypeStep == TypeInv /\ [Next]_vars => TypeInv'
  <1> SUFFICES ASSUME TypeInv, [Next]_vars PROVE TypeInv'
    OBVIOUS
  <1>1. PcOK' /\ RestOK'
    BY PcStep, RestStep
  <1>2. TypeOK'
    BY <1>1 DEF TypeOK, PcOK, RestOK
  <1> QED
    BY <1>2, OpenedStep DEF TypeInv

\* In every run with any handlers, directories, faults and exits every variable
\* keeps its type, and a handler uses only files that exist.
THEOREM TypeCorrect == Spec => []TypeInv
  <1> QED
    BY TypeInit, TypeStep, PTL DEF Spec

\* In every run every variable keeps its type; in particular a document never
\* gets more than Blocks blocks and no count of faults is exceeded.
THEOREM TypeSafe == Spec => []TypeOK
  <1>1. TypeInv => TypeOK
    BY DEF TypeInv
  <1> QED
    BY <1>1, TypeCorrect, PTL

----------------------------------------------------------------------------
\* the parts of the engine that the mutex guards
Guarded == {"parse", "merge", "instrument"}

\* A step of one thread between places outside the guarded parts keeps the
\* discipline.
LEMMA OutsideGuarded ==
  ASSUME PcOK, MutexDiscipline, NEW t \in Threads, NEW a, NEW b,
         pc[t] = a, pc'[t] = b, \A u \in Threads \ {t} : pc'[u] = pc[u],
         a \notin Guarded, b \notin Guarded, javascript_mutex' = javascript_mutex
  PROVE  MutexDiscipline'
  BY DEF MutexDiscipline, Guarded

\* A thread that leaves a guarded part and gives the mutex back keeps the
\* discipline: it was the holder.
LEMMA LeaveGuarded ==
  ASSUME PcOK, MutexDiscipline, NEW t \in Threads,
         pc[t] \in Guarded, pc'[t] \notin Guarded, \A u \in Threads \ {t} : pc'[u] = pc[u],
         javascript_mutex' = None
  PROVE  MutexDiscipline'
  <1>1. javascript_mutex = t
    BY DEF MutexDiscipline, Guarded
  <1>2. \A u \in Threads \ {t} : pc[u] \notin Guarded
    BY <1>1 DEF MutexDiscipline, Guarded
  <1>3. \A u \in Threads : u # None
    BY StoreAssumption DEF Threads
  <1> QED
    BY <1>2, <1>3 DEF MutexDiscipline, Guarded

\* Every step keeps the discipline of the mutex.
LEMMA MutexStep == TypeInv /\ MutexDiscipline /\ [Next]_vars => MutexDiscipline'
  <1> SUFFICES ASSUME TypeInv, MutexDiscipline, [Next]_vars PROVE MutexDiscipline'
    OBVIOUS
  <1> USE DEF files, engine, local, history, env
  <1>0. PcOK
    BY TypeSplit DEF TypeInv
  <1>s. {"body", "lockparse", "parse", "statroot", "mkroot", "statdir", "mkdir", "statjson",
         "openread", "read", "lockmerge", "merge", "openwrite", "write", "highlight", "copy",
         "copywrite", "append", "200", "400", "405", "500merge", "500write", "500append"} \subseteq StorePC
    BY DEF StorePC, Window, Reading, Writing, Stored, Final
  <1>l. {"lockload", "instrument", "200"} \subseteq LoadPC
    BY DEF LoadPC
  <1>t. Stores \subseteq Threads /\ Loads \subseteq Threads
    BY DEF Threads
  <1>m. Guarded = {"parse", "merge", "instrument"}
    BY DEF Guarded
  <1>o. ASSUME NEW r \in Stores, NEW a, NEW b \in StorePC, Goto(r, a, b),
               a \notin Guarded, b \notin Guarded, javascript_mutex' = javascript_mutex
        PROVE  MutexDiscipline'
    BY <1>0, <1>o, <1>t, GotoStore, OutsideGuarded
  <1>v. ASSUME NEW r \in Stores, NEW a, NEW b \in StorePC, Goto(r, a, b),
               a \in Guarded, b \notin Guarded, javascript_mutex' = None
        PROVE  MutexDiscipline'
    BY <1>0, <1>v, <1>t, GotoStore, LeaveGuarded
  <1>1. ASSUME NEW r \in Stores, NEW d \in Dirs, Accept(r, d) \/ RejectMethod(r) \/ ReadBody(r)
        PROVE  MutexDiscipline'
    BY <1>1, <1>o, <1>s, <1>m DEF Accept, RejectMethod, ReadBody
  <1>2. ASSUME NEW t \in Threads, LockJS(t) PROVE MutexDiscipline'
    <2>1. pc'[t] \in Guarded /\ \A u \in Threads \ {t} : pc'[u] = pc[u]
      <3>1. CASE t \in Stores
        BY <1>0, <1>2, <1>m, <1>s, <3>1, GotoStore, StoreAssumption DEF LockJS
      <3>2. CASE t \in Loads
        BY <1>0, <1>2, <1>m, <1>l, <3>2, GotoLoad, StoreAssumption DEF LockJS
      <3> QED
        BY <3>1, <3>2 DEF Threads
    <2>2. javascript_mutex = None /\ javascript_mutex' = t
      BY <1>2 DEF LockJS
    <2>3. \A u \in Threads : pc[u] \notin Guarded
      <3>1. \A u \in Threads : u # None
        BY StoreAssumption DEF Threads
      <3> QED
        BY <2>2, <3>1 DEF MutexDiscipline, Guarded
    <2> QED
      BY <2>1, <2>2, <2>3 DEF MutexDiscipline, Guarded
  <1>3. ASSUME NEW r \in Stores, ParseBody(r) \/ Merge(r) \/ MergeFails(r) PROVE MutexDiscipline'
    BY <1>3, <1>v, <1>s, <1>m DEF ParseBody, Merge, MergeFails, Answer
  <1>4. ASSUME NEW r \in Stores, StatRoot(r) \/ StatTarget(r) \/ MakeRoot(r) \/ MakeTarget(r)
        PROVE  MutexDiscipline'
    BY <1>4, <1>o, <1>s, <1>m DEF StatRoot, StatTarget, StatDir, MakeRoot, MakeTarget, MakeDir
  <1>5. ASSUME NEW r \in Stores, StatJson(r) \/ OpenRead(r) \/ OpenReadFails(r) \/ ReadBlock(r) \/ ReadEnd(r)
        PROVE  MutexDiscipline'
    BY <1>5, <1>o, <1>s, <1>m DEF StatJson, OpenRead, OpenReadFails, ReadBlock, ReadEnd, Answer
  <1>6. ASSUME NEW r \in Stores, OpenWrite(r) \/ OpenWriteFails(r) \/ HighlightStart(r)
        PROVE  MutexDiscipline'
    BY <1>6, <1>o, <1>s, <1>m DEF OpenWrite, OpenWriteFails, HighlightStart, Answer
  <1>7. ASSUME NEW r \in Stores, WriteBlock(r) \/ LoseBlock(r) \/ CloseWrite(r) \/ CloseWriteFails(r)
        PROVE  MutexDiscipline'
    BY <1>7, <1>o, <1>s, <1>m DEF WriteBlock, LoseBlock, CloseWrite, CloseWriteFails, Answer
  <1>8. ASSUME NEW r \in Stores, CopyOpen(r) \/ CopyWrite(r) \/ AppendFlag(r) \/ AppendFails(r)
        PROVE  MutexDiscipline'
    BY <1>8, <1>o, <1>s, <1>m DEF CopyOpen, CopyWrite, AppendFlag, AppendFails
  <1>9. ASSUME NEW t \in Loads, AcceptLoad(t) PROVE MutexDiscipline'
    <2>1. pc[t] = "idle" /\ pc'[t] = "lockload" /\ \A u \in Threads \ {t} : pc'[u] = pc[u]
      BY <1>0, <1>9, <1>l, GotoLoad DEF AcceptLoad
    <2> QED
      BY <1>0, <1>9, <1>t, <1>m, <2>1, OutsideGuarded DEF AcceptLoad
  <1>10. ASSUME NEW t \in Loads, Instrument(t) PROVE MutexDiscipline'
    <2>1. pc[t] = "instrument" /\ pc'[t] = "200" /\ \A u \in Threads \ {t} : pc'[u] = pc[u]
      BY <1>0, <1>10, <1>l, GotoLoad DEF Instrument
    <2> QED
      BY <1>0, <1>10, <1>t, <1>m, <2>1, LeaveGuarded DEF Instrument
  <1>11. ASSUME ProcessExits PROVE MutexDiscipline'
    <2>1. \A t \in Threads : pc'[t] = "dead" \/ (pc'[t] = pc[t] /\ ~ Active(t))
      BY <1>0, <1>11, ExitPcs
    <2>2. \A t \in Threads : ~ Active(t) => pc[t] \notin Guarded
      BY DEF Active, Final, Guarded
    <2>3. \A t \in Threads : t # None
      BY StoreAssumption DEF Threads
    <2> QED
      BY <1>11, <2>1, <2>2, <2>3 DEF MutexDiscipline, ProcessExits, Guarded
  <1>12. ASSUME NEW r \in Stores, MkdirFatal(r) \/ CopyFatal(r) \/ EngineRace(r) PROVE MutexDiscipline'
    BY <1>11, <1>12 DEF MkdirFatal, MakeDirFatal, CopyFatal, EngineRace
  <1>13. CASE Exit
    BY <1>11, <1>13 DEF Exit
  <1>14. CASE Restart \/ UNCHANGED vars
    BY <1>14 DEF Restart, vars, MutexDiscipline
  <1>15. ASSUME NEW r \in Stores, StoreStep(r) PROVE MutexDiscipline'
    <2>1. r \in Threads /\ Root \in Dirs
      BY StoreAssumption DEF Threads
    <2> QED
      BY <1>1, <1>2, <1>3, <1>4, <1>5, <1>6, <1>7, <1>8, <1>12, <1>15, <2>1 DEF StoreStep, StoreWork
  <1>16. ASSUME NEW r \in Stores, StoreFault(r) PROVE MutexDiscipline'
    BY <1>5, <1>6, <1>7, <1>8, <1>12, <1>16 DEF StoreFault
  <1>17. ASSUME NEW t \in Loads, LoadStep(t) PROVE MutexDiscipline'
    BY <1>2, <1>10, <1>17, <1>t DEF LoadStep
  <1>18. Root \in Dirs
    BY StoreAssumption
  <1> QED
    BY <1>1, <1>9, <1>12, <1>13, <1>14, <1>15, <1>16, <1>17, <1>18 DEF Next

\* In every run a thread is inside a guarded part of the engine exactly while it
\* holds javascript_mutex: no two of them parse, merge or instrument at once, and
\* no path out of them forgets the UNLOCK.
THEOREM MutexCorrect == Spec => []MutexDiscipline
  <1>1. Init => TypeInv /\ MutexDiscipline
    <2>1. Init => MutexDiscipline
      BY StoreAssumption DEF Init, MutexDiscipline, Threads
    <2> QED
      BY <2>1, TypeInit
  <1>2. TypeInv /\ MutexDiscipline /\ [Next]_vars => (TypeInv /\ MutexDiscipline)'
    BY TypeStep, MutexStep
  <1> QED
    BY <1>1, <1>2, PTL DEF Spec

----------------------------------------------------------------------------
(***************************************************************************)
(* CoverageStore!Durable for any number of store handlers, directories and *)
(* blocks: while no two handlers update a directory at once and no update  *)
(* of it is cut short, it loses nothing.                                   *)
(*                                                                         *)
(* Durable alone is not inductive: a handler that is about to rewrite the  *)
(* file must be known to carry everything that is stored, which goes back  *)
(* to what it read (Memory), to its being alone with the file (Alone) and  *)
(* to its having started with an empty buffer (Fresh).                     *)
(***************************************************************************)

\* handlers that have read the old file, if there was one
Loaded == {"lockmerge", "merge", "openwrite"} \cup Writing

Intact == Dirs \ (raced \cup damaged)

\* No handler starts with data or a position of an earlier request.
Fresh ==
  \A r \in Stores :
    /\ pc[r] \notin Loaded \cup {"read"} => buf[r] = <<>>
    /\ pc[r] \notin Writing => off[r] = 0

\* One handler at a time is between finding and closing the file of d.
Alone(d) ==
  \A q, r \in Stores :
    dir[q] = d /\ dir[r] = d /\ pc[q] \in Window /\ pc[r] \in Window => q = r

\* Handler r carries the counts of every store of d.
Carries(r, d) ==
  \A q \in StoredIn(d) : \A k \in 1 .. Blocks : k \in DOMAIN buf[r] /\ q \in buf[r][k].has

\* What handler r has read of the file of d and written to it.
Memory(r, d) ==
  /\ pc[r] = "read" =>
       \A k \in DOMAIN buf[r] : k \in DOMAIN json[d] /\ buf[r][k] = json[d][k]
  /\ pc[r] \in Loaded => Carries(r, d)
  /\ pc[r] \in Writing =>
       \A k \in 1 .. off[r] :
         /\ k \in DOMAIN json[d]
         /\ {r} \cup StoredIn(d) \subseteq json[d][k].has

Kept(d) == Quiet(d) => \A r \in StoredIn(d) : Contains(d, r)

DirInv(d) ==
  /\ Alone(d)
  /\ Kept(d)
  /\ \A r \in Stores : dir[r] = d => Memory(r, d)

DurableInv == Fresh /\ \A d \in Intact : DirInv(d)

----------------------------------------------------------------------------
\* The phases of a handler do not overlap.
LEMMA Phases ==
  /\ Window \cap Stored = {}
  /\ Writing \subseteq Loaded /\ Loaded \subseteq Window /\ "read" \in Window
  /\ {"read", "openread", "lockmerge", "merge", "openwrite"} \cap Writing = {}
  /\ {"read", "openread"} \cap Loaded = {}
  BY DEF Window, Reading, Writing, Stored, Loaded

\* A step keeps the invariant of directory d if it leaves its file and the
\* handlers that are updating it alone, starts no update of it, stores nothing
\* in it, and ends none of its rewritings.
LEMMA Frame ==
  ASSUME NEW d, DirInv(d), json'[d] = json[d],
         \A q \in Stores : dir'[q] = d /\ pc'[q] \in Window =>
            dir[q] = d /\ pc[q] = pc'[q] /\ buf'[q] = buf[q] /\ off'[q] = off[q],
         \A q \in Stores : dir'[q] = d /\ pc'[q] \in Stored => dir[q] = d /\ pc[q] \in Stored,
         \A q \in Stores : dir[q] = d /\ pc[q] \in Writing => dir'[q] = d /\ pc'[q] \in Writing
  PROVE  DirInv(d)'
  <1>1. Alone(d)'
    BY DEF DirInv, Alone
  <1>2. StoredIn(d)' \subseteq StoredIn(d)
    BY DEF StoredIn
  <1>3. Kept(d)'
    <2>1. Quiet(d)' => Quiet(d)
      BY DEF Quiet
    <2> QED
      BY <1>2, <2>1 DEF DirInv, Kept, Contains
  <1>4. ASSUME NEW r \in Stores, dir'[r] = d PROVE Memory(r, d)'
    <2>1. CASE pc'[r] \notin Window
      BY <2>1, Phases DEF Memory
    <2>2. CASE pc'[r] \in Window
      <3>1. Memory(r, d) /\ pc[r] = pc'[r] /\ buf'[r] = buf[r] /\ off'[r] = off[r]
        BY <1>4, <2>2 DEF DirInv
      <3>2. Carries(r, d) => Carries(r, d)'
        BY <1>2, <3>1 DEF Carries
      <3> QED
        BY <1>2, <3>1, <3>2 DEF Memory
    <2> QED
      BY <2>1, <2>2
  <1> QED
    BY <1>1, <1>3, <1>4 DEF DirInv

\* A step of a handler keeps the invariants of the directories it does not name.
LEMMA OtherDirs ==
  ASSUME TypeOK, NEW r \in Stores, NEW d \in Dirs, d # dir[r], DirInv(d),
         dir' = dir, \A q \in Stores \ {r} : pc'[q] = pc[q] /\ buf'[q] = buf[q] /\ off'[q] = off[q],
         json'[d] = json[d]
  PROVE  DirInv(d)'
  <1>1. \A q \in Stores : dir[q] = d => q # r
    OBVIOUS
  <1> QED
    BY <1>1, Frame

\* An update of its own directory goes on: the handler is the only one there,
\* what it knows is given, and the file changes only when it is rewriting it.
LEMMA Progress ==
  ASSUME TypeOK, NEW r \in Stores, NEW d, d = dir[r], DirInv(d),
         dir' = dir, \A q \in Stores \ {r} : pc'[q] = pc[q] /\ buf'[q] = buf[q] /\ off'[q] = off[q],
         pc[r] \notin Stored, pc'[r] \in Window,
         pc[r] \in Window \/ \A q \in Stores \ {r} : dir[q] = d => pc[q] \notin Window,
         pc'[r] \in Writing \/ (json'[d] = json[d] /\ pc[r] \notin Writing),
         Memory(r, d)'
  PROVE  DirInv(d)'
  <1>1. \A q \in Stores \ {r} : dir[q] = d => pc'[q] \notin Window
    BY DEF DirInv, Alone
  <1>2. Alone(d)'
    BY <1>1 DEF Alone
  <1>3. \A q \in Stores : dir'[q] = d => Memory(q, d)'
    BY <1>1, Phases DEF Memory
  <1>4. Kept(d)'
    <2>1. CASE pc'[r] \in Writing
      BY <2>1 DEF Kept, Quiet
    <2>2. CASE pc'[r] \notin Writing
      <3>1. StoredIn(d)' = StoredIn(d)
        BY Phases DEF StoredIn
      <3>2. Quiet(d)' => Quiet(d)
        BY <2>2 DEF Quiet
      <3> QED
        BY <2>2, <3>1, <3>2 DEF DirInv, Kept, Contains
    <2> QED
      BY <2>1, <2>2
  <1> QED
    BY <1>2, <1>3, <1>4 DEF DirInv

\* A handler of d that has not come to its file, or that has stored its data,
\* moves without reaching the file.
LEMMA Aside ==
  ASSUME TypeOK, NEW r \in Stores, NEW d, DirInv(d),
         dir' = dir, \A q \in Stores \ {r} : pc'[q] = pc[q] /\ buf'[q] = buf[q] /\ off'[q] = off[q],
         pc[r] \notin Writing, pc'[r] \notin Window, pc'[r] \in Stored => pc[r] \in Stored,
         json'[d] = json[d]
  PROVE  DirInv(d)'
  BY Frame

----------------------------------------------------------------------------
\* A step that moves one handler keeps Fresh if that handler does.
LEMMA FreshGo ==
  ASSUME Fresh, NEW r \in Stores,
         \A q \in Stores \ {r} : pc'[q] = pc[q] /\ buf'[q] = buf[q] /\ off'[q] = off[q],
         pc'[r] \notin Loaded \cup {"read"} => buf'[r] = <<>>,
         pc'[r] \notin Writing => off'[r] = 0
  PROVE  Fresh'
  BY DEF Fresh

\* Every step leaves a handler that is not at work on a file with empty memory.
LEMMA FreshStep == TypeInv /\ Fresh /\ [Next]_vars => Fresh'
  <1> SUFFICES ASSUME TypeInv, Fresh, [Next]_vars PROVE Fresh'
    OBVIOUS
  <1> USE DEF files, engine, local, history, env
  <1>0. PcOK /\ RestOK
    BY TypeSplit DEF TypeInv
  <1>w. Writing = {"write", "highlight"} /\ Loaded = {"lockmerge", "merge", "openwrite", "write", "highlight"}
    BY DEF Writing, Loaded
  <1>s. {"body", "lockparse", "parse", "statroot", "mkroot", "statdir", "mkdir", "statjson",
         "openread", "read", "lockmerge", "merge", "openwrite", "write", "highlight", "copy",
         "copywrite", "append", "200", "400", "405", "500merge", "500write", "500append"} \subseteq StorePC
    BY DEF StorePC, Window, Reading, Writing, Stored, Final
  <1>g. \A r \in Stores : \A a : \A b \in StorePC :
          Goto(r, a, b) => pc[r] = a /\ pc'[r] = b /\ \A q \in Stores \ {r} : pc'[q] = pc[q]
    BY <1>0, GotoStore DEF Threads
  <1>u. ASSUME NEW r \in Stores, NEW a, NEW b \in StorePC, Goto(r, a, b), UNCHANGED <<buf, off>>,
               b \notin Loaded \cup {"read"} => a \notin Loaded \cup {"read"},
               b \notin Writing => a \notin Writing
        PROVE  Fresh'
    BY <1>g, <1>u, FreshGo DEF Fresh
  <1>a. ASSUME NEW r \in Stores, NEW a, NEW b \in StorePC, Answer(r, a, b) PROVE Fresh'
    <2>1. Goto(r, a, b) /\ buf'[r] = <<>> /\ off'[r] = 0
            /\ \A q \in Stores \ {r} : buf'[q] = buf[q] /\ off'[q] = off[q]
      BY <1>0, <1>a DEF Answer, RestOK
    <2> QED
      BY <1>g, <2>1, FreshGo
  <1>1. ASSUME NEW r \in Stores, NEW d \in Dirs, Accept(r, d) \/ RejectMethod(r) \/ ReadBody(r)
        PROVE  Fresh'
    BY <1>1, <1>s, <1>u, <1>w DEF Accept, RejectMethod, ReadBody
  <1>2. ASSUME NEW t \in Threads, LockJS(t) PROVE Fresh'
    <2>1. CASE t \in Stores
      BY <1>2, <1>s, <1>u, <1>w, <2>1, StoreAssumption DEF LockJS
    <2>2. CASE t \in Loads
      <3>1. \A q \in Stores : pc'[q] = pc[q]
        BY <1>0, <1>2, <2>2, GotoLoad, StoreAssumption DEF LockJS, LoadPC, Threads
      <3> QED
        BY <1>2, <3>1 DEF Fresh, LockJS
    <2> QED
      BY <2>1, <2>2 DEF Threads
  <1>3. ASSUME NEW r \in Stores, ParseBody(r) \/ StatRoot(r) \/ StatTarget(r) \/ MakeRoot(r) \/ MakeTarget(r)
        PROVE  Fresh'
    BY <1>3, <1>s, <1>u, <1>w DEF ParseBody, StatRoot, StatTarget, StatDir, MakeRoot, MakeTarget, MakeDir
  <1>4. ASSUME NEW r \in Stores, OpenReadFails(r) \/ MergeFails(r) \/ OpenWriteFails(r) \/ CloseWrite(r) \/ CloseWriteFails(r)
        PROVE  Fresh'
    BY <1>4, <1>s, <1>a DEF OpenReadFails, MergeFails, OpenWriteFails, CloseWrite, CloseWriteFails
  <1>5. ASSUME NEW r \in Stores, StatJson(r) \/ OpenRead(r) \/ ReadEnd(r) \/ Merge(r) \/ OpenWrite(r) \/ HighlightStart(r)
        PROVE  Fresh'
    <2>1. CASE StatJson(r)
      BY <1>s, <1>u, <1>w, <2>1 DEF StatJson
    <2>2. CASE OpenRead(r) \/ ReadEnd(r) \/ Merge(r)
      BY <1>s, <1>u, <1>w, <2>2 DEF OpenRead, ReadEnd, Merge
    <2>3. CASE OpenWrite(r) \/ HighlightStart(r)
      BY <1>s, <1>u, <1>w, <2>3 DEF OpenWrite, HighlightStart
    <2> QED
      BY <1>5, <2>1, <2>2, <2>3
  <1>6. ASSUME NEW r \in Stores, ReadBlock(r) PROVE Fresh'
    <2>1. pc'[r] = "read" /\ pc[r] = "read" /\ off' = off /\ \A q \in Stores \ {r} : pc'[q] = pc[q]
      BY <1>6, <1>g, <1>s DEF ReadBlock
    <2>2. \A q \in Stores \ {r} : buf'[q] = buf[q]
      BY <1>0, <1>6 DEF ReadBlock, RestOK
    <2> QED
      BY <1>w, <2>1, <2>2, FreshGo DEF Fresh
  <1>7. ASSUME NEW r \in Stores, WriteBlock(r) \/ LoseBlock(r) PROVE Fresh'
    <2>1. pc'[r] = "write" /\ \A q \in Stores \ {r} : pc'[q] = pc[q]
      BY <1>7, <1>g, <1>s DEF WriteBlock, LoseBlock
    <2>2. buf' = buf /\ \A q \in Stores \ {r} : off'[q] = off[q]
      BY <1>0, <1>7 DEF WriteBlock, LoseBlock, RestOK
    <2> QED
      BY <1>w, <2>1, <2>2, FreshGo
  <1>8. ASSUME NEW r \in Stores, CopyOpen(r) \/ CopyWrite(r) \/ AppendFlag(r) \/ AppendFails(r)
        PROVE  Fresh'
    BY <1>8, <1>s, <1>u, <1>w DEF CopyOpen, CopyWrite, AppendFlag, AppendFails
  <1>9. ASSUME NEW t \in Loads, AcceptLoad(t) \/ Instrument(t) PROVE Fresh'
    <2>1. \A q \in Stores : pc'[q] = pc[q]
      BY <1>0, <1>9, GotoLoad, StoreAssumption DEF AcceptLoad, Instrument, LoadPC, Threads
    <2> QED
      BY <1>9, <2>1 DEF Fresh, AcceptLoad, Instrument
  <1>10. ASSUME ProcessExits PROVE Fresh'
    BY <1>10 DEF Fresh, ProcessExits
  <1>11. ASSUME NEW r \in Stores, MkdirFatal(r) \/ CopyFatal(r) \/ EngineRace(r) PROVE Fresh'
    BY <1>10, <1>11 DEF MkdirFatal, MakeDirFatal, CopyFatal, EngineRace
  <1>12. CASE Exit
    BY <1>10, <1>12 DEF Exit
  <1>13. CASE Restart \/ UNCHANGED vars
    BY <1>13 DEF Restart, vars, Fresh
  <1>14. ASSUME NEW r \in Stores, StoreStep(r) PROVE Fresh'
    <2>1. r \in Threads
      BY DEF Threads
    <2> QED
      BY <1>1, <1>2, <1>3, <1>4, <1>5, <1>6, <1>7, <1>8, <1>11, <1>14, <2>1, StoreAssumption DEF StoreStep, StoreWork
  <1>15. ASSUME NEW r \in Stores, StoreFault(r) PROVE Fresh'
    BY <1>4, <1>7, <1>8, <1>11, <1>15 DEF StoreFault
  <1>16. ASSUME NEW t \in Loads, LoadStep(t) PROVE Fresh'
    BY <1>2, <1>9, <1>16 DEF LoadStep, Threads
  <1>17. Root \in Dirs
    BY StoreAssumption
  <1> QED
    BY <1>1, <1>9, <1>11, <1>12, <1>13, <1>14, <1>15, <1>16, <1>17 DEF Next

----------------------------------------------------------------------------
\* A store handler that comes to its file finds it whole and is alone with it,
\* or the directory counts as raced.
LEMMA StatJsonKeeps ==
  ASSUME TypeInv, Fresh, NEW r \in Stores, NEW d \in Dirs, d = dir[r], d \notin raced', DirInv(d),
         StatJson(r)
  PROVE  DirInv(d)'
  <1> USE DEF files, engine, local, history, env
  <1>0. PcOK /\ TypeOK
    BY TypeSplit DEF TypeInv
  <1>1. pc[r] = "statjson" /\ \A q \in Stores \ {r} : pc'[q] = pc[q]
    BY <1>0, GotoStore DEF StatJson, StorePC, Window, Reading, Threads
  <1>2. pc'[r] = IF json[d] = None THEN "openwrite" ELSE "openread"
    BY <1>0, GotoStore DEF StatJson, StorePC, Window, Reading
  <1>3. \A q \in Stores \ {r} : dir[q] = d => pc[q] \notin Window
    BY DEF StatJson
  <1>4. pc'[r] \in Window /\ pc[r] \notin Stored \cup Window \cup Writing /\ pc'[r] \notin Writing /\ pc'[r] # "read"
    BY <1>1, <1>2 DEF Window, Reading, Writing, Stored
  <1>5. Memory(r, d)'
    <2>1. ASSUME pc'[r] \in Loaded PROVE StoredIn(d) = {}
      <3>1. json[d] = None
        BY <1>2, <2>1 DEF Loaded, Writing
      <3>2. Quiet(d)
        BY <1>3, <1>4 DEF Quiet, Window
      <3> QED
        BY <3>1, <3>2 DEF DirInv, Kept, Contains, StoredIn
    <2>2. StoredIn(d)' = StoredIn(d)
      BY <1>1, <1>4, Phases DEF StatJson, StoredIn
    <2> QED
      BY <1>4, <2>1, <2>2 DEF Memory, Carries
  <1> QED
    BY <1>0, <1>1, <1>3, <1>4, <1>5, Progress DEF StatJson

\* Reading keeps the invariant: the file does not change under the reader.
LEMMA ReadKeeps ==
  ASSUME TypeInv, Fresh, NEW r \in Stores, NEW d \in Dirs, d = dir[r], DirInv(d),
         OpenRead(r) \/ ReadBlock(r) \/ ReadEnd(r)
  PROVE  DirInv(d)'
  <1> USE DEF files, engine, local, history, env
  <1>0. PcOK /\ TypeOK /\ Opened
    BY TypeSplit DEF TypeInv
  <1>s. {"read", "lockmerge"} \subseteq StorePC /\ {"openread", "read", "lockmerge"} \subseteq Window
          /\ {"openread", "read", "lockmerge"} \cap (Writing \cup Stored) = {}
    BY DEF StorePC, Window, Reading, Writing, Stored
  <1>m. Memory(r, d)
    BY DEF DirInv
  <1>j. pc[r] = "read" => json[d] \in Seq(Block) /\ buf[r] \in Seq(Block)
    BY <1>0 DEF Opened, TypeOK, Files
  <1>1. CASE OpenRead(r)
    <2>1. pc[r] = "openread" /\ pc'[r] = "read" /\ \A q \in Stores \ {r} : pc'[q] = pc[q]
      BY <1>0, <1>1, <1>s, GotoStore DEF OpenRead, Threads
    <2>2. buf'[r] = <<>>
      BY <1>1, <2>1 DEF Fresh, OpenRead, Loaded, Writing
    <2>3. Memory(r, d)'
      BY <2>1, <2>2, Phases DEF Memory
    <2> QED
      BY <1>0, <1>1, <1>s, <2>1, <2>3, Progress DEF OpenRead
  <1>2. CASE ReadBlock(r)
    <2>1. pc[r] = "read" /\ pc'[r] = "read" /\ \A q \in Stores \ {r} : pc'[q] = pc[q]
      BY <1>0, <1>2, <1>s, GotoStore DEF ReadBlock, Threads
    <2>2. buf'[r] = Append(buf[r], json[d][Len(buf[r]) + 1]) /\ Len(buf[r]) < Len(json[d])
            /\ \A q \in Stores \ {r} : buf'[q] = buf[q]
      BY <1>0, <1>2 DEF ReadBlock, TypeOK
    <2>3. \A k \in DOMAIN buf'[r] : k \in DOMAIN json[d] /\ buf'[r][k] = json[d][k]
      <3>1. \A k \in 1 .. Len(buf[r]) : k \in DOMAIN json[d] /\ buf[r][k] = json[d][k]
        BY <1>j, <1>m, <2>1 DEF Memory
      <3> QED
        BY <1>j, <2>1, <2>2, <3>1
    <2>4. Memory(r, d)'
      BY <1>2, <2>1, <2>3, Phases DEF Memory, ReadBlock
    <2> QED
      BY <1>0, <1>2, <1>s, <2>1, <2>2, <2>4, Progress DEF ReadBlock
  <1>3. CASE ReadEnd(r)
    <2>1. pc[r] = "read" /\ pc'[r] = "lockmerge" /\ \A q \in Stores \ {r} : pc'[q] = pc[q]
      BY <1>0, <1>3, <1>s, GotoStore DEF ReadEnd, Threads
    <2>2. Quiet(d)
      BY <1>s, <2>1 DEF DirInv, Alone, Quiet, Window
    <2>3. \A q \in StoredIn(d) : Contains(d, q)
      BY <2>2 DEF DirInv, Kept
    <2>4. Len(buf[r]) >= Len(json[d])
      BY <1>3 DEF ReadEnd
    <2>5. \A k \in DOMAIN json[d] : k \in DOMAIN buf[r] /\ buf[r][k] = json[d][k]
      BY <1>j, <1>m, <2>1, <2>4 DEF Memory
    <2>6. StoredIn(d)' = StoredIn(d)
      BY <1>s, <1>3, <2>1 DEF StoredIn, ReadEnd
    <2>7. Carries(r, d)
      BY <2>3, <2>5 DEF Carries, Contains
    <2>8. Memory(r, d)'
      BY <1>3, <1>s, <2>1, <2>6, <2>7 DEF Memory, Carries, ReadEnd
    <2> QED
      BY <1>0, <1>3, <1>s, <2>1, <2>8, Progress DEF ReadEnd
  <1> QED
    BY <1>1, <1>2, <1>3

\* What a handler carries it keeps until it writes it.
LEMMA CarryKeeps ==
  ASSUME TypeInv, Fresh, NEW r \in Stores, NEW d \in Dirs, d = dir[r], DirInv(d),
         \/ LockJS(r) /\ pc[r] = "lockmerge"
         \/ Merge(r) \/ OpenWrite(r) \/ HighlightStart(r)
  PROVE  DirInv(d)'
  <1> USE DEF files, engine, local, history, env
  <1>0. PcOK /\ TypeOK
    BY TypeSplit DEF TypeInv
  <1>1. pc[r] \in Loaded /\ pc'[r] \in Loaded /\ \A q \in Stores \ {r} : pc'[q] = pc[q]
    <2>1. {"merge", "openwrite", "write", "highlight"} \subseteq StorePC
      BY DEF StorePC, Window, Reading, Writing
    <2>2. CASE LockJS(r) /\ pc[r] = "lockmerge"
      BY <1>0, <2>1, <2>2, GotoStore, StoreAssumption DEF LockJS, Loaded, Threads, Goto
    <2>3. CASE Merge(r) \/ OpenWrite(r) \/ HighlightStart(r)
      BY <1>0, <2>1, <2>3, GotoStore DEF Merge, OpenWrite, HighlightStart, Loaded, Writing, Threads
    <2> QED
      BY <2>2, <2>3
  <1>2. dir' = dir /\ buf' = buf /\ off' = off
    BY DEF LockJS, Merge, OpenWrite, HighlightStart
  <1>3. StoredIn(d)' = StoredIn(d)
    BY <1>1, <1>2, Phases DEF StoredIn
  <1>4. Carries(r, d)'
    BY <1>1, <1>2, <1>3 DEF DirInv, Memory, Carries
  <1>5. CASE OpenWrite(r)
    <2>1. pc[r] = "openwrite" /\ pc'[r] = "write"
      BY <1>0, <1>5, GotoStore DEF OpenWrite, StorePC, Window, Writing
    <2>2. off'[r] = 0
      BY <1>2, <2>1 DEF Fresh, Writing
    <2>3. Memory(r, d)'
      BY <1>4, <2>1, <2>2 DEF Memory
    <2> QED
      BY <1>0, <1>1, <1>2, <2>1, <2>3, Phases, Progress DEF Writing
  <1>6. CASE ~ OpenWrite(r)
    <2>1. json' = json
      BY <1>6 DEF LockJS, Merge, HighlightStart
    <2>2. pc'[r] \in Writing <=> pc[r] \in Writing
      <3>1. {"merge", "openwrite", "write", "highlight"} \subseteq StorePC
        BY DEF StorePC, Window, Reading, Writing
      <3>2. CASE LockJS(r) /\ pc[r] = "lockmerge"
        BY <1>0, <3>1, <3>2, GotoStore, StoreAssumption DEF LockJS, Writing, Goto
      <3>3. CASE Merge(r)
        <4>1. pc[r] = "merge" /\ pc'[r] = "openwrite"
          BY <1>0, <3>1, <3>3, GotoStore DEF Merge
        <4> QED
          BY <4>1 DEF Writing
      <3>4. CASE HighlightStart(r)
        <4>1. pc[r] = "write" /\ pc'[r] = "highlight"
          BY <1>0, <3>1, <3>4, GotoStore DEF HighlightStart
        <4> QED
          BY <4>1 DEF Writing
      <3> QED
        BY <1>6, <3>2, <3>3, <3>4
    <2>3. Memory(r, d)'
      BY <1>1, <1>2, <1>3, <1>4, <2>1, <2>2, Phases DEF DirInv, Memory
    <2> QED
      BY <1>0, <1>1, <1>2, <2>1, <2>2, <2>3, Phases, Progress
  <1> QED
    BY <1>5, <1>6

\* A block that a handler writes holds its counts and everything stored.
LEMMA BlockWritten ==
  ASSUME TypeInv, NEW r \in Stores, NEW d \in Dirs, d = dir[r], DirInv(d), pc[r] \in Writing,
         NEW k \in 1 .. Blocks, k = off[r] + 1, PutBlock(r, DocBlock(r, k))
  PROVE  /\ json'[d] # None
         /\ \A i \in 1 .. k : i \in DOMAIN json'[d] /\ {r} \cup StoredIn(d) \subseteq json'[d][i].has
  <1>0. TypeOK /\ RestOK /\ Opened
    BY TypeSplit DEF TypeInv
  <1>1. json[d] \in Seq(Block) /\ off[r] \in Nat
    BY <1>0 DEF Opened, RestOK, Files
  <1>2. DocBlock(r, k) \in Block
    BY <1>0, DocBlockType
  <1>3. json'[d] = WriteAt(json[d], k, DocBlock(r, k)) /\ json'[d] # None
    BY <1>0, <1>2, PutBlockProps DEF Opened
  <1>4. Memory(r, d) /\ Carries(r, d)
    BY Phases DEF DirInv, Memory
  <1>5. {r} \cup StoredIn(d) \subseteq DocBlock(r, k).has
    BY <1>4 DEF Carries, DocBlock
  <1>6. \A i \in 1 .. off[r] : i \in DOMAIN json[d] /\ {r} \cup StoredIn(d) \subseteq json[d][i].has
    BY <1>4 DEF Memory
  <1>7. /\ json'[d] \in Seq(Block)
        /\ Len(json'[d]) >= k /\ Len(json'[d]) >= Len(json[d])
        /\ json'[d][k] = DocBlock(r, k)
        /\ \A i \in 1 .. Len(json[d]) : i # k => json'[d][i] = json[d][i]
    <2> DEFINE f == json[d]
               b == DocBlock(r, k)
               w == WriteAt(f, k, b)
    <2>1. f \in Seq(Block) /\ b \in Block /\ k \in Nat \ {0}
      BY <1>1, <1>2
    <2> HIDE DEF f, b
    <2>2. /\ w \in Seq(Block)
          /\ Len(w) = IF k > Len(f) THEN k ELSE Len(f)
          /\ w[k] = b
          /\ \A i \in 1 .. Len(f) : i # k => w[i] = f[i]
      BY <2>1, WriteAtProps
    <2> HIDE DEF w
    <2>3. Len(w) >= k /\ Len(w) >= Len(f)
      BY <2>1, <2>2
    <2>4. json'[d] = w
      BY <1>3 DEF w, f, b
    <2> QED
      BY <2>2, <2>3, <2>4 DEF f, b
  <1> QED
    BY <1>1, <1>3, <1>5, <1>6, <1>7, SMTT(20)

\* Writing a block, and closing the file with the last one, keep the invariant.
LEMMA WriteKeeps ==
  ASSUME TypeInv, NEW r \in Stores, NEW d \in Dirs, d = dir[r], DirInv(d),
         WriteBlock(r) \/ CloseWrite(r)
  PROVE  DirInv(d)'
  <1> USE DEF files, engine, local, history, env
  <1>0. PcOK /\ TypeOK /\ off[r] \in Nat
    BY TypeSplit DEF TypeInv, TypeOK
  <1>s. {"write", "copy"} \subseteq StorePC /\ "write" \in Writing /\ "write" # "read" /\ "copy" \in Stored
    BY DEF StorePC, Window, Writing, Stored
  <1>1. CASE WriteBlock(r)
    <2>1. pc[r] \in Writing /\ pc'[r] = "write" /\ \A q \in Stores \ {r} : pc'[q] = pc[q]
      BY <1>0, <1>1, <1>s, GotoStore DEF WriteBlock, Writing, Threads
    <2>2. off[r] + 1 \in 1 .. Blocks
      BY <1>0, <1>1, StoreAssumption DEF WriteBlock
    <2>3. off'[r] = off[r] + 1 /\ buf' = buf /\ dir' = dir /\ \A q \in Stores \ {r} : off'[q] = off[q]
      BY <1>0, <1>1 DEF WriteBlock, TypeOK
    <2>4. StoredIn(d)' = StoredIn(d)
      BY <2>1, <2>3, <1>s, Phases DEF StoredIn
    <2>5. \A i \in 1 .. off'[r] : i \in DOMAIN json'[d] /\ {r} \cup StoredIn(d) \subseteq json'[d][i].has
      BY <1>1, <2>1, <2>2, <2>3, BlockWritten DEF WriteBlock
    <2>6. Carries(r, d)'
      BY <2>1, <2>3, <2>4, Phases DEF DirInv, Memory, Carries
    <2>7. Memory(r, d)'
      BY <1>s, <2>1, <2>4, <2>5, <2>6 DEF Memory
    <2> QED
      BY <1>0, <1>s, <2>1, <2>3, <2>7, Phases, Progress
  <1>2. CASE CloseWrite(r)
    <2>1. pc[r] \in Writing /\ pc'[r] = "copy" /\ \A q \in Stores \ {r} : pc'[q] = pc[q]
      BY <1>0, <1>2, <1>s, GotoStore DEF CloseWrite, Answer, Writing, Threads
    <2>2. off[r] + 1 = Blocks /\ Blocks \in 1 .. Blocks /\ dir' = dir
      BY <1>0, <1>2, StoreAssumption DEF CloseWrite, Answer
    <2>3. json'[d] # None /\ \A i \in 1 .. Blocks : i \in DOMAIN json'[d] /\ {r} \cup StoredIn(d) \subseteq json'[d][i].has
      BY <1>2, <2>1, <2>2, BlockWritten DEF CloseWrite
    <2>4. \A q \in Stores : dir'[q] = d => pc'[q] \notin Window
      BY <1>s, <2>1, <2>2, Phases DEF DirInv, Alone
    <2>5. StoredIn(d)' = StoredIn(d) \cup {r}
      BY <1>s, <2>1, <2>2, Phases DEF StoredIn
    <2>6. Kept(d)'
      BY <2>3, <2>5 DEF Kept, Contains
    <2> QED
      BY <2>4, <2>6, Phases DEF DirInv, Alone, Memory
  <1> QED
    BY <1>1, <1>2

----------------------------------------------------------------------------
\* Every step keeps the invariant of a directory that stays intact.
LEMMA DirStep ==
  ASSUME TypeInv, Fresh, [Next]_vars, NEW d \in Dirs, DirInv(d), d \notin raced' \cup damaged'
  PROVE  DirInv(d)'
  <1> USE DEF files, engine, local, history, env
  <1>0. PcOK /\ RestOK /\ TypeOK
    BY TypeSplit DEF TypeInv
  <1>s. {"body", "lockparse", "parse", "statroot", "mkroot", "statdir", "mkdir", "statjson",
         "openread", "read", "lockmerge", "merge", "openwrite", "write", "highlight", "copy",
         "copywrite", "append", "200", "400", "405", "500merge", "500write", "500append"} \subseteq StorePC
    BY DEF StorePC, Window, Reading, Writing, Stored, Final
  <1>w. /\ Writing = {"write", "highlight"}
        /\ Window = {"openread", "read", "lockmerge", "merge", "openwrite", "write", "highlight"}
        /\ Stored = {"copy", "copywrite", "append", "200", "500append"}
    BY DEF Window, Reading, Writing, Stored
  <1>g. \A r \in Stores : \A a : \A b \in StorePC :
          Goto(r, a, b) => pc[r] = a /\ pc'[r] = b /\ \A q \in Stores \ {r} : pc'[q] = pc[q]
    BY <1>0, GotoStore DEF Threads
  <1> DEFINE Same(r) == dir' = dir /\ \A q \in Stores \ {r} : buf'[q] = buf[q] /\ off'[q] = off[q]
  <1>e. ASSUME NEW r \in Stores, NEW a, NEW b \in StorePC, Goto(r, a, b), Same(r),
               d # dir[r], json'[d] = json[d]
        PROVE  DirInv(d)'
    BY <1>0, <1>e, <1>g, OtherDirs
  <1>a. ASSUME NEW r \in Stores, NEW a, NEW b \in StorePC, Goto(r, a, b), Same(r),
               a \notin Writing, b \notin Window, b \in Stored => a \in Stored, json' = json
        PROVE  DirInv(d)'
    BY <1>0, <1>a, <1>g, Aside
  <1>x. ASSUME NEW r \in Stores, NEW a, NEW b \in StorePC, Answer(r, a, b)
        PROVE  Goto(r, a, b) /\ Same(r)
    BY <1>0, <1>x DEF Answer, RestOK
  <1>1. ASSUME NEW r \in Stores, NEW e \in Dirs, Accept(r, e) PROVE DirInv(d)'
    <2>1. pc[r] = "idle" /\ pc'[r] = "body" /\ \A q \in Stores \ {r} : pc'[q] = pc[q] /\ dir'[q] = dir[q]
      BY <1>0, <1>1, <1>g, <1>s DEF Accept, RestOK
    <2> QED
      BY <1>1, <1>w, <2>1, Frame DEF Accept
  <1>2. ASSUME NEW r \in Stores, RejectMethod(r) \/ ReadBody(r) PROVE DirInv(d)'
    BY <1>2, <1>a, <1>s, <1>w DEF RejectMethod, ReadBody
  <1>3. ASSUME NEW t \in Threads, LockJS(t) PROVE DirInv(d)'
    <2>1. CASE t \in Stores /\ pc[t] # "lockmerge"
      <3>1. Goto(t, "lockparse", "parse") /\ Same(t) /\ json' = json
        BY <1>3, <2>1, StoreAssumption DEF LockJS, Goto
      <3> QED
        BY <1>a, <1>s, <1>w, <2>1, <3>1
    <2>2. CASE t \in Stores /\ pc[t] = "lockmerge"
      <3>1. Goto(t, "lockmerge", "merge") /\ Same(t) /\ json' = json
        BY <1>3, <2>2, StoreAssumption DEF LockJS, Goto
      <3>2. CASE d = dir[t]
        BY <1>3, <2>2, <3>2, CarryKeeps
      <3> QED
        BY <1>e, <1>s, <2>2, <3>1, <3>2
    <2>3. CASE t \in Loads
      <3>1. \A q \in Stores : pc'[q] = pc[q]
        BY <1>0, <1>3, <2>3, GotoLoad, StoreAssumption DEF LockJS, LoadPC, Threads
      <3> QED
        BY <1>3, <3>1, Frame DEF LockJS
    <2> QED
      BY <2>1, <2>2, <2>3 DEF Threads
  <1>4. ASSUME NEW r \in Stores, ParseBody(r) \/ StatRoot(r) \/ StatTarget(r) \/ MakeRoot(r) \/ MakeTarget(r)
        PROVE  DirInv(d)'
    BY <1>4, <1>a, <1>s, <1>w DEF ParseBody, StatRoot, StatTarget, StatDir, MakeRoot, MakeTarget, MakeDir
  <1>5. ASSUME NEW r \in Stores, OpenReadFails(r) \/ MergeFails(r) \/ OpenWriteFails(r) PROVE DirInv(d)'
    <2>1. json' = json
      BY <1>5 DEF OpenReadFails, MergeFails, OpenWriteFails
    <2>2. PICK a \in {"openread", "merge", "openwrite"}, b \in {"500merge", "500write"} : Answer(r, a, b)
      BY <1>5 DEF OpenReadFails, MergeFails, OpenWriteFails
    <2>3. b \in StorePC /\ a \notin Writing /\ b \notin Window /\ b \notin Stored
      BY <1>s, <1>w
    <2>4. Goto(r, a, b) /\ Same(r)
      BY <1>x, <2>2, <2>3
    <2> QED
      BY <1>a, <2>1, <2>3, <2>4
  <1>6. ASSUME NEW r \in Stores, StatJson(r) PROVE DirInv(d)'
    <2>1. CASE d = dir[r]
      BY <1>6, <2>1, StatJsonKeeps
    <2>2. CASE d # dir[r]
      BY <1>6, <1>e, <1>s, <2>2 DEF StatJson
    <2> QED
      BY <2>1, <2>2
  <1>7. ASSUME NEW r \in Stores, OpenRead(r) \/ ReadBlock(r) \/ ReadEnd(r) PROVE DirInv(d)'
    <2>1. CASE d = dir[r]
      BY <1>7, <2>1, ReadKeeps
    <2>2. CASE d # dir[r]
      <3>1. Same(r)
        BY <1>0, <1>7 DEF OpenRead, ReadBlock, ReadEnd, RestOK
      <3> QED
        BY <1>7, <1>e, <1>s, <2>2, <3>1 DEF OpenRead, ReadBlock, ReadEnd
    <2> QED
      BY <2>1, <2>2
  <1>8. ASSUME NEW r \in Stores, Merge(r) \/ OpenWrite(r) \/ HighlightStart(r) PROVE DirInv(d)'
    <2>1. CASE d = dir[r]
      BY <1>8, <2>1, CarryKeeps
    <2>2. CASE d # dir[r]
      <3>1. json'[d] = json[d]
        BY <1>0, <1>8, <2>2 DEF Merge, OpenWrite, HighlightStart, RestOK, Files
      <3> QED
        BY <1>8, <1>e, <1>s, <2>2, <3>1 DEF Merge, OpenWrite, HighlightStart
    <2> QED
      BY <2>1, <2>2
  <1>p. ASSUME NEW r \in Stores, NEW b, PutBlock(r, b), d # dir[r] PROVE json'[d] = json[d]
    BY <1>0, <1>p DEF PutBlock, RestOK, Files
  <1>9. ASSUME NEW r \in Stores, WriteBlock(r) \/ CloseWrite(r) PROVE DirInv(d)'
    <2>1. CASE d = dir[r]
      BY <1>9, <2>1, WriteKeeps
    <2>2. CASE d # dir[r]
      <3>1. json'[d] = json[d]
        BY <1>9, <1>p, <2>2 DEF WriteBlock, CloseWrite
      <3>2. CASE WriteBlock(r)
        <4>1. Same(r)
          BY <1>0, <3>2 DEF WriteBlock, RestOK
        <4> QED
          BY <1>e, <1>s, <2>2, <3>1, <3>2, <4>1 DEF WriteBlock
      <3>3. CASE CloseWrite(r)
        BY <1>e, <1>s, <1>x, <2>2, <3>1, <3>3 DEF CloseWrite
      <3> QED
        BY <1>9, <3>2, <3>3
    <2> QED
      BY <2>1, <2>2
  <1>10. ASSUME NEW r \in Stores, LoseBlock(r) PROVE DirInv(d)'
    <2>1. d # dir[r] /\ Same(r)
      BY <1>0, <1>10 DEF LoseBlock, RestOK
    <2>2. json'[d] = json[d]
      BY <1>10, <1>p, <2>1 DEF LoseBlock
    <2> QED
      BY <1>10, <1>e, <1>s, <2>1, <2>2 DEF LoseBlock
  <1>11. ASSUME NEW r \in Stores, CloseWriteFails(r) PROVE DirInv(d)'
    <2>1. d # dir[r]
      BY <1>11 DEF CloseWriteFails
    <2> QED
      BY <1>11, <1>e, <1>s, <1>x, <2>1 DEF CloseWriteFails
  <1>12. ASSUME NEW r \in Stores, CopyOpen(r) \/ CopyWrite(r) \/ AppendFlag(r) \/ AppendFails(r)
         PROVE  DirInv(d)'
    BY <1>12, <1>a, <1>s, <1>w DEF CopyOpen, CopyWrite, AppendFlag, AppendFails
  <1>13. ASSUME NEW t \in Loads, AcceptLoad(t) \/ Instrument(t) PROVE DirInv(d)'
    <2>1. \A q \in Stores : pc'[q] = pc[q]
      BY <1>0, <1>13, GotoLoad, StoreAssumption DEF AcceptLoad, Instrument, LoadPC, Threads
    <2> QED
      BY <1>13, <2>1, Frame DEF AcceptLoad, Instrument
  <1>14. ASSUME ProcessExits PROVE DirInv(d)'
    <2>1. \A q \in Stores : pc'[q] = "dead" \/ (pc'[q] = pc[q] /\ ~ Active(q))
      BY <1>0, <1>14, ExitPcs DEF Threads
    <2>2. \A q \in Stores : pc[q] \in Window => Active(q)
      BY <1>w DEF Active, Final
    <2>3. \A q \in Stores : dir[q] = d => pc[q] \notin Writing
      BY <1>14 DEF ProcessExits
    <2> QED
      BY <1>14, <1>w, <2>1, <2>2, <2>3, Frame DEF ProcessExits
  <1>15. ASSUME NEW r \in Stores, MkdirFatal(r) \/ CopyFatal(r) \/ EngineRace(r) PROVE DirInv(d)'
    BY <1>14, <1>15 DEF MkdirFatal, MakeDirFatal, CopyFatal, EngineRace
  <1>16. CASE Exit
    BY <1>14, <1>16 DEF Exit
  <1>17. CASE Restart \/ UNCHANGED vars
    BY <1>17, Frame DEF Restart, vars
  <1>18. ASSUME NEW r \in Stores, StoreStep(r) PROVE DirInv(d)'
    <2>1. r \in Threads
      BY DEF Threads
    <2> QED
      BY <1>2, <1>3, <1>4, <1>5, <1>6, <1>7, <1>8, <1>9, <1>12, <1>15, <1>18, <2>1 DEF StoreStep, StoreWork
  <1>19. ASSUME NEW r \in Stores, StoreFault(r) PROVE DirInv(d)'
    BY <1>5, <1>10, <1>11, <1>12, <1>15, <1>19 DEF StoreFault
  <1>20. ASSUME NEW t \in Loads, LoadStep(t) PROVE DirInv(d)'
    BY <1>3, <1>13, <1>20 DEF LoadStep, Threads
  <1> QED
    BY <1>1, <1>2, <1>13, <1>15, <1>16, <1>17, <1>18, <1>19, <1>20 DEF Next

\* What has been raced or damaged stays so.
LEMMA HistoryGrows == [Next]_vars => raced \subseteq raced' /\ damaged \subseteq damaged'
  <1> SUFFICES ASSUME [Next]_vars PROVE raced \subseteq raced' /\ damaged \subseteq damaged'
    OBVIOUS
  <1> USE DEF files, engine, local, history, env
  <1> DEFINE Grows == raced \subseteq raced' /\ damaged \subseteq damaged'
  <1>1. ASSUME NEW r \in Stores, NEW d \in Dirs, Accept(r, d) \/ RejectMethod(r) \/ ReadBody(r)
        PROVE  Grows
    BY <1>1 DEF Accept, RejectMethod, ReadBody
  <1>2. ASSUME NEW t, LockJS(t) \/ AcceptLoad(t) \/ Instrument(t) PROVE Grows
    BY <1>2 DEF LockJS, AcceptLoad, Instrument
  <1>3. ASSUME NEW r \in Stores, ParseBody(r) \/ StatRoot(r) \/ StatTarget(r) \/ MakeRoot(r) \/ MakeTarget(r)
        PROVE  Grows
    BY <1>3 DEF ParseBody, StatRoot, StatTarget, StatDir, MakeRoot, MakeTarget, MakeDir
  <1>4. ASSUME NEW r \in Stores, StatJson(r) \/ OpenRead(r) \/ OpenReadFails(r) \/ ReadBlock(r) \/ ReadEnd(r)
        PROVE  Grows
    BY <1>4 DEF StatJson, OpenRead, OpenReadFails, ReadBlock, ReadEnd
  <1>5. ASSUME NEW r \in Stores, Merge(r) \/ MergeFails(r) \/ OpenWrite(r) \/ OpenWriteFails(r) \/ HighlightStart(r)
        PROVE  Grows
    BY <1>5 DEF Merge, MergeFails, OpenWrite, OpenWriteFails, HighlightStart
  <1>6. ASSUME NEW r \in Stores, WriteBlock(r) \/ LoseBlock(r) \/ CloseWrite(r) \/ CloseWriteFails(r)
        PROVE  Grows
    BY <1>6 DEF WriteBlock, LoseBlock, CloseWrite, CloseWriteFails
  <1>7. ASSUME NEW r \in Stores, CopyOpen(r) \/ CopyWrite(r) \/ AppendFlag(r) \/ AppendFails(r)
        PROVE  Grows
    BY <1>7 DEF CopyOpen, CopyWrite, AppendFlag, AppendFails
  <1>8. ASSUME NEW r \in Stores, MkdirFatal(r) \/ CopyFatal(r) \/ EngineRace(r) PROVE Grows
    BY <1>8 DEF MkdirFatal, MakeDirFatal, CopyFatal, EngineRace, ProcessExits
  <1>9. CASE Exit \/ Restart \/ UNCHANGED vars
    BY <1>9 DEF Exit, Restart, vars, ProcessExits
  <1>10. ASSUME NEW r \in Stores, StoreStep(r) \/ StoreFault(r) PROVE Grows
    <2>1. Root \in Dirs
      BY StoreAssumption
    <2> QED
      BY <1>1, <1>2, <1>3, <1>4, <1>5, <1>6, <1>7, <1>8, <1>10, <2>1 DEF StoreStep, StoreWork, StoreFault
  <1>11. Root \in Dirs
    BY StoreAssumption
  <1> QED
    BY <1>1, <1>2, <1>8, <1>9, <1>10, <1>11 DEF Next, LoadStep

\* The invariant holds at the start: nothing is stored and no file is open.
LEMMA DurableInit == Init => DurableInv
  <1> SUFFICES ASSUME Init PROVE DurableInv
    OBVIOUS
  <1>1. \A r \in Stores : pc[r] = "idle" /\ buf[r] = <<>> /\ off[r] = 0
    BY DEF Init, Threads
  <1>2. "idle" \notin Window \cup Stored \cup Loaded \cup {"read"}
    BY DEF Window, Reading, Writing, Stored, Loaded
  <1> QED
    BY <1>1, <1>2, Phases
       DEF DurableInv, Fresh, DirInv, Alone, Kept, StoredIn, Memory

\* The invariant is inductive.
LEMMA DurableStep == TypeInv /\ DurableInv /\ [Next]_vars => DurableInv'
  <1> SUFFICES ASSUME TypeInv, DurableInv, [Next]_vars PROVE DurableInv'
    OBVIOUS
  <1>1. Fresh'
    BY FreshStep DEF DurableInv
  <1>2. ASSUME NEW d \in Intact' PROVE DirInv(d)'
    <2>1. d \in Intact /\ d \in Dirs /\ d \notin raced' \cup damaged'
      BY <1>2, HistoryGrows DEF Intact
    <2> QED
      BY <2>1, DirStep DEF DurableInv
  <1> QED
    BY <1>1, <1>2 DEF DurableInv

\* In every run, with any number of handlers, directories and blocks, whatever
\* fails and whenever the server exits: a directory that no two handlers were
\* updating at once, and in which no update was cut short, holds the counts of
\* every store written to it whenever nobody is rewriting it.
THEOREM DurableCorrect == Spec => []Durable
  <1>1. Init => TypeInv /\ DurableInv
    BY TypeInit, DurableInit
  <1>2. TypeInv /\ DurableInv /\ [Next]_vars => (TypeInv /\ DurableInv)'
    BY TypeStep, DurableStep
  <1>3. DurableInv => Durable
    BY DEF DurableInv, DirInv, Kept, Durable, Intact
  <1> QED
    BY <1>1, <1>2, <1>3, PTL DEF Spec

----------------------------------------------------------------------------
(***************************************************************************)
(* CoverageStore!NoTraceOfRefused, CoverageStore!ShapesAgree and           *)
(* CoverageStore!ReportUsable for any number of handlers, directories,     *)
(* shapes and blocks, also for handlers that race for a file, whatever     *)
(* fails and whenever the process ends.                                    *)
(*                                                                         *)
(* The first two speak of every text, in a file or in the memory of a      *)
(* handler: a count gets from one to the other by reading and by writing,  *)
(* and into a text only by a handler that has found its data to fit        *)
(* (Fitting).  The last needs to know what the jscoverage.js of a          *)
(* directory may look like while handlers copy and mark it (ScriptInv).    *)
(***************************************************************************)

\* where a handler is that has written, or may have
Known == Writing \cup Stored \cup {"500write", "dead"}

\* a handler there has compared its data with what it has read
Fitted == {"openwrite"} \cup Writing

\* What the file of a directory holds was stored in it, and of one shape.
FileTraced ==
  \A d \in Dirs : json[d] # None => \A k \in DOMAIN json[d] : \A q \in json[d][k].has :
    /\ dir[q] = d /\ pc[q] \in Known
    /\ \A p \in json[d][k].has : shape[p] = shape[q]

\* So is what a handler has read.
MemoryTraced ==
  \A r \in Stores : \A k \in DOMAIN buf[r] : \A q \in buf[r][k].has :
    /\ dir[q] = dir[r] /\ pc[q] \in Known
    /\ \A p \in buf[r][k].has : shape[p] = shape[q]

Fitting == \A r \in Stores : pc[r] \in Fitted => Compatible(r)

TraceInv == FileTraced /\ MemoryTraced /\ Fitting

----------------------------------------------------------------------------
\* What is in a block is a store.
LEMMA HasStores ==
  ASSUME TypeOK
  PROVE  /\ \A d \in Dirs : json[d] # None => \A k \in DOMAIN json[d] : json[d][k].has \subseteq Stores
         /\ \A r \in Stores : \A k \in DOMAIN buf[r] : buf[r][k].has \subseteq Stores
  <1>1. ASSUME NEW f \in Seq(Block), NEW k \in DOMAIN f PROVE f[k].has \subseteq Stores
    <2>1. f[k] \in Block
      BY <1>1
    <2> QED
      BY <2>1 DEF Block
  <1> QED
    BY <1>1 DEF TypeOK, Files

\* A step that writes nothing into a text keeps the invariant: who was known
\* stays where it is, texts stay or are emptied, and a handler that comes to
\* writing has found its data to fit.
LEMMA TraceFrame ==
  ASSUME TypeOK, TraceInv, shape' = shape,
         \A q \in Stores : pc[q] \in Known => pc'[q] \in Known /\ dir'[q] = dir[q],
         \A d \in Dirs : json'[d] = json[d] \/ json'[d] = <<>>,
         \A r \in Stores : buf'[r] = <<>> \/ (buf'[r] = buf[r] /\ dir'[r] = dir[r]),
         \A r \in Stores : pc'[r] \in Fitted =>
            buf'[r] = <<>> \/ (buf'[r] = buf[r] /\ (pc[r] \in Fitted \/ Compatible(r)))
  PROVE  TraceInv'
  <1>e. DOMAIN <<>> = {}
    OBVIOUS
  <1>1. FileTraced'
    BY <1>e, HasStores DEF TraceInv, FileTraced
  <1>2. MemoryTraced'
    BY <1>e, HasStores DEF TraceInv, MemoryTraced
  <1>3. Fitting'
    BY <1>e DEF TraceInv, Fitting, Compatible
  <1> QED
    BY <1>1, <1>2, <1>3 DEF TraceInv

\* The step of one handler that writes nothing into a text.
LEMMA TraceGo ==
  ASSUME TypeOK, TraceInv, NEW r \in Stores,
         \A q \in Stores \ {r} : pc'[q] = pc[q] /\ buf'[q] = buf[q],
         shape' = shape, dir' = dir, json' = json,
         pc[r] \in Known => pc'[r] \in Known,
         buf'[r] = <<>> \/ (buf'[r] = buf[r] /\ (pc'[r] \in Fitted => pc[r] \in Fitted \/ Compatible(r)))
  PROVE  TraceInv'
  BY TraceFrame

\* What a write leaves in a file was in it, is the block written, or nothing.
LEMMA WriteAtParts ==
  ASSUME NEW f \in Seq(Block), NEW i \in Nat \ {0}, NEW b \in Block,
         NEW k \in DOMAIN WriteAt(f, i, b)
  PROVE  \/ WriteAt(f, i, b)[k] = b
         \/ k \in DOMAIN f /\ WriteAt(f, i, b)[k] = f[k]
         \/ WriteAt(f, i, b)[k] = Hole
  <1> DEFINE n == IF i > Len(f) THEN i ELSE Len(f)
  <1>1. n \in Nat /\ WriteAt(f, i, b) = [j \in 1 .. n |-> IF j = i THEN b ELSE IF j <= Len(f) THEN f[j] ELSE Hole]
    BY DEF WriteAt
  <1> HIDE DEF n
  <1>2. k \in 1 .. n /\ k \in Nat \ {0}
    BY <1>1
  <1>3. WriteAt(f, i, b)[k] = IF k = i THEN b ELSE IF k <= Len(f) THEN f[k] ELSE Hole
    BY <1>1, <1>2
  <1>4. k <= Len(f) => k \in DOMAIN f
    BY <1>2
  <1> QED
    BY <1>3, <1>4

\* Writing a block that is traced, while its writer goes on or is done.
LEMMA TraceWrite ==
  ASSUME TypeInv, TraceInv, NEW r \in Stores, NEW b \in Block, PutBlock(r, b),
         pc[r] \in Writing, pc'[r] \in Known, shape' = shape, dir' = dir,
         \A q \in Stores \ {r} : pc'[q] = pc[q] /\ buf'[q] = buf[q],
         buf'[r] = buf[r] \/ buf'[r] = <<>>,
         \A q \in b.has : dir[q] = dir[r] /\ pc'[q] \in Known /\ \A p \in b.has : shape[p] = shape[q]
  PROVE  TraceInv'
  <1>0. RestOK /\ Opened /\ TypeOK /\ json[dir[r]] # None
    BY TypeSplit DEF TypeInv, Opened
  <1>e. DOMAIN <<>> = {} /\ Writing \subseteq Known /\ Writing \subseteq Fitted
    BY DEF Known, Fitted
  <1>k. \A q \in Stores : pc[q] \in Known => pc'[q] \in Known
    OBVIOUS
  <1>1. FileTraced'
    <2> SUFFICES ASSUME NEW d \in Dirs, json'[d] # None, NEW k \in DOMAIN json'[d], NEW q \in json'[d][k].has
                 PROVE  /\ dir[q] = d /\ pc'[q] \in Known
                        /\ \A p \in json'[d][k].has : shape[p] = shape[q]
      BY DEF FileTraced
    <2>1. ASSUME json[d] # None, k \in DOMAIN json[d], json'[d][k] = json[d][k]
          PROVE  /\ dir[q] = d /\ pc'[q] \in Known
                 /\ \A p \in json'[d][k].has : shape[p] = shape[q]
      BY <1>0, <1>k, <2>1, HasStores DEF TraceInv, FileTraced
    <2>2. CASE d # dir[r]
      BY <1>0, <2>1, <2>2, PutBlockProps
    <2>3. CASE d = dir[r]
      <3>1. json[d] \in Seq(Block) /\ off[r] + 1 \in Nat \ {0} /\ json'[d] = WriteAt(json[d], off[r] + 1, b)
        BY <1>0, <2>3, PutBlockProps DEF RestOK, Files
      <3>2. \/ json'[d][k] = b
            \/ k \in DOMAIN json[d] /\ json'[d][k] = json[d][k]
            \/ json'[d][k] = Hole
        BY <3>1, WriteAtParts
      <3>3. json'[d][k] # Hole
        BY DEF Hole
      <3> QED
        BY <1>0, <2>1, <2>3, <3>2, <3>3
    <2> QED
      BY <2>2, <2>3
  <1>2. MemoryTraced'
    BY <1>0, <1>e, <1>k, HasStores DEF TraceInv, MemoryTraced
  <1>3. Fitting'
    BY <1>e DEF TraceInv, Fitting, Compatible
  <1> QED
    BY <1>1, <1>2, <1>3 DEF TraceInv

\* The block a handler writes is traced: its own counts, and what it has read
\* and found to fit.
LEMMA DocBlockTraced ==
  ASSUME TypeInv, TraceInv, NEW r \in Stores, NEW i \in Nat, pc[r] \in Writing
  PROVE  /\ DocBlock(r, i) \in Block
         /\ \A q \in DocBlock(r, i).has :
              /\ q \in Stores /\ dir[q] = dir[r] /\ (q = r \/ pc[q] \in Known)
              /\ \A p \in DocBlock(r, i).has : shape[p] = shape[q]
  <1>0. TypeOK
    BY DEF TypeInv
  <1>1. DocBlock(r, i) \in Block
    BY <1>0, DocBlockType
  <1>2. Compatible(r)
    BY DEF TraceInv, Fitting, Fitted
  <1>3. DocBlock(r, i).has = {r} \cup (IF i \in DOMAIN buf[r] THEN buf[r][i].has ELSE {})
    BY DEF DocBlock
  <1>4. \A q \in DocBlock(r, i).has : q = r \/ (i \in DOMAIN buf[r] /\ q \in buf[r][i].has)
    BY <1>3
  <1>5. \A q \in DocBlock(r, i).has : shape[q] = shape[r]
    BY <1>2, <1>4 DEF Compatible
  <1>6. \A q \in DocBlock(r, i).has : q \in Stores /\ dir[q] = dir[r] /\ (q = r \/ pc[q] \in Known)
    BY <1>0, <1>4, HasStores DEF TraceInv, MemoryTraced
  <1> QED
    BY <1>1, <1>5, <1>6

----------------------------------------------------------------------------
\* Reading copies a traced block into the memory of the handler.
LEMMA TraceRead ==
  ASSUME TypeInv, TraceInv, NEW r \in Stores, ReadBlock(r)
  PROVE  TraceInv'
  <1> USE DEF files, local
  <1>0. RestOK /\ PcOK /\ Opened /\ TypeOK
    BY TypeSplit DEF TypeInv
  <1>1. "read" \in StorePC /\ "read" \notin Known \cup Fitted
    BY DEF StorePC, Window, Reading, Writing, Stored, Known, Fitted
  <1>2. pc[r] = "read" /\ pc'[r] = "read" /\ \A q \in Stores \ {r} : pc'[q] = pc[q]
    BY <1>0, <1>1, GotoStore DEF ReadBlock, Threads
  <1>3. pc' = pc
    BY <1>0, <1>2 DEF ReadBlock, Goto, PcOK
  <1> DEFINE d == dir[r]
             n == Len(buf[r]) + 1
  <1>4. d \in Dirs /\ json[d] # None /\ json[d] \in Seq(Block) /\ buf[r] \in Seq(Block)
    BY <1>0, <1>2 DEF RestOK, Files, Opened
  <1>5. n \in DOMAIN json[d] /\ buf'[r] = Append(buf[r], json[d][n])
          /\ \A q \in Stores \ {r} : buf'[q] = buf[q]
    BY <1>0, <1>4 DEF ReadBlock, RestOK
  <1>6. json' = json /\ dir' = dir /\ shape' = shape
    BY DEF ReadBlock
  <1> HIDE DEF d
  <1>7. FileTraced'
    BY <1>3, <1>6 DEF TraceInv, FileTraced
  <1>8. ASSUME NEW k \in DOMAIN buf'[r]
        PROVE  (k \in DOMAIN buf[r] /\ buf'[r][k] = buf[r][k]) \/ buf'[r][k] = json[d][n]
    BY <1>4, <1>5
  <1> HIDE DEF n
  <1>9. \A q \in json[d][n].has :
          dir[q] = d /\ pc[q] \in Known /\ \A p \in json[d][n].has : shape[p] = shape[q]
    BY <1>4, <1>5 DEF TraceInv, FileTraced
  <1>10. ASSUME NEW q \in Stores, NEW k \in DOMAIN buf'[q], NEW p \in buf'[q][k].has
         PROVE  /\ dir[p] = dir[q] /\ pc[p] \in Known
                /\ \A o \in buf'[q][k].has : shape[o] = shape[p]
    <2>1. CASE q # r
      BY <1>5, <2>1 DEF TraceInv, MemoryTraced
    <2>2. CASE q = r
      <3>1. CASE buf'[r][k] = json[d][n]
        BY <1>9, <2>2, <3>1 DEF d
      <3>2. CASE k \in DOMAIN buf[r] /\ buf'[r][k] = buf[r][k]
        BY <2>2, <3>2 DEF TraceInv, MemoryTraced
      <3> QED
        BY <1>8, <2>2, <3>1, <3>2
    <2> QED
      BY <2>1, <2>2
  <1>11. MemoryTraced'
    BY <1>3, <1>6, <1>10 DEF MemoryTraced
  <1>12. Fitting'
    <2> SUFFICES ASSUME NEW q \in Stores, pc'[q] \in Fitted PROVE Compatible(q)'
      BY DEF Fitting
    <2>1. q # r /\ Compatible(q)
      BY <1>1, <1>2, <1>3 DEF TraceInv, Fitting
    <2> QED
      BY <1>5, <1>6, <2>1 DEF Compatible
  <1> QED
    BY <1>7, <1>11, <1>12 DEF TraceInv

\* Every step keeps the invariant.
LEMMA TraceStep == TypeInv /\ Fresh /\ TraceInv /\ [Next]_vars => TraceInv'
  <1> SUFFICES ASSUME TypeInv, Fresh, TraceInv, [Next]_vars PROVE TraceInv'
    OBVIOUS
  <1> USE DEF files, engine, local, history, env
  <1>0. PcOK /\ RestOK /\ TypeOK
    BY TypeSplit DEF TypeInv
  <1>s. {"body", "lockparse", "parse", "statroot", "mkroot", "statdir", "mkdir", "statjson",
         "openread", "read", "lockmerge", "merge", "openwrite", "write", "highlight", "copy",
         "copywrite", "append", "200", "400", "405", "500merge", "500write", "500append"} \subseteq StorePC
    BY DEF StorePC, Window, Reading, Writing, Stored, Final
  <1>w. /\ Writing = {"write", "highlight"}
        /\ Fitted = {"openwrite", "write", "highlight"}
        /\ Known = {"write", "highlight", "copy", "copywrite", "append", "200", "500append", "500write", "dead"}
    BY DEF Writing, Stored, Known, Fitted
  <1>g. \A r \in Stores : \A a : \A b \in StorePC :
          Goto(r, a, b) => pc[r] = a /\ pc'[r] = b /\ \A q \in Stores \ {r} : pc'[q] = pc[q]
    BY <1>0, GotoStore DEF Threads
  <1>u. ASSUME NEW r \in Stores, NEW a, NEW b \in StorePC, Goto(r, a, b), UNCHANGED <<local, json>>,
               a \in Known => b \in Known, b \in Fitted => a \in Fitted \/ Compatible(r)
        PROVE  TraceInv'
    BY <1>0, <1>g, <1>u, TraceGo
  <1>a. ASSUME NEW r \in Stores, NEW a, NEW b \in StorePC, Answer(r, a, b)
        PROVE  /\ Goto(r, a, b) /\ buf'[r] = <<>> /\ dir' = dir /\ shape' = shape
               /\ \A q \in Stores \ {r} : buf'[q] = buf[q]
    BY <1>0, <1>a DEF Answer, RestOK
  <1>1. ASSUME NEW r \in Stores, NEW d \in Dirs, Accept(r, d) PROVE TraceInv'
    <2>1. pc[r] = "idle" /\ pc'[r] = "body" /\ \A q \in Stores \ {r} : pc'[q] = pc[q] /\ dir'[q] = dir[q]
      BY <1>0, <1>1, <1>g, <1>s DEF Accept, RestOK
    <2>2. buf[r] = <<>> /\ buf' = buf /\ shape' = shape /\ json' = json
      BY <1>1, <2>1 DEF Accept, Fresh, Loaded, Writing
    <2> QED
      BY <1>0, <1>w, <2>1, <2>2, TraceFrame
  <1>2. ASSUME NEW r \in Stores, RejectMethod(r) \/ ReadBody(r) PROVE TraceInv'
    BY <1>2, <1>s, <1>u, <1>w DEF RejectMethod, ReadBody
  <1>3. ASSUME NEW t \in Threads, LockJS(t) PROVE TraceInv'
    <2>1. CASE t \in Stores
      BY <1>3, <1>s, <1>u, <1>w, <2>1, StoreAssumption DEF LockJS
    <2>2. CASE t \in Loads
      <3>1. \A q \in Stores : pc'[q] = pc[q]
        BY <1>0, <1>3, <2>2, GotoLoad, StoreAssumption DEF LockJS, LoadPC, Threads
      <3> QED
        BY <1>0, <1>3, <3>1, TraceFrame DEF LockJS
    <2> QED
      BY <2>1, <2>2 DEF Threads
  <1>4. ASSUME NEW r \in Stores, ParseBody(r) \/ StatRoot(r) \/ StatTarget(r) \/ MakeRoot(r) \/ MakeTarget(r)
        PROVE  TraceInv'
    BY <1>4, <1>s, <1>u, <1>w DEF ParseBody, StatRoot, StatTarget, StatDir, MakeRoot, MakeTarget, MakeDir
  <1>5. ASSUME NEW r \in Stores, OpenReadFails(r) \/ MergeFails(r) \/ OpenWriteFails(r) \/ CloseWriteFails(r)
        PROVE  TraceInv'
    <2>1. json' = json
      BY <1>5 DEF OpenReadFails, MergeFails, OpenWriteFails, CloseWriteFails
    <2>2. PICK a \in {"openread", "merge", "openwrite", "write", "highlight"}, b \in {"500merge", "500write"} :
             Answer(r, a, b) /\ (a \in Known => b = "500write")
      BY <1>5, <1>w DEF OpenReadFails, MergeFails, OpenWriteFails, CloseWriteFails
    <2>3. b \in StorePC
      BY <1>s
    <2>4. pc[r] = a /\ pc'[r] = b /\ \A q \in Stores \ {r} : pc'[q] = pc[q] /\ buf'[q] = buf[q]
      BY <1>a, <1>g, <2>2, <2>3
    <2>5. buf'[r] = <<>> /\ dir' = dir /\ shape' = shape
      BY <1>a, <2>2, <2>3
    <2> QED
      BY <1>0, <1>w, <2>1, <2>2, <2>4, <2>5, TraceGo
  <1>6. ASSUME NEW r \in Stores, StatJson(r) PROVE TraceInv'
    <2>1. pc[r] = "statjson"
      BY <1>6 DEF StatJson, Goto
    <2>2. Compatible(r)
      BY <2>1 DEF Fresh, Loaded, Writing, Compatible
    <2> QED
      BY <1>6, <1>s, <1>u, <1>w, <2>2 DEF StatJson
  <1>7. ASSUME NEW r \in Stores, OpenRead(r) \/ ReadEnd(r) \/ Merge(r) \/ HighlightStart(r) PROVE TraceInv'
    BY <1>7, <1>s, <1>u, <1>w DEF OpenRead, ReadEnd, Merge, HighlightStart
  <1>8. ASSUME NEW r \in Stores, ReadBlock(r) PROVE TraceInv'
    BY <1>8, TraceRead
  <1>9. ASSUME NEW r \in Stores, OpenWrite(r) PROVE TraceInv'
    <2>1. pc[r] = "openwrite" /\ pc'[r] = "write" /\ \A q \in Stores \ {r} : pc'[q] = pc[q]
      BY <1>9, <1>g, <1>s DEF OpenWrite
    <2>2. \A d \in Dirs : json'[d] = json[d] \/ json'[d] = <<>>
      BY <1>0, <1>9 DEF OpenWrite, RestOK, Files
    <2> QED
      BY <1>0, <1>9, <1>w, <2>1, <2>2, TraceFrame DEF OpenWrite
  <1>10. ASSUME NEW r \in Stores, WriteBlock(r) \/ LoseBlock(r) PROVE TraceInv'
    <2>1. pc[r] \in Writing /\ pc'[r] = "write" /\ \A q \in Stores \ {r} : pc'[q] = pc[q]
      BY <1>10, <1>g, <1>s, <1>w DEF WriteBlock, LoseBlock
    <2>2. buf' = buf /\ shape' = shape /\ dir' = dir
      BY <1>10 DEF WriteBlock, LoseBlock
    <2>3. CASE WriteBlock(r)
      <3>1. off[r] + 1 \in Nat /\ PutBlock(r, DocBlock(r, off[r] + 1))
        BY <1>0, <2>3 DEF WriteBlock, RestOK
      <3>2. \A q \in DocBlock(r, off[r] + 1).has :
              /\ dir[q] = dir[r] /\ pc'[q] \in Known
              /\ \A p \in DocBlock(r, off[r] + 1).has : shape[p] = shape[q]
        BY <1>w, <2>1, <3>1, DocBlockTraced
      <3>3. DocBlock(r, off[r] + 1) \in Block
        BY <2>1, <3>1, DocBlockTraced
      <3> QED
        BY <1>w, <2>1, <2>2, <3>1, <3>2, <3>3, TraceWrite
    <2>4. CASE LoseBlock(r)
      <3>1. PutBlock(r, Hole) /\ Hole \in Block /\ Hole.has = {}
        BY <2>4 DEF LoseBlock, Hole, Block
      <3> QED
        BY <1>w, <2>1, <2>2, <3>1, TraceWrite
    <2> QED
      BY <1>10, <2>3, <2>4
  <1>11. ASSUME NEW r \in Stores, CloseWrite(r) PROVE TraceInv'
    <2>1. Blocks \in Nat /\ PutBlock(r, DocBlock(r, Blocks))
      BY <1>11, StoreAssumption DEF CloseWrite
    <2>2. PICK a \in Writing : Answer(r, a, "copy")
      BY <1>11, <1>w DEF CloseWrite
    <2>3. pc[r] \in Writing /\ pc'[r] = "copy" /\ \A q \in Stores \ {r} : pc'[q] = pc[q]
      BY <1>a, <1>g, <1>s, <2>2
    <2>4. buf'[r] = <<>> /\ dir' = dir /\ shape' = shape /\ \A q \in Stores \ {r} : buf'[q] = buf[q]
      BY <1>a, <1>s, <2>2
    <2>5. \A q \in DocBlock(r, Blocks).has :
            /\ dir[q] = dir[r] /\ pc'[q] \in Known
            /\ \A p \in DocBlock(r, Blocks).has : shape[p] = shape[q]
      BY <1>w, <2>1, <2>3, DocBlockTraced
    <2>6. DocBlock(r, Blocks) \in Block
      BY <2>1, <2>3, DocBlockTraced
    <2> QED
      BY <1>w, <2>1, <2>3, <2>4, <2>5, <2>6, TraceWrite
  <1>12. ASSUME NEW r \in Stores, CopyOpen(r) \/ CopyWrite(r) \/ AppendFlag(r) \/ AppendFails(r)
         PROVE  TraceInv'
    BY <1>12, <1>s, <1>u, <1>w DEF CopyOpen, CopyWrite, AppendFlag, AppendFails
  <1>13. ASSUME NEW t \in Loads, AcceptLoad(t) \/ Instrument(t) PROVE TraceInv'
    <2>1. \A q \in Stores : pc'[q] = pc[q]
      BY <1>0, <1>13, GotoLoad, StoreAssumption DEF AcceptLoad, Instrument, LoadPC, Threads
    <2> QED
      BY <1>0, <1>13, <2>1, TraceFrame DEF AcceptLoad, Instrument
  <1>14. ASSUME ProcessExits PROVE TraceInv'
    <2>1. \A q \in Stores : pc'[q] = "dead" \/ pc'[q] = pc[q]
      BY <1>0, <1>14, ExitPcs DEF Threads
    <2>2. \A q \in Stores : buf'[q] = <<>>
      BY <1>14 DEF ProcessExits
    <2> QED
      BY <1>0, <1>14, <1>w, <2>1, <2>2, TraceFrame DEF ProcessExits
  <1>15. ASSUME NEW r \in Stores, MkdirFatal(r) \/ CopyFatal(r) \/ EngineRace(r) PROVE TraceInv'
    BY <1>14, <1>15 DEF MkdirFatal, MakeDirFatal, CopyFatal, EngineRace
  <1>16. CASE Exit
    BY <1>14, <1>16 DEF Exit
  <1>17. CASE Restart \/ UNCHANGED vars
    BY <1>0, <1>17, TraceFrame DEF Restart, vars
  <1>18. ASSUME NEW r \in Stores, StoreStep(r) PROVE TraceInv'
    <2>1. r \in Threads
      BY DEF Threads
    <2> QED
      BY <1>2, <1>3, <1>4, <1>5, <1>6, <1>7, <1>8, <1>9, <1>10, <1>11, <1>12, <1>15, <1>18, <2>1 DEF StoreStep, StoreWork
  <1>19. ASSUME NEW r \in Stores, StoreFault(r) PROVE TraceInv'
    BY <1>5, <1>10, <1>12, <1>15, <1>19 DEF StoreFault
  <1>20. ASSUME NEW t \in Loads, LoadStep(t) PROVE TraceInv'
    BY <1>3, <1>13, <1>20 DEF LoadStep, Threads
  <1> QED
    BY <1>1, <1>2, <1>13, <1>15, <1>16, <1>17, <1>18, <1>19, <1>20 DEF Next

----------------------------------------------------------------------------
\* At the start there are no texts.
LEMMA TraceInit == Init => TraceInv
  <1> SUFFICES ASSUME Init PROVE TraceInv
    OBVIOUS
  <1>1. \A r \in Stores : buf[r] = <<>> /\ pc[r] = "idle"
    BY DEF Init, Threads
  <1>2. \A d \in Dirs : json[d] = None
    BY DEF Init
  <1> QED
    BY <1>1, <1>2 DEF TraceInv, FileTraced, MemoryTraced, Fitting, Fitted, Writing

\* What the invariant says of all the texts of a directory.
LEMMA TextsTraced ==
  ASSUME TraceInv, NEW d \in Dirs, NEW b \in Texts(d), NEW q \in b.has
  PROVE  /\ dir[q] = d /\ pc[q] \in Known
         /\ \A p \in b.has : shape[p] = shape[q]
  <1>1. \/ json[d] # None /\ \E k \in DOMAIN json[d] : b = json[d][k]
        \/ \E r \in Stores : dir[r] = d /\ \E k \in DOMAIN buf[r] : b = buf[r][k]
    BY DEF Texts
  <1>2. CASE json[d] # None /\ \E k \in DOMAIN json[d] : b = json[d][k]
    BY <1>2 DEF TraceInv, FileTraced
  <1>3. CASE \E r \in Stores : dir[r] = d /\ \E k \in DOMAIN buf[r] : b = buf[r][k]
    BY <1>3 DEF TraceInv, MemoryTraced
  <1> QED
    BY <1>1, <1>2, <1>3

\* In every run a store that was refused, or that has not come to writing, has
\* its counts in no file and in no handler's memory, its own directory or not.
THEOREM NoTraceCorrect == Spec => []NoTraceOfRefused
  <1>1. Init => TypeInv /\ Fresh /\ TraceInv
    BY TypeInit, DurableInit, TraceInit DEF DurableInv
  <1>2. TypeInv /\ Fresh /\ TraceInv /\ [Next]_vars => (TypeInv /\ Fresh /\ TraceInv)'
    BY TypeStep, FreshStep, TraceStep
  <1>3. TraceInv => NoTraceOfRefused
    BY TextsTraced DEF NoTraceOfRefused, Known
  <1> QED
    BY <1>1, <1>2, <1>3, PTL DEF Spec

\* In every run the counts that are added up in a block are of data of one
\* shape, also when handlers race for the file and read what another one is
\* writing.
THEOREM ShapesCorrect == Spec => []ShapesAgree
  <1>1. Init => TypeInv /\ Fresh /\ TraceInv
    BY TypeInit, DurableInit, TraceInit DEF DurableInv
  <1>2. TypeInv /\ Fresh /\ TraceInv /\ [Next]_vars => (TypeInv /\ Fresh /\ TraceInv)'
    BY TypeStep, FreshStep, TraceStep
  <1>3. TraceInv => ShapesAgree
    BY TextsTraced DEF ShapesAgree
  <1> QED
    BY <1>1, <1>2, <1>3, PTL DEF Spec

----------------------------------------------------------------------------
\* jscoverage.js exists once a handler has opened it; while nobody is copying
\* it begins with the body, and while nobody is about to mark it either it ends
\* with the flag, unless an update was cut short.
Exists(d) == \A r \in Stores : dir[r] = d /\ pc[r] \in {"copywrite", "append", "200"} => js[d] # None

Whole(d) ==
  js[d] # None /\ (\A r \in Stores : dir[r] = d => pc[r] # "copywrite")
    => Len(js[d]) > 0 /\ js[d][1] = "body"

Marked(d) ==
  js[d] # None /\ (\A r \in Stores : dir[r] = d => pc[r] \notin {"copywrite", "append"})
    => Len(js[d]) > 1 /\ js[d][Len(js[d])] = "flag"

ScriptInv == \A d \in Dirs \ damaged : Exists(d) /\ Whole(d) /\ Marked(d)

\* A step that leaves the files and the handlers at work on them alone.
LEMMA ScriptFrame ==
  ASSUME ScriptInv, js' = js, damaged \subseteq damaged',
         \A r \in Stores :
           \/ pc'[r] = pc[r] /\ dir'[r] = dir[r]
           \/ pc[r] \notin {"copywrite", "append"} /\ pc'[r] \notin {"copywrite", "append", "200"}
           \/ dir'[r] = dir[r] /\ dir[r] \in damaged'
  PROVE  ScriptInv'
  <1> SUFFICES ASSUME NEW d \in Dirs \ damaged' PROVE (Exists(d) /\ Whole(d) /\ Marked(d))'
    BY DEF ScriptInv
  <1>1. Exists(d) /\ Whole(d) /\ Marked(d)
    BY DEF ScriptInv
  <1> QED
    BY <1>1 DEF Exists, Whole, Marked

\* The step of one handler that leaves jscoverage.js alone.
LEMMA ScriptGo ==
  ASSUME ScriptInv, NEW r \in Stores, \A q \in Stores \ {r} : pc'[q] = pc[q],
         js' = js, dir' = dir, damaged \subseteq damaged',
         \/ pc[r] \notin {"copywrite", "append"} /\ pc'[r] \notin {"copywrite", "append", "200"}
         \/ dir[r] \in damaged'
  PROVE  ScriptInv'
  BY ScriptFrame

\* What copying and marking make of a text.
LEMMA ScriptTexts ==
  ASSUME NEW f \in Seq({"body", "flag"})
  PROVE  /\ Len(<<"body">> \o SubSeq(f, 2, Len(f))) > 0
         /\ (<<"body">> \o SubSeq(f, 2, Len(f)))[1] = "body"
         /\ Len(Append(f, "flag")) = Len(f) + 1 /\ Append(f, "flag")[Len(f) + 1] = "flag"
         /\ Len(f) > 0 => Append(f, "flag")[1] = f[1]
  <1> DEFINE t == SubSeq(f, 2, Len(f))
             w == <<"body">> \o t
  <1>1. t \in Seq({"body", "flag"}) /\ Len(t) \in Nat /\ Len(<<"body">>) = 1
    OBVIOUS
  <1> HIDE DEF t
  <1>2. Len(w) = 1 + Len(t) /\ w[1] = "body"
    BY <1>1
  <1> HIDE DEF w
  <1>3. Len(w) > 0
    BY <1>1, <1>2
  <1>4. Len(Append(f, "flag")) = Len(f) + 1 /\ Append(f, "flag")[Len(f) + 1] = "flag"
          /\ (Len(f) > 0 => Append(f, "flag")[1] = f[1])
    OBVIOUS
  <1> QED
    BY <1>2, <1>3, <1>4 DEF w, t

\* Opening, copying and marking jscoverage.js.
LEMMA ScriptWritten ==
  ASSUME TypeInv, ScriptInv, NEW r \in Stores, CopyOpen(r) \/ CopyWrite(r) \/ AppendFlag(r)
  PROVE  ScriptInv'
  <1> USE DEF local, history
  <1>0. RestOK /\ PcOK /\ Opened
    BY TypeSplit DEF TypeInv
  <1>s. {"copywrite", "append", "200"} \subseteq StorePC
    BY DEF StorePC, Window, Reading, Writing, Stored, Final
  <1>1. dir' = dir /\ damaged' = damaged
    BY DEF CopyOpen, CopyWrite, AppendFlag
  <1>2. \A q \in Stores \ {r} : pc'[q] = pc[q]
    BY <1>0, <1>s, GotoStore DEF CopyOpen, CopyWrite, AppendFlag, Threads
  <1>3. \A d \in Dirs \ {dir[r]} : js'[d] = js[d]
    BY <1>0 DEF RestOK, CopyOpen, CopyWrite, AppendFlag
  <1> SUFFICES ASSUME NEW d \in Dirs \ damaged PROVE Exists(d)' /\ Whole(d)' /\ Marked(d)'
    BY <1>1 DEF ScriptInv
  <1>4. Exists(d) /\ Whole(d) /\ Marked(d)
    BY DEF ScriptInv
  <1>5. CASE d # dir[r]
    <2>1. js'[d] = js[d] /\ \A q \in Stores : dir[q] = d => pc'[q] = pc[q]
      BY <1>2, <1>3, <1>5
    <2> QED
      BY <1>1, <1>4, <2>1 DEF Exists, Whole, Marked
  <1>6. CASE d = dir[r]
    <2> DEFINE f == js[d]
    <2>t. pc[r] \in {"copywrite", "append"} => f \in Seq({"body", "flag"}) /\ f # None
      BY <1>0, <1>6 DEF RestOK, Opened
    <2>1. CASE CopyOpen(r)
      <3>1. pc'[r] = "copywrite" /\ js'[d] = <<>>
        BY <1>0, <1>6, <1>s, <2>1, GotoStore DEF CopyOpen, RestOK
      <3>2. <<>> # None
        <4>1. <<>> \in Seq({"body", "flag"})
          OBVIOUS
        <4> QED
          BY <4>1, NoFileAssumption
      <3> QED
        BY <1>1, <1>6, <3>1, <3>2 DEF Exists, Whole, Marked
    <2>2. CASE CopyWrite(r)
      <3>1. pc[r] = "copywrite" /\ pc'[r] = "append" /\ js'[d] = <<"body">> \o SubSeq(f, 2, Len(f))
        BY <1>0, <1>6, <1>s, <2>2, GotoStore DEF CopyWrite, RestOK
      <3>2. js'[d] # None /\ Len(js'[d]) > 0 /\ js'[d][1] = "body"
        <4>1. js'[d] \in Seq({"body", "flag"})
          BY <2>t, <3>1
        <4> QED
          BY <2>t, <3>1, <4>1, ScriptTexts, NoFileAssumption
      <3> QED
        BY <1>1, <1>6, <3>1, <3>2 DEF Exists, Whole, Marked
    <2>3. CASE AppendFlag(r)
      <3>1. pc[r] = "append" /\ pc'[r] = "200" /\ js'[d] = Append(f, "flag")
        BY <1>0, <1>6, <1>s, <2>3, GotoStore DEF AppendFlag, RestOK
      <3>2. f \in Seq({"body", "flag"}) /\ js'[d] # None /\ Len(f) \in Nat /\ Len(js'[d]) = Len(f) + 1
              /\ js'[d][Len(f) + 1] = "flag" /\ (Len(f) > 0 => js'[d][1] = f[1])
        <4> HIDE DEF f
        <4>1. f \in Seq({"body", "flag"})
          BY <2>t, <3>1
        <4>2. js'[d] # None
          BY <3>1, <4>1, NoFileAssumption
        <4>3. Len(f) \in Nat
          BY <4>1
        <4> QED
          BY <3>1, <4>1, <4>2, <4>3, ScriptTexts
      <3>3. ASSUME \A q \in Stores : dir[q] = d => pc'[q] # "copywrite"
            PROVE  Len(f) > 0 /\ f[1] = "body"
        <4>1. \A q \in Stores : dir[q] = d => pc[q] # "copywrite"
          BY <1>2, <3>1, <3>3
        <4> QED
          BY <1>4, <2>t, <3>1, <4>1 DEF Whole
      <3> HIDE DEF f
      <3>4. Exists(d)'
        BY <3>2 DEF Exists
      <3>5. Whole(d)'
        BY <1>1, <3>2, <3>3 DEF Whole
      <3>6. Marked(d)'
        BY <1>1, <3>2, <3>3 DEF Marked
      <3> QED
        BY <3>4, <3>5, <3>6
    <2> QED
      BY <2>1, <2>2, <2>3
  <1> QED
    BY <1>5, <1>6

\* Every step keeps the invariant.
LEMMA ScriptStep == TypeInv /\ ScriptInv /\ [Next]_vars => ScriptInv'
  <1> SUFFICES ASSUME TypeInv, ScriptInv, [Next]_vars PROVE ScriptInv'
    OBVIOUS
  <1> USE DEF files, engine, local, history, env
  <1>0. PcOK /\ RestOK
    BY TypeSplit DEF TypeInv
  <1>d. damaged \subseteq damaged'
    BY HistoryGrows
  <1>s. {"body", "lockparse", "parse", "statroot", "mkroot", "statdir", "mkdir", "statjson",
         "openread", "read", "lockmerge", "merge", "openwrite", "write", "highlight", "copy",
         "copywrite", "append", "200", "400", "405", "500merge", "500write", "500append"} \subseteq StorePC
    BY DEF StorePC, Window, Reading, Writing, Stored, Final
  <1>g. \A r \in Stores : \A a : \A b \in StorePC :
          Goto(r, a, b) => pc[r] = a /\ pc'[r] = b /\ \A q \in Stores \ {r} : pc'[q] = pc[q]
    BY <1>0, GotoStore DEF Threads
  <1>u. ASSUME NEW r \in Stores, NEW a, NEW b \in StorePC, Goto(r, a, b), js' = js, dir' = dir,
               a \notin {"copywrite", "append"}, b \notin {"copywrite", "append", "200"}
        PROVE  ScriptInv'
    BY <1>d, <1>g, <1>u, ScriptGo
  <1>1. ASSUME NEW r \in Stores, NEW d \in Dirs, Accept(r, d) PROVE ScriptInv'
    <2>1. pc[r] = "idle" /\ pc'[r] = "body" /\ \A q \in Stores \ {r} : pc'[q] = pc[q] /\ dir'[q] = dir[q]
      BY <1>0, <1>1, <1>g, <1>s DEF Accept, RestOK
    <2> QED
      BY <1>1, <1>d, <2>1, ScriptFrame DEF Accept
  <1>2. ASSUME NEW r \in Stores, RejectMethod(r) \/ ReadBody(r) \/ ParseBody(r) PROVE ScriptInv'
    BY <1>2, <1>s, <1>u DEF RejectMethod, ReadBody, ParseBody
  <1>3. ASSUME NEW t \in Threads, LockJS(t) PROVE ScriptInv'
    <2>1. CASE t \in Stores
      BY <1>3, <1>s, <1>u, <2>1, StoreAssumption DEF LockJS
    <2>2. CASE t \in Loads
      <3>1. \A q \in Stores : pc'[q] = pc[q]
        BY <1>0, <1>3, <2>2, GotoLoad, StoreAssumption DEF LockJS, LoadPC, Threads
      <3> QED
        BY <1>3, <1>d, <3>1, ScriptFrame DEF LockJS
    <2> QED
      BY <2>1, <2>2 DEF Threads
  <1>4. ASSUME NEW r \in Stores, StatRoot(r) \/ StatTarget(r) \/ MakeRoot(r) \/ MakeTarget(r)
        PROVE  ScriptInv'
    BY <1>4, <1>s, <1>u DEF StatRoot, StatTarget, StatDir, MakeRoot, MakeTarget, MakeDir
  <1>5. ASSUME NEW r \in Stores, OpenReadFails(r) \/ MergeFails(r) \/ OpenWriteFails(r) \/ CloseWriteFails(r)
        PROVE  ScriptInv'
    BY <1>5, <1>s, <1>u DEF OpenReadFails, MergeFails, OpenWriteFails, CloseWriteFails, Answer
  <1>6. ASSUME NEW r \in Stores, StatJson(r) \/ OpenRead(r) \/ ReadBlock(r) \/ ReadEnd(r) PROVE ScriptInv'
    BY <1>6, <1>s, <1>u DEF StatJson, OpenRead, ReadBlock, ReadEnd
  <1>7. ASSUME NEW r \in Stores, Merge(r) \/ OpenWrite(r) \/ HighlightStart(r) PROVE ScriptInv'
    BY <1>7, <1>s, <1>u DEF Merge, OpenWrite, HighlightStart
  <1>8. ASSUME NEW r \in Stores, WriteBlock(r) \/ LoseBlock(r) PROVE ScriptInv'
    BY <1>8, <1>s, <1>u DEF WriteBlock, LoseBlock, PutBlock
  <1>9. ASSUME NEW r \in Stores, CloseWrite(r) PROVE ScriptInv'
    BY <1>9, <1>s, <1>u DEF CloseWrite, Answer, PutBlock
  <1>10. ASSUME NEW r \in Stores, CopyOpen(r) \/ CopyWrite(r) \/ AppendFlag(r) PROVE ScriptInv'
    BY <1>10, ScriptWritten
  <1>11. ASSUME NEW r \in Stores, AppendFails(r) PROVE ScriptInv'
    <2>1. dir[r] \in damaged' /\ js' = js /\ dir' = dir /\ \A q \in Stores \ {r} : pc'[q] = pc[q]
      BY <1>11, <1>g, <1>s DEF AppendFails
    <2> QED
      BY <1>d, <2>1, ScriptGo
  <1>12. ASSUME NEW t \in Loads, AcceptLoad(t) \/ Instrument(t) PROVE ScriptInv'
    <2>1. \A q \in Stores : pc'[q] = pc[q]
      BY <1>0, <1>12, GotoLoad, StoreAssumption DEF AcceptLoad, Instrument, LoadPC, Threads
    <2> QED
      BY <1>12, <1>d, <2>1, ScriptFrame DEF AcceptLoad, Instrument
  <1>13. ASSUME ProcessExits PROVE ScriptInv'
    <2>1. \A q \in Stores : pc'[q] = "dead" \/ pc'[q] = pc[q]
      BY <1>0, <1>13, ExitPcs DEF Threads
    <2>2. \A q \in Stores : pc[q] \in {"copywrite", "append"} => dir[q] \in damaged'
      BY <1>13 DEF ProcessExits
    <2>3. js' = js /\ dir' = dir
      BY <1>13 DEF ProcessExits
    <2> QED
      BY <1>d, <2>1, <2>2, <2>3, ScriptFrame
  <1>14. ASSUME NEW r \in Stores, MkdirFatal(r) \/ CopyFatal(r) \/ EngineRace(r) PROVE ScriptInv'
    BY <1>13, <1>14 DEF MkdirFatal, MakeDirFatal, CopyFatal, EngineRace
  <1>15. CASE Exit
    BY <1>13, <1>15 DEF Exit
  <1>16. CASE Restart \/ UNCHANGED vars
    BY <1>16, <1>d, ScriptFrame DEF Restart, vars
  <1>17. ASSUME NEW r \in Stores, StoreStep(r) PROVE ScriptInv'
    <2>1. r \in Threads
      BY DEF Threads
    <2> QED
      BY <1>2, <1>3, <1>4, <1>5, <1>6, <1>7, <1>8, <1>9, <1>10, <1>14, <1>17, <2>1 DEF StoreStep, StoreWork
  <1>18. ASSUME NEW r \in Stores, StoreFault(r) PROVE ScriptInv'
    BY <1>5, <1>8, <1>11, <1>14, <1>18 DEF StoreFault
  <1>19. ASSUME NEW t \in Loads, LoadStep(t) PROVE ScriptInv'
    BY <1>3, <1>12, <1>19 DEF LoadStep, Threads
  <1> QED
    BY <1>1, <1>2, <1>12, <1>14, <1>15, <1>16, <1>17, <1>18, <1>19 DEF Next

\* In every run the jscoverage.js of a stored report is a whole, marked copy
\* while nobody is copying or marking it, whatever handlers have copied and
\* marked it at the same time, unless one of them was cut short.
THEOREM UsableCorrect == Spec => []ReportUsable
  <1>1. Init => ScriptInv
    <2> SUFFICES ASSUME Init PROVE ScriptInv
      OBVIOUS
    <2>1. \A r \in Stores : pc[r] = "idle"
      BY DEF Init, Threads
    <2>2. \A d \in Dirs : js[d] = None
      BY DEF Init
    <2> QED
      BY <2>1, <2>2 DEF ScriptInv, Exists, Whole, Marked
  <1>2. TypeInv /\ ScriptInv /\ [Next]_vars => (TypeInv /\ ScriptInv)'
    BY TypeStep, ScriptStep
  <1>3. ScriptInv => ReportUsable
    BY DEF ScriptInv, Exists, Whole, Marked, ReportUsable
  <1> QED
    BY <1>1, <1>2, <1>3, TypeInit, PTL DEF Spec

----------------------------------------------------------------------------
(***************************************************************************)
(* CoverageStore implements ReportStore, for any number of handlers,       *)
(* directories and blocks, whatever fails and whenever the process ends.   *)
(*                                                                         *)
(* DurableInv says that a rewriting loses nothing.  That it adds nothing   *)
(* but its own counts either needs the converse: what a handler carries is *)
(* what the file held (Read), and what it has written is its document      *)
(* (Written).                                                              *)
(***************************************************************************)

\* a handler there has read the file, and not emptied it
Holding == {"lockmerge", "merge", "openwrite"}

\* Handler r has read all of the file of d, if there is one.
Read(r, d) ==
  /\ json[d] = None => buf[r] = <<>>
  /\ json[d] # None =>
       /\ \A k \in DOMAIN json[d] : k \in DOMAIN buf[r]
       /\ \A k \in DOMAIN buf[r] : k \in DOMAIN json[d] /\ buf[r][k] = json[d][k]

\* The first blocks of the file of d are those of the document of r.
Written(r, d) == \A k \in 1 .. off[r] : k \in DOMAIN json[d] /\ json[d][k] = DocBlock(r, k)

Exact(r, d) ==
  /\ pc[r] \in Holding => Read(r, d)
  /\ pc[r] \in Writing => Written(r, d)

ExactDir(d) == \A r \in Stores : dir[r] = d => Exact(r, d)

ExactInv == \A d \in Intact : ExactDir(d)

----------------------------------------------------------------------------
\* A step that leaves the file of d and the handlers at work on it alone.
LEMMA ExactFrame ==
  ASSUME NEW d, ExactDir(d), json'[d] = json[d],
         \A q \in Stores : dir'[q] = d /\ pc'[q] \in Holding \cup Writing =>
            dir[q] = d /\ buf'[q] = buf[q] /\ off'[q] = off[q]
              /\ (pc'[q] \in Holding => pc[q] \in Holding) /\ (pc'[q] \in Writing => pc[q] \in Writing)
  PROVE  ExactDir(d)'
  <1> SUFFICES ASSUME NEW q \in Stores, dir'[q] = d PROVE Exact(q, d)'
    BY DEF ExactDir
  <1>1. CASE pc'[q] \notin Holding \cup Writing
    BY <1>1 DEF Exact
  <1>2. CASE pc'[q] \in Holding \cup Writing
    <2>1. dir[q] = d /\ buf'[q] = buf[q] /\ off'[q] = off[q] /\ Exact(q, d)
      BY <1>2 DEF ExactDir
    <2>2. Read(q, d) => Read(q, d)'
      BY <2>1 DEF Read
    <2>3. Written(q, d) => Written(q, d)'
      BY <2>1 DEF Written, DocBlock
    <2> QED
      BY <1>2, <2>1, <2>2, <2>3 DEF Exact
  <1> QED
    BY <1>1, <1>2

\* The step of one handler whose file stays as it is, or is not that of d.
LEMMA ExactGo ==
  ASSUME NEW d, ExactDir(d), NEW r \in Stores, json'[d] = json[d], dir' = dir,
         \A q \in Stores \ {r} : pc'[q] = pc[q] /\ buf'[q] = buf[q] /\ off'[q] = off[q],
         dir[r] = d /\ pc'[r] \in Holding \cup Writing =>
           buf'[r] = buf[r] /\ off'[r] = off[r]
             /\ (pc'[r] \in Holding => pc[r] \in Holding) /\ (pc'[r] \in Writing => pc[r] \in Writing)
  PROVE  ExactDir(d)'
  BY ExactFrame

\* A step of the only handler at work on d.
LEMMA ExactAlone ==
  ASSUME NEW d, DirInv(d), NEW r \in Stores, dir[r] = d, dir' = dir, pc[r] \in Window,
         \A q \in Stores \ {r} : pc'[q] = pc[q],
         Exact(r, d)'
  PROVE  ExactDir(d)'
  <1>1. Holding \cup Writing \subseteq Window
    BY DEF Holding, Window, Reading
  <1>2. \A q \in Stores \ {r} : dir[q] = d => pc'[q] \notin Window
    BY DEF DirInv, Alone
  <1> QED
    BY <1>1, <1>2 DEF ExactDir, Exact

\* What a write of a block leaves in the first blocks of the file.
LEMMA BlocksExact ==
  ASSUME TypeInv, NEW r \in Stores, NEW d \in Dirs, d = dir[r], pc[r] \in Writing, Written(r, d),
         NEW k \in 1 .. Blocks, k = off[r] + 1, PutBlock(r, DocBlock(r, k))
  PROVE  \A i \in 1 .. k : i \in DOMAIN json'[d] /\ json'[d][i] = DocBlock(r, i)
  <1>0. TypeOK /\ RestOK /\ Opened
    BY TypeSplit DEF TypeInv
  <1>1. json[d] \in Seq(Block) /\ off[r] \in Nat
    BY <1>0 DEF Opened, RestOK, Files
  <1>2. DocBlock(r, k) \in Block
    BY <1>0, DocBlockType
  <1>3. json'[d] = WriteAt(json[d], k, DocBlock(r, k))
    BY <1>0, <1>2, PutBlockProps DEF Opened
  <1>4. \A i \in 1 .. off[r] : i \in DOMAIN json[d] /\ json[d][i] = DocBlock(r, i)
    BY DEF Written
  <1> DEFINE f == json[d]
             b == DocBlock(r, k)
             w == WriteAt(f, k, b)
  <1>5. f \in Seq(Block) /\ b \in Block /\ k \in Nat \ {0}
    BY <1>1, <1>2
  <1> HIDE DEF f, b
  <1>6. /\ w \in Seq(Block)
        /\ Len(w) = IF k > Len(f) THEN k ELSE Len(f)
        /\ w[k] = b
        /\ \A i \in 1 .. Len(f) : i # k => w[i] = f[i]
    BY <1>5, WriteAtProps
  <1> HIDE DEF w
  <1>7. \A i \in 1 .. k : i \in DOMAIN w
    BY <1>5, <1>6
  <1>8. \A i \in 1 .. off[r] : i \in 1 .. Len(f) /\ f[i] = DocBlock(r, i) /\ i # k
    BY <1>1, <1>4, <1>5 DEF f
  <1>9. \A i \in 1 .. off[r] : w[i] = DocBlock(r, i)
    BY <1>6, <1>8
  <1>10. \A i \in 1 .. k : i \in 1 .. off[r] \/ i = k
    BY <1>1
  <1> QED
    BY <1>3, <1>6, <1>7, <1>9, <1>10 DEF w, f, b

\* Every step keeps a directory exact that stays intact.
LEMMA ExactStep ==
  ASSUME TypeInv, Fresh, [Next]_vars, NEW d \in Dirs, DirInv(d), ExactDir(d),
         d \notin raced' \cup damaged'
  PROVE  ExactDir(d)'
  <1> USE DEF files, engine, local, history, env
  <1>0. PcOK /\ RestOK /\ TypeOK /\ Opened
    BY TypeSplit DEF TypeInv
  <1>s. {"body", "lockparse", "parse", "statroot", "mkroot", "statdir", "mkdir", "statjson",
         "openread", "read", "lockmerge", "merge", "openwrite", "write", "highlight", "copy",
         "copywrite", "append", "200", "400", "405", "500merge", "500write", "500append"} \subseteq StorePC
    BY DEF StorePC, Window, Reading, Writing, Stored, Final
  <1>w. /\ Writing = {"write", "highlight"} /\ Holding = {"lockmerge", "merge", "openwrite"}
        /\ Window = {"openread", "read", "lockmerge", "merge", "openwrite", "write", "highlight"}
    BY DEF Window, Reading, Writing, Holding
  <1>g. \A r \in Stores : \A a : \A b \in StorePC :
          Goto(r, a, b) => pc[r] = a /\ pc'[r] = b /\ \A q \in Stores \ {r} : pc'[q] = pc[q]
    BY <1>0, GotoStore DEF Threads
  <1>u. ASSUME NEW r \in Stores, NEW a, NEW b \in StorePC, Goto(r, a, b), UNCHANGED <<local, json>>,
               b \in Holding => a \in Holding, b \in Writing => a \in Writing
        PROVE  ExactDir(d)'
    BY <1>g, <1>u, ExactGo
  <1>a. ASSUME NEW r \in Stores, NEW a, NEW b \in StorePC, Answer(r, a, b)
        PROVE  /\ Goto(r, a, b) /\ dir' = dir
               /\ \A q \in Stores \ {r} : buf'[q] = buf[q] /\ off'[q] = off[q]
    BY <1>0, <1>a DEF Answer, RestOK
  <1>p. ASSUME NEW r \in Stores, NEW b, PutBlock(r, b), d # dir[r] PROVE json'[d] = json[d]
    BY <1>0, <1>p DEF PutBlock, RestOK, Files
  <1>1. ASSUME NEW r \in Stores, NEW e \in Dirs, Accept(r, e) PROVE ExactDir(d)'
    <2>1. pc[r] = "idle" /\ pc'[r] = "body" /\ \A q \in Stores \ {r} : pc'[q] = pc[q] /\ dir'[q] = dir[q]
      BY <1>0, <1>1, <1>g, <1>s DEF Accept, RestOK
    <2> QED
      BY <1>1, <1>w, <2>1, ExactFrame DEF Accept
  <1>2. ASSUME NEW r \in Stores, RejectMethod(r) \/ ReadBody(r) \/ ParseBody(r) PROVE ExactDir(d)'
    BY <1>2, <1>s, <1>u, <1>w DEF RejectMethod, ReadBody, ParseBody
  <1>3. ASSUME NEW t \in Threads, LockJS(t) PROVE ExactDir(d)'
    <2>1. CASE t \in Stores
      BY <1>3, <1>s, <1>u, <1>w, <2>1, StoreAssumption DEF LockJS
    <2>2. CASE t \in Loads
      <3>1. \A q \in Stores : pc'[q] = pc[q]
        BY <1>0, <1>3, <2>2, GotoLoad, StoreAssumption DEF LockJS, LoadPC, Threads
      <3> QED
        BY <1>3, <3>1, ExactFrame DEF LockJS
    <2> QED
      BY <2>1, <2>2 DEF Threads
  <1>4. ASSUME NEW r \in Stores, StatRoot(r) \/ StatTarget(r) \/ MakeRoot(r) \/ MakeTarget(r)
        PROVE  ExactDir(d)'
    BY <1>4, <1>s, <1>u, <1>w DEF StatRoot, StatTarget, StatDir, MakeRoot, MakeTarget, MakeDir
  <1>5. ASSUME NEW r \in Stores, OpenReadFails(r) \/ MergeFails(r) \/ OpenWriteFails(r) \/ CloseWriteFails(r)
        PROVE  ExactDir(d)'
    <2>1. json' = json
      BY <1>5 DEF OpenReadFails, MergeFails, OpenWriteFails, CloseWriteFails
    <2>2. PICK b \in {"500merge", "500write"} : \E a : Answer(r, a, b)
      BY <1>5 DEF OpenReadFails, MergeFails, OpenWriteFails, CloseWriteFails
    <2>3. b \in StorePC /\ b \notin Holding \cup Writing
      BY <1>s, <1>w
    <2> QED
      BY <1>a, <1>g, <2>1, <2>2, <2>3, ExactGo
  <1>6. ASSUME NEW r \in Stores, StatJson(r) PROVE ExactDir(d)'
    <2>1. pc[r] = "statjson" /\ pc'[r] = (IF json[dir[r]] = None THEN "openwrite" ELSE "openread")
            /\ \A q \in Stores \ {r} : pc'[q] = pc[q]
      BY <1>6, <1>g, <1>s DEF StatJson
    <2>2. dir' = dir /\ json' = json /\ buf' = buf /\ off' = off
      BY <1>6 DEF StatJson
    <2>3. buf[r] = <<>>
      BY <2>1 DEF Fresh, Loaded, Writing
    <2>4. dir[r] = d => Exact(r, d)'
      BY <1>w, <2>1, <2>2, <2>3 DEF Exact, Read
    <2>5. ASSUME NEW q \in Stores \ {r}, dir[q] = d PROVE Exact(q, d)'
      BY <2>1, <2>2, <2>5 DEF ExactDir, Exact, Read, Written, DocBlock
    <2> QED
      BY <2>2, <2>4, <2>5 DEF ExactDir
  <1>7. ASSUME NEW r \in Stores, OpenRead(r) \/ Merge(r) \/ HighlightStart(r) PROVE ExactDir(d)'
    BY <1>7, <1>s, <1>u, <1>w DEF OpenRead, Merge, HighlightStart
  <1>8. ASSUME NEW r \in Stores, ReadBlock(r) PROVE ExactDir(d)'
    <2>1. pc'[r] = "read" /\ \A q \in Stores \ {r} : pc'[q] = pc[q] /\ buf'[q] = buf[q] /\ off'[q] = off[q]
      BY <1>0, <1>8, <1>g, <1>s DEF ReadBlock, RestOK
    <2> QED
      BY <1>8, <1>w, <2>1, ExactGo DEF ReadBlock
  <1>9. ASSUME NEW r \in Stores, ReadEnd(r) PROVE ExactDir(d)'
    <2>1. pc[r] = "read" /\ pc'[r] = "lockmerge" /\ \A q \in Stores \ {r} : pc'[q] = pc[q]
      BY <1>9, <1>g, <1>s DEF ReadEnd
    <2>2. dir' = dir /\ json' = json /\ buf' = buf /\ off' = off
      BY <1>9 DEF ReadEnd
    <2>3. CASE dir[r] = d
      <3>1. json[d] # None /\ json[d] \in Seq(Block) /\ buf[r] \in Seq(Block) /\ Len(buf[r]) >= Len(json[d])
        BY <1>0, <1>9, <2>1, <2>3 DEF Opened, RestOK, Files, ReadEnd
      <3>2. \A k \in DOMAIN buf[r] : k \in DOMAIN json[d] /\ buf[r][k] = json[d][k]
        BY <2>1, <2>3 DEF DirInv, Memory
      <3>3. \A k \in DOMAIN json[d] : k \in DOMAIN buf[r]
        BY <3>1
      <3>4. Exact(r, d)'
        BY <1>w, <2>1, <2>2, <3>1, <3>2, <3>3 DEF Exact, Read
      <3> QED
        BY <1>w, <2>1, <2>2, <2>3, <3>4, ExactAlone
    <2>4. CASE dir[r] # d
      BY <2>1, <2>2, <2>4, ExactGo
    <2> QED
      BY <2>3, <2>4
  <1>10. ASSUME NEW r \in Stores, OpenWrite(r) PROVE ExactDir(d)'
    <2>1. pc[r] = "openwrite" /\ pc'[r] = "write" /\ \A q \in Stores \ {r} : pc'[q] = pc[q]
      BY <1>10, <1>g, <1>s DEF OpenWrite
    <2>2. dir' = dir /\ buf' = buf /\ off' = off
      BY <1>10 DEF OpenWrite
    <2>3. CASE dir[r] = d
      <3>1. off'[r] = 0
        BY <2>1, <2>2 DEF Fresh, Writing
      <3>2. Exact(r, d)'
        BY <1>w, <2>1, <3>1 DEF Exact, Written
      <3> QED
        BY <1>w, <2>1, <2>2, <2>3, <3>2, ExactAlone
    <2>4. CASE dir[r] # d
      <3>1. json'[d] = json[d]
        BY <1>0, <1>10, <2>4 DEF OpenWrite, RestOK, Files
      <3> QED
        BY <2>1, <2>2, <2>4, <3>1, ExactGo
    <2> QED
      BY <2>3, <2>4
  <1>11. ASSUME NEW r \in Stores, WriteBlock(r) PROVE ExactDir(d)'
    <2>1. pc[r] \in Writing /\ pc'[r] = "write" /\ \A q \in Stores \ {r} : pc'[q] = pc[q]
      BY <1>11, <1>g, <1>s, <1>w DEF WriteBlock
    <2>2. dir' = dir /\ buf' = buf /\ off'[r] = off[r] + 1 /\ \A q \in Stores \ {r} : off'[q] = off[q]
      BY <1>0, <1>11 DEF WriteBlock, RestOK
    <2>3. CASE dir[r] = d
      <3>1. off[r] + 1 \in 1 .. Blocks /\ PutBlock(r, DocBlock(r, off[r] + 1))
        BY <1>0, <1>11, StoreAssumption DEF WriteBlock, RestOK
      <3>2. Written(r, d)
        BY <2>1, <2>3 DEF ExactDir, Exact
      <3>3. \A i \in 1 .. off'[r] : i \in DOMAIN json'[d] /\ json'[d][i] = DocBlock(r, i)
        BY <2>1, <2>2, <2>3, <3>1, <3>2, BlocksExact
      <3>4. Exact(r, d)'
        BY <1>w, <2>1, <2>2, <3>3 DEF Exact, Written, DocBlock
      <3> QED
        BY <1>w, <2>1, <2>2, <2>3, <3>4, ExactAlone
    <2>4. CASE dir[r] # d
      BY <1>11, <1>p, <2>1, <2>2, <2>4, ExactGo DEF WriteBlock
    <2> QED
      BY <2>3, <2>4
  <1>12. ASSUME NEW r \in Stores, LoseBlock(r) PROVE ExactDir(d)'
    <2>1. dir[r] # d /\ dir' = dir /\ json'[d] = json[d] /\ \A q \in Stores \ {r} : pc'[q] = pc[q]
      BY <1>12, <1>g, <1>p, <1>s DEF LoseBlock
    <2>2. buf' = buf /\ \A q \in Stores \ {r} : off'[q] = off[q]
      BY <1>0, <1>12 DEF LoseBlock, RestOK
    <2> QED
      BY <2>1, <2>2, ExactGo
  <1>13. ASSUME NEW r \in Stores, CloseWrite(r) PROVE ExactDir(d)'
    <2>1. PICK a \in Writing : Answer(r, a, "copy")
      BY <1>13, <1>w DEF CloseWrite
    <2>2. pc[r] \in Writing /\ pc'[r] = "copy" /\ dir' = dir
            /\ \A q \in Stores \ {r} : pc'[q] = pc[q] /\ buf'[q] = buf[q] /\ off'[q] = off[q]
      BY <1>a, <1>g, <1>s, <2>1
    <2>3. CASE dir[r] = d
      BY <1>w, <2>2, <2>3, ExactAlone DEF Exact
    <2>4. CASE dir[r] # d
      BY <1>13, <1>p, <2>2, <2>4, ExactGo DEF CloseWrite
    <2> QED
      BY <2>3, <2>4
  <1>14. ASSUME NEW r \in Stores, CopyOpen(r) \/ CopyWrite(r) \/ AppendFlag(r) \/ AppendFails(r)
         PROVE  ExactDir(d)'
    BY <1>14, <1>s, <1>u, <1>w DEF CopyOpen, CopyWrite, AppendFlag, AppendFails
  <1>15. ASSUME NEW t \in Loads, AcceptLoad(t) \/ Instrument(t) PROVE ExactDir(d)'
    <2>1. \A q \in Stores : pc'[q] = pc[q]
      BY <1>0, <1>15, GotoLoad, StoreAssumption DEF AcceptLoad, Instrument, LoadPC, Threads
    <2> QED
      BY <1>15, <2>1, ExactFrame DEF AcceptLoad, Instrument
  <1>16. ASSUME ProcessExits PROVE ExactDir(d)'
    <2>1. \A q \in Stores : pc'[q] = "dead" \/ (pc'[q] = pc[q] /\ ~ Active(q))
      BY <1>0, <1>16, ExitPcs DEF Threads
    <2>2. \A q \in Stores : pc'[q] \notin Holding \cup Writing
      BY <1>w, <2>1 DEF Active, Final
    <2> QED
      BY <1>16, <2>2, ExactFrame DEF ProcessExits
  <1>17. ASSUME NEW r \in Stores, MkdirFatal(r) \/ CopyFatal(r) \/ EngineRace(r) PROVE ExactDir(d)'
    BY <1>16, <1>17 DEF MkdirFatal, MakeDirFatal, CopyFatal, EngineRace
  <1>18. CASE Exit
    BY <1>16, <1>18 DEF Exit
  <1>19. CASE Restart \/ UNCHANGED vars
    BY <1>19, ExactFrame DEF Restart, vars
  <1>20. ASSUME NEW r \in Stores, StoreStep(r) PROVE ExactDir(d)'
    <2>1. r \in Threads
      BY DEF Threads
    <2> QED
      BY <1>2, <1>3, <1>4, <1>5, <1>6, <1>7, <1>8, <1>9, <1>10, <1>11, <1>13, <1>14, <1>17, <1>20, <2>1
         DEF StoreStep, StoreWork
  <1>21. ASSUME NEW r \in Stores, StoreFault(r) PROVE ExactDir(d)'
    BY <1>5, <1>12, <1>14, <1>17, <1>21 DEF StoreFault
  <1>22. ASSUME NEW t \in Loads, LoadStep(t) PROVE ExactDir(d)'
    BY <1>3, <1>15, <1>22 DEF LoadStep, Threads
  <1> QED
    BY <1>1, <1>2, <1>15, <1>17, <1>18, <1>19, <1>20, <1>21, <1>22 DEF Next

----------------------------------------------------------------------------
\* A directory that stays intact keeps what it adds up if nobody begins or ends
\* to rewrite it and what counts of it stays: the file, or while it is being
\* rewritten what its writer has read.
LEMMA ContentsKept ==
  ASSUME NEW d, d \notin raced' \cup damaged', raced \subseteq raced', damaged \subseteq damaged',
         \A q \in Stores : dir'[q] = d /\ pc'[q] \in Writing <=> dir[q] = d /\ pc[q] \in Writing,
         \A q \in Stores : dir[q] = d /\ pc[q] \in Writing => buf'[q] = buf[q],
         json'[d] = json[d] \/ ~ Quiet(d)
  PROVE  Contents(d)' = Contents(d)
  <1>1. d \notin raced \cup damaged
    OBVIOUS
  <1>2. Quiet(d)' <=> Quiet(d)
    BY DEF Quiet
  <1>3. CASE Quiet(d)
    <2>1. \A q \in Stores : Contains(d, q)' <=> Contains(d, q)
      BY <1>3 DEF Contains
    <2> QED
      BY <1>1, <1>2, <1>3, <2>1 DEF Contents
  <1>4. CASE ~ Quiet(d)
    <2>1. Writers(d)' = Writers(d)
      BY DEF Writers
    <2>2. \A r \in Writers(d) : InMemory(r)' = InMemory(r)
      BY DEF Writers, InMemory
    <2>3. (UNION {InMemory(r) : r \in Writers(d)})' = UNION {InMemory(r) : r \in Writers(d)}
      BY <2>1, <2>2
    <2> QED
      BY <1>1, <1>2, <1>4, <2>3 DEF Contents
  <1> QED
    BY <1>3, <1>4

\* A step that changes no directory but those that are no longer intact after
\* it, and acknowledges nothing, is a Void, of no new directory as a rule.
LEMMA MapsAside ==
  ASSUME RestOK', raced \subseteq raced', damaged \subseteq damaged',
         \A d \in Dirs \ (raced' \cup damaged') : Contents(d)' = Contents(d),
         \A q \in Stores : pc'[q] = "200" <=> pc[q] = "200",
         \A q \in Stores : pc[q] = "200" => dir'[q] = dir[q]
  PROVE  Promise!Next
  <1> DEFINE D == raced' \cup damaged'
             A(d) == {r \in Stores : dir[r] = d /\ pc[r] = "200"}
  <1>1. D \in SUBSET Dirs
    BY DEF RestOK
  <1>2. D = (raced \cup damaged) \cup D
    OBVIOUS
  <1>3. \A d \in D : Contents(d)' = {}
    BY DEF Contents
  <1>4. [d \in Dirs |-> Contents(d)]' = [d \in Dirs |-> IF d \in D THEN {} ELSE [e \in Dirs |-> Contents(e)][d]]
    BY <1>3
  <1>5. \A d \in Dirs : A(d)' = A(d)
    OBVIOUS
  <1>6. [d \in Dirs |-> A(d)]' = [d \in Dirs |-> A(d)]
    BY <1>5
  <1>7. Promise!Void(D)
    BY <1>2, <1>4, <1>6 DEF Promise!Void
  <1> QED
    BY <1>1, <1>7 DEF Promise!Next

\* The step of one handler that neither rewrites a file nor acknowledges.
LEMMA MapsGo ==
  ASSUME RestOK', raced \subseteq raced', damaged \subseteq damaged', NEW r \in Stores,
         \A q \in Stores \ {r} : pc'[q] = pc[q] /\ buf'[q] = buf[q],
         dir' = dir, json' = json \/ (dir[r] \in damaged' /\ \A d \in Dirs \ {dir[r]} : json'[d] = json[d]),
         pc[r] # "200", pc'[r] # "200",
         \/ pc[r] \notin Writing /\ pc'[r] \notin Writing
         \/ pc[r] \in Writing /\ pc'[r] \in Writing /\ buf'[r] = buf[r]
         \/ dir[r] \in damaged'
  PROVE  Promise!Next
  <1>1. ASSUME NEW d \in Dirs \ (raced' \cup damaged') PROVE Contents(d)' = Contents(d)
    BY <1>1, ContentsKept
  <1> QED
    BY <1>1, MapsAside

\* The fopen() that empties the file of an intact directory: its writer has
\* read what it held.
LEMMA MapsOpen ==
  ASSUME TypeInv, RestOK', DurableInv, ExactInv, NEW r \in Stores, OpenWrite(r)
  PROVE  Promise!Next
  <1> USE DEF local, history
  <1>0. PcOK /\ RestOK
    BY TypeSplit DEF TypeInv
  <1>1. pc[r] = "openwrite" /\ pc'[r] = "write" /\ \A q \in Stores \ {r} : pc'[q] = pc[q]
    <2>1. "write" \in StorePC
      BY DEF StorePC, Window, Writing
    <2> QED
      BY <1>0, <2>1, GotoStore DEF OpenWrite, Threads
  <1>2. dir' = dir /\ buf' = buf /\ raced' = raced /\ damaged' = damaged
          /\ \A d \in Dirs \ {dir[r]} : json'[d] = json[d]
    BY <1>0 DEF OpenWrite, RestOK
  <1>w. Writing = {"write", "highlight"} /\ "openwrite" \in Window /\ Writing \subseteq Window
          /\ "openwrite" \in Holding
    BY DEF Writing, Window, Reading, Holding
  <1>3. ASSUME NEW d \in Dirs \ (raced' \cup damaged') PROVE Contents(d)' = Contents(d)
    <2>1. CASE d # dir[r]
      BY <1>1, <1>2, <1>3, <2>1, ContentsKept
    <2>2. CASE d = dir[r]
      <3>1. d \in Intact /\ DirInv(d) /\ Exact(r, d)
        BY <1>2, <1>3, <2>2 DEF Intact, DurableInv, ExactInv, ExactDir
      <3>2. \A q \in Stores \ {r} : dir[q] = d => pc[q] \notin Writing
        BY <1>1, <1>w, <2>2, <3>1 DEF DirInv, Alone
      <3>3. Quiet(d)
        BY <1>1, <1>w, <3>2 DEF Quiet
      <3>4. Writers(d)' = {r} /\ ~ Quiet(d)'
        BY <1>1, <1>2, <1>w, <2>2, <3>2 DEF Writers, Quiet
      <3>5. Read(r, d)
        BY <1>1, <1>w, <3>1 DEF Exact
      <3>6. 1 \in 1 .. Blocks
        BY StoreAssumption
      <3>7. ASSUME NEW q \in Stores PROVE Contains(d, q) <=> q \in InMemory(r)
        <4>1. CASE json[d] = None
          BY <3>5, <3>6, <4>1 DEF Read, Contains, InMemory
        <4>2. CASE json[d] # None
          BY <3>5, <4>2 DEF Read, Contains, InMemory
        <4> QED
          BY <4>1, <4>2
      <3>8. InMemory(r)' = InMemory(r) /\ InMemory(r) \subseteq Stores
        BY <1>2 DEF InMemory
      <3>9. Contents(d) = InMemory(r)
        BY <1>2, <1>3, <3>3, <3>7, <3>8 DEF Contents
      <3>10. Contents(d)' = InMemory(r)'
        <4>1. UNION {InMemory(q)' : q \in {r}} = InMemory(r)'
          OBVIOUS
        <4> QED
          BY <1>3, <3>4, <4>1 DEF Contents
      <3> QED
        BY <3>8, <3>9, <3>10
    <2> QED
      BY <2>1, <2>2
  <1> QED
    BY <1>1, <1>2, <1>3, MapsAside

\* The fclose() after the last block: the directory adds up what its writer has
\* read and its own counts.
LEMMA MapsClose ==
  ASSUME TypeInv, RestOK', DurableInv, ExactInv, NEW r \in Stores, CloseWrite(r)
  PROVE  Promise!Next
  <1> USE DEF history
  <1>0. PcOK /\ RestOK
    BY TypeSplit DEF TypeInv
  <1>w. /\ Writing = {"write", "highlight"} /\ Writing \subseteq Window
        /\ "copy" \notin Writing /\ "copy" \in StorePC
    BY DEF Writing, Window, Stored, StorePC
  <1>1. PICK a \in Writing : Answer(r, a, "copy")
    BY <1>w DEF CloseWrite
  <1>2. pc[r] \in Writing /\ pc'[r] = "copy" /\ \A q \in Stores \ {r} : pc'[q] = pc[q]
    BY <1>0, <1>1, <1>w, GotoStore DEF Answer, Threads
  <1>3. dir' = dir /\ raced' = raced /\ damaged' = damaged /\ \A q \in Stores \ {r} : buf'[q] = buf[q]
    BY <1>0, <1>1 DEF CloseWrite, Answer, RestOK
  <1>4. \A d \in Dirs \ {dir[r]} : json'[d] = json[d]
    BY <1>0 DEF CloseWrite, PutBlock, RestOK, Files
  <1>5. ASSUME NEW d \in Dirs \ (raced \cup damaged), d # dir[r] PROVE Contents(d)' = Contents(d)
    BY <1>2, <1>3, <1>4, <1>5, ContentsKept
  <1>6. CASE dir[r] \in raced \cup damaged
    BY <1>2, <1>3, <1>5, <1>6, <1>w, MapsAside
  <1>7. CASE dir[r] \notin raced \cup damaged
    <2>d. PICK d \in Dirs : d = dir[r]
      BY <1>0 DEF RestOK
    <2>1. d \in Intact /\ d \in Dirs /\ DirInv(d) /\ Exact(r, d)
      BY <1>7, <2>d DEF Intact, DurableInv, ExactInv, ExactDir
    <2>2. \A q \in Stores \ {r} : dir[q] = d => pc[q] \notin Writing
      BY <1>2, <1>w, <2>1, <2>d DEF DirInv, Alone
    <2>3. ~ Quiet(d) /\ Writers(d) = {r}
      BY <1>2, <2>2, <2>d DEF Quiet, Writers
    <2>4. Quiet(d)'
      BY <1>2, <1>3, <1>w, <2>2, <2>d DEF Quiet
    <2>5. \A i \in 1 .. Blocks : i \in DOMAIN json'[d] /\ json'[d][i] = DocBlock(r, i)
      <3>1. Blocks \in 1 .. Blocks /\ Blocks = off[r] + 1 /\ PutBlock(r, DocBlock(r, Blocks))
        BY StoreAssumption DEF CloseWrite
      <3>2. Written(r, d)
        BY <1>2, <2>1 DEF Exact
      <3> QED
        BY <2>d, <1>2, <2>1, <3>1, <3>2, BlocksExact
    <2>6. json'[d] # None
      <3>1. Blocks \in Nat /\ PutBlock(r, DocBlock(r, Blocks)) /\ json[dir[r]] # None /\ TypeOK
        BY <1>2, StoreAssumption DEF CloseWrite, TypeInv, Opened
      <3>2. DocBlock(r, Blocks) \in Block
        BY <3>1, DocBlockType
      <3> QED
        BY <2>d, <1>0, <3>1, <3>2, PutBlockProps
    <2>7. ASSUME NEW q \in Stores
          PROVE  Contains(d, q)' <=> (q = r \/ q \in InMemory(r))
      <3>1. \A i \in 1 .. Blocks : q \in DocBlock(r, i).has <=> (q = r \/ (i \in DOMAIN buf[r] /\ q \in buf[r][i].has))
        BY DEF DocBlock
      <3>2. Contains(d, q)' <=> \A i \in 1 .. Blocks : q \in DocBlock(r, i).has
        BY <2>5, <2>6 DEF Contains
      <3> QED
        BY <3>1, <3>2 DEF InMemory
    <2>8. Contents(d) = InMemory(r)
      <3>1. UNION {InMemory(q) : q \in {r}} = InMemory(r)
        OBVIOUS
      <3> QED
        BY <1>7, <2>3, <3>1, <2>d DEF Contents
    <2>9. Contents(d)' = Contents(d) \cup {r}
      <3>1. InMemory(r) \subseteq Stores
        BY DEF InMemory
      <3>2. Contents(d)' = {q \in Stores : Contains(d, q)'}
        BY <1>3, <1>7, <2>4, <2>d DEF Contents
      <3> QED
        BY <2>7, <2>8, <3>1, <3>2
    <2>10. ASSUME NEW e \in Dirs, e # d PROVE Contents(e)' = Contents(e)
      <3>1. CASE e \in raced \cup damaged
        BY <1>3, <3>1 DEF Contents
      <3>2. CASE e \notin raced \cup damaged
        BY <2>d, <1>5, <2>10, <3>2
      <3> QED
        BY <3>1, <3>2
    <2>11. [e \in Dirs |-> Contents(e)]'
             = [[e \in Dirs |-> Contents(e)] EXCEPT ![d] = @ \cup {r}]
      BY <2>1, <2>9, <2>10
    <2>12. [e \in Dirs |-> {q \in Stores : dir[q] = e /\ pc[q] = "200"}]'
             = [e \in Dirs |-> {q \in Stores : dir[q] = e /\ pc[q] = "200"}]
      <3>1. \A q \in Stores : pc'[q] = "200" <=> pc[q] = "200"
        BY <1>2, <1>w
      <3> QED
        BY <1>3, <3>1
    <2>13. Promise!Commit(r, d)
      BY <1>3, <1>7, <2>11, <2>12, <2>d DEF Promise!Commit
    <2> QED
      BY <2>1, <2>13 DEF Promise!Next
  <1> QED
    BY <1>6, <1>7

\* The answer 200: what is acknowledged is in the directory, in its file or in
\* the memory of the next writer.
LEMMA MapsAck ==
  ASSUME TypeInv, DurableInv, NEW r \in Stores, AppendFlag(r)
  PROVE  Promise!Next
  <1> USE DEF local, history
  <1>0. PcOK /\ RestOK
    BY TypeSplit DEF TypeInv
  <1>w. "200" \in StorePC /\ {"append", "200"} \cap Writing = {} /\ "append" \in Stored
          /\ Writing \subseteq Loaded
    BY Phases DEF Writing, Stored, StorePC, Window
  <1>1. pc[r] = "append" /\ pc'[r] = "200" /\ \A q \in Stores \ {r} : pc'[q] = pc[q]
    BY <1>0, <1>w, GotoStore DEF AppendFlag, Threads
  <1>2. dir' = dir /\ buf' = buf /\ json' = json /\ raced' = raced /\ damaged' = damaged
    BY DEF AppendFlag
  <1>d. PICK d \in Dirs : d = dir[r]
    BY <1>0 DEF RestOK
  <1>3. d \in Dirs /\ r \in StoredIn(d)
    BY <1>1, <1>d, <1>w DEF StoredIn
  <1>4. \A e \in Dirs : Contents(e)' = Contents(e)
    <2> SUFFICES ASSUME NEW e \in Dirs PROVE Contents(e)' = Contents(e)
      OBVIOUS
    <2>1. CASE e \in raced \cup damaged
      BY <1>2, <2>1 DEF Contents
    <2>2. CASE e \notin raced \cup damaged
      BY <1>1, <1>2, <1>w, <2>2, ContentsKept
    <2> QED
      BY <2>1, <2>2
  <1>5. r \in Contents(d) \/ d \in raced \cup damaged
    <2> SUFFICES ASSUME d \notin raced \cup damaged PROVE r \in Contents(d)
      OBVIOUS
    <2>1. DirInv(d)
      BY <1>3 DEF DurableInv, Intact
    <2>2. CASE Quiet(d)
      BY <1>3, <2>1, <2>2 DEF DirInv, Kept, Contents
    <2>3. CASE ~ Quiet(d)
      <3>1. PICK w \in Writers(d) : TRUE
        BY <2>3 DEF Quiet, Writers
      <3>2. Carries(w, d)
        BY <1>w, <2>1, <3>1 DEF Writers, DirInv, Memory
      <3>3. r \in InMemory(w)
        BY <1>3, <3>2 DEF Carries, InMemory
      <3> QED
        BY <2>3, <3>1, <3>3 DEF Contents
    <2> QED
      BY <2>2, <2>3
  <1>6. [e \in Dirs |-> Contents(e)]' = [e \in Dirs |-> Contents(e)]
    BY <1>4
  <1>7. [e \in Dirs |-> {q \in Stores : dir[q] = e /\ pc[q] = "200"}]'
          = [[e \in Dirs |-> {q \in Stores : dir[q] = e /\ pc[q] = "200"}] EXCEPT ![d] = @ \cup {r}]
    <2> DEFINE A(e) == {q \in Stores : dir[q] = e /\ pc[q] = "200"}
    <2>1. A(d)' = A(d) \cup {r}
      BY <1>1, <1>2, <1>d
    <2>2. \A e \in Dirs \ {d} : A(e)' = A(e)
      BY <1>1, <1>2, <1>d
    <2> HIDE DEF A
    <2>3. [e \in Dirs |-> A(e)]' = [[e \in Dirs |-> A(e)] EXCEPT ![d] = @ \cup {r}]
      BY <1>3, <2>1, <2>2
    <2> QED
      BY <2>3 DEF A
  <1>8. Promise!Acknowledge(r, d)
    BY <1>2, <1>3, <1>5, <1>6, <1>7 DEF Promise!Acknowledge
  <1> QED
    BY <1>3, <1>8 DEF Promise!Next

\* Every step is a step of ReportStore.
LEMMA PromiseStep ==
  ASSUME TypeInv, RestOK', DurableInv, ExactInv, [Next]_vars
  PROVE  [Promise!Next]_(Promise!vars)
  <1> USE DEF files, engine, local, history, env
  <1>0. PcOK /\ RestOK
    BY TypeSplit DEF TypeInv
  <1>h. raced \subseteq raced' /\ damaged \subseteq damaged'
    BY HistoryGrows
  <1>s. {"body", "lockparse", "parse", "statroot", "mkroot", "statdir", "mkdir", "statjson",
         "openread", "read", "lockmerge", "merge", "openwrite", "write", "highlight", "copy",
         "copywrite", "append", "200", "400", "405", "500merge", "500write", "500append"} \subseteq StorePC
    BY DEF StorePC, Window, Reading, Writing, Stored, Final
  <1>w. Writing = {"write", "highlight"}
    BY DEF Writing
  <1>g. \A r \in Stores : \A a : \A b \in StorePC :
          Goto(r, a, b) => pc[r] = a /\ pc'[r] = b /\ \A q \in Stores \ {r} : pc'[q] = pc[q]
    BY <1>0, GotoStore DEF Threads
  <1>u. ASSUME NEW r \in Stores, NEW a, NEW b \in StorePC, Goto(r, a, b), UNCHANGED <<dir, buf, json>>,
               a # "200", b # "200", a \in Writing <=> b \in Writing
        PROVE  Promise!Next
    BY <1>0, <1>g, <1>h, <1>u, MapsGo
  <1>a. ASSUME NEW r \in Stores, NEW a, NEW b \in StorePC, Answer(r, a, b)
        PROVE  /\ Goto(r, a, b) /\ dir' = dir
               /\ \A q \in Stores \ {r} : buf'[q] = buf[q]
    BY <1>0, <1>a DEF Answer, RestOK
  <1>l. ASSUME \A q \in Stores : pc'[q] = pc[q] /\ dir'[q] = dir[q], UNCHANGED <<buf, json>>
        PROVE  Promise!Next
    <2>1. ASSUME NEW d \in Dirs \ (raced' \cup damaged') PROVE Contents(d)' = Contents(d)
      BY <1>h, <1>l, <2>1, ContentsKept
    <2> QED
      BY <1>h, <1>l, <2>1, MapsAside
  <1>1. ASSUME NEW r \in Stores, NEW e \in Dirs, Accept(r, e) PROVE Promise!Next
    <2>1. pc[r] = "idle" /\ pc'[r] = "body" /\ \A q \in Stores \ {r} : pc'[q] = pc[q] /\ dir'[q] = dir[q]
      BY <1>0, <1>1, <1>g, <1>s DEF Accept, RestOK
    <2>2. ASSUME NEW d \in Dirs \ (raced' \cup damaged') PROVE Contents(d)' = Contents(d)
      BY <1>1, <1>h, <1>w, <2>1, <2>2, ContentsKept DEF Accept
    <2> QED
      BY <1>h, <2>1, <2>2, MapsAside
  <1>2. ASSUME NEW r \in Stores, RejectMethod(r) \/ ReadBody(r) \/ ParseBody(r) PROVE Promise!Next
    BY <1>2, <1>s, <1>u, <1>w DEF RejectMethod, ReadBody, ParseBody
  <1>3. ASSUME NEW t \in Threads, LockJS(t) PROVE Promise!Next
    <2>1. CASE t \in Stores
      BY <1>3, <1>s, <1>u, <1>w, <2>1, StoreAssumption DEF LockJS
    <2>2. CASE t \in Loads
      <3>1. \A q \in Stores : pc'[q] = pc[q]
        BY <1>0, <1>3, <2>2, GotoLoad, StoreAssumption DEF LockJS, LoadPC, Threads
      <3> QED
        BY <1>3, <1>l, <3>1 DEF LockJS
    <2> QED
      BY <2>1, <2>2 DEF Threads
  <1>4. ASSUME NEW r \in Stores, StatRoot(r) \/ StatTarget(r) \/ MakeRoot(r) \/ MakeTarget(r)
        PROVE  Promise!Next
    BY <1>4, <1>s, <1>u, <1>w DEF StatRoot, StatTarget, StatDir, MakeRoot, MakeTarget, MakeDir
  <1>5. ASSUME NEW r \in Stores, OpenReadFails(r) \/ MergeFails(r) \/ OpenWriteFails(r) PROVE Promise!Next
    <2>1. json' = json
      BY <1>5 DEF OpenReadFails, MergeFails, OpenWriteFails
    <2>2. PICK a \in {"openread", "merge", "openwrite"}, b \in {"500merge", "500write"} : Answer(r, a, b)
      BY <1>5 DEF OpenReadFails, MergeFails, OpenWriteFails
    <2>3. b \in StorePC /\ a \notin Writing /\ b \notin Writing /\ a # "200" /\ b # "200"
      BY <1>s, <1>w
    <2>4. Goto(r, a, b) /\ dir' = dir /\ \A q \in Stores \ {r} : buf'[q] = buf[q]
      BY <1>a, <2>2, <2>3
    <2>5. pc[r] = a /\ pc'[r] = b /\ \A q \in Stores \ {r} : pc'[q] = pc[q]
      BY <1>g, <2>3, <2>4
    <2> QED
      BY <1>h, <2>1, <2>3, <2>4, <2>5, MapsGo
  <1>6. ASSUME NEW r \in Stores, StatJson(r) PROVE Promise!Next
    BY <1>6, <1>s, <1>u, <1>w DEF StatJson
  <1>7. ASSUME NEW r \in Stores, OpenRead(r) \/ ReadEnd(r) \/ Merge(r) \/ HighlightStart(r) PROVE Promise!Next
    BY <1>7, <1>s, <1>u, <1>w DEF OpenRead, ReadEnd, Merge, HighlightStart
  <1>8. ASSUME NEW r \in Stores, ReadBlock(r) PROVE Promise!Next
    <2>1. pc[r] = "read" /\ pc'[r] = "read" /\ \A q \in Stores \ {r} : pc'[q] = pc[q] /\ buf'[q] = buf[q]
      BY <1>0, <1>8, <1>g, <1>s DEF ReadBlock, RestOK
    <2> QED
      BY <1>8, <1>h, <1>w, <2>1, MapsGo DEF ReadBlock
  <1>9. ASSUME NEW r \in Stores, OpenWrite(r) PROVE Promise!Next
    BY <1>9, MapsOpen
  <1>10. ASSUME NEW r \in Stores, WriteBlock(r) PROVE Promise!Next
    <2>1. pc[r] \in Writing /\ pc'[r] = "write" /\ \A q \in Stores \ {r} : pc'[q] = pc[q]
      BY <1>10, <1>g, <1>s, <1>w DEF WriteBlock
    <2>2. dir' = dir /\ buf' = buf /\ \A d \in Dirs \ {dir[r]} : json'[d] = json[d]
      BY <1>0, <1>10 DEF WriteBlock, PutBlock, RestOK, Files
    <2>3. ASSUME NEW d \in Dirs \ (raced' \cup damaged') PROVE Contents(d)' = Contents(d)
      <3>1. json'[d] = json[d] \/ ~ Quiet(d)
        BY <2>1, <2>2 DEF Quiet
      <3> QED
        BY <1>h, <1>w, <2>1, <2>2, <2>3, <3>1, ContentsKept
    <2> QED
      BY <1>h, <1>w, <2>1, <2>2, <2>3, MapsAside
  <1>11. ASSUME NEW r \in Stores, LoseBlock(r) \/ CloseWriteFails(r) PROVE Promise!Next
    <2>1. pc[r] \in Writing /\ pc'[r] \in {"write", "500write"} /\ \A q \in Stores \ {r} : pc'[q] = pc[q]
      BY <1>11, <1>g, <1>s, <1>w DEF LoseBlock, CloseWriteFails, Answer
    <2>2. dir' = dir /\ dir[r] \in damaged' /\ \A q \in Stores \ {r} : buf'[q] = buf[q]
      BY <1>0, <1>11 DEF LoseBlock, CloseWriteFails, Answer, RestOK
    <2>3. \A d \in Dirs \ {dir[r]} : json'[d] = json[d]
      BY <1>0, <1>11 DEF LoseBlock, CloseWriteFails, PutBlock, RestOK, Files
    <2> QED
      BY <1>h, <1>w, <2>1, <2>2, <2>3, MapsGo
  <1>12. ASSUME NEW r \in Stores, CloseWrite(r) PROVE Promise!Next
    BY <1>12, MapsClose
  <1>13. ASSUME NEW r \in Stores, CopyOpen(r) \/ CopyWrite(r) \/ AppendFails(r) PROVE Promise!Next
    BY <1>13, <1>s, <1>u, <1>w DEF CopyOpen, CopyWrite, AppendFails
  <1>14. ASSUME NEW r \in Stores, AppendFlag(r) PROVE Promise!Next
    BY <1>14, MapsAck
  <1>15. ASSUME NEW t \in Loads, AcceptLoad(t) \/ Instrument(t) PROVE Promise!Next
    <2>1. \A q \in Stores : pc'[q] = pc[q]
      BY <1>0, <1>15, GotoLoad, StoreAssumption DEF AcceptLoad, Instrument, LoadPC, Threads
    <2> QED
      BY <1>15, <1>l, <2>1 DEF AcceptLoad, Instrument
  <1>16. ASSUME ProcessExits PROVE Promise!Next
    <2>1. \A q \in Stores : (pc'[q] = "dead" /\ Active(q)) \/ (pc'[q] = pc[q] /\ ~ Active(q))
      BY <1>0, <1>16 DEF PcOK, ProcessExits, Threads
    <2>2. \A q \in Stores : (pc[q] \in Writing => Active(q)) /\ (pc[q] = "200" => ~ Active(q))
      BY <1>w DEF Active, Final
    <2>3. \A q \in Stores : pc[q] \in Writing => dir[q] \in damaged'
      BY <1>16 DEF ProcessExits
    <2>4. dir' = dir /\ json' = json
      BY <1>16 DEF ProcessExits
    <2>5. ASSUME NEW d \in Dirs \ (raced' \cup damaged') PROVE Contents(d)' = Contents(d)
      <3>1. \A q \in Stores : pc'[q] \in Writing => pc[q] \in Writing
        BY <1>w, <2>1
      <3> QED
        BY <1>h, <2>3, <2>4, <2>5, <3>1, ContentsKept
    <2> QED
      BY <1>h, <2>1, <2>2, <2>4, <2>5, MapsAside
  <1>17. ASSUME NEW r \in Stores, MkdirFatal(r) \/ CopyFatal(r) \/ EngineRace(r) PROVE Promise!Next
    BY <1>16, <1>17 DEF MkdirFatal, MakeDirFatal, CopyFatal, EngineRace
  <1>18. ASSUME Exit PROVE Promise!Next
    BY <1>16, <1>18 DEF Exit
  <1>19. ASSUME Restart \/ UNCHANGED vars PROVE Promise!Next
    BY <1>19, <1>l DEF Restart, vars
  <1>20. ASSUME NEW r \in Stores, StoreStep(r) PROVE Promise!Next
    <2>1. r \in Threads
      BY DEF Threads
    <2> QED
      BY <1>2, <1>3, <1>4, <1>5, <1>6, <1>7, <1>8, <1>9, <1>10, <1>12, <1>13, <1>14, <1>17, <1>20, <2>1
         DEF StoreStep, StoreWork
  <1>21. ASSUME NEW r \in Stores, StoreFault(r) PROVE Promise!Next
    BY <1>5, <1>11, <1>13, <1>17, <1>21 DEF StoreFault
  <1>22. ASSUME NEW t \in Loads, LoadStep(t) PROVE Promise!Next
    BY <1>3, <1>15, <1>22 DEF LoadStep, Threads
  <1>23. Promise!Next
    <2>1. CASE UNCHANGED vars
      BY <1>19, <2>1
    <2>2. CASE Next
      <3>1. CASE \E r \in Stores :
                   \/ \E d \in Dirs : Accept(r, d)
                   \/ RejectMethod(r) \/ StoreStep(r) \/ StoreFault(r) \/ EngineRace(r)
        BY <1>1, <1>2, <1>17, <1>20, <1>21, <3>1
      <3>2. CASE \E t \in Loads : AcceptLoad(t) \/ LoadStep(t)
        BY <1>15, <1>22, <3>2
      <3> QED
        BY <1>18, <1>19, <2>2, <3>1, <3>2 DEF Next
    <2> QED
      BY <2>1, <2>2
  <1> QED
    BY <1>23

----------------------------------------------------------------------------
\* At the start the directories are empty.
LEMMA PromiseInit == Init => ExactInv /\ Promise!Init
  <1> SUFFICES ASSUME Init PROVE ExactInv /\ Promise!Init
    OBVIOUS
  <1>1. \A r \in Stores : pc[r] = "idle"
    BY DEF Init, Threads
  <1>2. "idle" \notin Holding \cup Writing /\ "idle" # "200"
    BY DEF Holding, Writing
  <1>3. ExactInv
    BY <1>1, <1>2 DEF ExactInv, ExactDir, Exact
  <1>4. \A d \in Dirs : Contents(d) = {}
    <2> SUFFICES ASSUME NEW d \in Dirs PROVE Contents(d) = {}
      OBVIOUS
    <2>1. Quiet(d) /\ d \notin raced \cup damaged /\ json[d] = None
      BY <1>1, <1>2 DEF Quiet, Init
    <2> QED
      BY <2>1 DEF Contents, Contains
  <1>5. \A d \in Dirs : {r \in Stores : dir[r] = d /\ pc[r] = "200"} = {}
    BY <1>1
  <1>6. raced \cup damaged = {}
    BY DEF Init
  <1> QED
    BY <1>3, <1>4, <1>5, <1>6 DEF Promise!Init

\* The handlers, with their stat(), fopen(), merging, rewriting and copying in
\* any order, implement the store without threads and files: in a directory
\* that is neither raced nor damaged a store is added in one step, at the
\* fclose() of its handler, nothing else is added or lost, and 200 is answered
\* only for what has been added.
THEOREM PromiseCorrect == Spec => KeepsPromise
  <1>1. Init => TypeInv /\ DurableInv /\ ExactInv /\ Promise!Init
    BY TypeInit, DurableInit, PromiseInit
  <1>2. TypeInv /\ DurableInv /\ ExactInv /\ [Next]_vars => (TypeInv /\ DurableInv /\ ExactInv)'
    <2> SUFFICES ASSUME TypeInv, DurableInv, ExactInv, [Next]_vars PROVE (TypeInv /\ DurableInv /\ ExactInv)'
      OBVIOUS
    <2>1. TypeInv' /\ DurableInv'
      BY TypeStep, DurableStep
    <2>2. ASSUME NEW d \in Intact' PROVE ExactDir(d)'
      <3>1. d \in Intact /\ d \in Dirs /\ d \notin raced' \cup damaged'
        BY <2>2, HistoryGrows DEF Intact
      <3> QED
        BY <3>1, ExactStep DEF DurableInv, ExactInv
    <2> QED
      BY <2>1, <2>2 DEF ExactInv
  <1>3. TypeInv /\ TypeInv' /\ DurableInv /\ ExactInv /\ [Next]_vars => [Promise!Next]_(Promise!vars)
    BY TypeSplit, PromiseStep DEF TypeInv, RestOK, TypeOK
  <1> QED
    BY <1>1, <1>2, <1>3, PTL DEF Spec, KeepsPromise, Promise!Spec
============================================================================
