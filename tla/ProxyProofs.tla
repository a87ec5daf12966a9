---------------------------- MODULE ProxyProofs ----------------------------
(* Proofs about ProxyCache, for any number of requests, stores, URLs and    *)
(* versions: the list of sources has one writer at a time and only grows,   *)
(* and no client holds a script whose source is not in it.                  *)
EXTENDS ProxyCache, TLAPS

(* source_cache_mutex is held exactly from its LOCK to its UNLOCK. *)
MutexInv == \A t \in Threads : (source_cache_mutex = t) <=> (pc[t] \in {"link", "publish"})

(* An entry that is linked is linked to the present head of the list. *)
Linked == \A t \in Threads : pc[t] = "publish" => next[t] = source_cache

(* A thread that goes on to add a source has one. *)
Versions ==
  \A t \in Threads : pc[t] \in {"read", "respond", "lock", "link", "publish"} => characters[t] \in 1 .. MaxVersions

(* A status line of the origin with a script behind it is followed by the   *)
(* source before the flush, and only the flush completes an answer.         *)
IsScript(r) == answer[r].script /\ answer[r].body
Served(r) ==
  /\ pc[r] \in {"idle", "request", "headers", "read", "respond", "relay"} => started[r] = None
  /\ pc[r] \in {"relay", "copy"} => ~IsScript(r)
  /\ pc[r] \in {"flush", "done"} /\ started[r] = "relayed" /\ IsScript(r) => Cached(UrlOf[r], characters[r])
  /\ client[r] = "all" => pc[r] = "done"
ServedInv == \A r \in Requests : Served(r)

ListInv == TypeOK /\ Versions /\ MutexInv /\ Linked

----------------------------------------------------------------------------
LEMMA GotoMoves ==
  ASSUME TypeOK, NEW t \in Threads, NEW a, NEW b \in PC, Goto(t, a, b)
  PROVE  /\ running /\ pc[t] = a
         /\ pc' \in [Threads -> PC] /\ pc'[t] = b
         /\ \A u \in Threads : u # t => pc'[u] = pc[u]
BY DEF TypeOK, Goto

LEMMA AddedInFront ==
  ASSUME NEW e \in Entry, NEW s \in Seq(Entry)
  PROVE  /\ <<e>> \o s \in Seq(Entry)
         /\ Len(<<e>> \o s) = Len(s) + 1
         /\ (<<e>> \o s)[1] = e
         /\ \A i \in 1 .. Len(s) : (<<e>> \o s)[i + 1] = s[i]
OBVIOUS

LEMMA FrontIsSuffix ==
  ASSUME NEW e \in Entry, NEW s \in Seq(Entry)
  PROVE  IsSuffix(s, <<e>> \o s)
<1> DEFINE l == <<e>> \o s
<1>1. /\ l \in Seq(Entry) /\ Len(l) = Len(s) + 1
      /\ \A i \in 1 .. Len(s) : l[i + 1] = s[i]
  BY AddedInFront
<1> HIDE DEF l
<1>2. s = SubSeq(l, 2, Len(l))
  BY <1>1
<1>3. Len(l) - Len(s) + 1 = 2 /\ Len(s) <= Len(l)
  BY <1>1
<1>4. IsSuffix(s, l)
  BY <1>2, <1>3 DEF IsSuffix
<1> QED
  BY <1>4 DEF l

----------------------------------------------------------------------------
(* Types *)

LEMMA TypeStart == Init => TypeOK
<1> SUFFICES ASSUME Init PROVE TypeOK
  OBVIOUS
<1>1. origin \in [Urls -> 1 .. MaxVersions] /\ faults \in 0 .. MaxFaults
  BY ProxyAssumption DEF Init
<1>2. source_cache \in Seq(Entry) /\ next \in [Threads -> Seq(Entry)]
  BY DEF Init
<1>3. pc \in [Threads -> PC]
  BY DEF Init, PC
<1>4. characters \in [Threads -> 0 .. MaxVersions] /\ source \in [Stores -> 0 .. MaxVersions]
  BY ProxyAssumption DEF Init
<1> QED
  BY <1>1, <1>2, <1>3, <1>4 DEF Init, TypeOK, NoAnswer

\* The places between which the calls of a request move it
LEMMA InPC ==
  {"idle", "request", "headers", "read", "respond", "relay", "copy", "lock", "link",
   "publish", "flush", "find", "get", "done"} \subseteq PC
BY DEF PC

LEMMA Positive == MaxVersions \in Nat /\ 1 .. MaxVersions \subseteq 0 .. MaxVersions /\ 0 \in 0 .. MaxVersions
BY ProxyAssumption

LEMMA FaultTyped == ASSUME TypeOK, Fault PROVE faults' \in 0 .. MaxFaults
BY ProxyAssumption DEF TypeOK, Fault

LEMMA ServeTyped ==
  ASSUME TypeOK, NEW r \in Requests, Serve(r)
  PROVE  TypeOK'
<1> USE DEF Serve
<1>0. r \in Threads
  BY DEF Threads
<1>1. CASE Refuse(r)
  <2> PICK a \in {"idle", "request", "headers"} :
        /\ Goto(r, a, "flush")
        /\ \E status \in {"504", "502", "400"} : SendResponse(r, status)
    BY <1>1 DEF Refuse
  <2>1. pc' \in [Threads -> PC]
    BY <1>0, InPC, GotoMoves
  <2>2. faults' \in 0 .. MaxFaults
    BY <1>1, FaultTyped DEF Refuse
  <2> QED
    BY <1>1, <2>1, <2>2 DEF Refuse, SendResponse, Start, TypeOK, cache
<1>2. CASE Connect(r)
  <2>1. pc' \in [Threads -> PC]
    BY <1>0, <1>2, InPC, GotoMoves DEF Connect
  <2> QED
    BY <1>2, <2>1 DEF Connect, TypeOK, cache, response
<1>3. CASE SendRequest(r)
  <2>1. pc' \in [Threads -> PC]
    BY <1>0, <1>3, InPC, GotoMoves DEF SendRequest
  <2> QED
    BY <1>3, <2>1 DEF SendRequest, TypeOK, cache, response
<1>4. CASE ReadHeaders(r)
  <2> PICK a \in Answers :
        /\ Goto(r, "headers", IF a.script /\ a.body THEN "read" ELSE "relay")
        /\ answer' = [answer EXCEPT ![r] = a]
    BY <1>4 DEF ReadHeaders
  <2>1. pc' \in [Threads -> PC]
    <3>1. (IF a.script /\ a.body THEN "read" ELSE "relay") \in PC
      BY InPC
    <3> QED
      BY <1>0, <3>1, GotoMoves
  <2>2. characters' \in [Threads -> 0 .. MaxVersions]
    BY <1>0, <1>4, Positive, ProxyAssumption DEF ReadHeaders, TypeOK
  <2>3. answer' \in [Requests -> [script : BOOLEAN, body : BOOLEAN, known : BOOLEAN]]
    BY ProxyAssumption DEF TypeOK
  <2> QED
    BY <1>4, <2>1, <2>2, <2>3 DEF ReadHeaders, TypeOK, cache, response
<1>5. CASE ReadScript(r)
  <2>1. pc' \in [Threads -> PC]
    BY <1>0, <1>5, InPC, GotoMoves DEF ReadScript
  <2> QED
    BY <1>5, <2>1 DEF ReadScript, TypeOK, cache, response
<1>6. CASE ReadScriptFails(r)
  <2>1. pc' \in [Threads -> PC]
    BY <1>0, <1>6, InPC, GotoMoves DEF ReadScriptFails
  <2>2. faults' \in 0 .. MaxFaults
    BY <1>6, FaultTyped DEF ReadScriptFails
  <2>3. characters' \in [Threads -> 0 .. MaxVersions]
    BY <1>6, Positive DEF ReadScriptFails, TypeOK
  <2> QED
    BY <1>6, <2>1, <2>2, <2>3 DEF ReadScriptFails, SendResponse, Start, TypeOK, cache
<1>7. CASE AbortUnknown(r) \/ ParseFatal(r)
  BY <1>7 DEF AbortUnknown, ParseFatal, TypeOK, cache, response
<1>8. CASE Respond(r)
  <2>1. pc' \in [Threads -> PC]
    BY <1>0, <1>8, InPC, GotoMoves DEF Respond
  <2>2. faults' \in 0 .. MaxFaults
    BY <1>8, FaultTyped DEF Respond, TypeOK
  <2>3. whole' \in [Requests -> BOOLEAN]
    BY <1>8 DEF Respond, TypeOK
  <2> QED
    BY <1>8, <2>1, <2>2, <2>3 DEF Respond, Start, TypeOK, cache
<1>9. CASE RelayHeaders(r)
  <2>1. pc' \in [Threads -> PC]
    <3>1. (IF answer[r].body THEN "copy" ELSE "flush") \in PC
      BY InPC
    <3> QED
      BY <1>0, <1>9, <3>1, GotoMoves DEF RelayHeaders
  <2>2. whole' \in [Requests -> BOOLEAN]
    BY <1>9 DEF RelayHeaders, TypeOK
  <2> QED
    BY <1>9, <2>1, <2>2 DEF RelayHeaders, Start, TypeOK, cache
<1>10. CASE RelayHeadersFail(r)
  <2>1. pc' \in [Threads -> PC]
    BY <1>0, <1>10, InPC, GotoMoves DEF RelayHeadersFail
  <2>2. faults' \in 0 .. MaxFaults
    BY <1>10, FaultTyped DEF RelayHeadersFail
  <2> QED
    BY <1>10, <2>1, <2>2 DEF RelayHeadersFail, Start, TypeOK, cache
<1>11. CASE CopyBody(r)
  <2>1. pc' \in [Threads -> PC]
    BY <1>0, <1>11, InPC, GotoMoves DEF CopyBody
  <2>2. faults' \in 0 .. MaxFaults
    BY <1>11, FaultTyped DEF CopyBody, TypeOK
  <2>3. whole' \in [Requests -> BOOLEAN]
    BY <1>11 DEF CopyBody, TypeOK
  <2> QED
    BY <1>11, <2>1, <2>2, <2>3 DEF CopyBody, TypeOK, cache
<1>12. CASE Flush(r)
  <2>1. pc' \in [Threads -> PC]
    BY <1>0, <1>12, InPC, GotoMoves DEF Flush
  <2>2. faults' \in 0 .. MaxFaults
    BY <1>12, FaultTyped DEF Flush, TypeOK
  <2> QED
    BY <1>12, <2>1, <2>2 DEF Flush, TypeOK, cache
<1> QED
  BY <1>1, <1>2, <1>3, <1>4, <1>5, <1>6, <1>7, <1>8, <1>9, <1>10, <1>11, <1>12

LEMMA AddTyped ==
  ASSUME TypeOK, Versions, NEW t \in Threads, Add(t)
  PROVE  TypeOK'
<1>1. CASE LockCache(t)
  <2>1. pc' \in [Threads -> PC]
    BY <1>1, InPC, GotoMoves DEF LockCache
  <2> QED
    BY <1>1, <2>1 DEF LockCache, TypeOK, response
<1>2. CASE LinkEntry(t)
  <2>1. pc' \in [Threads -> PC]
    BY <1>2, InPC, GotoMoves DEF LinkEntry
  <2>2. next' \in [Threads -> Seq(Entry)]
    BY <1>2 DEF LinkEntry, TypeOK
  <2> QED
    BY <1>2, <2>1, <2>2 DEF LinkEntry, TypeOK, response
<1>3. CASE PublishEntry(t)
  <2>1. AfterAdd(t) \in PC
    BY InPC DEF AfterAdd
  <2>2. pc' \in [Threads -> PC] /\ pc[t] = "publish"
    BY <1>3, <2>1, GotoMoves DEF PublishEntry
  <2>3. [url |-> UrlOf[t], characters |-> characters[t]] \in Entry
    BY <2>2, ProxyAssumption DEF Versions, Entry, Threads
  <2>4. source_cache' \in Seq(Entry)
    BY <1>3, <2>3, AddedInFront DEF PublishEntry, TypeOK
  <2> QED
    BY <1>3, <2>2, <2>4 DEF PublishEntry, TypeOK, response
<1> QED
  BY <1>1, <1>2, <1>3 DEF Add

LEMMA StoreTyped ==
  ASSUME TypeOK, NEW s \in Stores, Post(s) \/ WriteSource(s)
  PROVE  TypeOK'
<1>0. s \in Threads /\ UrlOf[s] \in Urls /\ origin[UrlOf[s]] \in 0 .. MaxVersions
  BY ProxyAssumption, Positive DEF Threads, TypeOK
<1>1. CASE Post(s)
  <2>1. pc' \in [Threads -> PC]
    BY <1>0, <1>1, InPC, GotoMoves DEF Post
  <2>2. old' \in [Stores -> BOOLEAN]
    BY <1>1 DEF Post, TypeOK
  <2> QED
    BY <1>1, <2>1, <2>2 DEF Post, TypeOK, cache, response
<1>2. CASE FindSource(s)
  <2>1. CASE Goto(s, "find", "get") /\ UNCHANGED source
    <3>1. pc' \in [Threads -> PC]
      BY <1>0, <2>1, InPC, GotoMoves
    <3> QED
      BY <1>2, <2>1, <3>1 DEF FindSource, TypeOK, cache, response
  <2>2. CASE \E i \in EntriesOf(UrlOf[s]) :
               /\ Goto(s, "find", "done")
               /\ source' = [source EXCEPT ![s] = source_cache[i].characters]
    <3> PICK i \in EntriesOf(UrlOf[s]) :
          /\ Goto(s, "find", "done")
          /\ source' = [source EXCEPT ![s] = source_cache[i].characters]
      BY <2>2
    <3>1. pc' \in [Threads -> PC]
      BY <1>0, InPC, GotoMoves
    <3>2. source_cache[i] \in Entry
      BY DEF EntriesOf, TypeOK
    <3>3. source_cache[i].characters \in 0 .. MaxVersions
      BY <3>2, Positive DEF Entry
    <3>4. source' \in [Stores -> 0 .. MaxVersions]
      BY <3>3 DEF TypeOK
    <3> QED
      BY <1>2, <3>1, <3>4 DEF FindSource, TypeOK, cache, response
  <2> QED
    BY <1>2, <2>1, <2>2 DEF FindSource
<1>3. CASE GetSource(s)
  <2>1. pc' \in [Threads -> PC]
    BY <1>0, <1>3, InPC, GotoMoves DEF GetSource
  <2>2. characters' \in [Threads -> 0 .. MaxVersions] /\ source' \in [Stores -> 0 .. MaxVersions]
    BY <1>0, <1>3 DEF GetSource, TypeOK
  <2> QED
    BY <1>3, <2>1, <2>2 DEF GetSource, TypeOK, cache, response
<1>4. CASE GetSourceFails(s)
  <2>1. pc' \in [Threads -> PC]
    BY <1>0, <1>4, InPC, GotoMoves DEF GetSourceFails
  <2>2. faults' \in 0 .. MaxFaults
    BY <1>4, FaultTyped DEF GetSourceFails
  <2> QED
    BY <1>4, <2>1, <2>2 DEF GetSourceFails, TypeOK, cache, response
<1> QED
  BY <1>1, <1>2, <1>3, <1>4 DEF WriteSource

LEMMA ChangeTyped ==
  ASSUME TypeOK, NEW u \in Urls, Change(u)
  PROVE  TypeOK'
<1>1. origin' \in [Urls -> 1 .. MaxVersions]
  BY ProxyAssumption DEF Change, TypeOK
<1> QED
  BY <1>1 DEF Change, TypeOK, cache, response

LEMMA TypeStep == TypeOK /\ Versions /\ [Next]_vars => TypeOK'
<1> SUFFICES ASSUME TypeOK, Versions, [Next]_vars PROVE TypeOK'
  OBVIOUS
<1>1. CASE UNCHANGED vars
  BY <1>1 DEF vars, TypeOK, cache, response
<1> QED
  BY <1>1, ServeTyped, AddTyped, StoreTyped, ChangeTyped DEF Next

----------------------------------------------------------------------------
(* The list *)

\* A thread that takes no part in changing the list
LEMMA ListKept ==
  ASSUME ListInv, NEW t \in Threads, NEW a, NEW b \in PC, Goto(t, a, b),
         a \notin {"link", "publish"}, b \notin {"link", "publish"},
         UNCHANGED cache,
         \A u \in Threads : u # t => characters'[u] = characters[u],
         b \in {"read", "respond", "lock"} => characters'[t] \in 1 .. MaxVersions
  PROVE  Versions' /\ MutexInv' /\ Linked'
<1>1. /\ pc[t] = a /\ pc'[t] = b
      /\ \A u \in Threads : u # t => pc'[u] = pc[u]
  BY GotoMoves DEF ListInv
<1>2. source_cache' = source_cache /\ source_cache_mutex' = source_cache_mutex /\ next' = next
  BY DEF cache
<1>3. Versions'
  BY <1>1 DEF ListInv, Versions
<1>4. MutexInv'
  BY <1>1, <1>2 DEF ListInv, MutexInv
<1>5. Linked'
  BY <1>1, <1>2 DEF ListInv, Linked
<1> QED
  BY <1>3, <1>4, <1>5

LEMMA ServeKeepsList ==
  ASSUME ListInv, NEW r \in Requests, Serve(r)
  PROVE  Versions' /\ MutexInv' /\ Linked'
<1>0. r \in Threads
  BY DEF Threads
<1>1. CASE Refuse(r)
  BY <1>0, <1>1, InPC, ListKept DEF Refuse
<1>2. CASE Connect(r)
  BY <1>0, <1>2, InPC, ListKept DEF Connect
<1>3. CASE SendRequest(r)
  BY <1>0, <1>3, InPC, ListKept DEF SendRequest
<1>4. CASE ReadHeaders(r)
  <2> PICK a \in Answers : Goto(r, "headers", IF a.script /\ a.body THEN "read" ELSE "relay")
    BY <1>4 DEF ReadHeaders
  <2> DEFINE b == IF a.script /\ a.body THEN "read" ELSE "relay"
  <2>1. b \in PC /\ b \notin {"link", "publish"} /\ Goto(r, "headers", b)
    BY InPC
  <2>2. /\ \A u \in Threads : u # r => characters'[u] = characters[u]
        /\ characters'[r] \in 1 .. MaxVersions
        /\ UNCHANGED cache
    BY <1>0, <1>4, ProxyAssumption DEF ReadHeaders, ListInv, TypeOK
  <2> HIDE DEF b
  <2> QED
    BY <1>0, <2>1, <2>2, ListKept
<1>5. CASE ReadScript(r)
  <2>1. characters'[r] \in 1 .. MaxVersions
    BY <1>0, <1>5 DEF ReadScript, Goto, ListInv, Versions
  <2> QED
    BY <1>0, <1>5, <2>1, InPC, ListKept DEF ReadScript
<1>6. CASE ReadScriptFails(r)
  <2>1. \A u \in Threads : u # r => characters'[u] = characters[u]
    BY <1>6 DEF ReadScriptFails, ListInv, TypeOK
  <2> QED
    BY <1>0, <1>6, <2>1, InPC, ListKept DEF ReadScriptFails
<1>7. CASE AbortUnknown(r) \/ ParseFatal(r)
  BY <1>7 DEF AbortUnknown, ParseFatal, cache, ListInv, Versions, MutexInv, Linked
<1>8. CASE Respond(r)
  <2>1. characters'[r] \in 1 .. MaxVersions
    BY <1>0, <1>8 DEF Respond, Goto, ListInv, Versions
  <2> QED
    BY <1>0, <1>8, <2>1, InPC, ListKept DEF Respond
<1>9. CASE RelayHeaders(r)
  <2> DEFINE b == IF answer[r].body THEN "copy" ELSE "flush"
  <2>1. b \in PC /\ b \notin {"link", "publish", "read", "respond", "lock"} /\ Goto(r, "relay", b)
    BY <1>9, InPC DEF RelayHeaders
  <2> HIDE DEF b
  <2> QED
    BY <1>0, <1>9, <2>1, ListKept DEF RelayHeaders
<1>10. CASE RelayHeadersFail(r)
  BY <1>0, <1>10, InPC, ListKept DEF RelayHeadersFail
<1>11. CASE CopyBody(r)
  BY <1>0, <1>11, InPC, ListKept DEF CopyBody
<1>12. CASE Flush(r)
  BY <1>0, <1>12, InPC, ListKept DEF Flush
<1> QED
  BY <1>1, <1>2, <1>3, <1>4, <1>5, <1>6, <1>7, <1>8, <1>9, <1>10, <1>11, <1>12 DEF Serve

LEMMA AddKeepsList ==
  ASSUME ListInv, NEW t \in Threads, Add(t)
  PROVE  Versions' /\ MutexInv' /\ Linked'
<1>0. t # None
  BY ProxyAssumption DEF Threads
<1>1. CASE LockCache(t)
  <2>1. /\ pc[t] = "lock" /\ pc'[t] = "link" /\ \A u \in Threads : u # t => pc'[u] = pc[u]
    BY <1>1, InPC, GotoMoves DEF LockCache, ListInv
  <2>2. Versions'
    BY <1>1, <2>1 DEF LockCache, ListInv, Versions
  <2>3. MutexInv'
    BY <1>0, <1>1, <2>1, ProxyAssumption DEF LockCache, ListInv, MutexInv, Threads
  <2>4. Linked'
    BY <1>1, <2>1 DEF LockCache, ListInv, Linked
  <2> QED
    BY <2>2, <2>3, <2>4
<1>2. CASE LinkEntry(t)
  <2>1. /\ pc[t] = "link" /\ pc'[t] = "publish" /\ \A u \in Threads : u # t => pc'[u] = pc[u]
    BY <1>2, InPC, GotoMoves DEF LinkEntry, ListInv
  <2>2. Versions'
    BY <1>2, <2>1 DEF LinkEntry, ListInv, Versions
  <2>3. MutexInv'
    BY <1>2, <2>1 DEF LinkEntry, ListInv, MutexInv
  <2>4. Linked'
    BY <1>2, <2>1 DEF LinkEntry, ListInv, Linked, TypeOK
  <2> QED
    BY <2>2, <2>3, <2>4
<1>3. CASE PublishEntry(t)
  <2>1. AfterAdd(t) \in {"flush", "done"} /\ AfterAdd(t) \in PC
    BY InPC DEF AfterAdd
  <2>2. /\ pc[t] = "publish" /\ pc'[t] \in {"flush", "done"} /\ \A u \in Threads : u # t => pc'[u] = pc[u]
    BY <1>3, <2>1, GotoMoves DEF PublishEntry, ListInv
  <2>3. Versions'
    BY <1>3, <2>2 DEF PublishEntry, ListInv, Versions
  <2>4. source_cache_mutex = t /\ \A u \in Threads : u # t => pc[u] \notin {"link", "publish"}
    BY <2>2 DEF ListInv, MutexInv
  <2>5. MutexInv'
    BY <1>0, <1>3, <2>2, <2>4, ProxyAssumption DEF PublishEntry, MutexInv, Threads
  <2>6. Linked'
    BY <1>3, <2>2, <2>4 DEF PublishEntry, Linked
  <2> QED
    BY <2>3, <2>5, <2>6
<1> QED
  BY <1>1, <1>2, <1>3 DEF Add

LEMMA StoreKeepsList ==
  ASSUME ListInv, NEW s \in Stores, Post(s) \/ WriteSource(s)
  PROVE  Versions' /\ MutexInv' /\ Linked'
<1>0. s \in Threads
  BY DEF Threads
<1>1. CASE Post(s)
  BY <1>0, <1>1, InPC, ListKept DEF Post
<1>2. CASE FindSource(s)
  <2> PICK b \in {"get", "done"} : Goto(s, "find", b)
    BY <1>2 DEF FindSource
  <2> QED
    BY <1>0, <1>2, InPC, ListKept DEF FindSource
<1>3. CASE GetSource(s)
  <2>1. /\ \A u \in Threads : u # s => characters'[u] = characters[u]
        /\ characters'[s] \in 1 .. MaxVersions
    BY <1>0, <1>3, ProxyAssumption DEF GetSource, ListInv, TypeOK
  <2> QED
    BY <1>0, <1>3, <2>1, InPC, ListKept DEF GetSource
<1>4. CASE GetSourceFails(s)
  BY <1>0, <1>4, InPC, ListKept DEF GetSourceFails
<1> QED
  BY <1>1, <1>2, <1>3, <1>4 DEF WriteSource

LEMMA ListStart == Init => ListInv
<1> SUFFICES ASSUME Init PROVE ListInv
  OBVIOUS
<1>1. \A t \in Threads : pc[t] = "idle" /\ source_cache_mutex # t
  BY ProxyAssumption DEF Init, Threads
<1> QED
  BY <1>1, TypeStart DEF ListInv, Versions, MutexInv, Linked

LEMMA ListStep == ListInv /\ [Next]_vars => ListInv'
<1> SUFFICES ASSUME ListInv, [Next]_vars PROVE Versions' /\ MutexInv' /\ Linked'
  BY TypeStep DEF ListInv
<1>1. CASE UNCHANGED vars
  BY <1>1 DEF vars, cache, ListInv, Versions, MutexInv, Linked
<1>2. ASSUME NEW u \in Urls, Change(u) PROVE Versions' /\ MutexInv' /\ Linked'
  BY <1>2 DEF Change, cache, ListInv, Versions, MutexInv, Linked
<1> QED
  BY <1>1, <1>2, ServeKeepsList, AddKeepsList, StoreKeepsList DEF Next

\* What changes the list puts an entry in front of it.
LEMMA ListGrows ==
  ASSUME ListInv, [Next]_vars
  PROVE  \/ source_cache' = source_cache
         \/ \E t \in Threads :
              /\ PublishEntry(t)
              /\ [url |-> UrlOf[t], characters |-> characters[t]] \in Entry
              /\ source_cache' = <<[url |-> UrlOf[t], characters |-> characters[t]]>> \o source_cache
<1>1. CASE UNCHANGED vars
  BY <1>1 DEF vars, cache
<1>2. ASSUME NEW u \in Urls, Change(u) PROVE source_cache' = source_cache
  BY <1>2 DEF Change, cache
<1>3. ASSUME NEW r \in Requests, Serve(r) PROVE source_cache' = source_cache
  BY <1>3 DEF Serve, Refuse, Connect, SendRequest, ReadHeaders, ReadScript, ReadScriptFails, AbortUnknown, ParseFatal,
              Respond, RelayHeaders, RelayHeadersFail, CopyBody, Flush, cache
<1>4. ASSUME NEW s \in Stores, Post(s) \/ WriteSource(s) PROVE source_cache' = source_cache
  BY <1>4 DEF Post, WriteSource, FindSource, GetSource, GetSourceFails, cache
<1>5. ASSUME NEW t \in Threads, LockCache(t) \/ LinkEntry(t) PROVE source_cache' = source_cache
  BY <1>5 DEF LockCache, LinkEntry
<1>6. ASSUME NEW t \in Threads, PublishEntry(t)
      PROVE  /\ [url |-> UrlOf[t], characters |-> characters[t]] \in Entry
             /\ source_cache' = <<[url |-> UrlOf[t], characters |-> characters[t]]>> \o source_cache
  <2>1. pc[t] = "publish"
    BY <1>6 DEF PublishEntry, Goto
  <2>2. next[t] = source_cache /\ characters[t] \in 1 .. MaxVersions
    BY <2>1 DEF ListInv, Linked, Versions
  <2> QED
    BY <1>6, <2>2, ProxyAssumption DEF PublishEntry, Entry, Threads
<1> QED
  BY <1>1, <1>2, <1>3, <1>4, <1>5, <1>6 DEF Next, Add

LEMMA EntriesStayStep == ListInv /\ [Next]_vars => [IsSuffix(source_cache, source_cache')]_source_cache
<1> SUFFICES ASSUME ListInv, [Next]_vars, source_cache' # source_cache
             PROVE  IsSuffix(source_cache, source_cache')
  OBVIOUS
<1>1. PICK e \in Entry : source_cache' = <<e>> \o source_cache
  BY ListGrows
<1> QED
  BY <1>1, FrontIsSuffix DEF ListInv, TypeOK

\* add_cached_source, called by any number of handlers at once, never loses an
\* entry: the list of sources only gets new ones at its head.
THEOREM EntriesStayCorrect == Spec => EntriesStay
<1>1. Spec => []ListInv
  BY ListStart, ListStep, PTL DEF Spec
<1> QED
  BY <1>1, EntriesStayStep, PTL DEF Spec, EntriesStay

----------------------------------------------------------------------------
(* What clients hold *)

LEMMA ServedStart == Init => ServedInv
BY DEF Init, ServedInv, Served, Threads

LEMMA CachedKept ==
  ASSUME NEW u, NEW v, Cached(u, v), source_cache' = source_cache
  PROVE  Cached(u, v)'
BY DEF Cached

LEMMA CachedGrows ==
  ASSUME NEW e \in Entry, source_cache \in Seq(Entry), source_cache' = <<e>> \o source_cache
  PROVE  /\ \A u, v : Cached(u, v) => \E i \in DOMAIN source_cache' : source_cache'[i] = [url |-> u, characters |-> v]
         /\ 1 \in DOMAIN source_cache' /\ source_cache'[1] = e
<1>1. /\ source_cache' \in Seq(Entry)
      /\ Len(source_cache') = Len(source_cache) + 1
      /\ source_cache'[1] = e
      /\ \A i \in 1 .. Len(source_cache) : source_cache'[i + 1] = source_cache[i]
  BY AddedInFront
<1>2. /\ DOMAIN source_cache' = 1 .. Len(source_cache) + 1
      /\ DOMAIN source_cache = 1 .. Len(source_cache) /\ Len(source_cache) \in Nat
  BY <1>1
<1>3. ASSUME NEW u, NEW v, Cached(u, v)
      PROVE  \E i \in DOMAIN source_cache' : source_cache'[i] = [url |-> u, characters |-> v]
  <2> PICK i \in DOMAIN source_cache : source_cache[i] = [url |-> u, characters |-> v]
    BY <1>3 DEF Cached
  <2>1. i + 1 \in DOMAIN source_cache' /\ source_cache'[i + 1] = source_cache[i]
    BY <1>1, <1>2
  <2> QED
    BY <2>1
<1> QED
  BY <1>1, <1>2, <1>3

\* A step of another thread that leaves the list alone
LEMMA OthersKept ==
  ASSUME NEW r \in Requests, Served(r), source_cache' = source_cache,
         pc'[r] = pc[r], started'[r] = started[r], answer'[r] = answer[r],
         characters'[r] = characters[r], client'[r] = client[r]
  PROVE  Served(r)'
BY DEF Served, IsScript, Cached

LEMMA ServeKeepsServed ==
  ASSUME ListInv, NEW r \in Requests, Served(r), Serve(r)
  PROVE  Served(r)'
<1>0. r \in Threads /\ r \in DOMAIN started /\ r \in DOMAIN client /\ r \in DOMAIN answer
  BY DEF Threads, ListInv, TypeOK
<1>1. CASE Refuse(r)
  <2> PICK a \in {"idle", "request", "headers"} :
        /\ Goto(r, a, "flush")
        /\ \E status \in {"504", "502", "400"} : SendResponse(r, status)
    BY <1>1 DEF Refuse
  <2>1. pc[r] = a /\ pc'[r] = "flush"
    BY <1>0, InPC, GotoMoves DEF ListInv
  <2>2. started[r] = None /\ started'[r] # "relayed" /\ client' = client /\ client[r] # "all"
    BY <1>0, <2>1 DEF Served, SendResponse, Start
  <2> QED
    BY <2>1, <2>2 DEF Served
<1>2. CASE Connect(r)
  <2>1. pc[r] = "idle" /\ pc'[r] = "request"
    BY <1>0, <1>2, InPC, GotoMoves DEF Connect, ListInv
  <2> QED
    BY <1>2, <2>1 DEF Connect, Served, response
<1>3. CASE SendRequest(r)
  <2>1. pc[r] = "request" /\ pc'[r] = "headers"
    BY <1>0, <1>3, InPC, GotoMoves DEF SendRequest, ListInv
  <2> QED
    BY <1>3, <2>1 DEF SendRequest, Served, response
<1>4. CASE ReadHeaders(r)
  <2> PICK a \in Answers :
        /\ Goto(r, "headers", IF a.script /\ a.body THEN "read" ELSE "relay")
        /\ answer' = [answer EXCEPT ![r] = a]
    BY <1>4 DEF ReadHeaders
  <2> DEFINE b == IF a.script /\ a.body THEN "read" ELSE "relay"
  <2>1. b \in PC /\ b \in {"read", "relay"} /\ (b = "relay" => ~(a.script /\ a.body)) /\ Goto(r, "headers", b)
    BY InPC
  <2> HIDE DEF b
  <2>2. pc[r] = "headers" /\ pc'[r] = b
    BY <1>0, <2>1, GotoMoves DEF ListInv
  <2>3. answer'[r] = a /\ started' = started /\ client' = client
    BY <1>0, <1>4 DEF ReadHeaders, response
  <2> QED
    BY <2>1, <2>2, <2>3 DEF Served, IsScript
<1>5. CASE ReadScript(r)
  <2>1. pc[r] = "read" /\ pc'[r] = "respond"
    BY <1>0, <1>5, InPC, GotoMoves DEF ReadScript, ListInv
  <2> QED
    BY <1>5, <2>1 DEF ReadScript, Served, response
<1>6. CASE ReadScriptFails(r)
  <2>1. pc[r] = "read" /\ pc'[r] = "flush"
    BY <1>0, <1>6, InPC, GotoMoves DEF ReadScriptFails, ListInv
  <2>2. started[r] = None /\ started'[r] # "relayed" /\ client' = client /\ client[r] # "all"
    BY <1>0, <1>6, <2>1 DEF Served, ReadScriptFails, SendResponse, Start
  <2> QED
    BY <2>1, <2>2 DEF Served
<1>7. CASE AbortUnknown(r) \/ ParseFatal(r)
  BY <1>7, OthersKept DEF AbortUnknown, ParseFatal, cache, response
<1>8. CASE Respond(r)
  <2>1. pc[r] = "respond" /\ pc'[r] = "lock"
    BY <1>0, <1>8, InPC, GotoMoves DEF Respond, ListInv
  <2>2. client'[r] # "all"
    BY <1>0, <1>8, <2>1 DEF Respond, Served
  <2> QED
    BY <2>1, <2>2 DEF Served
<1>9. CASE RelayHeaders(r)
  <2> DEFINE b == IF answer[r].body THEN "copy" ELSE "flush"
  <2>1. b \in PC /\ b \in {"copy", "flush"} /\ Goto(r, "relay", b)
    BY <1>9, InPC DEF RelayHeaders
  <2> HIDE DEF b
  <2>2. pc[r] = "relay" /\ pc'[r] = b
    BY <1>0, <2>1, GotoMoves DEF ListInv
  <2>3. client'[r] # "all" /\ answer' = answer
    BY <1>0, <1>9, <2>2 DEF RelayHeaders, Served
  <2> QED
    BY <2>1, <2>2, <2>3 DEF Served, IsScript
<1>10. CASE RelayHeadersFail(r)
  <2>1. pc[r] = "relay" /\ pc'[r] = "flush"
    BY <1>0, <1>10, InPC, GotoMoves DEF RelayHeadersFail, ListInv
  <2>2. client'[r] # "all" /\ answer' = answer
    BY <1>0, <1>10, <2>1 DEF RelayHeadersFail, Served
  <2> QED
    BY <2>1, <2>2 DEF Served, IsScript
<1>11. CASE CopyBody(r)
  <2>1. pc[r] = "copy" /\ pc'[r] = "flush"
    BY <1>0, <1>11, InPC, GotoMoves DEF CopyBody, ListInv
  <2>2. client'[r] # "all" /\ answer' = answer
    BY <1>0, <1>11, <2>1 DEF CopyBody, Served
  <2> QED
    BY <2>1, <2>2 DEF Served, IsScript
<1>12. CASE Flush(r)
  <2>1. pc[r] = "flush" /\ pc'[r] = "done"
    BY <1>0, <1>12, InPC, GotoMoves DEF Flush, ListInv
  <2>2. answer' = answer /\ started' = started /\ characters' = characters /\ source_cache' = source_cache
    BY <1>12 DEF Flush, cache
  <2> QED
    BY <2>1, <2>2 DEF Served, IsScript, Cached
<1> QED
  BY <1>1, <1>2, <1>3, <1>4, <1>5, <1>6, <1>7, <1>8, <1>9, <1>10, <1>11, <1>12 DEF Serve

LEMMA ServeKeepsOthers ==
  ASSUME ListInv, NEW q \in Requests, NEW r \in Requests, r # q, Served(r), Serve(q)
  PROVE  Served(r)'
<1>0. q \in Threads /\ r \in Threads
  BY DEF Threads
<1>1. pc'[r] = pc[r] /\ source_cache' = source_cache /\ answer'[r] = answer[r]
  BY <1>0 DEF ListInv, TypeOK, Goto, cache, Serve, Refuse, Connect, SendRequest, ReadHeaders, ReadScript,
         ReadScriptFails, AbortUnknown, ParseFatal, Respond, RelayHeaders, RelayHeadersFail, CopyBody, Flush
<1>2. characters'[r] = characters[r]
  BY <1>0 DEF ListInv, TypeOK, Serve, Refuse, Connect, SendRequest, ReadHeaders, ReadScript,
         ReadScriptFails, AbortUnknown, ParseFatal, Respond, RelayHeaders, RelayHeadersFail, CopyBody, Flush
<1>3. started'[r] = started[r] /\ client'[r] = client[r]
  BY DEF ListInv, TypeOK, response, Start, SendResponse, Serve, Refuse, Connect, SendRequest, ReadHeaders,
         ReadScript, ReadScriptFails, AbortUnknown, ParseFatal, Respond, RelayHeaders, RelayHeadersFail, CopyBody, Flush
<1> QED
  BY <1>1, <1>2, <1>3, OthersKept

LEMMA AddKeepsServed ==
  ASSUME ListInv, NEW t \in Threads, NEW r \in Requests, Served(r), Add(t)
  PROVE  Served(r)'
<1>0. r \in Threads
  BY DEF Threads
<1>1. characters' = characters /\ answer' = answer /\ started' = started /\ client' = client
  BY DEF Add, LockCache, LinkEntry, PublishEntry, response
<1>2. CASE LockCache(t) \/ LinkEntry(t)
  <2>1. source_cache' = source_cache
    BY <1>2 DEF LockCache, LinkEntry
  <2>2. pc'[r] = pc[r] \/ (pc'[r] \in {"link", "publish"} /\ pc[r] \in {"lock", "link"})
    BY <1>0, <1>2 DEF LockCache, LinkEntry, Goto, ListInv, TypeOK
  <2>3. CASE pc'[r] = pc[r]
    BY <1>1, <2>1, <2>3, OthersKept
  <2>4. CASE pc'[r] \in {"link", "publish"} /\ pc[r] \in {"lock", "link"}
    BY <1>1, <2>4 DEF Served
  <2> QED
    BY <2>2, <2>3, <2>4
<1>3. CASE PublishEntry(t)
  <2> DEFINE e == [url |-> UrlOf[t], characters |-> characters[t]]
  <2>1. e \in Entry /\ source_cache' = <<e>> \o source_cache
    <3>1. pc[t] = "publish"
      BY <1>3 DEF PublishEntry, Goto
    <3>2. next[t] = source_cache /\ characters[t] \in 1 .. MaxVersions
      BY <3>1 DEF ListInv, Linked, Versions
    <3> QED
      BY <1>3, <3>2, ProxyAssumption DEF PublishEntry, Entry, Threads
  <2>2. CASE r = t
    <3>1. Cached(UrlOf[r], characters[r])'
      <4>1. 1 \in DOMAIN source_cache' /\ source_cache'[1] = e
        <5> HIDE DEF e
        <5> QED
          BY <2>1, CachedGrows DEF ListInv, TypeOK
      <4> QED
        BY <1>1, <2>2, <4>1 DEF Cached
    <3>2. pc[r] = "publish" /\ pc'[r] \notin {"idle", "request", "headers", "read", "respond", "relay", "copy"}
      BY <1>0, <1>3, <2>2 DEF PublishEntry, Goto, AfterAdd, ListInv, TypeOK
    <3> QED
      BY <1>1, <3>1, <3>2 DEF Served
  <2>3. CASE r # t
    <3>1. pc'[r] = pc[r]
      BY <1>0, <1>3, <2>3 DEF PublishEntry, Goto, ListInv, TypeOK
    <3>2. Cached(UrlOf[r], characters[r]) => Cached(UrlOf[r], characters[r])'
      <4> HIDE DEF e
      <4>1. \A u, v : Cached(u, v) =>
              \E i \in DOMAIN source_cache' : source_cache'[i] = [url |-> u, characters |-> v]
        BY <2>1, CachedGrows DEF ListInv, TypeOK
      <4> QED
        BY <1>1, <4>1 DEF Cached
    <3> QED
      BY <1>1, <3>1, <3>2 DEF Served, IsScript
  <2> QED
    BY <2>2, <2>3
<1> QED
  BY <1>2, <1>3 DEF Add

LEMMA StoreKeepsServed ==
  ASSUME ListInv, NEW s \in Stores, NEW r \in Requests, Served(r), Post(s) \/ WriteSource(s)
  PROVE  Served(r)'
<1>0. r \in Threads /\ s \in Threads /\ r # s
  BY ProxyAssumption DEF Threads
<1>1. pc'[r] = pc[r] /\ characters'[r] = characters[r]
  BY <1>0 DEF Post, WriteSource, FindSource, GetSource, GetSourceFails, Goto, ListInv, TypeOK
<1>2. source_cache' = source_cache /\ answer' = answer /\ started' = started /\ client' = client
  BY DEF Post, WriteSource, FindSource, GetSource, GetSourceFails, cache, response
<1> QED
  BY <1>1, <1>2, OthersKept

LEMMA ServedStep == ListInv /\ ServedInv /\ [Next]_vars => ServedInv'
<1> SUFFICES ASSUME ListInv, ServedInv, [Next]_vars, NEW r \in Requests PROVE Served(r)'
  BY DEF ServedInv
<1>0. Served(r)
  BY DEF ServedInv
<1>1. CASE UNCHANGED vars
  BY <1>0, <1>1, OthersKept DEF vars, cache, response
<1>2. ASSUME NEW u \in Urls, Change(u) PROVE Served(r)'
  BY <1>0, <1>2, OthersKept DEF Change, cache, response
<1>3. ASSUME NEW q \in Requests, Serve(q) PROVE Served(r)'
  BY <1>0, <1>3, ServeKeepsServed, ServeKeepsOthers
<1> QED
  BY <1>0, <1>1, <1>2, <1>3, AddKeepsServed, StoreKeepsServed DEF Next

LEMMA ServedImplies == ListInv /\ ServedInv => ServedIsCached
<1> SUFFICES ASSUME ListInv, ServedInv, NEW r \in Requests, Holds(r)
             PROVE  Cached(UrlOf[r], characters[r]) /\ characters[r] # 0
  BY DEF ServedIsCached
<1>1. Cached(UrlOf[r], characters[r])
  BY DEF Holds, ServedInv, Served, IsScript
<1>2. PICK i \in DOMAIN source_cache : source_cache[i] = [url |-> UrlOf[r], characters |-> characters[r]]
  BY <1>1 DEF Cached
<1>3. source_cache[i] \in Entry
  BY DEF ListInv, TypeOK
<1> QED
  BY <1>1, <1>2, <1>3, ProxyAssumption DEF Entry

LEMMA ServedAlways == Spec => [](ListInv /\ ServedInv)
<1>1. Init => ListInv /\ ServedInv
  BY ListStart, ServedStart
<1>2. ListInv /\ ServedInv /\ [Next]_vars => (ListInv /\ ServedInv)'
  BY ListStep, ServedStep
<1> QED
  BY <1>1, <1>2, PTL DEF Spec

\* A client never holds a whole script whose source is not in the list, though
\* add_cached_source comes after the script has been written, and never a whole answer
\* for a script that the proxy could not read.
THEOREM ServedIsCachedCorrect == Spec => []ServedIsCached
BY ServedAlways, ServedImplies, PTL
=============================================================================
