----------------------------- MODULE ProxyCache -----------------------------
(***************************************************************************)
(* jscoverage-server --proxy: handle_proxy_request relays the answers of   *)
(* origin servers, instruments the scripts among them and remembers their  *)
(* source; a store looks the source of each file up, or gets it from its   *)
(* origin (write_json).  Every request and every store has its thread.     *)
(* What the files of a report go through is CoverageStore's matter, how a  *)
(* body is read MessageBody's, how it is sent ConnectionBuffer's: what has *)
(* been written is with the client for certain only after a flush, and     *)
(* before it never all of it is.                                           *)
(***************************************************************************)
EXTENDS Naturals, Sequences

CONSTANTS
  Requests,      \* requests of clients to the proxy
  Stores,        \* POSTs to /jscoverage-store, each with one file
  Urls,
  UrlOf,         \* the URL of each request, and of the file of each store
  Answers,       \* what an origin may answer, see below
  MaxVersions,   \* bound on the changes of a script at its origin
  MaxFaults,     \* bound on failing calls
  None

(* An answer is [script, body, known]: it has a JavaScript content type    *)
(* and no --no-instrument option names it; it has a body (no HEAD request, *)
(* no status 1xx, 204 or 304); its status is in the table of http-exchange.c. *)
ASSUME ProxyAssumption ==
  /\ UrlOf \in [Requests \cup Stores -> Urls]
  /\ Requests \cap Stores = {} /\ None \notin Requests \cup Stores
  /\ Answers \subseteq [script : BOOLEAN, body : BOOLEAN, known : BOOLEAN]
  /\ MaxVersions \in Nat \ {0} /\ MaxFaults \in Nat

VARIABLES
  origin,              \* the version of each script at its origin server
  source_cache,        \* [url, characters], the newest first
  source_cache_mutex,  \* its holder
  next,                \* new_source_cache->next of a request or store
  pc,
  answer,              \* the origin's answer to a request
  characters,          \* the version of the script a thread holds, 0 if none
  started,             \* the status line written to the client, None before
  whole,               \* everything has been written that the answer promises
  client,              \* what the client has received: "nothing", "some", "all"
  source,              \* the version written beside the counts of a store, 0 for []
  old,                 \* a store's client got its script from an earlier server
  running,             \* the process has not been ended by fatal() or an assert
  faults

cache == <<source_cache, source_cache_mutex, next>>
response == <<started, whole, client>>
vars == <<origin, cache, pc, answer, characters, response, source, old, running, faults>>

----------------------------------------------------------------------------
Threads == Requests \cup Stores
Entry == [url : Urls, characters : 1 .. MaxVersions]
NoAnswer == [script |-> FALSE, body |-> FALSE, known |-> TRUE]

Init ==
  /\ origin = [u \in Urls |-> 1]
  /\ source_cache = <<>> /\ source_cache_mutex = None
  /\ next = [t \in Threads |-> <<>>]
  /\ pc = [t \in Threads |-> "idle"]
  /\ answer = [r \in Requests |-> NoAnswer]
  /\ characters = [t \in Threads |-> 0]
  /\ started = [r \in Requests |-> None]
  /\ whole = [r \in Requests |-> FALSE]
  /\ client = [r \in Requests |-> "nothing"]
  /\ source = [s \in Stores |-> 0] /\ old = [s \in Stores |-> FALSE]
  /\ running = TRUE
  /\ faults = 0

Goto(t, a, b) ==
  /\ running
  /\ pc[t] = a
  /\ pc' = [pc EXCEPT ![t] = b]

Fault == faults < MaxFaults /\ faults' = faults + 1

\* the origin gets a new version of a script
Change(u) ==
  /\ running /\ origin[u] < MaxVersions
  /\ origin' = [origin EXCEPT ![u] = @ + 1]
  /\ UNCHANGED <<cache, pc, answer, characters, response, source, old, running, faults>>

----------------------------------------------------------------------------
(* handle_proxy_request *)

\* HTTPMessage_write_start_line_and_headers: the first status line is the
\* only one
Start(r, status) == started' = [started EXCEPT ![r] = IF @ = None THEN status ELSE @]

\* send_response: an answer of the proxy's own, complete
SendResponse(r, status) ==
  /\ Start(r, status)
  /\ whole' = [whole EXCEPT ![r] = TRUE]
  /\ UNCHANGED client   \* too short to fill the buffer

\* "Could not connect to server", "Could not write to server", "Error copying
\* request body", "Could not read headers from server"
Refuse(r) ==
  /\ \E a \in {"idle", "request", "headers"} :
       /\ Goto(r, a, "flush")
       /\ \E status \in CASE a = "idle" -> {"504"} [] a = "request" -> {"502", "400"} [] a = "headers" -> {"502"} :
            SendResponse(r, status)
  /\ Fault
  /\ UNCHANGED <<origin, cache, answer, characters, source, old, running>>

Connect(r) ==
  /\ Goto(r, "idle", "request")
  /\ UNCHANGED <<origin, cache, answer, characters, response, source, old, running, faults>>

\* the request, and its body if it has one, has been sent and flushed
SendRequest(r) ==
  /\ Goto(r, "request", "headers")
  /\ UNCHANGED <<origin, cache, answer, characters, response, source, old, running, faults>>

\* the body belongs to the version the origin has when it answers
ReadHeaders(r) ==
  /\ \E a \in Answers :
       /\ Goto(r, "headers", IF a.script /\ a.body THEN "read" ELSE "relay")
       /\ answer' = [answer EXCEPT ![r] = a]
  /\ characters' = [characters EXCEPT ![r] = origin[UrlOf[r]]]
  /\ UNCHANGED <<origin, cache, response, source, old, running, faults>>

ReadScript(r) ==
  /\ Goto(r, "read", "respond")
  /\ UNCHANGED <<origin, cache, answer, characters, response, source, old, running, faults>>

\* mutant: the handler goes on with what it could read
ReadScriptFails_GoesOn(r) ==
  /\ Goto(r, "read", "respond")
  /\ Fault
  /\ characters' = [characters EXCEPT ![r] = 0]
  /\ UNCHANGED <<origin, cache, answer, response, source, old, running>>

\* the body cannot be read, its encoding is not known, or it does not fit it
ReadScriptFails(r) ==
  /\ Goto(r, "read", "flush")
  /\ Fault
  /\ \E status \in {"502", "500"} : SendResponse(r, status)
  /\ characters' = [characters EXCEPT ![r] = 0]
  /\ UNCHANGED <<origin, cache, answer, source, old, running>>

\* HTTPExchange_write_response_headers asserts that it knows the status
AbortUnknown(r) ==
  /\ running /\ pc[r] \in {"respond", "relay"} /\ ~answer[r].known
  /\ running' = FALSE
  /\ UNCHANGED <<origin, cache, pc, answer, characters, response, source, old, faults>>

\* what came is no script of JavaScript: jscoverage_instrument_js calls fatal()
ParseFatal(r) ==
  /\ running /\ pc[r] = "respond"
  /\ running' = FALSE
  /\ UNCHANGED <<origin, cache, pc, answer, characters, response, source, old, faults>>

\* the instrumented script is written; the last octets stay in the buffer
Respond(r) ==
  /\ Goto(r, "respond", "lock") /\ answer[r].known
  /\ Start(r, "relayed")
  /\ \/ /\ whole' = [whole EXCEPT ![r] = TRUE]
        /\ UNCHANGED faults
     \/ /\ Fault        \* "error writing to client"
        /\ UNCHANGED whole
  /\ \E c \in {client[r], "some"} : client' = [client EXCEPT ![r] = c]
  /\ UNCHANGED <<origin, cache, answer, characters, source, old, running>>

RelayHeaders(r) ==
  /\ Goto(r, "relay", IF answer[r].body THEN "copy" ELSE "flush") /\ answer[r].known
  /\ Start(r, "relayed")
  /\ whole' = [whole EXCEPT ![r] = ~answer[r].body]
  /\ \E c \in {client[r], "some"} : client' = [client EXCEPT ![r] = c]
  /\ UNCHANGED <<origin, cache, answer, characters, source, old, running, faults>>

RelayHeadersFail(r) ==
  /\ Goto(r, "relay", "flush") /\ answer[r].known
  /\ Fault
  /\ Start(r, "relayed")
  /\ \E c \in {client[r], "some"} : client' = [client EXCEPT ![r] = c]
  /\ UNCHANGED <<origin, cache, answer, characters, whole, source, old, running>>

\* copy_http_message_body: what was read of a body that ends early is relayed
CopyBody(r) ==
  /\ Goto(r, "copy", "flush")
  /\ \/ /\ whole' = [whole EXCEPT ![r] = TRUE]
        /\ UNCHANGED faults
     \/ /\ Fault
        /\ UNCHANGED whole
  /\ \E c \in {client[r], "some"} : client' = [client EXCEPT ![r] = c]
  /\ UNCHANGED <<origin, cache, answer, characters, started, source, old, running>>

\* HTTPExchange_flush_response in handle_connection, after the handler
Flush(r) ==
  /\ Goto(r, "flush", "done")
  /\ \/ /\ client' = [client EXCEPT ![r] = IF whole[r] THEN "all" ELSE "some"]
        /\ UNCHANGED faults
     \/ /\ Fault
        /\ \E c \in {client[r], "some"} : client' = [client EXCEPT ![r] = c]
  /\ UNCHANGED <<origin, cache, answer, characters, started, whole, source, old, running>>

----------------------------------------------------------------------------
(* add_cached_source, called by requests and stores *)

AfterAdd(t) == IF t \in Requests THEN "flush" ELSE "done"

\* mutant: the list is changed without its mutex
LockCache_No(t) ==
  /\ Goto(t, "lock", "link")
  /\ UNCHANGED <<origin, cache, answer, characters, response, source, old, running, faults>>

LockCache(t) ==
  /\ Goto(t, "lock", "link")
  /\ source_cache_mutex = None
  /\ source_cache_mutex' = t
  /\ UNCHANGED <<origin, source_cache, next, answer, characters, response, source, old, running, faults>>

LinkEntry(t) ==
  /\ Goto(t, "link", "publish")
  /\ next' = [next EXCEPT ![t] = source_cache]
  /\ UNCHANGED <<origin, source_cache, source_cache_mutex, answer, characters, response, source, old, running, faults>>

\* mutant: the mutex is not released
PublishEntry_KeepsLock(t) ==
  /\ Goto(t, "publish", AfterAdd(t))
  /\ source_cache' = <<[url |-> UrlOf[t], characters |-> characters[t]]>> \o next[t]
  /\ UNCHANGED <<origin, source_cache_mutex, next, answer, characters, response, source, old, running, faults>>

PublishEntry(t) ==
  /\ Goto(t, "publish", AfterAdd(t))
  /\ source_cache' = <<[url |-> UrlOf[t], characters |-> characters[t]]>> \o next[t]
  /\ source_cache_mutex' = None
  /\ UNCHANGED <<origin, next, answer, characters, response, source, old, running, faults>>

----------------------------------------------------------------------------
(* write_json for a file that came without its source *)

Holds(r) == client[r] = "all" /\ started[r] = "relayed" /\ answer[r].script /\ answer[r].body

\* a client that has run a script, of this server or an earlier one, stores
Post(s) ==
  /\ Goto(s, "idle", "find")
  /\ \E earlier \in BOOLEAN :
       /\ earlier \/ \E r \in Requests : UrlOf[r] = UrlOf[s] /\ Holds(r)
       /\ old' = [old EXCEPT ![s] = earlier]
  /\ UNCHANGED <<origin, cache, answer, characters, response, source, running, faults>>

EntriesOf(u) == {i \in DOMAIN source_cache : source_cache[i].url = u}

\* find_cached_source: the first entry of the URL, found with the mutex held
FindSource(s) ==
  /\ source_cache_mutex = None
  /\ LET found == EntriesOf(UrlOf[s])
     IN  \/ found = {} /\ Goto(s, "find", "get") /\ UNCHANGED source
         \/ \E i \in found :
              /\ \A j \in found : i <= j
              /\ Goto(s, "find", "done")
              /\ source' = [source EXCEPT ![s] = source_cache[i].characters]
  /\ UNCHANGED <<origin, cache, answer, characters, response, old, running, faults>>

\* get and write_source
GetSource(s) ==
  /\ Goto(s, "get", "lock")
  /\ characters' = [characters EXCEPT ![s] = origin[UrlOf[s]]]
  /\ source' = [source EXCEPT ![s] = origin[UrlOf[s]]]
  /\ UNCHANGED <<origin, cache, answer, response, old, running, faults>>

\* "cannot retrieve URL"; the report has [] for the source
GetSourceFails(s) ==
  /\ Goto(s, "get", "done")
  /\ Fault
  /\ UNCHANGED <<origin, cache, answer, characters, response, source, old, running>>

----------------------------------------------------------------------------
Serve(r) ==
  \/ Refuse(r) \/ Connect(r) \/ SendRequest(r) \/ ReadHeaders(r)
  \/ ReadScript(r) \/ ReadScriptFails(r) \/ AbortUnknown(r) \/ ParseFatal(r) \/ Respond(r)
  \/ RelayHeaders(r) \/ RelayHeadersFail(r) \/ CopyBody(r) \/ Flush(r)

Add(t) == LockCache(t) \/ LinkEntry(t) \/ PublishEntry(t)

WriteSource(s) == FindSource(s) \/ GetSource(s) \/ GetSourceFails(s)

Next ==
  \/ \E u \in Urls : Change(u)
  \/ \E r \in Requests : Serve(r)
  \/ \E t \in Threads : Add(t)
  \/ \E s \in Stores : Post(s) \/ WriteSource(s)

Spec == Init /\ [][Next]_vars

\* Every thread goes on, and origins answer or close their connections.  A
\* thread takes the mutex once or twice, so nobody keeps it from the others.
Fairness ==
  /\ \A r \in Requests : WF_vars(Serve(r) \/ Add(r))
  /\ \A s \in Stores : WF_vars(WriteSource(s) \/ Add(s))

FairSpec == Spec /\ Fairness

----------------------------------------------------------------------------
PC == {"idle", "request", "headers", "read", "respond", "relay", "copy", "lock", "link",
       "publish", "flush", "find", "get", "done"}

TypeOK ==
  /\ origin \in [Urls -> 1 .. MaxVersions]
  /\ source_cache \in Seq(Entry)
  /\ source_cache_mutex \in Threads \cup {None}
  /\ next \in [Threads -> Seq(Entry)]
  /\ pc \in [Threads -> PC]
  /\ answer \in [Requests -> [script : BOOLEAN, body : BOOLEAN, known : BOOLEAN]]
  /\ characters \in [Threads -> 0 .. MaxVersions]
  /\ started \in [Requests -> {"relayed", "400", "500", "502", "504", None}]
  /\ whole \in [Requests -> BOOLEAN]
  /\ client \in [Requests -> {"nothing", "some", "all"}]
  /\ source \in [Stores -> 0 .. MaxVersions] /\ old \in [Stores -> BOOLEAN]
  /\ running \in BOOLEAN
  /\ faults \in 0 .. MaxFaults

Cached(u, v) == \E i \in DOMAIN source_cache : source_cache[i] = [url |-> u, characters |-> v]

\* The source is added after the script has been written to the client, and
\* still a client never holds a whole script whose source is not cached: the
\* end of it leaves with the flush that follows, and nothing that another
\* thread adds at the same time takes an entry away.  A script that could not be
\* read or decoded is refused: no client holds a whole answer without it.
ServedIsCached == \A r \in Requests : Holds(r) => characters[r] # 0 /\ Cached(UrlOf[r], characters[r])

\* Nobody changes the list of sources but the holder of source_cache_mutex,
\* and entries stay, so that the pointers find_cached_source has returned
\* remain good.
IsSuffix(a, b) == Len(a) <= Len(b) /\ a = SubSeq(b, Len(b) - Len(a) + 1, Len(b))
EntriesStay == [][IsSuffix(source_cache, source_cache')]_source_cache

\* Every request is answered or its connection is closed, and every store gets
\* past the sources of its files, or the process ends on an answer that it cannot
\* take: a script that does not parse, or a status it does not know.
Finishes ==
  \A t \in Threads : (pc[t] # "idle" /\ running) ~> (pc[t] = "done" \/ ~running)
=============================================================================
