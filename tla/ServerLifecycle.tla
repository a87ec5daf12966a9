-------------------------- MODULE ServerLifecycle --------------------------
(***************************************************************************)
(* HTTPServer_run, handle_connection and HTTPServer_shutdown               *)
(* (http-server.c), with the end of main (jscoverage-server.c): one thread *)
(* accepts connections and starts a detached thread for each; a shutdown   *)
(* sets a flag, and the thread that finds it set when its own connection   *)
(* is closed connects to the server to make accept() return.               *)
(* What a handler does is abstracted to reading its request, answering it  *)
(* and, for a shutdown request, calling HTTPServer_shutdown in between.    *)
(***************************************************************************)
EXTENDS Naturals, Sequences

CONSTANTS
  Clients,      \* connections clients make (a client that makes two is two)
  Stopping,     \* clients that POST /jscoverage-shutdown from 127.0.0.1
  Silent,       \* clients that never send their request
  Reachable,    \* the listening address answers connections to 127.0.0.1
  Backlog,      \* connections the kernel queues for accept()
  MaxFaults,    \* bound on failing system calls
  Main,         \* the thread that runs HTTPServer_run
  Wake,         \* a connection the server makes to itself
  None

ASSUME LifecycleAssumption ==
  /\ Stopping \subseteq Clients /\ Silent \subseteq Clients
  /\ Stopping \cap Silent = {}
  /\ {Main, Wake, None} \cap Clients = {}
  /\ Main # Wake /\ Main # None /\ Wake # None
  /\ Reachable \in BOOLEAN
  /\ Backlog \in Nat \ {0} /\ MaxFaults \in Nat

VARIABLES
  main,            \* what the main thread does next
  cur,             \* the connection accept() returned last
  pc,              \* state of each connection and of the thread that handles it
  backlog,         \* connections waiting for accept()
  shutdown_mutex,  \* its holder, or None
  is_shutdown,
  server,          \* the HTTPServer structure and its socket exist
  globals,         \* the JavaScript context and the source cache exist
  answered,        \* clients whose response has been flushed
  broken,          \* clients the flush of whose response has failed
  faults           \* counted against MaxFaults

state == <<shutdown_mutex, is_shutdown>>
memory == <<server, globals>>
answers == <<answered, broken>>
vars == <<main, cur, pc, backlog, state, memory, answers, faults>>

----------------------------------------------------------------------------
MainPC == {"accept", "lock", "check", "spawn", "delete", "cleanup",
           "return", "exited", "aborted"}

Running == main \notin {"exited", "aborted"}

\* past the loop of HTTPServer_run
LeftLoop == main \in {"delete", "cleanup", "return", "exited"}

\* a thread is running for the connection
ThreadPC == {"start", "handle", "lockset", "set", "flush", "lockhack", "hack"}

ConnPC == {"none", "pending", "accepted", "refused", "lost"} \cup ThreadPC
             \cup {"done", "killed"}

Init ==
  /\ main = "accept"
  /\ cur = None
  /\ pc = [c \in Clients |-> "none"]
  /\ backlog = <<>>
  /\ shutdown_mutex = None
  /\ is_shutdown = FALSE
  /\ server = TRUE /\ globals = TRUE
  /\ answered = {} /\ broken = {}
  /\ faults = 0

MainGoto(a, b) == main = a /\ main' = b

Goto(c, a, b) ==
  /\ Running
  /\ pc[c] = a
  /\ pc' = [pc EXCEPT ![c] = b]

Fault == faults < MaxFaults /\ faults' = faults + 1

\* the process is gone, and every thread and connection with it
KillThreads ==
  pc' = [c \in Clients |->
           IF pc[c] \in ThreadPC \cup {"pending", "accepted", "lost"}
           THEN "killed" ELSE pc[c]]

----------------------------------------------------------------------------
Connect(c) ==
  /\ server
  /\ Len(backlog) < Backlog
  /\ Goto(c, "none", "pending")
  /\ backlog' = Append(backlog, c)
  /\ UNCHANGED <<main, cur, state, memory, answers, faults>>

Accept ==
  /\ backlog # <<>>
  /\ MainGoto("accept", "lock")
  /\ cur' = Head(backlog)
  /\ backlog' = Tail(backlog)
  /\ pc' = [c \in Clients |-> IF c = Head(backlog) THEN "accepted" ELSE pc[c]]
  /\ UNCHANGED <<state, memory, answers, faults>>

MainLock ==
  /\ shutdown_mutex = None
  /\ MainGoto("lock", "check")
  /\ shutdown_mutex' = Main
  /\ UNCHANGED <<cur, pc, backlog, is_shutdown, memory, answers, faults>>

\* mutant: the mutex is not released before the thread is started
MainContinue_KeepsLock ==
  /\ ~ is_shutdown
  /\ MainGoto("check", "spawn")
  /\ UNCHANGED <<cur, pc, backlog, state, memory, answers, faults>>

MainContinue ==
  /\ ~ is_shutdown
  /\ MainGoto("check", "spawn")
  /\ shutdown_mutex' = None
  /\ UNCHANGED <<cur, pc, backlog, is_shutdown, memory, answers, faults>>

\* closesocket(s) and break: the mutex stays locked
MainBreak ==
  /\ is_shutdown
  /\ MainGoto("check", "delete")
  /\ pc' = [c \in Clients |-> IF c = cur THEN "refused" ELSE pc[c]]
  /\ UNCHANGED <<cur, backlog, state, memory, answers, faults>>

Spawn ==
  /\ MainGoto("spawn", "accept")
  /\ pc' = [c \in Clients |-> IF c = cur THEN "start" ELSE pc[c]]
  /\ UNCHANGED <<cur, backlog, state, memory, answers, faults>>

\* the result of pthread_create is not looked at
SpawnFails ==
  /\ MainGoto("spawn", "accept")
  /\ Fault
  /\ pc' = [c \in Clients |-> IF c = cur THEN "lost" ELSE pc[c]]
  /\ UNCHANGED <<cur, backlog, state, memory, answers>>

\* HTTPServer_delete: the socket is closed, what it had queued is reset
DeleteServer ==
  /\ MainGoto("delete", "cleanup")
  /\ server' = FALSE
  /\ backlog' = <<>>
  /\ pc' = [c \in Clients |-> IF pc[c] = "pending" THEN "refused" ELSE pc[c]]
  /\ UNCHANGED <<cur, state, globals, answers, faults>>

\* jscoverage_cleanup and the freeing of source_cache
Cleanup ==
  /\ MainGoto("cleanup", "return")
  /\ globals' = FALSE
  /\ UNCHANGED <<cur, pc, backlog, state, server, answers, faults>>

\* main returns: the detached threads are not waited for
ExitProcess ==
  /\ MainGoto("return", "exited")
  /\ KillThreads
  /\ UNCHANGED <<cur, backlog, state, memory, answers, faults>>

----------------------------------------------------------------------------
\* handle_connection: reads connection->server->port, then the handler field
Start(c) ==
  /\ Goto(c, "start", "handle")
  /\ UNCHANGED <<main, cur, backlog, state, memory, answers, faults>>

\* the request has been read and answered into the buffer of the exchange
Handle(c) ==
  /\ c \notin Silent
  /\ Goto(c, "handle", IF c \in Stopping THEN "lockset" ELSE "flush")
  /\ UNCHANGED <<main, cur, backlog, state, memory, answers, faults>>

\* HTTPServer_shutdown
LockShutdown(c) ==
  /\ shutdown_mutex = None
  /\ Goto(c, "lockset", "set")
  /\ shutdown_mutex' = c
  /\ UNCHANGED <<main, cur, backlog, is_shutdown, memory, answers, faults>>

\* mutant: accept() is woken as soon as the flag is set
SetShutdown_Wakes(c) ==
  /\ Goto(c, "set", "flush")
  /\ is_shutdown' = TRUE
  /\ shutdown_mutex' = None
  /\ backlog' = IF server /\ Len(backlog) < Backlog THEN Append(backlog, Wake) ELSE backlog
  /\ UNCHANGED <<main, cur, memory, answers, faults>>

SetShutdown(c) ==
  /\ Goto(c, "set", "flush")
  /\ is_shutdown' = TRUE
  /\ shutdown_mutex' = None
  /\ UNCHANGED <<main, cur, backlog, memory, answers, faults>>

\* HTTPExchange_flush_response, and the connection is closed
Flush(c) ==
  /\ Goto(c, "flush", "lockhack")
  /\ answered' = answered \cup {c}
  /\ UNCHANGED <<main, cur, backlog, state, memory, broken, faults>>

\* the client cannot be written to: a warning is logged, and the thread goes on
FlushFails(c) ==
  /\ Goto(c, "flush", "lockhack")
  /\ broken' = broken \cup {c}
  /\ Fault
  /\ UNCHANGED <<main, cur, backlog, state, memory, answered>>

LockHack(c) ==
  /\ shutdown_mutex = None
  /\ Goto(c, "lockhack", "hack")
  /\ shutdown_mutex' = c
  /\ UNCHANGED <<main, cur, backlog, is_shutdown, memory, answers, faults>>

\* mutant: a thread connects whether or not the server is shutting down
WakeServer_Always ==
  IF server /\ Reachable
  THEN /\ Len(backlog) < Backlog
       /\ backlog' = Append(backlog, Wake)
  ELSE backlog' = backlog

\* mutant: nobody wakes accept()
WakeServer_Never == backlog' = backlog

\* connect() to the listening socket is held up while its queue is full
WakeServer ==
  IF is_shutdown /\ server /\ Reachable
  THEN /\ Len(backlog) < Backlog
       /\ backlog' = Append(backlog, Wake)
  ELSE backlog' = backlog

Hack(c) ==
  /\ Goto(c, "hack", "done")
  /\ WakeServer
  /\ shutdown_mutex' = None
  /\ UNCHANGED <<main, cur, is_shutdown, memory, answers, faults>>

\* connect() gives up on a queue that stays full: the main thread may be
\* waiting for the very mutex this thread holds, with the queue filled up again
\* behind the connection it has just accepted
HackTimesOut(c) ==
  /\ is_shutdown /\ server /\ Reachable
  /\ Len(backlog) = Backlog
  /\ Goto(c, "hack", "done")
  /\ shutdown_mutex' = None
  /\ UNCHANGED <<main, cur, backlog, is_shutdown, memory, answers, faults>>

\* mutant: the failing path returns before UNLOCK
HackFails_Leaks(c) ==
  /\ is_shutdown
  /\ Goto(c, "hack", "done")
  /\ Fault
  /\ UNCHANGED <<main, cur, backlog, state, memory, answers>>

\* socket() or connect() fails: a warning is logged
HackFails(c) ==
  /\ is_shutdown
  /\ Goto(c, "hack", "done")
  /\ Fault
  /\ shutdown_mutex' = None
  /\ UNCHANGED <<main, cur, backlog, is_shutdown, memory, answers>>

\* a thread that has yet to read the server structure, or whose handler uses
\* the JavaScript context or the source cache, after main has freed them:
\* undefined, up to the end of the process
UseFreed(c) ==
  /\ Running
  /\ \/ ~ server /\ pc[c] = "start"
     \/ ~ globals /\ pc[c] = "handle"
  /\ main' = "aborted"
  /\ KillThreads
  /\ UNCHANGED <<cur, backlog, state, memory, answers, faults>>

----------------------------------------------------------------------------
MainStep ==
  Accept \/ MainLock \/ MainContinue \/ MainBreak \/ Spawn \/ DeleteServer
    \/ Cleanup \/ ExitProcess

ThreadStep(c) ==
  \/ Start(c) \/ Handle(c) \/ LockShutdown(c) \/ SetShutdown(c)
  \/ Flush(c) \/ LockHack(c) \/ Hack(c) \/ HackTimesOut(c)

Next ==
  \/ MainStep
  \/ SpawnFails
  \/ \E c \in Clients :
       Connect(c) \/ ThreadStep(c) \/ FlushFails(c) \/ HackFails(c) \/ UseFreed(c)

Spec == Init /\ [][Next]_vars

\* The threads run, a client that is not Silent sends its request, and every
\* client takes the short answer it is sent.  The mutex is not fair (a strong
\* assumption on taking it is not needed: each thread takes it at most twice).
Fairness == WF_vars(MainStep) /\ \A c \in Clients : WF_vars(ThreadStep(c))

FairSpec == Spec /\ Fairness

----------------------------------------------------------------------------
(* Properties *)

\* Every variable keeps its type.
TypeOK ==
  /\ main \in MainPC
  /\ cur \in Clients \cup {Wake, None}
  /\ pc \in [Clients -> ConnPC]
  /\ backlog \in Seq(Clients \cup {Wake})
  /\ Len(backlog) <= Backlog
  /\ shutdown_mutex \in Clients \cup {Main, None}
  /\ is_shutdown \in BOOLEAN /\ server \in BOOLEAN /\ globals \in BOOLEAN
  /\ answered \subseteq Clients /\ broken \subseteq Clients
  /\ faults \in 0 .. MaxFaults

\* A handler holds shutdown_mutex exactly while it sets or reads the flag and
\* connects; the main thread holds it while it reads the flag and, because the
\* loop is left without an UNLOCK, for the rest of the process.
ShutdownMutex ==
  /\ \A c \in Clients : Running => ((shutdown_mutex = c) <=> pc[c] \in {"set", "hack"})
  /\ (main = "check" \/ LeftLoop) => shutdown_mutex = Main
  /\ shutdown_mutex = Main => main \notin {"accept", "lock", "spawn"}

\* The connection the server makes to itself to wake accept() is never given
\* to a handler thread: whoever accepts it sees is_shutdown set.
WakeNeverServed ==
  /\ main = "spawn" => cur # Wake
  /\ (\E i \in 1 .. Len(backlog) : backlog[i] = Wake) => is_shutdown

\* Before the loop is left, the answer of the client that asked for the shutdown
\* has been written, or writing it was tried and has failed - unless another
\* client's connection cut in: the flag is set before the answer is flushed, but
\* accept() is woken only after that.
RequesterAnswered ==
  \A c \in Stopping :
    /\ LeftLoop
    /\ \A d \in Clients \ {c} : pc[d] \in {"none", "pending"}
    => c \in answered \cup broken

\* Once the shutdown flag is set the process ends, however many clients keep
\* their connections open ("The server will now shut down",
\* jscoverage-server.c:710; the connection at http-server.c:92 is made to
\* force accept() to return) - as long as no call fails: a socket() or connect()
\* that fails in the thread that is to wake accept() is only logged.
Stops == [](faults = 0) => (is_shutdown ~> ~ Running)

\* A client that connects and sends its request is answered, unless the server
\* is stopped first or no thread can be had for the client.
Served ==
  [](faults = 0) =>
    \A c \in Clients \ Silent : pc[c] = "pending" ~> (c \in answered \/ is_shutdown)
============================================================================
