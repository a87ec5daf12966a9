----------------------- MODULE ServerLifecycleProofs -----------------------
(***************************************************************************)
(* Theorems about ServerLifecycle for every set of clients, every length   *)
(* of the queue for accept() and every number of failing system calls.     *)
(***************************************************************************)
EXTENDS ServerLifecycle, TLAPS

\* the types the arguments below need
PcType == pc \in [Clients -> ConnPC] /\ backlog \in Seq(Clients \cup {Wake})

\* What a step of a handler thread does to the program counters.
LEMMA GotoProps ==
  ASSUME PcType, NEW c \in Clients, NEW a, NEW b \in ConnPC, Goto(c, a, b)
  PROVE  /\ Running /\ pc[c] = a /\ pc'[c] = b
         /\ pc' \in [Clients -> ConnPC]
         /\ \A d \in Clients \ {c} : pc'[d] = pc[d]
  BY DEF PcType, Goto

\* The places a connection can be in.
LEMMA Places ==
  {"none", "pending", "accepted", "refused", "lost", "start", "handle", "lockset",
   "set", "flush", "lockhack", "hack", "done", "killed"} = ConnPC
  BY DEF ConnPC, ThreadPC

\* Every step keeps the types of the program counters and of the queue.
LEMMA PcTypeStep == PcType /\ [Next]_vars => PcType'
  <1> SUFFICES ASSUME PcType, [Next]_vars PROVE PcType'
    OBVIOUS
  <1> USE DEF state, memory, answers
  <1>1. ASSUME NEW c \in Clients, NEW a, NEW b \in ConnPC, Goto(c, a, b),
               backlog' \in Seq(Clients \cup {Wake})
        PROVE  PcType'
    BY <1>1, GotoProps DEF PcType
  <1>b. backlog \in Seq(Clients \cup {Wake})
    BY DEF PcType
  <1>a. ASSUME NEW x \in Clients \cup {Wake} PROVE Append(backlog, x) \in Seq(Clients \cup {Wake})
    BY <1>b
  <1>2. CASE MainStep
    <2>1. CASE Accept
      <3>1. backlog' \in Seq(Clients \cup {Wake})
        BY <1>b, <2>1 DEF Accept
      <3> QED
        BY <2>1, <3>1, Places DEF Accept, PcType
    <2>2. CASE MainLock \/ MainContinue \/ Cleanup
      BY <2>2 DEF MainLock, MainContinue, Cleanup, PcType
    <2>3. CASE MainBreak \/ Spawn
      BY <2>3, Places DEF MainBreak, Spawn, PcType
    <2>4. CASE DeleteServer
      <3>1. <<>> \in Seq(Clients \cup {Wake})
        OBVIOUS
      <3> QED
        BY <2>4, <3>1, Places DEF DeleteServer, PcType
    <2>5. CASE ExitProcess
      BY <2>5, Places DEF ExitProcess, KillThreads, PcType
    <2> QED
      BY <1>2, <2>1, <2>2, <2>3, <2>4, <2>5 DEF MainStep
  <1>3. CASE SpawnFails
    BY <1>3, Places DEF SpawnFails, PcType
  <1>4. ASSUME NEW c \in Clients, Connect(c) PROVE PcType'
    BY <1>1, <1>4, <1>a, Places DEF Connect
  <1>5. ASSUME NEW c \in Clients, ThreadStep(c) \/ FlushFails(c) \/ HackFails(c) PROVE PcType'
    <2>1. CASE Start(c) \/ Handle(c) \/ LockShutdown(c) \/ SetShutdown(c) \/ Flush(c) \/ LockHack(c)
                 \/ HackTimesOut(c) \/ FlushFails(c) \/ HackFails(c)
      BY <1>1, <1>b, <2>1, Places
         DEF Start, Handle, LockShutdown, SetShutdown, Flush, FlushFails, LockHack, HackTimesOut, HackFails
    <2>2. CASE Hack(c)
      BY <1>1, <1>a, <1>b, <2>2, Places DEF Hack, WakeServer
    <2> QED
      BY <1>5, <2>1, <2>2 DEF ThreadStep
  <1>6. ASSUME NEW c \in Clients, UseFreed(c) PROVE PcType'
    BY <1>6, Places DEF UseFreed, KillThreads, PcType
  <1>7. CASE UNCHANGED vars
    BY <1>7 DEF vars, PcType
  <1> QED
    BY <1>2, <1>3, <1>4, <1>5, <1>6, <1>7 DEF Next

----------------------------------------------------------------------------
\* Who waits for accept() waits there once, and the connection that the main
\* thread looks at has no thread yet.
QueueInv ==
  Running =>
    /\ \A i \in 1 .. Len(backlog) : backlog[i] \in Clients => pc[backlog[i]] = "pending"
    /\ \A i, j \in 1 .. Len(backlog) : backlog[i] = backlog[j] /\ backlog[i] \in Clients => i = j
    /\ main \in {"lock", "check", "spawn"} /\ cur \in Clients => pc[cur] = "accepted"

\* A connection that is neither queued nor just accepted leaves the queue alone.
LEMMA QueueKept ==
  ASSUME PcType, QueueInv, NEW c \in Clients, NEW a, NEW b \in ConnPC, Goto(c, a, b),
         a \notin {"pending", "accepted"}, main' = main, cur' = cur,
         backlog' = backlog \/ backlog' = Append(backlog, Wake)
  PROVE  QueueInv'
  <1>1. Running /\ pc[c] = a /\ \A d \in Clients \ {c} : pc'[d] = pc[d]
    BY GotoProps
  <1>2. \A i \in 1 .. Len(backlog) : backlog[i] \in Clients => pc'[backlog[i]] = "pending"
    BY <1>1 DEF QueueInv
  <1>3. main \in {"lock", "check", "spawn"} /\ cur \in Clients => pc'[cur] = "accepted"
    BY <1>1 DEF QueueInv
  <1>4. \A i, j \in 1 .. Len(backlog) : backlog[i] = backlog[j] /\ backlog[i] \in Clients => i = j
    BY <1>1 DEF QueueInv
  <1>5. CASE backlog' = backlog
    BY <1>2, <1>3, <1>4, <1>5 DEF QueueInv
  <1>6. CASE backlog' = Append(backlog, Wake)
    <2>1. Wake \notin Clients
      BY LifecycleAssumption
    <2>2. /\ Len(backlog') = Len(backlog) + 1 /\ Len(backlog) \in Nat
          /\ backlog'[Len(backlog) + 1] = Wake
          /\ \A i \in 1 .. Len(backlog) : backlog'[i] = backlog[i]
      BY <1>6 DEF PcType
    <2>3. \A i \in 1 .. Len(backlog') : backlog'[i] \in Clients => i \in 1 .. Len(backlog)
      BY <2>1, <2>2
    <2> QED
      BY <1>2, <1>3, <1>4, <2>2, <2>3 DEF QueueInv
  <1> QED
    BY <1>5, <1>6

\* Every step keeps the queue.
LEMMA QueueStep == PcType /\ QueueInv /\ [Next]_vars => QueueInv'
  <1> SUFFICES ASSUME PcType, QueueInv, [Next]_vars PROVE QueueInv'
    OBVIOUS
  <1> USE DEF state, memory, answers
  <1>q. Running =>
          /\ \A i \in 1 .. Len(backlog) : backlog[i] \in Clients => pc[backlog[i]] = "pending"
          /\ \A i, j \in 1 .. Len(backlog) : backlog[i] = backlog[j] /\ backlog[i] \in Clients => i = j
          /\ main \in {"lock", "check", "spawn"} /\ cur \in Clients => pc[cur] = "accepted"
    BY DEF QueueInv
  <1>1. CASE Accept
    <2>1. Running /\ main' = "lock" /\ cur' = Head(backlog) /\ Len(backlog) \in Nat \ {0} /\ cur' = backlog[1]
      BY <1>1 DEF Accept, MainGoto, Running, PcType
    <2>2. \A d \in Clients : pc'[d] = IF d = cur' THEN "accepted" ELSE pc[d]
      BY <1>1 DEF Accept
    <2>3. Len(backlog') = Len(backlog) - 1 /\ \A i \in 1 .. Len(backlog') : i + 1 \in 1 .. Len(backlog) /\ backlog'[i] = backlog[i + 1]
      BY <1>1, <2>1 DEF Accept, PcType
    <2>4. \A i \in 1 .. Len(backlog') : backlog'[i] \in Clients => backlog'[i] # cur'
      <3>1. \A i \in 1 .. Len(backlog') : i + 1 # 1 /\ 1 \in 1 .. Len(backlog)
        BY <2>1, <2>3
      <3> QED
        BY <1>q, <2>1, <2>3, <3>1
    <2>5. \A i \in 1 .. Len(backlog') : backlog'[i] \in Clients => pc'[backlog'[i]] = "pending"
      BY <1>q, <2>1, <2>2, <2>3, <2>4
    <2>6. \A i, j \in 1 .. Len(backlog') : backlog'[i] = backlog'[j] /\ backlog'[i] \in Clients => i = j
      <3> SUFFICES ASSUME NEW i \in 1 .. Len(backlog'), NEW j \in 1 .. Len(backlog'),
                          backlog'[i] = backlog'[j], backlog'[i] \in Clients
                   PROVE  i = j
        OBVIOUS
      <3>1. i + 1 = j + 1
        BY <1>q, <2>1, <2>3
      <3> QED
        BY <3>1
    <2> QED
      BY <2>1, <2>2, <2>5, <2>6 DEF QueueInv
  <1>2. CASE MainLock \/ MainContinue \/ Cleanup
    BY <1>2 DEF MainLock, MainContinue, Cleanup, MainGoto, QueueInv, Running
  <1>3. CASE MainBreak \/ Spawn \/ SpawnFails
    <2>1. Running /\ main \in {"lock", "check", "spawn"} /\ main' \notin {"lock", "check", "spawn"} /\ backlog' = backlog
      BY <1>3 DEF MainBreak, Spawn, SpawnFails, MainGoto, Running
    <2>2. \A d \in Clients : d # cur => pc'[d] = pc[d]
      BY <1>3 DEF MainBreak, Spawn, SpawnFails
    <2>3. \A i \in 1 .. Len(backlog) : backlog[i] \in Clients => backlog[i] # cur
      BY <1>q, <2>1
    <2> QED
      BY <1>q, <2>1, <2>2, <2>3 DEF QueueInv
  <1>4. CASE DeleteServer
    BY <1>4 DEF DeleteServer, MainGoto, QueueInv
  <1>5. CASE ExitProcess
    BY <1>5 DEF ExitProcess, MainGoto, QueueInv, Running
  <1>6. ASSUME NEW c \in Clients, UseFreed(c) PROVE QueueInv'
    BY <1>6 DEF UseFreed, QueueInv, Running
  <1>7. ASSUME NEW c \in Clients, Connect(c) PROVE QueueInv'
    <2>1. Running /\ pc[c] = "none" /\ pc'[c] = "pending" /\ \A d \in Clients \ {c} : pc'[d] = pc[d]
      BY <1>7, GotoProps, Places DEF Connect
    <2>2. /\ Len(backlog') = Len(backlog) + 1 /\ Len(backlog) \in Nat
          /\ backlog'[Len(backlog) + 1] = c
          /\ \A i \in 1 .. Len(backlog) : backlog'[i] = backlog[i]
      BY <1>7 DEF Connect, PcType
    <2>3. \A i \in 1 .. Len(backlog) : backlog[i] # c
      BY <1>q, <2>1
    <2>4. \A i \in 1 .. Len(backlog') : i \in 1 .. Len(backlog) \/ i = Len(backlog) + 1
      BY <2>2
    <2>5. \A i \in 1 .. Len(backlog') : backlog'[i] \in Clients => pc'[backlog'[i]] = "pending"
      BY <1>q, <2>1, <2>2, <2>3, <2>4
    <2>6. \A i, j \in 1 .. Len(backlog') : backlog'[i] = backlog'[j] /\ backlog'[i] \in Clients => i = j
      BY <1>q, <2>1, <2>2, <2>3, <2>4
    <2>7. main' \in {"lock", "check", "spawn"} /\ cur' \in Clients => pc'[cur'] = "accepted"
      BY <1>7, <1>q, <2>1 DEF Connect
    <2> QED
      BY <2>5, <2>6, <2>7 DEF QueueInv
  <1>8. ASSUME NEW c \in Clients, ThreadStep(c) \/ FlushFails(c) \/ HackFails(c) PROVE QueueInv'
    <2>1. CASE Start(c) \/ Handle(c) \/ LockShutdown(c) \/ SetShutdown(c) \/ Flush(c) \/ LockHack(c)
                 \/ HackTimesOut(c) \/ FlushFails(c) \/ HackFails(c)
      BY <2>1, QueueKept, Places
         DEF Start, Handle, LockShutdown, SetShutdown, Flush, FlushFails, LockHack, HackTimesOut, HackFails
    <2>2. CASE Hack(c)
      BY <2>2, QueueKept, Places DEF Hack, WakeServer
    <2> QED
      BY <1>8, <2>1, <2>2 DEF ThreadStep
  <1>9. CASE UNCHANGED vars
    BY <1>9 DEF vars, QueueInv, Running
  <1> QED
    BY <1>1, <1>2, <1>3, <1>4, <1>5, <1>6, <1>7, <1>8, <1>9 DEF Next, MainStep

----------------------------------------------------------------------------
\* A step of one handler that neither enters nor leaves the places where it
\* holds shutdown_mutex.
LEMMA MutexKept ==
  ASSUME PcType, ShutdownMutex, NEW c \in Clients, NEW a, NEW b \in ConnPC, Goto(c, a, b),
         a \notin {"set", "hack"}, b \notin {"set", "hack"},
         main' = main, shutdown_mutex' = shutdown_mutex
  PROVE  ShutdownMutex'
  BY GotoProps DEF ShutdownMutex, Running, LeftLoop

\* A handler takes the mutex when it is free.
LEMMA MutexTaken ==
  ASSUME PcType, ShutdownMutex, NEW c \in Clients, NEW a, NEW b \in ConnPC, Goto(c, a, b),
         b \in {"set", "hack"}, shutdown_mutex = None, main' = main, shutdown_mutex' = c
  PROVE  ShutdownMutex'
  <1>1. Main # None /\ \A d \in Clients : d # Main /\ d # None
    BY LifecycleAssumption
  <1>2. \A d \in Clients : pc[d] \notin {"set", "hack"}
    BY <1>1, GotoProps DEF ShutdownMutex
  <1> QED
    BY <1>1, <1>2, GotoProps DEF ShutdownMutex, Running, LeftLoop

\* A handler gives back the mutex it holds.
LEMMA MutexGiven ==
  ASSUME PcType, ShutdownMutex, NEW c \in Clients, NEW a, NEW b \in ConnPC, Goto(c, a, b),
         a \in {"set", "hack"}, b \notin {"set", "hack"}, main' = main, shutdown_mutex' = None
  PROVE  ShutdownMutex'
  <1>1. Main # None /\ \A d \in Clients : d # Main /\ d # None
    BY LifecycleAssumption
  <1>2. shutdown_mutex = c
    BY GotoProps DEF ShutdownMutex
  <1> QED
    BY <1>1, <1>2, GotoProps DEF ShutdownMutex, Running, LeftLoop

\* Every step keeps the discipline of shutdown_mutex.
LEMMA MutexStep == PcType /\ QueueInv /\ ShutdownMutex /\ [Next]_vars => ShutdownMutex'
  <1> SUFFICES ASSUME PcType, QueueInv, ShutdownMutex, [Next]_vars PROVE ShutdownMutex'
    OBVIOUS
  <1> USE DEF state, memory, answers
  <1>n. Main # None /\ \A c \in Clients : c # Main /\ c # None
    BY LifecycleAssumption
  <1>1. ASSUME Running, shutdown_mutex' = shutdown_mutex,
               \A c \in Clients : pc'[c] \in {"set", "hack"} <=> pc[c] \in {"set", "hack"},
               main' = "check" \/ LeftLoop' => main = "check" \/ LeftLoop,
               main' \in {"accept", "lock", "spawn"} => main \in {"accept", "lock", "spawn"}
        PROVE  ShutdownMutex'
    BY <1>1 DEF ShutdownMutex
  <1>2. CASE Accept
    <2>1. Head(backlog) \in Clients => pc[Head(backlog)] = "pending"
      BY <1>2 DEF Accept, MainGoto, QueueInv, PcType, Running
    <2>2. \A c \in Clients : pc'[c] \in {"set", "hack"} <=> pc[c] \in {"set", "hack"}
      BY <1>2, <2>1 DEF Accept
    <2> QED
      BY <1>1, <1>2, <2>2 DEF Accept, MainGoto, Running, LeftLoop
  <1>3. CASE MainLock
    <2>1. \A c \in Clients : pc[c] \notin {"set", "hack"}
      BY <1>3, <1>n DEF MainLock, MainGoto, ShutdownMutex, Running
    <2> QED
      BY <1>3, <1>n, <2>1 DEF MainLock, MainGoto, ShutdownMutex, Running, LeftLoop
  <1>4. CASE MainContinue
    <2>1. \A c \in Clients : pc[c] \notin {"set", "hack"}
      BY <1>4, <1>n DEF MainContinue, MainGoto, ShutdownMutex, Running
    <2> QED
      BY <1>4, <1>n, <2>1 DEF MainContinue, MainGoto, ShutdownMutex, Running, LeftLoop
  <1>5. CASE MainBreak \/ Spawn \/ SpawnFails
    <2>1. Running /\ main \in {"check", "spawn"} /\ (cur \in Clients => pc[cur] = "accepted")
      BY <1>5 DEF MainBreak, Spawn, SpawnFails, MainGoto, Running, QueueInv
    <2>2. \A c \in Clients : pc'[c] \in {"set", "hack"} <=> pc[c] \in {"set", "hack"}
      BY <1>5, <2>1 DEF MainBreak, Spawn, SpawnFails
    <2> QED
      BY <1>1, <1>5, <2>1, <2>2 DEF MainBreak, Spawn, SpawnFails, MainGoto, LeftLoop
  <1>6. CASE DeleteServer \/ Cleanup
    BY <1>1, <1>6 DEF DeleteServer, Cleanup, MainGoto, Running, LeftLoop
  <1>7. CASE ExitProcess
    BY <1>7 DEF ExitProcess, MainGoto, ShutdownMutex, Running, LeftLoop
  <1>8. ASSUME NEW c \in Clients, UseFreed(c) PROVE ShutdownMutex'
    BY <1>8 DEF UseFreed, ShutdownMutex, Running, LeftLoop
  <1>9. ASSUME NEW c \in Clients, Connect(c) \/ Start(c) \/ Handle(c) \/ Flush(c) \/ FlushFails(c)
        PROVE  ShutdownMutex'
    BY <1>9, MutexKept, Places DEF Connect, Start, Handle, Flush, FlushFails
  <1>10. ASSUME NEW c \in Clients, LockShutdown(c) \/ LockHack(c) PROVE ShutdownMutex'
    BY <1>10, MutexTaken, Places DEF LockShutdown, LockHack
  <1>11. ASSUME NEW c \in Clients, SetShutdown(c) \/ Hack(c) \/ HackTimesOut(c) \/ HackFails(c)
         PROVE  ShutdownMutex'
    BY <1>11, MutexGiven, Places DEF SetShutdown, Hack, HackTimesOut, HackFails
  <1>12. CASE UNCHANGED vars
    BY <1>12 DEF vars, ShutdownMutex, Running, LeftLoop
  <1> QED
    BY <1>2, <1>3, <1>4, <1>5, <1>6, <1>7, <1>8, <1>9, <1>10, <1>11, <1>12 DEF Next, MainStep, ThreadStep

\* The initial state.
LEMMA LifecycleInit == Init => PcType /\ QueueInv /\ ShutdownMutex
  <1> SUFFICES ASSUME Init PROVE PcType /\ QueueInv /\ ShutdownMutex
    OBVIOUS
  <1>1. <<>> \in Seq(Clients \cup {Wake}) /\ Len(<<>>) = 0
    OBVIOUS
  <1>2. PcType
    BY <1>1, Places DEF Init, PcType
  <1>3. QueueInv
    BY <1>1 DEF Init, QueueInv
  <1>4. ShutdownMutex
    BY LifecycleAssumption DEF Init, ShutdownMutex, LeftLoop
  <1> QED
    BY <1>2, <1>3, <1>4

\* In every run shutdown_mutex is held by a handler exactly while it sets or
\* reads the flag, and by the main thread while it reads it and for good once
\* it has left its loop, with any number of connections and failing calls.
THEOREM ShutdownMutexCorrect == Spec => []ShutdownMutex
  <1>1. PcType /\ QueueInv /\ ShutdownMutex /\ [Next]_vars => (PcType /\ QueueInv /\ ShutdownMutex)'
    BY PcTypeStep, QueueStep, MutexStep
  <1> QED
    BY <1>1, LifecycleInit, PTL DEF Spec

----------------------------------------------------------------------------
\* Where the waking connection can be, and what is known there: the flag is set
\* before it is made, and is never reset.
WakeInv ==
  /\ (\E i \in 1 .. Len(backlog) : backlog[i] = Wake) => is_shutdown
  /\ main \in {"lock", "check"} /\ cur = Wake => is_shutdown
  /\ main = "spawn" => cur # Wake

\* Every step keeps it.
LEMMA WakeStep == PcType /\ WakeInv /\ [Next]_vars => WakeInv'
  <1> SUFFICES ASSUME PcType, WakeInv, [Next]_vars PROVE WakeInv'
    OBVIOUS
  <1> USE DEF state, memory, answers
  <1>w. \A c \in Clients : c # Wake
    BY LifecycleAssumption
  <1>1. ASSUME is_shutdown => is_shutdown', main' = main, cur' = cur, backlog' = backlog PROVE WakeInv'
    BY <1>1 DEF WakeInv
  <1>2. ASSUME NEW x \in Clients \cup {Wake}, backlog' = Append(backlog, x), x = Wake => is_shutdown,
               is_shutdown' = is_shutdown, main' = main, cur' = cur
        PROVE  WakeInv'
    <2>1. /\ Len(backlog') = Len(backlog) + 1 /\ Len(backlog) \in Nat
          /\ backlog'[Len(backlog) + 1] = x
          /\ \A i \in 1 .. Len(backlog) : backlog'[i] = backlog[i]
      BY <1>2 DEF PcType
    <2>2. \A i \in 1 .. Len(backlog') : i \in 1 .. Len(backlog) \/ i = Len(backlog) + 1
      BY <2>1
    <2>3. (\E i \in 1 .. Len(backlog') : backlog'[i] = Wake) => is_shutdown
      BY <1>2, <2>1, <2>2 DEF WakeInv
    <2> QED
      BY <1>2, <2>3 DEF WakeInv
  <1>3. CASE Accept
    <2>1. Len(backlog) \in Nat \ {0} /\ cur' = backlog[1] /\ main' = "lock" /\ is_shutdown' = is_shutdown
      BY <1>3 DEF Accept, MainGoto, PcType
    <2>2. \A i \in 1 .. Len(backlog') : i + 1 \in 1 .. Len(backlog) /\ backlog'[i] = backlog[i + 1]
      BY <1>3, <2>1 DEF Accept, PcType
    <2>3. 1 \in 1 .. Len(backlog)
      BY <2>1
    <2> QED
      BY <2>1, <2>2, <2>3 DEF WakeInv
  <1>4. CASE MainLock \/ MainContinue \/ MainBreak \/ Spawn \/ SpawnFails \/ Cleanup
    BY <1>4 DEF MainLock, MainContinue, MainBreak, Spawn, SpawnFails, Cleanup, MainGoto, WakeInv
  <1>5. CASE DeleteServer \/ ExitProcess
    BY <1>5 DEF DeleteServer, ExitProcess, MainGoto, WakeInv
  <1>6. ASSUME NEW c \in Clients, UseFreed(c) PROVE WakeInv'
    BY <1>6 DEF UseFreed, WakeInv
  <1>7. ASSUME NEW c \in Clients, Connect(c) PROVE WakeInv'
    BY <1>2, <1>7, <1>w DEF Connect
  <1>8. ASSUME NEW c \in Clients, Hack(c) PROVE WakeInv'
    BY <1>1, <1>2, <1>8 DEF Hack, WakeServer
  <1>9. ASSUME NEW c \in Clients,
               Start(c) \/ Handle(c) \/ LockShutdown(c) \/ SetShutdown(c) \/ Flush(c) \/ LockHack(c)
                 \/ HackTimesOut(c) \/ FlushFails(c) \/ HackFails(c)
        PROVE  WakeInv'
    BY <1>1, <1>9 DEF Start, Handle, LockShutdown, SetShutdown, Flush, FlushFails, LockHack, HackTimesOut, HackFails
  <1>10. CASE UNCHANGED vars
    BY <1>1, <1>10 DEF vars
  <1> QED
    BY <1>3, <1>4, <1>5, <1>6, <1>7, <1>8, <1>9, <1>10 DEF Next, MainStep, ThreadStep

\* In every run the connection the server makes to itself is never handed to a
\* handler thread, which would wait for a request that nobody sends.
THEOREM WakeCorrect == Spec => []WakeNeverServed
  <1>1. Init => WakeInv
    BY DEF Init, WakeInv
  <1>2. PcType /\ WakeInv /\ [Next]_vars => (PcType /\ WakeInv)'
    BY PcTypeStep, WakeStep
  <1>3. WakeInv => WakeNeverServed
    BY DEF WakeInv, WakeNeverServed
  <1> QED
    BY <1>1, <1>2, <1>3, LifecycleInit, PTL DEF Spec

----------------------------------------------------------------------------
\* A handler that may have set the flag is past LockShutdown, and one that has
\* connected to the server is done.
Past == {"flush", "lockhack", "hack", "done", "killed"}

\* Who has closed its connection has answered, or failed to; behind the flag there is a
\* handler that set it, and behind the waking connection one that is done; the
\* main thread has left its loop at that connection or at a client it refused.
AnswerInv ==
  /\ \A c \in Clients : pc[c] \in {"lockhack", "hack", "done"} => c \in answered \cup broken
  /\ is_shutdown => \E c \in Clients : pc[c] \in Past
  /\ (cur = Wake \/ \E i \in 1 .. Len(backlog) : backlog[i] = Wake)
       => \E c \in Clients : pc[c] = "done"
  /\ main \in {"lock", "check", "spawn"} => cur \in Clients \cup {Wake}
  /\ LeftLoop => is_shutdown /\ (cur = Wake \/ (cur \in Clients /\ pc[cur] = "refused"))

\* A step of the main thread: it moves no handler, and what it ends was not
\* done.
LEMMA AnswerMain ==
  ASSUME AnswerInv, answers' = answers, is_shutdown' = is_shutdown,
         \A c \in Clients : pc[c] \in Past => pc'[c] \in Past,
         \A c \in Clients : pc[c] = "done" => pc'[c] = "done",
         \A c \in Clients : pc'[c] \in {"lockhack", "hack", "done"} => pc'[c] = pc[c],
         (cur' = Wake \/ \E i \in 1 .. Len(backlog') : backlog'[i] = Wake)
           => (cur = Wake \/ \E i \in 1 .. Len(backlog) : backlog[i] = Wake),
         main' \in {"lock", "check", "spawn"} => cur' \in Clients \cup {Wake},
         LeftLoop' => is_shutdown /\ (cur' = Wake \/ (cur' \in Clients /\ pc'[cur'] = "refused"))
  PROVE  AnswerInv'
  BY DEF AnswerInv, answers

\* A step of a handler that leaves the flag and the queue alone.
LEMMA AnswerGoto ==
  ASSUME PcType, AnswerInv, NEW c \in Clients, NEW a, NEW b \in ConnPC, Goto(c, a, b),
         a # "refused", a \in Past => b \in Past, a # "done",
         b \in {"lockhack", "hack", "done"} => c \in answered' \cup broken',
         answered \subseteq answered', broken \subseteq broken', is_shutdown' = is_shutdown, main' = main, cur' = cur,
         backlog' = backlog \/ (backlog' = Append(backlog, c) /\ c # Wake)
           \/ (backlog' = Append(backlog, Wake) /\ b = "done")
  PROVE  AnswerInv'
  <1>1. pc[c] = a /\ pc'[c] = b /\ \A d \in Clients \ {c} : pc'[d] = pc[d]
    BY GotoProps
  <1>2. \A d \in Clients : pc'[d] \in {"lockhack", "hack", "done"} => d \in answered' \cup broken'
    BY <1>1 DEF AnswerInv
  <1>3. is_shutdown' => \E d \in Clients : pc'[d] \in Past
    BY <1>1 DEF AnswerInv
  <1>4. (cur' = Wake \/ \E i \in 1 .. Len(backlog') : backlog'[i] = Wake)
           => \E d \in Clients : pc'[d] = "done"
    <2>1. (cur = Wake \/ \E i \in 1 .. Len(backlog) : backlog[i] = Wake)
             => \E d \in Clients : pc'[d] = "done"
      BY <1>1 DEF AnswerInv
    <2>2. CASE backlog' = backlog
      BY <2>1, <2>2
    <2>3. CASE backlog' = Append(backlog, c) /\ c # Wake
      <3>1. /\ Len(backlog') = Len(backlog) + 1 /\ Len(backlog) \in Nat
            /\ backlog'[Len(backlog) + 1] = c
            /\ \A i \in 1 .. Len(backlog) : backlog'[i] = backlog[i]
        BY <2>3 DEF PcType
      <3>2. \A i \in 1 .. Len(backlog') : i \in 1 .. Len(backlog) \/ i = Len(backlog) + 1
        BY <3>1
      <3> QED
        BY <2>1, <2>3, <3>1, <3>2
    <2>4. CASE b = "done"
      BY <1>1, <2>4
    <2> QED
      BY <2>2, <2>3, <2>4
  <1>5. main' \in {"lock", "check", "spawn"} => cur' \in Clients \cup {Wake}
    BY DEF AnswerInv
  <1>6. LeftLoop' => is_shutdown' /\ (cur' = Wake \/ (cur' \in Clients /\ pc'[cur'] = "refused"))
    BY <1>1 DEF AnswerInv, LeftLoop
  <1> QED
    BY <1>2, <1>3, <1>4, <1>5, <1>6 DEF AnswerInv

\* Every step keeps it.
LEMMA AnswerStep == PcType /\ QueueInv /\ AnswerInv /\ [Next]_vars => AnswerInv'
  <1> SUFFICES ASSUME PcType, QueueInv, AnswerInv, [Next]_vars PROVE AnswerInv'
    OBVIOUS
  <1> USE DEF state, memory, answers
  <1>w. \A c \in Clients : c # Wake
    BY LifecycleAssumption
  <1>k. ASSUME KillThreads
        PROVE  /\ \A c \in Clients : pc[c] \in Past => pc'[c] \in Past
               /\ \A c \in Clients : pc[c] \in {"done", "refused"} => pc'[c] = pc[c]
               /\ \A c \in Clients : pc'[c] \in {"lockhack", "hack", "done"} => pc'[c] = pc[c]
    BY <1>k DEF KillThreads, Past, ThreadPC
  <1>1. CASE Accept
    <2>1. /\ Len(backlog) \in Nat \ {0} /\ cur' = backlog[1] /\ main = "accept" /\ main' = "lock"
          /\ is_shutdown' = is_shutdown /\ answers' = answers
      BY <1>1 DEF Accept, MainGoto, PcType
    <2>2. \A i \in 1 .. Len(backlog') : i + 1 \in 1 .. Len(backlog) /\ backlog'[i] = backlog[i + 1]
      BY <1>1, <2>1 DEF Accept, PcType
    <2>3. 1 \in 1 .. Len(backlog) /\ cur' \in Clients \cup {Wake}
      BY <2>1 DEF PcType
    <2>4. cur' \in Clients => pc[cur'] = "pending"
      BY <2>1, <2>3 DEF QueueInv, Running
    <2>5. \A c \in Clients : pc'[c] = IF c = cur' THEN "accepted" ELSE pc[c]
      BY <1>1 DEF Accept
    <2>6. (cur' = Wake \/ \E i \in 1 .. Len(backlog') : backlog'[i] = Wake)
             => (cur = Wake \/ \E i \in 1 .. Len(backlog) : backlog[i] = Wake)
      BY <2>1, <2>2, <2>3
    <2>7. ~ LeftLoop'
      BY <2>1 DEF LeftLoop
    <2> QED
      BY <2>1, <2>3, <2>4, <2>5, <2>6, <2>7, AnswerMain DEF Past
  <1>2. CASE MainLock \/ MainContinue \/ Cleanup
    BY <1>2, AnswerMain DEF MainLock, MainContinue, Cleanup, MainGoto, LeftLoop, AnswerInv
  <1>3. CASE MainBreak
    <2>1. cur \in Clients \cup {Wake} /\ (cur \in Clients => pc[cur] = "accepted") /\ is_shutdown
      BY <1>3 DEF MainBreak, MainGoto, AnswerInv, QueueInv, Running
    <2>2. /\ \A c \in Clients : pc'[c] = IF c = cur THEN "refused" ELSE pc[c]
          /\ main' = "delete" /\ cur' = cur /\ backlog' = backlog
          /\ is_shutdown' = is_shutdown /\ answers' = answers
      BY <1>3 DEF MainBreak, MainGoto
    <2> QED
      BY <2>1, <2>2, AnswerMain DEF Past
  <1>4. CASE Spawn \/ SpawnFails
    <2>1. cur \in Clients => pc[cur] = "accepted"
      BY <1>4 DEF Spawn, SpawnFails, MainGoto, QueueInv, Running
    <2>2. /\ \A c \in Clients : pc'[c] = IF c = cur THEN pc'[c] ELSE pc[c]
          /\ cur \in Clients => pc'[cur] \in {"start", "lost"}
          /\ main' = "accept" /\ cur' = cur /\ backlog' = backlog
          /\ is_shutdown' = is_shutdown /\ answers' = answers
      BY <1>4 DEF Spawn, SpawnFails, MainGoto
    <2> QED
      BY <2>1, <2>2, AnswerMain DEF Past, LeftLoop
  <1>5. CASE DeleteServer
    <2>1. /\ \A c \in Clients : pc'[c] = IF pc[c] = "pending" THEN "refused" ELSE pc[c]
          /\ main = "delete" /\ main' = "cleanup" /\ cur' = cur /\ backlog' = <<>>
          /\ is_shutdown' = is_shutdown /\ answers' = answers
      BY <1>5 DEF DeleteServer, MainGoto
    <2>2. \A i \in 1 .. Len(backlog') : FALSE
      BY <2>1
    <2>3. is_shutdown /\ (cur = Wake \/ (cur \in Clients /\ pc[cur] = "refused"))
      BY <2>1 DEF AnswerInv, LeftLoop
    <2> QED
      BY <2>1, <2>2, <2>3, AnswerMain DEF Past
  <1>6. CASE ExitProcess
    <2>1. is_shutdown /\ (cur = Wake \/ (cur \in Clients /\ pc[cur] = "refused"))
      BY <1>6 DEF ExitProcess, MainGoto, AnswerInv, LeftLoop
    <2>2. /\ main' = "exited" /\ cur' = cur /\ backlog' = backlog
          /\ is_shutdown' = is_shutdown /\ answers' = answers
      BY <1>6 DEF ExitProcess, MainGoto
    <2> QED
      BY <1>6, <1>k, <2>1, <2>2, AnswerMain DEF ExitProcess
  <1>7. ASSUME NEW c \in Clients, UseFreed(c) PROVE AnswerInv'
    <2>1. /\ main' = "aborted" /\ cur' = cur /\ backlog' = backlog
          /\ is_shutdown' = is_shutdown /\ answers' = answers
      BY <1>7 DEF UseFreed
    <2> QED
      BY <1>7, <1>k, <2>1, AnswerMain DEF UseFreed, LeftLoop
  <1>8. ASSUME NEW c \in Clients,
               Connect(c) \/ Start(c) \/ Handle(c) \/ LockShutdown(c)
        PROVE  AnswerInv'
    BY <1>8, <1>w, AnswerGoto, Places
       DEF Connect, Start, Handle, LockShutdown, Past
  <1>9. ASSUME NEW c \in Clients, SetShutdown(c) PROVE AnswerInv'
    <2>1. pc[c] = "set" /\ pc'[c] = "flush" /\ \A d \in Clients \ {c} : pc'[d] = pc[d]
      BY <1>9, GotoProps, Places DEF SetShutdown
    <2>2. is_shutdown' /\ main' = main /\ cur' = cur /\ backlog' = backlog /\ answers' = answers
      BY <1>9 DEF SetShutdown
    <2> QED
      BY <2>1, <2>2 DEF AnswerInv, Past, LeftLoop
  <1>10. ASSUME NEW c \in Clients, Flush(c) \/ FlushFails(c) PROVE AnswerInv'
    BY <1>10, AnswerGoto, Places DEF Flush, FlushFails, Past
  <1>11. ASSUME NEW c \in Clients, LockHack(c) \/ Hack(c) \/ HackTimesOut(c) \/ HackFails(c)
         PROVE  AnswerInv'
    <2>1. c \in answered \cup broken
      <3>1. pc[c] \in {"lockhack", "hack"}
        BY <1>11 DEF LockHack, Hack, HackTimesOut, HackFails, Goto
      <3> QED
        BY <3>1 DEF AnswerInv
    <2>2. CASE LockHack(c) \/ HackTimesOut(c) \/ HackFails(c)
      BY <2>1, <2>2, AnswerGoto, Places DEF LockHack, HackTimesOut, HackFails, Past
    <2>3. CASE Hack(c)
      BY <2>1, <2>3, AnswerGoto, Places DEF Hack, WakeServer, Past
    <2> QED
      BY <1>11, <2>2, <2>3
  <1>12. CASE UNCHANGED vars
    BY <1>12, AnswerMain DEF vars, LeftLoop, AnswerInv
  <1> QED
    BY <1>1, <1>2, <1>3, <1>4, <1>5, <1>6, <1>7, <1>8, <1>9, <1>10, <1>11, <1>12
       DEF Next, MainStep, ThreadStep

\* In every run the answer of the client that asked for the shutdown has been
\* written, or could not be, before the server stops, unless the connection of
\* another client cuts in: nothing but its own thread, when it has done with its
\* answer, makes accept() return.
THEOREM AnswerCorrect == Spec => []RequesterAnswered
  <1>1. Init => AnswerInv
    <2> SUFFICES ASSUME Init PROVE AnswerInv
      OBVIOUS
    <2>1. cur = None /\ None # Wake /\ \A i \in 1 .. Len(backlog) : FALSE
      BY LifecycleAssumption DEF Init
    <2> QED
      BY <2>1 DEF Init, AnswerInv, LeftLoop
  <1>2. PcType /\ QueueInv /\ AnswerInv /\ [Next]_vars => (PcType /\ QueueInv /\ AnswerInv)'
    BY PcTypeStep, QueueStep, AnswerStep
  <1>3. AnswerInv => RequesterAnswered
    <2> SUFFICES ASSUME AnswerInv, NEW c \in Stopping, LeftLoop,
                        \A d \in Clients \ {c} : pc[d] \in {"none", "pending"}
                 PROVE  c \in answered \cup broken
      BY DEF RequesterAnswered
    <2>1. c \in Clients
      BY LifecycleAssumption
    <2>2. PICK s \in Clients : pc[s] \in Past
      BY DEF AnswerInv
    <2>3. pc[c] # "refused"
      BY <2>2 DEF Past
    <2>4. cur = Wake
      BY <2>3 DEF AnswerInv
    <2>5. pc[c] = "done"
      BY <2>4 DEF AnswerInv
    <2> QED
      BY <2>1, <2>5 DEF AnswerInv
  <1> QED
    BY <1>1, <1>2, <1>3, LifecycleInit, PTL DEF Spec
============================================================================
