----------------------------- MODULE ReportStore -----------------------------
(***************************************************************************)
(* What the coverage store promises its clients, without threads or files: *)
(* a report directory is the set of the stores whose counts it adds up; a  *)
(* store is committed to it in one step, and acknowledged only afterwards. *)
(*                                                                         *)
(* The promise is given per directory and ends there when two handlers     *)
(* update the directory at once or an update of it is cut short.           *)
(***************************************************************************)
CONSTANTS Stores, Dirs

VARIABLES
  contents,   \* what each report directory adds up
  acked,      \* stores of each directory that were answered with 200
  void        \* directories nothing is promised about any more

vars == <<contents, acked, void>>

Init ==
  /\ contents = [d \in Dirs |-> {}]
  /\ acked = [d \in Dirs |-> {}]
  /\ void = {}

Commit(r, d) ==
  /\ d \notin void
  /\ contents' = [contents EXCEPT ![d] = @ \cup {r}]
  /\ UNCHANGED <<acked, void>>

Acknowledge(r, d) ==
  /\ r \in contents[d] \/ d \in void
  /\ acked' = [acked EXCEPT ![d] = @ \cup {r}]
  /\ UNCHANGED <<contents, void>>

\* updates collide or are cut short in some directories
Void(D) ==
  /\ void' = void \cup D
  /\ contents' = [d \in Dirs |-> IF d \in D THEN {} ELSE contents[d]]
  /\ UNCHANGED acked

Next ==
  \/ \E r \in Stores, d \in Dirs : Commit(r, d) \/ Acknowledge(r, d)
  \/ \E D \in SUBSET Dirs : Void(D)

Spec == Init /\ [][Next]_vars
=============================================================================
