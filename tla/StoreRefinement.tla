--------------------------- MODULE StoreRefinement ---------------------------
(***************************************************************************)
(* CoverageStore implements ReportStore.  What a directory adds up is what *)
(* is in every block of its file, or, from the fopen() that empties the    *)
(* file to its fclose(), what the handler that rewrites it has read.       *)
(***************************************************************************)
EXTENDS CoverageStore

Writers(d) == {r \in Stores : dir[r] = d /\ pc[r] \in Writing}

InMemory(r) ==
  {q \in Stores : \A k \in 1 .. Blocks : k \in DOMAIN buf[r] /\ q \in buf[r][k].has}

Contents(d) ==
  IF d \in raced \cup damaged THEN {}
  ELSE IF Quiet(d) THEN {q \in Stores : Contains(d, q)}
  ELSE UNION {InMemory(r) : r \in Writers(d)}

Promise == INSTANCE ReportStore WITH
  contents <- [d \in Dirs |-> Contents(d)],
  acked <- [d \in Dirs |-> {r \in Stores : dir[r] = d /\ pc[r] = "200"}],
  void <- raced \cup damaged

\* The handler threads with their stat(), fopen(), merging, rewriting and
\* copying keep the promise of ReportStore: a store joins its directory at the
\* fclose() of the json file, is answered with 200 only after that, and takes
\* nothing away from what the directory held.
KeepsPromise == Promise!Spec
=============================================================================
