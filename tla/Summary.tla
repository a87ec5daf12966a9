------------------------------ MODULE Summary ------------------------------
(***************************************************************************)
(* jscoverage.js: which lines of a file are in the summary.  counts has    *)
(* the lines with statements as its domain; noted[l] is the line behind    *)
(* the conditional that begins at l, or 0.                                 *)
(***************************************************************************)
EXTENDS Integers, Sequences, FiniteSets

\* the end of the conditional that each line is in, or 0
ConditionalEnds(noted, last) ==
  LET f[l \in 0 .. last] ==
        IF l = 0 THEN 0
        ELSE LET current == f[l - 1]
             IN  IF current = 0 THEN noted[l] ELSE IF l = current THEN 0 ELSE current
  IN  f

Considered(counts, noted) ==
  LET ends == ConditionalEnds(noted, Len(noted))
  IN {l \in DOMAIN counts \cap DOMAIN noted : ends[l] = 0}
=============================================================================
