------------------------------- MODULE MCProxy -------------------------------
(* Instances of ProxyCache for TLC. *)
EXTENDS ProxyCache, TLC

CONSTANTS r1, r2, s1, a, b

Script == [script |-> TRUE, body |-> TRUE, known |-> TRUE]
MCAnswers == {Script, [Script EXCEPT !.script = FALSE], [Script EXCEPT !.body = FALSE],
              [Script EXCEPT !.script = FALSE, !.known = FALSE]}

\* two scripts, and a store of the counts of one
MCUrlOf == [t \in {r1, r2, s1} |-> IF t = r2 THEN b ELSE a]
=============================================================================
