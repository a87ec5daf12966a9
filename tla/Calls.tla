------------------------------- MODULE Calls -------------------------------
(***************************************************************************)
(* The state of the parts that only compute: a call, and what came of it.  *)
(***************************************************************************)
VARIABLES
  call,           \* what was called last, and with what
  result          \* what came of it

Idle == [name |-> "none"]
NoCall == call = Idle /\ result = <<>>
Called(name, input, value) == call' = [name |-> name, input |-> input] /\ result' = value
=============================================================================
