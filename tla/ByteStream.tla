----------------------------- MODULE ByteStream -----------------------------
(***************************************************************************)
(* What http-server.h offers the readers and writers of a connection: the  *)
(* octets the peer sends, once each and in their order, with a look ahead  *)
(* that takes nothing; and the octets written, which reach the peer in     *)
(* their order, all of them when a flush succeeds.  Once a send() has      *)
(* failed nothing is promised of the octets that arrive.                   *)
(***************************************************************************)
EXTENDS Naturals, Sequences

CONSTANTS
  Incoming,          \* the octets the peer sends before it closes
  Payloads,          \* what one call of HTTPConnection_write may be given
  End, Error, Done,  \* answers that are not octets
  None               \* no call has returned yet

VARIABLES
  taken,     \* how many octets of Incoming have been read
  written,   \* the octets handed over for sending
  arrived,   \* the octets the peer has received
  intact,    \* no send() has failed
  answer     \* what the last call returned

bytes == <<taken, written, arrived, intact, answer>>

Init ==
  /\ taken = 0
  /\ written = <<>> /\ arrived = <<>>
  /\ intact = TRUE
  /\ answer = None

NextOctet == IF taken < Len(Incoming) THEN Incoming[taken + 1] ELSE End

Read ==
  /\ answer' = NextOctet
  /\ taken' = IF taken < Len(Incoming) THEN taken + 1 ELSE taken
  /\ UNCHANGED <<written, arrived, intact>>

Peek ==
  /\ answer' = NextOctet
  /\ UNCHANGED <<taken, written, arrived, intact>>

ReadFails ==
  /\ answer' = Error
  /\ UNCHANGED <<taken, written, arrived, intact>>

Write ==
  /\ \E s \in Payloads : written' = written \o s
  /\ UNCHANGED <<taken, arrived, intact, answer>>

Deliver ==
  /\ intact => \E n \in Len(arrived) .. Len(written) : arrived' = SubSeq(written, 1, n)
  /\ UNCHANGED <<taken, written, intact, answer>>

\* the octets may be still on their way
WriteReturns ==
  /\ answer' = Done
  /\ UNCHANGED <<taken, written, arrived, intact>>

Flush ==
  /\ intact => arrived' = written
  /\ answer' = Done
  /\ UNCHANGED <<taken, written, intact>>

SendFails ==
  /\ intact' = FALSE
  /\ answer' = Error
  /\ UNCHANGED <<taken, written, arrived>>

Next == Read \/ Peek \/ ReadFails \/ Write \/ Deliver \/ WriteReturns \/ Flush \/ SendFails

Spec == Init /\ [][Next]_bytes
=============================================================================
