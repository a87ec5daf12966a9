-------------------------- MODULE ConnectionBuffer --------------------------
(***************************************************************************)
(* HTTPConnection (http-connection.c): a socket with a buffer of what      *)
(* recv() returned last and a buffer of what is still to be given to       *)
(* send().  One thread uses a connection.  A blocking send() that reports  *)
(* no error has taken all its octets; the code does not look at how many.  *)
(***************************************************************************)
EXTENDS Naturals, Sequences

CONSTANTS
  Incoming,          \* the octets the peer sends before it closes
  Payloads,          \* what one call of HTTPConnection_write may be given
  Capacity,          \* CONNECTION_BUFFER_CAPACITY
  MaxWritten,        \* bound on the octets written
  MaxFaults,         \* bound on failing system calls
  End, Error, Done, None

ASSUME ConnectionAssumption ==
  /\ Incoming \in Seq(Nat)
  /\ Payloads \subseteq Seq(Nat)
  /\ Capacity \in Nat \ {0}
  /\ MaxWritten \in Nat /\ MaxFaults \in Nat

VARIABLES
  received,       \* how many octets of Incoming recv() has returned
  input_buffer,   \* its first input_buffer_length octets
  input_buffer_offset,
  output_buffer,  \* its first output_buffer_length octets
  rest,           \* the part of a payload HTTPConnection_write has not copied
  writing,        \* HTTPConnection_write has not returned
  written, arrived, intact, answer,   \* as in ByteStream
  faults

input == <<received, input_buffer, input_buffer_offset>>
output == <<output_buffer, rest, writing, written, arrived, intact>>
vars == <<input, output, answer, faults>>

----------------------------------------------------------------------------
input_buffer_length == Len(input_buffer)
output_buffer_length == Len(output_buffer)

Init ==
  /\ received = 0 /\ input_buffer = <<>> /\ input_buffer_offset = 0
  /\ output_buffer = <<>> /\ rest = <<>> /\ writing = FALSE
  /\ written = <<>> /\ arrived = <<>> /\ intact = TRUE
  /\ answer = None
  /\ faults = 0

Fault == faults < MaxFaults /\ faults' = faults + 1

Empty == input_buffer_offset >= input_buffer_length

\* recv() returns n octets, and the reader takes `step' of them
Receive(step) ==
  /\ Empty
  /\ \E n \in 1 .. Capacity :
       /\ received + n <= Len(Incoming)
       /\ received' = received + n
       /\ input_buffer' = SubSeq(Incoming, received + 1, received + n)
  /\ input_buffer_offset' = step
  /\ answer' = input_buffer'[1]

Buffered(step) ==
  /\ ~Empty
  /\ input_buffer_offset' = input_buffer_offset + step
  /\ answer' = input_buffer[input_buffer_offset + 1]
  /\ UNCHANGED <<received, input_buffer>>

\* the peer has closed, and everything it sent has been received
Closed ==
  /\ Empty /\ received = Len(Incoming)
  /\ answer' = End
  /\ UNCHANGED input

\* HTTPConnection_read_octet
ReadOctet ==
  /\ ~writing
  /\ Receive(1) \/ Buffered(1) \/ Closed
  /\ UNCHANGED <<output, faults>>

\* mutant: peeking steps back without looking for the end
PeekOctet_StepsBack ==
  /\ ~writing
  /\ \/ Receive(0) \/ Buffered(0)
     \/ /\ Empty /\ received = Len(Incoming)
        /\ answer' = End
        /\ input_buffer_offset' = IF input_buffer_offset > 0 THEN input_buffer_offset - 1 ELSE 0
        /\ UNCHANGED <<received, input_buffer>>
  /\ UNCHANGED <<output, faults>>

\* HTTPConnection_peek_octet steps back over the octet it has read, if any
PeekOctet ==
  /\ ~writing
  /\ Receive(0) \/ Buffered(0) \/ Closed
  /\ UNCHANGED <<output, faults>>

RecvFails ==
  /\ ~writing
  /\ Empty
  /\ Fault
  /\ answer' = Error
  /\ UNCHANGED <<input, output>>

----------------------------------------------------------------------------
WriteCall ==
  /\ ~writing
  /\ \E p \in Payloads :
       /\ Len(written) + Len(p) <= MaxWritten
       /\ rest' = p
       /\ written' = written \o p
  /\ writing' = TRUE
  /\ UNCHANGED <<input, output_buffer, arrived, intact, answer, faults>>

\* mutant: the test for a full buffer comes one octet late
Full_Late == output_buffer_length > Capacity

Full == output_buffer_length = Capacity

\* the buffer is full and there is more to come
WriteSends ==
  /\ writing /\ rest # <<>> /\ Full
  /\ arrived' = arrived \o output_buffer
  /\ output_buffer' = <<>>
  /\ UNCHANGED <<input, rest, writing, written, intact, answer, faults>>

\* what was not copied is forgotten, what is in the buffer stays there
WriteFails ==
  /\ writing /\ rest # <<>> /\ Full
  /\ Fault
  /\ intact' = FALSE
  /\ answer' = Error
  /\ rest' = <<>> /\ writing' = FALSE
  /\ UNCHANGED <<input, output_buffer, written, arrived>>

\* mutant: the pointer into the payload is not moved past what was copied
WriteCopies_FromStart ==
  /\ writing /\ rest # <<>> /\ ~Full
  /\ LET room == Capacity - output_buffer_length
         n == IF Len(rest) <= room THEN Len(rest) ELSE room
     IN  /\ output_buffer' = output_buffer \o SubSeq(rest, 1, n)
         /\ rest' = SubSeq(rest, 1, Len(rest) - n)
  /\ UNCHANGED <<input, writing, written, arrived, intact, answer, faults>>

WriteCopies ==
  /\ writing /\ rest # <<>> /\ ~Full
  /\ LET room == Capacity - output_buffer_length
         n == IF Len(rest) <= room THEN Len(rest) ELSE room
     IN  /\ output_buffer' = output_buffer \o SubSeq(rest, 1, n)
         /\ rest' = SubSeq(rest, n + 1, Len(rest))
  /\ UNCHANGED <<input, writing, written, arrived, intact, answer, faults>>

WriteReturns ==
  /\ writing /\ rest = <<>>
  /\ writing' = FALSE
  /\ answer' = Done
  /\ UNCHANGED <<input, output_buffer, rest, written, arrived, intact, faults>>

\* HTTPConnection_flush
FlushOutput ==
  /\ ~writing
  /\ arrived' = arrived \o output_buffer
  /\ output_buffer' = <<>>
  /\ answer' = Done
  /\ UNCHANGED <<input, rest, writing, written, intact, faults>>

FlushFails ==
  /\ ~writing
  /\ output_buffer # <<>>
  /\ Fault
  /\ intact' = FALSE
  /\ answer' = Error
  /\ UNCHANGED <<input, output_buffer, rest, writing, written, arrived>>

Next ==
  \/ ReadOctet \/ PeekOctet \/ RecvFails
  \/ WriteCall \/ WriteSends \/ WriteFails \/ WriteCopies \/ WriteReturns
  \/ FlushOutput \/ FlushFails

Spec == Init /\ [][Next]_vars
FairSpec == Spec /\ WF_vars(WriteSends \/ WriteCopies \/ WriteReturns)

----------------------------------------------------------------------------
TypeOK ==
  /\ received \in 0 .. Len(Incoming)
  /\ input_buffer \in Seq(Nat) /\ input_buffer_length <= Capacity
  /\ input_buffer_offset \in 0 .. input_buffer_length
  /\ output_buffer \in Seq(Nat) /\ output_buffer_length <= Capacity
  /\ rest \in Seq(Nat) /\ writing \in BOOLEAN
  /\ rest # <<>> => writing
  /\ written \in Seq(Nat) /\ arrived \in Seq(Nat)
  /\ intact \in BOOLEAN
  /\ faults \in Nat

\* The two buffers, with the loop that fills and empties the one for output
\* (HTTPConnection_write), keep what ByteStream promises: no octet is read
\* twice or passed over, an octet that was looked at is the next one read,
\* also at the end of what recv() returned and after the peer has closed, and
\* the peer gets a prefix of what was written, all of it after a flush.
Stream == INSTANCE ByteStream WITH
            taken <- received - input_buffer_length + input_buffer_offset
KeepsStream == Stream!Spec

\* While no send() has failed, every octet written is with the peer, in the
\* output buffer or in the payload being copied: HTTPConnection_write loses
\* none when a payload fills the buffer, more than once.
NothingDropped == intact => written = arrived \o output_buffer \o rest

\* HTTPConnection_write comes back, however often the payload fills the buffer.
WriteEnds == writing ~> ~writing
=============================================================================
