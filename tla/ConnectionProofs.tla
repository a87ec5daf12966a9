-------------------------- MODULE ConnectionProofs --------------------------
(***************************************************************************)
(* The buffers of a connection implement the streams of ByteStream, for    *)
(* every capacity, every input and every sequence of calls.                *)
(***************************************************************************)
EXTENDS ConnectionBuffer, SequenceTheorems, TLAPS

\* What recv() returned last is the newest part of what has been received: the
\* buffer is never refilled while it holds octets that have not been read.
BufferIsNewest ==
  /\ input_buffer_length <= received
  /\ \A i \in 1 .. input_buffer_length :
       input_buffer[i] = Incoming[received - input_buffer_length + i]

LEMMA SplitSeq ==
  ASSUME NEW s \in Seq(Nat), NEW n \in 0 .. Len(s)
  PROVE  /\ SubSeq(s, 1, n) \in Seq(Nat) /\ Len(SubSeq(s, 1, n)) = n
         /\ SubSeq(s, n + 1, Len(s)) \in Seq(Nat)
         /\ SubSeq(s, 1, n) \o SubSeq(s, n + 1, Len(s)) = s
<1>1. \A i \in 1 .. Len(s) : s[i] \in Nat
  BY ElementOfSeq
<1>2. /\ SubSeq(s, 1, n) \in Seq(Nat) /\ Len(SubSeq(s, 1, n)) = n
  BY <1>1, SubSeqProperties
<1>3. SubSeq(s, n + 1, Len(s)) \in Seq(Nat)
  BY <1>1, SubSeqProperties
<1>4. SubSeq(s, 1, n) \o SubSeq(s, n + 1, Len(s)) = SubSeq(s, 1, Len(s))
  <2>1. /\ 1 \in 1 .. Len(s) + 1 /\ n \in 1 - 1 .. Len(s) /\ Len(s) \in n .. Len(s)
    OBVIOUS
  <2> QED
    BY <2>1, ConcatAdjacentSubSeq
<1> QED
  BY <1>2, <1>3, <1>4, SubSeqFull

LEMMA ConcatRegroups ==
  ASSUME NEW s \in Seq(Nat), NEW t \in Seq(Nat), NEW u \in Seq(Nat)
  PROVE  (s \o t) \o u = s \o (t \o u)
BY ConcatAssociative, SMTT(20)

LEMMA PrefixIsSubSeq ==
  ASSUME NEW s \in Seq(Nat), NEW t \in Seq(Nat)
  PROVE  /\ Len(s) <= Len(s \o t)
         /\ SubSeq(s \o t, 1, Len(s)) = s
<1>1. /\ s \o t \in Seq(Nat)
      /\ Len(s \o t) = Len(s) + Len(t)
      /\ \A i \in 1 .. Len(s) + Len(t) : (s \o t)[i] = IF i <= Len(s) THEN s[i] ELSE t[i - Len(s)]
  BY ConcatProperties
<1>2. Len(s) \in Nat /\ Len(t) \in Nat
  OBVIOUS
<1>3. \A i \in 1 .. Len(s) : (s \o t)[i] \in Nat /\ (s \o t)[i] = s[i]
  BY <1>1, <1>2, ElementOfSeq
<1>4. /\ SubSeq(s \o t, 1, Len(s)) \in Seq(Nat)
      /\ Len(SubSeq(s \o t, 1, Len(s))) = Len(s)
      /\ \A i \in 1 .. Len(s) : SubSeq(s \o t, 1, Len(s))[i] = (s \o t)[i]
  BY <1>2, <1>3, SubSeqProperties
<1>5. SubSeq(s \o t, 1, Len(s)) = s
  BY <1>3, <1>4, SeqEqual
<1> QED
  BY <1>1, <1>2, <1>5

\* recv() fills the buffer with the next octets of the input.
LEMMA ReceiveFills ==
  ASSUME ConnectionAssumption, TypeOK, NEW step \in {0, 1}, Receive(step)
  PROVE  /\ received' \in 0 .. Len(Incoming)
         /\ input_buffer' \in Seq(Nat)
         /\ Len(input_buffer') \in 1 .. Capacity
         /\ received' = received + Len(input_buffer')
         /\ \A i \in 1 .. Len(input_buffer') : input_buffer'[i] = Incoming[received + i]
<1>1. PICK n \in 1 .. Capacity :
           /\ received + n <= Len(Incoming)
           /\ received' = received + n
           /\ input_buffer' = SubSeq(Incoming, received + 1, received + n)
  BY DEF Receive
<1>2. /\ Incoming \in Seq(Nat) /\ Len(Incoming) \in Nat /\ received \in Nat /\ Capacity \in Nat
      /\ n \in Nat /\ n >= 1
  BY DEF TypeOK, ConnectionAssumption
<1>3. \A i \in (received + 1) .. (received + n) : Incoming[i] \in Nat
  BY <1>1, <1>2, ElementOfSeq
<1>4. /\ input_buffer' \in Seq(Nat)
      /\ Len(input_buffer') = n
      /\ \A i \in 1 .. n : input_buffer'[i] = Incoming[received + i]
  BY <1>1, <1>2, <1>3, SubSeqProperties
<1> QED
  BY <1>1, <1>2, <1>4

----------------------------------------------------------------------------
LEMMA TypeStep ==
  ASSUME ConnectionAssumption, TypeOK, [Next]_vars
  PROVE  TypeOK'
<1> USE DEF input_buffer_length, output_buffer_length
<1>a. /\ Capacity \in Nat \ {0} /\ Len(Incoming) \in Nat
      /\ Len(input_buffer) \in Nat /\ Len(output_buffer) \in Nat /\ Len(rest) \in Nat
  BY DEF TypeOK, ConnectionAssumption
<1>1. CASE ReadOctet
  <2>0. UNCHANGED <<output, faults>>
    BY <1>1 DEF ReadOctet
  <2>1. CASE Receive(1)
    <3>1. /\ received' \in 0 .. Len(Incoming) /\ input_buffer' \in Seq(Nat)
          /\ Len(input_buffer') \in 1 .. Capacity
      BY <2>1, ReceiveFills
    <3>2. input_buffer_offset' = 1
      BY <2>1 DEF Receive
    <3> QED
      BY <1>a, <2>0, <3>1, <3>2 DEF TypeOK, output
  <2>2. CASE Buffered(1)
    BY <1>a, <2>0, <2>2 DEF TypeOK, output, Buffered, Empty
  <2>3. CASE Closed
    BY <1>a, <2>0, <2>3 DEF TypeOK, output, input, Closed
  <2> QED
    BY <1>1, <2>1, <2>2, <2>3 DEF ReadOctet
<1>2. CASE PeekOctet
  <2>0. UNCHANGED <<output, faults>>
    BY <1>2 DEF PeekOctet
  <2>1. CASE Receive(0)
    <3>1. /\ received' \in 0 .. Len(Incoming) /\ input_buffer' \in Seq(Nat)
          /\ Len(input_buffer') \in 1 .. Capacity
      BY <2>1, ReceiveFills
    <3>2. input_buffer_offset' = 0
      BY <2>1 DEF Receive
    <3> QED
      BY <1>a, <2>0, <3>1, <3>2 DEF TypeOK, output
  <2>2. CASE Buffered(0)
    BY <1>a, <2>0, <2>2 DEF TypeOK, output, Buffered, Empty
  <2>3. CASE Closed
    BY <1>a, <2>0, <2>3 DEF TypeOK, output, input, Closed
  <2> QED
    BY <1>2, <2>1, <2>2, <2>3 DEF PeekOctet
<1>3. CASE RecvFails
  BY <1>3 DEF TypeOK, RecvFails, Fault, input, output
<1>4. CASE WriteCall
  <2>1. PICK p \in Payloads : rest' = p /\ written' = written \o p
    BY <1>4 DEF WriteCall
  <2>2. p \in Seq(Nat)
    BY DEF ConnectionAssumption
  <2>3. written \o p \in Seq(Nat)
    BY <2>2, ConcatProperties DEF TypeOK
  <2> QED
    BY <1>4, <2>1, <2>2, <2>3 DEF TypeOK, WriteCall, input
<1>5. CASE WriteSends
  <2>1. arrived \o output_buffer \in Seq(Nat)
    BY ConcatProperties DEF TypeOK
  <2> QED
    BY <1>5, <1>a, <2>1 DEF TypeOK, WriteSends, input
<1>6. CASE WriteFails
  <2>1. faults' \in Nat /\ <<>> \in Seq(Nat)
    BY <1>6 DEF TypeOK, WriteFails, Fault
  <2>2. /\ UNCHANGED <<received, input_buffer, input_buffer_offset>>
        /\ UNCHANGED <<output_buffer, written, arrived>>
        /\ rest' = <<>> /\ writing' = FALSE /\ intact' = FALSE
    BY <1>6 DEF WriteFails, input
  <2> QED
    BY <2>1, <2>2, Zenon DEF TypeOK
<1>7. CASE WriteCopies
  <2> DEFINE room == Capacity - Len(output_buffer)
             n == IF Len(rest) <= room THEN Len(rest) ELSE room
  <2>1. /\ output_buffer' = output_buffer \o SubSeq(rest, 1, n)
        /\ rest' = SubSeq(rest, n + 1, Len(rest))
    BY <1>7 DEF WriteCopies
  <2>2. n \in 0 .. Len(rest) /\ n <= room
    BY <1>a DEF TypeOK
  <2> HIDE DEF n
  <2>3. /\ SubSeq(rest, 1, n) \in Seq(Nat) /\ Len(SubSeq(rest, 1, n)) = n
        /\ rest' \in Seq(Nat)
    BY <2>1, <2>2, SplitSeq DEF TypeOK
  <2>4. /\ output_buffer' \in Seq(Nat)
        /\ Len(output_buffer') = Len(output_buffer) + n
    BY <2>1, <2>3, ConcatProperties DEF TypeOK
  <2>5. Len(output_buffer') <= Capacity
    BY <1>a, <2>2, <2>4
  <2> QED
    BY <1>7, <2>3, <2>4, <2>5 DEF TypeOK, WriteCopies, input
<1>8. CASE WriteReturns
  BY <1>8 DEF TypeOK, WriteReturns, input
<1>9. CASE FlushOutput
  <2>1. arrived \o output_buffer \in Seq(Nat)
    BY ConcatProperties DEF TypeOK
  <2> QED
    BY <1>9, <1>a, <2>1 DEF TypeOK, FlushOutput, input
<1>10. CASE FlushFails
  <2>1. faults' \in Nat
    BY <1>10 DEF TypeOK, FlushFails, Fault
  <2>2. /\ UNCHANGED <<received, input_buffer, input_buffer_offset>>
        /\ UNCHANGED <<output_buffer, rest, writing, written, arrived>>
        /\ intact' = FALSE
    BY <1>10 DEF FlushFails, input
  <2> QED
    BY <2>1, <2>2, Zenon DEF TypeOK
<1>11. CASE UNCHANGED vars
  BY <1>11 DEF TypeOK, vars, input, output
<1> QED
  BY <1>1, <1>2, <1>3, <1>4, <1>5, <1>6, <1>7, <1>8, <1>9, <1>10, <1>11 DEF Next

LEMMA NewestStep ==
  ASSUME ConnectionAssumption, TypeOK, BufferIsNewest, [Next]_vars
  PROVE  BufferIsNewest'
<1>1. ASSUME NEW step \in {0, 1}, Receive(step)
      PROVE  BufferIsNewest'
  <2>1. /\ Len(input_buffer') \in 1 .. Capacity
        /\ received' = received + Len(input_buffer')
        /\ \A i \in 1 .. Len(input_buffer') : input_buffer'[i] = Incoming[received + i]
    BY <1>1, ReceiveFills
  <2>2. received \in Nat
    BY DEF TypeOK
  <2> QED
    BY <2>1, <2>2 DEF BufferIsNewest, input_buffer_length
<1>2. CASE UNCHANGED <<received, input_buffer>>
  BY <1>2 DEF BufferIsNewest, input_buffer_length
<1>3. \/ \E step \in {0, 1} : Receive(step)
      \/ UNCHANGED <<received, input_buffer>>
  BY DEF Next, vars, input, ReadOctet, PeekOctet, Buffered, Closed, RecvFails, WriteCall,
         WriteSends, WriteFails, WriteCopies, WriteReturns, FlushOutput, FlushFails
<1> QED
  BY <1>1, <1>2, <1>3

LEMMA NothingDroppedStep ==
  ASSUME ConnectionAssumption, TypeOK, NothingDropped, [Next]_vars
  PROVE  NothingDropped'
<1>a. /\ arrived \in Seq(Nat) /\ output_buffer \in Seq(Nat) /\ rest \in Seq(Nat)
      /\ <<>> \in Seq(Nat)
  BY DEF TypeOK
<1>b. arrived \o output_buffer \in Seq(Nat)
  BY <1>a, ConcatProperties
<1>1. CASE WriteCall
  <2>1. PICK p \in Payloads : rest' = p /\ written' = written \o p
    BY <1>1 DEF WriteCall
  <2>2. p \in Seq(Nat) /\ rest = <<>>
    BY <1>1 DEF ConnectionAssumption, WriteCall, TypeOK
  <2>3. (arrived \o output_buffer) \o rest = arrived \o output_buffer
    BY <1>b, <2>2, ConcatEmptySeq
  <2> QED
    BY <1>1, <2>1, <2>2, <2>3 DEF NothingDropped, WriteCall
<1>2. CASE WriteSends
  <2>1. (arrived \o output_buffer) \o <<>> = arrived \o output_buffer
    BY <1>b, ConcatEmptySeq
  <2> QED
    BY <1>2, <2>1 DEF NothingDropped, WriteSends
<1>3. CASE WriteCopies
  <2> DEFINE room == Capacity - Len(output_buffer)
             n == IF Len(rest) <= room THEN Len(rest) ELSE room
  <2>1. /\ output_buffer' = output_buffer \o SubSeq(rest, 1, n)
        /\ rest' = SubSeq(rest, n + 1, Len(rest))
        /\ UNCHANGED <<written, arrived, intact>>
    BY <1>3 DEF WriteCopies, output_buffer_length
  <2>2. n \in 0 .. Len(rest)
    BY <1>a DEF TypeOK, ConnectionAssumption, output_buffer_length
  <2> HIDE DEF n
  <2> DEFINE head == SubSeq(rest, 1, n)
             tail == SubSeq(rest, n + 1, Len(rest))
  <2>3. head \in Seq(Nat) /\ tail \in Seq(Nat) /\ head \o tail = rest
    BY <1>a, <2>2, SplitSeq
  <2> HIDE DEF head, tail
  <2>4. (arrived \o output_buffer) \o head = arrived \o (output_buffer \o head)
    <3>1. arrived \in Seq(Nat) /\ output_buffer \in Seq(Nat) /\ head \in Seq(Nat)
      BY <1>a, <2>3
    <3> QED
      BY <3>1, ConcatRegroups, SMTT(20)
  <2>5. ((arrived \o output_buffer) \o head) \o tail = (arrived \o output_buffer) \o (head \o tail)
    BY <1>b, <2>3, ConcatRegroups
  <2>6. output_buffer' = output_buffer \o head /\ rest' = tail
    BY <2>1 DEF head, tail
  <2> QED
    BY <2>1, <2>3, <2>4, <2>5, <2>6 DEF NothingDropped
<1>4. CASE WriteReturns
  BY <1>4 DEF NothingDropped, WriteReturns
<1>5. CASE FlushOutput
  <2>1. (arrived \o output_buffer) \o <<>> = arrived \o output_buffer
    BY <1>b, ConcatEmptySeq
  <2> QED
    BY <1>5, <2>1 DEF NothingDropped, FlushOutput
<1>6. CASE WriteFails \/ FlushFails
  BY <1>6 DEF NothingDropped, WriteFails, FlushFails
<1>7. CASE UNCHANGED output
  BY <1>7 DEF NothingDropped, output
<1>8. \/ WriteCall \/ WriteSends \/ WriteFails \/ WriteCopies \/ WriteReturns
      \/ FlushOutput \/ FlushFails \/ UNCHANGED output
  BY DEF Next, vars, ReadOctet, PeekOctet, RecvFails
<1> QED
  BY <1>1, <1>2, <1>3, <1>4, <1>5, <1>6, <1>7, <1>8

\* The induction: every state has its types, its input buffer holds what was
\* received last, and nothing written is missing.
THEOREM ConnectionCorrect == Spec => [](TypeOK /\ BufferIsNewest /\ NothingDropped)
<1>1. Init => TypeOK /\ BufferIsNewest /\ NothingDropped
  <2> SUFFICES ASSUME Init PROVE TypeOK /\ BufferIsNewest /\ NothingDropped
    OBVIOUS
  <2>1. <<>> \in Seq(Nat) /\ Len(<<>>) = 0
    OBVIOUS
  <2>2. Len(Incoming) \in Nat /\ Capacity \in Nat
    BY ConnectionAssumption DEF ConnectionAssumption
  <2>3. TypeOK
    <3>1. /\ received \in 0 .. Len(Incoming)
          /\ input_buffer \in Seq(Nat) /\ Len(input_buffer) <= Capacity
          /\ input_buffer_offset \in 0 .. Len(input_buffer)
          /\ output_buffer \in Seq(Nat) /\ Len(output_buffer) <= Capacity
          /\ rest \in Seq(Nat) /\ written \in Seq(Nat) /\ arrived \in Seq(Nat)
          /\ faults \in Nat
      BY <2>1, <2>2, ConnectionAssumption DEF Init, ConnectionAssumption
    <3>2. writing \in BOOLEAN /\ (rest # <<>> => writing) /\ intact \in BOOLEAN
      BY Zenon DEF Init
    <3> QED
      BY <3>1, <3>2, Zenon DEF TypeOK, input_buffer_length, output_buffer_length
  <2>4. BufferIsNewest
    BY <2>1 DEF Init, BufferIsNewest, input_buffer_length
  <2>5. <<>> \o <<>> = <<>>
    BY <2>1, ConcatEmptySeq
  <2> QED
    BY <2>3, <2>4, <2>5 DEF Init, NothingDropped
<1>2. TypeOK /\ BufferIsNewest /\ NothingDropped /\ [Next]_vars
        => (TypeOK /\ BufferIsNewest /\ NothingDropped)'
  BY TypeStep, NewestStep, NothingDroppedStep, ConnectionAssumption
<1> QED
  BY <1>1, <1>2, PTL DEF Spec

----------------------------------------------------------------------------
\* One step of the buffers is one step of the streams, or none.
LEMMA StreamStep ==
  ASSUME TypeOK, BufferIsNewest, NothingDropped, TypeOK', NothingDropped', [Next]_vars
  PROVE  [Stream!Next]_(Stream!bytes)
<1> DEFINE count == received - Len(input_buffer) + input_buffer_offset
<1> USE DEF input_buffer_length, output_buffer_length
<1>a0. Incoming \in Seq(Nat) /\ input_buffer \in Seq(Nat) /\ received \in 0 .. Len(Incoming)
       /\ input_buffer_offset \in 0 .. Len(input_buffer) /\ Len(input_buffer) <= received
  BY ConnectionAssumption DEF TypeOK, ConnectionAssumption, BufferIsNewest
<1>a. /\ Len(input_buffer) \in Nat /\ Len(Incoming) \in Nat /\ received \in Nat
      /\ input_buffer_offset \in 0 .. Len(input_buffer) /\ received <= Len(Incoming)
      /\ Len(input_buffer) <= received
  BY <1>a0
<1>b. /\ arrived \in Seq(Nat) /\ output_buffer \in Seq(Nat) /\ rest \in Seq(Nat)
      /\ written \in Seq(Nat) /\ Len(arrived) \in Nat /\ Len(written) \in Nat
  BY DEF TypeOK
<1>c. arrived \o output_buffer \in Seq(Nat)
  BY <1>b, ConcatProperties
<1>1. ASSUME NEW step \in {0, 1}, Receive(step)
      PROVE  /\ answer' = (IF count < Len(Incoming) THEN Incoming[count + 1] ELSE End)
             /\ count < Len(Incoming)
             /\ count' = count + step
  <2>1. /\ received' \in 0 .. Len(Incoming)
        /\ Len(input_buffer') \in 1 .. Capacity
        /\ received' = received + Len(input_buffer')
        /\ \A i \in 1 .. Len(input_buffer') : input_buffer'[i] = Incoming[received + i]
    BY <1>1, ReceiveFills, ConnectionAssumption
  <2>2. count = received
    BY <1>1, <1>a DEF Receive, Empty
  <2>3. input_buffer_offset' = step /\ answer' = input_buffer'[1]
    BY <1>1 DEF Receive
  <2>4. received < Len(Incoming) /\ 1 \in 1 .. Len(input_buffer')
    BY <1>a, <2>1
  <2>5. answer' = Incoming[received + 1]
    BY <2>1, <2>3, <2>4
  <2>6. count' = received + step
    BY <1>a, <2>1, <2>3
  <2> QED
    BY <2>2, <2>4, <2>5, <2>6
<1>2. ASSUME NEW step \in {0, 1}, Buffered(step)
      PROVE  /\ answer' = (IF count < Len(Incoming) THEN Incoming[count + 1] ELSE End)
             /\ count < Len(Incoming)
             /\ count' = count + step
  <2>1. /\ input_buffer_offset < Len(input_buffer)
        /\ input_buffer_offset' = input_buffer_offset + step
        /\ answer' = input_buffer[input_buffer_offset + 1]
        /\ UNCHANGED <<received, input_buffer>>
    BY <1>2, <1>a DEF Buffered, Empty
  <2>2. input_buffer_offset + 1 \in 1 .. Len(input_buffer)
    BY <1>a, <2>1
  <2>3. input_buffer[input_buffer_offset + 1]
          = Incoming[received - Len(input_buffer) + (input_buffer_offset + 1)]
    BY <2>2 DEF BufferIsNewest
  <2>4. received - Len(input_buffer) + (input_buffer_offset + 1) = count + 1
    BY <1>a
  <2>5. count < Len(Incoming)
    BY <1>a, <2>1
  <2>6. count' = count + step
    BY <1>a, <2>1
  <2> QED
    BY <2>1, <2>3, <2>4, <2>5, <2>6
<1>3. ASSUME Closed
      PROVE  /\ answer' = (IF count < Len(Incoming) THEN Incoming[count + 1] ELSE End)
             /\ ~(count < Len(Incoming))
             /\ count' = count
  BY <1>3, <1>a DEF Closed, Empty, input
<1> HIDE DEF count
<1>4. CASE ReadOctet
  <2>1. UNCHANGED <<written, arrived, intact>>
    BY <1>4 DEF ReadOctet, output
  <2>2. /\ answer' = (IF count < Len(Incoming) THEN Incoming[count + 1] ELSE End)
        /\ count' = (IF count < Len(Incoming) THEN count + 1 ELSE count)
    BY <1>4, <1>1, <1>2, <1>3 DEF ReadOctet
  <2> QED
    BY <2>1, <2>2 DEF Stream!Next, Stream!Read, Stream!NextOctet, count
<1>5. CASE PeekOctet
  <2>1. UNCHANGED <<written, arrived, intact>>
    BY <1>5 DEF PeekOctet, output
  <2>2. count \in Int
    BY <1>a DEF count
  <2>3. /\ answer' = (IF count < Len(Incoming) THEN Incoming[count + 1] ELSE End)
        /\ count' = count
    BY <1>5, <1>1, <1>2, <1>3, <2>2 DEF PeekOctet
  <2> QED
    BY <2>1, <2>3 DEF Stream!Next, Stream!Peek, Stream!NextOctet, count
<1>6. CASE RecvFails
  BY <1>6 DEF RecvFails, input, output, Stream!Next, Stream!ReadFails
<1>7. CASE WriteCall
  BY <1>7 DEF WriteCall, input, Stream!Next, Stream!Write
<1>8. CASE WriteSends
  <2>1. arrived' = arrived \o output_buffer
    BY <1>8, SMTT(20) DEF WriteSends
  <2>2. ASSUME intact
        PROVE  \E n \in Len(arrived) .. Len(written) : arrived' = SubSeq(written, 1, n)
    <3>1. written = arrived' \o rest
      BY <2>1, <2>2 DEF NothingDropped
    <3>2. Len(arrived') <= Len(written) /\ SubSeq(written, 1, Len(arrived')) = arrived'
      BY <1>b, <1>c, <2>1, <3>1, PrefixIsSubSeq
    <3>3. Len(arrived) <= Len(arrived') /\ Len(arrived') \in Nat
      BY <1>b, <1>c, <2>1, PrefixIsSubSeq
    <3>4. Len(arrived') \in Len(arrived) .. Len(written)
      BY <1>b, <3>2, <3>3
    <3> QED
      BY <3>2, <3>4
  <2> QED
    BY <1>8, <2>2 DEF WriteSends, input, Stream!Next, Stream!Deliver
<1>9. CASE WriteFails
  BY <1>9 DEF WriteFails, input, Stream!Next, Stream!SendFails
<1>10. CASE WriteCopies
  BY <1>10 DEF WriteCopies, input, Stream!bytes
<1>11. CASE WriteReturns
  BY <1>11 DEF WriteReturns, input, Stream!Next, Stream!WriteReturns
<1>12. CASE FlushOutput
  <2>1. rest = <<>> /\ arrived' = arrived \o output_buffer
    BY <1>12 DEF FlushOutput, TypeOK
  <2>2. (arrived \o output_buffer) \o <<>> = arrived \o output_buffer
    BY <1>c, ConcatEmptySeq
  <2>3. intact => arrived' = written
    BY <2>1, <2>2 DEF NothingDropped
  <2> QED
    BY <1>12, <2>3 DEF FlushOutput, input, Stream!Next, Stream!Flush
<1>13. CASE FlushFails
  BY <1>13 DEF FlushFails, input, Stream!Next, Stream!SendFails
<1>14. CASE UNCHANGED vars
  BY <1>14 DEF vars, input, output, Stream!bytes
<1> QED
  BY <1>4, <1>5, <1>6, <1>7, <1>8, <1>9, <1>10, <1>11, <1>12, <1>13, <1>14 DEF Next

\* The buffers of http-connection.c keep the promise of ByteStream: whatever
\* recv() returns at a time and however payloads fill the output buffer, octets
\* are read once and in order and arrive complete and in order when flushed.
THEOREM ConnectionImplementsStream == Spec => KeepsStream
<1>1. Init => Stream!Init
  <2> SUFFICES ASSUME Init PROVE Stream!Init
    OBVIOUS
  <2>a. received = 0 /\ input_buffer = <<>> /\ input_buffer_offset = 0
    BY Zenon DEF Init
  <2>b. Len(input_buffer) = 0
    BY <2>a
  <2>c. received = 0 /\ input_buffer_offset = 0
    BY <2>a
  <2>1. received - input_buffer_length + input_buffer_offset = 0
    BY <2>b, <2>c DEF input_buffer_length
  <2> QED
    BY <2>1, Zenon DEF Init, Stream!Init
<1>2. TypeOK /\ BufferIsNewest /\ NothingDropped /\ TypeOK' /\ NothingDropped' /\ [Next]_vars
        => [Stream!Next]_(Stream!bytes)
  BY StreamStep
<1>3. Spec => [](TypeOK /\ BufferIsNewest /\ NothingDropped)
  BY ConnectionCorrect
<1> QED
  BY <1>1, <1>2, <1>3, PTL DEF Spec, KeepsStream, Stream!Spec
=============================================================================
