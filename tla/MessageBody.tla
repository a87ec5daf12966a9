---------------------------- MODULE MessageBody ----------------------------
(***************************************************************************)
(* An HTTP message (http-message.c) with its head and its body, which is   *)
(* read by one of two callers: HTTPMessage_read_entire_entity_body, which  *)
(* decodes chunks, and copy_http_message_body of the proxy, which passes   *)
(* them on as they are.                                                    *)
(* Both call a reader with a buffer until it returns nothing or an error.  *)
(* The connection is the stream of octets ByteStream describes.            *)
(***************************************************************************)
EXTENDS MessageHead

CONSTANTS
  Messages,   \* what a peer may send
  Capacity    \* size of the caller's buffer

(* A message m: m.kind is "request" or "response"; m.head are the lines    *)
(* that arrive of its head, all of them if m.entire; m.bodiless says that  *)
(* it answers a HEAD request or has a status without a body.               *)
(* m.octets is what arrives behind the head before the peer closes, the    *)
(* body being the first m.end of them, if they come that far; m.framing is *)
(* how the sender marked its end ("chunked", "length" or "close") and      *)
(* m.entity what it encoded, NoEntity if the message is no correct one.    *)
NoEntity == <<"none">>
Octet == {"0", "1", "2", "f", "x", ";", " ", "r", "n"}

ASSUME BodyAssumption ==
  /\ \A m \in Messages :
       /\ m.kind \in {"request", "response"} /\ m.entire \in BOOLEAN /\ m.bodiless \in BOOLEAN
       /\ Len(m.head) \in Nat \ {0}
       /\ m.framing \in {"chunked", "length", "close"} /\ m.end \in Nat
       /\ m.octets \in Seq(Octet)
  /\ Capacity \in Nat \ {0}
  /\ SizeMax \in Nat /\ SizeMax >= 255    \* an octet fits

----------------------------------------------------------------------------
(* Lines of octets o, and what a size line says. *)

IsBlank(line) == line \in {<<>>, <<"n">>, <<"r", "n">>}

\* the position of the first line feed after p, or the end of the input
LineEnd(o, p) ==
  CHOOSE q \in p .. Len(o) :
    /\ q = Len(o) \/ (q > p /\ o[q] = "n")
    /\ \A i \in p + 1 .. q - 1 : o[i] # "n"

\* a header goes on while the next line starts with a space
HeaderEnd(o, p) ==
  LET ends(q) == \/ q = Len(o)
                 \/ /\ q > p /\ o[q] = "n"
                    /\ IsBlank(SubSeq(o, p + 1, q)) \/ o[q + 1] # " "
  IN  CHOOSE q \in p .. Len(o) : ends(q) /\ \A i \in p .. q - 1 : ~ends(i)

HexValue == [d \in {"0", "1", "2", "f"} |->
               CASE d = "0" -> 0 [] d = "1" -> 1 [] d = "2" -> 2 [] d = "f" -> 15]

HexDigits(line) ==
  CHOOSE k \in 0 .. Len(line) :
    /\ \A i \in 1 .. k : line[i] \in DOMAIN HexValue
    /\ k = Len(line) \/ line[k + 1] \notin DOMAIN HexValue

\* mutant: a semicolon is no end of a number
ChunkSize_NoExtension(line) ==
  LET digits == HexDigits(line)
      value[i \in 0 .. digits] == IF i = 0 THEN 0 ELSE 16 * value[i - 1] + HexValue[line[i]]
  IN  IF digits < Len(line) /\ line[digits + 1] \notin {" ", "r", "n"}
      THEN Invalid ELSE value[digits]

\* read_chunk_size: the hexadecimal digits the line starts with, ended by a
\* space, a line end or a semicolon; an empty number is zero
ChunkSize(line) ==
  LET digits == HexDigits(line)
      value[i \in 0 .. digits] ==
        IF i = 0 THEN 0
        ELSE LET v == value[i - 1]  d == HexValue[line[i]]
             IN  IF v = Invalid \/ SizeMax \div 16 < v \/ SizeMax - d < 16 * v
                 THEN Invalid ELSE 16 * v + d
  IN  IF digits < Len(line) /\ line[digits + 1] \notin {" ", ";", "r", "n"}
      THEN Invalid ELSE value[digits]

----------------------------------------------------------------------------
(* What a chunked encoding means (RFC 2616, 3.6.1).  Two things are as the *)
(* code has them: a size without digits is zero, and the end of the input  *)
(* ends a line.                                                            *)

\* the size in a line, however large
Announced(line) ==
  LET digits == HexDigits(line)
      value[i \in 0 .. digits] == IF i = 0 THEN 0 ELSE 16 * value[i - 1] + HexValue[line[i]]
  IN  IF digits < Len(line) /\ line[digits + 1] \notin {" ", ";", "r", "n"}
      THEN Invalid ELSE value[digits]

Missing == [end |-> Invalid, data |-> <<>>]
Line(o, p) == SubSeq(o, p + 1, LineEnd(o, p))
SizeAt(o, p) == IF Len(Line(o, p)) < 2 THEN Invalid ELSE Announced(Line(o, p))

\* chunks that end at c.end and hold c.data, with the one that follows them
Longer(o, c) ==
  LET size == SizeAt(o, c.end)
      from == LineEnd(o, c.end)
      to == from + size + 2
  IN  IF c # Missing /\ size > 0 /\ to <= Len(o) /\ o[to - 1] = "r" /\ o[to] = "n"
      THEN [end |-> to, data |-> c.data \o SubSeq(o, from + 1, from + size)]
      ELSE Missing

\* the first n chunks, and the n of them that the last chunk follows
ChunksOf(o) ==
  LET chunks[n \in 0 .. Len(o)] == IF n = 0 THEN [end |-> 0, data |-> <<>>] ELSE Longer(o, chunks[n - 1])
  IN  chunks
AllOf(o) == {n \in 0 .. Len(o) : ChunksOf(o)[n] # Missing /\ SizeAt(o, ChunksOf(o)[n].end) = 0}

\* where the first n lines of a trailer end, and whether it ends before end
TrailerOf(o, p) ==
  LET ends[n \in 0 .. Len(o)] == IF n = 0 THEN p ELSE HeaderEnd(o, ends[n - 1])
  IN  ends
TrailerEnds(o, p, end) ==
  LET ends == TrailerOf(o, p)
  IN  \E n \in 1 .. Len(o) : IsBlank(SubSeq(o, ends[n - 1] + 1, ends[n])) /\ ends[n] <= end

\* The entity of m is what its octets mean, up to m.end.
Meant(m) ==
  LET o == m.octets
      chunks == ChunksOf(o)
  IN  CASE m.framing = "chunked" ->
             /\ m.end < Len(o) => m.entity # NoEntity
             /\ m.end <= Len(o) /\ m.entity # NoEntity => AllOf(o) # {}
             /\ \A n \in AllOf(o) :
                  /\ m.entity = chunks[n].data
                  /\ \A i \in 0 .. n : SizeAt(o, chunks[i].end) <= SizeMax - 2
                  /\ TrailerEnds(o, LineEnd(o, chunks[n].end), m.end)
        [] m.framing = "length" -> m.end <= Len(o) => m.entity = SubSeq(o, 1, m.end)
        [] m.framing = "close" -> m.end = Len(o) /\ m.entity = o

ASSUME MeaningAssumption ==
  \A m \in Messages : Meant(m) /\ (m.bodiless => m.entity = <<>>)

----------------------------------------------------------------------------
VARIABLES
  message, head,        \* the message, and what its lines are read as
  decode,               \* which of the two callers reads it
  at,                   \* octets taken from the connection behind the head
  has_content_length, is_chunked,
  chunked_body_state, chunk_buffer, bytes_remaining,
  s,                    \* what this call has put into the buffer: *bytes_read octets
  handed,               \* what earlier calls have returned
  result                \* "head", then "reading" until the caller stops

framing == <<has_content_length, is_chunked>>
reader == <<chunked_body_state, chunk_buffer, bytes_remaining>>
vars == <<message, head, decode, at, framing, reader, s, handed, result>>

octets == message.octets
AtEnd == at = Len(octets)

----------------------------------------------------------------------------
Init ==
  /\ message \in Messages /\ head = ReadHead(message.kind, message.head) /\ decode \in BOOLEAN
  /\ at = 0
  /\ has_content_length = FALSE /\ is_chunked = FALSE
  /\ chunked_body_state = "CHUNK_SIZE" /\ chunk_buffer = <<>>
  /\ bytes_remaining = 0
  /\ s = <<>> /\ handed = <<>>
  /\ result = "head"

\* the store reads a body in any case; the proxy asks first whether there is one
HasBody ==
  IF message.kind = "response" THEN ~message.bodiless ELSE decode \/ request_has_body(head.headers)

ReadHeaders ==
  /\ result = "head"
  /\ has_content_length' = head.framing.has_content_length
  /\ is_chunked' = head.framing.is_chunked
  /\ bytes_remaining' = head.framing.bytes_remaining
  /\ result' = IF head.framing.refused THEN "bad" ELSE IF HasBody THEN "reading" ELSE "complete"
  /\ UNCHANGED <<message, head, decode, at, chunked_body_state, chunk_buffer, s, handed>>

\* the call returns t; nothing at all means that the body is over
Return(t) ==
  /\ s' = <<>>
  /\ handed' = handed \o t
  /\ result' = IF t = <<>> THEN "complete" ELSE result

\* the call returns an error, and the caller drops what it has put into s
Fail(how) == result' = how /\ s' = <<>> /\ handed' = handed

Serve(c) == s' = Append(s, c) /\ UNCHANGED <<handed, result>>

\* one round of the reader's loop
Loops == result = "reading" /\ Len(s) < Capacity
Reading(raw, state) ==
  /\ Loops /\ is_chunked
  /\ decode = ~raw
  /\ chunked_body_state = state

BufferFull ==
  /\ result = "reading" /\ Len(s) = Capacity
  /\ Return(s)
  /\ UNCHANGED <<message, head, decode, framing, at, reader>>

BodyDone ==
  /\ Loops /\ is_chunked /\ chunked_body_state = "DONE"
  /\ Return(s)
  /\ UNCHANGED <<message, head, decode, framing, at, reader>>

\* recv() returns an error
RecvFails ==
  /\ \/ result = "head"
     \/ /\ Loops /\ chunk_buffer = <<>>
        /\ is_chunked => chunked_body_state # "DONE"
        /\ ~is_chunked /\ has_content_length => bytes_remaining > 0
  /\ Fail("error")
  /\ UNCHANGED <<message, head, decode, framing, at, reader>>

----------------------------------------------------------------------------
(* read_chunked_message_body *)

ReadSizeLine ==
  /\ Reading(TRUE, "CHUNK_SIZE") /\ chunk_buffer = <<>>
  /\ at' = LineEnd(octets, at)
  /\ LET line == SubSeq(octets, at + 1, at')
     IN  IF Len(line) < 2
         THEN Fail("bad") /\ UNCHANGED reader
         ELSE /\ chunk_buffer' = line /\ bytes_remaining' = Len(line)
              /\ UNCHANGED <<chunked_body_state, s, handed, result>>
  /\ UNCHANGED <<message, head, decode, framing>>

Buffered == chunk_buffer[Len(chunk_buffer) - bytes_remaining + 1]

\* the line is passed on octet by octet, and understood with its last one
ServeSizeLine ==
  /\ Reading(TRUE, "CHUNK_SIZE") /\ chunk_buffer # <<>>
  /\ IF bytes_remaining > 1
     THEN /\ Serve(Buffered)
          /\ bytes_remaining' = bytes_remaining - 1
          /\ UNCHANGED <<chunked_body_state, chunk_buffer>>
     ELSE LET size == ChunkSize(chunk_buffer)
          IN  /\ chunk_buffer' = <<>>
              /\ IF size = Invalid \/ SizeMax - 2 < size
                 THEN Fail("bad") /\ UNCHANGED <<chunked_body_state, bytes_remaining>>
                 ELSE /\ Serve(Buffered)
                      /\ chunked_body_state' = IF size = 0 THEN "TRAILER" ELSE "CHUNK_DATA"
                      /\ bytes_remaining' = IF size = 0 THEN 0 ELSE size + 2
  /\ UNCHANGED <<message, head, decode, framing, at>>

\* mutant: the last octet of a chunk is not counted
ServeData_Uncounted ==
  /\ Reading(TRUE, "CHUNK_DATA")
  /\ IF AtEnd
     THEN /\ Fail("bad")
          /\ chunked_body_state' = "DONE"
          /\ UNCHANGED <<at, bytes_remaining>>
     ELSE /\ at' = at + 1
          /\ bytes_remaining' = bytes_remaining - 1
          /\ IF bytes_remaining = 1
             THEN chunked_body_state' = "CHUNK_SIZE" /\ UNCHANGED <<s, handed, result>>
             ELSE UNCHANGED chunked_body_state /\ Serve(octets[at + 1])
  /\ UNCHANGED <<message, head, decode, framing, chunk_buffer>>

ServeData ==
  /\ Reading(TRUE, "CHUNK_DATA")
  /\ IF AtEnd
     THEN /\ Fail("bad")
          /\ chunked_body_state' = "DONE"
          /\ UNCHANGED <<at, bytes_remaining>>
     ELSE /\ at' = at + 1
          /\ Serve(octets[at + 1])
          /\ bytes_remaining' = bytes_remaining - 1
          /\ chunked_body_state' = IF bytes_remaining = 1 THEN "CHUNK_SIZE" ELSE "CHUNK_DATA"
  /\ UNCHANGED <<message, head, decode, framing, chunk_buffer>>

\* mutant: the end of the input is not looked for
ReadTrailer_NoEnd ==
  /\ Reading(TRUE, "TRAILER") /\ chunk_buffer = <<>>
  /\ at' = HeaderEnd(octets, at)
  /\ chunk_buffer' = SubSeq(octets, at + 1, at')
  /\ bytes_remaining' = Len(chunk_buffer')
  /\ UNCHANGED <<message, head, decode, framing, chunked_body_state, s, handed, result>>

\* the end of the input ends the body
ReadTrailer ==
  /\ Reading(TRUE, "TRAILER") /\ chunk_buffer = <<>>
  /\ at' = HeaderEnd(octets, at)
  /\ chunk_buffer' = SubSeq(octets, at + 1, at')
  /\ bytes_remaining' = Len(chunk_buffer')
  /\ IF chunk_buffer' = <<>>
     THEN chunked_body_state' = "DONE" /\ Return(s)
     ELSE UNCHANGED <<chunked_body_state, s, handed, result>>
  /\ UNCHANGED <<message, head, decode, framing>>

\* the return at the end of the blank line leaves its last octet uncounted
ServeTrailer ==
  /\ Reading(TRUE, "TRAILER") /\ chunk_buffer # <<>>
  /\ bytes_remaining' = bytes_remaining - 1
  /\ IF bytes_remaining > 1
     THEN Serve(Buffered) /\ UNCHANGED <<chunked_body_state, chunk_buffer>>
     ELSE IF IsBlank(chunk_buffer)
     THEN /\ chunked_body_state' = "DONE"
          /\ Return(s)
          /\ UNCHANGED chunk_buffer
     ELSE /\ Serve(Buffered)
          /\ chunk_buffer' = <<>>
          /\ UNCHANGED chunked_body_state
  /\ UNCHANGED <<message, head, decode, framing, at>>

----------------------------------------------------------------------------
(* read_chunked_entity_body *)

DecodeSizeLine ==
  /\ Reading(FALSE, "CHUNK_SIZE") /\ bytes_remaining = 0
  /\ at' = LineEnd(octets, at)
  /\ LET line == SubSeq(octets, at + 1, at')
         size == ChunkSize(line)
     IN  IF Len(line) < 2 \/ size = Invalid
         THEN Fail("bad") /\ UNCHANGED <<chunked_body_state, bytes_remaining>>
         ELSE /\ bytes_remaining' = size
              /\ IF size = 0
                 THEN chunked_body_state' = "DONE" /\ Return(s)
                 ELSE UNCHANGED <<chunked_body_state, s, handed, result>>
  /\ UNCHANGED <<message, head, decode, framing, chunk_buffer>>

LineEndFollows(p) == p + 2 <= Len(octets) /\ octets[p + 1] = "r" /\ octets[p + 2] = "n"

\* mutant: a chunk that is cut short ends the body
DecodeData_EndAccepted ==
  /\ Reading(FALSE, "CHUNK_SIZE") /\ bytes_remaining > 0
  /\ IF AtEnd
     THEN Return(s) /\ chunked_body_state' = "DONE" /\ UNCHANGED <<at, bytes_remaining>>
     ELSE /\ bytes_remaining' = bytes_remaining - 1
          /\ Serve(octets[at + 1])
          /\ at' = IF bytes_remaining = 1 THEN at + 3 ELSE at + 1
          /\ UNCHANGED chunked_body_state
  /\ UNCHANGED <<message, head, decode, framing, chunk_buffer>>

\* an octet of the chunk; its last one has to be followed by CR LF
DecodeData ==
  /\ Reading(FALSE, "CHUNK_SIZE") /\ bytes_remaining > 0
  /\ IF AtEnd \/ (bytes_remaining = 1 /\ ~LineEndFollows(at + 1))
     THEN /\ Fail("bad")
          /\ chunked_body_state' = "DONE"
          /\ UNCHANGED <<at, bytes_remaining>>
     ELSE /\ bytes_remaining' = bytes_remaining - 1
          /\ Serve(octets[at + 1])
          /\ at' = IF bytes_remaining = 1 THEN at + 3 ELSE at + 1
          /\ UNCHANGED chunked_body_state
  /\ UNCHANGED <<message, head, decode, framing, chunk_buffer>>

----------------------------------------------------------------------------
(* HTTPMessage_read_message_body without chunks, for both callers.         *)

ReadPlain ==
  /\ Loops /\ ~is_chunked
  /\ IF AtEnd \/ (has_content_length /\ bytes_remaining = 0)
     THEN Return(s) /\ UNCHANGED <<at, bytes_remaining>>
     ELSE /\ at' = at + 1
          /\ Serve(octets[at + 1])
          /\ bytes_remaining' = (bytes_remaining - 1) % (SizeMax + 1)
  /\ UNCHANGED <<message, head, decode, framing, chunked_body_state, chunk_buffer>>

Progress ==
  \/ ReadHeaders
  \/ BufferFull \/ BodyDone
  \/ ReadSizeLine \/ ServeSizeLine \/ ServeData \/ ReadTrailer \/ ServeTrailer
  \/ DecodeSizeLine \/ DecodeData
  \/ ReadPlain

Next == Progress \/ RecvFails

Spec == Init /\ [][Next]_vars /\ WF_vars(Progress)

----------------------------------------------------------------------------
\* Four kinds of messages are misread without an error, and left out below:
\* the end of the input ends a head like its blank line; the end of the input
\* ends a body before its Content-Length; bytes_remaining of a Content-Length
\* is taken for the rest of a chunk; of a name in two spellings only the first
\* one counts.
Short == message.framing = "length" /\ Len(octets) < message.end
Confused == head.framing.is_chunked /\ head.framing.bytes_remaining > 0
Respelled ==
  \E i, j \in DOMAIN head.headers :
    i # j /\ Plain(head.headers[i].name[1]) = Plain(head.headers[j].name[1])
Misread == ~message.entire \/ Short \/ Confused \/ Respelled

\* The head says of the body what the sender meant, or it is refused.
HeadMeant ==
  IF head.framing.refused THEN message.entity = NoEntity \/ Len(octets) < message.end
  ELSE HasBody =>
    CASE message.framing = "chunked" -> head.framing.is_chunked /\ head.framing.bytes_remaining = 0
      [] message.framing = "length" ->
           /\ ~head.framing.is_chunked
           /\ IF head.framing.has_content_length
              THEN head.framing.bytes_remaining = message.end /\ message.end <= SizeMax
              ELSE Len(octets) <= message.end
      [] message.framing = "close" -> ~head.framing.is_chunked /\ ~head.framing.has_content_length

\* http-server.h:134: the whole entity is read, and chunks are decoded to the
\* entity the sender had, however its head spells, folds, splits and combines
\* what marks the end: a reader that ends without an error has handed it out
\* complete, also when its buffer ends within a chunk, and what is cut off or
\* has a size that is no number or does not fit never passes for complete.
\* What follows the body on the connection is left there.
EntireBody ==
  Misread \/ /\ HeadMeant
             /\ decode /\ result = "complete" => handed = message.entity
             /\ at <= message.end

\* A message that arrives whole is never refused, by either reader, whatever
\* headers, line ends, extensions, trailers and buffer boundaries it meets.
AcceptsWhole ==
  result = "bad" => message.entity = NoEntity \/ Misread \/ Len(octets) < message.end

\* What is relayed is what came in, in order and with nothing added; at most
\* one octet is missing when the body is over.  The head that goes with it
\* marks the end of the body as the one that came did, and the head of a body
\* that was replaced gives the length of the new one only.
RelaysPrefix ==
  /\ ~decode => /\ handed \o s = SubSeq(octets, 1, Len(handed) + Len(s))
                /\ result = "complete" /\ HasBody => Len(handed) >= at - 1
  /\ result = "reading" /\ at = 0 =>
       /\ Framing(Relayed(head.headers)) = head.framing
       /\ Framing(Rewritten(head.headers, <<"5">>)) =
            [refused |-> FALSE, has_content_length |-> TRUE, is_chunked |-> FALSE, bytes_remaining |-> 5]

\* Reading comes to an end: a call that returns nothing is the last one.
Ends == <>(result \notin {"head", "reading"})
=============================================================================
