---------------------------- MODULE MessageHead ----------------------------
(***************************************************************************)
(* The start line and the headers of an HTTP message, as http-message.c    *)
(* and http-exchange.c read them and as the proxy passes them on.  A line  *)
(* is a sequence of lexemes: a word of token characters, a separator, " "  *)
(* for white space of any length, a folded line end included, "eol" for    *)
(* the end of a start line and "quoted" for a whole quoted string.         *)
(***************************************************************************)
EXTENDS Integers, Sequences

CONSTANT SizeMax     \* SIZE_MAX

\* header names are words; "~" marks the same name in other capitals
Spelled == [w \in {"Content-Length~", "Transfer-Encoding~", "Connection~", "CHUNKED"} |->
              CASE w = "Content-Length~" -> "Content-Length" [] w = "Transfer-Encoding~" -> "Transfer-Encoding"
                [] w = "Connection~" -> "Connection" [] w = "CHUNKED" -> "chunked"]
Plain(w) == IF w \in DOMAIN Spelled THEN Spelled[w] ELSE w

DigitValue == [d \in {"0", "1", "2", "5"} |-> CASE d = "0" -> 0 [] d = "1" -> 1 [] d = "2" -> 2 [] d = "5" -> 5]
Separators == {":", ",", ";", "=", "quoted"}
Controls == {"eol", "NUL", "DEL"}
is_token_char(c) == c \notin Separators \cup Controls \cup {" "}

\* the first place from i on whose lexeme is not one of those, or the end
Past(t, i, Those(_)) ==
  CHOOSE j \in {i} \cup (i .. Len(t) + 1) :
    /\ j > Len(t) \/ ~Those(t[j])
    /\ \A k \in i .. j - 1 : Those(t[k])
skip_lws(t, i) == Past(t, i, LAMBDA c : c = " ")
parse_token(t, i) == Past(t, i, is_token_char)
Before(t, i, c) == Past(t, i, LAMBDA x : x # c)
At(t, i, c) == i <= Len(t) /\ t[i] = c

----------------------------------------------------------------------------
(* Headers: a list of names with values, found by name. *)

Absent == <<"absent">>

\* a name that is there already, in the same letters, gets one value more
add_header(hs, name, value) ==
  IF \E i \in DOMAIN hs : hs[i].name = name
  THEN [i \in DOMAIN hs |-> IF hs[i].name = name THEN [name |-> name, value |-> hs[i].value \o <<",", " ">> \o value] ELSE hs[i]]
  ELSE Append(hs, [name |-> name, value |-> value])

set_header(hs, name, value) ==
  IF \E i \in DOMAIN hs : hs[i].name = name
  THEN [i \in DOMAIN hs |-> IF hs[i].name = name THEN [name |-> name, value |-> value] ELSE hs[i]]
  ELSE add_header(hs, name, value)

Least(is) == CHOOSE i \in is : \A j \in is : i <= j

\* mutant: only a name in the same letters is found
find_header_Exact(hs, word) ==
  LET named == {i \in DOMAIN hs : hs[i].name = <<word>>}
  IN  IF named = {} THEN Absent ELSE hs[Least(named)].value

\* a name is found in whatever letters
Names(name, word) == Len(name) = 1 /\ Plain(name[1]) = word
find_header(hs, word) ==
  LET named == {i \in DOMAIN hs : Names(hs[i].name, word)}
  IN  IF named = {} THEN Absent ELSE hs[Least(named)].value

Refused == <<[name |-> <<>>, value |-> <<>>]>>
contains_nul(t) == \E i \in DOMAIN t : t[i] = "NUL"

\* one header, as read_header has put it together
ReadHeader(hs, t) ==
  LET colon == skip_lws(t, parse_token(t, 1))
      from == skip_lws(t, colon + 1)
      to == CHOOSE j \in from .. Len(t) : (j = from \/ t[j] # " ") /\ \A k \in j + 1 .. Len(t) : t[k] = " "
  IN  IF \/ hs = Refused
         \/ contains_nul(t)
         \/ parse_token(t, 1) = 1
         \/ ~At(t, colon, ":")
      THEN Refused
      ELSE IF from > Len(t) THEN hs
      ELSE add_header(hs, SubSeq(t, 1, parse_token(t, 1) - 1), SubSeq(t, from, to))

\* the lines behind the start line
Headers(lines) ==
  LET read[i \in 1 .. Len(lines)] == IF i = 1 THEN <<>> ELSE ReadHeader(read[i - 1], lines[i])
  IN  read[Len(lines)]

----------------------------------------------------------------------------
(* What the headers say of the body. *)

Invalid == -1

ContentLength(value) ==
  LET number[i \in 0 .. Len(value)] ==
        IF i = 0 THEN 0
        ELSE LET n == number[i - 1]  c == value[i]
             IN  IF n = Invalid \/ SizeMax \div 10 < n \/ c \notin DOMAIN DigitValue \/ SizeMax - DigitValue[c] < 10 * n
                 THEN Invalid ELSE 10 * n + DigitValue[c]
  IN  number[Len(value)]

Garbled == <<"garbled">>

\* the place behind the parameters of a transfer coding
Parameters(t) ==
  LET p[i \in 1 .. Len(t) + 1] ==
        LET j == skip_lws(t, i)
            attribute == skip_lws(t, j + 1)
            equals == skip_lws(t, parse_token(t, attribute))
            value == skip_lws(t, equals + 1)
            behind == IF At(t, value, "quoted") THEN value + 1 ELSE parse_token(t, value)
        IN  IF ~At(t, j, ";") THEN j
            ELSE IF parse_token(t, attribute) = attribute \/ ~At(t, equals, "=") \/ behind = value
            THEN Invalid
            ELSE p[behind]
  IN  p

\* the last of a list of transfer codings, and whether nothing follows it
LastCoding(t) ==
  LET behind == Parameters(t)
      last[i \in 1 .. Len(t) + 1] ==
        LET token == skip_lws(t, i)
            end == parse_token(t, token)
        IN  IF end = token \/ behind[end] = Invalid THEN Garbled
            ELSE IF At(t, behind[end], ",") THEN last[behind[end] + 1]
            ELSE IF behind[end] > Len(t) THEN SubSeq(t, token, end - 1)
            ELSE Absent
  IN  last[1]

RefusedHead == [refused |-> TRUE, has_content_length |-> FALSE, is_chunked |-> FALSE, bytes_remaining |-> 0]

Framing(hs) ==
  LET content_length == find_header(hs, "Content-Length")
      transfer_encoding == find_header(hs, "Transfer-Encoding")
      value == IF content_length = Absent THEN 0 ELSE ContentLength(content_length)
      coding == IF transfer_encoding = Absent THEN Absent ELSE LastCoding(transfer_encoding)
  IN  IF value = Invalid \/ coding = Garbled
      THEN RefusedHead
      ELSE [refused |-> FALSE,
            has_content_length |-> content_length # Absent,
            is_chunked |-> Len(coding) = 1 /\ Plain(coding[1]) = "chunked",
            bytes_remaining |-> value]

----------------------------------------------------------------------------
(* The whole head of a request or a response: its lines, the last of which *)
(* may have been cut off by the end of the input.                          *)

RequestLine(t) ==
  LET method == Before(t, 1, " ")
      uri == Before(t, method + 1, " ")
      version == Before(t, uri + 1, "eol")
  IN  method > 1 /\ method < uri - 1 /\ uri < version - 1 /\ version <= Len(t)

\* "HTTP/1.1", a space, three digits, a space
StatusLine(t) ==
  /\ Len(t) >= 6 /\ t[1] = "HTTP/1.1" /\ t[2] = " " /\ t[6] = " "
  /\ \A i \in 3 .. 5 : t[i] \in DOMAIN DigitValue

ReadHead(kind, lines) ==
  LET hs == Headers(lines)
      understood == IF kind = "request" THEN RequestLine(lines[1]) ELSE StatusLine(lines[1])
      refused == contains_nul(lines[1]) \/ hs = Refused \/ ~understood
  IN  IF refused THEN [headers |-> <<>>, framing |-> RefusedHead]
      ELSE [headers |-> hs, framing |-> Framing(hs)]

request_has_body(hs) == find_header(hs, "Content-Length") # Absent \/ find_header(hs, "Transfer-Encoding") # Absent

----------------------------------------------------------------------------
(* What the proxy writes of a head that it has read. *)

HopByHop ==
  {"Connection", "Keep-Alive", "Proxy-Authenticate", "Proxy-Authorization", "TE", "Trailer", "Transfer-Encoding", "Upgrade"}

Via == <<"Via">>

\* the headers that are passed on: all but those with one of those names
Copied(hs, dropped) ==
  LET copy[i \in 0 .. Len(hs)] ==
        IF i = 0 THEN <<>>
        ELSE IF \E word \in dropped : Names(hs[i].name, word) THEN copy[i - 1]
        ELSE add_header(copy[i - 1], hs[i].name, hs[i].value)
  IN  add_header(copy[Len(hs)], Via, <<"1.1", " ", "jscoverage-server">>)

Written(hs) == set_header(hs, <<"Connection">>, <<"close">>)

\* the body is passed on as it is
\* mutant: Transfer-Encoding goes the way of the other hop-by-hop headers
Relayed_Dropped(hs) == Written(Copied(hs, HopByHop \ {"Trailer"}))
Relayed(hs) == Written(Copied(hs, HopByHop \ {"Trailer", "Transfer-Encoding"}))

\* a new body takes the place of the one that came
Rewritten(hs, length) ==
  Written(set_header(Copied(hs, HopByHop \cup {"Content-Length"}), <<"Content-Length">>, length))
=============================================================================
