------------------------------- MODULE MCBody -------------------------------
(* Instances of MessageBody for TLC: bodies of up to two chunks, in the     *)
(* notations a sender may choose, cut off at every octet.                   *)
EXTENDS MessageBody

CRLF == <<"r", "n">>
EOLs == {CRLF, <<"n">>, <<";", "x", "r", "n">>}

\* data that looks like size lines and line ends
Data == {<<"x">>, <<"0", "n">>}
Digit(d) == IF Len(d) = 1 THEN <<"1">> ELSE <<"2">>
Long == [i \in 1 .. 17 |-> "x"]

Chunks == {[octets |-> Digit(d) \o eol \o d \o CRLF, entity |-> d] : d \in Data, eol \in EOLs}
            \cup {[octets |-> <<>>, entity |-> <<>>]}
LongChunk == [octets |-> <<"1", "1">> \o CRLF \o Long \o CRLF, entity |-> Long]

Trailers == {<<>>, <<"x", "r", "n">>, <<"x", "n", " ", "x", "r", "n">>}
Last(t) == <<"0", "r", "n">> \o t \o CRLF

StatusOK == <<"HTTP/1.1", " ", "2", "0", "0", " ", "OK", "eol">>
Post == <<"POST", " ", "uri", " ", "HTTP/1.1", "eol">>
H(name, value) == <<name, ":", " ">> \o value \o <<" ">>
Host == H("Host", <<"origin">>)
TE(value) == H("Transfer-Encoding", value)
CL(value) == H("Content-Length", value)

Message(kind, lines, mark, body, whose) ==
  [kind |-> kind, bodiless |-> FALSE, head |-> lines, entire |-> TRUE,
   framing |-> mark, octets |-> body, entity |-> whose, end |-> Len(body)]

Body(c, d, t) ==
  Message("response", <<StatusOK, TE(<<"chunked">>)>>, "chunked", c.octets \o d.octets \o Last(t), c.entity \o d.entity)

Whole == {Body(c, d, t) : c \in Chunks, d \in Chunks, t \in Trailers} \cup {Body(LongChunk, d, <<>>) : d \in Chunks}
Cut(m) == {[m EXCEPT !.octets = SubSeq(@, 1, n)] : n \in 0 .. Len(m.octets)}
Followed(m) == [m EXCEPT !.octets = @ \o <<"x", "x">>]

\* sizes that do not fit, that hardly fit, and that are no numbers
Wrong == {<<"1", "0", "0">>, <<"f", "f">>, <<"2", "f", "f">>, <<"x">>, <<"1", "x">>}
Bad == {Message("response", <<StatusOK, TE(<<"chunked">>)>>, "chunked", n \o CRLF \o <<"x">> \o CRLF \o Last(<<>>),
                NoEntity) : n \in Wrong}

(* Heads: every notation of each way to mark the end of a body. *)
Lines(kind) == IF kind = "request" THEN <<Post, Host>> ELSE <<StatusOK, H("Trailer", <<"x">>)>>
Kinds == {"request", "response"}

ChunkedHeads ==
  {<<TE(<<"CHUNKED">>)>>, <<H("Transfer-Encoding~", <<"chunked">>), H("Connection~", <<"close">>)>>,
   <<TE(<<"gzip", " ", ",", " ", "chunked">>)>>, <<TE(<<"gzip">>), Host, TE(<<"chunked">>)>>,
   <<TE(<<"chunked", " ", ";", "x", "=", "quoted", ";", " ", "x", "=", "x">>)>>,
   <<<<"Transfer-Encoding", " ", ":", "chunked">>>>, <<TE(<<>>), TE(<<"chunked">>)>>,
   <<CL(<<"0">>), TE(<<"chunked">>)>>, <<TE(<<"chunked">>), CL(<<"1">>)>>,
   <<H("Transfer-Encoding~", <<"gzip">>), TE(<<"chunked">>)>>}
OfChunked ==
  {Message(k, Lines(k) \o h, "chunked", c.octets \o Last(<<>>), c.entity) : k \in Kinds, h \in ChunkedHeads, c \in Chunks}

LengthHeads ==
  {<<CL(<<"1">>)>>, <<H("Content-Length~", <<"0", "1">>), CL(<<>>)>>, <<CL(<<"1">>), TE(<<"identity">>)>>,
   <<CL(<<"1">>), H("Content-Length~", <<"2">>)>>}
LongLengths == {<<"2", "5", "5">>, <<"2">>}
OfLength ==
  {Message(k, Lines(k) \o h, "length", <<"x">>, <<"x">>) : k \in Kinds, h \in LengthHeads}
    \cup {[Message("response", <<StatusOK, CL(n)>>, "length", <<"x">>, <<"x">>) EXCEPT !.end = 255] : n \in LongLengths}
    \cup {Message("request", <<Post, CL(<<"0">>)>>, "length", <<>>, <<>>)}

CloseHeads == {<<>>, <<TE(<<"gzip">>)>>, <<TE(<<"chunked", ",", "gzip">>)>>, <<CL(<<>>)>>}
OfClose == {Message("response", <<StatusOK>> \o h, "close", <<"x">>, <<"x">>) : h \in CloseHeads}

NoBodies ==
  {[Message("response", <<StatusOK, h>>, "length", <<>>, <<>>) EXCEPT !.bodiless = TRUE] :
     h \in {CL(<<"2">>), TE(<<"chunked">>)}}
    \cup {Message("request", Lines("request"), "length", <<>>, <<>>)}

\* lines that are no headers, lengths and codings that are none
Malformed ==
  {<<"Host">>, <<":", "x">>, <<"Host", "x", " ", "x", ":", "x">>, <<"Host", ":", "NUL">>, CL(<<"x">>), CL(<<"1", " ", "1">>),
   CL(<<"2", "5", "5", "0">>), CL(<<"5", "5", "5">>), CL(<<"1", ",", "1">>), TE(<<"chunked", ";", "x">>),
   TE(<<"chunked", ";", "x", "=", ":">>), TE(<<"chunked", ";", "=", "x">>), TE(<<"gzip", ",", ",", "chunked">>), TE(<<"quoted">>)}
StartLines == {<<"POST", "eol">>, <<"POST", " ", "uri", "eol">>, <<" ", "uri", " ", "HTTP/1.1", "eol">>, <<"NUL">>, <<>>,
               <<"HTTP/1.1", " ", "2", "0", "eol">>, <<"HTTP/1.1", " ", "2", "0", "0", "eol">>}
OfNothing ==
  {Message(k, Append(Lines(k), h), "chunked", <<"x">>, NoEntity) : k \in Kinds, h \in Malformed}
    \cup {Message(k, <<l>>, "chunked", <<"x">>, NoEntity) : k \in Kinds, l \in StartLines}

\* heads that the end of the input cuts off
CutHead(m) ==
  UNION {{[m EXCEPT !.head = Append(SubSeq(m.head, 1, i - 1), SubSeq(m.head[i], 1, n)), !.entire = FALSE, !.octets = <<>>] :
            n \in 0 .. Len(m.head[i])} : i \in DOMAIN m.head}
CutHeads ==
  UNION {CutHead(m) : m \in {Message(k, Lines(k) \o h, "length", <<"x">>, <<"x">>) :
                                k \in Kinds, h \in {<<CL(<<"1", "1">>)>>, <<TE(<<"gzip", ",", "chunked">>)>>}}}

Digits(n) == IF n = 0 THEN <<"0">> ELSE IF n = 1 THEN <<"1">> ELSE <<"2", "5">>
Length(d) == Message("response", <<StatusOK, CL(Digits(Len(d)))>>, "length", d, d)
Close(d) == Message("response", <<StatusOK>>, "close", d, d)
Entities == {<<>>, <<"x">>, [i \in 1 .. 25 |-> IF i = 1 THEN "n" ELSE "x"]}

MCMessages ==
  UNION {Cut(m) : m \in Whole} \cup {Followed(m) : m \in Whole} \cup Bad
    \cup {Length(d) : d \in Entities} \cup {Followed(Length(d)) : d \in Entities}
    \cup {Close(d) : d \in Entities}
    \cup OfChunked \cup OfLength \cup OfClose \cup NoBodies \cup OfNothing \cup CutHeads
=============================================================================
