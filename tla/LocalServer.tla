---------------------------- MODULE LocalServer ----------------------------
(***************************************************************************)
(* Requests for what is below the document root, without --proxy: a URL is *)
(* taken apart and decoded, the entry of the file system is served, and a  *)
(* directory as a page of links that a client resolves again.  Text is a   *)
(* sequence of octets.  A tree maps the path of every entry, a sequence of *)
(* names, to what it is.                                                   *)
(***************************************************************************)
EXTENDS Integers, FiniteSets, SequencesExt, Calls

CONSTANT NoInstrument    \* the prefixes given with --no-instrument

Percent == 37
Amp == 38
Dot == 46
Slash == 47
Colon == 58
Semicolon == 59
Question == 63
Digits == 48 .. 57
Upper == 65 .. 90
Lower == 97 .. 122
Small(c) == IF c \in Upper THEN c + 32 ELSE c
Http == <<104, 116, 116, 112, 58, 47, 47>>
Jscoverage == <<106, 115, 99, 111, 118, 101, 114, 97, 103, 101>>
DotJs == <<46, 106, 115>>

UpTo(s, c) == LET i == SelectInSeq(s, LAMBDA x : x = c) IN IF i = 0 THEN s ELSE SubSeq(s, 1, i - 1)
From(s, i) == SubSeq(s, i, Len(s))
HasDots(s) == \E i \in 2 .. Len(s) : s[i - 1] = Dot /\ s[i] = Dot

----------------------------------------------------------------------------
(* URLs *)

Bad == <<>>
Absolute(url) == IsPrefix(Http, [i \in DOMAIN url |-> Small(url[i])])
Relative(url) ==
  IF ~Absolute(url) THEN url
  ELSE LET end == SelectInSubSeq(url, 8, Len(url), LAMBDA c : c \in {Slash, Question})
       IN IF end = 0 THEN <<>> ELSE From(url, end)
AbsPath(s) ==
  IF s = <<>> \/ s[1] = Question THEN <<Slash>> ELSE IF s[1] = Slash THEN UpTo(s, Question) ELSE Bad
URL_parse(url) == IF \E c \in ToSet(url) : c <= 32 \/ c >= 127 THEN Bad ELSE AbsPath(Relative(url))

\* pchar and mark of RFC 2396, but not the slash
Plain == Digits \cup Upper \cup Lower \cup {58, 64, 38, 61, 43, 36, 44} \cup {45, 95, 46, 33, 126, 42, 39, 40, 41}
HexDigit(v) == IF v < 10 THEN 48 + v ELSE 55 + v
\* a char above 127 is negative, and only the first two of its digits have room
Hex(c) == IF c > 127 THEN <<70, 70>> ELSE <<HexDigit(c \div 16), HexDigit(c % 16)>>
encode_uri_component(s) == FlattenSeq([i \in DOMAIN s |-> IF s[i] \in Plain THEN <<s[i]>> ELSE <<Percent>> \o Hex(s[i])])

HexValue(c) ==
  CASE c \in Digits -> c - 48
    [] c \in 65 .. 70 -> c - 55
    [] c \in 97 .. 102 -> c - 87
    [] OTHER -> 0
Decoded(s) ==
  LET from[i \in 1 .. Len(s) + 1] ==
        IF i > Len(s) THEN <<>>
        ELSE IF s[i] # Percent THEN <<s[i]>> \o from[i + 1]
        ELSE IF i + 2 > Len(s) THEN <<>>
        ELSE <<HexValue(s[i + 1]) * 16 + HexValue(s[i + 2])>> \o from[i + 3]
  IN from[1]
\* a string ends at its first zero
decode_uri_component(s) == UpTo(Decoded(s), 0)

Entity ==
  [c \in {38, 39, 34, 60, 62} |->
     CASE c = 38 -> <<97, 109, 112>> [] c = 39 -> <<97, 112, 111, 115>> [] c = 34 -> <<113, 117, 111, 116>>
       [] c = 60 -> <<108, 116>> [] c = 62 -> <<103, 116>>]
Written(c) == <<Amp>> \o Entity[c] \o <<Semicolon>>
encode_html(s) == FlattenSeq([i \in DOMAIN s |-> IF s[i] \in DOMAIN Entity THEN Written(s[i]) ELSE <<s[i]>>])

----------------------------------------------------------------------------
(* the file system *)

Split(s, c) ==
  LET parts[i \in 0 .. Len(s)] ==
        IF i = 0 THEN <<<<>>>>
        ELSE LET before == parts[i - 1]
             IN IF s[i] = c THEN Append(before, <<>>) ELSE [before EXCEPT ![Len(before)] = Append(@, s[i])]
  IN parts[Len(s)]
Nothing == {}
\* stat: the path of the entry that a text below the document root names; a slash
\* behind it asks for a directory
Stat(tree, text) ==
  LET parts == Split(text, Slash)
      path == SelectSeq(parts, LAMBDA x : x \notin {<<>>, <<Dot>>})
  IN IF path \notin DOMAIN tree THEN Nothing
     ELSE IF Last(parts) \in {<<>>, <<Dot>>} /\ tree[path] \notin {"directory", "closed directory"} THEN Nothing
     ELSE {path}
\* readdir: what is directly below, and the directory itself and the one above
Entries(tree, path) == {<<Dot>>, <<Dot, Dot>>} \cup {Last(p) : p \in {q \in DOMAIN tree : q # <<>> /\ Front(q) = path}}

make_path(relative) == <<Slash>> \o relative

----------------------------------------------------------------------------
(* handle_local_request *)

\* mutant: the name is put into the link as it is
Link_Raw(name) == [href |-> encode_html(name), text |-> encode_html(name)]
Link(name) == [href |-> encode_html(encode_uri_component(name)), text |-> encode_html(name)]
Extension(file) == LET dot == SelectLastInSeq(file, LAMBDA c : c = Dot) IN IF dot = 0 THEN <<>> ELSE From(file, dot)
is_no_instrument(uri, listed) == \E prefix \in listed : IsPrefix(prefix, uri) \/ IsPrefix(prefix, Tail(uri))

Missing == [kind |-> "missing"]
Served(tree, path, uri, abs_path, file, listed) ==
  IF tree[path] \in {"directory", "closed directory"}
  THEN IF Last(abs_path) # Slash THEN [kind |-> "moved", location |-> Append(uri, Slash)]
       ELSE IF tree[path] = "closed directory" THEN Missing
       ELSE [kind |-> "listing", path |-> path, links |-> {Link(e) : e \in Entries(tree, path)}]
  ELSE IF tree[path] \in {"closed file", "device"} THEN Missing
  ELSE IF Extension(file) = DotJs /\ ~is_no_instrument(abs_path, listed)
       THEN IF tree[path] = "garbled file" THEN [kind |-> "error"]
            ELSE [kind |-> "script", path |-> path, id |-> abs_path]
       ELSE [kind |-> "file", path |-> path]

Answer(tree, uri, listed) ==
  LET abs_path == URL_parse(uri)
      decoded == decode_uri_component(abs_path)
      joined == make_path(Tail(decoded))
      file == IF Last(joined) = Slash THEN Front(joined) ELSE joined
      found == Stat(tree, file)
  IN IF abs_path = Bad THEN [kind |-> "bad"]
     ELSE IF IsPrefix(<<Slash>> \o Jscoverage, decoded) THEN [kind |-> "special"]
     ELSE IF HasDots(decoded) THEN [kind |-> "refused"]
     ELSE IF found = Nothing THEN Missing
     ELSE Served(tree, CHOOSE p \in found : TRUE, uri, abs_path, file, listed)

\* mutant: the name is looked for as it stands in the URL
SourceOf_Encoded(tree, id) ==
  IF id = <<>> \/ id[1] # Slash \/ HasDots(id) THEN Nothing ELSE {p \in Stat(tree, make_path(Tail(id))) : tree[p] = "file"}
\* write_json_for_file, without --proxy: the file whose contents become the source, if
\* they can be decoded; what else can be opened reads as nothing
SourceOf(tree, id) ==
  LET decoded == decode_uri_component(id)
      found == Stat(tree, make_path(Tail(decoded)))
  IN IF id = <<>> \/ id[1] # Slash \/ HasDots(decoded) THEN Nothing
     ELSE {p \in found : tree[p] = "file"}

----------------------------------------------------------------------------
(* a client, as RFC 3986 has it *)

Shown(html) ==
  LET named(i) == {c \in DOMAIN Entity : IsPrefix(Written(c), From(html, i))}
      from[i \in 1 .. Len(html) + 1] ==
        IF i > Len(html) THEN <<>>
        ELSE IF named(i) = {} THEN <<html[i]>> \o from[i + 1]
        ELSE LET c == CHOOSE c \in named(i) : TRUE IN <<c>> \o from[i + Len(Written(c))]
  IN from[1]

\* the segments of a path without the dots
Undotted(segments) ==
  LET step(kept, x) == IF x = <<Dot>> THEN kept ELSE IF x # <<Dot, Dot>> THEN Append(kept, x)
                       ELSE IF kept = <<>> THEN kept ELSE Front(kept)
      all == FoldLeft(step, <<>>, segments)
  IN IF Last(segments) \in {<<Dot>>, <<Dot, Dot>>} THEN Append(all, <<>>) ELSE all
Joined(segments) == FlattenSeq([i \in DOMAIN segments |-> <<Slash>> \o segments[i]])
Normal(path) == Joined(Undotted(Split(Tail(path), Slash)))

\* a name and a colon at the beginning are a scheme
HasScheme(ref) ==
  LET colon == SelectInSeq(ref, LAMBDA c : c = Colon)
  IN colon > 1 /\ ref[1] \in Upper \cup Lower
     /\ \A i \in 1 .. colon - 1 : ref[i] \in Digits \cup Upper \cup Lower \cup {43, 45, 46}
Elsewhere == <<>>
\* what is requested for a reference in the page, or the redirect, at a URL
Resolve(base, ref) ==
  LET origin == SubSeq(base, 1, Len(base) - Len(Relative(base)))
      rest == From(ref, Len(UpTo(ref, Question)) + 1)
      path == UpTo(ref, Question)
      directory == LET at == UpTo(Relative(base), Question)
                   IN SubSeq(at, 1, SelectLastInSeq(at, LAMBDA c : c = Slash))
  IN IF Absolute(ref) THEN SubSeq(ref, 1, Len(ref) - Len(Relative(ref))) \o Normal(AbsPath(Relative(ref)))
                           \o From(Relative(ref), Len(UpTo(Relative(ref), Question)) + 1)
     ELSE IF HasScheme(ref) \/ IsPrefix(<<Slash, Slash>>, ref) THEN Elsewhere
     ELSE IF path = <<>> THEN origin \o UpTo(Relative(base), Question) \o rest
     ELSE IF path[1] = Slash THEN origin \o Normal(path) \o rest
     ELSE origin \o Normal((IF directory = <<>> THEN <<Slash>> ELSE directory) \o path) \o rest

----------------------------------------------------------------------------
(* requests *)

\* a request is made of a URL, over a tree
Get(request) ==
  Called("request", request, IF request.url = Elsewhere THEN [kind |-> "elsewhere"]
                             ELSE Answer(request.tree, request.url, NoInstrument))

Kinds == {"directory", "closed directory", "file", "closed file", "garbled file", "device"}
IsRequest(request) ==
  request.url \in Seq(Nat) /\ \A p \in DOMAIN request.tree : request.tree[p] \in Kinds
RequestsSpec ==
  NoCall /\ [][\/ \E request : IsRequest(request) /\ Get(request)
               \/ call'.name # "request"]_<<call, result>>

\* The name under which a script is instrumented leads the store to its source, except
\* behind a slash, written in whatever way: the server takes the slash away, the store
\* does not (jscoverage-server.c:526).
SourceFound ==
  call.name = "request" /\ result.kind = "script" =>
    (SourceOf(call.input.tree, result.id) = {result.path} <=> Last(decode_uri_component(result.id)) # Slash)
=============================================================================
