---------------------------- MODULE Conversions ----------------------------
(***************************************************************************)
(* The parts of the system that only compute: the text of expressions, the *)
(* marked source, the sum of counts and its summary, the answer to a       *)
(* request for a local file.  A step is one call; stores to one report     *)
(* (ReportSum) and the requests of one client come one after another.      *)
(***************************************************************************)
EXTENDS ExpressionText, Highlighter, ReportSum, MissingColumn, LocalServer

CONSTANTS
  Expressions,    \* trees
  Sources,        \* sequences of lexemes
  Listings,       \* [counts, noted]: the counts of a file with its conditionals
  Visits,         \* trees below the document root, each with a first URL
  MaxLinks        \* bound on the links that are followed one after another

\* the calls that leave no state behind
Call(name, input, value) == Called(name, input, value) /\ UNCHANGED <<report, stored>>

\* output_statement, a for head, and everything else that has an expression in it
Objects(place) == place = "statement"
Assignments(place) == place = "operand"
OutputExpression ==
  call = Idle /\ \E n \in Expressions, place \in {"statement", "for", "operand"} :
    Call("expression", [tree |-> n, place |-> place], Text(n, Objects(place), Assignments(place)))

WriteSource ==
  call = Idle /\ \E s \in Sources :
    Call("source", s, [marked |-> WriteHighlighted(s), plain |-> WritePlain(s)])

SummarizeOne == \E l \in Listings : Summarize(l) /\ UNCHANGED <<report, stored>>

\* requests: link is the name on the link that was followed, in the list of a
\* directory that was got from a URL; hops counts the redirects since
Ask(request) == Get(request) /\ UNCHANGED <<report, stored>>
Request ==
  call = Idle /\ \E v \in Visits :
    Ask([tree |-> v[1], url |-> v[2], from |-> v[2], listed |-> <<>>, link |-> <<>>, links |-> 0, hops |-> 0])
Redirect ==
  /\ call.name = "request" /\ result.kind = "moved" /\ call.input.hops = 0
  /\ Ask([call.input EXCEPT !.url = Resolve(@, result.location), !.hops = 1])
Follow ==
  /\ call.name = "request" /\ result.kind = "listing" /\ call.input.links < MaxLinks
  /\ \E link \in result.links :
       Ask([call.input EXCEPT !.url = Resolve(@, Shown(link.href)), !.from = call.input.url,
                              !.listed = result.path, !.link = Shown(link.text), !.links = @ + 1, !.hops = 0])

Next == OutputExpression \/ WriteSource \/ SummarizeOne \/ (\E d \in Documents : Store(d)) \/ Request \/ Redirect \/ Follow

Spec == Init /\ [][Next]_vars

----------------------------------------------------------------------------
(* expressions *)

RECURSIVE Parts(_), Bare(_)
Parts(n) == {n} \cup UNION {Parts(k) : k \in ToSet(n.kids)}

\* (-1)[x] is written -1[x]; of three relations in a row the program makes no text;
\* the yield of the first expression of an array comprehension is dropped
Garbled(n) ==
  \/ n.kind = "index" /\ Negative(n.kids[1])
  \/ n.kind \in Relations /\ Len(n.kids) > 2
  \/ n.kind = "comprehension" /\ n.word # "never" /\ n.kids[1].kind = "yield"

\* ({})[x] at the beginning of a statement is written {}[x]
Bare(n) ==
  \/ n.kind = "index" /\ (n.kids[1].kind = "object" \/ Bare(n.kids[1]))
  \/ n.kind = "dot" /\ Bare(n.kids[1])
  \/ n.kind = "call" /\ n.kids[1].kind = "dot" /\ Bare(n.kids[1])
Misread(n, place) ==
  \/ \E m \in Parts(n) : Garbled(m)
  \/ place = "statement" /\ Bare(IF n.kind = "assign" THEN n.kids[1] ELSE n)

\* The text of an expression is read again as the same expression, wherever it stands
\* and however little of the source's parentheses the tree has kept, with the four
\* exceptions above (output_expression).
SameExpression ==
  call.name = "expression" =>
    (Read(result, call.input.place) = call.input.tree <=> ~Misread(call.input.tree, call.input.place))

----------------------------------------------------------------------------
(* marked sources *)

\* the lines of a source, each character with the class of its lexeme; in a string
\* a backslash and what follows it have a class of their own
Escaped(chars, i) == chars[i] = "\\" \/ (i > 1 /\ chars[i - 1] = "\\" /\ ~(i > 2 /\ chars[i - 2] = "\\"))
Classes(x) ==
  [i \in DOMAIN x.chars |->
     <<x.chars[i], CASE x.class = "string" /\ Escaped(x.chars, i) -> "special"
                     [] x.class = "gap" -> IF x.chars[1] = "/" THEN "comment" ELSE "none"
                     [] OTHER -> x.class>>]
Expected(source) ==
  LET all == FlattenSeq([i \in DOMAIN source |-> Classes(source[i])])
      chars == Chars(source)
      lines == SplitLines(all, SelectSeq([i \in DOMAIN all |-> i], LAMBDA i : Ends(chars, i)))
  IN [i \in DOMAIN lines |-> SelectSeq(lines[i], LAMBDA c : c[1] # "CR")]

\* what a line shows, read from its beginning on: a span is closed in the line it is
\* opened in, and only one is open
Readable(line) ==
  LET f[i \in 0 .. Len(line)] ==
        IF i = 0 THEN [class |-> "none", shown |-> <<>>, good |-> TRUE]
        ELSE LET before == f[i - 1]
             IN CASE line[i][1] = "open" -> [before EXCEPT !.class = line[i][2], !.good = @ /\ before.class = "none"]
                  [] line[i][1] = "close" -> [before EXCEPT !.class = "none", !.good = @ /\ before.class # "none"]
                  [] OTHER -> [before EXCEPT !.shown = Append(@, <<line[i][2], before.class>>)]
  IN f[Len(line)]

\* a regular expression is where the tokenizer is not told to expect one: at the very
\* beginning, behind a condition, behind a block; or a division is where it is told to
\* expect one: behind a keyword that names a property
SlashMistaken(source) ==
  \E i \in DOMAIN source :
    LET before == SelectSeq(SubSeq(source, 1, i - 1), LAMBDA x : x.class # "gap" /\ x.chars # <<"+", "+">>)
    IN \/ source[i].class = "regexp" /\ (before = <<>> \/ Last(before).chars \in {<<")">>, <<"}">>})
       \/ source[i].chars = <<"/">> /\ before # <<>> /\ Last(before).class = "keyword"

\* The marked form has the lines of the source and of the plain form, each of them
\* correct HTML by itself, and every character is marked as what it belongs to:
\* highlight.cpp follows the tokenizer over every kind of line end.  Only for a source
\* with a slash that the tokenizer mistakes is there no marked form.
WellMarked ==
  call.name = "source" =>
    IF SlashMistaken(call.input) THEN result.marked = <<>> ELSE
    LET lines == [i \in DOMAIN result.marked |-> Readable(result.marked[i])]
    IN /\ [i \in DOMAIN lines |-> lines[i].shown] = Expected(call.input)
       /\ \A i \in DOMAIN lines : lines[i].good /\ lines[i].class = "none"
       /\ result.plain = [i \in DOMAIN lines |-> [j \in DOMAIN lines[i].shown |-> lines[i].shown[j][1]]]

----------------------------------------------------------------------------
(* local files *)

Same == <<Dot>>
Above == <<Dot, Dot>>
\* what the name on a link stands for in the list of a directory
Target(path, name) ==
  CASE name = Same -> path
    [] name = Above -> IF path = <<>> THEN path ELSE Front(path)
    [] OTHER -> Append(path, name)
Followed == call.name = "request" /\ call.input.link # <<>> /\ ~(result.kind = "moved" /\ call.input.hops = 0)
Reaches(path) ==
  /\ result.kind \in (IF call.input.tree[path] = "directory" THEN {"listing"} ELSE {"file", "script"})
  /\ result.path = path

HexDigits == Digits \cup 65 .. 70 \cup 97 .. 102
\* an escape is a percent sign and two digits, and stands for no zero
Correct(url) ==
  \A i \in {j \in DOMAIN url : url[j] = Percent} :
    Len(url) >= i + 2 /\ {url[i + 1], url[i + 2]} \subseteq HexDigits /\ SubSeq(url, i + 1, i + 2) # <<48, 48>>
TwoSlashes == <<Slash, Slash>>
\* a name with two dots is refused; one that begins as the server's own pages do is taken
\* for one; an octet above 127 is written as 255; a colon can make a scheme of what is
\* before it; behind two slashes the redirect to a directory leads to another host, and
\* above them is the same directory
Astray(url, listed, name, directory) ==
  \/ HasDots(name) /\ name # Above
  \/ listed = <<>> /\ IsPrefix(Jscoverage, name) /\ ~IsPrefix(TwoSlashes, url)
  \/ \E c \in ToSet(name) : c > 127
  \/ HasScheme(name)
  \/ directory /\ name \notin {Same, Above} /\ IsPrefix(TwoSlashes, url)
  \/ name = Above /\ listed # <<>> /\ IsSuffix(TwoSlashes, url)

\* Every link of a list leads to the entry that it names, through one redirect if that
\* is a directory, whatever of it the URL and the page have to write in another way, and
\* whatever correct URL the list was got from; Astray names the exceptions.  One redirect
\* is enough, unless there is a query: the slash goes behind it, again and again
\* (handle_local_request, encode_uri_component, encode_html).
LinksLead ==
  /\ Followed /\ Correct(call.input.from) =>
       LET path == Target(call.input.listed, call.input.link)
           kind == call.input.tree[path]
           url == Normal(URL_parse(call.input.from))
       IN kind \in {"directory", "file"} =>
            (Reaches(path) <=> ~Astray(url, call.input.listed, call.input.link, kind = "directory"))
  /\ call.name = "request" /\ call.input.hops = 1 /\ result.kind # "elsewhere" =>
       (result.kind = "moved" <=> Question \in ToSet(call.input.url))
=============================================================================
