--------------------------- MODULE MCConversions ---------------------------
(* Instances of Conversions for TLC: every kind of expression in every other *)
(* one, every three lexemes, every file of six lines, a few documents.       *)
EXTENDS Conversions

X == Tree("name", "x", <<>>)
Num(word) == Tree("number", word, <<>>)
N(kind, kids) == Tree(kind, "", kids)
Hole == N("hole", <<>>)
DotP(h) == Tree("dot", "p", <<h>>)
At0(h) == N("index", <<h, X>>)

Leaves == {X, Num("1"), Num("-1"), Num("-0"), Num("Infinity"), N("function", <<>>), N("object", <<>>), N("array", <<>>)}
Around(h) ==
  {N("comma", <<h, X>>), N("comma", <<X, h>>), Tree("assign", "=", <<X, h>>), Tree("assign", "+=", <<DotP(h), X>>),
   Tree("assign", "=", <<At0(h), X>>), N("hook", <<h, X, X>>), N("hook", <<X, h, X>>), N("hook", <<X, X, h>>),
   Tree("plus", "+", <<h, X>>), Tree("plus", "+", <<X, h, X>>), Tree("or", "||", <<h, X>>), Tree("or", "||", <<X, h>>),
   Tree("in", "in", <<h, X>>), Tree("in", "in", <<X, h>>), Tree("in", "in", <<X, h, X>>),
   Tree("instanceof", "instanceof", <<h, X>>), Tree("instanceof", "instanceof", <<X, h>>),
   Tree("instanceof", "instanceof", <<h, X, X>>),
   Tree("prefix", "-", <<h>>), Tree("prefix", "!", <<h>>), Tree("prefix", "typeof", <<h>>),
   Tree("prefix", "delete", <<DotP(h)>>), Tree("prefix", "++", <<At0(h)>>),
   Tree("postfix", "++", <<DotP(h)>>), Tree("postfix", "++", <<At0(h)>>),
   N("new", <<h>>), N("new", <<X, h>>), N("call", <<h>>), N("call", <<h, X, X>>), N("call", <<X, X, h>>),
   DotP(h), Tree("dot", "foo-bar", <<h>>), At0(h), N("index", <<X, h>>),
   N("array", <<h>>), N("array", <<h, Hole, X>>), Tree("array", "endcomma", <<h, Hole>>), Tree("array", "endcomma", <<Hole, h>>),
   N("object", <<h>>), N("object", <<h, N("getter", <<>>)>>),
   N("let", <<h, X>>), N("let", <<X, h>>), N("yield", <<h>>), N("yield", <<>>),
   N("comprehension", <<h, X>>), N("comprehension", <<X, h, X>>), Tree("comprehension", "if", <<X, X, h>>),
   Tree("comprehension", "never", <<h>>), N("generator", <<h, X>>), Tree("generator", "if", <<X, h, X>>)}

\* the trees that the engine makes: constants are folded, lists are flat
Made(n) ==
  LET first == n.kids[1]
  IN CASE n.kind = "prefix" -> ~(n.word \in {"-", "!"} /\ first.kind = "number")
       [] n.kind \in Lists \cup Relations -> first.kind # n.kind /\ ~(n.kind = "or" /\ first.kind = "number")
       [] n.kind = "hook" -> first.kind # "number"
       [] OTHER -> TRUE
Wrapped(nodes) == UNION {{t \in Around(h) : Made(t)} : h \in nodes}
MCExpressions == Leaves \cup Wrapped(Leaves) \cup Wrapped(Wrapped(Leaves))

----------------------------------------------------------------------------
Lexeme(class, chars) == [class |-> class, chars |-> chars]
Tokens3 == {Lexeme("none", <<"a">>), Lexeme("symbol", <<"+", "+">>), Lexeme("symbol", <<"<">>),
            Lexeme("string", <<"'", "\\", "'", "\\", "\\", "'">>), Lexeme("string", <<"'", "\\", "LF", "'">>),
            Lexeme("string", <<"'", "\\", "CR", "LF", "'">>), Lexeme("string", <<"'", "/", "*", "'">>),
            Lexeme("symbol", <<")">>), Lexeme("symbol", <<"}">>), Lexeme("symbol", <<"/">>), Lexeme("keyword", <<"i", "n">>),
            Lexeme("regexp", <<"/", "\\", "/", "/">>)}
Spaces == {Lexeme("gap", s) : s \in {<<" ">>, <<"LF">>, <<"CR">>, <<"LS">>}}
LineComment == Lexeme("gap", <<"/", "/", "*", "a">>)
Comments == {Lexeme("gap", c) : c \in {<<"/", "*", "*", "/">>, <<"/", "*", "/", "LF", "/", "/", "*", "/">>, <<"/", "*", "CR", "LF", "*", "/">>}}
\* two lexemes that may stand side by side
Beside(x, y) ==
  /\ x = LineComment => y.chars[1] \in {"LF", "CR", "LS"}
  /\ ~({x.class, y.class} \subseteq {"none", "regexp", "keyword"})
  /\ ~(x.class = "symbol" /\ y.class = "symbol")
  /\ x.chars = <<"/">> => y.chars \in {<<"a">>, <<" ">>}
\* a regular expression stands for an operand, a division does not
Before(s, i) == SelectSeq(SubSeq(s, 1, i - 1), LAMBDA x : x.class # "gap")
Legal(s) ==
  \A i \in DOMAIN s :
    LET before == Before(s, i)
        after(closers) == before # <<>> /\ Last(before).chars \in closers
        operator == before # <<>> /\ Last(before).class = "symbol" /\ ~after({<<")">>, <<"}">>, <<"+", "+">>})
    IN /\ s[i].class = "regexp" => before = <<>> \/ operator \/ after({<<")">>, <<"}">>, <<"i", "n">>})
       /\ s[i].chars = <<"/">> => before # <<>> /\ ~operator
MCSources ==
  LET All == Tokens3 \cup Spaces \cup Comments \cup {LineComment}
  IN {<<>>} \cup {<<x>> : x \in {y \in All : Legal(<<y>>)}} \cup {s \in All \X All : Beside(s[1], s[2]) /\ Legal(s)}
       \cup {s \in All \X All \X All : Beside(s[1], s[2]) /\ Beside(s[2], s[3]) /\ Legal(s)}

----------------------------------------------------------------------------
MCListings ==
  {[counts |-> c, noted |-> [l \in 1 .. 6 |-> 0]] : c \in UNION {[L -> {0, 5}] : L \in SUBSET (1 .. 6)}}
    \cup {[counts |-> c, noted |-> [[l \in 1 .. 6 |-> 0] EXCEPT ![2] = end]] : c \in [1 .. 6 -> {0, 5}], end \in {2, 4, 6}}

Entry1(file, lines, source) == [file |-> file, lines |-> lines, source |-> source]
Entries1 ==
  {Entry1("a", lines, source) : lines \in {<<Null, 1>>, <<Null, 5>>}, source \in {NoSource, "old", "new"}}
    \cup {Entry1("a", lines, "new") : lines \in {<<0, 1>>, <<1>>, <<Other, 1>>, <<1, Other>>}}
EntriesB == {Entry1("b", <<2, Null>>, "new"), Entry1("b", <<2, Null>>, NoSource)}
MCDocuments ==
  {<<e>> : e \in Entries1} \cup {<<e, f>> : e \in EntriesB, f \in {x \in Entries1 : x.source # "old"}} \cup {<<f, f>> : f \in Entries1 \cup EntriesB}
----------------------------------------------------------------------------
\* names that are written in another way in a URL or in HTML, and what they are
Names == {<<97>>, <<32>>, <<37, 54, 49>>, <<63>>, <<38, 108, 116, 59>>, <<34>>, <<39>>, <<43>>, <<97, 46, 46, 97>>,
          <<233>>, <<97, 58, 97>>, <<49, 58>>, Jscoverage}
Script == <<97>> \o DotJs
TreeWith(n, kind) ==
  [p \in {<<>>, <<n>>, <<Script>>, <<<<100>>>>, <<<<100>>, n>>, <<<<100>>, Script>>} |->
     CASE p \in {<<>>, <<<<100>>>>} -> "directory" [] Last(p) = n -> kind [] OTHER -> "file"]
MCTree == TreeWith(<<97>>, "directory")

\* what a client may type: a path with and without a host, slashes twice or at the
\* end, escapes that are good, cut or zero, a query
Pieces == {<<47>>, <<100>>, <<97>>, <<37, 54, 52>>, <<37, 48, 48>>, <<37>>, <<46, 46>>, DotJs}
Strings(k) == UNION {[1 .. j -> Pieces] : j \in 0 .. k}
Typed ==
  {<<47>> \o FlattenSeq(s) : s \in Strings(3)} \cup {<<47>> \o FlattenSeq(s) \o <<63, 113>> : s \in Strings(1)}
    \cup {Http \o <<104>> \o p : p \in {<<>>, <<63, 113>>, <<47>>, <<47, 100>>, <<47, 100, 63, 113>>, <<47, 100, 47>>}}
    \cup {<<47>> \o Script \o p : p \in {<<47>>, <<37, 50, 70>>, <<47, 37>>}} \cup {<<47, 32>>, <<100>>}
MCNoInstrument == {<<100, 47>>}
MCVisits ==
  {<<MCTree, u>> : u \in Typed}
    \cup {<<TreeWith(n, kind), u>> : n \in Names, kind \in {"directory", "file"}, u \in {<<47>>, <<47, 47>>, <<47, 100, 37, 50, 70>>}}
    \cup {<<TreeWith(<<97>>, kind), <<47>>>> : kind \in {"closed directory", "closed file", "device"}}
    \cup {<<TreeWith(Script, "garbled file"), <<47>>>>}
=============================================================================
