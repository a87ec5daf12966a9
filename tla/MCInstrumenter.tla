--------------------------- MODULE MCInstrumenter ---------------------------
(* Instances of Instrumenter for TLC: a statement of every kind, with        *)
(* everything that may leave it, inside one of every kind.                   *)
EXTENDS Instrumenter

S(kind, line, kids) ==
  Node(kind, line, IF kids = <<>> \/ Last(kids) = Nothing THEN line ELSE Last(kids).end, "", kids)
M(line, kid) == [S("label", line, <<kid>>) EXCEPT !.label = "M"]
L(line, kid) == [S("label", line, <<kid>>) EXCEPT !.label = "L"]
Exp(line) == S("exp", line, <<>>)
\* a block: it begins on the line of its brace and ends with its last statement
Block(line, nodes) == S("list", line, nodes)

NoMarks == [i \in 1 .. MaxLine |-> ""]
Mark(line, mark) == [NoMarks EXCEPT ![line] = mark]
Program(nodes) == [tree |-> Block(0, nodes), marks |-> NoMarks]

Leave(line) == {S(k, line, <<>>) : k \in {"exp", "return", "throw"}}
Exits(line) == {[S(k, line, <<>>) EXCEPT !.label = l] : k \in {"break", "continue"}, l \in {"", "L"}}
Out(line) == Leave(line) \cup Exits(line)

Closure(line) == [S("call", line, <<Frame("plain", S("return", line, <<>>))>>) EXCEPT !.label = "closure"]

Few(X) == {x \in X : x.kind \in {"exp", "return"} \/ (x.label = "L" /\ x.kind = "continue")}

\* statements of three lines that have one of the set X(line) in them
Compound(line, X(_)) ==
  {S("if", line, <<Block(line, <<x>>)>>) : x \in X(line + 1)}
    \cup {S("if", line, <<Block(line, <<x>>), y>>) : x \in X(line + 1), y \in Few(X(line + 3))}
    \cup {S("try", line, <<Block(line, <<Exp(line + 1)>>), Block(line, <<x>>), Block(line, <<Exp(line + 3)>>)>>) : x \in X(line + 2)}
    \cup {S("try", line, <<Block(line, <<x>>), Nothing, Block(line, <<y>>)>>) : x \in X(line + 1), y \in Few(X(line + 2))}
    \cup {S("switch", line, <<Block(line, <<x>>), Block(line, <<Exp(line + 2)>>)>>) : x \in X(line + 1)}
    \cup {S("scope", line, <<Block(line, <<x, Exp(line + 2)>>)>>) : x \in X(line + 1)}
    \cup {S("with", line, <<x>>) : x \in X(line + 1)}

\* a loop with such a statement, behind two labels
Body(X(_)) == {Block(3, <<Exp(4), c, Exp(9)>>) : c \in Compound(5, X)}
Loops(b) == {S(k, 3, <<b>>) : k \in {"while", "do", "for", "forin"}} \cup {S("scope", 3, <<S("for", 3, <<b>>)>>)}
InLoop == UNION {{Program(<<L(1, M(2, loop)), Exp(10)>>) : loop \in Loops(b)} : b \in Body(Out)}

\* the same outside of loops, in a function, and behind a label of its own
Straight == {Program(<<c, Exp(10)>>) : c \in Compound(2, Leave)}
Called == {Program(<<S("call", 1, <<c, Exp(8)>>), Closure(9), S("function", 10, <<>>)>>) : c \in Compound(2, Leave)}
BreakL(line) == {[S("break", line, <<>>) EXCEPT !.label = "L"]}
Labelled == {Program(<<L(1, c), Exp(10)>>) : c \in Compound(2, BreakL) \cup {Block(2, <<x>>) : x \in Compound(3, BreakL)}}

\* //#JSCOVERAGE_IF before an if statement, alone, with an else, with an else if,
\* and in a loop; a then-branch has lines of its own, or is on the line of its if,
\* or is a statement without braces, on the next line or on more
Thens(line) ==
  {Block(line, <<Exp(line + 1)>>), Block(line, <<Exp(line)>>), Exp(line + 1),
   S("while", line + 1, <<Block(line + 1, <<Exp(line + 2)>>)>>)}
Else == Block(5, <<Exp(6)>>)
Chain(then) == S("if", 5, <<then, Block(8, <<Exp(9), Exp(10)>>)>>)
Elses == {<<>>, <<Else>>} \cup {<<Chain(t)>> : t \in Thens(5)} \cup {<<S("if", 5, <<t>>)>> : t \in Thens(5)}
Ifs == {S("if", 2, <<t>> \o e) : t \in Thens(2), e \in Elses}
Marked(m, nodes) == [tree |-> Block(0, nodes), marks |-> m]
Directed ==
  {Marked(Mark(1, "if"), <<i, Exp(11)>>) : i \in Ifs}
    \cup {Marked(Mark(1, "if"), <<S("while", 1, <<Block(1, <<i>>)>>), Exp(11)>>) : i \in Ifs}

\* //#JSCOVERAGE_IF with a condition: one region in another, and one not ended
Regional ==
  {Marked([NoMarks EXCEPT ![1] = "if condition", ![3] = m, ![5] = "endif", ![7] = n],
          <<Exp(2), Exp(4), Exp(6), Exp(8)>>) : m \in {"", "if condition"}, n \in {"", "endif", "if condition"}}

MCPrograms == InLoop \cup Straight \cup Called \cup Labelled \cup Directed \cup Regional
=============================================================================
