--------------------------- MODULE ExpressionText ---------------------------
(***************************************************************************)
(* instrument-js.cpp: output_expression writes the tree of an expression   *)
(* as text, with parentheses of its own, since those of the source are not *)
(* in the tree.  Text is a sequence of tokens.  Read is the parser that    *)
(* reads it again, an external one: that of a browser, or of the engine    *)
(* that made the tree.                                                     *)
(***************************************************************************)
EXTENDS Integers, SequencesExt

\* a tree: what it is, its parts, and a word of its own (an operator, a name)
Tree(kind, word, kids) == [kind |-> kind, word |-> word, kids |-> kids]

Lists == {"plus", "or"}
Relations == {"in", "instanceof"}
PrefixOps == {"-", "!", "typeof", "void", "delete", "++"}
Words == {"if", "foo-bar", ""}     \* property names that need quotes

Parens(text) == <<"(">> \o text \o <<")">>
If(condition, text) == IF condition THEN text ELSE <<>>
Separated(texts, separator) == FlattenSeq([i \in DOMAIN texts |-> If(i > 1, separator) \o texts[i]])

\* The program ends: of a list of relations, which the engine makes of a in b in c,
\* the end of the list is taken for the second operand.
Unsupported == <<"fatal">>

Negative(n) == n.kind = "number" /\ n.word \in {"-1", "-0"}
Number(n) ==
  CASE Negative(n) -> <<"-", IF n.word = "-1" THEN "1" ELSE "0">>
    [] n.word = "Infinity" -> <<"Number", ".", "POSITIVE_INFINITY">>
    [] OTHER -> <<n.word>>

Property(word) == IF word \in Words THEN <<"[", "'", word, "]">> ELSE <<".", word>>

RECURSIVE Text(_, _, _)

Argument(n) == Text(n, FALSE, TRUE)
Arguments(nodes) == Parens(Separated([i \in DOMAIN nodes |-> Argument(nodes[i])], <<",">>))

\* for (x in o) of a comprehension
ForIn(o) == <<"for">> \o Parens(<<"x", "in">> \o Argument(o))

\* kids: what is yielded (unless the condition is the constant 0), the objects, the
\* condition.  A yield there is taken for the one that a generator is made with.
Comprehension(n) ==
  LET yielded == n.kids[1] first == IF n.word = "never" THEN 1 ELSE 2
      last == IF n.word = "if" THEN Len(n.kids) - 1 ELSE Len(n.kids)
  IN (IF n.word = "never" THEN <<"1">> 
      ELSE IF n.kind = "generator" \/ yielded.kind # "yield" THEN Argument(yielded)
      ELSE IF yielded.kids = <<>> THEN Unsupported ELSE Argument(yielded.kids[1]))
       \o FlattenSeq([i \in 1 .. last - first + 1 |-> ForIn(n.kids[first + i - 1])])
       \o If(n.word = "never", <<"if">> \o Parens(<<"0">>))
       \o If(n.word = "if", <<"if">> \o Parens(Argument(Last(n.kids))))

Entry(n) ==
  IF n.kind = "getter" THEN <<"get", "k", "method">> ELSE <<"k", ":">> \o Argument(n)

\* mutant: numbers are not parenthesized before a dot
Owner_Bare(n) == Text(n, TRUE, TRUE)
Owner(n) == IF n.kind = "number" THEN Parens(Argument(n)) ELSE Text(n, TRUE, TRUE)

\* a callee or the head of a new, in parentheses unless it is one of the kinds
Callee(n, kinds) == IF n.kind \in kinds THEN Argument(n) ELSE Parens(Argument(n))

\* output_expression: object literals, and assignments, in parentheses
Text(n, objects, assignments) ==
  LET Kid(i) == Argument(n.kids[i])
      First == Text(n.kids[1], objects, TRUE)
      Rest(separator) == FlattenSeq([i \in 1 .. Len(n.kids) - 1 |-> separator \o Kid(i + 1)])
  IN CASE n.kind = "name" -> <<n.word>>
       [] n.kind = "number" -> Number(n)
       [] n.kind = "function" -> Parens(<<"function">>)
       [] n.kind = "comma" ->
            Parens(Separated([i \in DOMAIN n.kids |-> Text(n.kids[i], objects, TRUE)], <<",">>))
       [] n.kind = "assign" ->
            LET text == First \o <<n.word>> \o Kid(2)
            IN IF assignments THEN Parens(text) ELSE text
       [] n.kind = "hook" -> Parens(First \o <<"?">> \o Kid(2) \o <<":">> \o Kid(3))
       [] n.kind \in Lists -> Parens(First \o Rest(<<n.word>>))
       [] n.kind \in Relations ->
            IF Len(n.kids) > 2 THEN Unsupported
            ELSE Parens((IF n.kind = "in" THEN Kid(1) ELSE First) \o <<n.word>> \o Kid(2))
       [] n.kind = "prefix" -> Parens(<<n.word>> \o Kid(1))
       [] n.kind = "postfix" -> Parens(First \o <<n.word>>)
       [] n.kind = "new" -> <<"new">> \o Callee(n.kids[1], {"name"}) \o Arguments(Tail(n.kids))
       [] n.kind = "call" -> Callee(n.kids[1], {"name", "dot", "function"}) \o Arguments(Tail(n.kids))
       [] n.kind = "generator" -> Parens(Comprehension(n))
       [] n.kind = "comprehension" -> <<"[">> \o Comprehension(n) \o <<"]">>
       [] n.kind = "dot" -> Owner(n.kids[1]) \o Property(n.word)
       [] n.kind = "index" -> Kid(1) \o <<"[">> \o Kid(2) \o <<"]">>
       [] n.kind = "array" ->
            <<"[">> \o Separated([i \in DOMAIN n.kids |-> If(n.kids[i].kind # "hole", Kid(i))], <<",">>)
              \o If(n.word = "endcomma", <<",">>) \o <<"]">>
       [] n.kind = "object" ->
            LET text == <<"{">> \o Separated([i \in DOMAIN n.kids |-> Entry(n.kids[i])], <<",">>) \o <<"}">>
            IN IF objects THEN Parens(text) ELSE text
       [] n.kind = "let" ->
            Parens(<<"let">> \o Parens(<<"x", "=">> \o Kid(1)) \o Text(n.kids[2], TRUE, TRUE))
       [] n.kind = "yield" -> Parens(<<"yield">> \o If(n.kids # <<>>, Text(n.kids[1], TRUE, TRUE)))

----------------------------------------------------------------------------
(* the parser: what it reads from place i on, and the place after it *)

Error == Tree("error", "", <<>>)
Reading(n, i) == [node |-> n, next |-> i]
Nowhere == 1000       \* behind every text
Failed == Reading(Error, Nowhere)
At(text, i) == IF i \in DOMAIN text THEN text[i] ELSE "end"

Rank == [o \in {"||", "in", "instanceof", "+"} |-> CASE o = "||" -> 1 [] o = "+" -> 3 [] OTHER -> 2]
KindOf == [o \in DOMAIN Rank |-> CASE o = "||" -> "or" [] o = "+" -> "plus" [] OTHER -> o]
Reference(n) == n.kind \in {"name", "dot", "index", "call"}

\* a left-heavy tree of one operator is a list
Binary(op, a, b) ==
  Tree(KindOf[op], op, IF a.kind = KindOf[op] THEN Append(a.kids, b) ELSE <<a, b>>)
Prefixed(op, n) ==
  CASE op = "-" /\ n.kind = "number" -> [n EXCEPT !.word = "-" \o @]
    [] op = "++" /\ ~Reference(n) -> Error
    [] OTHER -> Tree("prefix", op, <<n>>)
Dotted(n, word) ==
  IF n = Tree("name", "Number", <<>>) THEN Tree("number", "Infinity", <<>>) ELSE Tree("dot", word, <<n>>)

\* One rule of the grammar for each kind of phrase.  isIn: whether in is an operator
\* here, which it is not in the head of a for
RECURSIVE Parse(_, _, _, _)
Comma(text, i, isIn) == Parse("comma", text, i, isIn)
Commas(text, i, isIn) == Parse("commas", text, i, isIn)
Assignment(text, i, isIn) == Parse("assignment", text, i, isIn)
Operand(text, i) == Parse("operand", text, i, TRUE)
Climb(text, r, rank, isIn) == Parse("climb", text, [read |-> r, rank |-> rank], isIn)
Member(text, i, calls) == Parse("member", text, i, calls)
Members(text, r, calls) == Parse("members", text, r, calls)
Items(text, i, close) == Parse("items", text, i, close)
EntryList(text, i) == Parse("entries", text, i, TRUE)
Fors(text, i) == Parse("fors", text, i, TRUE)

\* assignment expressions up to the closing token, with holes: the nodes
ItemsRule(text, i, close) ==
  CASE At(text, i) = close -> [nodes |-> <<>>, next |-> i + 1, comma |-> TRUE]
    [] At(text, i) = "," -> LET rest == Items(text, i + 1, close)
                            IN [rest EXCEPT !.nodes = <<Tree("hole", "", <<>>)>> \o @]
    [] OTHER ->
         LET r == Assignment(text, i, TRUE)
         IN CASE At(text, r.next) = "," -> LET rest == Items(text, r.next + 1, close)
                                           IN [rest EXCEPT !.nodes = <<r.node>> \o @]
              [] At(text, r.next) = close -> [nodes |-> <<r.node>>, next |-> r.next + 1, comma |-> FALSE]
              [] OTHER -> [nodes |-> <<Error>>, next |-> Nowhere, comma |-> FALSE]

Listed(text, i) ==
  LET r == Items(text, i, "]")
  IN Reading(Tree("array", IF r.comma /\ r.nodes # <<>> THEN "endcomma" ELSE "", r.nodes), r.next)
ArgumentList(text, i, kind, head) ==
  LET r == Items(text, i, ")")
  IN IF r.comma /\ r.nodes # <<>> THEN Failed ELSE Reading(Tree(kind, "", <<head>> \o r.nodes), r.next)

EntriesRule(text, i) ==
  CASE At(text, i) = "}" -> [nodes |-> <<>>, next |-> i + 1]
    [] At(text, i) = "," -> EntryList(text, i + 1)
    [] At(text, i) = "get" -> LET rest == EntryList(text, i + 3)
                              IN [rest EXCEPT !.nodes = <<Tree("getter", "", <<>>)>> \o @]
    [] At(text, i) = "k" -> LET r == Assignment(text, i + 2, TRUE)
                                rest == EntryList(text, r.next)
                            IN [rest EXCEPT !.nodes = <<r.node>> \o @]
    [] OTHER -> [nodes |-> <<Error>>, next |-> Nowhere]

\* for (x in o) for (x in p) if (q): the objects, and the condition with its word
ForsRule(text, i) ==
  CASE At(text, i) = "for" ->
         LET r == Comma(text, i + 4, TRUE)
             rest == Fors(text, r.next + 1)
         IN [rest EXCEPT !.nodes = <<r.node>> \o @]
    [] At(text, i) = "if" ->
         LET r == Comma(text, i + 2, TRUE)
         IN IF r.node = Tree("number", "0", <<>>)
            THEN [word |-> "never", nodes |-> <<>>, next |-> r.next + 1]
            ELSE [word |-> "if", nodes |-> <<r.node>>, next |-> r.next + 1]
    [] OTHER -> [word |-> "", nodes |-> <<>>, next |-> i]
Comprehended(text, r, kind, close) ==
  LET tail == Fors(text, r.next)
      first == IF tail.word = "never" THEN <<>> ELSE <<r.node>>
  IN IF At(text, tail.next) = close
     THEN Reading(Tree(kind, tail.word, first \o tail.nodes), tail.next + 1) ELSE Failed

Primary(text, i) ==
  LET t == At(text, i)
  IN CASE t \in {"x", "y", "Number"} -> Reading(Tree("name", t, <<>>), i + 1)
       [] t \in {"0", "1"} -> Reading(Tree("number", t, <<>>), i + 1)
       [] t = "function" -> Reading(Tree("function", "", <<>>), i + 1)
       [] t = "(" -> LET r == Comma(text, i + 1, TRUE)
                     IN CASE At(text, r.next) = "for" -> Comprehended(text, r, "generator", ")")
                          [] At(text, r.next) = ")" -> Reading(r.node, r.next + 1)
                          [] OTHER -> Failed
       [] t = "[" -> LET r == Assignment(text, i + 1, TRUE)
                     IN IF At(text, i + 1) \notin {",", "]"} /\ At(text, r.next) = "for"
                        THEN Comprehended(text, r, "comprehension", "]") ELSE Listed(text, i + 1)
       [] t = "{" -> LET r == EntryList(text, i + 1) IN Reading(Tree("object", "", r.nodes), r.next)
       [] t = "let" -> LET a == Assignment(text, i + 4, TRUE)
                           b == Assignment(text, a.next + 1, TRUE)
                       IN Reading(Tree("let", "", <<a.node, b.node>>), b.next)
       [] OTHER -> Failed

\* calls: whether an argument list is one, which it is not in the head of a new
MembersRule(text, r, calls) ==
  LET t == At(text, r.next)
  IN CASE t = "." -> IF text[r.next - 1] \in {"0", "1"} THEN Failed      \* 1.p is a number gone wrong
                     ELSE Members(text, Reading(Dotted(r.node, At(text, r.next + 1)), r.next + 2), calls)
       [] t = "[" /\ At(text, r.next + 1) = "'" ->
            Members(text, Reading(Tree("dot", At(text, r.next + 2), <<r.node>>), r.next + 4), calls)
       [] t = "[" /\ At(text, r.next + 1) # "'" ->
            LET k == Comma(text, r.next + 1, TRUE)
            IN IF At(text, k.next) = "]"
               THEN Members(text, Reading(Tree("index", "", <<r.node, k.node>>), k.next + 1), calls)
               ELSE Failed
       [] t = "(" /\ calls -> Members(text, ArgumentList(text, r.next + 1, "call", r.node), calls)
       [] OTHER -> r

MemberRule(text, i, calls) ==
  IF At(text, i) # "new" THEN Members(text, Primary(text, i), calls)
  ELSE LET head == Member(text, i + 1, FALSE)
       IN Members(text, ArgumentList(text, head.next + 1, "new", head.node), calls)

OperandRule(text, i) ==
  IF At(text, i) \in PrefixOps
  THEN LET r == Operand(text, i + 1) IN Reading(Prefixed(text[i], r.node), r.next)
  ELSE LET r == Member(text, i, TRUE)
       IN IF At(text, r.next) # "++" THEN r
          ELSE Reading(IF Reference(r.node) THEN Tree("postfix", "++", <<r.node>>) ELSE Error, r.next + 1)

\* the operators of at least this rank after what has been read
ClimbRule(text, r, rank, isIn) ==
  LET t == At(text, r.next)
  IN IF t \notin DOMAIN Rank \/ Rank[t] < rank \/ (t = "in" /\ ~isIn) THEN r
     ELSE LET right == Climb(text, Operand(text, r.next + 1), Rank[t] + 1, isIn)
          IN Climb(text, Reading(Binary(t, r.node, right.node), right.next), rank, isIn)

AssignmentRule(text, i, isIn) ==
  IF At(text, i) = "yield"
  THEN IF At(text, i + 1) = ")" THEN Reading(Tree("yield", "", <<>>), i + 1)
       ELSE LET r == Assignment(text, i + 1, isIn) IN Reading(Tree("yield", "", <<r.node>>), r.next)
  ELSE LET r == Climb(text, Operand(text, i), 1, isIn)
           a == Assignment(text, r.next + 1, TRUE)
           b == Assignment(text, a.next + 1, isIn)
           value == Assignment(text, r.next + 1, isIn)
           t == At(text, r.next)
       IN CASE t = "?" -> IF At(text, a.next) = ":"
                          THEN Reading(Tree("hook", "", <<r.node, a.node, b.node>>), b.next) ELSE Failed
            [] t \in {"=", "+="} -> Reading(IF Reference(r.node) THEN Tree("assign", t, <<r.node, value.node>>)
                                            ELSE Error, value.next)
            [] OTHER -> r

CommasRule(text, i, isIn) ==
  LET r == Assignment(text, i, isIn)
      rest == Commas(text, r.next + 1, isIn)
  IN IF At(text, r.next) # "," THEN [nodes |-> <<r.node>>, next |-> r.next]
     ELSE [rest EXCEPT !.nodes = <<r.node>> \o @]
CommaRule(text, i, isIn) ==
  LET r == Commas(text, i, isIn)
  IN Reading(IF Len(r.nodes) = 1 THEN r.nodes[1] ELSE Tree("comma", "", r.nodes), r.next)

Parse(rule, text, x, flag) ==
  CASE rule = "comma" -> CommaRule(text, x, flag)
    [] rule = "commas" -> CommasRule(text, x, flag)
    [] rule = "assignment" -> AssignmentRule(text, x, flag)
    [] rule = "operand" -> OperandRule(text, x)
    [] rule = "climb" -> ClimbRule(text, x.read, x.rank, flag)
    [] rule = "member" -> MemberRule(text, x, flag)
    [] rule = "members" -> MembersRule(text, x, flag)
    [] rule = "items" -> ItemsRule(text, x, flag)
    [] rule = "entries" -> EntriesRule(text, x)
    [] rule = "fors" -> ForsRule(text, x)

\* where an expression stands: a statement of its own may not begin like a block or a
\* declaration, the head of a for has no in, an operand of something else has no comma
Read(text, place) ==
  LET r == CASE place = "statement" -> IF text[1] \in {"{", "function", "let"} THEN Failed ELSE Comma(text, 1, TRUE)
             [] place = "for" -> Comma(text, 1, FALSE)
             [] place = "operand" -> Assignment(text, 1, TRUE)
  IN IF r.next = Len(text) + 1 THEN r.node ELSE Error
=============================================================================
