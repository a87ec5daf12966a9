----------------------------- MODULE JavaScript -----------------------------
(***************************************************************************)
(* What a browser does with the statements of a script, as far as their    *)
(* order goes: an expression is an event whose outcome the environment     *)
(* chooses.  A statement is a node of the parse tree; `kids' are its       *)
(* statements, `line' and `end' are where it begins and ends.              *)
(* A script that runs is a stack of nodes to be done next, and of frames   *)
(* that say what a completion meets on its way out.                        *)
(***************************************************************************)
EXTENDS Naturals, Sequences

Node(kind, line, end, label, kids) ==
  [kind |-> kind, line |-> line, end |-> end, label |-> label, kids |-> kids]

Nothing == Node("nothing", 0, 0, "", <<>>)
Frame(kind, n) == Node(kind, n.line, n.line, n.label, <<n>>)

Normal == <<"normal", "">>
Thrown == <<"throw", "">>

Start(n) == [todo |-> <<n>>, completion |-> Normal]

----------------------------------------------------------------------------
\* statements that begin with the evaluation of an expression
Evaluating == {"exp", "if", "while", "forin", "for", "switch", "with", "call", "return", "throw"}
Statements == Evaluating \cup {"do", "try", "label", "break", "continue", "function"}
Tests == {"eval", "test", "dotest", "update"}

Ended(m) == m.todo = <<>>
AtEvent(m) == ~Ended(m) /\ m.completion = Normal /\ Head(m.todo).kind \in Tests

\* which expression is evaluated: the test, the initialisation, ... of a statement
Event(m) == <<Head(m.todo).kind, Head(m.todo).kids[1].kind, Head(m.todo).line>>

\* 0: it throws; otherwise it is false, or which of the kids is next
Outcomes(m) ==
  LET n == Head(m.todo).kids[1]
  IN  CASE n.kind = "throw" -> {0}
        [] n.kind \in {"exp", "call", "with", "return"} -> {0, 1}
        [] n.kind = "for" /\ Head(m.todo).kind \in {"eval", "update"} -> {0, 1}
        [] n.kind = "switch" -> 0 .. Len(n.kids) + 1
        [] OTHER -> 0 .. 2

\* what is to be done after the expression of frame f has the outcome o
Chosen(f, o) ==
  LET n == f.kids[1]
  IN  CASE n.kind = "exp" -> <<>>
        [] n.kind = "if" -> IF o <= Len(n.kids) THEN <<n.kids[o]>> ELSE <<>>
        [] n.kind \in {"while", "forin"} -> IF o = 1 THEN <<n.kids[1], Frame("loop", n)>> ELSE <<>>
        [] n.kind = "do" -> IF o = 1 THEN <<n.kids[1], Frame("loop", n)>> ELSE <<>>
        [] n.kind = "for" /\ f.kind \in {"eval", "update"} -> <<Frame("test", n)>>
        [] n.kind = "for" /\ f.kind \notin {"eval", "update"} -> IF o = 1 THEN <<n.kids[1], Frame("loop", n)>> ELSE <<>>
        [] n.kind = "switch" -> SubSeq(n.kids, o, Len(n.kids)) \o <<Frame("switching", n)>>
        [] n.kind = "with" -> <<n.kids[1]>>
        [] n.kind = "call" -> n.kids \o <<Frame("calling", n)>>
        [] OTHER -> <<>>

Resume(m, o) ==
  LET n == Head(m.todo).kids[1]
  IN  [todo |-> (IF o = 0 THEN <<>> ELSE Chosen(Head(m.todo), o)) \o Tail(m.todo),
       completion |-> IF o = 0 THEN Thrown ELSE IF n.kind = "return" THEN <<"return", "">> ELSE Normal]

----------------------------------------------------------------------------
\* the labels of the loop that ends where `rest' begins
Labels(rest) ==
  {rest[i].label : i \in {j \in DOMAIN rest : \A h \in 1 .. j : rest[h].kind = "labelled"}}

\* the frame that follows the body of a loop
Again(n) ==
  CASE n.kind = "do" -> Frame("dotest", n) [] n.kind = "for" -> Frame("update", n) [] OTHER -> Frame("eval", n)

Enter(n) ==
  CASE n.kind \in Evaluating -> <<Frame("eval", n)>>
    [] n.kind = "do" -> <<n.kids[1], Frame("loop", n)>>
    [] n.kind = "label" -> <<Frame("plain", n.kids[1]), Frame("labelled", n)>>
    [] n.kind = "try" -> <<n.kids[1], Frame("trying", n)>>
    [] OTHER -> <<>>

\* a statement with a label: it begins together with it
Uncounted(n) ==
  CASE n.kind \in Statements -> Enter(n)
    [] n.kind = "scope" -> <<Frame("plain", n.kids[1])>>
    [] OTHER -> <<n>>

\* one step that evaluates nothing, with the completion `normal'
Proceed(m) ==
  LET n == Head(m.todo)
      rest == Tail(m.todo)
      next == CASE n.kind = "list" -> n.kids \o <<Frame("end", n)>>
                [] n.kind \in {"scope", "seq"} -> n.kids
                [] n.kind = "plain" -> Uncounted(n.kids[1])
                [] n.kind = "loop" -> <<Again(n.kids[1])>>
                [] n.kind = "trying" -> IF n.kids[1].kids[3] = Nothing THEN <<>> ELSE <<n.kids[1].kids[3]>>
                [] OTHER -> Enter(n)
  IN  [todo |-> next \o rest,
       completion |-> CASE n.kind \in {"break", "continue"} -> <<n.kind, n.label>>
                        [] n.kind = "resume" -> <<n.kids[1].kind, n.kids[1].label>>
                        [] OTHER -> Normal]

\* a completion other than `normal' meets the next node
Unwind(m) ==
  LET n == Head(m.todo)
      rest == Tail(m.todo)
      c == m.completion
      after(k) == [todo |-> k, completion |-> Normal]
      caught == c = Thrown /\ n.kids[1].kids[2] # Nothing
      pending == Node("resume", 0, 0, "", <<Node(c[1], 0, 0, c[2], <<>>)>>)
  IN  CASE n.kind \in {"loop", "switching"} /\ c = <<"break", "">> -> after(rest)
        [] n.kind = "loop" /\ c[1] = "continue" /\ c[2] \in Labels(rest) \cup {""} -> after(<<Again(n.kids[1])>> \o rest)
        [] n.kind = "labelled" /\ c = <<"break", n.label>> -> after(rest)
        [] n.kind = "calling" /\ c[1] = "return" -> after(rest)
        [] n.kind = "trying" /\ caught -> after(<<n.kids[1].kids[2], Frame("trying", [n.kids[1] EXCEPT !.kids[2] = Nothing])>> \o rest)
        [] n.kind = "trying" /\ ~caught /\ n.kids[1].kids[3] # Nothing -> after(<<n.kids[1].kids[3], pending>> \o rest)
        [] OTHER -> [m EXCEPT !.todo = rest]

Silent(m) == ~Ended(m) /\ ~AtEvent(m)
Step(m) == IF m.completion = Normal THEN Proceed(m) ELSE Unwind(m)

\* the statement that a step begins, if any
Begins(m) == m.completion = Normal /\ Head(m.todo).kind \in Statements
=============================================================================
