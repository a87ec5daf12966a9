---------------------------- MODULE Instrumenter ----------------------------
(***************************************************************************)
(* instrument-js.cpp: jscoverage_instrument_js rewrites a script so that   *)
(* it counts its statements (instrument_statement, output_statement) and   *)
(* notes the branches that are to be left out of the statistics.  The      *)
(* script as it was and the instrumented one run side by side: the first   *)
(* evaluates an expression, the second has to evaluate the same and gets   *)
(* the same outcome.  Text is a list of nodes; that the output is parsed   *)
(* again by the browser shows where a label stands before several of them. *)
(* The report page's reading of the counts (jscoverage.js) is Missing.     *)
(***************************************************************************)
EXTENDS JavaScript, Summary, SequencesExt

CONSTANTS
  Programs,     \* [tree, marks]: parse tree, and the directive lines of the text
  MaxLine       \* bound on line numbers

ASSUME InstrumenterAssumption ==
  /\ MaxLine \in Nat
  /\ \A p \in Programs : p.tree.kind = "list" /\ DOMAIN p.marks = 1 .. MaxLine

VARIABLES
  program,
  lines,            \* the lines that are set to 0 before the script runs
  source, script,   \* the two, running
  pending,          \* what the source has evaluated and the script not yet
  excess,           \* counts of a line in the script less beginnings of its statements
  hit,              \* lines with a count other than 0
  conditionals,     \* of the first of lines not to be looked at: the line after them, or 0
  taken,            \* [line, kid] of the branches of if statements taken
  untrue            \* the regions whose condition is not true

vars == <<program, lines, source, script, pending, excess, hit, conditionals, taken, untrue>>

----------------------------------------------------------------------------
(* the rewriting *)

Count(line) == Node("count", line, line, "", <<>>)
Conditional(a, b) == Node("conditional", a, b, "", <<>>)
Braces(nodes) == Node("list", 0, 0, "", nodes)

\* D: the lines with a //#JSCOVERAGE_IF without a condition
RECURSIVE InstrumentStatement(_, _, _), OutputStatement(_, _, _)

InstrumentAll(nodes, D) ==
  FlattenSeq([i \in DOMAIN nodes |-> InstrumentStatement(nodes[i], FALSE, D)])

Branch(n, flag, D) == Braces(InstrumentStatement(n, flag, D))

\* an if statement, or one in the else of another, that has the directive
Exclusive(n, flag, D) == flag \/ (n.line >= 2 /\ n.line - 1 \in D)

\* mutant: the else branch is output without counting the statement it is
OutputIf_PlainElse(n, flag, D) ==
  <<[n EXCEPT !.kids = <<Branch(@[1], FALSE, D)>>
       \o (IF Len(@) = 2 THEN <<Braces(OutputStatement(@[2], flag, D))>> ELSE <<>>)]>>

\* mutant: the lines of the else branch end one too early
OutputIf_Short(n, flag, D) ==
  LET exclusive == Exclusive(n, flag, D)
      then == n.kids[1]
      noteElse == IF exclusive /\ Len(n.kids) = 2
                  THEN <<Conditional(n.kids[2].line, n.kids[2].end)>> ELSE <<>>
      noteThen == IF exclusive THEN <<Conditional(then.line + 1, then.end + 1)>> ELSE <<>>
      else == IF Len(n.kids) = 2 THEN InstrumentStatement(n.kids[2], exclusive, D) ELSE <<>>
  IN  <<[n EXCEPT !.kids = <<Braces(noteElse \o InstrumentStatement(then, FALSE, D))>>
           \o (IF Len(n.kids) = 2 \/ exclusive THEN <<Braces(noteThen \o else)>> ELSE <<>>)]>>

\* each branch notes the lines of the other
OutputIf(n, flag, D) ==
  LET exclusive == Exclusive(n, flag, D)
      then == n.kids[1]
      noteElse == IF exclusive /\ Len(n.kids) = 2
                  THEN <<Conditional(n.kids[2].line, n.kids[2].end + 1)>> ELSE <<>>
      noteThen == IF exclusive THEN <<Conditional(then.line + 1, then.end + 1)>> ELSE <<>>
      else == IF Len(n.kids) = 2 THEN InstrumentStatement(n.kids[2], exclusive, D) ELSE <<>>
  IN  <<[n EXCEPT !.kids = <<Braces(noteElse \o InstrumentStatement(then, FALSE, D))>>
           \o (IF Len(n.kids) = 2 \/ exclusive THEN <<Braces(noteThen \o else)>> ELSE <<>>)]>>

\* mutant: no braces around the body
OutputLoop_NoBraces(n, D) ==
  LET body == InstrumentStatement(n.kids[1], FALSE, D)
  IN  <<[n EXCEPT !.kids = <<Head(body)>>]>> \o Tail(body)

\* while, do, for, for/in, with
OutputLoop(n, D) == <<[n EXCEPT !.kids = <<Branch(@[1], FALSE, D)>>]>>

OutputSwitch(n, D) == <<[n EXCEPT !.kids = [i \in DOMAIN @ |-> Branch(@[i], FALSE, D)]]>>

OutputTry(n, D) ==
  <<[n EXCEPT !.kids = [i \in DOMAIN @ |-> IF @[i] = Nothing THEN Nothing ELSE Branch(@[i], FALSE, D)]]>>

\* mutant: the labelled statement is counted
OutputLabel_Counts(n, D) ==
  LET out == InstrumentStatement(n.kids[1], FALSE, D)
  IN  <<[n EXCEPT !.kids = <<Head(out)>>]>> \o Tail(out)

\* the label binds to what stands right after it
OutputLabel(n, D) ==
  LET labelled == IF n.kids[1].kind = "scope" THEN n.kids[1].kids[1] ELSE n.kids[1]
      out == OutputStatement(labelled, FALSE, D)
  IN  IF labelled.kind = "list"
      THEN <<[n EXCEPT !.kids = <<Branch(labelled, FALSE, D)>>]>>
      ELSE <<[n EXCEPT !.kids = <<Head(out)>>]>> \o Tail(out)

\* a let statement or a for with a let, or a block with one
OutputScope(n, D) ==
  LET inner == n.kids[1]
  IN  IF inner.kind = "list" THEN <<Branch(inner, FALSE, D)>> ELSE InstrumentStatement(inner, FALSE, D)

\* a function in an expression; an expression closure has no statements
InstrumentFunction(n, D) ==
  <<[n EXCEPT !.kids = IF n.label = "closure" THEN OutputStatement(@[1], FALSE, D) ELSE InstrumentAll(@, D)]>>

OutputStatement(n, flag, D) ==
  CASE n.kind \in {"list", "seq"} -> InstrumentAll(n.kids, D)
    [] n.kind = "if" -> OutputIf(n, flag, D)
    [] n.kind \in {"while", "do", "for", "forin", "with"} -> OutputLoop(n, D)
    [] n.kind = "switch" -> OutputSwitch(n, D)
    [] n.kind = "try" -> OutputTry(n, D)
    [] n.kind = "label" -> OutputLabel(n, D)
    [] n.kind = "scope" -> OutputScope(n, D)
    [] n.kind = "call" -> InstrumentFunction(n, D)
    [] OTHER -> <<n>>

InstrumentStatement(n, flag, D) ==
  (IF n.kind \in {"list", "scope"} THEN <<>> ELSE <<Count(n.line)>>) \o OutputStatement(n, flag, D)

----------------------------------------------------------------------------
(* the directives: a mark of a line is "", "if", "if condition" or "endif" *)

Directives(marks) == {i \in DOMAIN marks : marks[i] = "if"}

\* an ENDIF ends the newest region that has no end yet
Close(open, i) ==
  LET unended == {j \in DOMAIN open : open[j][2] = 0}
  IN  [j \in DOMAIN open |->
         IF j \in unended /\ \A h \in unended : h <= j THEN [open[j] EXCEPT ![2] = i] ELSE open[j]]

\* the regions [line of the IF, line of its ENDIF or 0], the newest last
IfDirectives(marks) ==
  LET f[i \in 0 .. MaxLine] ==
        IF i = 0 THEN <<>>
        ELSE CASE marks[i] = "if condition" -> Append(f[i - 1], <<i, 0>>)
               [] marks[i] = "endif" -> Close(f[i - 1], i)
               [] OTHER -> f[i - 1]
  IN  f[MaxLine]

----------------------------------------------------------------------------
RECURSIVE LinesOf(_)
LinesOf(n) == (IF n.kind = "count" THEN {n.line} ELSE {}) \cup UNION {LinesOf(k) : k \in ToSet(n.kids)}

Init ==
  /\ program \in Programs
  /\ source = Start(program.tree)
  /\ \E out \in {Braces(InstrumentStatement(program.tree, FALSE, Directives(program.marks)))} :
       script = Start(out) /\ lines = LinesOf(out)
  /\ pending = <<>>
  /\ excess = [l \in 1 .. MaxLine |-> 0]
  /\ conditionals = [l \in 1 .. MaxLine |-> 0]
  /\ hit = {} /\ taken = {} /\ untrue = {}

\* the source goes on to its next expression
SourceStep ==
  /\ pending = <<>> /\ Silent(source)
  /\ source' = Step(source)
  /\ excess' = IF Begins(source) THEN [excess EXCEPT ![Head(source.todo).line] = @ - 1] ELSE excess
  /\ UNCHANGED <<program, lines, script, pending, hit, conditionals, taken, untrue>>

SourceEvaluates ==
  /\ pending = <<>> /\ AtEvent(source)
  /\ \E o \in Outcomes(source) :
       /\ pending' = <<Event(source), o>>
       /\ source' = Resume(source, o)
  /\ UNCHANGED <<program, lines, script, excess, hit, conditionals, taken, untrue>>

Behind == pending # <<>> \/ Ended(source)

ScriptStep ==
  /\ Behind /\ Silent(script)
  /\ script' = Step(script)
  /\ LET n == Head(script.todo)
         running(kind) == script.completion = Normal /\ n.kind = kind
     IN  /\ excess' = IF running("count") THEN [excess EXCEPT ![n.line] = @ + 1] ELSE excess
         /\ hit' = IF running("count") THEN hit \cup {n.line} ELSE hit
         /\ conditionals' = IF running("conditional") THEN [conditionals EXCEPT ![n.line] = n.end] ELSE conditionals
  /\ UNCHANGED <<program, lines, source, pending, taken, untrue>>

Matches == pending # <<>> /\ AtEvent(script) /\ Event(script) = pending[1]

ScriptEvaluates ==
  /\ Matches
  /\ script' = Resume(script, pending[2])
  /\ pending' = <<>>
  /\ taken' = IF Head(script.todo).kids[1].kind = "if" /\ pending[2] # 0
              THEN taken \cup {<<Head(script.todo).line, pending[2]>>} ELSE taken
  /\ UNCHANGED <<program, lines, source, excess, hit, conditionals, untrue>>

\* the conditions at the end of the script
Regions == ToSet(IfDirectives(program.marks))

EvaluateConditions ==
  /\ Behind /\ Ended(script) /\ pending = <<>>
  /\ script.completion = Normal /\ untrue = {}
  /\ \E R \in SUBSET Regions :
       /\ R # {}
       /\ untrue' = R
       /\ conditionals' = [l \in 1 .. MaxLine |->
            IF \E r \in R : r[1] = l THEN (CHOOSE r \in R : r[1] = l)[2] ELSE conditionals[l]]
  /\ UNCHANGED <<program, lines, source, script, pending, excess, hit, taken>>

Next == SourceStep \/ SourceEvaluates \/ ScriptStep \/ ScriptEvaluates \/ EvaluateConditions

\* An engine that runs a script goes on with it.
FairSpec == Init /\ [][Next]_vars /\ WF_vars(ScriptStep \/ ScriptEvaluates)

----------------------------------------------------------------------------
(* jscoverage.js: which lines the summary counts as not executed *)

\* currentConditionalEnd, line by line
LeftOut == LET ends == ConditionalEnds(conditionals, MaxLine) IN {l \in lines : ends[l] # 0}
Missing == lines \ (hit \cup LeftOut)

----------------------------------------------------------------------------
Settled == (AtEvent(script) /\ pending # <<>>) \/ (Ended(source) /\ Ended(script) /\ pending = <<>>)

\* The instrumented script evaluates what the script evaluates, in the same
\* order, and ends as it ends, whatever the outcomes of its expressions are,
\* through every break, continue, return, exception and finally.
SameBehaviour ==
  /\ AtEvent(script) => Matches \/ (pending = <<>> /\ ~Ended(source))
  /\ Ended(script) => pending = <<>> /\ Ended(source) /\ script.completion = source.completion

\* Whenever the two stand at the same expression, every line has been counted
\* as often as its statements have begun.
CountsExact == Settled => \A l \in 1 .. MaxLine : excess[l] = 0

RECURSIVE Branches(_, _)
Branches(n, flag) ==
  LET exclusive == n.kind = "if" /\ Exclusive(n, flag, Directives(program.marks))
  IN  (IF exclusive THEN {<<n.line, i, IF i \in DOMAIN n.kids THEN n.kids[i] ELSE Nothing>> : i \in {1, 2}} ELSE {})
        \cup UNION {Branches(n.kids[i], exclusive /\ i = 2) : i \in DOMAIN n.kids}

Avoided == {b \in Branches(program.tree, FALSE) : <<b[1], 3 - b[2]>> \in taken}
NotTaken == {b \in Avoided : <<b[1], b[2]>> \notin taken}

\* the lines that count for a node, in the source
RECURSIVE Within(_)
Within(n) == (IF n.kind \in Statements THEN {n.line} ELSE {}) \cup UNION {Within(n.kids[i]) : i \in DOMAIN n.kids}

InUntrue == {l \in lines : \E r \in untrue : r[1] <= l /\ l < r[2]}

\* Of a then-branch the line it begins on is not noted: the conditional of
\* instrument-js.cpp:1069 begins on the next one.
LinesNoted(b) == Within(b[3]) \ (IF b[2] = 1 THEN {b[3].line} ELSE {})

\* The conditional of a then-branch that is on one line ends where it begins.
\* jscoverage.js:498 looks for the end only from the next line on, and leaves out
\* all that follows.
Unending == {b \in Avoided : b[2] = 1 /\ b[3].line = b[3].end}
Swallowed(b) == {l \in lines : l > b[3].line}

\* another conditional is in force, or ends, where that of b begins
Covered(b) ==
  \/ untrue # {}
  \/ \E a \in Avoided \ {b} : a[3].line <= b[3].line + 1 /\ b[3].line <= a[3].end

\* The branches of if statements with //#JSCOVERAGE_IF that were not taken are
\* not missing in the statistics (doc/manual.html:682), but for the first line
\* of a then-branch, nor are the lines of a region whose condition is not true
\* (doc/manual.html:623).  Nothing else is left out, but for all that follows a
\* then-branch on one line; and that is.
LeftOutExactly ==
  Settled =>
    /\ Missing \cap (UNION {LinesNoted(b) : b \in NotTaken} \cup InUntrue) = {}
    /\ LeftOut \subseteq UNION {LinesNoted(b) : b \in Avoided} \cup InUntrue
                           \cup UNION {Swallowed(b) : b \in Unending}
    /\ \A b \in Unending : Covered(b) \/ Swallowed(b) \subseteq LeftOut

\* The instrumented script reaches the expression that the script has reached.
Follows == (pending # <<>> ~> pending = <<>>) /\ (Ended(source) ~> Ended(script))
=============================================================================
