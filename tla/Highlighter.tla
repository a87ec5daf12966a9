----------------------------- MODULE Highlighter -----------------------------
(***************************************************************************)
(* highlight.cpp: jscoverage_highlight_js marks the tokens and comments of *)
(* a source with spans, and jscoverage_write_source (instrument-js.cpp)    *)
(* writes the source, marked or not, as an array of lines.  The scanner    *)
(* takes the places of the tokens from the engine's tokenizer, an external *)
(* one, as lines and columns, and follows them character by character.     *)
(* A source is a sequence of lexemes [class, chars]; the class of white    *)
(* space and comments is "gap".                                            *)
(***************************************************************************)
EXTENDS Integers, SequencesExt

Chars(source) == FlattenSeq([i \in DOMAIN source |-> source[i].chars])

\* the characters that end a line; a CR before a LF does not end another one
Ends(chars, i) ==
  chars[i] \in {"LF", "CR", "LS"} /\ ~(chars[i] = "CR" /\ i < Len(chars) /\ chars[i + 1] = "LF")

----------------------------------------------------------------------------
(* the tokenizer: the place of a token, and of the character after it *)

LastEnd(chars, n) ==
  LET ends == {i \in 1 .. n : Ends(chars, i)}
  IN IF ends = {} THEN 0 ELSE CHOOSE i \in ends : \A j \in ends : j <= i
Place(chars, n) ==
  [line |-> 1 + Len(SelectSeq([i \in 1 .. n |-> i], LAMBDA i : Ends(chars, i))), column |-> n - LastEnd(chars, n)]

\* the tokens, with their kinds and places
Tokens(source) ==
  LET all == [i \in DOMAIN source |->
                LET before == Len(Chars(SubSeq(source, 1, i - 1)))
                IN [class |-> source[i].class, chars |-> source[i].chars, begin |-> Place(Chars(source), before),
                    end |-> Place(Chars(source), before + Len(source[i].chars))]]
  IN SelectSeq(all, LAMBDA t : t.class # "gap")

----------------------------------------------------------------------------
(* the scanner: where it is, the class of the open span, and its output *)

Reset == [offset |-> 0, line |-> 1, column |-> 0, class |-> "none", output |-> <<>>]

Open(class) == <<"open", class>>
Close == <<"close", "">>
AsText(c) == <<"text", c>>

\* mutant: the span is not closed at the end of a line
SpanClass_Kept(c, class) == class
SpanClass(c, class) == IF c \in {"LF", "CR", "LS"} THEN "none" ELSE class

EndsLine(chars, s, c) ==
  /\ c \in {"LF", "CR", "LS"}
  /\ ~(c = "CR" /\ s.offset + 1 < Len(chars) /\ chars[s.offset + 2] = "LF")

OutputCharacter(chars, s, c, class) ==
  LET span == SpanClass(c, class)
      tags == (IF span # s.class /\ s.class # "none" THEN <<Close>> ELSE <<>>)
                \o (IF span # s.class /\ span # "none" THEN <<Open(span)>> ELSE <<>>)
      ends == EndsLine(chars, s, c)
      shown == IF ends THEN <<AsText("LF")>> ELSE IF c = "CR" THEN <<>> ELSE <<AsText(c)>>
  IN [offset |-> s.offset + 1,
      line |-> IF ends THEN s.line + 1 ELSE s.line,
      column |-> IF ends THEN 0 ELSE s.column + 1,
      class |-> span, output |-> s.output \o tags \o shown]

Here(chars, s) == chars[s.offset + 1]
\* whether this character and the next are these
Pair(chars, s, c, d) == s.offset + 1 < Len(chars) /\ Here(chars, s) = c /\ chars[s.offset + 2] = d
Beyond(s, place) == s.line > place.line \/ (s.line = place.line /\ s.column >= place.column)

AfterLineEnd(state, c) == IF state = "line" /\ c \in {"LF", "CR", "LS"} THEN "normal" ELSE state

\* mark_nontoken_chars, up to a place: end is <<>> at the end of the source
RECURSIVE MarkGap(_, _, _, _), MarkToken(_, _, _, _), MarkAll(_, _, _, _)
MarkGap(chars, s, end, state) ==
  LET c == Here(chars, s)
      both(d) == OutputCharacter(chars, OutputCharacter(chars, s, c, "comment"), d, "comment")
      next == IF state = "normal" /\ Pair(chars, s, "/", "/") THEN "line" ELSE AfterLineEnd(state, c)
  IN IF s.offset = Len(chars) \/ (end # <<>> /\ Beyond(s, end[1])) THEN s
     ELSE IF state = "normal" /\ Pair(chars, s, "/", "*") THEN MarkGap(chars, both("*"), end, "multiline")
     ELSE IF state = "multiline" /\ Pair(chars, s, "*", "/") THEN MarkGap(chars, both("/"), end, "normal")
     ELSE MarkGap(chars, OutputCharacter(chars, s, c, IF next = "normal" THEN "none" ELSE "comment"), end, next)

Escape(chars, s) ==
  LET t == OutputCharacter(chars, s, "\\", "special")
  IN OutputCharacter(chars, t, Here(chars, t), "special")

MarkToken(chars, s, end, class) ==
  LET c == Here(chars, s)
      t == IF class = "string" /\ c = "\\" THEN Escape(chars, s) ELSE OutputCharacter(chars, s, c, class)
  IN IF Beyond(t, end) THEN t ELSE MarkToken(chars, t, end, class)

\* TSF_OPERAND, which tells the tokenizer what a slash is
Closers == {<<")">>, <<"]">>, <<"}">>}
Expects(operand, t) ==
  IF t.chars = <<"+", "+">> THEN operand ELSE t.class \in {"symbol", "keyword"} /\ t.chars \notin Closers
Slashed(operand, t) == (t.class = "regexp" /\ ~operand) \/ (t.chars = <<"/">> /\ operand)

\* one token after the other, with the asserts on the way; a slash that is taken for
\* the other one makes the tokenizer fail, and the program end
Lost == [Reset EXCEPT !.line = 0]
MarkAll(chars, s, tokens, operand) ==
  IF tokens = <<>> THEN MarkGap(chars, s, <<>>, "normal")
  ELSE LET t == Head(tokens)
           before == MarkGap(chars, s, <<t.begin>>, "normal")
           after == MarkToken(chars, before, t.end, t.class)
       IN IF \/ Slashed(operand, t)
             \/ before.line # t.begin.line \/ before.column # t.begin.column \/ after.line # t.end.line
          THEN Lost ELSE MarkAll(chars, after, Tail(tokens), Expects(operand, t))

Highlight(source) ==
  LET chars == Chars(source)
      s == MarkAll(chars, Reset, Tokens(source), FALSE)
  IN IF s.class = "none" THEN s ELSE OutputCharacter(chars, s, "LF", "none")

----------------------------------------------------------------------------
(* the array of lines that is written *)

\* seq without its line ends, which are at these places
SplitLines(seq, ends) ==
  LET starts == <<0>> \o ends
      count == IF seq # <<>> /\ starts[Len(starts)] < Len(seq) THEN Len(starts) ELSE Len(ends)
  IN [i \in 1 .. count |-> SubSeq(seq, starts[i] + 1, IF i \in DOMAIN ends THEN ends[i] - 1 ELSE Len(seq))]

WriteHighlighted(source) ==
  LET output == Highlight(source).output
  IN SplitLines(output, SelectSeq([i \in DOMAIN output |-> i], LAMBDA i : output[i] = AsText("LF")))

\* the characters, with the CR that belongs to a LF skipped
WritePlain(source) ==
  LET chars == Chars(source)
      lines == SplitLines(chars, SelectSeq([i \in DOMAIN chars |-> i], LAMBDA i : Ends(chars, i)))
  IN [i \in DOMAIN lines |-> SelectSeq(lines[i], LAMBDA c : c # "CR")]
=============================================================================
