--------------------------- MODULE CoverageMerge ---------------------------
(***************************************************************************)
(* How counts add up: jscoverage_parse_json (instrument-js.cpp) adds a     *)
(* document to a table, write_json (jscoverage-server.c) makes a document  *)
(* of the table.  A document is a sequence of entries [file, lines,        *)
(* source]; a line is a count, Null, or Other for any other element.  A    *)
(* count in the table is an int: it wraps around at IntMax.                *)
(***************************************************************************)
EXTENDS Integers, SequencesExt

CONSTANTS IntMax, Null, Other, NoSource

ASSUME MergeAssumption == IntMax \in Nat /\ {Null, Other} \cap Int = {} /\ Null # Other

Wrap(n) == ((n + IntMax + 1) % (2 * IntMax + 2)) - IntMax - 1

\* a count in the table stands for null as well
Unset == -1
Stored(element) == IF element = Null THEN Unset ELSE Wrap(element)

\* a table: the files it has so far, with what is known of them
Table == [files |-> <<>>, result |-> 0]
NoTable(result) == [files |-> <<>>, result |-> result]
Index(files, file) == SelectInSeq(files, LAMBDA f : f.file = file)

\* mutant: a null where the table has a count is skipped
Mismatch_OneWay(count, element) == element # Null /\ count = Unset
Mismatch(count, element) == (element = Null) # (count = Unset)

Sum(count, element) == IF element = Null THEN count ELSE Wrap(count + Wrap(element))

AddLines(counts, lines) == [i \in DOMAIN counts |-> Sum(counts[i], lines[i])]
\* the elements are looked at one after the other: the first that is wrong decides
Refusal(counts, lines) ==
  LET mismatch == {i \in DOMAIN lines : lines[i] # Other /\ Mismatch(counts[i], lines[i])}
      wrong == {i \in DOMAIN lines : lines[i] = Other}
  IN IF Len(counts) # Len(lines) \/ (\E i \in mismatch : \A j \in wrong : i < j) THEN -2
     ELSE IF wrong # {} THEN -1 ELSE 0

\* mutant: the source of the report on disk replaces that of the document
Source_Oldest(old, new) == IF new = NoSource THEN old ELSE new
Source(old, new) == IF old = NoSource THEN new ELSE old

AddEntry(table, entry) ==
  LET at == Index(table.files, entry.file)
      old == table.files[at]
      refusal == Refusal(old.counts, entry.lines)
  IN IF table.result # 0 THEN table
     ELSE IF at = 0
     THEN IF \E i \in DOMAIN entry.lines : entry.lines[i] = Other THEN NoTable(-1)
          ELSE [table EXCEPT !.files = Append(@, [file |-> entry.file, source |-> entry.source,
                  counts |-> [i \in DOMAIN entry.lines |-> Stored(entry.lines[i])]])]
     ELSE IF refusal # 0 THEN NoTable(refusal)
     ELSE [table EXCEPT !.files[at] = [file |-> old.file, source |-> Source(old.source, entry.source),
                                       counts |-> AddLines(old.counts, entry.lines)]]

ParseJson(table, document) ==
  LET parsed[n \in 0 .. Len(document)] == IF n = 0 THEN table ELSE AddEntry(parsed[n - 1], document[n])
  IN parsed[Len(document)]

\* what cannot be found anywhere else is an empty source
WriteJson(table, elsewhere) ==
  [i \in DOMAIN table.files |->
     LET f == table.files[i]
     IN [file |-> f.file, source |-> IF f.source = NoSource THEN elsewhere ELSE f.source,
         lines |-> [l \in DOMAIN f.counts |-> IF f.counts[l] < 0 THEN Null ELSE f.counts[l]]]]
=============================================================================
