----------------------------- MODULE ReportSum -----------------------------
(***************************************************************************)
(* What the stores to one report add up to, one after the other: the       *)
(* handler of POST /jscoverage-store (jscoverage-server.c) parses what was *)
(* sent and then the report that is there into one table, and writes the   *)
(* table.  CoverageStore has stores at the same time, and does not count.  *)
(***************************************************************************)
EXTENDS CoverageMerge, Calls

CONSTANTS
  Ids,            \* names of files
  Texts,          \* sources
  Documents,      \* what is sent to the store
  Found,          \* the source the server finds when no document has it
  MaxStores       \* bound on the number of stores to one report

Element == Nat \cup {Null, Other}
FileEntry == [file : Ids, lines : Seq(Element), source : Texts \cup {NoSource}]

\* the counters of a page are never negative
ASSUME DocumentsAssumption == Documents \subseteq Seq(FileEntry) /\ Found \in Texts /\ MaxStores \in Nat

VARIABLES
  report,         \* jscoverage.json, or <<>> if there is none
  stored          \* the documents that were accepted

vars == <<call, result, report, stored>>

Init == NoCall /\ report = <<>> /\ stored = <<>>

\* a store: the document first, then the report that is there
Store(document) ==
  LET posted == ParseJson(Table, document)
      merged == ParseJson(posted, report)
  IN /\ call.name \in {"none", "store"} /\ Len(stored) < MaxStores
     /\ Called("store", document, merged.result)
     /\ IF merged.result = 0
        THEN report' = WriteJson(merged, Found) /\ stored' = Append(stored, document)
        ELSE UNCHANGED <<report, stored>>

\* calls that have nothing to do with the report
AnotherCall == call'.name # "store" /\ UNCHANGED <<report, stored>>

StoresSpec == Init /\ [][(\E d \in Documents : Store(d)) \/ AnotherCall]_vars

----------------------------------------------------------------------------
(* what has been stored *)

EntriesOf(documents) == FlattenSeq(documents)

CountOf(entry, file, l) ==
  IF entry.file = file /\ l \in DOMAIN entry.lines /\ entry.lines[l] \notin {Null, Other} THEN entry.lines[l] ELSE 0
\* the sum of all the counts that entries have for a line of a file
Total(entries, file, l) ==
  LET sum[n \in 0 .. Len(entries)] == IF n = 0 THEN 0 ELSE sum[n - 1] + CountOf(entries[n], file, l)
  IN sum[Len(entries)]

Fits(documents) ==
  LET entries == EntriesOf(documents)
  IN \A e \in ToSet(entries) : \A l \in DOMAIN e.lines : Total(entries, e.file, l) <= IntMax

\* every element is a count or null, and each file has the lines, and the lines with
\* counts, that it always has
Shape(entry) == [l \in DOMAIN entry.lines |-> entry.lines[l] = Null]
Agree(entries) ==
  /\ \A e \in ToSet(entries) : Other \notin ToSet(e.lines)
  /\ \A e, x \in ToSet(entries) : e.file = x.file => Shape(e) = Shape(x)

\* the first source in entries, if any; the newest document with one has it, and
\* otherwise it is what is found
FirstSource(entries, file) ==
  LET with == {k \in DOMAIN entries : entries[k].file = file /\ entries[k].source # NoSource}
  IN IF with = {} THEN NoSource ELSE entries[Min(with)].source
NewestSource(documents, file) ==
  LET with == {d \in DOMAIN documents : FirstSource(documents[d], file) # NoSource}
  IN IF with = {} THEN Found ELSE FirstSource(documents[Max(with)], file)

\* In whatever order and however often they name a file, the documents that were
\* accepted are in the report with the exact sum of their counts, as long as it fits in
\* an int, each file once and with its newest source (jscoverage_parse_json, write_json).
SumsExact ==
  Fits(stored) =>
    LET entries == ToSet(EntriesOf(stored))
    IN /\ {e.file : e \in ToSet(report)} = {x.file : x \in entries}
       /\ \A i, j \in DOMAIN report : report[i].file = report[j].file => i = j
       /\ \A e \in ToSet(report), x \in entries : e.file = x.file =>
            /\ e.lines = [l \in DOMAIN x.lines |-> IF x.lines[l] = Null THEN Null
                                                  ELSE Total(EntriesOf(stored), x.file, l)]
            /\ e.source = NewestSource(stored, x.file)

\* A store is accepted if and only if its elements are counts and each file of it has
\* the lines, and the lines with counts, that it always had; unless a sum is too large,
\* which makes a line null that is none (jscoverage_parse_json).
RefusedRightly ==
  call.name = "store" =>
    LET all == IF result = 0 THEN stored ELSE Append(stored, call.input)
    IN Fits(all) => (result = 0 <=> Agree(EntriesOf(all)))
=============================================================================
