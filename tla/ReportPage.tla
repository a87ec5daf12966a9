----------------------------- MODULE ReportPage -----------------------------
(***************************************************************************)
(* jscoverage.js: the page with the tabs.  A browser calls its handlers    *)
(* one at a time: clicks, callbacks of setTimeout and the answers to its   *)
(* requests, between which everything else may happen.  A lengthy          *)
(* operation goes on from timer to timer, and                              *)
(* jscoverage_inLengthyOperation is to keep others away until its end.     *)
(***************************************************************************)
EXTENDS Naturals, FiniteSets, SequencesExt

CONSTANTS
  Modes,        \* of "normal", "server", "inverted", "server inverted", "report"
  Files,        \* in the report
  Lines,        \* lines of a file that links lead to
  MaxClicks,    \* bound on what the user does
  MaxRuns,      \* bound on the scripts that run beside the page
  None

ASSUME ReportPageAssumption ==
  /\ Modes \subseteq {"normal", "server", "inverted", "server inverted", "report"}
  /\ None \notin Files \cup Lines
  /\ Lines \subseteq Nat \ {0} /\ MaxClicks \in Nat /\ MaxRuns \in Nat

VARIABLES
  mode, loaded,
  coverage,         \* _$jscoverage: how many scripts have added to it
  jscoverage_inLengthyOperation,
  timers,           \* what setTimeout is to call, the oldest first
  loading,          \* jscoverage.json is asked for
  storing,          \* clicks on the store button that are followed and not answered
  thrown,           \* those of them for which no answer can come
  tab, page,        \* the tab that is marked and the one whose page is shown
  checkbox, columns,\* show the missing column; how many there are
  rows,             \* of the summary: the coverage they are of, with missing lines or not
  jscoverage_currentFile, jscoverage_currentLine,
  heading, table,   \* the name over the source and the file whose source it is
  scrolled,         \* the line the source was last scrolled to
  throbbers,        \* which are turning
  clicks, last      \* how many clicks were followed, and the last of them

vars == <<mode, loaded, coverage, jscoverage_inLengthyOperation, timers, loading, storing, thrown, tab, page,
          checkbox, columns, rows, jscoverage_currentFile, jscoverage_currentLine, heading, table,
          scrolled, throbbers, clicks, last>>

source == <<jscoverage_currentFile, jscoverage_currentLine, heading, table, scrolled>>
summary == <<checkbox, columns, rows>>
server == <<coverage, loading, storing, thrown, throbbers>>

----------------------------------------------------------------------------
NoRows == [of |-> 0, missing |-> FALSE]

HasBrowserTab == mode \in {"normal", "server"}

\* which tabs the page has; the first of them is shown when it is loaded
Tabs ==
  {"summary", "source", "about"}
    \cup (IF HasBrowserTab THEN {"browser"} ELSE {})
    \cup (IF mode \in {"server", "server inverted"} THEN {"store"} ELSE {})

FirstTab == IF HasBrowserTab THEN "browser" ELSE "summary"

Timer(delay, run, arg, line) == [delay |-> delay, run |-> run, arg |-> arg, line |-> line]

\* endLengthyOperation: the flag stays for another 50 milliseconds
End == Timer(50, "end", None, None)

\* A timer is called after those that were set before it and are due by then.
Due(i) == \A j \in 1 .. i - 1 : timers[j].delay > timers[i].delay

Init ==
  /\ mode \in Modes /\ loaded = FALSE
  /\ coverage = 0
  /\ jscoverage_inLengthyOperation = FALSE
  /\ timers = <<>> /\ loading = FALSE /\ storing = 0 /\ thrown = 0
  /\ tab = None /\ page = None
  /\ checkbox = FALSE /\ columns = 0 /\ rows = NoRows
  /\ jscoverage_currentFile = None /\ jscoverage_currentLine = None
  /\ heading = None /\ table = None /\ scrolled = None
  /\ throbbers = {}
  /\ clicks = 0 /\ last = <<"load", None, None>>

\* jscoverage_body_load: in a report the request is sent, or open() or send()
\* throw; without a browser tab the summary is shown at once, which also ends
\* an operation
Load ==
  /\ ~loaded /\ loaded' = TRUE
  /\ \E missing \in BOOLEAN, sent \in IF mode = "report" THEN BOOLEAN ELSE {FALSE} :
       /\ jscoverage_inLengthyOperation' = (mode = "report")
       /\ loading' = sent
       /\ throbbers' = IF sent THEN {"summary"} ELSE {}
       /\ timers' = (IF mode = "report" /\ ~sent THEN <<End>> ELSE <<>>)
                      \o (IF HasBrowserTab THEN <<>> ELSE <<End>>)
       /\ checkbox' = missing /\ columns' = IF missing THEN 1 ELSE 0
       /\ rows' = IF HasBrowserTab THEN NoRows ELSE [of |-> coverage, missing |-> missing]
  /\ tab' = FirstTab /\ page' = FirstTab
  /\ UNCHANGED <<mode, coverage, storing, thrown, source, clicks, last>>

\* a script of the page that is tested adds to _$jscoverage
Run ==
  /\ mode # "report" /\ coverage < MaxRuns
  /\ coverage' = coverage + 1
  /\ UNCHANGED <<mode, loaded, jscoverage_inLengthyOperation, timers, loading, storing, thrown, tab, page,
                 summary, source, throbbers, clicks, last>>

----------------------------------------------------------------------------
(* clicks *)

\* mutant: the flag is not looked at
Begin_Unguarded(click) ==
  /\ loaded /\ clicks < MaxClicks
  /\ clicks' = clicks + 1 /\ last' = click
  /\ jscoverage_inLengthyOperation' = TRUE
  /\ UNCHANGED <<mode, loaded>>

\* a click that is followed; others change nothing
Begin(click) ==
  /\ loaded /\ clicks < MaxClicks
  /\ ~jscoverage_inLengthyOperation
  /\ clicks' = clicks + 1 /\ last' = click
  /\ jscoverage_inLengthyOperation' = TRUE
  /\ UNCHANGED <<mode, loaded>>

Click(click, timer) ==
  /\ Begin(click)
  /\ timers' = Append(timers, timer)
  /\ UNCHANGED <<server, tab, page, source>>

\* jscoverage_tab_click; the source tab is disabled until there is a source
TabClick(t) ==
  /\ t # tab /\ (t = "source" => jscoverage_currentFile # None)
  /\ Click(<<"tab", t, None>>, Timer(50, "tab", t, None))
  /\ UNCHANGED summary

\* mutant: a click that is not followed leaves the box changed
CheckboxClick_Keeps ==
  /\ page = "summary"
  /\ checkbox' = ~checkbox
  /\ UNCHANGED <<columns, rows>>
  /\ \/ Click(<<"tab", page, None>>, Timer(50, "checkbox", ~checkbox, None))
     \/ /\ jscoverage_inLengthyOperation /\ clicks < MaxClicks
        /\ clicks' = clicks + 1
        /\ UNCHANGED <<mode, loaded, jscoverage_inLengthyOperation, timers, last, server, tab, page, source>>

\* jscoverage_checkbox_click: the browser has changed the box before the call,
\* and changes it back if the handler returns false
CheckboxClick ==
  /\ page = "summary"
  /\ Click(<<"tab", page, None>>, Timer(50, "checkbox", ~checkbox, None))
  /\ checkbox' = ~checkbox
  /\ UNCHANGED <<columns, rows>>

\* jscoverage_get, from a link of the summary: to a file, or a line that is missing
LinkClick(file, line) ==
  /\ page = "summary" /\ rows.of > 0 /\ (line # None => rows.missing)
  /\ Click(<<"get", file, line>>, Timer(50, "get", file, line))
  /\ UNCHANGED summary

\* jscoverage_storeButton_click: the report is sent; or open(), the writing of
\* the report or send() throw, which nothing catches
StoreClick ==
  /\ page = "store"
  /\ Begin(<<"tab", page, None>>)
  /\ storing' = storing + 1
  /\ \E sent \in BOOLEAN : thrown' = IF sent THEN thrown ELSE thrown + 1
  /\ throbbers' = throbbers \cup {"store"}
  /\ UNCHANGED <<coverage, timers, loading, tab, page, summary, source>>

----------------------------------------------------------------------------
(* callbacks of timers *)

Fire(i, run) ==
  /\ Due(i) /\ timers[i].run = run
  /\ UNCHANGED <<mode, loaded, server, clicks, last>>

\* the timers after the callback of i has set another one
Then(i, timer) == timers' = Append(RemoveAt(timers, i), timer)

\* what jscoverage_recalculateSourceTab sets
SourceTimer(file) == IF file = None THEN End ELSE Timer(0, "make", None, None)

Recalculated(checked) == [of |-> coverage, missing |-> checked]

\* the function in jscoverage_endLengthyOperation
Ended(i) ==
  /\ Fire(i, "end")
  /\ jscoverage_inLengthyOperation' = FALSE
  /\ timers' = RemoveAt(timers, i)
  /\ UNCHANGED <<tab, page, summary, source>>

\* the function in jscoverage_tab_click
TabSelected(i) ==
  LET t == timers[i].arg IN
  /\ Fire(i, "tab")
  /\ tab' = t /\ page' = t
  /\ Then(i, IF t = "source" THEN SourceTimer(jscoverage_currentFile) ELSE End)
  /\ rows' = IF t = "summary" THEN Recalculated(checkbox) ELSE rows
  /\ table' = IF t = "source" THEN None ELSE table
  /\ UNCHANGED <<jscoverage_inLengthyOperation, checkbox, columns, jscoverage_currentFile,
                 jscoverage_currentLine, heading, scrolled>>

\* the function in jscoverage_checkbox_click
ColumnChanged(i) ==
  /\ Fire(i, "checkbox")
  /\ columns' = IF timers[i].arg THEN columns + 1 ELSE columns - 1
  /\ rows' = Recalculated(checkbox)
  /\ Then(i, End)
  /\ UNCHANGED <<jscoverage_inLengthyOperation, tab, page, checkbox, source>>

\* mutant: a line of the file that is shown is not gone to
FileSelected_Stays(i) ==
  LET file == timers[i].arg  line == timers[i].line  same == file = jscoverage_currentFile IN
  /\ Fire(i, "get")
  /\ page' = "source"
  /\ tab' = IF jscoverage_currentFile = None THEN None ELSE "source"
  /\ table' = None
  /\ jscoverage_currentFile' = file
  /\ jscoverage_currentLine' = IF same THEN None ELSE IF line # None THEN line ELSE 1
  /\ heading' = IF same THEN heading ELSE file
  /\ Then(i, SourceTimer(file))
  /\ UNCHANGED <<jscoverage_inLengthyOperation, summary, scrolled>>

\* the function in jscoverage_get: selectTab leaves a tab that is disabled unmarked
FileSelected(i) ==
  LET file == timers[i].arg  line == timers[i].line  same == file = jscoverage_currentFile IN
  /\ Fire(i, "get")
  /\ page' = "source"
  /\ tab' = IF jscoverage_currentFile = None THEN None ELSE "source"
  /\ table' = None
  /\ jscoverage_currentFile' = file
  /\ jscoverage_currentLine' = IF same \/ line # None THEN line ELSE 1
  /\ heading' = IF same THEN heading ELSE file
  /\ Then(i, SourceTimer(file))
  /\ UNCHANGED <<jscoverage_inLengthyOperation, summary, scrolled>>

\* jscoverage_makeTable
TableMade(i) ==
  /\ Fire(i, "make")
  /\ Then(i, Timer(0, "join", jscoverage_currentFile, None))
  /\ UNCHANGED <<jscoverage_inLengthyOperation, tab, page, summary, source>>

\* joinTableRows
RowsJoined(i) ==
  /\ Fire(i, "join")
  /\ Then(i, [timers[i] EXCEPT !.delay = 100, !.run = "append"])
  /\ UNCHANGED <<jscoverage_inLengthyOperation, tab, page, summary, source>>

\* appendTable
TableAppended(i) ==
  /\ Fire(i, "append")
  /\ table' = timers[i].arg
  /\ Then(i, Timer(0, "scroll", None, None))
  /\ UNCHANGED <<jscoverage_inLengthyOperation, tab, page, summary, jscoverage_currentFile,
                 jscoverage_currentLine, heading, scrolled>>

\* mutant: without a line to go to the operation is not ended
Scrolled_Waits(i) ==
  /\ Fire(i, "scroll")
  /\ tab' = "source" /\ page' = "source"
  /\ scrolled' = IF jscoverage_currentLine = None THEN scrolled ELSE jscoverage_currentLine
  /\ jscoverage_currentLine' = None
  /\ timers' = RemoveAt(timers, i) \o (IF jscoverage_currentLine = None THEN <<>> ELSE <<End>>)
  /\ UNCHANGED <<jscoverage_inLengthyOperation, summary, jscoverage_currentFile, heading, table>>

\* jscoverage_scrollToLine
Scrolled(i) ==
  /\ Fire(i, "scroll")
  /\ tab' = "source" /\ page' = "source"
  /\ scrolled' = IF jscoverage_currentLine = None THEN scrolled ELSE jscoverage_currentLine
  /\ jscoverage_currentLine' = None
  /\ Then(i, End)
  /\ UNCHANGED <<jscoverage_inLengthyOperation, summary, jscoverage_currentFile, heading, table>>

TimerStep ==
  \E i \in DOMAIN timers :
    \/ Ended(i) \/ TabSelected(i) \/ ColumnChanged(i) \/ FileSelected(i)
    \/ TableMade(i) \/ RowsJoined(i) \/ TableAppended(i) \/ Scrolled(i)

----------------------------------------------------------------------------
(* answers *)

\* jscoverage.json comes, or an error does: reportError
ReportLoaded ==
  /\ loading /\ loading' = FALSE
  /\ throbbers' = throbbers \ {"summary"}
  /\ timers' = Append(timers, End)
  /\ \E ok \in BOOLEAN :
       /\ coverage' = IF ok THEN 1 ELSE coverage
       /\ rows' = IF ok THEN [of |-> 1, missing |-> checkbox] ELSE rows
  /\ UNCHANGED <<mode, loaded, jscoverage_inLengthyOperation, storing, thrown, tab, page, checkbox, columns,
                 source, clicks, last>>

\* the server's answer to a report, or that there is none
Stored ==
  /\ storing > thrown /\ storing' = storing - 1
  /\ throbbers' = throbbers \ {"store"}
  /\ timers' = Append(timers, End)
  /\ UNCHANGED <<mode, loaded, jscoverage_inLengthyOperation, coverage, loading, thrown, tab, page,
                 summary, source, clicks, last>>

UserStep ==
  \/ \E t \in Tabs : TabClick(t)
  \/ CheckboxClick \/ StoreClick
  \/ \E file \in Files, line \in Lines \cup {None} : LinkClick(file, line)

Next == Load \/ Run \/ UserStep \/ TimerStep \/ ReportLoaded \/ Stored

Spec == Init /\ [][Next]_vars

\* The browser calls what is due, and every request that is sent ends.
FairSpec == Spec /\ WF_vars(TimerStep) /\ WF_vars(ReportLoaded) /\ WF_vars(Stored)

----------------------------------------------------------------------------
TypeOK ==
  /\ mode \in Modes /\ loaded \in BOOLEAN /\ coverage \in Nat
  /\ jscoverage_inLengthyOperation \in BOOLEAN /\ loading \in BOOLEAN /\ {storing, thrown} \subseteq Nat
  /\ {tab, page} \subseteq Tabs \cup {None}
  /\ checkbox \in BOOLEAN /\ columns \in Nat
  /\ rows \in [of : Nat, missing : BOOLEAN]
  /\ {jscoverage_currentFile, heading, table} \subseteq Files \cup {None}
  /\ {jscoverage_currentLine, scrolled} \subseteq Nat \cup {None}
  /\ throbbers \subseteq {"summary", "store"}

InProgress == Len(timers) + storing + IF loading THEN 1 ELSE 0

\* Where the page is loaded without a request or a summary, its flag is worth
\* what its name says: there is never more than one operation, and the flag is
\* up from the first to the last call of it.
OneAtATime ==
  HasBrowserTab => InProgress = IF jscoverage_inLengthyOperation THEN 1 ELSE 0

\* What is on the screen belongs together: the marked tab and the page, the
\* checkbox, the column and the rows, the name and the source.
View ==
  /\ tab = page
  /\ columns = (IF checkbox THEN 1 ELSE 0) /\ (rows.of > 0 => rows.missing = checkbox)
  /\ heading = jscoverage_currentFile /\ (page = "source" => table = heading)
  /\ throbbers = {}
  /\ mode = "report" => rows.of = coverage

\* It does, in every mode, once nothing is going on any more, in whatever order
\* the timers and the answers have come; and, in those of OneAtATime, whenever
\* the page takes clicks.
ViewsAgree ==
  /\ loaded /\ InProgress = 0 => View /\ ~jscoverage_inLengthyOperation
  /\ HasBrowserTab /\ loaded /\ ~jscoverage_inLengthyOperation => View

\* The user then sees what the last click that was followed has asked for.
LastClickShown ==
  HasBrowserTab /\ ~jscoverage_inLengthyOperation =>
    /\ last[1] = "tab" => page = last[2]
    /\ last[1] = "get" => page = "source" /\ table = last[2] /\ (last[3] # None => scrolled = last[3])

\* The page takes clicks again, however long an operation is, unless the store
\* button's handler has thrown.
Usable == jscoverage_inLengthyOperation ~> ~jscoverage_inLengthyOperation \/ thrown > 0
=============================================================================
