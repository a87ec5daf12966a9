-------------------------- MODULE ReportPageProofs --------------------------
(***************************************************************************)
(* The flag of the report page keeps lengthy operations apart, what the    *)
(* page shows belongs together, and it is what the last click has asked    *)
(* for, for every number of clicks, files and lines.                       *)
(***************************************************************************)
EXTENDS ReportPage, SequenceTheorems, TLAPS

\* what a callback is given: a file, whether the box is checked, or a tab
Arg == Files \cup BOOLEAN \cup {"summary", "source", "about", "browser", "store"} \cup {None}

Callbacks == {"end", "tab", "checkbox", "get", "make", "join", "append", "scroll"}

TimerType == [delay : {0, 50, 100}, run : Callbacks, arg : Arg, line : Lines \cup {None}]

\* The timers are a sequence, which can be counted, of what handlers set.
TimersOK ==
  /\ timers \in Seq(TimerType)
  /\ jscoverage_currentFile \in Arg
  /\ checkbox \in BOOLEAN

FlagOK ==
  /\ storing \in Nat /\ thrown \in Nat
  /\ jscoverage_inLengthyOperation \in BOOLEAN
  /\ loading \in BOOLEAN

\* Before the page is loaded nothing is going on, and only a report asks for
\* jscoverage.json.
Quiet ==
  /\ ~loaded => storing = 0 /\ ~jscoverage_inLengthyOperation /\ ~loading
  /\ loading => mode = "report"

FlagInv == TimersOK /\ FlagOK /\ Quiet /\ OneAtATime

\* A sequence without one of its elements
LEMMA RemoveAtProps ==
  ASSUME NEW S, NEW s \in Seq(S), NEW i \in DOMAIN s
  PROVE  RemoveAt(s, i) \in Seq(S) /\ Len(RemoveAt(s, i)) = Len(s) - 1
  <1> DEFINE a == SubSeq(s, 1, i - 1)
             b == SubSeq(s, i + 1, Len(s))
  <1>1. i \in 1 .. Len(s) /\ Len(s) \in Nat
    OBVIOUS
  <1>2. a \in Seq(S) /\ Len(a) = i - 1
    BY <1>1
  <1>3. b \in Seq(S) /\ Len(b) = Len(s) - i
    BY <1>1
  <1>4. RemoveAt(s, i) = a \o b
    BY DEF RemoveAt
  <1> HIDE DEF a, b
  <1>5. a \o b \in Seq(S) /\ Len(a \o b) = Len(a) + Len(b)
    BY <1>2, <1>3, ConcatProperties, Zenon
  <1>6. QED
    BY <1>1, <1>2, <1>3, <1>4, <1>5

\* A callback takes its own timer away and may set another.
LEMMA ThenProps ==
  ASSUME NEW S, NEW s \in Seq(S), NEW i \in DOMAIN s, NEW e \in S
  PROVE  /\ Append(RemoveAt(s, i), e) \in Seq(S)
         /\ Len(Append(RemoveAt(s, i), e)) = Len(s)
  <1> DEFINE r == RemoveAt(s, i)
  <1>1. r \in Seq(S) /\ Len(r) = Len(s) - 1
    BY RemoveAtProps
  <1>2. Len(s) \in Nat
    OBVIOUS
  <1> HIDE DEF r
  <1>3. Append(r, e) \in Seq(S) /\ Len(Append(r, e)) = Len(r) + 1
    BY <1>1
  <1>4. QED
    BY <1>1, <1>2, <1>3 DEF r

\* Timers that are set have the type.
LEMMA TimerTypeOK ==
  ASSUME NEW d \in {0, 50, 100}, NEW run \in Callbacks, NEW arg \in Arg, NEW line \in Lines \cup {None}
  PROVE  Timer(d, run, arg, line) \in TimerType
  BY DEF Timer, TimerType

LEMMA EndOK == End \in TimerType
  <1>1. 50 \in {0, 50, 100} /\ "end" \in Callbacks
    BY DEF Callbacks
  <1>2. None \in Arg /\ None \in Lines \cup {None}
    BY DEF Arg
  <1>3. QED
    BY <1>1, <1>2, TimerTypeOK, Zenon DEF End

LEMMA SourceTimerOK ==
  ASSUME NEW file
  PROVE  SourceTimer(file) \in TimerType
  <1>1. 0 \in {0, 50, 100} /\ "make" \in Callbacks
    BY DEF Callbacks
  <1>2. None \in Arg /\ None \in Lines \cup {None}
    BY DEF Arg
  <1>3. Timer(0, "make", None, None) \in TimerType
    BY <1>1, <1>2, TimerTypeOK, Zenon
  <1>4. QED
    BY <1>3, EndOK, Zenon DEF SourceTimer

\* A step that keeps the count, the flag and the mode keeps the invariant.
LEMMA CountKept ==
  ASSUME OneAtATime, Quiet, FlagOK, Len(timers') = Len(timers),
         UNCHANGED <<mode, loaded, loading, storing, thrown, jscoverage_inLengthyOperation>>
  PROVE  (FlagOK /\ Quiet /\ OneAtATime)'
  BY DEF OneAtATime, Quiet, FlagOK, InProgress, HasBrowserTab

\* A click is followed only if nothing is going on, and starts one operation.
LEMMA ClickKeeps ==
  ASSUME FlagInv, NEW click, NEW timer \in TimerType, Click(click, timer)
  PROVE  timers' \in Seq(TimerType) /\ (FlagOK /\ Quiet /\ OneAtATime)'
  <1> USE DEF FlagInv
  <1>1. timers \in Seq(TimerType) /\ Len(timers) \in Nat
    BY DEF TimersOK
  <1>2. timers' \in Seq(TimerType) /\ Len(timers') = Len(timers) + 1
    BY <1>1 DEF Click
  <1>3. /\ loaded /\ ~jscoverage_inLengthyOperation /\ jscoverage_inLengthyOperation' = TRUE
        /\ UNCHANGED <<mode, loaded, loading, storing, thrown>>
    BY DEF Click, Begin, server
  <1>4. FlagOK' /\ Quiet'
    BY <1>3 DEF FlagOK, Quiet
  <1>5. OneAtATime'
    BY <1>1, <1>2, <1>3 DEF OneAtATime, InProgress, FlagOK, HasBrowserTab
  <1>6. QED
    BY <1>2, <1>4, <1>5

\* A callback that sets one timer keeps its operation going.
LEMMA ThenKeeps ==
  ASSUME FlagInv, NEW i \in DOMAIN timers, NEW run, Fire(i, run),
         NEW timer \in TimerType, Then(i, timer),
         UNCHANGED jscoverage_inLengthyOperation
  PROVE  timers' \in Seq(TimerType) /\ (FlagOK /\ Quiet /\ OneAtATime)'
  <1>1. timers' \in Seq(TimerType) /\ Len(timers') = Len(timers)
    BY ThenProps DEF Then, FlagInv, TimersOK
  <1>2. UNCHANGED <<mode, loaded, loading, storing, thrown, jscoverage_inLengthyOperation>>
    BY DEF Fire, server
  <1>3. QED
    BY <1>1, <1>2, CountKept DEF FlagInv

\* No step lets the flag and what is going on disagree.
LEMMA FlagStep == FlagInv /\ [Next]_vars => FlagInv'
  <1> SUFFICES ASSUME FlagInv, [Next]_vars
               PROVE  FlagInv'
    OBVIOUS
  <1> DEFINE Kept == timers' \in Seq(TimerType) /\ (FlagOK /\ Quiet /\ OneAtATime)'
             Typed == jscoverage_currentFile' \in Arg /\ checkbox' \in BOOLEAN
  <1>0. /\ timers \in Seq(TimerType) /\ Len(timers) \in Nat
        /\ jscoverage_currentFile \in Arg /\ checkbox \in BOOLEAN
    BY DEF FlagInv, TimersOK
  <1>00. Kept /\ Typed => FlagInv'
    BY DEF FlagInv, TimersOK
  <1>1. CASE Load
    <2>1. /\ Quiet /\ ~loaded /\ UNCHANGED <<mode, storing, thrown>> /\ loaded' = TRUE
          /\ jscoverage_inLengthyOperation' = (mode = "report")
          /\ loading' \in IF mode = "report" THEN BOOLEAN ELSE {FALSE}
          /\ checkbox' \in BOOLEAN /\ jscoverage_currentFile' = jscoverage_currentFile
      BY <1>1, Zenon DEF Load, FlagInv, source
    <2>2. PICK sent \in BOOLEAN :
            timers' = (IF mode = "report" /\ ~sent THEN <<End>> ELSE <<>>)
                        \o (IF HasBrowserTab THEN <<>> ELSE <<End>>)
      BY <1>1 DEF Load
    <2>3. timers' \in Seq(TimerType)
      <3>1. <<End>> \in Seq(TimerType) /\ <<>> \in Seq(TimerType)
        BY EndOK
      <3>2. QED
        BY <2>2, <3>1, ConcatProperties, Zenon
    <2>4. HasBrowserTab => mode # "report"
      BY DEF HasBrowserTab
    <2>5. HasBrowserTab => timers' = <<>>
      <3>1. HasBrowserTab => timers' = <<>> \o <<>>
        BY <2>2, <2>4, Zenon
      <3>2. <<>> \o <<>> = <<>>
        BY ConcatEmptySeq
      <3>3. QED
        BY <3>1, <3>2, Zenon
    <2>6. FlagOK' /\ Quiet'
      BY <2>1 DEF FlagInv, FlagOK, Quiet
    <2>7. OneAtATime'
      <3>1. HasBrowserTab' => HasBrowserTab
        BY <2>1 DEF HasBrowserTab
      <3>2. HasBrowserTab => Len(timers') = 0
        BY <2>5
      <3>3. HasBrowserTab => storing' = 0 /\ loading' = FALSE /\ jscoverage_inLengthyOperation' = FALSE
        BY <2>1, <2>4 DEF Quiet
      <3>4. QED
        BY <3>1, <3>2, <3>3 DEF OneAtATime, InProgress
    <2>8. QED
      BY <1>0, <1>00, <2>1, <2>3, <2>6, <2>7
  <1>2. CASE Run
    <2>1. UNCHANGED <<mode, loaded, timers, loading, storing, thrown, jscoverage_inLengthyOperation,
                      jscoverage_currentFile, checkbox>>
      BY <1>2 DEF Run, source, summary
    <2>2. QED
      BY <1>0, <1>00, <2>1, CountKept DEF FlagInv
  <1>3. CASE \E t \in Tabs : TabClick(t)
    <2>1. PICK t \in Tabs : TabClick(t)
      BY <1>3
    <2>2. Timer(50, "tab", t, None) \in TimerType
      <3>1. t \in Arg
        BY DEF Tabs, Arg
      <3>2. 50 \in {0, 50, 100} /\ "tab" \in Callbacks /\ None \in Lines \cup {None}
        BY DEF Callbacks
      <3>3. QED
        BY <3>1, <3>2, TimerTypeOK, Zenon
    <2>3. Click(<<"tab", t, None>>, Timer(50, "tab", t, None))
      BY <2>1 DEF TabClick
    <2>4. Kept
      BY <2>2, <2>3, ClickKeeps, Zenon
    <2>5. Typed
      BY <1>0, <2>1 DEF TabClick, Click, source, summary
    <2>6. QED
      BY <1>00, <2>4, <2>5
  <1>4. CASE CheckboxClick
    <2>1. Timer(50, "checkbox", ~checkbox, None) \in TimerType
      <3>1. BOOLEAN \subseteq Arg /\ 50 \in {0, 50, 100} /\ "checkbox" \in Callbacks /\ None \in Lines \cup {None}
        BY DEF Arg, Callbacks
      <3>2. \A checked \in BOOLEAN : Timer(50, "checkbox", checked, None) \in TimerType
        BY <3>1, TimerTypeOK, Zenon
      <3>3. QED
        BY <3>2
    <2>2. Click(<<"tab", page, None>>, Timer(50, "checkbox", ~checkbox, None))
      BY <1>4 DEF CheckboxClick
    <2>3. Kept
      BY <2>1, <2>2, ClickKeeps, Zenon
    <2>4. Typed
      BY <1>0, <1>4 DEF CheckboxClick, Click, source
    <2>5. QED
      BY <1>00, <2>3, <2>4
  <1>5. CASE StoreClick
    <2>1. /\ loaded /\ ~jscoverage_inLengthyOperation /\ jscoverage_inLengthyOperation' = TRUE
          /\ storing' = storing + 1 /\ thrown' \in {thrown, thrown + 1}
          /\ UNCHANGED <<mode, loaded, timers, loading, jscoverage_currentFile, checkbox>>
      BY <1>5 DEF StoreClick, Begin, source, summary
    <2>2. FlagOK' /\ Quiet'
      BY <2>1 DEF FlagInv, FlagOK, Quiet
    <2>3. OneAtATime'
      BY <1>0, <2>1 DEF FlagInv, FlagOK, OneAtATime, InProgress, HasBrowserTab
    <2>4. QED
      BY <1>0, <1>00, <2>1, <2>2, <2>3
  <1>6. CASE \E file \in Files, line \in Lines \cup {None} : LinkClick(file, line)
    <2>1. PICK file \in Files, line \in Lines \cup {None} : LinkClick(file, line)
      BY <1>6
    <2>2. Timer(50, "get", file, line) \in TimerType
      BY TimerTypeOK DEF Arg, Callbacks
    <2>3. Click(<<"get", file, line>>, Timer(50, "get", file, line))
      BY <2>1 DEF LinkClick
    <2>4. Kept
      BY <2>2, <2>3, ClickKeeps, Zenon
    <2>5. Typed
      BY <1>0, <2>1 DEF LinkClick, Click, source, summary
    <2>6. QED
      BY <1>00, <2>4, <2>5
  <1>7. ASSUME NEW i \in DOMAIN timers,
               \/ Ended(i) \/ TabSelected(i) \/ ColumnChanged(i) \/ FileSelected(i)
               \/ TableMade(i) \/ RowsJoined(i) \/ TableAppended(i) \/ Scrolled(i)
        PROVE  FlagInv'
    <2>1. timers[i] \in TimerType
      BY <1>0
    <2>2. timers[i].arg \in Arg /\ timers[i].line \in Lines \cup {None}
      BY <2>1 DEF TimerType
    <2>3. CASE Ended(i)
      <3>1. timers' \in Seq(TimerType) /\ Len(timers') = Len(timers) - 1
        BY <1>0, <2>3, RemoveAtProps DEF Ended
      <3>2. /\ jscoverage_inLengthyOperation' = FALSE
            /\ UNCHANGED <<mode, loaded, loading, storing, thrown, jscoverage_currentFile, checkbox>>
        BY <2>3 DEF Ended, Fire, server, summary, source
      <3>3. FlagOK' /\ Quiet'
        BY <3>2 DEF FlagInv, FlagOK, Quiet
      <3>4. Len(timers) >= 1
        BY <1>0, <1>7
      <3>5. OneAtATime'
        BY <1>0, <3>1, <3>2, <3>4 DEF FlagInv, FlagOK, OneAtATime, InProgress, HasBrowserTab
      <3>6. QED
        BY <1>0, <1>00, <3>1, <3>2, <3>3, <3>5
    <2>4. CASE TabSelected(i)
      <3>1. /\ Fire(i, "tab") /\ UNCHANGED <<jscoverage_inLengthyOperation, checkbox, jscoverage_currentFile>>
            /\ Then(i, IF timers[i].arg = "source" THEN SourceTimer(jscoverage_currentFile) ELSE End)
        BY <2>4 DEF TabSelected
      <3>2. (IF timers[i].arg = "source" THEN SourceTimer(jscoverage_currentFile) ELSE End) \in TimerType
        BY EndOK, SourceTimerOK
      <3>3. Kept
        BY <3>1, <3>2, ThenKeeps, Zenon
      <3>4. QED
        BY <1>0, <1>00, <3>1, <3>3
    <2>5. CASE ColumnChanged(i)
      <3>1. /\ Fire(i, "checkbox") /\ Then(i, End)
            /\ UNCHANGED <<jscoverage_inLengthyOperation, checkbox, jscoverage_currentFile>>
        BY <2>5 DEF ColumnChanged, source
      <3>2. Kept
        BY <3>1, EndOK, ThenKeeps, Zenon
      <3>3. QED
        BY <1>0, <1>00, <3>1, <3>2
    <2>6. CASE FileSelected(i)
      <3>1. /\ Fire(i, "get") /\ Then(i, SourceTimer(timers[i].arg))
            /\ UNCHANGED <<jscoverage_inLengthyOperation, checkbox>>
            /\ jscoverage_currentFile' = timers[i].arg
        BY <2>6 DEF FileSelected, summary
      <3>2. Kept
        BY <3>1, SourceTimerOK, ThenKeeps, Zenon
      <3>3. QED
        BY <1>0, <1>00, <2>2, <3>1, <3>2
    <2>7. CASE TableMade(i)
      <3>1. /\ Fire(i, "make") /\ Then(i, Timer(0, "join", jscoverage_currentFile, None))
            /\ UNCHANGED <<jscoverage_inLengthyOperation, checkbox, jscoverage_currentFile>>
        BY <2>7 DEF TableMade, summary, source
      <3>2. Timer(0, "join", jscoverage_currentFile, None) \in TimerType
        BY <1>0, TimerTypeOK DEF Callbacks
      <3>3. Kept
        BY <3>1, <3>2, ThenKeeps, Zenon
      <3>4. QED
        BY <1>0, <1>00, <3>1, <3>3
    <2>8. CASE RowsJoined(i)
      <3>1. /\ Fire(i, "join") /\ Then(i, [timers[i] EXCEPT !.delay = 100, !.run = "append"])
            /\ UNCHANGED <<jscoverage_inLengthyOperation, checkbox, jscoverage_currentFile>>
        BY <2>8 DEF RowsJoined, summary, source
      <3>2. [timers[i] EXCEPT !.delay = 100, !.run = "append"] \in TimerType
        BY <2>1 DEF TimerType, Callbacks
      <3>3. Kept
        BY <3>1, <3>2, ThenKeeps, Zenon
      <3>4. QED
        BY <1>0, <1>00, <3>1, <3>3
    <2>9. CASE TableAppended(i)
      <3>1. /\ Fire(i, "append") /\ Then(i, Timer(0, "scroll", None, None))
            /\ UNCHANGED <<jscoverage_inLengthyOperation, checkbox, jscoverage_currentFile>>
        BY <2>9 DEF TableAppended, summary
      <3>2. Timer(0, "scroll", None, None) \in TimerType
        BY TimerTypeOK DEF Callbacks, Arg
      <3>3. Kept
        BY <3>1, <3>2, ThenKeeps, Zenon
      <3>4. QED
        BY <1>0, <1>00, <3>1, <3>3
    <2>10. CASE Scrolled(i)
      <3>1. /\ Fire(i, "scroll") /\ Then(i, End)
            /\ UNCHANGED <<jscoverage_inLengthyOperation, checkbox, jscoverage_currentFile>>
        BY <2>10 DEF Scrolled, summary
      <3>2. Kept
        BY <3>1, EndOK, ThenKeeps, Zenon
      <3>3. QED
        BY <1>0, <1>00, <3>1, <3>2
    <2>11. QED
      BY <1>7, <2>3, <2>4, <2>5, <2>6, <2>7, <2>8, <2>9, <2>10
  <1>8. CASE ReportLoaded
    <2>1. /\ loading /\ loading' = FALSE /\ timers' = Append(timers, End)
          /\ UNCHANGED <<mode, loaded, storing, thrown, jscoverage_inLengthyOperation, jscoverage_currentFile, checkbox>>
      BY <1>8 DEF ReportLoaded, source
    <2>2. timers' \in Seq(TimerType)
      BY <1>0, <2>1, EndOK
    <2>3. FlagOK' /\ Quiet'
      BY <2>1 DEF FlagInv, FlagOK, Quiet
    <2>4. OneAtATime'
      BY <2>1 DEF FlagInv, Quiet, OneAtATime, HasBrowserTab
    <2>5. QED
      BY <1>0, <1>00, <2>1, <2>2, <2>3, <2>4
  <1>9. CASE Stored
    <2>1. /\ storing > thrown /\ storing' = storing - 1 /\ timers' = Append(timers, End)
          /\ UNCHANGED <<mode, loaded, loading, thrown, jscoverage_inLengthyOperation, jscoverage_currentFile, checkbox>>
      BY <1>9 DEF Stored, source, summary
    <2>2. timers' \in Seq(TimerType) /\ Len(timers') = Len(timers) + 1
      BY <1>0, <2>1, EndOK
    <2>3. FlagOK' /\ Quiet'
      BY <2>1 DEF FlagInv, FlagOK, Quiet
    <2>4. OneAtATime'
      BY <1>0, <2>1, <2>2 DEF FlagInv, FlagOK, OneAtATime, InProgress, HasBrowserTab
    <2>5. QED
      BY <1>0, <1>00, <2>1, <2>2, <2>3, <2>4
  <1>10. CASE UNCHANGED vars
    <2>1. UNCHANGED <<mode, loaded, timers, loading, storing, thrown, jscoverage_inLengthyOperation,
                      jscoverage_currentFile, checkbox>>
      BY <1>10 DEF vars
    <2>2. QED
      BY <1>0, <1>00, <2>1, CountKept DEF FlagInv
  <1>11. QED
    BY <1>1, <1>2, <1>3, <1>4, <1>5, <1>6, <1>7, <1>8, <1>9, <1>10 DEF Next, UserStep, TimerStep

LEMMA FlagInit == Init => FlagInv
  <1> SUFFICES ASSUME Init
               PROVE  FlagInv
    OBVIOUS
  <1>1. timers = <<>> /\ storing = 0 /\ thrown = 0 /\ loading = FALSE /\ jscoverage_inLengthyOperation = FALSE
        /\ checkbox = FALSE /\ jscoverage_currentFile = None
    BY DEF Init
  <1>2. timers \in Seq(TimerType) /\ Len(timers) = 0
    BY <1>1
  <1>3. jscoverage_currentFile \in Arg /\ checkbox \in BOOLEAN
    BY <1>1 DEF Arg
  <1>4. FlagOK /\ Quiet
    BY <1>1 DEF FlagOK, Quiet
  <1>5. OneAtATime
    BY <1>1, <1>2 DEF OneAtATime, InProgress
  <1>6. QED
    BY <1>2, <1>3, <1>4, <1>5 DEF FlagInv, TimersOK

\* A page with a browser tab never has two lengthy operations at a time, and
\* its flag is up exactly during one, however many clicks and reports there are.
THEOREM OneAtATimeCorrect == Spec => []OneAtATime
  <1>1. FlagInv => OneAtATime
    BY DEF FlagInv
  <1>2. QED
    BY <1>1, FlagInit, FlagStep, PTL DEF Spec

----------------------------------------------------------------------------
(* What the page shows.  A source is rendered by make, join and append, one *)
(* after the other; several may be under way in the modes without a browser *)
(* tab, and the last of each is the one that counts.                        *)

Has(s, run) == \E k \in DOMAIN s : s[k].run = run

\* The last callback in s that is a run is given arg.
LastIs(s, run, arg) ==
  \E k \in DOMAIN s :
    /\ s[k].run = run /\ s[k].arg = arg
    /\ \A j \in DOMAIN s : j > k => s[j].run # run

\* The source that is shown, or will be after all callbacks, is that of file.
Rendered(s, file, shown) ==
  \/ Has(s, "make")
  \/ LastIs(s, "join", file)
  \/ ~Has(s, "join") /\ LastIs(s, "append", file)
  \/ ~Has(s, "join") /\ ~Has(s, "append") /\ shown = file

Rendering == {"make", "join", "append", "scroll"}

\* The page that is shown is marked, or will be.
Marked(s) == tab = page \/ \E run \in Rendering : Has(s, run)

Boxes(s) == {k \in DOMAIN s : s[k].run = "checkbox"}

Checks(s, k, checked) == s[k].arg = IF checked THEN TRUE ELSE FALSE

\* Each callback of the checkbox undoes the one before, the first of them what
\* the table has (count columns), and the last gives what the box says.
Toggled(s, count, box) ==
  /\ count \in {0, 1} /\ box \in BOOLEAN
  /\ \A k \in Boxes(s) : s[k].arg \in BOOLEAN
  /\ \A k \in Boxes(s) : Checks(s, k, count = 0) \/ \E j \in Boxes(s) : j < k
  /\ \A k \in Boxes(s) : Checks(s, k, box) \/ \E j \in Boxes(s) : j > k
  /\ \A j, k \in Boxes(s) : j < k => s[j].arg # s[k].arg \/ \E m \in Boxes(s) : j < m /\ m < k
  /\ Boxes(s) = {} => count = IF box THEN 1 ELSE 0

Listed ==
  /\ rows.of > 0 => rows.missing = checkbox \/ Boxes(timers) # {}
  /\ mode = "report" => rows.of = coverage

Turning ==
  /\ throbbers \subseteq {"summary", "store"}
  /\ "summary" \in throbbers => loading
  /\ "store" \in throbbers => storing > 0

Raised == jscoverage_inLengthyOperation => loading \/ storing > 0 \/ Len(timers) > 0

\* A link leads to a file; and callbacks of one kind are called in the order
\* in which they were set, since they wait for the same time.
Proper ==
  {t \in TimerType : /\ t.run = "get" => t.arg \in Files
                     /\ t.run = "join" => t.delay = 0
                     /\ t.run = "checkbox" => t.delay = 50
                     /\ t.run = "append" => t.delay = 100}

ViewInv ==
  /\ timers \in Seq(Proper)
  /\ ~loaded => timers = <<>> /\ last[1] = "load"
  /\ Rendered(timers, jscoverage_currentFile, table)
  /\ heading = jscoverage_currentFile
  /\ Marked(timers)
  /\ Toggled(timers, columns, checkbox)
  /\ Listed /\ Turning /\ Raised

\* The elements of a sequence without one of them
LEMMA RemoveAtElements ==
  ASSUME NEW S, NEW s \in Seq(S), NEW i \in DOMAIN s
  PROVE  /\ DOMAIN RemoveAt(s, i) = 1 .. Len(s) - 1
         /\ \A k \in 1 .. Len(s) - 1 : RemoveAt(s, i)[k] = IF k < i THEN s[k] ELSE s[k + 1]
  <1> DEFINE a == SubSeq(s, 1, i - 1)
             b == SubSeq(s, i + 1, Len(s))
  <1>1. i \in 1 .. Len(s) /\ Len(s) \in Nat
    OBVIOUS
  <1>2. a \in Seq(S) /\ Len(a) = i - 1 /\ \A k \in 1 .. i - 1 : a[k] = s[k]
    BY <1>1
  <1>3. b \in Seq(S) /\ Len(b) = Len(s) - i /\ \A k \in 1 .. Len(s) - i : b[k] = s[k + i]
    BY <1>1
  <1>4. RemoveAt(s, i) = a \o b
    BY DEF RemoveAt
  <1> HIDE DEF a, b
  <1> DEFINE c == a \o b
  <1>5. /\ c \in Seq(S) /\ Len(c) = Len(a) + Len(b)
        /\ \A k \in 1 .. Len(a) + Len(b) : c[k] = IF k <= Len(a) THEN a[k] ELSE b[k - Len(a)]
    BY <1>2, <1>3, ConcatProperties, Zenon
  <1> HIDE DEF c
  <1>6. Len(a) = i - 1 /\ Len(a) + Len(b) = Len(s) - 1 /\ DOMAIN c = 1 .. Len(s) - 1
    BY <1>1, <1>2, <1>3, <1>5
  <1>7. ASSUME NEW k \in 1 .. Len(s) - 1 PROVE c[k] = IF k < i THEN s[k] ELSE s[k + 1]
    <2>1. c[k] = IF k <= i - 1 THEN a[k] ELSE b[k - (i - 1)]
      BY <1>5, <1>6, Zenon
    <2>2. CASE k < i
      <3>1. k <= i - 1 /\ k \in 1 .. i - 1
        BY <1>1, <2>2
      <3>2. QED
        BY <1>2, <2>1, <2>2, <3>1, Zenon
    <2>3. CASE k >= i
      <3>1. c[k] = b[k - (i - 1)] /\ k - (i - 1) \in 1 .. Len(s) - i
        BY <1>1, <2>1, <2>3
      <3>2. b[k - (i - 1)] = s[k - (i - 1) + i]
        BY <1>3, <3>1
      <3>3. k - (i - 1) + i = k + 1
        BY <1>1
      <3>4. QED
        BY <1>1, <2>3, <3>1, <3>2, <3>3
    <2>4. QED
      BY <1>1, <2>2, <2>3
  <1>8. QED
    BY <1>4, <1>6, <1>7 DEF c

\* Taking another callback away changes nothing for a run.
LEMMA OtherRemoved ==
  ASSUME NEW s \in Seq(TimerType), NEW i \in DOMAIN s, NEW run, s[i].run # run
  PROVE  /\ Has(RemoveAt(s, i), run) <=> Has(s, run)
         /\ \A arg : LastIs(s, run, arg) => LastIs(RemoveAt(s, i), run, arg)
  <1> DEFINE r == RemoveAt(s, i)
  <1>1. /\ DOMAIN r = 1 .. Len(s) - 1 /\ i \in 1 .. Len(s) /\ Len(s) \in Nat /\ DOMAIN s = 1 .. Len(s)
        /\ \A k \in 1 .. Len(s) - 1 : r[k] = IF k < i THEN s[k] ELSE s[k + 1]
    BY RemoveAtElements
  <1> HIDE DEF r
  <1>2. ASSUME NEW k \in DOMAIN s, k # i
        PROVE  IF k < i THEN k \in DOMAIN r /\ r[k] = s[k] ELSE k - 1 \in DOMAIN r /\ r[k - 1] = s[k]
    <2>1. CASE k < i
      BY <1>1, <2>1
    <2>2. CASE k > i
      BY <1>1, <2>2
    <2>3. QED
      BY <1>1, <1>2, <2>1, <2>2
  <1>3. Has(r, run) <=> Has(s, run)
    <2>1. ASSUME Has(r, run) PROVE Has(s, run)
      <3>1. PICK k \in DOMAIN r : r[k].run = run
        BY <2>1 DEF Has
      <3>2. (IF k < i THEN k ELSE k + 1) \in DOMAIN s
        BY <1>1
      <3>3. QED
        BY <1>1, <3>1, <3>2 DEF Has
    <2>2. ASSUME Has(s, run) PROVE Has(r, run)
      BY <1>2, <2>2 DEF Has
    <2>3. QED
      BY <2>1, <2>2
  <1>4. ASSUME NEW arg, LastIs(s, run, arg) PROVE LastIs(r, run, arg)
    <2>1. PICK k \in DOMAIN s : /\ s[k].run = run /\ s[k].arg = arg
                                /\ \A j \in DOMAIN s : j > k => s[j].run # run
      BY <1>4 DEF LastIs
    <2> DEFINE m == IF k < i THEN k ELSE k - 1
    <2>2. k # i
      BY <2>1
    <2>3. m \in DOMAIN r /\ r[m] = s[k]
      BY <1>2, <2>2
    <2>4. ASSUME NEW j \in DOMAIN r, j > m PROVE r[j].run # run
      <3>1. CASE j < i
        BY <1>1, <2>1, <2>2, <2>4, <3>1
      <3>2. CASE j >= i
        <4>1. r[j] = s[j + 1] /\ j + 1 \in DOMAIN s
          BY <1>1, <3>2
        <4>2. j + 1 > k
          BY <1>1, <2>2, <2>4, <3>2
        <4>3. QED
          BY <2>1, <4>1, <4>2
      <3>3. QED
        BY <1>1, <3>1, <3>2
    <2>5. QED
      BY <2>1, <2>3, <2>4 DEF LastIs
  <1>5. QED
    BY <1>3, <1>4 DEF r

\* Taking the first callback of a run away
LEMMA FirstRemoved ==
  ASSUME NEW s \in Seq(TimerType), NEW i \in DOMAIN s, NEW run, s[i].run = run, NEW arg,
         \A j \in DOMAIN s : j < i => s[j].run # run,
         LastIs(s, run, arg)
  PROVE  \/ LastIs(RemoveAt(s, i), run, arg)
         \/ s[i].arg = arg /\ ~Has(RemoveAt(s, i), run)
  <1> DEFINE r == RemoveAt(s, i)
  <1>1. /\ DOMAIN r = 1 .. Len(s) - 1 /\ i \in 1 .. Len(s) /\ Len(s) \in Nat /\ DOMAIN s = 1 .. Len(s)
        /\ \A k \in 1 .. Len(s) - 1 : r[k] = IF k < i THEN s[k] ELSE s[k + 1]
    BY RemoveAtElements
  <1>2. PICK k \in DOMAIN s : /\ s[k].run = run /\ s[k].arg = arg
                              /\ \A j \in DOMAIN s : j > k => s[j].run # run
    BY DEF LastIs
  <1>3. \A j \in DOMAIN s : j < i => s[j].run # run
    OBVIOUS
  <1> HIDE DEF r
  <1>4. CASE k = i
    <2>1. ~Has(r, run)
      <3>1. \A j \in DOMAIN s : j # i => s[j].run # run
        BY <1>1, <1>2, <1>3, <1>4
      <3>2. ASSUME NEW j \in DOMAIN r PROVE r[j].run # run
        <4>1. CASE j < i
          BY <1>1, <3>1, <4>1
        <4>2. CASE j >= i
          <5>1. r[j] = s[j + 1] /\ j + 1 \in DOMAIN s /\ j + 1 # i
            BY <1>1, <4>2
          <5>2. QED
            BY <3>1, <5>1
        <4>3. QED
          BY <1>1, <4>1, <4>2
      <3>3. QED
        BY <3>2 DEF Has
    <2>2. QED
      BY <1>2, <1>4, <2>1 DEF r
  <1>5. CASE k # i
    <2>1. k > i
      BY <1>1, <1>2, <1>3, <1>5
    <2>2. k - 1 \in DOMAIN r /\ r[k - 1] = s[k]
      BY <1>1, <2>1
    <2>3. ASSUME NEW j \in DOMAIN r, j > k - 1 PROVE r[j].run # run
      <3>1. r[j] = s[j + 1] /\ j + 1 \in DOMAIN s /\ j + 1 > k
        BY <1>1, <2>1, <2>3
      <3>2. QED
        BY <1>2, <3>1
    <2>4. QED
      BY <1>2, <2>2, <2>3 DEF LastIs, r
  <1>6. QED
    BY <1>4, <1>5

\* Setting another timer
LEMMA Appended ==
  ASSUME NEW s \in Seq(TimerType), NEW e \in TimerType, NEW run
  PROVE  /\ Append(s, e) \in Seq(TimerType)
         /\ Has(Append(s, e), run) <=> Has(s, run) \/ e.run = run
         /\ e.run # run => \A arg : LastIs(s, run, arg) => LastIs(Append(s, e), run, arg)
         /\ e.run = run => LastIs(Append(s, e), run, e.arg)
  <1> DEFINE r == Append(s, e)
  <1>1. /\ r \in Seq(TimerType) /\ DOMAIN r = 1 .. Len(s) + 1 /\ DOMAIN s = 1 .. Len(s) /\ Len(s) \in Nat
        /\ r[Len(s) + 1] = e /\ \A k \in DOMAIN s : r[k] = s[k]
    OBVIOUS
  <1> HIDE DEF r
  <1>2. Has(r, run) <=> Has(s, run) \/ e.run = run
    BY <1>1 DEF Has
  <1>3. ASSUME e.run # run, NEW arg, LastIs(s, run, arg) PROVE LastIs(r, run, arg)
    <2>1. PICK k \in DOMAIN s : /\ s[k].run = run /\ s[k].arg = arg
                                /\ \A j \in DOMAIN s : j > k => s[j].run # run
      BY <1>3 DEF LastIs
    <2>2. k \in DOMAIN r /\ r[k] = s[k] /\ \A j \in DOMAIN r : j > k => r[j].run # run
      BY <1>1, <1>3, <2>1
    <2>3. QED
      BY <2>1, <2>2 DEF LastIs
  <1>4. ASSUME e.run = run PROVE LastIs(r, run, e.arg)
    BY <1>1, <1>4 DEF LastIs
  <1>5. QED
    BY <1>1, <1>2, <1>3, <1>4 DEF r

\* The callbacks of the checkbox when another timer goes
LEMMA BoxesOtherRemoved ==
  ASSUME NEW s \in Seq(TimerType), NEW i \in DOMAIN s, s[i].run # "checkbox"
  PROVE  /\ Boxes(RemoveAt(s, i)) = {} <=> Boxes(s) = {}
         /\ \A count, box : Toggled(s, count, box) => Toggled(RemoveAt(s, i), count, box)
  <1> DEFINE r == RemoveAt(s, i)
             up(k) == IF k < i THEN k ELSE k + 1
             down(k) == IF k < i THEN k ELSE k - 1
  <1>1. /\ DOMAIN r = 1 .. Len(s) - 1 /\ i \in 1 .. Len(s) /\ Len(s) \in Nat /\ DOMAIN s = 1 .. Len(s)
        /\ \A k \in 1 .. Len(s) - 1 : r[k] = IF k < i THEN s[k] ELSE s[k + 1]
    BY RemoveAtElements
  <1> HIDE DEF r
  <1>2. Boxes(s) \subseteq Int /\ Boxes(r) \subseteq Int
    BY <1>1 DEF Boxes
  <1>3. ASSUME NEW k \in Boxes(r) PROVE up(k) \in Boxes(s) /\ s[up(k)] = r[k]
    <2>1. CASE k < i
      BY <1>1, <2>1 DEF Boxes
    <2>2. CASE ~(k < i)
      BY <1>1, <2>2 DEF Boxes
    <2>3. QED
      BY <2>1, <2>2
  <1>4. ASSUME NEW k \in Boxes(s) PROVE down(k) \in Boxes(r) /\ up(down(k)) = k
    <2>1. CASE k < i
      BY <1>1, <2>1 DEF Boxes
    <2>2. CASE k > i
      BY <1>1, <2>2 DEF Boxes
    <2>3. QED
      BY <1>1, <2>1, <2>2 DEF Boxes
  <1>5. \A j, k \in Int : (up(j) < up(k) <=> j < k) /\ up(j) \in Int
    BY <1>1
  <1> HIDE DEF up, down
  <1>6. Boxes(r) = {} <=> Boxes(s) = {}
    BY <1>3, <1>4
  <1>7. ASSUME NEW count, NEW box, Toggled(s, count, box) PROVE Toggled(r, count, box)
    <2>1. \A k \in Boxes(r) : Checks(r, k, count = 0) \/ \E j \in Boxes(r) : j < k
      <3>1. SUFFICES ASSUME NEW k \in Boxes(r) PROVE Checks(r, k, count = 0) \/ \E j \in Boxes(r) : j < k
        OBVIOUS
      <3>2. CASE Checks(s, up(k), count = 0)
        BY <1>3, <3>2 DEF Checks
      <3>3. CASE \E j \in Boxes(s) : j < up(k)
        BY <1>2, <1>4, <1>5, <3>3
      <3>4. QED
        BY <1>3, <1>7, <3>2, <3>3 DEF Toggled
    <2>2. \A k \in Boxes(r) : Checks(r, k, box) \/ \E j \in Boxes(r) : j > k
      <3>1. SUFFICES ASSUME NEW k \in Boxes(r) PROVE Checks(r, k, box) \/ \E j \in Boxes(r) : j > k
        OBVIOUS
      <3>2. CASE Checks(s, up(k), box)
        BY <1>3, <3>2 DEF Checks
      <3>3. CASE \E j \in Boxes(s) : j > up(k)
        BY <1>2, <1>4, <1>5, <3>3
      <3>4. QED
        BY <1>3, <1>7, <3>2, <3>3 DEF Toggled
    <2>3. ASSUME NEW j \in Boxes(r), NEW k \in Boxes(r), j < k
          PROVE  r[j].arg # r[k].arg \/ \E m \in Boxes(r) : j < m /\ m < k
      <3>1. up(j) \in Boxes(s) /\ up(k) \in Boxes(s) /\ up(j) < up(k)
        BY <1>2, <1>3, <1>5, <2>3
      <3>2. s[up(j)].arg # s[up(k)].arg \/ \E m \in Boxes(s) : up(j) < m /\ m < up(k)
        BY <1>7, <3>1 DEF Toggled
      <3>3. ASSUME NEW m \in Boxes(s), up(j) < m, m < up(k)
            PROVE  \E n \in Boxes(r) : j < n /\ n < k
        BY <1>2, <1>4, <1>5, <3>3
      <3>4. QED
        BY <1>3, <3>2, <3>3
    <2>4. \A k \in Boxes(r) : r[k].arg \in BOOLEAN
      BY <1>3, <1>7 DEF Toggled
    <2>5. QED
      BY <1>6, <1>7, <2>1, <2>2, <2>3, <2>4 DEF Toggled
  <1>8. QED
    BY <1>6, <1>7 DEF r

\* The callbacks of the checkbox when another timer is set
LEMMA BoxesOtherAppended ==
  ASSUME NEW s \in Seq(TimerType), NEW e \in TimerType, e.run # "checkbox"
  PROVE  /\ Boxes(Append(s, e)) = Boxes(s)
         /\ \A count, box : Toggled(s, count, box) => Toggled(Append(s, e), count, box)
  <1> DEFINE r == Append(s, e)
  <1>1. /\ DOMAIN r = 1 .. Len(s) + 1 /\ DOMAIN s = 1 .. Len(s) /\ Len(s) \in Nat
        /\ r[Len(s) + 1] = e /\ \A k \in DOMAIN s : r[k] = s[k]
    OBVIOUS
  <1> HIDE DEF r
  <1>2. Boxes(r) = Boxes(s) /\ \A k \in Boxes(s) : r[k] = s[k]
    BY <1>1 DEF Boxes
  <1>3. QED
    BY <1>2 DEF Toggled, Checks, r

\* A click on the checkbox
LEMMA BoxAppended ==
  ASSUME NEW s \in Seq(TimerType), NEW e \in TimerType, NEW count, NEW box, Toggled(s, count, box),
         e.run = "checkbox", e.arg = IF box THEN FALSE ELSE TRUE
  PROVE  Toggled(Append(s, e), count, ~box) /\ Boxes(Append(s, e)) # {}
  <1> DEFINE r == Append(s, e)
             n == Len(s) + 1
  <1>1. /\ DOMAIN r = 1 .. n /\ DOMAIN s = 1 .. Len(s) /\ Len(s) \in Nat
        /\ r[n] = e /\ \A k \in DOMAIN s : r[k] = s[k]
    OBVIOUS
  <1> HIDE DEF r
  <1>2. /\ Boxes(r) = Boxes(s) \cup {n} /\ (\A k \in Boxes(s) : r[k] = s[k] /\ k < n)
        /\ Boxes(s) \subseteq Int /\ n \in Int
    BY <1>1 DEF Boxes
  <1>3. Checks(r, n, ~box) /\ box \in BOOLEAN /\ count \in {0, 1}
    BY <1>1 DEF Checks, Toggled
  <1> HIDE DEF n
  <1>4. \A k \in Boxes(r) : Checks(r, k, count = 0) \/ \E j \in Boxes(r) : j < k
    <2>1. CASE Boxes(s) = {}
      <3>1. count = 0 <=> ~box
        BY <1>3, <2>1 DEF Toggled
      <3>2. QED
        BY <1>2, <1>3, <2>1, <3>1 DEF Checks
    <2>2. CASE Boxes(s) # {}
      BY <1>2, <2>2 DEF Toggled, Checks
    <2>3. QED
      BY <2>1, <2>2
  <1>5. \A k \in Boxes(r) : Checks(r, k, ~box) \/ \E j \in Boxes(r) : j > k
    BY <1>2, <1>3
  <1>6. ASSUME NEW j \in Boxes(r), NEW k \in Boxes(r), j < k
        PROVE  r[j].arg # r[k].arg \/ \E m \in Boxes(r) : j < m /\ m < k
    <2>1. j \in Boxes(s)
      BY <1>2, <1>6
    <2>2. CASE k \in Boxes(s)
      BY <1>2, <1>6, <2>1, <2>2 DEF Toggled
    <2>3. CASE k = n
      <3>1. Checks(s, j, box) \/ \E m \in Boxes(s) : m > j
        BY <2>1 DEF Toggled
      <3>2. CASE Checks(s, j, box)
        BY <1>2, <1>3, <2>1, <2>3, <3>2 DEF Checks
      <3>3. CASE \E m \in Boxes(s) : m > j
        BY <1>2, <2>1, <2>3, <3>3
      <3>4. QED
        BY <3>1, <3>2, <3>3
    <2>4. QED
      BY <1>2, <2>2, <2>3
  <1>7. \A k \in Boxes(r) : r[k].arg \in BOOLEAN
    BY <1>2, <1>3 DEF Toggled, Checks
  <1>8. QED
    BY <1>2, <1>3, <1>4, <1>5, <1>6, <1>7 DEF Toggled, r

\* The first callback of the checkbox is called.
LEMMA BoxRemoved ==
  ASSUME NEW s \in Seq(TimerType), NEW i \in DOMAIN s, NEW count, NEW box, Toggled(s, count, box),
         s[i].run = "checkbox", \A j \in DOMAIN s : j < i => s[j].run # "checkbox"
  PROVE  Toggled(RemoveAt(s, i), IF s[i].arg THEN count + 1 ELSE count - 1, box)
  <1> DEFINE r == RemoveAt(s, i)
             now == IF s[i].arg THEN count + 1 ELSE count - 1
             Left == {k \in Boxes(s) : k # i}
  <1>1. /\ DOMAIN r = 1 .. Len(s) - 1 /\ i \in 1 .. Len(s) /\ Len(s) \in Nat /\ DOMAIN s = 1 .. Len(s)
        /\ \A k \in 1 .. Len(s) - 1 : r[k] = IF k < i THEN s[k] ELSE s[k + 1]
    BY RemoveAtElements
  <1> HIDE DEF r
  <1>2. i \in Boxes(s) /\ Boxes(s) \subseteq Int /\ \A k \in Boxes(s) : k >= i
    BY <1>1 DEF Boxes
  <1>3. Boxes(r) \subseteq Int /\ \A k \in Boxes(r) : k >= i /\ k + 1 \in Boxes(s) /\ r[k] = s[k + 1]
    BY <1>1 DEF Boxes
  <1>4. ASSUME NEW k \in Left PROVE k - 1 \in Boxes(r) /\ r[k - 1] = s[k] /\ k > i
    <2>1. k > i
      BY <1>2
    <2>2. QED
      BY <1>1, <2>1 DEF Boxes
  <1>5. Checks(s, i, count = 0) /\ count \in {0, 1} /\ box \in BOOLEAN
    BY <1>2 DEF Toggled
  <1>6. now \in {0, 1} /\ (now = 0 <=> count # 0)
    BY <1>5 DEF Checks
  <1> HIDE DEF now
  <1>7. ASSUME NEW k \in Boxes(r) PROVE Checks(r, k, now = 0) \/ \E j \in Boxes(r) : j < k
    <2>1. i < k + 1 /\ k + 1 \in Boxes(s)
      BY <1>2, <1>3
    <2>2. s[i].arg # s[k + 1].arg \/ \E m \in Boxes(s) : i < m /\ m < k + 1
      BY <1>2, <2>1 DEF Toggled
    <2>3. CASE s[i].arg # s[k + 1].arg
      <3>1. s[k + 1].arg \in BOOLEAN
        BY <2>1 DEF Toggled
      <3>2. QED
        BY <1>3, <1>5, <1>6, <2>3, <3>1 DEF Checks
    <2>4. CASE \E m \in Boxes(s) : i < m /\ m < k + 1
      <3>1. PICK m \in Boxes(s) : i < m /\ m < k + 1
        BY <2>4
      <3>2. m - 1 \in Boxes(r) /\ m - 1 < k
        BY <1>2, <1>3, <1>4, <3>1
      <3>3. QED
        BY <3>2
    <2>5. QED
      BY <2>2, <2>3, <2>4
  <1>8. ASSUME NEW k \in Boxes(r) PROVE Checks(r, k, box) \/ \E j \in Boxes(r) : j > k
    <2>1. Checks(s, k + 1, box) \/ \E j \in Boxes(s) : j > k + 1
      BY <1>3 DEF Toggled
    <2>2. CASE Checks(s, k + 1, box)
      BY <1>3, <2>2 DEF Checks
    <2>3. CASE \E j \in Boxes(s) : j > k + 1
      <3>1. PICK j \in Boxes(s) : j > k + 1
        BY <2>3
      <3>2. j - 1 \in Boxes(r) /\ j - 1 > k
        BY <1>2, <1>3, <1>4, <3>1
      <3>3. QED
        BY <3>2
    <2>4. QED
      BY <2>1, <2>2, <2>3
  <1>9. ASSUME NEW j \in Boxes(r), NEW k \in Boxes(r), j < k
        PROVE  r[j].arg # r[k].arg \/ \E m \in Boxes(r) : j < m /\ m < k
    <2>1. j + 1 \in Boxes(s) /\ k + 1 \in Boxes(s) /\ j + 1 < k + 1
      BY <1>3, <1>9
    <2>2. s[j + 1].arg # s[k + 1].arg \/ \E m \in Boxes(s) : j + 1 < m /\ m < k + 1
      BY <2>1 DEF Toggled
    <2>3. ASSUME NEW m \in Boxes(s), j + 1 < m, m < k + 1 PROVE \E n \in Boxes(r) : j < n /\ n < k
      <3>1. m - 1 \in Boxes(r) /\ j < m - 1 /\ m - 1 < k
        BY <1>2, <1>3, <1>4, <2>3
      <3>2. QED
        BY <3>1
    <2>4. QED
      BY <1>3, <2>2, <2>3
  <1>10. Boxes(r) = {} => now = IF box THEN 1 ELSE 0
    <2>1. ASSUME Boxes(r) = {} PROVE Checks(s, i, box)
      BY <1>2, <1>4, <2>1 DEF Toggled
    <2>2. QED
      BY <1>5, <1>6, <2>1 DEF Checks
  <1>11. \A k \in Boxes(r) : r[k].arg \in BOOLEAN
    BY <1>3 DEF Toggled
  <1>12. QED
    BY <1>5, <1>6, <1>7, <1>8, <1>9, <1>10, <1>11 DEF Toggled, r, now

\* callbacks that neither render a source nor belong to the checkbox
Aside == {"end", "tab", "get"}

\* Whatever holds of the callbacks s also holds of r.
Keeps(s, r) ==
  /\ \A file, shown : Rendered(s, file, shown) => Rendered(r, file, shown)
  /\ \A run \in Rendering : Has(s, run) => Has(r, run)
  /\ Boxes(r) = {} <=> Boxes(s) = {}
  /\ \A count, box : Toggled(s, count, box) => Toggled(r, count, box)

LEMMA AsideSet ==
  ASSUME NEW s \in Seq(TimerType), NEW e \in TimerType, e.run \in Aside
  PROVE  Keeps(s, Append(s, e))
  <1>1. e.run # "make" /\ e.run # "join" /\ e.run # "append" /\ e.run # "scroll" /\ e.run # "checkbox"
    BY DEF Aside
  <1>2. ASSUME NEW run \in Rendering
        PROVE  /\ Has(Append(s, e), run) <=> Has(s, run)
               /\ \A arg : LastIs(s, run, arg) => LastIs(Append(s, e), run, arg)
    BY <1>1, Appended DEF Rendering
  <1>3. QED
    BY <1>1, <1>2, BoxesOtherAppended DEF Keeps, Rendered, Rendering

LEMMA AsideRemoved ==
  ASSUME NEW s \in Seq(TimerType), NEW i \in DOMAIN s, s[i].run \in Aside
  PROVE  Keeps(s, RemoveAt(s, i))
  <1>1. s[i].run # "make" /\ s[i].run # "join" /\ s[i].run # "append" /\ s[i].run # "scroll" /\ s[i].run # "checkbox"
    BY DEF Aside
  <1>2. ASSUME NEW run \in Rendering
        PROVE  /\ Has(RemoveAt(s, i), run) <=> Has(s, run)
               /\ \A arg : LastIs(s, run, arg) => LastIs(RemoveAt(s, i), run, arg)
    BY <1>1, OtherRemoved DEF Rendering
  <1>3. QED
    BY <1>1, <1>2, BoxesOtherRemoved DEF Keeps, Rendered, Rendering

\* One callback that stands aside makes room for another.
LEMMA AsideThen ==
  ASSUME NEW s \in Seq(TimerType), NEW i \in DOMAIN s, s[i].run \in Aside,
         NEW e \in TimerType, e.run \in Aside
  PROVE  Keeps(s, Append(RemoveAt(s, i), e))
  <1>1. RemoveAt(s, i) \in Seq(TimerType)
    BY RemoveAtProps
  <1>2. Keeps(s, RemoveAt(s, i)) /\ Keeps(RemoveAt(s, i), Append(RemoveAt(s, i), e))
    BY <1>1, AsideRemoved, AsideSet
  <1>3. QED
    BY <1>2 DEF Keeps

\* The next callback that renders a source is set.
LEMMA RenderingThen ==
  ASSUME NEW s \in Seq(TimerType), NEW i \in DOMAIN s, s[i].run # "checkbox",
         NEW e \in TimerType, e.run # "checkbox"
  PROVE  LET r == Append(RemoveAt(s, i), e) IN
         /\ \A run : run # s[i].run /\ run # e.run =>
              /\ Has(r, run) <=> Has(s, run)
              /\ \A arg : LastIs(s, run, arg) => LastIs(r, run, arg)
         /\ Has(r, e.run) /\ LastIs(r, e.run, e.arg)
         /\ Boxes(r) = {} <=> Boxes(s) = {}
         /\ \A count, box : Toggled(s, count, box) => Toggled(r, count, box)
  <1> DEFINE q == RemoveAt(s, i)
             r == Append(q, e)
  <1>1. q \in Seq(TimerType)
    BY RemoveAtProps
  <1>2. ASSUME NEW run, run # s[i].run, run # e.run
        PROVE  /\ Has(r, run) <=> Has(s, run)
               /\ \A arg : LastIs(s, run, arg) => LastIs(r, run, arg)
    <2>1. /\ Has(q, run) <=> Has(s, run)
          /\ \A arg : LastIs(s, run, arg) => LastIs(q, run, arg)
      BY <1>2, OtherRemoved
    <2> HIDE DEF q
    <2>2. /\ Has(r, run) <=> Has(q, run)
          /\ \A arg : LastIs(q, run, arg) => LastIs(r, run, arg)
      BY <1>1, <1>2, Appended
    <2>3. QED
      BY <2>1, <2>2
  <1>3. /\ Boxes(q) = {} <=> Boxes(s) = {}
        /\ \A count, box : Toggled(s, count, box) => Toggled(q, count, box)
    BY BoxesOtherRemoved
  <1> HIDE DEF q
  <1>4. Has(r, e.run) /\ LastIs(r, e.run, e.arg)
    BY <1>1, Appended
  <1>5. /\ Boxes(r) = Boxes(q)
        /\ \A count, box : Toggled(q, count, box) => Toggled(r, count, box)
    BY <1>1, BoxesOtherAppended
  <1>6. QED
    BY <1>2, <1>3, <1>4, <1>5 DEF q

\* Timers that are set are proper.
LEMMA ProperSet ==
  /\ \A run \in {"end", "tab", "make", "scroll"}, d \in {0, 50}, arg \in Arg : Timer(d, run, arg, None) \in Proper
  /\ \A checked \in BOOLEAN : Timer(50, "checkbox", checked, None) \in Proper
  /\ \A file \in Files, line \in Lines \cup {None} : Timer(50, "get", file, line) \in Proper
  /\ \A arg \in Arg : Timer(0, "join", arg, None) \in Proper
  /\ \A t \in TimerType : [t EXCEPT !.delay = 100, !.run = "append"] \in Proper
  /\ End \in Proper
  /\ \A file : SourceTimer(file) \in Proper
  /\ Proper \subseteq TimerType
  <1>1. None \in Arg /\ BOOLEAN \subseteq Arg /\ Files \subseteq Arg /\ None \in Lines \cup {None}
    BY DEF Arg
  <1>2. \A run \in {"end", "tab", "make", "scroll"}, d \in {0, 50}, arg \in Arg : Timer(d, run, arg, None) \in Proper
    BY <1>1 DEF Timer, Proper, TimerType, Callbacks
  <1>3. \A checked \in BOOLEAN : Timer(50, "checkbox", checked, None) \in Proper
    BY <1>1 DEF Timer, Proper, TimerType, Callbacks
  <1>4. \A file \in Files, line \in Lines \cup {None} : Timer(50, "get", file, line) \in Proper
    BY <1>1 DEF Timer, Proper, TimerType, Callbacks
  <1>5. \A arg \in Arg : Timer(0, "join", arg, None) \in Proper
    BY <1>1 DEF Timer, Proper, TimerType, Callbacks
  <1>6. \A t \in TimerType : [t EXCEPT !.delay = 100, !.run = "append"] \in Proper
    BY DEF Proper, TimerType, Callbacks
  <1>7. End \in Proper /\ \A file : SourceTimer(file) \in Proper
    BY <1>1, <1>2 DEF End, SourceTimer
  <1>8. QED
    BY <1>2, <1>3, <1>4, <1>5, <1>6, <1>7 DEF Proper

\* Of callbacks that wait for the same time the one that was set first is called first.
LEMMA InOrder ==
  ASSUME timers \in Seq(Proper), NEW i \in DOMAIN timers, Due(i),
         timers[i].run \in {"join", "checkbox", "append"}
  PROVE  \A j \in DOMAIN timers : j < i => timers[j].run # timers[i].run
  <1>1. SUFFICES ASSUME NEW j \in DOMAIN timers, j < i, timers[j].run = timers[i].run
                 PROVE  FALSE
    OBVIOUS
  <1>2. timers[i] \in Proper /\ timers[j] \in Proper /\ j \in 1 .. i - 1
    BY <1>1
  <1>3. timers[j].delay > timers[i].delay
    BY <1>2 DEF Due
  <1>4. timers[j].delay = timers[i].delay /\ timers[i].delay \in Nat
    BY <1>1, <1>2 DEF Proper, TimerType
  <1>5. QED
    BY <1>3, <1>4

Shows ==
  /\ Rendered(timers, jscoverage_currentFile, table)
  /\ heading = jscoverage_currentFile
  /\ Marked(timers)
  /\ Toggled(timers, columns, checkbox)
  /\ Listed

\* A step that changes the timers only, and sets them aside
LEMMA ShowsKept ==
  ASSUME Shows, Keeps(timers, timers'),
         UNCHANGED <<mode, coverage, tab, page, checkbox, columns, rows, jscoverage_currentFile, heading, table>>
  PROVE  Shows'
  BY DEF Shows, Keeps, Marked, Listed

\* What the user does
LEMMA ViewClick ==
  ASSUME FlagInv, ViewInv, UserStep
  PROVE  ViewInv'
  <1> DEFINE Rest == (timers \in Seq(Proper))' /\ Shows' /\ Turning' /\ Raised'
  <1>1. timers \in Seq(Proper) /\ timers \in Seq(TimerType) /\ Shows /\ Turning /\ Raised
    BY DEF ViewInv, Shows, FlagInv, TimersOK
  <1>2. ASSUME Rest, loaded' PROVE ViewInv'
    BY <1>2 DEF ViewInv, Shows
  <1>3. ASSUME NEW click, NEW e \in Proper, Click(click, e)
        PROVE  /\ timers' \in Seq(Proper) /\ Turning' /\ Raised' /\ loaded'
               /\ UNCHANGED <<mode, coverage, tab, page, jscoverage_currentFile, heading, table>>
    <2>1. /\ timers' = Append(timers, e) /\ loaded'
          /\ UNCHANGED <<mode, coverage, loading, storing, throbbers>>
          /\ UNCHANGED <<tab, page, jscoverage_currentFile, heading, table>>
      BY <1>3 DEF Click, Begin, server, source
    <2>2. timers' \in Seq(Proper) /\ Len(timers') > 0
      BY <1>1, <2>1
    <2>3. QED
      BY <1>1, <2>1, <2>2 DEF Turning, Raised
  <1>4. ASSUME NEW t \in Tabs, TabClick(t) PROVE ViewInv'
    <2> DEFINE e == Timer(50, "tab", t, None)
    <2>1. e \in Proper /\ e \in TimerType /\ e.run \in Aside
      <3>1. t \in Arg
        BY DEF Tabs, Arg
      <3>2. QED
        BY <3>1, ProperSet DEF Timer, Aside
    <2>2. Click(<<"tab", t, None>>, e) /\ UNCHANGED <<checkbox, columns, rows>> /\ timers' = Append(timers, e)
      BY <1>4 DEF TabClick, Click, summary
    <2> HIDE DEF e
    <2>3. Keeps(timers, timers')
      BY <1>1, <2>1, <2>2, AsideSet
    <2>4. QED
      BY <1>1, <1>2, <1>3, <2>1, <2>2, <2>3, ShowsKept
  <1>5. ASSUME CheckboxClick PROVE ViewInv'
    <2> DEFINE e == Timer(50, "checkbox", ~checkbox, None)
    <2>1. checkbox \in BOOLEAN
      BY <1>1 DEF Shows, Toggled
    <2>2. e \in Proper /\ e \in TimerType /\ e.run = "checkbox" /\ e.arg = ~checkbox
      BY <2>1, ProperSet DEF Timer
    <2>3. /\ Click(<<"tab", page, None>>, e) /\ timers' = Append(timers, e)
          /\ checkbox' = ~checkbox /\ UNCHANGED <<columns, rows>>
      BY <1>5 DEF CheckboxClick, Click
    <2> HIDE DEF e
    <2>4. e.arg = IF checkbox THEN FALSE ELSE TRUE
      BY <2>1, <2>2
    <2>5. Toggled(timers', columns', checkbox') /\ Boxes(timers') # {}
      <3>1. Toggled(timers, columns, checkbox)
        BY <1>1 DEF Shows
      <3>2. Toggled(Append(timers, e), columns, ~checkbox) /\ Boxes(Append(timers, e)) # {}
        BY <1>1, <2>2, <2>4, <3>1, BoxAppended, Zenon
      <3>3. QED
        BY <2>3, <3>2, Zenon
    <2>6. \A run \in Rendering : /\ Has(timers', run) <=> Has(timers, run)
                                 /\ \A arg : LastIs(timers, run, arg) => LastIs(timers', run, arg)
      BY <1>1, <2>2, <2>3, Appended DEF Rendering
    <2>7. UNCHANGED <<mode, coverage, tab, page, jscoverage_currentFile, heading, table>>
      BY <1>3, <2>2, <2>3
    <2>8. Rendered(timers', jscoverage_currentFile', table')
      BY <1>1, <2>6, <2>7 DEF Shows, Rendered, Rendering
    <2>9. Marked(timers)' /\ Listed'
      BY <1>1, <2>3, <2>5, <2>6, <2>7 DEF Shows, Marked, Listed
    <2>10. Shows'
      BY <1>1, <2>5, <2>7, <2>8, <2>9 DEF Shows
    <2>11. QED
      BY <1>2, <1>3, <2>2, <2>3, <2>10
  <1>6. ASSUME StoreClick PROVE ViewInv'
    <2>1. /\ loaded' /\ storing' = storing + 1 /\ throbbers' = throbbers \cup {"store"}
          /\ UNCHANGED <<mode, coverage, timers, loading, tab, page, checkbox, columns, rows,
                         jscoverage_currentFile, heading, table>>
      BY <1>6 DEF StoreClick, Begin, summary, source
    <2>2. storing \in Nat
      BY DEF FlagInv, FlagOK
    <2>3. Turning' /\ Raised'
      BY <1>1, <2>1, <2>2 DEF Turning, Raised
    <2>4. Shows'
      BY <1>1, <2>1 DEF Shows, Marked, Listed
    <2>5. QED
      BY <1>1, <1>2, <2>1, <2>3, <2>4
  <1>7. ASSUME NEW file \in Files, NEW line \in Lines \cup {None}, LinkClick(file, line) PROVE ViewInv'
    <2> DEFINE e == Timer(50, "get", file, line)
    <2>1. e \in Proper /\ e \in TimerType /\ e.run \in Aside
      BY ProperSet DEF Timer, Aside
    <2>2. Click(<<"get", file, line>>, e) /\ UNCHANGED <<checkbox, columns, rows>> /\ timers' = Append(timers, e)
      BY <1>7 DEF LinkClick, Click, summary
    <2> HIDE DEF e
    <2>3. Keeps(timers, timers')
      BY <1>1, <2>1, <2>2, AsideSet
    <2>4. QED
      BY <1>1, <1>2, <1>3, <2>1, <2>2, <2>3, ShowsKept
  <1>8. QED
    BY <1>4, <1>5, <1>6, <1>7 DEF UserStep

\* What the callbacks of timers do
LEMMA ViewCallback ==
  ASSUME FlagInv, ViewInv, TimerStep
  PROVE  ViewInv'
  <1>1. /\ timers \in Seq(Proper) /\ timers \in Seq(TimerType) /\ Len(timers) \in Nat
        /\ Shows /\ Turning /\ Raised
    BY DEF ViewInv, Shows, FlagInv, TimersOK
  <1>2. jscoverage_currentFile \in Arg /\ checkbox \in BOOLEAN
    BY DEF FlagInv, TimersOK
  <1>3. PICK i \in DOMAIN timers :
          \/ Ended(i) \/ TabSelected(i) \/ ColumnChanged(i) \/ FileSelected(i)
          \/ TableMade(i) \/ RowsJoined(i) \/ TableAppended(i) \/ Scrolled(i)
    BY DEF TimerStep
  <1>4. timers[i] \in Proper /\ timers[i] \in TimerType /\ timers[i].arg \in Arg /\ Len(timers) > 0
    <2>1. timers[i] \in Proper /\ Len(timers) > 0
      BY <1>1
    <2>2. QED
      BY <2>1 DEF Proper, TimerType
  <1>5. ASSUME timers' \in Seq(Proper), Shows', loaded', Turning', Raised' PROVE ViewInv'
    BY <1>5 DEF ViewInv, Shows
  <1>6. ASSUME NEW run, Fire(i, run)
        PROVE  /\ timers[i].run = run /\ Due(i) /\ loaded' /\ Turning'
               /\ UNCHANGED <<mode, coverage, loading, storing>>
    <2>1. timers # <<>>
      BY <1>4
    <2>2. loaded
      BY <2>1 DEF ViewInv
    <2>3. timers[i].run = run /\ Due(i) /\ UNCHANGED <<mode, loaded, coverage, loading, storing, throbbers>>
      BY <1>6 DEF Fire, server
    <2>4. QED
      BY <1>1, <2>2, <2>3 DEF Turning
  <1>7. ASSUME NEW e \in Proper, Then(i, e) PROVE timers' \in Seq(Proper) /\ Raised'
    <2>1. timers' \in Seq(Proper) /\ Len(timers') = Len(timers)
      BY <1>1, <1>7, ThenProps DEF Then
    <2>2. QED
      BY <1>4, <2>1 DEF Raised
  <1>8. End.run = "end" /\ End \in Proper /\ End \in TimerType
    BY ProperSet DEF End, Timer
  <1>9. CASE Ended(i)
    <2>1. /\ timers' = RemoveAt(timers, i) /\ jscoverage_inLengthyOperation' = FALSE
          /\ UNCHANGED <<tab, page, checkbox, columns, rows, jscoverage_currentFile, heading, table>>
          /\ Fire(i, "end")
      BY <1>9 DEF Ended, summary, source
    <2>2. Keeps(timers, timers')
      BY <1>1, <1>6, <2>1, AsideRemoved DEF Aside
    <2>3. timers' \in Seq(Proper)
      BY <1>1, <2>1, RemoveAtProps
    <2>4. QED
      BY <1>1, <1>5, <1>6, <2>1, <2>2, <2>3, ShowsKept DEF Raised
  <1>10. CASE TabSelected(i)
    <2> DEFINE e == IF timers[i].arg = "source" THEN SourceTimer(jscoverage_currentFile) ELSE End
    <2>1. /\ Fire(i, "tab") /\ Then(i, e) /\ tab' = page'
          /\ UNCHANGED <<checkbox, columns, jscoverage_currentFile, heading>>
          /\ rows' = rows \/ rows' = [of |-> coverage, missing |-> checkbox]
          /\ timers[i].arg = "source" => table' = None
          /\ timers[i].arg # "source" => table' = table
      BY <1>10 DEF TabSelected, Recalculated
    <2>2. e \in Proper /\ e \in TimerType /\ e.run \in {"make", "end"}
          /\ (timers[i].arg # "source" \/ jscoverage_currentFile = None => e.run = "end")
          /\ (timers[i].arg = "source" /\ jscoverage_currentFile # None => e.run = "make")
      BY <1>8, ProperSet DEF SourceTimer, Timer, End
    <2> HIDE DEF e
    <2>3. timers' = Append(RemoveAt(timers, i), e) /\ timers[i].run = "tab"
      BY <1>6, <2>1 DEF Then
    <2>4. Rendered(timers', jscoverage_currentFile, table')
      <3>1. CASE e.run = "make"
        <4>1. Has(timers', "make")
          BY <1>1, <2>2, <2>3, <3>1, RenderingThen
        <4>2. QED
          BY <4>1 DEF Rendered
      <3>2. CASE e.run = "end"
        <4>1. Keeps(timers, timers')
          BY <1>1, <2>2, <2>3, <3>2, AsideThen DEF Aside
        <4>2. Rendered(timers', jscoverage_currentFile, table)
          BY <1>1, <4>1 DEF Keeps, Shows
        <4>3. table' = table \/ table' = jscoverage_currentFile
          BY <2>1, <2>2, <3>2
        <4>4. QED
          BY <4>2, <4>3 DEF Rendered
      <3>3. QED
        BY <2>2, <3>1, <3>2
    <2>5. /\ Boxes(timers') = {} <=> Boxes(timers) = {}
          /\ Toggled(timers', columns, checkbox)
      BY <1>1, <2>2, <2>3, RenderingThen DEF Shows
    <2>6. Listed'
      BY <1>1, <1>6, <2>1, <2>5 DEF Shows, Listed
    <2>7. Shows'
      BY <1>1, <2>1, <2>4, <2>5, <2>6 DEF Shows, Marked
    <2>8. QED
      BY <1>5, <1>6, <1>7, <2>1, <2>2, <2>7
  <1>11. CASE ColumnChanged(i)
    <2> DEFINE q == RemoveAt(timers, i)
               now == IF timers[i].arg THEN columns + 1 ELSE columns - 1
    <2>1. /\ Fire(i, "checkbox") /\ columns' = now /\ Then(i, End)
          /\ rows' = [of |-> coverage, missing |-> checkbox]
          /\ UNCHANGED <<tab, page, checkbox, jscoverage_currentFile, heading, table>>
      BY <1>11 DEF ColumnChanged, Recalculated, source
    <2>2. timers' = Append(q, End) /\ timers[i].run = "checkbox" /\ q \in Seq(TimerType)
      BY <1>1, <1>6, <2>1, RemoveAtProps DEF Then
    <2>3. \A j \in DOMAIN timers : j < i => timers[j].run # "checkbox"
      BY <1>1, <1>6, <2>1, InOrder
    <2>4. Toggled(q, now, checkbox)
      BY <1>1, <2>2, <2>3, BoxRemoved DEF Shows
    <2>5. \A run \in Rendering : /\ Has(timers', run) <=> Has(timers, run)
                                 /\ \A arg : LastIs(timers, run, arg) => LastIs(timers', run, arg)
      <3>1. ASSUME NEW run \in Rendering
            PROVE  /\ Has(q, run) <=> Has(timers, run)
                   /\ \A arg : LastIs(timers, run, arg) => LastIs(q, run, arg)
        BY <1>1, <2>2, OtherRemoved DEF Rendering
      <3> HIDE DEF q
      <3>2. ASSUME NEW run \in Rendering
            PROVE  /\ Has(timers', run) <=> Has(q, run)
                   /\ \A arg : LastIs(q, run, arg) => LastIs(timers', run, arg)
        BY <1>8, <2>2, Appended DEF Rendering
      <3>3. QED
        BY <3>1, <3>2
    <2> HIDE DEF q, now
    <2>6. Toggled(timers', now, checkbox)
      BY <1>8, <2>2, <2>4, BoxesOtherAppended
    <2>7. Rendered(timers', jscoverage_currentFile, table)
      BY <1>1, <2>5 DEF Shows, Rendered, Rendering
    <2>8. Marked(timers)' /\ Listed'
      BY <1>1, <1>6, <2>1, <2>5 DEF Shows, Marked, Listed
    <2>9. Shows'
      BY <1>1, <2>1, <2>6, <2>7, <2>8 DEF Shows
    <2>10. QED
      BY <1>5, <1>6, <1>7, <1>8, <2>1, <2>9
  <1>12. CASE FileSelected(i)
    <2> DEFINE e == SourceTimer(timers[i].arg)
    <2>1. /\ Fire(i, "get") /\ Then(i, e) /\ jscoverage_currentFile' = timers[i].arg
          /\ heading' = (IF timers[i].arg = jscoverage_currentFile THEN heading ELSE timers[i].arg)
          /\ UNCHANGED <<checkbox, columns, rows>>
      BY <1>12 DEF FileSelected, summary
    <2>2. timers[i].arg # None
      <3>1. timers[i].run = "get"
        BY <1>6, <2>1
      <3>2. timers[i].arg \in Files
        BY <1>4, <3>1 DEF Proper
      <3>3. QED
        BY <3>2, ReportPageAssumption, Zenon
    <2>3. e \in Proper /\ e \in TimerType /\ e.run = "make"
      BY <2>2, ProperSet DEF SourceTimer, Timer
    <2> HIDE DEF e
    <2>4. timers' = Append(RemoveAt(timers, i), e) /\ timers[i].run = "get"
      BY <1>6, <2>1 DEF Then
    <2>5. /\ Has(timers', "make")
          /\ Boxes(timers') = {} <=> Boxes(timers) = {}
          /\ Toggled(timers', columns, checkbox)
      BY <1>1, <2>3, <2>4, RenderingThen DEF Shows
    <2>6. Rendered(timers', jscoverage_currentFile', table') /\ Marked(timers)'
      BY <2>5 DEF Rendered, Marked, Rendering
    <2>7. Listed' /\ heading' = jscoverage_currentFile'
      BY <1>1, <1>6, <2>1, <2>5 DEF Shows, Listed
    <2>8. Shows'
      BY <2>1, <2>5, <2>6, <2>7 DEF Shows
    <2>9. QED
      BY <1>5, <1>6, <1>7, <2>1, <2>3, <2>8
  \* the callbacks that hand on to the next one
  <1>13. ASSUME NEW run \in Rendering, Fire(i, run), NEW e \in Proper, e.run # "checkbox", Then(i, e),
                Rendered(timers', jscoverage_currentFile, table'), Marked(timers)',
                UNCHANGED <<checkbox, columns, rows, jscoverage_currentFile, heading>>
         PROVE  ViewInv'
    <2>1. timers' = Append(RemoveAt(timers, i), e) /\ timers[i].run = run /\ e \in TimerType
      BY <1>6, <1>13, ProperSet DEF Then
    <2>2. /\ Boxes(timers') = {} <=> Boxes(timers) = {}
          /\ Toggled(timers', columns, checkbox)
      BY <1>1, <1>13, <2>1, RenderingThen DEF Shows, Rendering
    <2>3. Listed'
      BY <1>1, <1>6, <1>13, <2>2 DEF Shows, Listed
    <2>4. Shows'
      BY <1>1, <1>13, <2>2, <2>3 DEF Shows
    <2>5. QED
      BY <1>5, <1>6, <1>7, <1>13, <2>4
  <1>14. CASE TableMade(i)
    <2> DEFINE e == Timer(0, "join", jscoverage_currentFile, None)
    <2>1. /\ Fire(i, "make") /\ Then(i, e)
          /\ UNCHANGED <<tab, page, checkbox, columns, rows, jscoverage_currentFile, heading, table>>
      BY <1>14 DEF TableMade, summary, source
    <2>2. e \in Proper /\ e \in TimerType /\ e.run = "join" /\ e.arg = jscoverage_currentFile
      BY <1>2, ProperSet DEF Timer
    <2> HIDE DEF e
    <2>3. timers' = Append(RemoveAt(timers, i), e) /\ timers[i].run = "make"
      BY <1>6, <2>1 DEF Then
    <2>4. Has(timers', "join") /\ LastIs(timers', "join", jscoverage_currentFile)
      BY <1>1, <2>2, <2>3, RenderingThen
    <2>5. Rendered(timers', jscoverage_currentFile, table') /\ Marked(timers)'
      BY <2>4 DEF Rendered, Marked, Rendering
    <2>6. QED
      BY <1>13, <2>1, <2>2, <2>5 DEF Rendering
  <1>15. CASE RowsJoined(i)
    <2> DEFINE e == [timers[i] EXCEPT !.delay = 100, !.run = "append"]
               q == RemoveAt(timers, i)
    <2>1. /\ Fire(i, "join") /\ Then(i, e)
          /\ UNCHANGED <<tab, page, checkbox, columns, rows, jscoverage_currentFile, heading, table>>
      BY <1>15 DEF RowsJoined, summary, source
    <2>2. e \in Proper /\ e \in TimerType /\ e.run = "append" /\ e.arg = timers[i].arg
      <3>1. e \in Proper /\ Proper \subseteq TimerType
        BY <1>4, ProperSet, Zenon
      <3>2. e.run = "append" /\ e.arg = timers[i].arg
        BY <1>4 DEF TimerType
      <3>3. QED
        BY <3>1, <3>2, Zenon
    <2> HIDE DEF e
    <2>3. timers' = Append(q, e) /\ timers[i].run = "join" /\ q \in Seq(TimerType)
      BY <1>1, <1>6, <2>1, RemoveAtProps DEF Then
    <2>4. /\ Has(timers', "append") /\ LastIs(timers', "append", timers[i].arg)
          /\ Has(timers, "make") => Has(timers', "make")
      BY <1>1, <2>2, <2>3, RenderingThen
    <2>5. Has(timers, "join")
      BY <2>3 DEF Has
    <2>6. CASE Has(timers, "make")
      BY <1>13, <2>1, <2>2, <2>4, <2>6 DEF Rendered, Marked, Rendering
    <2>7. CASE LastIs(timers, "join", jscoverage_currentFile)
      <3>1. \A j \in DOMAIN timers : j < i => timers[j].run # "join"
        BY <1>1, <1>6, <2>1, InOrder
      <3>2. \/ LastIs(q, "join", jscoverage_currentFile)
            \/ timers[i].arg = jscoverage_currentFile /\ ~Has(q, "join")
        BY <1>1, <2>3, <2>7, <3>1, FirstRemoved, Zenon
      <3> HIDE DEF q
      <3>3. \/ LastIs(timers', "join", jscoverage_currentFile)
            \/ timers[i].arg = jscoverage_currentFile /\ ~Has(timers', "join")
        BY <2>2, <2>3, <3>2, Appended
      <3>4. Rendered(timers', jscoverage_currentFile, table') /\ Marked(timers)'
        BY <2>4, <3>3 DEF Rendered, Marked, Rendering
      <3>5. QED
        BY <1>13, <2>1, <2>2, <3>4 DEF Rendering
    <2>8. QED
      BY <1>1, <2>5, <2>6, <2>7 DEF Shows, Rendered
  <1>16. CASE TableAppended(i)
    <2> DEFINE e == Timer(0, "scroll", None, None)
               q == RemoveAt(timers, i)
    <2>1. /\ Fire(i, "append") /\ Then(i, e) /\ table' = timers[i].arg
          /\ UNCHANGED <<tab, page, checkbox, columns, rows, jscoverage_currentFile, heading>>
      BY <1>16 DEF TableAppended, summary
    <2>2. e \in Proper /\ e \in TimerType /\ e.run = "scroll"
      BY ProperSet DEF Timer, Arg
    <2> HIDE DEF e
    <2>3. timers' = Append(q, e) /\ timers[i].run = "append" /\ q \in Seq(TimerType)
      BY <1>1, <1>6, <2>1, RemoveAtProps DEF Then
    <2>4. /\ Has(timers', "scroll")
          /\ Has(timers, "make") => Has(timers', "make")
          /\ Has(timers', "join") <=> Has(timers, "join")
          /\ \A arg : LastIs(timers, "join", arg) => LastIs(timers', "join", arg)
      BY <1>1, <2>2, <2>3, RenderingThen
    <2>5. Marked(timers)'
      BY <2>4 DEF Marked, Rendering
    <2>6. Rendered(timers', jscoverage_currentFile, table')
      <3>1. CASE Has(timers, "make") \/ LastIs(timers, "join", jscoverage_currentFile)
        BY <2>4, <3>1 DEF Rendered
      <3>2. CASE ~Has(timers, "join") /\ LastIs(timers, "append", jscoverage_currentFile)
        <4>1. \A j \in DOMAIN timers : j < i => timers[j].run # "append"
          BY <1>1, <1>6, <2>1, InOrder
        <4>2. \/ LastIs(q, "append", jscoverage_currentFile)
              \/ timers[i].arg = jscoverage_currentFile /\ ~Has(q, "append")
          BY <1>1, <2>3, <3>2, <4>1, FirstRemoved, Zenon
        <4> HIDE DEF q
        <4>3. \/ LastIs(timers', "append", jscoverage_currentFile)
              \/ timers[i].arg = jscoverage_currentFile /\ ~Has(timers', "append")
          BY <2>2, <2>3, <4>2, Appended
        <4>4. QED
          BY <2>1, <2>4, <3>2, <4>3 DEF Rendered
      <3>3. Has(timers, "append")
        BY <2>3 DEF Has
      <3>4. QED
        BY <1>1, <3>1, <3>2, <3>3 DEF Shows, Rendered
    <2>7. QED
      BY <1>13, <2>1, <2>2, <2>5, <2>6 DEF Rendering
  <1>17. CASE Scrolled(i)
    <2>1. /\ Fire(i, "scroll") /\ Then(i, End) /\ tab' = page'
          /\ UNCHANGED <<checkbox, columns, rows, jscoverage_currentFile, heading, table>>
      BY <1>17 DEF Scrolled, summary
    <2>2. timers' = Append(RemoveAt(timers, i), End) /\ timers[i].run = "scroll"
      BY <1>6, <2>1 DEF Then
    <2>3. \A run \in {"make", "join", "append"} :
            /\ Has(timers', run) <=> Has(timers, run)
            /\ \A arg : LastIs(timers, run, arg) => LastIs(timers', run, arg)
      BY <1>1, <1>8, <2>2, RenderingThen
    <2>4. Rendered(timers', jscoverage_currentFile, table') /\ Marked(timers)'
      BY <1>1, <2>1, <2>3 DEF Shows, Rendered, Marked
    <2>5. QED
      BY <1>8, <1>13, <2>1, <2>4 DEF Rendering
  <1>18. QED
    BY <1>3, <1>9, <1>10, <1>11, <1>12, <1>14, <1>15, <1>16, <1>17

\* An answer to a request sets the timer that ends its operation.
LEMMA EndSet ==
  ASSUME FlagInv, ViewInv, timers' = Append(timers, End)
  PROVE  timers' \in Seq(Proper) /\ Raised' /\ Keeps(timers, timers')
  <1>1. timers \in Seq(Proper) /\ timers \in Seq(TimerType)
    BY DEF ViewInv, FlagInv, TimersOK
  <1>2. End \in Proper /\ End \in TimerType /\ End.run \in Aside
    BY ProperSet DEF End, Timer, Aside
  <1>3. Keeps(timers, timers')
    BY <1>1, <1>2, AsideSet
  <1> HIDE DEF End
  <1>4. timers' \in Seq(Proper) /\ Len(timers') > 0
    BY <1>1, <1>2
  <1>5. QED
    BY <1>3, <1>4 DEF Raised

LEMMA ViewStep == FlagInv /\ ViewInv /\ [Next]_vars => ViewInv'
  <1> SUFFICES ASSUME FlagInv, ViewInv, [Next]_vars
               PROVE  ViewInv'
    OBVIOUS
  <1>1. timers \in Seq(Proper) /\ Shows /\ Turning /\ Raised
    BY DEF ViewInv, Shows
  <1>2. ASSUME timers' \in Seq(Proper), Shows', loaded', Turning', Raised' PROVE ViewInv'
    BY <1>2 DEF ViewInv, Shows
  <1>3. CASE Load
    <2>1. ~loaded /\ timers = <<>> /\ storing = 0
      BY <1>3 DEF Load, ViewInv, FlagInv, Quiet
    <2>2. PICK missing \in BOOLEAN, sent \in IF mode = "report" THEN BOOLEAN ELSE {FALSE} :
            /\ jscoverage_inLengthyOperation' = (mode = "report")
            /\ loading' = sent
            /\ throbbers' = IF sent THEN {"summary"} ELSE {}
            /\ timers' = (IF mode = "report" /\ ~sent THEN <<End>> ELSE <<>>)
                           \o (IF HasBrowserTab THEN <<>> ELSE <<End>>)
            /\ checkbox' = missing /\ columns' = IF missing THEN 1 ELSE 0
            /\ rows' = IF HasBrowserTab THEN NoRows ELSE [of |-> coverage, missing |-> missing]
      BY <1>3 DEF Load
    <2>3. /\ tab' = page' /\ loaded' = TRUE
          /\ UNCHANGED <<mode, coverage, storing, jscoverage_currentFile, heading, table>>
      BY <1>3 DEF Load, source
    <2>4. End \in Proper /\ End.run = "end"
      BY ProperSet DEF End, Timer
    <2> HIDE DEF End
    <2>5. /\ timers' \in Seq(Proper)
          /\ \A k \in DOMAIN timers' : timers'[k].run = "end"
          /\ mode = "report" /\ ~sent => Len(timers') > 0
      <3> DEFINE a == IF mode = "report" /\ ~sent THEN <<End>> ELSE <<>>
                 b == IF HasBrowserTab THEN <<>> ELSE <<End>>
      <3>1. /\ a \in Seq(Proper) /\ b \in Seq(Proper)
            /\ (\A k \in DOMAIN a : a[k].run = "end") /\ (\A k \in DOMAIN b : b[k].run = "end")
            /\ mode = "report" /\ ~sent => Len(a) = 1
        BY <2>4
      <3>2. timers' = a \o b
        BY <2>2
      <3> HIDE DEF a, b
      <3>3. /\ a \o b \in Seq(Proper) /\ Len(a \o b) = Len(a) + Len(b)
            /\ \A k \in 1 .. Len(a) + Len(b) : (a \o b)[k] = IF k <= Len(a) THEN a[k] ELSE b[k - Len(a)]
        BY <3>1, ConcatProperties, Zenon
      <3>4. ASSUME NEW k \in 1 .. Len(a) + Len(b) PROVE (a \o b)[k].run = "end"
        BY <3>1, <3>3
      <3>5. QED
        BY <3>1, <3>2, <3>3, <3>4
    <2>6. \A k \in DOMAIN timers : timers[k].run = "end"
      BY <2>1
    <2>7. jscoverage_currentFile = table
      BY <1>1, <2>6 DEF Shows, Rendered, Has, LastIs
    <2>8. Rendered(timers', jscoverage_currentFile', table')
      BY <2>3, <2>5, <2>7 DEF Rendered, Has
    <2>9. Boxes(timers') = {}
      BY <2>5 DEF Boxes
    <2>10. Toggled(timers', columns', checkbox')
      <3>1. columns' = (IF checkbox' THEN 1 ELSE 0) /\ checkbox' \in BOOLEAN
        BY <2>2
      <3>2. QED
        BY <2>9, <3>1 DEF Toggled
    <2>11. Listed'
      <3>1. rows'.of > 0 => rows'.missing = checkbox'
        <4>1. CASE HasBrowserTab
          <5>1. rows'.of = 0
            BY <2>2, <4>1 DEF NoRows
          <5>2. QED
            BY <5>1
        <4>2. CASE ~HasBrowserTab
          <5>1. rows' = [of |-> coverage, missing |-> missing]
            BY <2>2, <4>2, Zenon
          <5>2. rows'.missing = missing
            BY <5>1, Zenon
          <5>3. QED
            BY <2>2, <5>2, Zenon
        <4>3. QED
          BY <4>1, <4>2
      <3>2. mode = "report" => rows'.of = coverage
        BY <2>2 DEF HasBrowserTab
      <3>3. QED
        BY <2>3, <3>1, <3>2 DEF Listed
    <2>12. Turning' /\ Raised'
      BY <2>1, <2>2, <2>3, <2>5 DEF Turning, Raised
    <2>13. Shows'
      BY <1>1, <2>3, <2>8, <2>10, <2>11 DEF Shows, Marked
    <2>14. QED
      BY <1>2, <2>3, <2>5, <2>12, <2>13
  <1>4. CASE Run
    <2>1. /\ mode # "report"
          /\ UNCHANGED <<mode, loaded, jscoverage_inLengthyOperation, timers, loading, storing, tab, page,
                         checkbox, columns, rows, jscoverage_currentFile, heading, table, throbbers, last>>
      BY <1>4 DEF Run, summary, source
    <2>2. Shows' /\ Turning' /\ Raised'
      BY <1>1, <2>1 DEF Shows, Marked, Listed, Turning, Raised
    <2>3. QED
      BY <2>1, <2>2 DEF ViewInv, Shows
  <1>5. CASE UserStep
    BY <1>5, ViewClick
  <1>6. CASE TimerStep
    BY <1>6, ViewCallback
  <1>7. CASE ReportLoaded
    <2>1. /\ loading /\ loading' = FALSE /\ throbbers' = throbbers \ {"summary"} /\ timers' = Append(timers, End)
          /\ UNCHANGED <<mode, loaded, storing, tab, page, checkbox, columns, jscoverage_currentFile, heading, table>>
          /\ \/ coverage' = coverage /\ rows' = rows
             \/ coverage' = 1 /\ rows' = [of |-> 1, missing |-> checkbox]
      BY <1>7 DEF ReportLoaded, source
    <2>2. loaded'
      BY <2>1 DEF FlagInv, Quiet
    <2>3. timers' \in Seq(Proper) /\ Raised' /\ Keeps(timers, timers')
      BY <2>1, EndSet
    <2>4. Listed'
      BY <1>1, <2>1, <2>3 DEF Shows, Listed, Keeps
    <2>5. Shows'
      BY <1>1, <2>1, <2>3, <2>4 DEF Shows, Keeps, Marked
    <2>6. Turning'
      BY <1>1, <2>1 DEF Turning
    <2>7. QED
      BY <1>2, <2>2, <2>3, <2>5, <2>6
  <1>8. CASE Stored
    <2>1. /\ storing > 0 /\ throbbers' = throbbers \ {"store"} /\ timers' = Append(timers, End)
          /\ UNCHANGED <<mode, loaded, coverage, loading, tab, page, checkbox, columns, rows,
                         jscoverage_currentFile, heading, table>>
      BY <1>8 DEF Stored, summary, source, FlagInv, FlagOK
    <2>2. loaded'
      BY <2>1 DEF FlagInv, Quiet
    <2>3. timers' \in Seq(Proper) /\ Raised' /\ Keeps(timers, timers')
      BY <2>1, EndSet
    <2>4. Shows'
      BY <1>1, <2>1, <2>3, ShowsKept
    <2>5. Turning'
      BY <1>1, <2>1 DEF Turning
    <2>6. QED
      BY <1>2, <2>2, <2>3, <2>4, <2>5
  <1>9. CASE UNCHANGED vars
    BY <1>1, <1>9 DEF vars, ViewInv, Shows, Marked, Listed, Turning, Raised
  <1>10. QED
    BY <1>3, <1>4, <1>5, <1>6, <1>7, <1>8, <1>9 DEF Next

LEMMA ViewInit == Init => ViewInv
  <1> SUFFICES ASSUME Init
               PROVE  ViewInv
    OBVIOUS
  <1>1. /\ timers = <<>> /\ jscoverage_currentFile = None /\ table = None /\ heading = None
        /\ tab = page /\ columns = 0 /\ checkbox = FALSE /\ coverage = 0 /\ rows = NoRows
        /\ throbbers = {} /\ jscoverage_inLengthyOperation = FALSE /\ last = <<"load", None, None>>
    BY DEF Init
  <1>2. timers \in Seq(Proper) /\ DOMAIN timers = {}
    BY <1>1
  <1>3. Rendered(timers, jscoverage_currentFile, table)
    BY <1>1, <1>2 DEF Rendered, Has
  <1>4. Boxes(timers) = {}
    BY <1>2 DEF Boxes
  <1>5. Toggled(timers, columns, checkbox)
    BY <1>1, <1>4 DEF Toggled
  <1>6. QED
    BY <1>1, <1>2, <1>3, <1>5 DEF ViewInv, Marked, Listed, NoRows, Turning, Raised

\* In every mode, and in whatever order timers, answers and clicks have come,
\* what the page shows belongs together when nothing is going on any more.
THEOREM ViewsCorrect == Spec => []ViewsAgree
  <1>1. FlagInv /\ ViewInv => ViewsAgree
    <2> SUFFICES ASSUME FlagInv, ViewInv
                 PROVE  ViewsAgree
      OBVIOUS
    <2>1. timers \in Seq(TimerType) /\ Len(timers) \in Nat /\ storing \in Nat /\ loading \in BOOLEAN
      BY DEF FlagInv, TimersOK, FlagOK
    <2>2. ASSUME InProgress = 0 PROVE View /\ ~jscoverage_inLengthyOperation
      <3>1. Len(timers) = 0 /\ storing = 0 /\ ~loading
        BY <2>1, <2>2 DEF InProgress
      <3>2. DOMAIN timers = {}
        BY <2>1, <3>1
      <3>3. Boxes(timers) = {} /\ \A run : ~Has(timers, run)
        BY <3>2 DEF Boxes, Has
      <3>4. table = jscoverage_currentFile
        BY <3>2, <3>3 DEF ViewInv, Rendered, LastIs
      <3>5. tab = page
        <4>1. Marked(timers)
          BY DEF ViewInv
        <4>2. QED
          BY <3>3, <4>1, Zenon DEF Marked
      <3>6. columns = IF checkbox THEN 1 ELSE 0
        BY <3>3 DEF ViewInv, Toggled
      <3>7. throbbers = {}
        BY <3>1 DEF ViewInv, Turning
      <3>8. ~jscoverage_inLengthyOperation
        BY <3>1 DEF ViewInv, Raised
      <3>9. QED
        BY <3>3, <3>4, <3>5, <3>6, <3>7, <3>8 DEF View, ViewInv, Listed
    <2>3. HasBrowserTab /\ ~jscoverage_inLengthyOperation => InProgress = 0
      BY DEF FlagInv, OneAtATime
    <2>4. QED
      BY <2>2, <2>3 DEF ViewsAgree
  <1>2. FlagInv /\ ViewInv /\ [Next]_vars => FlagInv' /\ ViewInv'
    BY FlagStep, ViewStep
  <1>3. QED
    BY <1>1, <1>2, FlagInit, ViewInit, PTL DEF Spec

----------------------------------------------------------------------------
(* On a page with a browser tab the one callback there may be carries on   *)
(* what the last click has asked for.                                      *)

Shown ==
  /\ last[1] = "tab" => page = last[2]
  /\ last[1] = "get" => page = "source" /\ table = last[2] /\ (last[3] # None => scrolled = last[3])

Follows(t) ==
  \/ t.run = "end" /\ Shown
  \/ t.run = "tab" /\ last = <<"tab", t.arg, None>>
  \/ t.run = "checkbox" /\ last = <<"tab", page, None>>
  \/ t.run = "get" /\ last = <<"get", t.arg, t.line>>
  \/ /\ t.run \in Rendering /\ page = "source"
     /\ t.run \in {"join", "append"} => t.arg = jscoverage_currentFile
     /\ t.run = "scroll" => table = jscoverage_currentFile
     /\ last[1] = "tab" => last[2] = "source"
     /\ last[1] = "get" => /\ last[2] = jscoverage_currentFile
                           /\ last[3] # None => jscoverage_currentLine = last[3]

ClickInv ==
  HasBrowserTab => /\ timers = <<>> => Shown
                   /\ Len(timers) = 1 => Follows(timers[1])

\* The callback that is called sets one timer, and there is no other.
LEMMA OnlyThen ==
  ASSUME NEW s \in Seq(TimerType), Len(s) = 1, NEW i \in DOMAIN s, NEW e \in TimerType
  PROVE  i = 1 /\ RemoveAt(s, i) = <<>> /\ Append(RemoveAt(s, i), e) = <<e>>
  <1>1. i = 1
    OBVIOUS
  <1>2. RemoveAt(s, i) \in Seq(TimerType) /\ Len(RemoveAt(s, i)) = 0
    BY RemoveAtProps
  <1> DEFINE q == RemoveAt(s, i)
  <1> HIDE DEF q
  <1>3. q = <<>> /\ Append(q, e) = <<e>>
    BY <1>2 DEF q
  <1>4. QED
    BY <1>1, <1>3 DEF q

LEMMA ClickStep ==
  ASSUME FlagInv, ViewInv, ClickInv, [Next]_vars
  PROVE  ClickInv'
  <1> SUFFICES ASSUME HasBrowserTab'
               PROVE  (timers' = <<>> => Shown') /\ (Len(timers') = 1 => Follows(timers[1])')
    BY DEF ClickInv
  <1>1. mode' = mode /\ HasBrowserTab
    <2>1. mode' = mode
      BY DEF Next, vars, Load, Run, UserStep, TabClick, CheckboxClick, StoreClick, LinkClick, Click, Begin,
             TimerStep, Ended, TabSelected, ColumnChanged, FileSelected, TableMade, RowsJoined, TableAppended,
             Scrolled, Fire, ReportLoaded, Stored
    <2>2. QED
      BY <2>1 DEF HasBrowserTab
  <1>2. /\ timers \in Seq(TimerType) /\ timers \in Seq(Proper) /\ Len(timers) \in Nat
        /\ storing \in Nat /\ loading \in BOOLEAN
        /\ Len(timers) + storing + (IF loading THEN 1 ELSE 0) = IF jscoverage_inLengthyOperation THEN 1 ELSE 0
    BY <1>1 DEF FlagInv, TimersOK, FlagOK, OneAtATime, InProgress, ViewInv
  <1>3. Len(timers) + storing \in {0, 1} /\ (~jscoverage_inLengthyOperation => timers = <<>>)
    BY <1>2
  <1>4. (timers = <<>> => Shown) /\ (Len(timers) = 1 => Follows(timers[1]))
    BY <1>1 DEF ClickInv
  <1>5. ASSUME UNCHANGED <<timers, page, jscoverage_currentFile, jscoverage_currentLine, table, scrolled, last>>
        PROVE  (timers' = <<>> => Shown') /\ (Len(timers') = 1 => Follows(timers[1])')
    BY <1>4, <1>5 DEF Shown, Follows
  \* a click that sets a timer
  <1>6. ASSUME NEW click, NEW e \in TimerType, Click(click, e),
               UNCHANGED <<page, jscoverage_currentFile, jscoverage_currentLine, table, scrolled>> =>
                 \/ e.run = "tab" /\ click = <<"tab", e.arg, None>>
                 \/ e.run = "checkbox" /\ click = <<"tab", page, None>>
                 \/ e.run = "get" /\ click = <<"get", e.arg, e.line>>
        PROVE  (timers' = <<>> => Shown') /\ (Len(timers') = 1 => Follows(timers[1])')
    <2>1. /\ timers = <<>> /\ timers' = Append(timers, e) /\ last' = click
          /\ UNCHANGED <<page, jscoverage_currentFile, jscoverage_currentLine, table, scrolled>>
      BY <1>3, <1>6 DEF Click, Begin, source
    <2>2. timers' = <<e>>
      BY <2>1
    <2>3. timers'[1] = e /\ timers' # <<>>
      BY <2>2
    <2>4. QED
      BY <1>6, <2>1, <2>3 DEF Follows
  <1>7. CASE Load
    <2>1. ~loaded /\ timers = <<>> /\ mode # "report"
      BY <1>1, <1>7 DEF Load, ViewInv, HasBrowserTab
    <2>2. timers' = <<>> \o <<>>
      <3>1. PICK sent \in BOOLEAN :
              timers' = (IF mode = "report" /\ ~sent THEN <<End>> ELSE <<>>)
                          \o (IF HasBrowserTab THEN <<>> ELSE <<End>>)
        BY <1>7 DEF Load
      <3>2. QED
        BY <1>1, <2>1, <3>1, Zenon
    <2>3. timers' = <<>> /\ last' = last
      <3>1. <<>> \o <<>> = <<>>
        BY ConcatEmptySeq
      <3>2. last' = last
        BY <1>7 DEF Load
      <3>3. QED
        BY <2>2, <3>1, <3>2, Zenon
    <2>4. last[1] \notin {"tab", "get"}
      BY <2>1 DEF ViewInv
    <2>5. QED
      BY <2>3, <2>4 DEF Shown
  <1>8. CASE Run
    BY <1>5, <1>8 DEF Run, source
  <1>9. ASSUME NEW t \in Tabs, TabClick(t)
        PROVE  (timers' = <<>> => Shown') /\ (Len(timers') = 1 => Follows(timers[1])')
    <2>1. t \in Arg
      BY DEF Tabs, Arg
    <2>2. Timer(50, "tab", t, None) \in TimerType
      BY <2>1, ProperSet
    <2>3. QED
      BY <1>6, <1>9, <2>2 DEF TabClick, Timer
  <1>10. CASE CheckboxClick
    <2>1. Timer(50, "checkbox", ~checkbox, None) \in TimerType
      BY ProperSet DEF FlagInv, TimersOK
    <2>2. QED
      BY <1>6, <1>10, <2>1 DEF CheckboxClick, Timer
  <1>11. CASE StoreClick
    <2>1. timers' = <<>> /\ last' = <<"tab", page, None>> /\ page' = page
      BY <1>3, <1>11 DEF StoreClick, Begin
    <2>2. QED
      BY <2>1 DEF Shown
  <1>12. ASSUME NEW file \in Files, NEW line \in Lines \cup {None}, LinkClick(file, line)
         PROVE  (timers' = <<>> => Shown') /\ (Len(timers') = 1 => Follows(timers[1])')
    <2>1. Timer(50, "get", file, line) \in TimerType
      BY ProperSet
    <2>2. QED
      BY <1>6, <1>12, <2>1 DEF LinkClick, Timer
  <1>13. CASE TimerStep
    <2>1. PICK i \in DOMAIN timers :
            \/ Ended(i) \/ TabSelected(i) \/ ColumnChanged(i) \/ FileSelected(i)
            \/ TableMade(i) \/ RowsJoined(i) \/ TableAppended(i) \/ Scrolled(i)
      BY <1>13 DEF TimerStep
    <2>2. Len(timers) = 1 /\ i = 1
      <3>1. i \in 1 .. Len(timers)
        BY <1>2
      <3>2. Len(timers) \in Nat /\ storing \in Nat /\ Len(timers) + storing \in {0, 1}
        BY <1>2, <1>3
      <3>3. QED
        BY <3>1, <3>2
    <2>3. Follows(timers[i]) /\ timers[i] \in Proper /\ timers[i] \in TimerType
      <3>1. timers[i] \in Proper
        BY <1>2
      <3>2. Follows(timers[i])
        BY <1>4, <2>2
      <3>3. QED
        BY <3>1, <3>2, ProperSet
    <2>4. ASSUME NEW e \in TimerType, Then(i, e), Follows(e)'
          PROVE  (timers' = <<>> => Shown') /\ (Len(timers') = 1 => Follows(timers[1])')
      <3>1. timers' = <<e>>
        BY <1>2, <2>2, <2>4, OnlyThen DEF Then
      <3>2. timers'[1] = e /\ timers' # <<>>
        BY <3>1
      <3>3. QED
        BY <2>4, <3>2 DEF Follows
    <2>5. End \in TimerType /\ End.run = "end"
      BY ProperSet DEF End, Timer
    <2>6. CASE Ended(i)
      <3>1. /\ timers' = <<>> /\ timers[i].run = "end"
            /\ UNCHANGED <<page, table, scrolled, last>>
        BY <1>2, <2>2, <2>3, <2>6, OnlyThen DEF Ended, Fire, source
      <3>2. Shown
        BY <2>3, <3>1 DEF Follows, Rendering
      <3>3. QED
        BY <3>1, <3>2 DEF Shown
    <2>7. CASE TabSelected(i)
      <3> DEFINE x == IF timers[i].arg = "source" THEN SourceTimer(jscoverage_currentFile) ELSE End
      <3>1. /\ timers[i].run = "tab" /\ page' = timers[i].arg /\ Then(i, x)
            /\ UNCHANGED <<jscoverage_currentFile, jscoverage_currentLine, last>>
        BY <2>7 DEF TabSelected, Fire
      <3>2. last = <<"tab", timers[i].arg, None>>
        BY <2>3, <3>1 DEF Follows, Rendering
      <3>3. x \in TimerType /\ (x.run = "end" \/ (x.run = "make" /\ timers[i].arg = "source"))
        BY <2>5, ProperSet DEF SourceTimer, Timer
      <3> HIDE DEF x
      <3>4. PICK e \in TimerType : Then(i, e) /\ (e.run = "end" \/ (e.run = "make" /\ timers[i].arg = "source"))
        BY <3>1, <3>3
      <3>5. Follows(e)'
        BY <3>1, <3>2, <3>4 DEF Follows, Shown, Rendering
      <3>6. QED
        BY <2>4, <3>4, <3>5
    <2>8. CASE ColumnChanged(i)
      <3>1. timers[i].run = "checkbox" /\ Then(i, End) /\ UNCHANGED <<page, table, scrolled, last>>
        BY <2>8 DEF ColumnChanged, Fire, source
      <3>2. last = <<"tab", page, None>>
        BY <2>3, <3>1 DEF Follows, Rendering
      <3>3. PICK e \in TimerType : Then(i, e) /\ e.run = "end"
        BY <2>5, <3>1
      <3>4. Follows(e)'
        BY <3>1, <3>2, <3>3 DEF Follows, Shown
      <3>5. QED
        BY <2>4, <3>3, <3>4
    <2>9. CASE FileSelected(i)
      <3> DEFINE x == SourceTimer(timers[i].arg)
                 line == timers[i].line
      <3>1. /\ timers[i].run = "get" /\ page' = "source" /\ Then(i, x) /\ last' = last
            /\ jscoverage_currentFile' = timers[i].arg
            /\ line # None => jscoverage_currentLine' = line
        BY <2>9 DEF FileSelected, Fire
      <3>2. last = <<"get", timers[i].arg, line>>
        BY <2>3, <3>1 DEF Follows, Rendering
      <3>3. timers[i].arg # None
        <4>1. timers[i].arg \in Files
          BY <2>3, <3>1 DEF Proper
        <4>2. QED
          BY <4>1, ReportPageAssumption, Zenon
      <3>4. x \in TimerType /\ x.run = "make"
        BY <3>3, ProperSet DEF SourceTimer, Timer
      <3> HIDE DEF x
      <3>5. PICK e \in TimerType : Then(i, e) /\ e.run = "make"
        BY <3>1, <3>4
      <3>6. Follows(e)'
        BY <3>1, <3>2, <3>5 DEF Follows, Rendering
      <3>7. QED
        BY <2>4, <3>5, <3>6
    \* what holds while a source is rendered
    <2>10. ASSUME timers[i].run \in Rendering
           PROVE  /\ page = "source"
                  /\ timers[i].run \in {"join", "append"} => timers[i].arg = jscoverage_currentFile
                  /\ timers[i].run = "scroll" => table = jscoverage_currentFile
                  /\ last[1] = "tab" => last[2] = "source"
                  /\ last[1] = "get" => /\ last[2] = jscoverage_currentFile
                                        /\ last[3] # None => jscoverage_currentLine = last[3]
      BY <2>3, <2>10 DEF Follows, Rendering
    <2>11. CASE TableMade(i)
      <3> DEFINE x == Timer(0, "join", jscoverage_currentFile, None)
      <3>1. /\ timers[i].run = "make" /\ Then(i, x)
            /\ UNCHANGED <<page, jscoverage_currentFile, jscoverage_currentLine, last>>
        BY <2>11 DEF TableMade, Fire, source
      <3>2. x \in TimerType /\ x.run = "join" /\ x.arg = jscoverage_currentFile
        BY ProperSet DEF FlagInv, TimersOK, Timer
      <3> HIDE DEF x
      <3>3. PICK e \in TimerType : Then(i, e) /\ e.run = "join" /\ e.arg = jscoverage_currentFile
        BY <3>1, <3>2
      <3>4. Follows(e)'
        BY <2>10, <3>1, <3>3 DEF Follows, Rendering
      <3>5. QED
        BY <2>4, <3>3, <3>4
    <2>12. CASE RowsJoined(i)
      <3> DEFINE x == [timers[i] EXCEPT !.delay = 100, !.run = "append"]
      <3>1. /\ timers[i].run = "join" /\ Then(i, x)
            /\ UNCHANGED <<page, jscoverage_currentFile, jscoverage_currentLine, last>>
        BY <2>12 DEF RowsJoined, Fire, source
      <3>2. x \in TimerType /\ x.run = "append" /\ x.arg = timers[i].arg
        BY <2>3, ProperSet DEF TimerType
      <3> HIDE DEF x
      <3>3. PICK e \in TimerType : Then(i, e) /\ e.run = "append" /\ e.arg = timers[i].arg
        BY <3>1, <3>2
      <3>4. Follows(e)'
        BY <2>10, <3>1, <3>3 DEF Follows, Rendering
      <3>5. QED
        BY <2>4, <3>3, <3>4
    <2>13. CASE TableAppended(i)
      <3> DEFINE x == Timer(0, "scroll", None, None)
      <3>1. /\ timers[i].run = "append" /\ Then(i, x) /\ table' = timers[i].arg
            /\ UNCHANGED <<page, jscoverage_currentFile, jscoverage_currentLine, last>>
        BY <2>13 DEF TableAppended, Fire
      <3>2. x \in TimerType /\ x.run = "scroll"
        BY ProperSet DEF Timer, Arg
      <3> HIDE DEF x
      <3>3. PICK e \in TimerType : Then(i, e) /\ e.run = "scroll"
        BY <3>1, <3>2
      <3>4. Follows(e)'
        BY <2>10, <3>1, <3>3 DEF Follows, Rendering
      <3>5. QED
        BY <2>4, <3>3, <3>4
    <2>14. CASE Scrolled(i)
      <3>1. /\ timers[i].run = "scroll" /\ Then(i, End) /\ page' = "source"
            /\ jscoverage_currentLine # None => scrolled' = jscoverage_currentLine
            /\ UNCHANGED <<table, last>>
        BY <2>14 DEF Scrolled, Fire
      <3>2. Shown'
        BY <2>10, <3>1 DEF Shown, Rendering
      <3>3. PICK e \in TimerType : Then(i, e) /\ e.run = "end"
        BY <2>5, <3>1
      <3>4. Follows(e)'
        BY <3>2, <3>3 DEF Follows
      <3>5. QED
        BY <2>4, <3>3, <3>4
    <2>15. QED
      BY <2>1, <2>6, <2>7, <2>8, <2>9, <2>11, <2>12, <2>13, <2>14
  <1>14. CASE ReportLoaded
    <2>1. FALSE
      BY <1>1, <1>14 DEF ReportLoaded, FlagInv, Quiet, HasBrowserTab
    <2>2. QED
      BY <2>1
  <1>15. CASE Stored
    <2>1. /\ storing > 0 /\ timers' = Append(timers, End)
          /\ UNCHANGED <<page, table, scrolled, last>>
      BY <1>15 DEF Stored, source, FlagInv, FlagOK
    <2>2. timers = <<>> /\ Shown
      BY <1>2, <1>3, <1>4, <2>1
    <2>3. End.run = "end"
      BY DEF End, Timer
    <2> HIDE DEF End
    <2>4. timers' = <<End>>
      BY <2>1, <2>2
    <2>5. timers'[1] = End /\ timers' # <<>>
      BY <2>4
    <2>6. QED
      BY <2>1, <2>2, <2>3, <2>5 DEF Follows, Shown
  <1>16. CASE UNCHANGED vars
    BY <1>5, <1>16 DEF vars
  <1>17. QED
    BY <1>7, <1>8, <1>9, <1>10, <1>11, <1>12, <1>13, <1>14, <1>15, <1>16 DEF Next, UserStep

\* On a page with a browser tab the user sees what the last click that was
\* followed has asked for, tab, file and line, as soon as the page takes clicks.
THEOREM LastClickCorrect == Spec => []LastClickShown
  <1>1. Init => ViewInv /\ ClickInv
    BY ViewInit DEF Init, ClickInv, Shown
  <1>2. FlagInv /\ ClickInv => LastClickShown
    <2> SUFFICES ASSUME FlagInv, ClickInv, HasBrowserTab, ~jscoverage_inLengthyOperation
                 PROVE  Shown
      BY DEF LastClickShown, Shown
    <2>1. timers = <<>>
      BY DEF FlagInv, OneAtATime, InProgress, TimersOK, FlagOK
    <2>2. QED
      BY <2>1 DEF ClickInv
  <1>3. FlagInv /\ ViewInv /\ ClickInv /\ [Next]_vars => FlagInv' /\ ViewInv' /\ ClickInv'
    BY FlagStep, ViewStep, ClickStep
  <1>4. QED
    BY <1>1, <1>2, <1>3, FlagInit, PTL DEF Spec
=============================================================================
