------------------------ MODULE DirectoryInstrumenter ------------------------
(***************************************************************************)
(* instrument.c: jscoverage_instrument copies a directory tree to another  *)
(* one, instrumenting the scripts, with the resources of the report page;  *)
(* the file operations are those of util.c and resource-manager.c.  The    *)
(* process may be killed between any two of them, and run again.           *)
(* A path is a sequence of names, tree has what is at each path, and the   *)
(* target of a link is a path without links.                               *)
(***************************************************************************)
EXTENDS Integers, SequencesExt

CONSTANTS
  Names,      \* the names that files and directories may have
  Worlds,     \* the trees and the arguments the program is called with
  Scripts,    \* the names that end with .js
  MaxRuns     \* bound on the number of times the program is run

(* The worlds are file systems: what a path leads to is in a directory, and *)
(* a link leads to a path without links.  Both arguments are in directories. *)
Path == Seq(Names)
Dir == [kind |-> "dir"]
File(content) == [kind |-> "file", content |-> content]
Link(target) == [kind |-> "link", target |-> target]
Links(t) == {p \in DOMAIN t : t[p].kind = "link"}
Straight(t, p) == \A n \in 0 .. Len(p) : SubSeq(p, 1, n) \notin Links(t)

FileSystem(t) ==
  /\ DOMAIN t \subseteq Path /\ IsFiniteSet(DOMAIN t)
  /\ <<>> \in DOMAIN t /\ t[<<>>] = Dir
  /\ \A p \in DOMAIN t \ {<<>>} : Front(p) \in DOMAIN t /\ t[Front(p)] = Dir
  /\ \A p \in DOMAIN t :
       \/ t[p] = Dir
       \/ t[p].kind = "file" /\ t[p] = File(t[p].content)
       \/ t[p].kind = "link" /\ t[p] = Link(t[p].target) /\ t[p].target \in Path /\ Straight(t, t[p].target)

VARIABLES
  world,      \* [tree, source, destination, mozilla, exclude, plain], as it was in the beginning
  tree,       \* what is at each path
  pc,         \* what the program does next; "off" when it does not run
  left,       \* the resources that are still to be copied
  todo,       \* the files that are still to be copied, relative to source
  file,       \* what is being written: [to, content, next]
  ended,      \* how the last run ended
  begun,      \* whether a run got past the checks of its arguments
  runs        \* how often the program has been run

vars == <<world, tree, pc, left, todo, file, ended, begun, runs>>

Nothing == <<>>

----------------------------------------------------------------------------
(* util.c on a tree t *)

Exists(t, p) == p \in DOMAIN t
Follow(t, p) == IF Exists(t, p) /\ t[p].kind = "link" THEN t[p].target ELSE p
Real(t, p) ==
  LET at[n \in 0 .. Len(p)] == IF n = 0 THEN <<>> ELSE Follow(t, Append(at[n - 1], p[n]))
  IN  at[Len(p)]
IsKind(t, p, kind) == Exists(t, Real(t, p)) /\ t[Real(t, p)].kind = kind

make_canonical_path(t, p) == IF p = <<>> THEN p ELSE Append(Real(t, Front(p)), Last(p))
is_same_file(t, p, q) ==
  \/ make_canonical_path(t, p) = make_canonical_path(t, q)
  \/ Exists(t, Real(t, p)) /\ Real(t, p) = Real(t, q)

Above(p) == {SubSeq(p, 1, n) : n \in 0 .. Len(p) - 1}
\* mutant: only the directory right above is looked at
contains_file_near(t, p, q) == is_same_file(t, p, Front(make_canonical_path(t, q)))
contains_file(t, p, q) == \E d \in Above(make_canonical_path(t, q)) : is_same_file(t, make_canonical_path(t, p), d)

Entries(t, p) == {q \in DOMAIN t : q # <<>> /\ Front(q) = Real(t, p)}
directory_is_empty(t, p) == Entries(t, p) = {}

\* the directories on the way to p that mkdirs makes; one that is something else is in the way
MissingDirs(t, p) == {d \in Above(p) \cup {p} : ~Exists(t, Real(t, d))}
mkdirs(t, p) == [q \in DOMAIN t \cup {Real(t, d) : d \in MissingDirs(t, p)} |-> IF q \in DOMAIN t THEN t[q] ELSE Dir]
Blocked(t, p) == \E d \in Above(p) \cup {p} : Exists(t, make_canonical_path(t, d)) /\ ~IsKind(t, d, "dir")

\* fopen(p, "wb") and what is written to it
Writable(t, p) == IsKind(t, Front(Real(t, p)), "dir") /\ ~IsKind(t, p, "dir")
Written(t, p, content) ==
  [q \in DOMAIN t \cup {Real(t, p)} |-> IF q = Real(t, p) THEN File(content) ELSE t[q]]

\* make_recursive_dir_list: the paths of all files, and whether a link is refused
Below(t, p) == {q \in DOMAIN t : Len(q) > Len(Real(t, p)) /\ IsPrefix(Real(t, p), q)}
Relative(t, p) == {SubSeq(q, Len(Real(t, p)) + 1, Len(q)) : q \in {x \in Below(t, p) : t[x].kind # "dir"}}
\* readdir has an order of its own: of all of them, one and its reverse
Orders(paths) ==
  LET order[rest \in SUBSET paths] ==
        IF rest = {} THEN <<>> ELSE LET p == CHOOSE x \in rest : TRUE IN Append(order[rest \ {p}], p)
  IN  {order[paths], Reverse(order[paths])}
LinkRefused(t, p) == \E q \in Below(t, p) : t[q].kind = "link" /\ ~IsKind(t, q, "file")

ASSUME WorldAssumption ==
  \A w \in Worlds :
    /\ FileSystem(w.tree)
    /\ \A p \in {w.source, w.destination} : p \in Path /\ IsKind(w.tree, Front(p), "dir")
    /\ w.exclude \subseteq Path /\ w.plain \subseteq Path
    /\ w.mozilla \in BOOLEAN

\* the arguments, as main makes them
Start == world.tree
source == make_canonical_path(Start, world.source)
destination == make_canonical_path(Start, world.destination)

----------------------------------------------------------------------------
(* the checks *)

ExpectedFile(mozilla) == IF mozilla THEN <<"modules", "jscoverage.jsm">> ELSE <<"jscoverage.html">>

Foreign(t, p, mozilla) ==
  IsKind(t, p, "dir") /\ ~directory_is_empty(t, p) /\ ~Exists(t, Real(t, p \o ExpectedFile(mozilla)))

Accepts(t, from, to, mozilla) ==
  /\ ~is_same_file(t, from, to)
  /\ ~contains_file(t, from, to)
  /\ IsKind(t, from, "dir")
  /\ ~Exists(t, Real(t, to)) \/ IsKind(t, to, "dir")
  /\ ~Foreign(t, to, mozilla)

In(directory, names) == [i \in DOMAIN names |-> Append(directory, names[i])]
\* mutant: the style sheet is copied before the page
Resources_Styled(mozilla) ==
  In(<<>>, <<"jscoverage.css", "jscoverage.html", "jscoverage.js", "jscoverage-ie.css", "jscoverage-throbber.gif", "jscoverage-highlight.css">>)
ChromeDirectory == <<"chrome", "jscoverage">>
Resources(mozilla) ==
  IF mozilla
  THEN <<<<"chrome", "jscoverage.manifest">>>>
         \o In(ChromeDirectory, <<"jscoverage.html", "jscoverage.css", "jscoverage.js", "jscoverage-throbber.gif",
                                   "jscoverage-highlight.css", "jscoverage.xul", "jscoverage-overlay.js">>)
         \o <<<<"modules", "jscoverage.jsm">>>>
  ELSE In(<<>>, <<"jscoverage.html", "jscoverage.css", "jscoverage.js", "jscoverage-ie.css", "jscoverage-throbber.gif", "jscoverage-highlight.css">>)

ASSUME NameAssumption ==
  /\ \A mozilla \in BOOLEAN : Resources(mozilla) \in Seq(Path \ {<<>>})
  /\ ChromeDirectory \in Path

----------------------------------------------------------------------------
Init ==
  /\ world \in Worlds /\ tree = world.tree
  /\ pc = "off" /\ left = <<>> /\ todo = <<>> /\ file = Nothing
  /\ ended = "never" /\ begun = FALSE /\ runs = 0

End(how) ==
  /\ pc' = "off" /\ ended' = how
  /\ left' = <<>> /\ todo' = <<>> /\ file' = Nothing

\* main
Run ==
  /\ pc = "off" /\ runs < MaxRuns
  /\ runs' = runs + 1 /\ pc' = "check"
  /\ UNCHANGED <<world, tree, left, todo, file, ended, begun>>

Check ==
  /\ pc = "check"
  /\ IF Accepts(tree, source, destination, world.mozilla)
     THEN /\ pc' = "make" /\ left' = Resources(world.mozilla) /\ begun' = TRUE
          /\ UNCHANGED <<todo, file, ended>>
     ELSE End("refused") /\ UNCHANGED begun
  /\ UNCHANGED <<world, tree, runs>>

\* xmkdir, unless it is there: a link that leads nowhere is in the way
MakeDestination ==
  /\ pc = "make"
  /\ IF ~Exists(tree, Real(tree, destination)) /\ Exists(tree, destination) THEN End("fatal") /\ UNCHANGED tree
     ELSE /\ tree' = IF Exists(tree, Real(tree, destination)) THEN tree ELSE mkdirs(tree, destination)
          /\ pc' = IF world.mozilla THEN "chrome" ELSE "resources"
          /\ UNCHANGED <<left, todo, file, ended>>
  /\ UNCHANGED <<world, begun, runs>>

\* for Mozilla the directory of most resources is made before the first of them is copied
MakeChrome ==
  /\ pc = "chrome"
  /\ IF Blocked(tree, destination \o ChromeDirectory) THEN End("fatal") /\ UNCHANGED tree
     ELSE /\ tree' = mkdirs(tree, destination \o ChromeDirectory)
          /\ pc' = "resources" /\ UNCHANGED <<left, todo, file, ended>>
  /\ UNCHANGED <<world, begun, runs>>

\* copy_resource and the copying of a file begin with the directory
Begin(to, content, next) ==
  IF Blocked(tree, Front(to)) THEN End("fatal") /\ UNCHANGED tree
  ELSE /\ tree' = mkdirs(tree, Front(to)) /\ file' = [to |-> to, content |-> content, next |-> next]
       /\ pc' = "open" /\ UNCHANGED ended

NextResource ==
  /\ pc = "resources" /\ left # <<>>
  /\ Begin(destination \o Head(left), <<"resource", Last(Head(left))>>, "resources")
  /\ left' = IF pc' = "off" THEN <<>> ELSE Tail(left)
  /\ UNCHANGED <<world, todo, begun, runs>>

ListFiles ==
  /\ pc = "resources" /\ left = <<>>
  /\ IF LinkRefused(tree, source) THEN End("fatal")
     ELSE todo' \in Orders(Relative(tree, source)) /\ pc' = "files" /\ UNCHANGED <<left, file, ended>>
  /\ UNCHANGED <<world, tree, begun, runs>>

\* mutant: a directory on a list is not all that is in it
Listed_Same(paths, p) == \E x \in paths : is_same_file(tree, source \o x, source \o p)
Listed(paths, p) ==
  \E x \in paths : is_same_file(tree, source \o x, source \o p) \/ contains_file(tree, source \o x, source \o p)
\* make_canonical_path cannot change to the directory
Unreachable(paths) == \E x \in paths : ~IsKind(tree, source \o Front(x), "dir")

\* what becomes of a file: a script that is one already, or is none, ends the program
Outcome(p, content) ==
  IF Last(p) \notin Scripts \/ Listed(world.plain, p) THEN content
  ELSE IF content[1] \in {"instrumented", "broken"} THEN <<"error">> ELSE <<"instrumented", content>>

Skip ==
  /\ pc = "files" /\ todo # <<>>
  /\ ~Unreachable(world.exclude) /\ Listed(world.exclude, Head(todo))
  /\ todo' = Tail(todo)
  /\ UNCHANGED <<world, tree, pc, left, file, ended, begun, runs>>

NextFile ==
  LET p == Head(todo)
      from == source \o p
      to == destination \o p
  IN /\ pc = "files" /\ todo # <<>>
     /\ Unreachable(world.exclude) \/ ~Listed(world.exclude, p)
     /\ IF Unreachable(world.exclude) THEN End("fatal") /\ UNCHANGED tree
        ELSE IF Blocked(tree, Front(to)) THEN End("fatal") /\ UNCHANGED tree
        ELSE IF Unreachable(world.plain) \/ is_same_file(mkdirs(tree, Front(to)), from, to)
        THEN End("fatal") /\ tree' = mkdirs(tree, Front(to))
        ELSE Begin(to, Outcome(p, tree[Real(tree, from)].content), "files") /\ todo' = Tail(todo) /\ UNCHANGED left
     /\ UNCHANGED <<world, begun, runs>>

\* fopen(destination_file, "wb"), after that of the source
Open ==
  /\ pc = "open"
  /\ IF Writable(tree, file.to)
     THEN tree' = Written(tree, file.to, <<"cut">>) /\ pc' = "write" /\ UNCHANGED <<left, todo, file, ended>>
     ELSE End("fatal") /\ UNCHANGED tree
  /\ UNCHANGED <<world, begun, runs>>

Write ==
  /\ pc = "write"
  /\ IF file.content = <<"error">> THEN End("fatal") /\ UNCHANGED tree
     ELSE /\ tree' = Written(tree, file.to, file.content) /\ file' = Nothing
          /\ pc' = file.next
          /\ UNCHANGED <<left, todo, ended>>
  /\ UNCHANGED <<world, begun, runs>>

Finish ==
  /\ pc = "files" /\ todo = <<>>
  /\ End("success")
  /\ UNCHANGED <<world, tree, begun, runs>>

\* the process is killed; in its last run that would show nothing new
Kill ==
  /\ pc # "off" /\ runs < MaxRuns
  /\ End("killed")
  /\ UNCHANGED <<world, tree, begun, runs>>

Next ==
  \/ Run \/ Check \/ MakeDestination \/ MakeChrome \/ NextResource \/ ListFiles
  \/ Skip \/ NextFile \/ Open \/ Write \/ Finish \/ Kill

Spec == Init /\ [][Next]_vars

----------------------------------------------------------------------------
Inside(p, q) == IsPrefix(Real(Start, q), p)

\* the destination is a link into the source, or has the source in it
Overlap ==
  /\ Real(Start, destination) # Real(Start, source)
  /\ \/ Exists(Start, destination) /\ Start[destination].kind = "link" /\ Inside(Real(Start, destination), source)
     \/ Inside(Real(Start, source), destination)

\* what the links in the destination lead to, and the links found there: the
\* program makes none
Closed(targets) ==
  \A q \in Links(Start) \ {destination} :
    Inside(q, destination) \/ (\E r \in targets : IsPrefix(r, q)) => Start[q].target \in targets
Leads(p) ==
  \A targets \in SUBSET {Start[q].target : q \in Links(Start)} :
    Closed(targets) => \E r \in targets : IsPrefix(r, p)

Same(p) == p \in DOMAIN tree /\ p \in DOMAIN Start /\ tree[p] = Start[p]

\* Nothing changes but what is in the destination or behind a link in it, if that is a
\* directory the program makes, an empty one, or one that has been its destination before;
\* and no link being followed, the source does not change, unless the two overlap in a way
\* that the checks at the beginning of jscoverage_instrument do not see.
OnlyDestination ==
  \A p \in DOMAIN tree \cup DOMAIN Start :
    Same(p) \/ /\ ~Foreign(Start, destination, world.mozilla)
               /\ (Inside(p, destination) /\ (Inside(p, source) => Overlap)) \/ Leads(p)

\* p is, or is in, what is on a list, whatever links there are
Covered(paths, p) ==
  \E x \in paths : Inside(Real(Start, source) \o p, source \o x) \/ Real(Start, source \o x) = Real(Start, source \o p)

\* the files of the source that are not excluded, what becomes of each, and where it is written
Wanted == {p \in Relative(Start, source) : ~Covered(world.exclude, p)}
Becomes(p) ==
  LET content == Start[Real(Start, source \o p)].content
  IN IF Last(p) \in Scripts /\ ~Covered(world.plain, p) THEN <<"instrumented", content>> ELSE content
Outputs == Wanted \cup ToSet(Resources(world.mozilla))
Place(p) == Real(Start, destination \o p)
Has(p, content) == Exists(tree, Real(tree, destination \o p)) /\ tree[Real(tree, destination \o p)] = File(content)

\* no link in the destination leads into the source, to what a link in the source leads to,
\* or to where another file is written
Apart ==
  \A p, q \in Outputs :
    /\ ~Inside(Place(p), source) /\ (q \in Wanted => Place(p) # Real(Start, source \o q))
    /\ Place(p) = Place(q) => p = q

\* However a run ends, no file is touched but those that are to be written.  After a run
\* that succeeded, whatever earlier ones have left behind, every file of the source that
\* is not excluded is in the destination, instrumented if it is a script that is to be,
\* and so is every resource unless the source has a file of its name.
Complete ==
  pc = "off" /\ Apart =>
    /\ \A p \in DOMAIN tree : Same(p) \/ tree[p] = Dir \/ \E q \in Outputs : p = Place(q)
    /\ ended = "success" =>
         /\ \A p \in Wanted : Has(p, Becomes(p))
         /\ \A r \in ToSet(Resources(world.mozilla)) \ Wanted : Has(r, <<"resource", Last(r)>>)

\* A destination that was accepted once is accepted again, wherever the run was killed or
\* ended by an error, but for a Mozilla destination that has not its module yet.
Repeatable ==
  begun /\ pc = "off" /\ ended = "refused" =>
    world.mozilla /\ ~Exists(tree, Real(tree, destination \o ExpectedFile(TRUE)))
=============================================================================
