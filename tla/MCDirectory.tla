---------------------------- MODULE MCDirectory ----------------------------
(* Instances of DirectoryInstrumenter for TLC: small trees, and everything *)
(* that may be where the destination is to be.                             *)
EXTENDS DirectoryInstrumenter, TLC

S == <<"s">>
D == <<"d">>
Script(name) == File(<<"script", name>>)
Page == File(<<"page">>)

\* the source, with other directories beside it
Plain == <<>> :> Dir @@ S :> Dir @@ <<"s", "a.js">> :> Script("a") @@ <<"s", "p.html">> :> Page
           @@ <<"s", "sub">> :> Dir @@ <<"s", "sub", "a.js">> :> Script("b") @@ <<"o">> :> Dir @@ <<"o", "x.js">> :> Script("x")
SourceTrees ==
  {Plain, <<"s", "l.js">> :> Link(<<"o", "x.js">>) @@ Plain,
   <<"s", "sub", "l">> :> Link(<<"o">>) @@ Plain, <<"s", "l.js">> :> Link(<<"s", "a.js">>) @@ Plain,
   <<"s", "sub", "a.js">> :> File(<<"broken">>) @@ Plain,
   <<"s", "a.js">> :> File(<<"instrumented", <<"script", "a">>>>) @@ Plain,
   <<"s", "jscoverage.js">> :> Script("own") @@ Plain,
   <<"s", "sub", "deep">> :> Dir @@ <<"s", "sub", "deep", "a.js">> :> Script("c") @@ Plain}

\* a destination of an earlier run
Used(t) == D :> Dir @@ <<"d", "jscoverage.html">> :> File(<<"resource", "jscoverage.html">>) @@ <<"d", "modules">> :> Dir
             @@ <<"d", "modules", "jscoverage.jsm">> :> File(<<"resource", "jscoverage.jsm">>)
             @@ <<"d", "p.html">> :> File(<<"page", "stale">>) @@ t

Places(t) ==
  {[tree |-> t, destination |-> D],
   [tree |-> D :> Dir @@ t, destination |-> D],
   [tree |-> D :> Dir @@ <<"d", "theirs">> :> Page @@ t, destination |-> D],
   [tree |-> D :> Page @@ t, destination |-> D],
   [tree |-> Used(t), destination |-> D]}
\* destinations that are the source, are in it, or have it in them
Near ==
  {[tree |-> Plain, destination |-> d] : d \in {S, <<"s", "out">>, <<"s", "sub", "out">>, <<"s", "sub">>}}
    \cup {[tree |-> D :> Link(p) @@ Plain, destination |-> d] : p \in {S, <<"s", "sub">>}, d \in {D, <<"d", "out">>}}
    \cup {[tree |-> D :> Link(p) @@ Plain, destination |-> D] : p \in {<<"o">>, <<"s", "none">>}}
    \cup {[tree |-> D :> Link(<<"s", "e">>) @@ <<"s", "e">> :> Dir @@ Plain, destination |-> D],
          [tree |-> <<"d", "a.js">> :> Link(<<"s", "a.js">>) @@ Used(Plain), destination |-> D],
          [tree |-> <<"d", "p.html">> :> Link(<<"o", "x.js">>) @@ Used(Plain), destination |-> D],
          [tree |-> <<"d", "sub">> :> Page @@ Used(Plain), destination |-> D],
          [tree |-> <<"d", "chrome">> :> Page @@ Used(Plain), destination |-> D],
          [tree |-> <<"d", "sub">> :> Link(<<"s", "sub">>) @@ Used(Plain), destination |-> D],
          [tree |-> <<"d", "sub">> :> Link(<<"o">>) @@ <<"o", "l">> :> Link(<<"s", "none">>) @@ Used(Plain), destination |-> D],
          [tree |-> <<"d", "sub">> :> Link(<<"o">>) @@ <<"o", "a.js">> :> Link(<<"s", "none">>) @@ Used(Plain), destination |-> D],
          [tree |-> <<"d", "a.js">> :> Link(<<"no", "where", "x">>) @@ Used(Plain), destination |-> D],
          [tree |-> <<"d", "a.js">> :> Dir @@ Used(Plain), destination |-> D]}
\* the source as a link, and in the destination
Odd ==
  {[tree |-> <<"l">> :> Link(S) @@ Plain, destination |-> d, source |-> <<"l">>] : d \in {D, S, <<"s", "out">>, <<"l", "sub", "out">>}}
    \cup {[tree |-> <<"d", "s">> :> Dir @@ <<"d", "s", "s">> :> Dir @@ <<"d", "s", "s", "a.js">> :> Script("inner")
                      @@ <<"d", "s", "a.js">> :> Script("outer") @@ Used(Plain), destination |-> D, source |-> <<"d", "s">>]}

World(w, from, exclude, plain, mozilla) ==
  [tree |-> w.tree, source |-> from, destination |-> w.destination, exclude |-> exclude, plain |-> plain, mozilla |-> mozilla]

Lists == {{}, {<<"sub">>}, {<<"a.js">>}, {<<"l.js">>}, {<<"no", "x">>}}
MCWorlds ==
  {World(w, S, {}, {}, m) : w \in UNION {Places(t) : t \in SourceTrees} \cup Near, m \in BOOLEAN}
    \cup {World(w, w.source, {}, {}, m) : w \in Odd, m \in BOOLEAN}
    \cup {World([tree |-> t, destination |-> D], S, x, p, FALSE) : t \in SourceTrees, x \in Lists, p \in Lists}

MCNames == STRING
MCScripts == {"a.js", "x.js", "l.js", "jscoverage.js", "jscoverage-overlay.js"}
=============================================================================
