------------------------------ MODULE MCShell ------------------------------
(* Commands of two levels over words and redirections are parsed, tight and *)
(* spaced; some of them are run.                                            *)
EXTENDS Shell

echo == <<"e">>
cat == <<"c", "a">>
f == <<"f">>
none == <<"n">>
Simple == {execcmd(<<echo>>), execcmd(<<cat, f>>)}
Redirected(S) == {redircmd(c, r) : c \in S, r \in {<<f, "rdonly", 0>>, <<f, "trunc", 1>>, <<f, "create", 1>>}}
Combined(S, T) == {pipecmd(c, d) : c \in S, d \in T} \cup {listcmd(c, d) : c \in S, d \in T} \cup {backcmd(c) : c \in S}
Small == Simple \cup Redirected({execcmd(<<echo>>)}) \cup {redircmd(redircmd(execcmd(<<cat>>), <<f, "rdonly", 0>>), <<none, "trunc", 1>>)}
Middle == Combined(Simple, Small) \cup Redirected(Combined(Simple, {execcmd(<<echo>>)}))
Large == Combined(Middle, Simple) \cup Combined(Simple, Middle)

e == execcmd(<<echo>>)
c == execcmd(<<cat>>)
MCRuns == {pipecmd(e, c), pipecmd(c, e), listcmd(e, execcmd(<<none>>)), listcmd(backcmd(pipecmd(e, c)), e),
           redircmd(pipecmd(e, redircmd(c, <<none, "rdonly", 0>>)), <<f, "trunc", 1>>),
           pipecmd(e, redircmd(c, <<f, "create", 1>>)), execcmd(<<>>), pipecmd(e, pipecmd(c, c))}
\* A command that is not one.
Wrong == {<<<<"(", "e">>, Panic>>, <<<<"e", "|", ">">>, Panic>>, <<<<"e", "&", "e">>, Panic>>,
          <<<<"e", " ", "e", " ", "e", " ", "e">>, Panic>>, <<<<"e", ")">>, Panic>>, <<<<"e", "(">>, Panic>>}
MCLines == {<<Text(t, sp), t>> : t \in Middle \cup Large \cup MCRuns, sp \in {<<>>, <<" ">>}} \cup Wrong
MCPrograms == {echo, cat}
MCFilters == {cat}
MCFiles == {f}
=============================================================================
