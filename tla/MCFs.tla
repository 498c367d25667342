-------------------------------- MODULE MCFs --------------------------------
(* The calls of module Fs that are model-checked. *)
EXTENDS Fs, TLC

Symmetry == Permutations(Procs)

Req(c, a, p, m) == [call |-> c, abs |-> a, path |-> p, new |-> <<>>, mode |-> m]

MCRequests ==
    {Req("open", TRUE, <<"a">>, "trunc"), Req("open", TRUE, <<"a">>, "read"),
     Req("open", TRUE, <<"a">>, "write"), Req("open", FALSE, <<"b">>, "creat"),
     Req("mkdir", FALSE, <<"b">>, ""), Req("mkdir", TRUE, <<>>, ""),
     Req("mknod", TRUE, <<"b">>, "baddev"), Req("unlink", TRUE, <<"a">>, ""),
     Req("unlink", TRUE, <<"a", "b">>, ""), Req("chdir", TRUE, <<"a">>, ""),
     [Req("link", TRUE, <<"a">>, "") EXCEPT !.new = <<"b">>]}

\* mkfs's image after creat("/a"), and after mkdir("/a").
Made(c) == NewInode(mkfs, ROOTINO, mkfs.inode[ROOTINO], [NoFrame EXCEPT !.call = c, !.name = "a"], 2).D
MCImages == {Made("open"), Made("mkdir")}

MCSources == {<<"ok">>, <<"ok", "ok", "ok", "fault">>}
=============================================================================
