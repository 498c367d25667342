----------------------------- MODULE ShellParse -----------------------------
(***************************************************************************)
(* The parser of the shell (user/sh.c).  A line is a sequence of           *)
(* characters, a word a sequence of letters.  Parsers take what is left of *)
(* the line and give [c, s]: the command, and what is left then.  A command*)
(* in which the parser has called panic is Panic.                          *)
(***************************************************************************)
EXTENDS Integers, SequencesExt

CONSTANT MAXARGS

whitespace == {" ", "nl"}
symbols == {"<", "|", ">", "&", ";", "(", ")"}

Panic == [type |-> "PANIC"]
execcmd(argv) == [type |-> "EXEC", argv |-> argv]
redircmd(cmd, r) == [type |-> "REDIR", cmd |-> cmd, redir |-> r]   \* r = <<file, mode, fd>>
pipecmd(left, right) == [type |-> "PIPE", left |-> left, right |-> right]
listcmd(left, right) == [type |-> "LIST", left |-> left, right |-> right]
backcmd(cmd) == [type |-> "BACK", cmd |-> cmd]

\* s without the characters of S at its start.
Past(s, S) == SelectInSeq(s, LAMBDA ch : ch \notin S)
From(s, n) == IF n = 0 THEN <<>> ELSE SubSeq(s, n, Len(s))
Skip(s) == From(s, Past(s, whitespace))

\* [tok, word, s]; tok = "" at the end of the line.
gettoken(ps) ==
    LET Word(s, n) == [tok |-> "a", word |-> SubSeq(s, 1, n - 1), s |-> Skip(SubSeq(s, n, Len(s)))]
        End(s) == SelectInSeq(s, LAMBDA ch : ch \in whitespace \cup symbols)
        Token(s) == IF s = <<>> THEN [tok |-> "", word |-> <<>>, s |-> <<>>]
                    ELSE IF Len(s) > 1 /\ s[1] = ">" /\ s[2] = ">"
                         THEN [tok |-> "+", word |-> <<>>, s |-> Skip(SubSeq(s, 3, Len(s)))]
                    ELSE IF s[1] \in symbols THEN [tok |-> s[1], word |-> <<>>, s |-> Skip(Tail(s))]
                    ELSE Word(s, IF End(s) = 0 THEN Len(s) + 1 ELSE End(s))
    IN  Token(Skip(ps))
peek(ps, toks) == LET First(s) == s # <<>> /\ s[1] \in toks IN First(Skip(ps))

\* The three kinds of redirection.
redir(tok, file) == CASE tok = "<" -> <<file, "rdonly", 0>>
                      [] tok = ">" -> <<file, "trunc", 1>>
                      [] tok = "+" -> <<file, "create", 1>>

\* [ok, rs, s]: the redirections at the start of s, after rs.
RECURSIVE Redirs(_, _)
Redirs(rs, s) ==
    LET File(t, f) == IF f.tok # "a" THEN [ok |-> FALSE, rs |-> rs, s |-> f.s]
                      ELSE Redirs(Append(rs, redir(t.tok, f.word)), f.s)
        Sign(t) == File(t, gettoken(t.s))
    IN  IF peek(s, {"<", ">"}) THEN Sign(gettoken(s)) ELSE [ok |-> TRUE, rs |-> rs, s |-> s]
\* The first redirection is the innermost.
parseredirs(cmd, rs) == FoldLeft(redircmd, cmd, rs)

RECURSIVE parseline(_)
RECURSIVE parsepipe(_)
RECURSIVE parseexec(_, _, _)

parseblock(s) ==
    LET Tailed(x, r) == [c |-> IF r.ok THEN parseredirs(x.c, r.rs) ELSE Panic, s |-> r.s]
        Closed(x) == IF x.c = Panic \/ ~peek(x.s, {")"}) THEN [c |-> Panic, s |-> x.s]
                     ELSE Tailed(x, Redirs(<<>>, gettoken(x.s).s))
    IN  Closed(parseline(gettoken(s).s))

\* The words and the redirections so far; both end up in one command.
parseexec(argv, rs, ps) ==
    LET Word(t, r) == IF t.tok # "a" \/ Len(argv) + 1 >= MAXARGS THEN [c |-> Panic, s |-> t.s]
                      ELSE parseexec(Append(argv, t.word), r.rs, r.s)
        Next(t, r) == IF t.tok = "" THEN [c |-> parseredirs(execcmd(argv), r.rs), s |-> t.s]
                      ELSE Word(t, [r EXCEPT !.s = t.s])
        Args(r) == IF ~r.ok THEN [c |-> Panic, s |-> r.s]
                   ELSE IF peek(r.s, {"|", ")", "&", ";"}) THEN [c |-> parseredirs(execcmd(argv), r.rs), s |-> r.s]
                   ELSE Next(gettoken(r.s), r)
    IN  Args(Redirs(rs, ps))

parsepipe(s) ==
    LET Right(x, y) == [c |-> IF y.c = Panic THEN Panic ELSE pipecmd(x.c, y.c), s |-> y.s]
        Left(x) == IF x.c = Panic \/ ~peek(x.s, {"|"}) THEN x ELSE Right(x, parsepipe(gettoken(x.s).s))
    IN  Left(IF peek(s, {"("}) THEN parseblock(s) ELSE parseexec(<<>>, <<>>, s))

RECURSIVE Backs(_)
Backs(x) == IF peek(x.s, {"&"}) THEN Backs([c |-> backcmd(x.c), s |-> gettoken(x.s).s]) ELSE x

parseline_left(s) ==
    LET Tree(x, y) == IF y.c = Panic THEN y
                      ELSE IF y.c.type = "LIST" THEN [y EXCEPT !.c = listcmd(listcmd(x.c, y.c.left), y.c.right)]
                      ELSE [y EXCEPT !.c = listcmd(x.c, y.c)]
        Rest(x) == IF ~peek(x.s, {";"}) THEN x ELSE Tree(x, parseline(gettoken(x.s).s))
        First(x) == IF x.c = Panic THEN x ELSE Rest(Backs(x))
    IN  First(parsepipe(s))

parseline(s) ==
    LET Right(x, y) == [c |-> IF y.c = Panic THEN Panic ELSE listcmd(x.c, y.c), s |-> y.s]
        Rest(x) == IF peek(x.s, {";"}) THEN Right(x, parseline(gettoken(x.s).s)) ELSE x
        First(x) == IF x.c = Panic THEN x ELSE Rest(Backs(x))
    IN  First(parsepipe(s))

\* nulterminate only ends the words, which are apart here.
parsecmd(s) == LET All(x) == IF Skip(x.s) = <<>> THEN x.c ELSE Panic IN All(parseline(s))

(***************************************************************************)
(* What a command looks like, with sp around what needs no space: the      *)
(* reference for the parser.                                               *)
(***************************************************************************)
Joined(words) == FoldLeft(LAMBDA s, w : IF s = <<>> THEN w ELSE s \o <<" ">> \o w, <<>>, words)
Sign(mode) == CASE mode = "rdonly" -> <<"<">> [] mode = "trunc" -> <<">">> [] mode = "create" -> <<">", ">">>

RECURSIVE Text(_, _)
Text(cmd, sp) ==
    LET Block(c, types) == IF c.type \in types THEN Text(c, sp) ELSE <<"(">> \o sp \o Text(c, sp) \o sp \o <<")">>
    IN  CASE cmd.type = "EXEC" -> Joined(cmd.argv)
          [] cmd.type = "REDIR" -> Block(cmd.cmd, {"EXEC", "REDIR"}) \o sp \o Sign(cmd.redir[2]) \o sp \o cmd.redir[1]
          [] cmd.type = "PIPE" -> Block(cmd.left, {"EXEC", "REDIR"}) \o sp \o <<"|">> \o sp
                                      \o Block(cmd.right, {"EXEC", "REDIR", "PIPE"})
          [] cmd.type = "LIST" -> Block(cmd.left, {"EXEC", "REDIR", "PIPE", "BACK"}) \o sp \o <<";">> \o sp
                                      \o Text(cmd.right, sp)
          [] cmd.type = "BACK" -> Block(cmd.cmd, {"EXEC", "REDIR", "PIPE", "BACK"}) \o sp \o <<"&">>
=============================================================================
