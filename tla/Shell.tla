-------------------------------- MODULE Shell --------------------------------
(***************************************************************************)
(* init (user/init.c), the shell (user/sh.c) and the processes it starts,  *)
(* with what the kernel keeps for them: descriptors (fdalloc, sys_dup,     *)
(* sys_close and sys_pipe in sysfile.c, kfork and kexit in proc.c), the    *)
(* reference counts of open files (file.c) and pipes.  A system call is    *)
(* one step.  A program that exec starts reads its input to the end if it  *)
(* is a filter, and writes Writes units.                                   *)
(***************************************************************************)
EXTENDS ShellParse, FiniteSetsExt

CONSTANTS NPROC, NOFILE, NFILE, PIPESIZE, Writes,
          Lines,     \* pairs of a line and the command it stands for
          Runs,      \* the commands that are run; the others are only parsed
          Programs, Filters, Files,   \* names that exec, open find
          MaxLines

VARIABLES proc,   \* state, parent, pc, cmd; fd; p: the pipe in runcmd; want: see Plumbed
          file,   \* the file table: ref and what is open, <<"r" or "w", pipe>> for pipes
          pipe,   \* readopen, writeopen, n: how much it holds
          line,   \* the last line, the command it stands for and the one that parsecmd makes of it
          lines

vars == <<proc, file, pipe, line, lines>>

Procs == 1..NPROC
init == 1
Fds == 0..NOFILE - 1
Console == <<"console", 0>>
Unused == [state |-> "UNUSED", parent |-> 0, pc |-> "", cmd |-> Panic, fd |-> [d \in Fds |-> 0], p |-> <<>>, n |-> 0,
           want |-> <<Console, Console>>]
NoFile == [ref |-> 0, what |-> Console]
NoPipe == [readopen |-> FALSE, writeopen |-> FALSE, n |-> 0]

\* init has opened the console and made the first two copies of the descriptor.
Init ==
    /\ proc = [q \in Procs |-> IF q # init THEN Unused
                ELSE [Unused EXCEPT !.state = "RUNNABLE", !.pc = "start",
                                    !.fd = [d \in Fds |-> IF d < 3 THEN 1 ELSE 0]]]
    /\ file = [f \in 1..NFILE |-> IF f = 1 THEN [ref |-> 3, what |-> Console] ELSE NoFile]
    /\ pipe = [k \in 1..NFILE \div 2 |-> NoPipe]
    /\ line = <<<<>>, Panic, Panic>>
    /\ lines = 0

At(q, pc) == proc[q].state = "RUNNABLE" /\ proc[q].pc = pc
Goes(q, P) == proc' = [proc EXCEPT ![q] = P]

(***************************************************************************)
(* file.c and sysfile.c, on the file table and on pipes together.          *)
(***************************************************************************)
Lowest(fd) == {d \in Fds : fd[d] = 0 /\ \A e \in 0..d - 1 : fd[e] # 0}
fdalloc(fd, f) == [d \in Fds |-> IF d \in Lowest(fd) THEN f ELSE fd[d]]
filealloc == Min({f \in 1..NFILE : file[f].ref = 0})

\* The process gives up the descriptors ds.  The last reference to an end of a pipe closes that
\* end, and a pipe with both ends closed is freed.
fileclose(q, ds) ==
    LET Ref(f) == file[f].ref - Cardinality({d \in ds : proc[q].fd[d] = f})
        Ended == {file[f].what : f \in {g \in DOMAIN file : file[g].ref > 0 /\ Ref(g) = 0}}
        Open(k) == [pipe[k] EXCEPT !.readopen = @ /\ <<"r", k>> \notin Ended,
                                   !.writeopen = @ /\ <<"w", k>> \notin Ended]
    IN  /\ file' = [f \in DOMAIN file |-> IF Ref(f) = 0 THEN NoFile ELSE [file[f] EXCEPT !.ref = Ref(f)]]
        /\ pipe' = [k \in DOMAIN pipe |->
                        IF Open(k).readopen \/ Open(k).writeopen THEN Open(k) ELSE NoPipe]

sys_close(q, d, P) == fileclose(q, {d}) /\ Goes(q, [P EXCEPT !.fd[d] = 0])
sys_dup(q, d, P) ==
    /\ file' = [file EXCEPT ![proc[q].fd[d]].ref = @ + 1] /\ UNCHANGED pipe
    /\ Goes(q, [P EXCEPT !.fd = fdalloc(@, proc[q].fd[d])])

\* kfork: the child c starts at pc with a copy of the descriptors.
kfork(q, P, C) ==
    \E c \in {Min({r \in Procs : proc[r].state = "UNUSED"})} :
        /\ proc' = [proc EXCEPT ![q] = P, ![c] = [C EXCEPT !.state = "RUNNABLE", !.parent = q, !.fd = proc[q].fd]]
        /\ file' = [f \in DOMAIN file |->
                        [file[f] EXCEPT !.ref = @ + Cardinality({d \in Fds : proc[q].fd[d] = f})]]
        /\ UNCHANGED pipe

\* kexit closes everything, gives the children to init and leaves a zombie.
kexit(q) ==
    /\ At(q, "exit") /\ UNCHANGED <<line, lines>>
    /\ fileclose(q, Fds)
    /\ proc' = [r \in Procs |-> IF r = q THEN [Unused EXCEPT !.state = "ZOMBIE", !.parent = proc[q].parent]
                                ELSE IF proc[r].parent = q THEN [proc[r] EXCEPT !.parent = init] ELSE proc[r]]

\* kwait: with the zombie c the process goes on as P.
kwait(q, P) ==
    /\ \E c \in Procs : /\ proc[c].state = "ZOMBIE" /\ proc[c].parent = q
                        /\ proc' = [proc EXCEPT ![c] = Unused, ![q] = P]
    /\ UNCHANGED <<file, pipe, line, lines>>

(***************************************************************************)
(* init and the shell's loop.                                              *)
(***************************************************************************)
init_main ==
    \/ /\ At(init, "start") /\ UNCHANGED <<line, lines>>
       /\ kfork(init, [proc[init] EXCEPT !.pc = "wait", !.n = Min({r \in Procs : proc[r].state = "UNUSED"})],
                [Unused EXCEPT !.pc = "getcmd"])
    \/ /\ At(init, "wait") /\ UNCHANGED <<file, pipe, line, lines>>
       /\ \E c \in Procs : /\ proc[c].state = "ZOMBIE" /\ proc[c].parent = init
                           /\ proc' = [proc EXCEPT ![c] = Unused,
                                                   ![init].pc = IF c = proc[init].n THEN "start" ELSE @]
\* The shell reads a line, or finds the end of its input.  What the child parses is a function
\* of the line, and is taken here.
getcmd(q) ==
    /\ At(q, "getcmd") /\ lines < MaxLines /\ lines' = lines + 1 /\ UNCHANGED <<file, pipe>>
    /\ \/ \E l \in Lines : line' = <<l[1], l[2], parsecmd(l[1])>> /\ Goes(q, [proc[q] EXCEPT !.pc = "fork"])
       \/ UNCHANGED line /\ Goes(q, [proc[q] EXCEPT !.pc = "exit"])
sh(q) ==
    \/ /\ At(q, "fork") /\ UNCHANGED <<line, lines>>
       /\ kfork(q, [proc[q] EXCEPT !.pc = "wait"], [Unused EXCEPT !.pc = "parse"])
    \/ q # init /\ At(q, "wait") /\ kwait(q, [proc[q] EXCEPT !.pc = "getcmd"])

(***************************************************************************)
(* runcmd.                                                                 *)
(***************************************************************************)
parse(q) ==
    /\ At(q, "parse") /\ UNCHANGED <<file, pipe, line, lines>>
    /\ Goes(q, IF line[3] \in Runs THEN [proc[q] EXCEPT !.pc = "run", !.cmd = line[3]]
               ELSE [proc[q] EXCEPT !.pc = "exit"])

Is(q, type) == At(q, "run") /\ proc[q].cmd.type = type

EXEC(q) ==
    /\ Is(q, "EXEC") /\ UNCHANGED <<file, pipe>>
    /\ Goes(q, LET argv == proc[q].cmd.argv IN
               IF argv # <<>> /\ argv[1] \in Programs THEN [proc[q] EXCEPT !.pc = "read"] ELSE [proc[q] EXCEPT !.pc = "exit"])

REDIR(q) ==
    LET r == proc[q].cmd.redir IN
    \/ Is(q, "REDIR") /\ sys_close(q, r[3], [proc[q] EXCEPT !.pc = "open"])
    \/ /\ At(q, "open")
       /\ IF r[2] = "rdonly" /\ r[1] \notin Files THEN Goes(q, [proc[q] EXCEPT !.pc = "exit"]) /\ UNCHANGED <<file, pipe>>
          ELSE /\ file' = [file EXCEPT ![filealloc] = [ref |-> 1, what |-> <<r[2], r[1]>>]] /\ UNCHANGED pipe
               /\ Goes(q, [proc[q] EXCEPT !.pc = "run", !.cmd = @.cmd, !.fd = fdalloc(@, filealloc),
                                          !.want = [@ EXCEPT ![r[3] + 1] = <<r[2], r[1]>>]])

\* A child of runcmd that goes on with cmd.
Child(q, pc, cmd) == [proc[q] EXCEPT !.pc = pc, !.cmd = cmd]
LIST(q) ==
    \/ /\ Is(q, "LIST")
       /\ kfork(q, [proc[q] EXCEPT !.pc = "list"], Child(q, "run", proc[q].cmd.left))
       /\ UNCHANGED <<line, lines>>
    \/ At(q, "list") /\ kwait(q, [proc[q] EXCEPT !.pc = "run", !.cmd = @.right])

BACK(q) == Is(q, "BACK") /\ kfork(q, [proc[q] EXCEPT !.pc = "exit"], Child(q, "run", proc[q].cmd.cmd))

\* sys_pipe: two files, and the two lowest descriptors for them.
sys_pipe(q) ==
    LET k == Min({j \in DOMAIN pipe : pipe[j] = NoPipe})
        rf == filealloc
        wf == Min({f \in 1..NFILE : file[f].ref = 0} \ {rf})
        fd0 == CHOOSE d \in Fds : d \in Lowest(proc[q].fd)
        fd1 == CHOOSE d \in Fds : d \in Lowest(fdalloc(proc[q].fd, rf))
    IN  /\ Is(q, "PIPE")
        /\ file' = [file EXCEPT ![rf] = [ref |-> 1, what |-> <<"r", k>>], ![wf] = [ref |-> 1, what |-> <<"w", k>>]]
        /\ pipe' = [pipe EXCEPT ![k] = [readopen |-> TRUE, writeopen |-> TRUE, n |-> 0]]
        /\ Goes(q, [proc[q] EXCEPT !.pc = "left", !.p = <<fd0, fd1>>, !.n = k, !.fd = fdalloc(fdalloc(@, rf), wf)])

\* What the child for each side of the pipe does before it goes on: at pc L1 to L4, R1 to R4.
\* end is the descriptor that becomes the pipe, from is its index in p.
Plumbs_dup(q, pcs, end, from) ==
    \/ At(q, pcs[1]) /\ sys_dup(q, proc[q].p[from], [proc[q] EXCEPT !.pc = pcs[2]])
    \/ At(q, pcs[2]) /\ sys_close(q, end, [proc[q] EXCEPT !.pc = pcs[3]])
    \/ At(q, pcs[3]) /\ sys_close(q, proc[q].p[1], [proc[q] EXCEPT !.pc = pcs[4]])
    \/ At(q, pcs[4]) /\ sys_close(q, proc[q].p[2], [proc[q] EXCEPT !.pc = "run", !.p = <<>>])

Plumbs(q, pcs, end, from) ==
    \/ At(q, pcs[1]) /\ sys_close(q, end, [proc[q] EXCEPT !.pc = pcs[2]])
    \/ At(q, pcs[2]) /\ sys_dup(q, proc[q].p[from], [proc[q] EXCEPT !.pc = pcs[3]])
    \/ At(q, pcs[3]) /\ sys_close(q, proc[q].p[1], [proc[q] EXCEPT !.pc = pcs[4]])
    \/ At(q, pcs[4]) /\ sys_close(q, proc[q].p[2], [proc[q] EXCEPT !.pc = "run", !.p = <<>>])

parent_closes_not(q) == At(q, "close2") /\ Goes(q, [proc[q] EXCEPT !.pc = "wait2"]) /\ UNCHANGED <<file, pipe>>

parent_closes(q) == At(q, "close2") /\ sys_close(q, proc[q].p[2], [proc[q] EXCEPT !.pc = "wait2", !.p = <<>>])

PIPE(q) ==
    \/ sys_pipe(q)
    \/ /\ At(q, "left")
       /\ kfork(q, [proc[q] EXCEPT !.pc = "right"],
                [Child(q, "L1", proc[q].cmd.left) EXCEPT !.n = 0, !.want = [@ EXCEPT ![2] = <<"w", proc[q].n>>]])
    \/ Plumbs(q, <<"L1", "L2", "L3", "L4">>, 1, 2)
    \/ /\ At(q, "right")
       /\ kfork(q, [proc[q] EXCEPT !.pc = "close1", !.n = 0],
                [Child(q, "R1", proc[q].cmd.right) EXCEPT !.n = 0, !.want = [@ EXCEPT ![1] = <<"r", proc[q].n>>]])
    \/ Plumbs(q, <<"R1", "R2", "R3", "R4">>, 0, 1)
    \/ At(q, "close1") /\ sys_close(q, proc[q].p[1], [proc[q] EXCEPT !.pc = "close2"])
    \/ parent_closes(q)
waits_once(q) == At(q, "wait2") /\ kwait(q, [proc[q] EXCEPT !.pc = "exit"])

waits(q) == \/ At(q, "wait2") /\ kwait(q, [proc[q] EXCEPT !.pc = "wait1"])
            \/ At(q, "wait1") /\ kwait(q, [proc[q] EXCEPT !.pc = "exit"])

(***************************************************************************)
(* Programs.  Reading and writing pipes is piperead and pipewrite.         *)
(***************************************************************************)
What(q, d) == IF proc[q].fd[d] = 0 THEN <<"closed", 0>> ELSE file[proc[q].fd[d]].what
IsPipe(q, d, end) == What(q, d)[1] = end
reads(q) ==
    LET k == What(q, 0)[2] IN
    /\ At(q, "read") /\ UNCHANGED file
    /\ \/ /\ IsPipe(q, 0, "r") /\ proc[q].cmd.argv[1] \in Filters
          /\ pipe[k].n > 0 /\ pipe' = [pipe EXCEPT ![k].n = 0] /\ UNCHANGED proc
       \/ /\ IsPipe(q, 0, "r") /\ proc[q].cmd.argv[1] \in Filters => pipe[k].n = 0 /\ ~pipe[k].writeopen
          /\ Goes(q, [proc[q] EXCEPT !.pc = "write"]) /\ UNCHANGED pipe
writes(q) ==
    LET k == What(q, 1)[2] IN
    /\ At(q, "write") /\ UNCHANGED file
    /\ \/ /\ IsPipe(q, 1, "w") /\ proc[q].n < Writes /\ pipe[k].readopen /\ pipe[k].n < PIPESIZE
          /\ pipe' = [pipe EXCEPT ![k].n = @ + 1] /\ Goes(q, [proc[q] EXCEPT !.n = @ + 1])
       \/ /\ IsPipe(q, 1, "w") /\ proc[q].n < Writes => ~pipe[k].readopen
          /\ Goes(q, [proc[q] EXCEPT !.pc = "exit", !.n = 0]) /\ UNCHANGED pipe

Step(q) == \/ sh(q) \/ parse(q) \/ kexit(q) \/ LIST(q) \/ waits(q)
           \/ (EXEC(q) \/ REDIR(q) \/ BACK(q) \/ PIPE(q) \/ reads(q) \/ writes(q)) /\ UNCHANGED <<line, lines>>
\* No more lines: the shell waits for one, and everybody else is done.
Idle == lines = MaxLines /\ UNCHANGED vars
Next == init_main \/ Idle \/ \E q \in Procs : getcmd(q) \/ Step(q)

\* The scheduler runs every process that can go on; sleepers in read, write and wait are woken.
Spec == Init /\ [][Next]_vars /\ WF_vars(init_main) /\ \A q \in Procs : WF_vars(Step(q))
-----------------------------------------------------------------------------
Live == {q \in Procs : proc[q].state = "RUNNABLE"}
Starts == {"read", "write"}

\* The parser finds in a line the command whose text it is: precedence and nesting of |, ;, &
\* and ( ), and which redirection belongs to which command, with and without spaces.
ParsesBack == line[3] = line[2]

\* A program starts with the input and the output that its place in the command gives it (want:
\* ends of pipes and files from the tree, not from descriptors), and with no other descriptor
\* of a pipe.
Plumbed == \A q \in Live : proc[q].pc \in Starts =>
    /\ What(q, 0) = proc[q].want[1] /\ What(q, 1) = proc[q].want[2] /\ What(q, 2) = Console
    /\ \A d \in 3..NOFILE - 1 : proc[q].fd[d] = 0

\* When the shell asks for the next line, nothing of a command without & is still running: runcmd
\* waits as often as it forks, and for its own children.
RECURSIVE InBackground(_)
InBackground(cmd) == CASE cmd.type = "BACK" -> TRUE
                       [] cmd.type = "REDIR" -> InBackground(cmd.cmd)
                       [] cmd.type \in {"PIPE", "LIST"} -> InBackground(cmd.left) \/ InBackground(cmd.right)
                       [] OTHER -> FALSE
ForegroundDone == \A q \in Live : proc[q].pc = "getcmd" /\ ~InBackground(line[2]) => Live = {init, q}

\* Every command ends: readers see the end of their input because nobody keeps an end of a pipe
\* open, so that the shell asks for the next line and nothing is left running.
CommandsEnd == lines > 0 ~> \E q \in Procs : At(q, "getcmd") /\ Live = {init, q}
=============================================================================
