-------------------------------- MODULE Sched --------------------------------
(***************************************************************************)
(* CPUs, spin locks, timer interrupts and the switch between processes and *)
(* schedulers (kernel/spinlock.c, trap.c, scheduler to wakeup in proc.c,   *)
(* sys_pause, sys_uptime and sys_kill in sysproc.c).                       *)
(*                                                                         *)
(* A thread is a process (1..NPROC) or the scheduler of a CPU (Loop(c)).   *)
(* A critical section that waits for nothing is one step: the lock is held *)
(* and interrupts are off.  Variables that will not be read are reset.     *)
(***************************************************************************)
EXTENDS Integers

CONSTANTS NCPU, NPROC,
          Pauses,    \* arguments of pause
          Victims,   \* processes that get killed
          UINT       \* ticks is an unsigned integer below UINT

ASSUME SchedAssumption ==
    /\ NCPU \in Nat \ {0} /\ NPROC \in Nat \ {0}
    /\ UINT \in Nat /\ \A n \in Pauses : n \in 0..UINT - 1

CPUs == 0..NCPU - 1
Procs == 1..NPROC
Loop(c) == -1 - c
tickslock == 0
Locks == Procs \cup {tickslock}
Free == -1

VARIABLES
    cpu,    \* struct cpu, with intr for SIE in sstatus, on for the thread that runs
            \* and spin while it is in acquire's loop
    lock,   \* the CPU that holds each lock, or Free
    proc,   \* state, on ticks for chan, killed, and the variables of sys_pause and sched
    th,     \* pc of each thread, trap: where it is in the trap handler ("" if it is not),
            \* i and j: the process that a loop of the thread, of the handler has come to
    ticks

vars == <<cpu, lock, proc, th, ticks>>

Init ==
    /\ cpu = [c \in CPUs |-> [intr |-> FALSE, noff |-> 0, intena |-> FALSE, on |-> Loop(c), spin |-> FALSE]]
    /\ lock = [l \in Locks |-> Free]
    /\ proc = [p \in Procs |-> [state |-> "RUNNABLE", chan |-> FALSE, killed |-> FALSE, ticks0 |-> 0, n |-> 0,
                                intena |-> FALSE]]
    /\ th = [t \in Procs \cup {Loop(c) : c \in CPUs} |->
                [pc |-> IF t \in Procs THEN "forkret" ELSE "loop", trap |-> "", i |-> 1, j |-> 1]]
    /\ ticks = UINT - 1

me(c) == cpu[c].on
Label(t) == IF th[t].trap # "" THEN th[t].trap ELSE th[t].pc
At(c, label) == Label(me(c)) = label /\ ~cpu[c].spin
\* The thread at another label, in its handler if it is in one.
To(t, label) == IF th[t].trap # "" THEN [th[t] EXCEPT !.trap = label] ELSE [th[t] EXCEPT !.pc = label]
Goes(c, label) == th' = [th EXCEPT ![me(c)] = To(me(c), label)]

push_off(C) == [C EXCEPT !.intr = FALSE, !.intena = IF C.noff = 0 THEN C.intr ELSE @, !.noff = @ + 1]

pop_off(C) == [C EXCEPT !.noff = @ - 1, !.intr = @ \/ (C.noff = 1 /\ C.intena), !.intena = @ /\ C.noff > 1]

\* The lock that the call of acquire at this label is about.
Wanted(t) == CASE Label(t) \in {"pause", "again", "uptime", "clock"} -> tickslock
               [] Label(t) \in {"sleep", "exit", "yield"} -> t
               [] Label(t) \in {"kill", "look"} -> th[t].i
               [] Label(t) = "wakeup" -> th[t].j
               [] OTHER -> Free
\* The lock that the call of release at this label is about.
Left(t) == CASE Label(t) \in {"sleeps", "clocked"} -> tickslock
             [] Label(t) \in {"forkret", "woken", "yielded"} -> t
             [] Label(t) = "next" -> th[t].i
             [] OTHER -> Free

acquire(c) ==
    /\ Wanted(me(c)) # Free /\ ~cpu[c].spin
    /\ cpu' = [cpu EXCEPT ![c] = [push_off(@) EXCEPT !.spin = TRUE]]
    /\ UNCHANGED <<lock, proc, th, ticks>>
\* The exchange that finds the lock free ends acquire; with C the CPU goes on.
Takes(c, label, C) ==
    /\ cpu[c].spin /\ Label(me(c)) = label /\ lock[Wanted(me(c))] = Free
    /\ lock' = [lock EXCEPT ![Wanted(me(c))] = c]
    /\ cpu' = [cpu EXCEPT ![c] = [C EXCEPT !.spin = FALSE]]
\* A critical section that is over in the same step.
Visits(c, label) ==
    /\ cpu[c].spin /\ Label(me(c)) = label /\ lock[Wanted(me(c))] = Free
    /\ cpu' = [cpu EXCEPT ![c] = pop_off([@ EXCEPT !.spin = FALSE])]
    /\ UNCHANGED lock
Releases(c, label, C) ==
    /\ At(c, label)
    /\ lock' = [lock EXCEPT ![Left(me(c))] = Free]
    /\ cpu' = [cpu EXCEPT ![c] = pop_off(C)]

(***************************************************************************)
(* sched: to the scheduler of this CPU, which has its own context.  intena *)
(* belongs to the thread, and is put back when the process runs again.     *)
(***************************************************************************)
Off(c) == [cpu[c] EXCEPT !.on = Loop(c)]

Resumed_not(c) == cpu[c]

Resumed(c) == [cpu[c] EXCEPT !.intena = proc[me(c)].intena]

\* Once p->lock is held: the new state of the process, and sched.
Switches(c, state, next) ==
    /\ proc' = [proc EXCEPT ![me(c)].state = state, ![me(c)].chan = (state = "SLEEPING"),
                            ![me(c)].intena = cpu[c].intena]
    /\ Goes(c, next)

(***************************************************************************)
(* System calls of a process in user mode, through usertrap.               *)
(***************************************************************************)
Killed(c) == proc[me(c)].killed

\* A killed process exits instead.
usertrap(c, pc, i) ==
    /\ At(c, "user")
    /\ IF Killed(c) THEN Goes(c, "exit") /\ UNCHANGED cpu
       ELSE th' = [th EXCEPT ![me(c)].pc = pc, ![me(c)].i = i] /\ cpu' = [cpu EXCEPT ![c].intr = TRUE]
    /\ UNCHANGED <<lock, ticks>>
syscall(c) ==
    \/ \E n \in Pauses : usertrap(c, "pause", 1) /\ proc' = [proc EXCEPT ![me(c)].n = n]
    \/ usertrap(c, "uptime", 1) /\ UNCHANGED proc
    \/ usertrap(c, "kill", 1) /\ UNCHANGED proc

Elapsed(p) == (ticks - proc[p].ticks0) % UINT
\* The loop of sys_pause, with tickslock.
Pausing(c, label, ticks0) ==
    /\ Label(me(c)) = label /\ UNCHANGED ticks
    /\ IF (ticks - ticks0) % UINT < proc[me(c)].n /\ ~Killed(c)
       THEN Takes(c, label, cpu[c]) /\ Goes(c, "sleep") /\ proc' = [proc EXCEPT ![me(c)].ticks0 = ticks0]
       ELSE Visits(c, label) /\ Goes(c, "return") /\ proc' = [proc EXCEPT ![me(c)].ticks0 = 0, ![me(c)].n = 0]
sys_pause(c) == Pausing(c, "pause", ticks) \/ Pausing(c, "again", proc[me(c)].ticks0)
sys_uptime(c) == Visits(c, "uptime") /\ Goes(c, "return") /\ UNCHANGED <<proc, ticks>>

\* sleep(&ticks, &tickslock): p->lock, release, switch; and back.
sleep(c) ==
    /\ UNCHANGED ticks
    /\ \/ Takes(c, "sleep", cpu[c]) /\ Goes(c, "sleeps") /\ UNCHANGED proc
       \/ Releases(c, "sleeps", cpu[c]) /\ Goes(c, "sched") /\ UNCHANGED proc
       \/ At(c, "sched") /\ cpu' = [cpu EXCEPT ![c] = Off(c)] /\ UNCHANGED lock /\ Switches(c, "SLEEPING", "woken")
       \/ /\ Releases(c, "woken", Resumed(c)) /\ Goes(c, "again")
          /\ proc' = [proc EXCEPT ![me(c)].chan = FALSE, ![me(c)].intena = FALSE]

\* kkill looks at one process after the other, until the one with the pid.
kkill(c) ==
    /\ UNCHANGED ticks /\ Visits(c, "kill")
    /\ LET p == th[me(c)].i IN
       IF p \in Victims
       THEN /\ proc' = [proc EXCEPT ![p].killed = TRUE, ![p].state = IF @ = "SLEEPING" THEN "RUNNABLE" ELSE @]
            /\ th' = [th EXCEPT ![me(c)] = [To(me(c), "return") EXCEPT !.i = 1]]
       ELSE th' = [th EXCEPT ![me(c)].i = @ + 1] /\ UNCHANGED proc

\* The end of usertrap: interrupts are on in user mode.
prepare_return(c) ==
    /\ At(c, "return") /\ UNCHANGED <<lock, proc, ticks>>
    /\ IF Killed(c) THEN Goes(c, "exit") /\ UNCHANGED cpu
       ELSE Goes(c, "user") /\ cpu' = [cpu EXCEPT ![c].intr = TRUE]
forkret(c) == Releases(c, "forkret", cpu[c]) /\ Goes(c, "return") /\ UNCHANGED <<proc, ticks>>
kexit(c) == Takes(c, "exit", Off(c)) /\ Switches(c, "ZOMBIE", "dead") /\ UNCHANGED ticks

(***************************************************************************)
(* The timer interrupt, in user or in kernel mode, and in the scheduler.   *)
(***************************************************************************)
\* After devintr: a process yields, but one that was killed in user mode exits.
Handled(t) == IF t \notin Procs THEN [th[t] EXCEPT !.trap = ""]
              ELSE IF th[t].pc = "user" /\ proc[t].killed THEN [th[t] EXCEPT !.trap = "", !.pc = "exit"]
              ELSE [th[t] EXCEPT !.trap = "yield"]
\* CPU 0 counts.  Nobody in pause sees ticks go all the way round.
Timely == \A p \in Procs : th[p].pc \in {"sleep", "sleeps", "sched", "woken", "again"} => Elapsed(p) < UINT - 1
interrupt(c) ==
    /\ cpu[c].intr /\ th[me(c)].trap = "" /\ (c = 0 => Timely) /\ (c # 0 => me(c) \in Procs)
    /\ cpu' = [cpu EXCEPT ![c].intr = FALSE]
    /\ th' = [th EXCEPT ![me(c)] = IF c = 0 THEN [@ EXCEPT !.trap = "clock"] ELSE Handled(me(c))]
    /\ UNCHANGED <<lock, proc, ticks>>

\* The sleepers that wakeup makes runnable.
Wakes_one(c, p) == proc[p].state = "SLEEPING" /\ proc[p].chan /\ \A q \in 1..p - 1 : ~proc[q].chan

Wakes(c, p) == proc[p].state = "SLEEPING" /\ proc[p].chan

\* wakeup(&ticks) from j on leaves out the running process.
Onwards(c, j) == LET more == {p \in j..NPROC : p # me(c)}
                 IN  IF more = {} THEN To(me(c), "clocked")
                     ELSE [To(me(c), "wakeup") EXCEPT !.j = CHOOSE p \in more : \A q \in more : p <= q]
clockintr(c) ==
    \/ /\ Takes(c, "clock", cpu[c]) /\ ticks' = (ticks + 1) % UINT
       /\ th' = [th EXCEPT ![me(c)] = Onwards(c, 1)] /\ UNCHANGED proc
    \/ /\ Visits(c, "wakeup") /\ UNCHANGED ticks
       /\ th' = [th EXCEPT ![me(c)] = Onwards(c, th[me(c)].j + 1)]
       /\ LET p == th[me(c)].j
          IN  proc' = IF Wakes(c, p) THEN [proc EXCEPT ![p].state = "RUNNABLE"] ELSE proc
    \/ /\ At(c, "clocked") /\ lock' = [lock EXCEPT ![tickslock] = Free] /\ UNCHANGED <<proc, ticks>>
       /\ th' = [th EXCEPT ![me(c)] = [Handled(me(c)) EXCEPT !.j = 1]]
       /\ cpu' = [cpu EXCEPT ![c] = [pop_off(@) EXCEPT !.intr = @ \/ me(c) \notin Procs]]

\* The trap ends where it came from, with interrupts on.
yield(c) ==
    /\ UNCHANGED ticks
    /\ \/ Takes(c, "yield", Off(c)) /\ Switches(c, "RUNNABLE", "yielded")
       \/ /\ At(c, "yielded") /\ lock' = [lock EXCEPT ![me(c)] = Free]
          /\ proc' = [proc EXCEPT ![me(c)].intena = FALSE]
          /\ cpu' = [cpu EXCEPT ![c] = [pop_off(Resumed(c)) EXCEPT !.intr = TRUE]]
          /\ Goes(c, "")

(***************************************************************************)
(* scheduler.  wfi ends with the next interrupt, and is no step.           *)
(***************************************************************************)
Dispatch_not(p) == UNCHANGED proc

Dispatch(p) == proc' = [proc EXCEPT ![p].state = "RUNNING"]

\* The next process to look at.
Looks(c) == th' = [th EXCEPT ![me(c)] = IF @.i < NPROC THEN [@ EXCEPT !.pc = "look", !.i = @ + 1]
                                        ELSE [@ EXCEPT !.pc = "loop", !.i = 1]]
scheduler(c) ==
    /\ UNCHANGED ticks
    /\ \/ At(c, "loop") /\ cpu' = [cpu EXCEPT ![c].intr = TRUE] /\ Goes(c, "enabled") /\ UNCHANGED <<lock, proc>>
       \/ /\ At(c, "enabled") /\ cpu' = [cpu EXCEPT ![c].intr = FALSE] /\ UNCHANGED <<lock, proc>>
          /\ th' = [th EXCEPT ![me(c)].pc = "look", ![me(c)].i = 1]
       \/ LET p == th[me(c)].i IN
          IF proc[p].state = "RUNNABLE"
          THEN Takes(c, "look", [cpu[c] EXCEPT !.on = p]) /\ Goes(c, "next") /\ Dispatch(p)
          ELSE Visits(c, "look") /\ Looks(c) /\ UNCHANGED proc
       \/ Releases(c, "next", cpu[c]) /\ Looks(c) /\ UNCHANGED proc

Next == \E c \in CPUs : \/ acquire(c) \/ syscall(c) \/ sys_pause(c) \/ sys_uptime(c) \/ kkill(c)
                        \/ sleep(c) \/ prepare_return(c) \/ forkret(c) \/ kexit(c)
                        \/ interrupt(c) \/ clockintr(c) \/ yield(c) \/ scheduler(c)
Spec == Init /\ [][Next]_vars
-----------------------------------------------------------------------------
\* A process runs on one CPU at most, and whoever gets the lock of a process that runs nowhere
\* finds it not RUNNING, so that its stack is not in use when its state says that it may run.
OneCpu == \A p \in Procs :
    /\ \A c, d \in CPUs : me(c) = p /\ me(d) = p => c = d
    /\ lock[p] = Free => (proc[p].state = "RUNNING" <=> \E c \in CPUs : me(c) = p)

\* None of the panics of acquire, release, pop_off, sched and kerneltrap happens: a CPU never
\* acquires a lock that it holds, not in an interrupt handler either; it releases what it holds;
\* a process that switches holds its own lock and no other, with interrupts off.
NoPanic == \A c \in CPUs :
    /\ Wanted(me(c)) # Free => lock[Wanted(me(c))] # c
    /\ Left(me(c)) # Free => lock[Left(me(c))] = c /\ ~cpu[c].intr /\ cpu[c].noff > 0
    /\ Label(me(c)) \in {"yield", "exit"} /\ cpu[c].spin => cpu[c].noff = 1
    /\ Label(me(c)) = "sched" => lock[me(c)] = c /\ cpu[c].noff = 1 /\ ~cpu[c].intr

\* Interrupts are on in user mode and in system calls that hold no lock, whatever CPU the process
\* has moved to and whatever ran there before; and they are off in the trap handler, which could
\* not return otherwise.  So the panics about locks and interrupts are not reached.
InterruptsKept == NoPanic /\ \A c \in CPUs : me(c) \in Procs =>
    /\ th[me(c)].trap # "" => ~cpu[c].intr
    /\ Label(me(c)) \in {"user", "pause", "uptime", "kill", "again"} /\ cpu[c].noff = 0
            /\ ~Killed(c) => cpu[c].intr

\* A process that sleeps in sys_pause beyond its time is about to be woken: clockintr has
\* tickslock, and wakeup has not come to the process yet.
DueIsWoken == \A p \in Procs :
    proc[p].state = "SLEEPING" /\ Elapsed(p) >= proc[p].n =>
        \E c \in CPUs : lock[tickslock] = c /\ th[me(c)].trap \in {"wakeup"} /\ th[me(c)].j <= p
=============================================================================
