-------------------------------- MODULE Proc --------------------------------
(***************************************************************************)
(* The life of processes (proc.c): kfork with allocproc, kexit with        *)
(* reparent, kwait with freeproc, kkill.  A step is a section under        *)
(* wait_lock or under one p->lock.  RUNNING is not told apart from         *)
(* RUNNABLE.  sleep() releases wait_lock and suspends the caller in one    *)
(* step, under p->lock.  Slot 1 of the process table holds init, which     *)
(* never exits (kexit panics) and which nobody kills here.                 *)
(***************************************************************************)
EXTENDS Integers, FiniteSets

CONSTANTS NPROC,        \* size of the process table
          KillTargets,  \* the arguments users pass to kill
          MaxPid,       \* bound: process ids handed out in one behaviour
          MaxKills      \* bound: calls of kill in one behaviour

ASSUME ProcAssumption ==
  /\ NPROC \in Nat \ {0}
  /\ KillTargets \subseteq Nat \ {1}
  /\ MaxPid \in Nat /\ MaxKills \in Nat

Slots == 1..NPROC
initproc == 1
None == 0

VARIABLES
  state, pid, parent, killed,  \* struct proc; parent is a slot or None
  chan,        \* the slot whose address the process sleeps on, or None
  pc,          \* where the process of each slot is
  np,          \* the child a process is creating in kfork
  wait_lock,   \* its holder, or None
  nextpid,
  kills        \* calls of kill so far

vars == <<state, pid, parent, killed, chan, pc, np, wait_lock, nextpid,
          kills>>

Goto(p, l) == pc' = [pc EXCEPT ![p] = l]

(* userinit *)
Init ==
  /\ state = [s \in Slots |-> IF s = initproc THEN "RUNNABLE" ELSE "UNUSED"]
  /\ pid = [s \in Slots |-> IF s = initproc THEN 1 ELSE 0]
  /\ parent = [s \in Slots |-> None]
  /\ killed = [s \in Slots |-> FALSE]
  /\ chan = [s \in Slots |-> None]
  /\ pc = [s \in Slots |-> IF s = initproc THEN "user" ELSE "none"]
  /\ np = [s \in Slots |-> None]
  /\ wait_lock = None
  /\ nextpid = 2
  /\ kills = 0

(* Mutant: kexit does not hold p->lock when it releases wait_lock. *)
ProcLocked_never(s) == FALSE

(* Who holds p->lock across a step: kexit, from before it releases         *)
(* wait_lock until the scheduler has left the process's stack.             *)
ProcLocked(s) == pc[s] = "exiting"

(* The part of freeproc that is modelled, as the next value of the slot. *)
freeproc(s) ==
  /\ state' = [state EXCEPT ![s] = "UNUSED"]
  /\ pid' = [pid EXCEPT ![s] = 0]
  /\ parent' = [parent EXCEPT ![s] = None]
  /\ killed' = [killed EXCEPT ![s] = FALSE]
  /\ chan' = [chan EXCEPT ![s] = None]

(* wakeup(c): what it leaves of the process states. *)
Woken(st, c) ==
  [s \in Slots |-> IF st[s] = "SLEEPING" /\ chan[s] = c THEN "RUNNABLE"
                   ELSE st[s]]

InUser(p) == pc[p] = "user" /\ ~killed[p]
-----------------------------------------------------------------------------
FirstUnused(s) == state[s] = "UNUSED" /\ \A t \in 1..s-1 : state[t] # "UNUSED"

(* kfork: allocproc takes the first unused slot, and memory is copied. *)
kfork(p) ==
  /\ InUser(p)
  /\ nextpid <= MaxPid
  /\ \E s \in Slots :
       /\ FirstUnused(s)
       /\ state' = [state EXCEPT ![s] = "USED"]
       /\ pid' = [pid EXCEPT ![s] = nextpid]
       /\ np' = [np EXCEPT ![p] = s]
  /\ nextpid' = nextpid + 1
  /\ Goto(p, "fork_parent")
  /\ UNCHANGED <<parent, killed, chan, wait_lock, kills>>

(* kfork when kalloc or uvmcopy fails: freeproc puts the slot back. *)
kfork_nomem(p) ==
  /\ InUser(p)
  /\ nextpid <= MaxPid
  /\ \E s \in Slots : FirstUnused(s) /\ freeproc(s)
  /\ nextpid' = nextpid + 1
  /\ UNCHANGED <<pc, np, wait_lock, kills>>

kfork_parent(p) ==
  /\ pc[p] = "fork_parent"
  /\ wait_lock = None
  /\ parent' = [parent EXCEPT ![np[p]] = p]
  /\ Goto(p, "fork_run")
  /\ UNCHANGED <<state, pid, killed, chan, np, wait_lock, nextpid, kills>>

(* The child returns from fork at its first scheduling (forkret). *)
kfork_run(p) ==
  /\ pc[p] = "fork_run"
  /\ state' = [state EXCEPT ![np[p]] = "RUNNABLE"]
  /\ pc' = [pc EXCEPT ![p] = "user", ![np[p]] = "user"]
  /\ np' = [np EXCEPT ![p] = None]
  /\ UNCHANGED <<pid, parent, killed, chan, wait_lock, nextpid, kills>>
-----------------------------------------------------------------------------
(* Mutant: no reparenting. *)
Reparented_not(p) == parent

(* reparent(p) *)
Reparented(p) == [s \in Slots |-> IF parent[s] = p THEN initproc ELSE parent[s]]
HasChild(p) == \E s \in Slots : parent[s] = p

(* Mutant: reparent does not wake init. *)
ExitWakeups_parent(p) == Woken(state, parent[p])

(* What reparent(p) and wakeup(p->parent) leave of the process states. *)
ExitWakeups(p) ==
  Woken(IF HasChild(p) THEN Woken(state, initproc) ELSE state, parent[p])

(* kexit, by exit() or by usertrap() for a killed process. *)
kexit(p) ==
  /\ pc[p] = "user"
  /\ p # initproc
  /\ wait_lock = None
  /\ parent' = Reparented(p)
  /\ state' = [ExitWakeups(p) EXCEPT ![p] = "ZOMBIE"]
  /\ Goto(p, "exiting")
  /\ UNCHANGED <<pid, killed, chan, np, wait_lock, nextpid, kills>>

(* sched() leaves the stack of the zombie, and p->lock is released. *)
kexit_sched(p) ==
  /\ pc[p] = "exiting"
  /\ Goto(p, "none")
  /\ UNCHANGED <<state, pid, parent, killed, chan, np, wait_lock, nextpid,
                 kills>>
-----------------------------------------------------------------------------
call_kwait(p) ==
  /\ InUser(p)
  /\ Goto(p, "wait_scan")
  /\ UNCHANGED <<state, pid, parent, killed, chan, np, wait_lock, nextpid,
                 kills>>

(* kwait: one scan of the table under wait_lock, which takes the lock of   *)
(* every child it comes to.                                                *)
Scanning(p, upto) ==
  /\ pc[p] = "wait_scan"
  /\ wait_lock = None
  /\ \A s \in 1..upto : parent[s] = p => ~ProcLocked(s)

ZombieChild(p, s) == parent[s] = p /\ state[s] = "ZOMBIE"

Finds(p, s) ==
  /\ Scanning(p, s)
  /\ ZombieChild(p, s) /\ \A t \in 1..s-1 : ~ZombieChild(p, t)

FindsNone(p) == Scanning(p, NPROC) /\ \A s \in Slots : ~ZombieChild(p, s)

kwait_reap(p) ==
  /\ \E s \in Slots : Finds(p, s) /\ freeproc(s)
  /\ Goto(p, "user")
  /\ UNCHANGED <<np, wait_lock, nextpid, kills>>

(* copyout of the status fails; init does not ask for it. *)
kwait_fault(p) ==
  /\ p # initproc
  /\ \E s \in Slots : Finds(p, s)
  /\ Goto(p, "user")
  /\ UNCHANGED <<state, pid, parent, killed, chan, np, wait_lock, nextpid,
                 kills>>

kwait_fail(p) ==
  /\ FindsNone(p)
  /\ ~HasChild(p) \/ killed[p]
  /\ Goto(p, "user")
  /\ UNCHANGED <<state, pid, parent, killed, chan, np, wait_lock, nextpid,
                 kills>>

kwait_block(p) ==
  /\ FindsNone(p)
  /\ HasChild(p) /\ ~killed[p]
  /\ wait_lock' = p
  /\ Goto(p, "wait_sleep")
  /\ UNCHANGED <<state, pid, parent, killed, chan, np, nextpid, kills>>

(* sleep(p, &wait_lock) *)
kwait_sleep(p) ==
  /\ pc[p] = "wait_sleep"
  /\ state' = [state EXCEPT ![p] = "SLEEPING"]
  /\ chan' = [chan EXCEPT ![p] = p]
  /\ wait_lock' = None
  /\ Goto(p, "asleep")
  /\ UNCHANGED <<pid, parent, killed, np, nextpid, kills>>

kwait_wake(p) ==
  /\ pc[p] = "asleep"
  /\ state[p] = "RUNNABLE"
  /\ chan' = [chan EXCEPT ![p] = None]
  /\ Goto(p, "wait_scan")
  /\ UNCHANGED <<state, pid, parent, killed, np, wait_lock, nextpid, kills>>
-----------------------------------------------------------------------------
(* kkill(n) by process p: the first slot with that pid. *)
kkill(p, n) ==
  /\ InUser(p)
  /\ kills < MaxKills
  /\ kills' = kills + 1
  /\ \/ \E s \in Slots :
          /\ pid[s] = n /\ \A t \in 1..s-1 : pid[t] # n
          /\ ~ProcLocked(s)
          /\ killed' = [killed EXCEPT ![s] = TRUE]
          /\ state' = [state EXCEPT ![s] = IF @ = "SLEEPING" THEN "RUNNABLE"
                                           ELSE @]
     \/ /\ \A s \in Slots : pid[s] # n
        /\ UNCHANGED <<killed, state>>
  /\ UNCHANGED <<pid, parent, chan, pc, np, wait_lock, nextpid>>
-----------------------------------------------------------------------------
KernelStep(p) ==
  \/ kfork_parent(p) \/ kfork_run(p) \/ kexit_sched(p)
  \/ kwait_reap(p) \/ kwait_fault(p) \/ kwait_fail(p) \/ kwait_block(p)
  \/ kwait_sleep(p) \/ kwait_wake(p)

Next ==
  \E p \in Slots :
    \/ KernelStep(p) \/ kfork(p) \/ kfork_nomem(p) \/ kexit(p)
    \/ call_kwait(p) \/ \E n \in KillTargets : kkill(p, n)

Spec == Init /\ [][Next]_vars

(* The kernel runs what is RUNNABLE, a killed process exits at its next    *)
(* trap, and init calls wait again and again (user/init.c).                *)
FairSpec ==
  /\ Spec
  /\ \A p \in Slots : WF_vars(KernelStep(p)) /\ WF_vars(killed[p] /\ kexit(p))
  /\ WF_vars(call_kwait(initproc))
-----------------------------------------------------------------------------
Alive(s) == state[s] \in {"RUNNABLE", "SLEEPING"}

(* reparent: the parent of a process, until it is reaped, is a process     *)
(* that has not exited, so parent never points to a freed or reused slot.  *)
ParentAlive ==
  \A s \in Slots : state[s] \in {"RUNNABLE", "SLEEPING", "ZOMBIE"}
                     => s = initproc \/ (parent[s] \in Slots /\ Alive(parent[s]))

(* A slot is free only when no kernel thread runs on its stack any more    *)
(* (kwait takes the child's p->lock, which kexit holds until sched()), and *)
(* nothing of its last process is left in it for the next one.             *)
FreeIsClean ==
  \A s \in Slots :
    /\ state[s] \in {"UNUSED", "USED"} => pc[s] = "none"
    /\ state[s] = "UNUSED" => ~killed[s] /\ pid[s] = 0 /\ parent[s] = None /\ chan[s] = None

(* An exited process whose parent has exited is reaped by init. *)
OrphansReaped ==
  \A s \in Slots :
    state[s] = "ZOMBIE" /\ parent[s] = initproc ~> state[s] = "UNUSED"

=============================================================================
