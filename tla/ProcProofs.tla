----------------------------- MODULE ProcProofs -----------------------------
(***************************************************************************)
(* Parents and process slots, for every size of the process table, any     *)
(* number of forks and any pattern of kills.                               *)
(***************************************************************************)
EXTENDS Proc, TLAPS

Locations == {"none", "user", "fork_parent", "fork_run", "exiting",
              "wait_scan", "wait_sleep", "asleep"}

(* Every variable has its type. *)
Types ==
  /\ state \in [Slots -> {"UNUSED", "USED", "RUNNABLE", "SLEEPING", "ZOMBIE"}]
  /\ pid \in [Slots -> Nat]
  /\ parent \in [Slots -> Slots \cup {None}]
  /\ killed \in [Slots -> BOOLEAN]
  /\ chan \in [Slots -> Slots \cup {None}]
  /\ pc \in [Slots -> Locations]
  /\ np \in [Slots -> Slots \cup {None}]
  /\ wait_lock \in Slots \cup {None}
  /\ nextpid \in Nat /\ kills \in Nat

(* What p->state says of where the process is: it is off its stack, in     *)
(* kexit, asleep in kwait, or somewhere else in the kernel or its program. *)
StateOfPc ==
  \A s \in Slots :
    /\ state[s] \in {"UNUSED", "USED"} => pc[s] = "none"
    /\ state[s] = "ZOMBIE" => pc[s] \in {"none", "exiting"}
    /\ state[s] = "SLEEPING" => pc[s] = "asleep"
    /\ state[s] = "RUNNABLE" => pc[s] \notin {"none", "exiting"}
    /\ chan[s] # None => pc[s] = "asleep"

(* kfork: a child in the making belongs to one process, which stays in     *)
(* kfork and has become its parent before the child can run.               *)
Forks(p) == pc[p] \in {"fork_parent", "fork_run"}
Forking ==
  \A p \in Slots :
    /\ Forks(p) => np[p] \in Slots /\ state[np[p]] = "USED"
    /\ pc[p] = "fork_run" => parent[np[p]] = p
    /\ \A q \in Slots : Forks(p) /\ Forks(q) /\ np[p] = np[q] => p = q

(* init does not exit, and nothing of its last process is left in a free   *)
(* slot but, if somebody has called kill(0), the mark.                     *)
FreeSlots ==
  \A s \in Slots : state[s] = "UNUSED" => pid[s] = 0 /\ parent[s] = None /\ chan[s] = None

ProcInv ==
  Types /\ StateOfPc /\ Forking /\ FreeSlots /\ Alive(initproc) /\ ParentAlive
-----------------------------------------------------------------------------
(* Slot 1 is in the table, and None is not. *)
LEMMA InitSlot == initproc \in Slots /\ None \notin Slots
BY ProcAssumption DEF Slots, initproc, None

(* The steps of kfork. *)
LEMMA ForkSteps ==
  ASSUME ProcInv, NEW p \in Slots,
         kfork(p) \/ kfork_nomem(p) \/ kfork_parent(p) \/ kfork_run(p)
  PROVE  ProcInv'
<1> USE InitSlot DEF ProcInv, Types, Locations, StateOfPc, Forking, Forks, FreeSlots,
        Alive, ParentAlive
<1>1. CASE kfork(p)
  BY <1>1 DEF kfork, InUser, FirstUnused, Goto
<1>2. CASE kfork_nomem(p)
  BY <1>2 DEF kfork_nomem, FirstUnused, freeproc
<1>3. CASE kfork_parent(p)
  BY <1>3 DEF kfork_parent, Goto
<1>4. CASE kfork_run(p)
  BY <1>4 DEF kfork_run
<1>5. QED
  BY <1>1, <1>2, <1>3, <1>4

(* The steps of kexit. *)
LEMMA ExitSteps ==
  ASSUME ProcInv, NEW p \in Slots, kexit(p) \/ kexit_sched(p)
  PROVE  ProcInv'
<1> USE InitSlot DEF ProcInv, Types, Locations, StateOfPc, Forking, Forks, FreeSlots,
        Alive, ParentAlive
<1>1. CASE kexit(p)
  BY <1>1 DEF kexit, Reparented, ExitWakeups, HasChild, Woken, Goto
<1>2. CASE kexit_sched(p)
  BY <1>2 DEF kexit_sched, Goto
<1>3. QED
  BY <1>1, <1>2

(* The steps of kwait. *)
LEMMA WaitSteps ==
  ASSUME ProcInv, NEW p \in Slots,
         \/ call_kwait(p) \/ kwait_reap(p) \/ kwait_fault(p) \/ kwait_fail(p)
         \/ kwait_block(p) \/ kwait_sleep(p) \/ kwait_wake(p)
  PROVE  ProcInv'
<1> USE InitSlot DEF ProcInv, Types, Locations, StateOfPc, Forking, Forks, FreeSlots,
        Alive, ParentAlive, Goto
<1>1. CASE call_kwait(p)
  BY <1>1 DEF call_kwait, InUser
<1>2. CASE kwait_reap(p)
  <2>1. PICK s \in Slots : Finds(p, s) /\ freeproc(s)
    BY <1>2 DEF kwait_reap
  <2>2. s # p /\ state[s] = "ZOMBIE" /\ pc[s] = "none" /\ pc[p] = "wait_scan"
    BY <2>1 DEF Finds, Scanning, ZombieChild, ProcLocked, Slots
  <2>3. pc' = [pc EXCEPT ![p] = "user"] /\ UNCHANGED <<np, wait_lock, nextpid, kills>>
    BY <1>2 DEF kwait_reap
  <2>4. QED
    BY <2>1, <2>2, <2>3 DEF freeproc
<1>3. CASE kwait_fault(p) \/ kwait_fail(p)
  BY <1>3 DEF kwait_fault, kwait_fail, Finds, FindsNone, Scanning
<1>4. CASE kwait_block(p) \/ kwait_sleep(p) \/ kwait_wake(p)
  BY <1>4 DEF kwait_block, kwait_sleep, kwait_wake, FindsNone, Scanning
<1>5. QED
  BY <1>1, <1>2, <1>3, <1>4

(* kkill marks a process, and makes it RUNNABLE if it sleeps. *)
LEMMA KillStep ==
  ASSUME ProcInv, NEW p \in Slots, NEW n \in KillTargets, kkill(p, n)
  PROVE  ProcInv'
<1> USE InitSlot DEF ProcInv, Types, Locations, StateOfPc, Forking, Forks, FreeSlots,
        Alive, ParentAlive
<1>1. UNCHANGED <<pid, parent, chan, pc, np, wait_lock, nextpid>> /\ kills' \in Nat
  BY DEF kkill
<1>2. CASE UNCHANGED <<killed, state>>
  BY <1>1, <1>2
<1>3. ASSUME NEW s \in Slots,
             killed' = [killed EXCEPT ![s] = TRUE],
             state' = [state EXCEPT ![s] = IF @ = "SLEEPING" THEN "RUNNABLE" ELSE @]
      PROVE  ProcInv'
  BY <1>1, <1>3
<1>4. QED
  BY <1>2, <1>3 DEF kkill

(* The invariant of the process table: what p->state says of where the     *)
(* process is, what kfork has in hand, and who is whose parent.            *)
THEOREM ProcInvariant == Spec => []ProcInv
<1>1. Init => ProcInv
  BY InitSlot DEF Init, ProcInv, Types, Locations, StateOfPc, Forking, Forks,
     FreeSlots, Alive, ParentAlive
<1>2. ProcInv /\ [Next]_vars => ProcInv'
  <2> SUFFICES ASSUME ProcInv, [Next]_vars PROVE ProcInv'
    OBVIOUS
  <2>1. CASE UNCHANGED vars
    BY <2>1 DEF vars, ProcInv, Types, StateOfPc, Forking, Forks, FreeSlots, Alive,
       ParentAlive
  <2>2. CASE Next
    BY <2>2, ForkSteps, ExitSteps, WaitSteps, KillStep DEF Next, KernelStep
  <2>3. QED
    BY <2>1, <2>2
<1>3. QED
  BY <1>1, <1>2, PTL DEF Spec

(* reparent: no process has a parent that has exited, been freed or been   *)
(* replaced by another one, however exits, forks, waits and kills overlap. *)
THEOREM ParentsLive == Spec => []ParentAlive
BY ProcInvariant, PTL DEF ProcInv

(* If nobody calls kill(0), a free slot has no stack in use and no trace   *)
(* of its last process: kwait waits for p->lock of the child in kexit.     *)
THEOREM SlotsClean ==
  ASSUME 0 \notin KillTargets
  PROVE  Spec => []FreeIsClean
<1> DEFINE Unmarked == \A s \in Slots : state[s] = "UNUSED" => ~killed[s]
<1>1. Init => Unmarked
  BY DEF Init
<1>2. ProcInv /\ Unmarked /\ [Next]_vars => Unmarked'
  <2> SUFFICES ASSUME ProcInv, Unmarked, [Next]_vars PROVE Unmarked'
    OBVIOUS
  <2> USE DEF ProcInv, Types
  <2>1. ASSUME NEW s \in Slots, freeproc(s) PROVE Unmarked'
    BY <2>1 DEF freeproc
  <2>2. ASSUME NEW p \in Slots, kexit(p) PROVE Unmarked'
    BY <2>2 DEF kexit, ExitWakeups, Woken
  <2>3. ASSUME NEW p \in Slots, NEW n \in KillTargets, kkill(p, n) PROVE Unmarked'
    BY <2>3 DEF kkill, FreeSlots
  <2>4. ASSUME NEW p \in Slots, kfork(p) \/ kfork_parent(p) \/ kfork_run(p) PROVE Unmarked'
    BY <2>4 DEF kfork, kfork_parent, kfork_run
  <2>5. ASSUME NEW p \in Slots,
               \/ kexit_sched(p) \/ call_kwait(p) \/ kwait_fault(p) \/ kwait_fail(p)
               \/ kwait_block(p) \/ kwait_sleep(p) \/ kwait_wake(p)
        PROVE  Unmarked'
    BY <2>5 DEF kexit_sched, call_kwait, kwait_fault, kwait_fail, kwait_block,
       kwait_sleep, kwait_wake
  <2>6. CASE UNCHANGED vars
    BY <2>6 DEF vars
  <2>7. QED
    BY <2>1, <2>2, <2>3, <2>4, <2>5, <2>6 DEF Next, KernelStep, kfork_nomem, kwait_reap
<1>3. ProcInv /\ Unmarked => FreeIsClean
  BY DEF ProcInv, StateOfPc, FreeSlots, FreeIsClean
<1>4. QED
  BY <1>1, <1>2, <1>3, ProcInvariant, PTL DEF Spec
=============================================================================
