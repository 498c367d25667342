----------------------------- MODULE Semaphore -----------------------------
(***************************************************************************)
(* One open kernel semaphore: sem_wait and sem_signal (semaphore.c) down   *)
(* to the steps of sleep, wakeup_one and kkill (proc.c) at which another   *)
(* process can run.  The scheduler runs RUNNABLE processes in any order,   *)
(* so RUNNING is not told apart from RUNNABLE.                             *)
(*                                                                         *)
(* p->lock is held across more than one step only by sleep(), from before  *)
(* it releases sem->lock until sched() has let go of the process: see      *)
(* ProcLocked.  Every other holder of p->lock takes and releases it within *)
(* one step here, and waits while ProcLocked(p).                           *)
(***************************************************************************)
EXTENDS Integers, FiniteSets

CONSTANTS NPROC,      \* size of the process table
          InitValue,  \* the value the semaphore was opened with
          Killable,   \* the processes somebody may kill
          MaxCalls    \* bound: system calls made in one behaviour

ASSUME SemAssumption ==
  /\ NPROC \in Nat \ {0}
  /\ InitValue \in Nat
  /\ Killable \subseteq 1..NPROC
  /\ MaxCalls \in Nat

Procs == 1..NPROC
NoProc == 0

VARIABLES
  count, lock,         \* struct semaphore: count, and the holder of lock
  state, chan, killed, \* struct proc
  pc,                  \* where each process is in the kernel
  scan,                \* p in the loop of wakeup_one (its caller holds lock)
  calls,               \* system calls made so far
  balance              \* history: InitValue + signals - units user code got

semVars == <<count, lock>>
procVars == <<state, chan, killed>>
vars == <<count, lock, state, chan, killed, pc, scan, calls, balance>>

Locations == {"user", "wait_acquire", "sleep", "sleep_sched", "asleep",
              "sleep_reacquire", "wait_release", "signal_acquire",
              "wakeup_one", "signal_release", "exited"}

Goto(p, l) == pc' = [pc EXCEPT ![p] = l]

Init ==
  /\ count = InitValue
  /\ lock = NoProc
  /\ state = [p \in Procs |-> "RUNNABLE"]
  /\ chan = [p \in Procs |-> "none"]
  /\ killed = [p \in Procs |-> FALSE]
  /\ pc = [p \in Procs |-> "user"]
  /\ scan = 1
  /\ calls = 0
  /\ balance = InitValue
-----------------------------------------------------------------------------
(* sys_sem_wait and sys_sem_signal: the semaphore stays open here, so the  *)
(* check of active always succeeds.  usertrap() stops a killed process     *)
(* before the call.                                                        *)
Call(p, entry) ==
  /\ pc[p] = "user"
  /\ ~killed[p]
  /\ calls < MaxCalls
  /\ calls' = calls + 1
  /\ Goto(p, entry)
  /\ UNCHANGED <<semVars, procVars, scan, balance>>

sys_sem_wait(p) == Call(p, "wait_acquire")
sys_sem_signal(p) == Call(p, "signal_acquire")

(* sem_wait: acquire the lock, take a unit or run into debt. *)
sem_wait(p) ==
  /\ pc[p] = "wait_acquire"
  /\ lock = NoProc
  /\ lock' = p
  /\ count' = count - 1
  /\ Goto(p, IF count' < 0 THEN "sleep" ELSE "wait_release")
  /\ UNCHANGED <<procVars, scan, calls, balance>>

(* sleep(sem, &sem->lock): acquire p->lock, then release the semaphore. *)
sleep(p) ==
  /\ pc[p] = "sleep"
  /\ lock' = NoProc
  /\ Goto(p, "sleep_sched")
  /\ UNCHANGED <<count, procVars, scan, calls, balance>>

(* Mutant: sleep() does not take p->lock before it releases lk. *)
ProcLocked_never(p) == FALSE

ProcLocked(p) == pc[p] = "sleep_sched"

(* sleep: set chan and state; sched() switches away and p->lock is free. *)
sched(p) ==
  /\ pc[p] = "sleep_sched"
  /\ chan' = [chan EXCEPT ![p] = "sem"]
  /\ state' = [state EXCEPT ![p] = "SLEEPING"]
  /\ Goto(p, "asleep")
  /\ UNCHANGED <<semVars, killed, scan, calls, balance>>

(* sleep: sched() returns once the process is RUNNABLE and chosen. *)
sched_return(p) ==
  /\ pc[p] = "asleep"
  /\ state[p] = "RUNNABLE"
  /\ chan' = [chan EXCEPT ![p] = "none"]
  /\ Goto(p, "sleep_reacquire")
  /\ UNCHANGED <<semVars, state, killed, scan, calls, balance>>

(* Mutant: sem_wait looks at count again when it is woken. *)
sleep_reacquire_again(p) ==
  /\ pc[p] = "sleep_reacquire"
  /\ lock = NoProc
  /\ lock' = p
  /\ Goto(p, IF count < 0 THEN "sleep" ELSE "wait_release")
  /\ UNCHANGED <<count, procVars, scan, calls, balance>>

(* sleep: reacquire the semaphore's lock.  sem_wait does not look again. *)
sleep_reacquire(p) ==
  /\ pc[p] = "sleep_reacquire"
  /\ lock = NoProc
  /\ lock' = p
  /\ Goto(p, "wait_release")
  /\ UNCHANGED <<count, procVars, scan, calls, balance>>

(* sem_wait releases the lock and returns; usertrap() lets the process go  *)
(* on in user mode unless it has been killed.                              *)
sem_wait_return(p) ==
  /\ pc[p] = "wait_release"
  /\ lock' = NoProc
  /\ Goto(p, IF killed[p] THEN "exited" ELSE "user")
  /\ balance' = IF killed[p] THEN balance ELSE balance - 1
  /\ UNCHANGED <<count, procVars, scan, calls>>

(* sem_signal: acquire the lock, put a unit back, wake one if in debt. *)
sem_signal(p) ==
  /\ pc[p] = "signal_acquire"
  /\ lock = NoProc
  /\ lock' = p
  /\ count' = count + 1
  /\ balance' = balance + 1
  /\ scan' = 1
  /\ Goto(p, IF count' <= 0 THEN "wakeup_one" ELSE "signal_release")
  /\ UNCHANGED <<procVars, calls>>

Sleeper(q) == state[q] = "SLEEPING" /\ chan[q] = "sem"

(* Mutant: wakeup() instead of wakeup_one(), all sleepers are woken. *)
wakeup_one_all(p) ==
  /\ pc[p] = "wakeup_one"
  /\ \/ /\ scan > NPROC
        /\ Goto(p, "signal_release")
        /\ UNCHANGED <<state, scan>>
     \/ /\ scan \in Procs
        /\ ~ProcLocked(scan)
        /\ state' = IF Sleeper(scan) THEN [state EXCEPT ![scan] = "RUNNABLE"]
                    ELSE state
        /\ scan' = scan + 1
        /\ UNCHANGED pc
  /\ UNCHANGED <<semVars, chan, killed, calls, balance>>

(* wakeup_one(sem): one iteration of the loop over the process table. *)
wakeup_one(p) ==
  /\ pc[p] = "wakeup_one"
  /\ \/ /\ scan > NPROC
        /\ Goto(p, "signal_release")
        /\ UNCHANGED <<state, scan>>
     \/ /\ scan = p
        /\ scan' = scan + 1
        /\ UNCHANGED <<state, pc>>
     \/ /\ scan \in Procs \ {p}
        /\ ~ProcLocked(scan)
        /\ IF Sleeper(scan)
           THEN /\ state' = [state EXCEPT ![scan] = "RUNNABLE"]
                /\ Goto(p, "signal_release")
                /\ UNCHANGED scan
           ELSE /\ scan' = scan + 1
                /\ UNCHANGED <<state, pc>>
  /\ UNCHANGED <<semVars, chan, killed, calls, balance>>

sem_signal_return(p) ==
  /\ pc[p] = "signal_release"
  /\ lock' = NoProc
  /\ Goto(p, IF killed[p] THEN "exited" ELSE "user")
  /\ UNCHANGED <<count, procVars, scan, calls, balance>>

(* kkill: somebody kills q, which makes q RUNNABLE if it sleeps. *)
kkill(q) ==
  /\ q \in Killable
  /\ pc[q] # "exited"
  /\ ~killed[q]
  /\ ~ProcLocked(q)
  /\ killed' = [killed EXCEPT ![q] = TRUE]
  /\ state' = [state EXCEPT ![q] = "RUNNABLE"]
  /\ UNCHANGED <<semVars, chan, pc, scan, calls, balance>>

(* A killed process in user mode exits at its next trap. *)
usertrap(p) ==
  /\ pc[p] = "user"
  /\ killed[p]
  /\ Goto(p, "exited")
  /\ UNCHANGED <<semVars, procVars, scan, calls, balance>>

(* The steps a process takes inside the kernel, once it has entered it. *)
KernelStep(p) ==
  \/ sem_wait(p) \/ sleep(p) \/ sched(p) \/ sched_return(p)
  \/ sleep_reacquire(p) \/ sem_wait_return(p)
  \/ sem_signal(p) \/ wakeup_one(p) \/ sem_signal_return(p)
  \/ usertrap(p)

Next ==
  \E p \in Procs :
    sys_sem_wait(p) \/ sys_sem_signal(p) \/ KernelStep(p) \/ kkill(p)

Spec == Init /\ [][Next]_vars

FairSpec == Spec /\ \A p \in Procs : WF_vars(KernelStep(p))
-----------------------------------------------------------------------------
(* Callers of sem_wait in debt that no wakeup has reached yet. *)
Waiting == {p \in Procs : \/ pc[p] \in {"sleep", "sleep_sched"}
                          \/ pc[p] = "asleep" /\ state[p] = "SLEEPING"}

(* Callers of sem_wait on their way out. *)
Granted == {p \in Procs : \/ pc[p] \in {"sleep_reacquire", "wait_release"}
                          \/ pc[p] = "asleep" /\ state[p] = "RUNNABLE"}

(* Callers of sem_signal whose unit is neither free nor given to a waiter. *)
Signalling == {p \in Procs : pc[p] \in {"signal_acquire", "wakeup_one"}}

GrantedLive == {p \in Granted : ~killed[p]}

(* 1 while a sem_signal that must wake somebody has not done so. *)
Pending == IF \E p \in Procs : pc[p] = "wakeup_one" THEN 1 ELSE 0

NobodyKilled == \A p \in Procs : ~killed[p]

Pos(n) == IF n > 0 THEN n ELSE 0

(* Every variable holds a value of its C type. *)
TypeOK ==
  /\ count \in Int
  /\ lock \in Procs \cup {NoProc}
  /\ state \in [Procs -> {"RUNNABLE", "SLEEPING"}]
  /\ chan \in [Procs -> {"none", "sem"}]
  /\ killed \in [Procs -> BOOLEAN]
  /\ pc \in [Procs -> Locations]
  /\ scan \in 1..NPROC+1
  /\ calls \in Nat
  /\ balance \in Int

(* sem->lock serialises the counter: whoever is between acquire and        *)
(* release of sem->lock is its holder, and there is at most one of them.   *)
LockInv ==
  \A p \in Procs :
    (lock = p) <=> pc[p] \in {"sleep", "wait_release", "wakeup_one",
                             "signal_release"}

(* Only a process inside sleep() is off the run queue, with its channel    *)
(* set, and a scan of wakeup_one has left no waiter behind it.             *)
SleepInv ==
  /\ \A p \in Procs : /\ pc[p] = "asleep" => chan[p] = "sem"
                      /\ pc[p] # "asleep" => state[p] = "RUNNABLE"
  /\ \A p \in Procs : pc[p] = "wakeup_one" => \A q \in Waiting : q >= scan

(* Units owed to processes that kkill has taken out of sem_wait. *)
Abandoned == Pos(-count) + Pending - Cardinality(Waiting)

(* docs/dev_semaphore.md: a negative count is the number of processes that *)
(* wait (one waiter: -1).  Holds of sem_wait, sleep and sem_signal as long *)
(* as kkill has woken nobody, and there are never more waiters than the    *)
(* count says; a signal under way still owes one wakeup.                   *)
WaitersAreDebt ==
  /\ Cardinality(Waiting) <= Pos(-count) + Pending
  /\ NobodyKilled => Cardinality(Waiting) = Pos(-count) + Pending

(* No unit is lost or made up by sem_wait and sem_signal: what was put in  *)
(* is free, owned by a caller about to return, or about to be handed over. *)
UnitConservation ==
  NobodyKilled => balance = Pos(count) + Cardinality(Granted) + Pending

(* User code never gets more units than InitValue plus the signals, even   *)
(* when kkill takes waiters out of sem_wait: they exit in usertrap().      *)
NeverOverGranted == balance >= 0

(* Units that live callers own on their way out are covered by balance. *)
BalanceInv ==
  balance >= Pos(count) + Cardinality(GrantedLive) + Pending

(* The inductive invariant of the semaphore. *)
SemInv ==
  /\ TypeOK
  /\ LockInv
  /\ SleepInv
  /\ WaitersAreDebt
  /\ UnitConservation
  /\ BalanceInv

(* A sem_signal that sees a waiter in count finds one in the process       *)
(* table: sleep() takes p->lock before it releases sem->lock, so the scan  *)
(* of wakeup_one cannot pass a waiter that is not yet SLEEPING.            *)
SignalFindsWaiter ==
  \A p \in Procs : NobodyKilled /\ pc[p] = "wakeup_one" => scan <= NPROC

(* sem_wait and sem_signal implement the atomic semaphore of Dijkstra, in  *)
(* which a killed waiter leaves a debt behind that a later signal pays.    *)
Dijkstra == INSTANCE AbstractSemaphore
              WITH avail <- Pos(count), waiting <- Waiting, granted <- Granted,
                   signalling <- Signalling, abandoned <- Abandoned
ImplementsDijkstra == Dijkstra!AbsSpec

(* A process that was given its unit returns from sem_wait, or exits there *)
(* if it was killed; and one that is killed while it sleeps exits, since   *)
(* kkill makes it RUNNABLE and sem_wait does not wait again.               *)
GrantedReturns ==
  \A p \in Procs :
    /\ p \in Granted ~> pc[p] \in {"user", "exited"}
    /\ pc[p] = "asleep" /\ killed[p] /\ state[p] = "RUNNABLE" ~> pc[p] = "exited"
=============================================================================
