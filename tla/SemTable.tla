------------------------------ MODULE SemTable ------------------------------
(***************************************************************************)
(* The table of semaphores: sem_alloc and sem_free (proc.c) behind         *)
(* sys_sem_open, sys_sem_wait, sys_sem_signal and sys_sem_close            *)
(* (sysproc.c).  The system calls test active without a lock and use the   *)
(* slot afterwards; sem_alloc sets count, and sem_free wakes the waiters,  *)
(* under sem_table_lock but without the semaphore's own lock.              *)
(*                                                                         *)
(* count-- and count++ are a load and a store, because sem_alloc may store *)
(* in between.  sleep() and the scan of wakeup_one are one step each here  *)
(* (Semaphore has their steps): both run under the semaphore's lock.       *)
(* Nobody is killed.                                                       *)
(***************************************************************************)
EXTENDS Integers, FiniteSets

CONSTANTS NSEM, NPROC,
          Value,     \* the argument of sem_open
          Careful,   \* whether users follow the discipline of MayUse, MayClose
          MaxOpens,  \* bound: calls of sem_open in one behaviour
          MaxCalls   \* bound: calls of sem_wait and sem_signal

ASSUME SemTableAssumption ==
  /\ NSEM \in Nat \ {0} /\ NPROC \in Nat \ {0}
  /\ Value \in Nat /\ Careful \in BOOLEAN
  /\ MaxOpens \in Nat /\ MaxCalls \in Nat

Ids == 1..NSEM
Procs == 1..NPROC
None == 0

VARIABLES
  active, count, lock,  \* sem_table; lock is its holder
  sem_table_lock,       \* its holder
  state, chan,          \* struct proc; chan is the semaphore slept on
  pc, id,               \* where a process is, and the argument of its call
  reg,                  \* the value of count it has loaded
  scan,                 \* p in the loop of wakeup, called by sem_free
  opens, calls,
  \* history
  gen,                  \* how often each slot has been opened
  born,                 \* gen of the slot when the process's call was made
  units                 \* Value + signals - grants since the slot was opened

tableVars == <<active, count, lock, sem_table_lock>>
procVars == <<state, chan>>
bounds == <<opens, calls>>
history == <<gen, born, units>>
vars == <<tableVars, procVars, pc, id, reg, scan, bounds, history>>

Goto(p, l) == pc' = [pc EXCEPT ![p] = l] /\ UNCHANGED <<id, born>>

(* The system call of p returns; what it had in registers is dead. *)
Return(p) ==
  /\ pc' = [pc EXCEPT ![p] = "user"]
  /\ id' = [id EXCEPT ![p] = None]
  /\ born' = [born EXCEPT ![p] = 0]

(* sem_table_init *)
Init ==
  /\ active = [i \in Ids |-> FALSE]
  /\ count = [i \in Ids |-> 0]
  /\ lock = [i \in Ids |-> None]
  /\ sem_table_lock = None
  /\ state = [p \in Procs |-> "RUNNABLE"]
  /\ chan = [p \in Procs |-> None]
  /\ pc = [p \in Procs |-> "user"]
  /\ id = [p \in Procs |-> None]
  /\ reg = [p \in Procs |-> 0]
  /\ scan = 1
  /\ opens = 0 /\ calls = 0
  /\ gen = [i \in Ids |-> 0]
  /\ born = [p \in Procs |-> 0]
  /\ units = [i \in Ids |-> 0]

Closing(p) == pc[p] \in {"free", "free_scan"}
CallOn(p, i) == id[p] = i /\ pc[p] # "user"

(* The discipline of user/semtest_race.c and user/semtest_block.c, and a   *)
(* little more: no call starts on a semaphore that is being closed, and it *)
(* is closed while every call on it is at most asleep in sem_wait.         *)
MayUse(i) == Careful => \A q \in Procs : ~(CallOn(q, i) /\ Closing(q))
MayClose(i) == Careful => \A q \in Procs : CallOn(q, i) => pc[q] = "asleep"
-----------------------------------------------------------------------------
(* Mutant: count keeps the value of the slot's last use. *)
sem_alloc_keep(p) ==
  /\ pc[p] = "user"
  /\ opens < MaxOpens
  /\ opens' = opens + 1
  /\ sem_table_lock = None
  /\ \E i \in Ids :
       /\ ~active[i] /\ \A j \in 1..i-1 : active[j]
       /\ active' = [active EXCEPT ![i] = TRUE]
       /\ gen' = [gen EXCEPT ![i] = @ + 1]
       /\ units' = [units EXCEPT ![i] = Value]
  /\ UNCHANGED <<count, lock, sem_table_lock, procVars, pc, id, reg, scan,
                 calls, born>>

(* sys_sem_open and sem_alloc.  A full table changes nothing. *)
sem_alloc(p) ==
  /\ pc[p] = "user"
  /\ opens < MaxOpens
  /\ opens' = opens + 1
  /\ sem_table_lock = None
  /\ \E i \in Ids :
       /\ ~active[i] /\ \A j \in 1..i-1 : active[j]
       /\ active' = [active EXCEPT ![i] = TRUE]
       /\ count' = [count EXCEPT ![i] = Value]
       /\ gen' = [gen EXCEPT ![i] = @ + 1]
       /\ units' = [units EXCEPT ![i] = Value]
  /\ UNCHANGED <<lock, sem_table_lock, procVars, pc, id, reg, scan, calls,
                 born>>

(* The test of active that the three system calls on an id begin with. *)
Enter(p, i, l) ==
  /\ pc[p] = "user"
  /\ active[i]
  /\ id' = [id EXCEPT ![p] = i]
  /\ born' = [born EXCEPT ![p] = gen[i]]
  /\ pc' = [pc EXCEPT ![p] = l]
  /\ UNCHANGED <<tableVars, procVars, reg, scan, opens, gen, units>>

sys_sem_wait(p, i) ==
  MayUse(i) /\ calls < MaxCalls /\ calls' = calls + 1 /\ Enter(p, i, "wait")
sys_sem_signal(p, i) ==
  MayUse(i) /\ calls < MaxCalls /\ calls' = calls + 1 /\ Enter(p, i, "signal")
sys_sem_close(p, i) ==
  MayClose(i) /\ Enter(p, i, "free") /\ UNCHANGED calls
-----------------------------------------------------------------------------
(* acquire(&sem->lock) and the load of count, in sem_wait and sem_signal. *)
Load(p, from, to) ==
  /\ pc[p] = from
  /\ lock[id[p]] = None
  /\ lock' = [lock EXCEPT ![id[p]] = p]
  /\ reg' = [reg EXCEPT ![p] = count[id[p]]]
  /\ Goto(p, to)
  /\ UNCHANGED <<active, count, sem_table_lock, procVars, scan, bounds, gen,
                 units>>

sem_wait_load(p) == Load(p, "wait", "wait_store")
sem_signal_load(p) == Load(p, "signal", "signal_store")

sem_wait(p) ==
  /\ pc[p] = "wait_store"
  /\ count' = [count EXCEPT ![id[p]] = reg[p] - 1]
  /\ IF reg[p] - 1 < 0
     THEN Goto(p, "sleep") /\ UNCHANGED <<lock, units>>
     ELSE /\ Return(p)
          /\ lock' = [lock EXCEPT ![id[p]] = None]
          /\ units' = [units EXCEPT ![id[p]] = @ - 1]
  /\ reg' = [reg EXCEPT ![p] = 0]
  /\ UNCHANGED <<active, sem_table_lock, procVars, scan, bounds, gen>>

(* sleep(sem, &sem->lock) *)
sleep(p) ==
  /\ pc[p] = "sleep"
  /\ lock' = [lock EXCEPT ![id[p]] = None]
  /\ state' = [state EXCEPT ![p] = "SLEEPING"]
  /\ chan' = [chan EXCEPT ![p] = id[p]]
  /\ Goto(p, "asleep")
  /\ UNCHANGED <<active, count, sem_table_lock, reg, scan, bounds, gen, units>>

(* sleep() has returned with sem->lock, and sem_wait releases it. *)
sem_wait_return(p) ==
  /\ pc[p] = "asleep"
  /\ state[p] = "RUNNABLE"
  /\ lock[id[p]] = None
  /\ chan' = [chan EXCEPT ![p] = None]
  /\ Return(p)
  /\ UNCHANGED <<tableVars, state, reg, scan, bounds, gen, units>>

Sleeper(q, i) == state[q] = "SLEEPING" /\ chan[q] = i

(* Whom wakeup_one(sem) wakes: the first sleeper of the process table. *)
WakesOne(q, i) == Sleeper(q, i) /\ \A r \in 1..q-1 : ~Sleeper(r, i)

sem_signal(p) ==
  LET i == id[p]
      woken == {q \in Procs : reg[p] + 1 <= 0 /\ WakesOne(q, i)}
      granted == {q \in woken : born[q] = gen[i]}
  IN /\ pc[p] = "signal_store"
     /\ count' = [count EXCEPT ![i] = reg[p] + 1]
     /\ state' = [q \in Procs |-> IF q \in woken THEN "RUNNABLE" ELSE state[q]]
     /\ units' = [units EXCEPT ![i] = @ + 1 - Cardinality(granted)]
     /\ lock' = [lock EXCEPT ![i] = None]
     /\ reg' = [reg EXCEPT ![p] = 0]
     /\ Return(p)
     /\ UNCHANGED <<active, sem_table_lock, chan, scan, bounds, gen>>
-----------------------------------------------------------------------------
(* sem_free: acquire(&sem_table_lock), then wakeup(&sem_table[id]). *)
sem_free(p) ==
  /\ pc[p] = "free"
  /\ sem_table_lock = None
  /\ sem_table_lock' = p
  /\ scan' = 1
  /\ Goto(p, "free_scan")
  /\ UNCHANGED <<active, count, lock, procVars, reg, bounds, gen, units>>

(* Mutant: sem_free calls wakeup_one. *)
wakeup_first(p) ==
  /\ pc[p] = "free_scan"
  /\ scan \in Procs
  /\ IF scan # p /\ Sleeper(scan, id[p])
     THEN state' = [state EXCEPT ![scan] = "RUNNABLE"] /\ scan' = NPROC + 1
     ELSE scan' = scan + 1 /\ UNCHANGED state
  /\ UNCHANGED <<tableVars, chan, pc, id, reg, bounds, history>>

(* One iteration of wakeup's loop over the process table. *)
wakeup(p) ==
  /\ pc[p] = "free_scan"
  /\ scan \in Procs
  /\ state' = IF scan # p /\ Sleeper(scan, id[p])
              THEN [state EXCEPT ![scan] = "RUNNABLE"]
              ELSE state
  /\ scan' = scan + 1
  /\ UNCHANGED <<tableVars, chan, pc, id, reg, bounds, history>>

sem_free_done(p) ==
  /\ pc[p] = "free_scan"
  /\ scan > NPROC
  /\ active' = [active EXCEPT ![id[p]] = FALSE]
  /\ sem_table_lock' = None
  /\ scan' = 1
  /\ Return(p)
  /\ UNCHANGED <<count, lock, procVars, reg, bounds, gen, units>>
-----------------------------------------------------------------------------
KernelStep(p) ==
  \/ sem_wait_load(p) \/ sem_wait(p) \/ sleep(p) \/ sem_wait_return(p)
  \/ sem_signal_load(p) \/ sem_signal(p)
  \/ sem_free(p) \/ wakeup(p) \/ sem_free_done(p)

Next ==
  \E p \in Procs :
    \/ KernelStep(p) \/ sem_alloc(p)
    \/ \E i \in Ids : sys_sem_wait(p, i) \/ sys_sem_signal(p, i)
                      \/ sys_sem_close(p, i)

Spec == Init /\ [][Next]_vars
FairSpec == Spec /\ \A p \in Procs : WF_vars(KernelStep(p))
-----------------------------------------------------------------------------
(* proc.c:55: sem_alloc sets the number of units.  The count of an open    *)
(* semaphore is the units put in since this sem_open minus those handed    *)
(* out and minus its own waiters; calls on an earlier semaphore of the     *)
(* same slot have left no trace in it.                                     *)
CountIsCurrent ==
  \A i \in Ids :
    active[i] /\ (\A p \in Procs : ~(CallOn(p, i) /\ Closing(p)))
      => count[i] = units[i]
                    - Cardinality({p \in Procs :
                         /\ id[p] = i /\ born[p] = gen[i]
                         /\ pc[p] = "sleep" \/ Sleeper(p, i)})

(* proc.c:72: sem_free wakes everybody.  A process that sleeps on a        *)
(* semaphore which is then closed returns: no sem_signal could reach it.   *)
ClosedReturns ==
  \A p \in Procs : pc[p] = "asleep" /\ ~active[id[p]] ~> pc[p] = "user"
=============================================================================
