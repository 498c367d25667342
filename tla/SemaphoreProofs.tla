-------------------------- MODULE SemaphoreProofs --------------------------
(***************************************************************************)
(* Theorems about Semaphore, for every number of processes, every initial  *)
(* value, every set of killable processes and every number of calls.       *)
(***************************************************************************)
EXTENDS Semaphore, FiniteSetTheorems, TLAPS

(* Subsets of the process table are finite, and their sizes are naturals. *)
LEMMA ProcsFinite ==
  /\ IsFiniteSet(Procs)
  /\ \A S \in SUBSET Procs : IsFiniteSet(S) /\ Cardinality(S) \in Nat
<1>1. IsFiniteSet(Procs)
  BY SemAssumption, FS_Interval DEF Procs
<1>2. QED
  BY <1>1, FS_Subset, FS_CardinalityType

(* The size of a set of processes after one joins or leaves it. *)
LEMMA CardinalityStep ==
  ASSUME NEW S \in SUBSET Procs, NEW p \in Procs
  PROVE  /\ p \notin S => Cardinality(S \cup {p}) = Cardinality(S) + 1
         /\ p \in S => Cardinality(S \ {p}) = Cardinality(S) - 1
BY ProcsFinite, FS_AddElement, FS_RemoveElement

(* Every variable of the semaphore keeps its type. *)
THEOREM TypeCorrect == Spec => []TypeOK
<1> USE SemAssumption DEF Procs, NoProc, Locations, TypeOK
<1>1. Init => TypeOK
  BY DEF Init
<1>2. TypeOK /\ [Next]_vars => TypeOK'
  <2> SUFFICES ASSUME TypeOK, [Next]_vars PROVE TypeOK'
    OBVIOUS
  <2> USE DEF Goto, semVars, procVars
  <2>1. ASSUME NEW p \in Procs, sys_sem_wait(p) \/ sys_sem_signal(p)
        PROVE  TypeOK'
    BY <2>1 DEF sys_sem_wait, sys_sem_signal, Call
  <2>2. ASSUME NEW p \in Procs, sem_wait(p) PROVE TypeOK'
    BY <2>2 DEF sem_wait
  <2>3. ASSUME NEW p \in Procs, sleep(p) PROVE TypeOK'
    BY <2>3 DEF sleep
  <2>4. ASSUME NEW p \in Procs, sched(p) PROVE TypeOK'
    BY <2>4 DEF sched
  <2>5. ASSUME NEW p \in Procs, sched_return(p) PROVE TypeOK'
    BY <2>5 DEF sched_return
  <2>6. ASSUME NEW p \in Procs, sleep_reacquire(p) PROVE TypeOK'
    BY <2>6 DEF sleep_reacquire
  <2>7. ASSUME NEW p \in Procs, sem_wait_return(p) PROVE TypeOK'
    BY <2>7 DEF sem_wait_return
  <2>8. ASSUME NEW p \in Procs, sem_signal(p) PROVE TypeOK'
    BY <2>8 DEF sem_signal
  <2>9. ASSUME NEW p \in Procs, wakeup_one(p) PROVE TypeOK'
    <3>1. CASE scan > NPROC
      BY <2>9, <3>1 DEF wakeup_one
    <3>2. CASE scan \in Procs /\ (scan = p \/ ~Sleeper(scan))
      BY <2>9, <3>2 DEF wakeup_one
    <3>3. CASE scan \in Procs \ {p} /\ Sleeper(scan)
      BY <2>9, <3>3 DEF wakeup_one
    <3>4. QED
      BY <3>1, <3>2, <3>3
  <2>10. ASSUME NEW p \in Procs, sem_signal_return(p) PROVE TypeOK'
    BY <2>10 DEF sem_signal_return
  <2>11. ASSUME NEW p \in Procs, kkill(p) PROVE TypeOK'
    BY <2>11 DEF kkill
  <2>12. ASSUME NEW p \in Procs, usertrap(p) PROVE TypeOK'
    BY <2>12 DEF usertrap
  <2>13. CASE UNCHANGED vars
    BY <2>13 DEF vars
  <2>14. QED
    BY <2>1, <2>2, <2>3, <2>4, <2>5, <2>6, <2>7, <2>8, <2>9, <2>10, <2>11,
       <2>12, <2>13 DEF Next, KernelStep
<1>3. QED
  BY <1>1, <1>2, PTL DEF Spec

(* sem->lock is held by the one process between its acquire and release. *)
LEMMA LockStep == TypeOK /\ LockInv /\ [Next]_vars => LockInv'
<1> SUFFICES ASSUME TypeOK, LockInv, [Next]_vars PROVE LockInv'
  OBVIOUS
<1> USE SemAssumption DEF Procs, NoProc, Locations, TypeOK, LockInv, Goto,
        semVars, procVars
<1>1. LockInv'
  <2>1. ASSUME NEW p \in Procs, sys_sem_wait(p) PROVE LockInv'
    BY <2>1 DEF sys_sem_wait, Call
  <2>2. ASSUME NEW p \in Procs, sys_sem_signal(p) PROVE LockInv'
    BY <2>2 DEF sys_sem_signal, Call
  <2>3. ASSUME NEW p \in Procs, sem_wait(p) PROVE LockInv'
    BY <2>3 DEF sem_wait
  <2>4. ASSUME NEW p \in Procs, sleep(p) PROVE LockInv'
    BY <2>4 DEF sleep
  <2>5. ASSUME NEW p \in Procs, sched(p) PROVE LockInv'
    BY <2>5 DEF sched
  <2>6. ASSUME NEW p \in Procs, sched_return(p) PROVE LockInv'
    BY <2>6 DEF sched_return
  <2>7. ASSUME NEW p \in Procs, sleep_reacquire(p) PROVE LockInv'
    BY <2>7 DEF sleep_reacquire
  <2>8. ASSUME NEW p \in Procs, sem_wait_return(p) PROVE LockInv'
    BY <2>8 DEF sem_wait_return
  <2>9. ASSUME NEW p \in Procs, sem_signal(p) PROVE LockInv'
    BY <2>9 DEF sem_signal
  <2>10. ASSUME NEW p \in Procs, wakeup_one(p) PROVE LockInv'
    BY <2>10 DEF wakeup_one
  <2>11. ASSUME NEW p \in Procs, sem_signal_return(p) PROVE LockInv'
    BY <2>11 DEF sem_signal_return
  <2>12. ASSUME NEW p \in Procs, kkill(p) PROVE LockInv'
    BY <2>12 DEF kkill
  <2>13. ASSUME NEW p \in Procs, usertrap(p) PROVE LockInv'
    BY <2>13 DEF usertrap
  <2>14. CASE UNCHANGED vars
    BY <2>14 DEF vars
  <2>15. QED
    BY <2>1, <2>2, <2>3, <2>4, <2>5, <2>6, <2>7, <2>8, <2>9, <2>10, <2>11, <2>12, <2>13, <2>14 DEF Next, KernelStep
<1>2. QED
  BY <1>1

(* Sleepers are inside sleep(), and the scan of wakeup_one skips nobody. *)
LEMMA SleepStep == TypeOK /\ LockInv /\ SleepInv /\ [Next]_vars => SleepInv'
<1> SUFFICES ASSUME TypeOK, LockInv, SleepInv, [Next]_vars PROVE SleepInv'
  OBVIOUS
<1> USE SemAssumption DEF Procs, NoProc, Locations, TypeOK, LockInv, SleepInv,
        Waiting, Goto, semVars, procVars
<1>1. SleepInv'
  <2>1. ASSUME NEW p \in Procs, sys_sem_wait(p) PROVE SleepInv'
    BY <2>1 DEF sys_sem_wait, Call
  <2>2. ASSUME NEW p \in Procs, sys_sem_signal(p) PROVE SleepInv'
    BY <2>2 DEF sys_sem_signal, Call
  <2>3. ASSUME NEW p \in Procs, sem_wait(p) PROVE SleepInv'
    BY <2>3 DEF sem_wait
  <2>4. ASSUME NEW p \in Procs, sleep(p) PROVE SleepInv'
    BY <2>4 DEF sleep
  <2>5. ASSUME NEW p \in Procs, sched(p) PROVE SleepInv'
    BY <2>5 DEF sched
  <2>6. ASSUME NEW p \in Procs, sched_return(p) PROVE SleepInv'
    BY <2>6 DEF sched_return
  <2>7. ASSUME NEW p \in Procs, sleep_reacquire(p) PROVE SleepInv'
    BY <2>7 DEF sleep_reacquire
  <2>8. ASSUME NEW p \in Procs, sem_wait_return(p) PROVE SleepInv'
    BY <2>8 DEF sem_wait_return
  <2>9. ASSUME NEW p \in Procs, sem_signal(p) PROVE SleepInv'
    BY <2>9 DEF sem_signal
  <2>10. ASSUME NEW p \in Procs, wakeup_one(p) PROVE SleepInv'
    <3>1. CASE scan > NPROC
      BY <2>10, <3>1 DEF wakeup_one
    <3>2. CASE scan \in Procs /\ (scan = p \/ ~Sleeper(scan))
      <4>1. scan \notin Waiting
        BY <2>10, <3>2 DEF wakeup_one, ProcLocked, Sleeper
      <4>2. UNCHANGED <<state, chan, pc>> /\ scan' = scan + 1
        BY <2>10, <3>2 DEF wakeup_one
      <4>3. QED
        BY <4>1, <4>2
    <3>3. CASE scan \in Procs \ {p} /\ Sleeper(scan)
      BY <2>10, <3>3 DEF wakeup_one
    <3>4. QED
      BY <3>1, <3>2, <3>3
  <2>11. ASSUME NEW p \in Procs, sem_signal_return(p) PROVE SleepInv'
    BY <2>11 DEF sem_signal_return
  <2>12. ASSUME NEW p \in Procs, kkill(p) PROVE SleepInv'
    BY <2>12 DEF kkill
  <2>13. ASSUME NEW p \in Procs, usertrap(p) PROVE SleepInv'
    BY <2>13 DEF usertrap
  <2>14. CASE UNCHANGED vars
    BY <2>14 DEF vars
  <2>15. QED
    BY <2>1, <2>2, <2>3, <2>4, <2>5, <2>6, <2>7, <2>8, <2>9, <2>10, <2>11, <2>12, <2>13, <2>14 DEF Next, KernelStep
<1>2. QED
  BY <1>1

(* The sets the counting arguments are about, and their sizes. *)
LEMMA SetSizes ==
  /\ Waiting \in SUBSET Procs /\ Cardinality(Waiting) \in Nat
  /\ Granted \in SUBSET Procs /\ Cardinality(Granted) \in Nat
  /\ GrantedLive \in SUBSET Procs /\ Cardinality(GrantedLive) \in Nat
  /\ Pending \in {0, 1}
BY ProcsFinite DEF Waiting, Granted, GrantedLive, Pending

(* Only the holder of sem->lock can owe a wakeup. *)
LEMMA PendingHolder ==
  ASSUME TypeOK, LockInv
  PROVE  /\ lock = NoProc => Pending = 0
         /\ \A p \in Procs : lock = p => Pending = IF pc[p] = "wakeup_one"
                                                 THEN 1 ELSE 0
BY SemAssumption DEF Pending, LockInv, NoProc, Procs, TypeOK

(* The positive part of a number is a natural. *)
LEMMA PosType ==
  ASSUME NEW n \in Int
  PROVE  Pos(n) \in Nat /\ Pos(-n) \in Nat
BY DEF Pos

(* sem_wait puts its caller among the waiters or among the granted. *)
LEMMA WaitCount ==
  ASSUME SemInv, NEW p \in Procs, sem_wait(p)
  PROVE  (WaitersAreDebt /\ UnitConservation /\ BalanceInv)'
<1> USE SemAssumption DEF SemInv, TypeOK
<1>1. /\ pc[p] = "wait_acquire" /\ lock = NoProc /\ lock' = p
      /\ count' = count - 1
      /\ pc' = [pc EXCEPT ![p] = IF count' < 0 THEN "sleep" ELSE "wait_release"]
      /\ UNCHANGED <<state, chan, killed, balance>>
  BY DEF sem_wait, Goto, procVars
<1>2. Pending = 0 /\ Pending' = 0
  BY <1>1 DEF Pending, LockInv, Procs, NoProc
<1>3. p \notin Waiting /\ p \notin Granted /\ p \notin GrantedLive
  BY <1>1 DEF Waiting, Granted, GrantedLive
<1>4. CASE count' < 0
  <2>1. Waiting' = Waiting \cup {p} /\ Granted' = Granted
        /\ GrantedLive' = GrantedLive
    BY <1>1, <1>4 DEF Waiting, Granted, GrantedLive
  <2>2. Cardinality(Waiting') = Cardinality(Waiting) + 1
    BY <1>3, <2>1, CardinalityStep, SetSizes
  <2>3. QED
    BY <1>1, <1>2, <1>4, <2>1, <2>2, SetSizes
    DEF WaitersAreDebt, UnitConservation, BalanceInv, NobodyKilled, Pos
<1>5. CASE ~(count' < 0)
  <2>1. Waiting' = Waiting /\ Granted' = Granted \cup {p}
        /\ GrantedLive' = IF killed[p] THEN GrantedLive ELSE GrantedLive \cup {p}
    BY <1>1, <1>5 DEF Waiting, Granted, GrantedLive
  <2>2. /\ Cardinality(Granted') = Cardinality(Granted) + 1
        /\ Cardinality(GrantedLive') \in
             {Cardinality(GrantedLive), Cardinality(GrantedLive) + 1}
    BY <1>3, <2>1, CardinalityStep, SetSizes
  <2>3. QED
    BY <1>1, <1>2, <1>5, <2>1, <2>2, SetSizes
    DEF WaitersAreDebt, UnitConservation, BalanceInv, NobodyKilled, Pos
<1>6. QED
  BY <1>4, <1>5

(* sem_wait_return: the caller leaves the granted, with its unit unless it *)
(* was killed.                                                             *)
LEMMA WaitReturnCount ==
  ASSUME SemInv, NEW p \in Procs, sem_wait_return(p)
  PROVE  (WaitersAreDebt /\ UnitConservation /\ BalanceInv)'
<1> USE SemAssumption DEF SemInv, TypeOK
<1>1. /\ pc[p] = "wait_release" /\ UNCHANGED <<state, chan, killed, count>>
      /\ pc' = [pc EXCEPT ![p] = IF killed[p] THEN "exited" ELSE "user"]
      /\ balance' = IF killed[p] THEN balance ELSE balance - 1
  BY DEF sem_wait_return, Goto, procVars
<1>2. Pending = 0 /\ Pending' = 0
  BY <1>1 DEF Pending, LockInv, Procs, NoProc
<1>3. /\ Waiting' = Waiting
      /\ p \in Granted /\ Granted' = Granted \ {p}
      /\ p \in GrantedLive <=> ~killed[p]
      /\ GrantedLive' = GrantedLive \ {p}
  BY <1>1 DEF Waiting, Granted, GrantedLive
<1>4. Cardinality(Granted') = Cardinality(Granted) - 1
  BY <1>3, CardinalityStep, SetSizes
<1>5. Cardinality(GrantedLive') = IF killed[p] THEN Cardinality(GrantedLive)
                                  ELSE Cardinality(GrantedLive) - 1
  <2>1. killed[p] => GrantedLive' = GrantedLive
    BY <1>3
  <2>2. QED
    BY <1>3, <2>1, CardinalityStep, SetSizes
<1>6. QED
  BY <1>1, <1>2, <1>3, <1>4, <1>5, SetSizes
  DEF WaitersAreDebt, UnitConservation, BalanceInv, NobodyKilled, Pos

(* sem_signal: the new unit is free, or owed to a waiter. *)
LEMMA SignalCount ==
  ASSUME SemInv, NEW p \in Procs, sem_signal(p)
  PROVE  (WaitersAreDebt /\ UnitConservation /\ BalanceInv)'
<1> USE SemAssumption DEF SemInv, TypeOK
<1>1. /\ pc[p] = "signal_acquire" /\ lock = NoProc
      /\ count' = count + 1 /\ balance' = balance + 1
      /\ pc' = [pc EXCEPT ![p] = IF count' <= 0 THEN "wakeup_one"
                                 ELSE "signal_release"]
      /\ UNCHANGED <<state, chan, killed>>
  BY DEF sem_signal, Goto, procVars
<1>2. Pending = 0
  BY <1>1, PendingHolder
<1>3. Pending' = IF count' <= 0 THEN 1 ELSE 0
  BY <1>1, <1>2 DEF Pending
<1>4. Waiting' = Waiting /\ Granted' = Granted /\ GrantedLive' = GrantedLive
  BY <1>1 DEF Waiting, Granted, GrantedLive
<1>5. QED
  BY <1>1, <1>2, <1>3, <1>4, SetSizes
  DEF WaitersAreDebt, UnitConservation, BalanceInv, NobodyKilled, Pos

(* wakeup_one: the process found gets the unit that was owed, and while    *)
(* nobody is killed the scan does find one.                                *)
LEMMA WakeupCount ==
  ASSUME SemInv, NEW p \in Procs, wakeup_one(p)
  PROVE  (WaitersAreDebt /\ UnitConservation /\ BalanceInv)'
<1> USE SemAssumption DEF SemInv, TypeOK
<1>1. /\ pc[p] = "wakeup_one" /\ Pending = 1 /\ lock = p
      /\ UNCHANGED <<count, chan, killed, balance>>
  BY PendingHolder DEF wakeup_one, semVars, LockInv
<1>2. CASE scan > NPROC
  <2>1. pc' = [pc EXCEPT ![p] = "signal_release"] /\ UNCHANGED state
    BY <1>2 DEF wakeup_one, Goto, Procs
  <2>2. Waiting' = Waiting /\ Granted' = Granted /\ GrantedLive' = GrantedLive
    BY <1>1, <2>1 DEF Waiting, Granted, GrantedLive
  <2>3. Waiting = {}
    BY <1>1, <1>2 DEF SleepInv, Waiting, Procs
  <2>4. Cardinality(Waiting) = 0
    BY <2>3, FS_EmptySet
  <2>5. ~NobodyKilled
    BY <1>1, <2>4, SetSizes DEF WaitersAreDebt, Pos
  <2>6. Pending' \in {0, 1}
    BY DEF Pending
  <2>7. WaitersAreDebt'
    <3>1. ~NobodyKilled' /\ Cardinality(Waiting') = 0
      BY <1>1, <2>2, <2>4, <2>5 DEF NobodyKilled
    <3>0. count' \in Int
      BY <1>1
    <3>4. Pos(-count') \in Nat
      BY <3>0, PosType
    <3>2. Pos(-count') + Pending' >= 0
      BY <2>6, <3>4
    <3>3. QED
      BY <3>1, <3>2 DEF WaitersAreDebt
  <2>8. QED
    BY <1>1, <2>2, <2>5, <2>6, <2>7, SetSizes
    DEF UnitConservation, BalanceInv, NobodyKilled, Pos
<1>3. CASE scan \in Procs /\ (scan = p \/ ~Sleeper(scan))
  <2>1. UNCHANGED <<state, pc>>
    BY <1>3 DEF wakeup_one, Procs
  <2>2. /\ Waiting' = Waiting /\ Granted' = Granted
        /\ GrantedLive' = GrantedLive /\ Pending' = Pending
    BY <1>1, <2>1 DEF Waiting, Granted, GrantedLive, Pending
  <2>3. QED
    BY <1>1, <2>2 DEF WaitersAreDebt, UnitConservation, BalanceInv, NobodyKilled, Pos
<1>4. CASE scan \in Procs \ {p} /\ Sleeper(scan)
  <2>1. /\ state' = [state EXCEPT ![scan] = "RUNNABLE"]
        /\ pc' = [pc EXCEPT ![p] = "signal_release"]
    BY <1>4 DEF wakeup_one, Goto, Procs
  <2>2. pc[scan] = "asleep" /\ state[scan] = "SLEEPING"
    BY <1>4 DEF Sleeper, SleepInv
  <2>3. /\ scan \in Waiting /\ Waiting' = Waiting \ {scan}
        /\ scan \notin Granted /\ Granted' = Granted \cup {scan}
        /\ scan \notin GrantedLive
        /\ GrantedLive' = IF killed[scan] THEN GrantedLive
                          ELSE GrantedLive \cup {scan}
    BY <1>1, <1>4, <2>1, <2>2 DEF Waiting, Granted, GrantedLive
  <2>4. /\ Cardinality(Waiting') = Cardinality(Waiting) - 1
        /\ Cardinality(Granted') = Cardinality(Granted) + 1
        /\ Cardinality(GrantedLive') \in
             {Cardinality(GrantedLive), Cardinality(GrantedLive) + 1}
    BY <1>4, <2>3, CardinalityStep, SetSizes
  <2>5. Pending' = 0
    BY <1>1, <2>1 DEF Pending, LockInv, Procs
  <2>6. QED
    BY <1>1, <2>4, <2>5, SetSizes
    DEF WaitersAreDebt, UnitConservation, BalanceInv, NobodyKilled, Pos
<1>5. QED
  BY <1>2, <1>3, <1>4 DEF Procs

(* kkill: the victim has no claim on a unit any more. *)
LEMMA KillCount ==
  ASSUME SemInv, NEW p \in Procs, kkill(p)
  PROVE  (WaitersAreDebt /\ UnitConservation /\ BalanceInv)'
<1> USE SemAssumption DEF SemInv, TypeOK
<1>1. /\ killed' = [killed EXCEPT ![p] = TRUE]
      /\ state' = [state EXCEPT ![p] = "RUNNABLE"]
      /\ UNCHANGED <<count, pc, balance>>
  BY DEF kkill, semVars
<1>2. ~NobodyKilled' /\ Pending' = Pending
  BY <1>1 DEF NobodyKilled, Pending
<1>3. GrantedLive' = GrantedLive \ {p}
  BY <1>1 DEF Granted, GrantedLive
<1>4. Cardinality(GrantedLive') \in
        {Cardinality(GrantedLive), Cardinality(GrantedLive) - 1}
  <2>1. CASE p \in GrantedLive
    BY <1>3, <2>1, CardinalityStep, SetSizes
  <2>2. CASE p \notin GrantedLive
    <3>1. GrantedLive' = GrantedLive
      BY <1>3, <2>2
    <3>2. QED
      BY <3>1
  <2>3. QED
    BY <2>1, <2>2
<1>5. Cardinality(Waiting') <= Cardinality(Waiting)
  <2>1. Waiting' = Waiting \/ (p \in Waiting /\ Waiting' = Waiting \ {p})
    BY <1>1 DEF Waiting
  <2>2. CASE Waiting' = Waiting
    BY <2>2, SetSizes
  <2>3. CASE p \in Waiting /\ Waiting' = Waiting \ {p}
    <3>1. Cardinality(Waiting') = Cardinality(Waiting) - 1
      BY <2>3, CardinalityStep, SetSizes
    <3>2. QED
      BY <3>1, SetSizes
  <2>4. QED
    BY <2>1, <2>2, <2>3
<1>6. Cardinality(Waiting') \in Nat
  BY ProcsFinite DEF Waiting
<1>7. QED
  BY <1>1, <1>2, <1>4, <1>5, <1>6, SetSizes DEF WaitersAreDebt, UnitConservation, BalanceInv, Pos

(* What a step leaves alone when it changes neither the counter nor who    *)
(* waits, is granted or is owed a wakeup.                                  *)
SameSets ==
  /\ Waiting' = Waiting /\ Granted' = Granted /\ GrantedLive' = GrantedLive
  /\ Pending' = Pending
  /\ UNCHANGED <<count, balance, killed>>

(* The steps of sleep(), the returns of sem_signal and the calls are such. *)
LEMMA QuietSteps ==
  ASSUME SemInv, [Next]_vars
  PROVE  \/ SameSets
         \/ \E p \in Procs : \/ sem_wait(p) \/ sem_wait_return(p)
                             \/ sem_signal(p) \/ wakeup_one(p) \/ kkill(p)
<1> USE DEF SemInv, TypeOK, Locations, SleepInv, SameSets, Waiting, Granted,
        GrantedLive, Pending, Goto, semVars, procVars
<1>1. ASSUME NEW p \in Procs, sys_sem_wait(p) PROVE SameSets
  BY <1>1 DEF sys_sem_wait, Call
<1>2. ASSUME NEW p \in Procs, sys_sem_signal(p) PROVE SameSets
  BY <1>2 DEF sys_sem_signal, Call
<1>3. ASSUME NEW p \in Procs, sleep(p) PROVE SameSets
  BY <1>3 DEF sleep
<1>4. ASSUME NEW p \in Procs, sched(p) PROVE SameSets
  BY <1>4 DEF sched
<1>5. ASSUME NEW p \in Procs, sched_return(p) PROVE SameSets
  BY <1>5 DEF sched_return
<1>6. ASSUME NEW p \in Procs, sleep_reacquire(p) PROVE SameSets
  BY <1>6 DEF sleep_reacquire
<1>7. ASSUME NEW p \in Procs, sem_signal_return(p) PROVE SameSets
  BY <1>7 DEF sem_signal_return
<1>8. ASSUME NEW p \in Procs, usertrap(p) PROVE SameSets
  BY <1>8 DEF usertrap
<1>9. CASE UNCHANGED vars
  BY <1>9 DEF vars
<1>10. QED
  BY <1>1, <1>2, <1>3, <1>4, <1>5, <1>6, <1>7, <1>8, <1>9 DEF Next, KernelStep

(* A step that leaves the sets alone leaves the counts alone. *)
LEMMA QuietCount ==
  ASSUME SemInv, SameSets
  PROVE  (WaitersAreDebt /\ UnitConservation /\ BalanceInv)'
BY DEF SemInv, SameSets, WaitersAreDebt, UnitConservation, BalanceInv,
       NobodyKilled, Pos

(* The inductive invariant of the semaphore holds in every state. *)
THEOREM SemInvariant == Spec => []SemInv
<1>1. Init => SemInv
  <2> SUFFICES ASSUME Init PROVE SemInv
    OBVIOUS
  <2> USE SemAssumption DEF Init
  <2>1. TypeOK
    BY DEF TypeOK, Procs, NoProc, Locations
  <2>2. LockInv
    BY DEF LockInv, NoProc, Procs
  <2>3. Waiting = {} /\ Granted = {} /\ GrantedLive = {} /\ Pending = 0
    BY DEF Waiting, Granted, GrantedLive, Pending
  <2>4. SleepInv
    BY DEF SleepInv
  <2>5. QED
    BY <2>1, <2>2, <2>3, <2>4, FS_EmptySet
    DEF SemInv, WaitersAreDebt, UnitConservation, BalanceInv, Pos
<1>2. TypeOK /\ TypeOK' /\ SemInv /\ [Next]_vars => SemInv'
  <2> SUFFICES ASSUME TypeOK', SemInv, [Next]_vars PROVE SemInv'
    OBVIOUS
  <2>1. (LockInv /\ SleepInv)'
    BY LockStep, SleepStep DEF SemInv
  <2>2. (WaitersAreDebt /\ UnitConservation /\ BalanceInv)'
    BY QuietSteps, QuietCount, WaitCount, WaitReturnCount, SignalCount,
       WakeupCount, KillCount
  <2>3. QED
    BY <2>1, <2>2 DEF SemInv
<1>3. QED
  BY <1>1, <1>2, TypeCorrect, PTL DEF Spec

(* While kkill has hit nobody, a negative count is the number of waiters. *)
THEOREM DebtIsWaiters == Spec => []WaitersAreDebt
BY SemInvariant, PTL DEF SemInv

(* While kkill has hit nobody, sem_wait and sem_signal neither lose nor    *)
(* make up units.                                                          *)
THEOREM UnitsConserved == Spec => []UnitConservation
BY SemInvariant, PTL DEF SemInv

(* User code never gets more units than were put in, kills or not. *)
THEOREM NoOverGrant == Spec => []NeverOverGranted
<1>1. SemInv => NeverOverGranted
  BY SetSizes DEF SemInv, BalanceInv, NeverOverGranted, TypeOK, Pos
<1>2. QED
  BY <1>1, SemInvariant, PTL

(* While a signal owes a wakeup there is a waiter, and wakeup_one has not  *)
(* passed it: the scan is inside the process table.                        *)
LEMMA WakeupInTable ==
  ASSUME SemInv
  PROVE  SignalFindsWaiter
<1> SUFFICES ASSUME NEW p \in Procs, NobodyKilled, pc[p] = "wakeup_one"
             PROVE  scan <= NPROC
  BY DEF SignalFindsWaiter
<1>1. Pending = 1
  BY DEF Pending
<1>2. Waiting # {}
  BY <1>1, SetSizes, FS_EmptySet DEF SemInv, WaitersAreDebt, Pos, TypeOK
<1>3. QED
  BY <1>2, SemAssumption DEF SemInv, SleepInv, Waiting, TypeOK, Procs

(* A signal that owes a wakeup never reaches the end of the process table  *)
(* without having found a sleeper, as long as kkill has hit nobody.        *)
THEOREM NoLostWakeup == Spec => []SignalFindsWaiter
<1>1. SemInv => SignalFindsWaiter
  BY WakeupInTable
<1>2. QED
  BY <1>1, SemInvariant, PTL
-----------------------------------------------------------------------------
(* Only the call of sem_signal and its two working steps change the set of *)
(* signallers whose unit is under way.                                     *)
LEMMA SignallingStep ==
  ASSUME SemInv, [Next]_vars
  PROVE  \/ Signalling' = Signalling
         \/ \E p \in Procs : sys_sem_signal(p) \/ sem_signal(p) \/ wakeup_one(p)
<1> USE DEF SemInv, TypeOK, Signalling, Goto
<1>1. ASSUME NEW p \in Procs, sys_sem_wait(p) PROVE Signalling' = Signalling
  BY <1>1 DEF sys_sem_wait, Call
<1>2. ASSUME NEW p \in Procs, sem_wait(p) \/ sem_wait_return(p)
      PROVE  Signalling' = Signalling
  BY <1>2 DEF sem_wait, sem_wait_return
<1>3. ASSUME NEW p \in Procs, sleep(p) \/ sched(p) \/ sched_return(p)
      PROVE  Signalling' = Signalling
  BY <1>3 DEF sleep, sched, sched_return
<1>4. ASSUME NEW p \in Procs, sleep_reacquire(p) PROVE Signalling' = Signalling
  BY <1>4 DEF sleep_reacquire
<1>5. ASSUME NEW p \in Procs, sem_signal_return(p) \/ usertrap(p)
      PROVE  Signalling' = Signalling
  BY <1>5 DEF sem_signal_return, usertrap
<1>6. ASSUME NEW p \in Procs, kkill(p) PROVE Signalling' = Signalling
  BY <1>6 DEF kkill
<1>7. CASE UNCHANGED vars
  BY <1>7 DEF vars
<1>8. QED
  BY <1>1, <1>2, <1>3, <1>4, <1>5, <1>6, <1>7 DEF Next, KernelStep

(* The units owed to killed waiters are a natural number. *)
LEMMA AbandonedType ==
  ASSUME SemInv
  PROVE  Abandoned \in Nat
BY SetSizes DEF SemInv, TypeOK, WaitersAreDebt, Abandoned, Pos

(* kkill takes a sleeper out of the waiters, and only marks anybody else.    *)
LEMMA KillStep ==
  ASSUME SemInv, NEW p \in Procs, kkill(p)
  PROVE  Dijkstra!Kill(p)
<1> USE SemAssumption DEF SemInv, TypeOK
<1>1. /\ state' = [state EXCEPT ![p] = "RUNNABLE"]
      /\ ~killed[p] /\ killed' = [killed EXCEPT ![p] = TRUE]
      /\ UNCHANGED <<count, pc>>
  BY DEF kkill, semVars
<1>2. Pending' = Pending /\ Signalling' = Signalling
  BY <1>1 DEF Pending, Signalling
<1>3. CASE pc[p] = "asleep" /\ state[p] = "SLEEPING"
  <2>1. /\ p \in Waiting /\ Waiting' = Waiting \ {p}
        /\ Granted' = Granted \cup {p}
    BY <1>1, <1>3 DEF Waiting, Granted
  <2>2. Cardinality(Waiting') = Cardinality(Waiting) - 1
    BY <2>1, CardinalityStep, SetSizes
  <2>3. Abandoned' = Abandoned + 1
    BY <1>1, <1>2, <2>2, SetSizes DEF Abandoned, Pos
  <2>4. QED
    BY <1>1, <1>2, <2>1, <2>3 DEF Dijkstra!Kill, Pos
<1>4. CASE ~(pc[p] = "asleep" /\ state[p] = "SLEEPING")
  <2>1. Waiting' = Waiting /\ Granted' = Granted
    BY <1>1, <1>4 DEF Waiting, Granted
  <2>2. QED
    BY <1>1, <1>2, <2>1 DEF Dijkstra!Kill, Abandoned, Pos
<1>5. QED
  BY <1>3, <1>4

(* Each step of the code is a step of the atomic semaphore or a stutter. *)
LEMMA DijkstraStep ==
  ASSUME SemInv, [Next]_vars
  PROVE  [Dijkstra!AbsNext]_(Dijkstra!absVars)
<1> USE SemAssumption DEF SemInv, TypeOK, Dijkstra!AbsNext, Dijkstra!absVars
<1>1. CASE SameSets /\ Signalling' = Signalling
  BY <1>1 DEF SameSets, Abandoned, Pos
<1>0. ASSUME NEW p \in Procs, sys_sem_signal(p), SameSets PROVE Dijkstra!CallV(p)
  <2>1. pc[p] = "user" /\ pc' = [pc EXCEPT ![p] = "signal_acquire"]
    BY <1>0 DEF sys_sem_signal, Call, Goto
  <2>2. p \notin Signalling /\ Signalling' = Signalling \cup {p}
    BY <2>1 DEF Signalling
  <2>3. QED
    BY <1>0, <2>2 DEF Dijkstra!CallV, SameSets, Abandoned, Pos
<1>2. ASSUME NEW p \in Procs, sem_wait(p) PROVE Dijkstra!P(p)
  <2>1. /\ pc[p] = "wait_acquire" /\ lock = NoProc /\ count' = count - 1
        /\ pc' = [pc EXCEPT ![p] = IF count' < 0 THEN "sleep"
                                   ELSE "wait_release"]
        /\ UNCHANGED <<state, chan, killed>>
    BY <1>2 DEF sem_wait, Goto, procVars
  <2>2. p \notin Waiting \cup Granted /\ Signalling' = Signalling
    BY <2>1 DEF Waiting, Granted, Signalling
  <2>0. Pending' = Pending
    BY <2>1 DEF Pending
  <2>3. CASE count' < 0
    <3>1. Waiting' = Waiting \cup {p} /\ Granted' = Granted
      BY <2>1, <2>3 DEF Waiting, Granted
    <3>2. Pos(count) = 0 /\ Pos(count') = 0 /\ Pos(-count') = Pos(-count) + 1
      BY <2>1, <2>3 DEF Pos
    <3>3. Cardinality(Waiting') = Cardinality(Waiting) + 1
      BY <2>2, <3>1, CardinalityStep, SetSizes
    <3>4. Abandoned' = Abandoned
      BY <2>0, <2>1, <3>2, <3>3, SetSizes DEF Abandoned, Pos
    <3>5. QED
      BY <2>1, <2>2, <3>1, <3>2, <3>4 DEF Dijkstra!P
  <2>4. CASE ~(count' < 0)
    <3>1. Waiting' = Waiting /\ Granted' = Granted \cup {p}
      BY <2>1, <2>4 DEF Waiting, Granted
    <3>2. Pos(count) > 0 /\ Pos(count') = Pos(count) - 1 /\ Pos(-count') = Pos(-count)
      BY <2>1, <2>4 DEF Pos
    <3>3. Abandoned' = Abandoned
      BY <2>0, <3>1, <3>2 DEF Abandoned
    <3>4. QED
      BY <2>1, <2>2, <3>1, <3>2, <3>3 DEF Dijkstra!P
  <2>5. QED
    BY <2>3, <2>4
<1>3. ASSUME NEW p \in Procs, sem_wait_return(p) PROVE Dijkstra!Return(p)
  <2>1. /\ pc[p] = "wait_release" /\ UNCHANGED <<state, chan, killed, count>>
        /\ pc' = [pc EXCEPT ![p] = IF killed[p] THEN "exited" ELSE "user"]
    BY <1>3 DEF sem_wait_return, Goto, procVars
  <2>2. /\ p \in Granted /\ Granted' = Granted \ {p}
        /\ Waiting' = Waiting /\ Signalling' = Signalling
    BY <2>1 DEF Waiting, Granted, Signalling
  <2>3. Pending' = Pending
    BY <2>1 DEF Pending
  <2>4. QED
    BY <2>1, <2>2, <2>3 DEF Dijkstra!Return, Abandoned, Pos
<1>4. ASSUME NEW p \in Procs, sem_signal(p)
      PROVE  [Dijkstra!V(p)]_(Dijkstra!absVars)
  <2>1. /\ pc[p] = "signal_acquire" /\ lock = NoProc /\ count' = count + 1
        /\ pc' = [pc EXCEPT ![p] = IF count' <= 0 THEN "wakeup_one"
                                   ELSE "signal_release"]
        /\ UNCHANGED <<state, chan, killed>>
    BY <1>4 DEF sem_signal, Goto, procVars
  <2>2. Waiting' = Waiting /\ Granted' = Granted
    BY <2>1 DEF Waiting, Granted
  <2>0. Pending = 0 /\ Pending' = IF count' <= 0 THEN 1 ELSE 0
    <3>1. Pending = 0
      BY <2>1, PendingHolder
    <3>2. QED
      BY <2>1, <3>1 DEF Pending
  <2>3. CASE count' <= 0
    <3>1. Pos(count) = 0 /\ Pos(count') = 0 /\ Pos(-count') = Pos(-count) - 1
      BY <2>1, <2>3 DEF Pos
    <3>2. Signalling' = Signalling
      BY <2>1, <2>3 DEF Signalling
    <3>3. Abandoned' = Abandoned
      BY <2>0, <2>1, <2>2, <2>3, <3>1, SetSizes DEF Abandoned, Pos
    <3>4. QED
      BY <2>1, <2>2, <3>1, <3>2, <3>3
  <2>4. CASE ~(count' <= 0)
    <3>1. Pos(-count) = 0 /\ Pos(-count') = 0
      BY <2>1, <2>4 DEF Pos
    <3>2. Cardinality(Waiting) = 0
      BY <2>0, <3>1, SetSizes DEF WaitersAreDebt
    <3>3. Waiting = {}
      BY <3>2, FS_EmptySet, ProcsFinite, SetSizes
    <3>0. Abandoned = 0 /\ Abandoned' = 0
      BY <2>0, <2>2, <2>4, <3>1, <3>2 DEF Abandoned
    <3>4. Pos(count') = Pos(count) + 1
      BY <2>1, <2>4 DEF Pos
    <3>5. p \in Signalling /\ Signalling' = Signalling \ {p}
      BY <2>1, <2>4 DEF Signalling
    <3>6. QED
      BY <2>1, <2>2, <3>0, <3>3, <3>4, <3>5 DEF Dijkstra!V
  <2>5. QED
    BY <2>3, <2>4
<1>5. ASSUME NEW p \in Procs, wakeup_one(p)
      PROVE  [Dijkstra!V(p)]_(Dijkstra!absVars)
  <2>1. pc[p] = "wakeup_one" /\ UNCHANGED <<count, chan, killed>>
    BY <1>5 DEF wakeup_one, semVars
  <2>0. Pending = 1
    BY <2>1 DEF Pending
  <2>2. CASE scan \in Procs /\ (scan = p \/ ~Sleeper(scan))
    <3>1. UNCHANGED <<state, pc>>
      BY <1>5, <2>2 DEF wakeup_one, Procs
    <3>2. /\ Waiting' = Waiting /\ Granted' = Granted /\ Signalling' = Signalling
          /\ Pending' = Pending
      BY <3>1 DEF Waiting, Granted, Signalling, Pending
    <3>3. QED
      BY <2>1, <3>2 DEF Abandoned, Pos
  <2>3. CASE scan \in Procs \ {p} /\ Sleeper(scan)
    <3>1. /\ state' = [state EXCEPT ![scan] = "RUNNABLE"]
          /\ pc' = [pc EXCEPT ![p] = "signal_release"]
      BY <1>5, <2>3 DEF wakeup_one, Goto, Procs
    <3>2. pc[scan] = "asleep" /\ state[scan] = "SLEEPING"
      BY <2>3 DEF Sleeper, SleepInv
    <3>3. /\ scan \in Waiting /\ Waiting' = Waiting \ {scan}
          /\ Granted' = Granted \cup {scan}
      BY <2>1, <2>3, <3>1, <3>2 DEF Waiting, Granted
    <3>4. p \in Signalling /\ Signalling' = Signalling \ {p}
      BY <2>1, <3>1 DEF Signalling
    <3>5. Pending' = 0
      BY <2>1, <3>1 DEF Pending, LockInv, Procs
    <3>6. Cardinality(Waiting') = Cardinality(Waiting) - 1
      BY <2>3, <3>3, CardinalityStep, SetSizes
    <3>7. Abandoned' = Abandoned
      BY <2>0, <2>1, <3>5, <3>6, SetSizes DEF Abandoned, Pos
    <3>8. QED
      BY <2>1, <3>3, <3>4, <3>7 DEF Dijkstra!V, Pos
  <2>4. CASE scan > NPROC
    <3>1. pc' = [pc EXCEPT ![p] = "signal_release"] /\ UNCHANGED state
      BY <1>5, <2>4 DEF wakeup_one, Goto, Procs
    <3>2. Waiting' = Waiting /\ Granted' = Granted
      BY <2>1, <3>1 DEF Waiting, Granted
    <3>3. p \in Signalling /\ Signalling' = Signalling \ {p}
      BY <2>1, <3>1 DEF Signalling
    <3>4. Waiting = {}
      BY <2>1, <2>4 DEF SleepInv, Waiting, Procs
    <3>5. Pending' = 0
      BY <2>1, <3>1 DEF Pending, LockInv, Procs
    <3>6. Cardinality(Waiting) = 0
      BY <3>4, FS_EmptySet
    <3>7. Abandoned > 0 /\ Abandoned' = Abandoned - 1
      BY <2>0, <2>1, <3>2, <3>5, <3>6 DEF Abandoned, Pos
    <3>8. Abandoned # 0
      BY <3>7, AbandonedType
    <3>9. QED
      BY <2>1, <3>2, <3>3, <3>4, <3>7, <3>8 DEF Dijkstra!V, Pos
  <2>5. QED
    BY <2>2, <2>3, <2>4 DEF Procs
<1>6. ASSUME NEW p \in Procs, kkill(p) PROVE Dijkstra!Kill(p)
  BY <1>6, KillStep
<1>7. QED
  BY <1>0, <1>1, <1>2, <1>3, <1>4, <1>5, <1>6, QuietSteps, SignallingStep

(* sem_wait and sem_signal, with sleep, wakeup_one and kkill inside,       *)
(* implement the atomic semaphore with debts to killed waiters.            *)
THEOREM SemaphoreRefinement == Spec => ImplementsDijkstra
<1>1. Init => Dijkstra!AbsInit
  <2> SUFFICES ASSUME Init PROVE Dijkstra!AbsInit
    OBVIOUS
  <2>1. Waiting = {} /\ Granted = {} /\ Signalling = {} /\ Pending = 0
    BY DEF Init, Waiting, Granted, Signalling, Pending
  <2>2. QED
    BY <2>1, SemAssumption, FS_EmptySet DEF Init, Dijkstra!AbsInit, Abandoned, Pos
<1>2. SemInv /\ [Next]_vars => [Dijkstra!AbsNext]_(Dijkstra!absVars)
  BY DijkstraStep
<1>3. QED
  BY <1>1, <1>2, SemInvariant, PTL
  DEF Spec, ImplementsDijkstra, Dijkstra!AbsSpec
=============================================================================
