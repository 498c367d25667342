------------------------- MODULE AbstractSemaphore -------------------------
(***************************************************************************)
(* What the kernel semaphore promises: the counting semaphore of Dijkstra  *)
(* with atomic P and V.  A caller of P takes a free unit or waits, and     *)
(* each call of V frees one unit or hands it straight to one waiter when   *)
(* there is one.  The order in which waiters are served is left open:      *)
(* wakeup_one() takes the first sleeper of the process table.              *)
(*                                                                         *)
(* A waiter that is killed stops waiting, if it has fallen asleep already, *)
(* and nobody else stops without a V.  The unit it asked for stays         *)
(* owed to it: the next V that finds nobody waiting pays that debt instead *)
(* of freeing a unit.                                                      *)
(***************************************************************************)
EXTENDS Integers

CONSTANTS Procs,      \* the callers
          InitValue   \* the value given to sem_open

VARIABLES avail,      \* units nobody has taken
          waiting,    \* callers of P that have no unit yet
          granted,    \* callers of P on their way out: they own a unit, or were killed
          signalling, \* callers of V whose unit has not been handed over
          abandoned,  \* units owed to waiters that were killed
          killed      \* who has been killed

absVars == <<avail, waiting, granted, signalling, abandoned, killed>>

AbsInit ==
  /\ avail = InitValue
  /\ waiting = {}
  /\ granted = {}
  /\ signalling = {}
  /\ abandoned = 0
  /\ killed = [p \in Procs |-> FALSE]

P(p) ==
  /\ p \notin waiting \cup granted
  /\ UNCHANGED <<signalling, abandoned, killed>>
  /\ \/ /\ avail > 0
        /\ avail' = avail - 1
        /\ granted' = granted \cup {p}
        /\ UNCHANGED waiting
     \/ /\ avail = 0
        /\ waiting' = waiting \cup {p}
        /\ UNCHANGED <<avail, granted>>

CallV(p) ==
  /\ p \notin signalling
  /\ signalling' = signalling \cup {p}
  /\ UNCHANGED <<avail, waiting, granted, abandoned, killed>>

V(p) ==
  /\ p \in signalling
  /\ signalling' = signalling \ {p}
  /\ UNCHANGED killed
  /\ \/ /\ waiting = {}
        /\ IF abandoned = 0 THEN avail' = avail + 1 /\ UNCHANGED abandoned
                             ELSE abandoned' = abandoned - 1 /\ UNCHANGED avail
        /\ UNCHANGED <<waiting, granted>>
     \/ \E q \in waiting :
           /\ waiting' = waiting \ {q}
           /\ granted' = granted \cup {q}
           /\ UNCHANGED <<avail, abandoned>>

Return(p) ==
  /\ p \in granted
  /\ granted' = granted \ {p}
  /\ UNCHANGED <<avail, waiting, signalling, abandoned, killed>>

Kill(p) ==
  /\ ~killed[p]
  /\ killed' = [killed EXCEPT ![p] = TRUE]
  /\ \/ /\ p \in waiting
        /\ waiting' = waiting \ {p}
        /\ granted' = granted \cup {p}
        /\ abandoned' = abandoned + 1
     \/ UNCHANGED <<waiting, granted, abandoned>>
  /\ UNCHANGED <<avail, signalling>>

AbsNext == \E p \in Procs : P(p) \/ Return(p) \/ CallV(p) \/ V(p) \/ Kill(p)

AbsSpec == AbsInit /\ [][AbsNext]_absVars
=============================================================================
