----------------------------- MODULE SemEvents -----------------------------
(***************************************************************************)
(* The event log of the semaphores and the chart drawn from it             *)
(* (sem_record_event and sem_gantt in semaphore.c).  Callers read ticks    *)
(* under the lock of their semaphore, before they take sem_event_lock.     *)
(* sem_gantt is the operator Cell: the character of a row and a column.    *)
(***************************************************************************)
EXTENDS Integers, Sequences, FiniteSets, SequencesExt

CONSTANTS
  Sems, Pids,
  SEM_EVENT_LOG_SIZE, MAX_GANTT_EVENTS, MAX_GANTT_PIDS,
  COLUMNS,       \* 80: the width of the chart
  Nested,        \* whether a process may take a second unit of a semaphore
  MaxEvents, MaxTicks  \* bounds: events and clock ticks in one behaviour

ASSUME SemEventsAssumption ==
  /\ SEM_EVENT_LOG_SIZE \in Nat \ {0} /\ MAX_GANTT_EVENTS \in Nat \ {0}
  /\ MAX_GANTT_PIDS \in Nat \ {0} /\ COLUMNS \in Nat \ {0}
  /\ Nested \in BOOLEAN /\ MaxEvents \in Nat /\ MaxTicks \in Nat

NoEvent == [sem |-> "none"]

VARIABLES
  sem_event_log, sem_event_index, ticks,
  pending,   \* per semaphore: the event its holder is about to record
  hist       \* history: every event, in the order of recording

vars == <<sem_event_log, sem_event_index, ticks, pending, hist>>

(* sem_event_log_init *)
Init ==
  /\ sem_event_log = [k \in 0..SEM_EVENT_LOG_SIZE-1 |-> NoEvent]
  /\ sem_event_index = 0
  /\ ticks = 0
  /\ pending = [s \in Sems |-> NoEvent]
  /\ hist = << >>

(* clockintr *)
clockintr ==
  /\ ticks < MaxTicks
  /\ ticks' = ticks + 1
  /\ UNCHANGED <<sem_event_log, sem_event_index, pending, hist>>

Of(s, p) == SelectSeq(hist, LAMBDA e : e.sem = s /\ e.pid = p)
Count(evs, ty) == Cardinality({k \in DOMAIN evs : evs[k].type = ty})
Waits(s, p) == Of(s, p) # << >> /\ Last(Of(s, p)).type = "WAIT"
Holds(s, p) == Count(Of(s, p), "ACQUIRE") - Count(Of(s, p), "RELEASE")

(* The events a process may cause next: sem_wait records ACQUIRE, or WAIT  *)
(* and later ACQUIRE; sem_signal records RELEASE.                          *)
Possible(s, p) ==
  IF Waits(s, p) THEN {"ACQUIRE"}
  ELSE (IF Holds(s, p) > 0 THEN {"RELEASE"} ELSE {})
       \cup (IF Holds(s, p) = 0 \/ Nested THEN {"WAIT", "ACQUIRE"} ELSE {})

(* sem_wait or sem_signal, with sem->lock held, evaluates the arguments. *)
CallRecord(s, p, ty) ==
  /\ pending[s] = NoEvent
  /\ Len(hist) < MaxEvents
  /\ ty \in Possible(s, p)
  /\ pending' = [pending EXCEPT ![s] = [sem |-> s, pid |-> p, ticks |-> ticks,
                                        type |-> ty]]
  /\ UNCHANGED <<sem_event_log, sem_event_index, ticks, hist>>

sem_record_event(s) ==
  /\ pending[s] # NoEvent
  /\ sem_event_log' = [sem_event_log EXCEPT
                         ![sem_event_index % SEM_EVENT_LOG_SIZE] = pending[s]]
  /\ sem_event_index' = sem_event_index + 1
  /\ pending' = [pending EXCEPT ![s] = NoEvent]
  /\ hist' = Append(hist, pending[s])
  /\ UNCHANGED ticks

Next ==
  \/ clockintr
  \/ \E s \in Sems : \/ sem_record_event(s)
                     \/ \E p \in Pids, ty \in {"WAIT", "ACQUIRE", "RELEASE"} :
                          CallRecord(s, p, ty)

Spec == Init /\ [][Next]_vars
-----------------------------------------------------------------------------
(* sem_gantt: the ring from the oldest event on, then the events of s. *)
total == IF sem_event_index > SEM_EVENT_LOG_SIZE THEN SEM_EVENT_LOG_SIZE
         ELSE sem_event_index
(* Mutant: the chart begins at slot 0 of the ring. *)
start_zero == 0

start == IF sem_event_index > SEM_EVENT_LOG_SIZE
         THEN sem_event_index - SEM_EVENT_LOG_SIZE ELSE 0
Ring == [k \in 1..total |-> sem_event_log[(start + k - 1) % SEM_EVENT_LOG_SIZE]]

FirstOf(seq, n) == SubSeq(seq, 1, IF Len(seq) < n THEN Len(seq) ELSE n)

events(s) ==
  FirstOf(SelectSeq(Ring, LAMBDA e : e.sem = s), MAX_GANTT_EVENTS)

(* The rows: the pids in the order of their first events. *)
NewPid(ev, k) == \A j \in 1..k-1 : ev[j].pid # ev[k].pid
pids(ev) ==
  LET firsts == SelectSeq([k \in DOMAIN ev |-> k], LAMBDA k : NewPid(ev, k))
  IN FirstOf([j \in DOMAIN firsts |-> ev[firsts[j]].pid], MAX_GANTT_PIDS)

TicksOf(ev) == {ev[k].ticks : k \in DOMAIN ev}
t_min(ev) == Min(TicksOf(ev))
t_max(ev) == Max(TicksOf(ev))
t_range(ev) == t_max(ev) - t_min(ev) + 1
char_width(ev) == IF t_range(ev) <= COLUMNS THEN t_range(ev) ELSE COLUMNS
tick_per_char(ev) ==
  IF t_range(ev) <= COLUMNS THEN 1
  ELSE (t_range(ev) + COLUMNS - 1) \div COLUMNS
t_start(ev, c) == t_min(ev) + c * tick_per_char(ev)
t_end(ev, c) == Min({t_start(ev, c) + tick_per_char(ev) - 1, t_max(ev)})

(* Mutant: any process's event ends the interval. *)
NextTick_anybody(ev, k, ty) ==
  LET later == {j \in k+1..Len(ev) : ev[j].type = ty}
  IN IF later = {} THEN t_max(ev) + 1 ELSE ev[Min(later)].ticks

(* The tick of the process's next event of type ty after event k. *)
NextTick(ev, k, ty) ==
  LET later == {j \in k+1..Len(ev) : ev[j].pid = ev[k].pid /\ ev[j].type = ty}
  IN IF later = {} THEN t_max(ev) + 1 ELSE ev[Min(later)].ticks

(* Event k has type from and column c meets its interval, which lasts to   *)
(* the next event of type to.                                              *)
Meets(ev, k, c, from, to) ==
  LET a == ev[k].ticks
      b == NextTick(ev, k, to)
  IN /\ ev[k].type = from
     /\ \/ t_start(ev, c) < b /\ t_end(ev, c) >= a
        \/ a = b /\ t_start(ev, c) = a /\ t_end(ev, c) = a

has_holding(ev, p, c) ==
  \E k \in DOMAIN ev : ev[k].pid = p /\ Meets(ev, k, c, "ACQUIRE", "RELEASE")
has_waiting(ev, p, c) ==
  \E k \in DOMAIN ev : ev[k].pid = p /\ Meets(ev, k, c, "WAIT", "ACQUIRE")

Cell(ev, p, c) == CASE has_holding(ev, p, c) -> "#"
                    [] ~has_holding(ev, p, c) /\ has_waiting(ev, p, c) -> "W"
                    [] OTHER -> "."
-----------------------------------------------------------------------------
(* sem_gantt reads the ring from its oldest event: it sees the events of   *)
(* the semaphore among the last SEM_EVENT_LOG_SIZE recorded, the oldest    *)
(* MAX_GANTT_EVENTS of them, in the order they were recorded.              *)
EventsInOrder ==
  LET lost == IF Len(hist) > SEM_EVENT_LOG_SIZE
              THEN Len(hist) - SEM_EVENT_LOG_SIZE ELSE 0
      kept == SubSeq(hist, lost + 1, Len(hist))
  IN \A s \in Sems :
       events(s) = FirstOf(SelectSeq(kept, LAMBDA e : e.sem = s),
                           MAX_GANTT_EVENTS)

Columns(ev) == 0..char_width(ev) - 1
By(ev, p, ty, t) ==
  {k \in DOMAIN ev : ev[k].pid = p /\ ev[k].type = ty /\ ev[k].ticks <= t}

(* At the end of tick t process p has more units than it gave back. *)
HoldsAt(ev, p, t) ==
  \E k \in DOMAIN ev :
    Cardinality({j \in By(ev, p, "ACQUIRE", t) : j >= k})
      > Cardinality({j \in By(ev, p, "RELEASE", t) : j >= k})

(* At the end of tick t process p waits for a unit. *)
WaitsAt(ev, p, t) ==
  \E k \in By(ev, p, "WAIT", t) : \A j \in By(ev, p, "ACQUIRE", t) : j < k

Momentary(ev, p, ty, t) ==
  \E k \in DOMAIN ev : ev[k].pid = p /\ ev[k].type = ty /\ ev[k].ticks = t

(* The chart depends on the log only, and every log is reached with no     *)
(* event pending (its caller may come later): it is read then.             *)
Charted(Right(_, _, _, _)) ==
  (\A s \in Sems : pending[s] = NoEvent) =>
    \A ev \in {events(s) : s \in Sems} \ {<< >>} :
      \A c \in Columns(ev), p \in ToSet(pids(ev)) :
        \A cell \in {Cell(ev, p, c)}, T \in {t_start(ev, c)..t_end(ev, c)} :
          Right(p, ev, T, cell)

(* semaphore.c:156: "# = holding CS", "W = waiting".  Every column in      *)
(* which the process holds a unit has a #, one in which it only waits a W, *)
(* and a mark means that it held or waited, perhaps for less than a tick:  *)
(* no interval falls between the comparisons of sem_gantt.                 *)
ChartRight ==
  Charted(LAMBDA p, ev, T, cell :
    /\ IF cell = "#"
       THEN \E t \in T : HoldsAt(ev, p, t) \/ Momentary(ev, p, "ACQUIRE", t)
       ELSE \A t \in T : ~HoldsAt(ev, p, t)
    /\ cell = "W" => \E t \in T : WaitsAt(ev, p, t) \/ Momentary(ev, p, "WAIT", t)
    /\ cell = "." => \A t \in T : ~WaitsAt(ev, p, t))
=============================================================================
