-------------------------------- MODULE Pipe --------------------------------
(***************************************************************************)
(* One pipe (pipe.c): pipewrite and piperead byte by byte, pipeclose,      *)
(* kkill of a process inside.  nread and nwrite are uint counters that     *)
(* wrap.  sleep() releases pi->lock and suspends the caller in one step    *)
(* (Semaphore has its steps).  The k-th byte sent has the contents k.      *)
(* A system call holds a reference to its end of the pipe, so fileclose    *)
(* closes an end only when no call uses it.                                *)
(***************************************************************************)
EXTENDS Integers, FiniteSets

CONSTANTS
  NPROC,      \* processes that have the pipe open
  PIPESIZE,
  UINT,       \* 2^32: the number of values of nread and nwrite
  MaxN,       \* the largest number of bytes asked for in a call
  Killable,   \* the processes somebody may kill
  MaxCalls    \* bound: calls of read and write in one behaviour

ASSUME PipeAssumption ==
  /\ NPROC \in Nat
  /\ PIPESIZE \in Nat \ {0}
  /\ UINT \in Nat /\ UINT > PIPESIZE /\ UINT % PIPESIZE = 0
  /\ MaxN \in Nat /\ MaxCalls \in Nat
  /\ Killable \subseteq 1..NPROC

Procs == 1..NPROC
NoProc == 0

VARIABLES
  data, nread, nwrite, readopen, writeopen, lock,  \* struct pipe
  pc, n, i,    \* where a process is; bytes it asked for, bytes done
  killed,
  calls,
  sent, got    \* history: bytes ever written and read

pipeVars == <<data, nread, nwrite, readopen, writeopen>>
vars == <<pipeVars, lock, pc, n, i, killed, calls, sent, got>>
history == <<sent, got>>

Empty == nread = nwrite
(* Mutant: the sum does not wrap. *)
Full_nowrap == nwrite = nread + PIPESIZE

Full == nwrite = (nread + PIPESIZE) % UINT

(* pipealloc *)
Init ==
  /\ data = [k \in 0..PIPESIZE-1 |-> -1]
  /\ nread = 0 /\ nwrite = 0
  /\ readopen = TRUE /\ writeopen = TRUE
  /\ lock = NoProc
  /\ pc = [p \in Procs |-> "user"]
  /\ n = [p \in Procs |-> 0] /\ i = [p \in Procs |-> 0]
  /\ killed = [p \in Procs |-> FALSE]
  /\ calls = 0 /\ sent = 0 /\ got = 0

Goto(p, l) == pc' = [pc EXCEPT ![p] = l]

(* wakeup(&pi->nread) and wakeup(&pi->nwrite): what p, which goes on at l, *)
(* leaves of the program counters.                                         *)
WakeReaders(p, l) ==
  pc' = [q \in Procs |-> IF q = p THEN l
                         ELSE IF pc[q] = "read_asleep" THEN "read_enter"
                         ELSE pc[q]]
WakeWriters(p, l) ==
  pc' = [q \in Procs |-> IF q = p THEN l
                         ELSE IF pc[q] = "write_asleep" THEN "write_enter"
                         ELSE pc[q]]
-----------------------------------------------------------------------------
(* sys_write and sys_read on an end that the caller has open. *)
Call(p, l) ==
  /\ pc[p] = "user" /\ ~killed[p]
  /\ calls < MaxCalls
  /\ calls' = calls + 1
  /\ \E k \in 1..MaxN : n' = [n EXCEPT ![p] = k]
  /\ i' = [i EXCEPT ![p] = 0]
  /\ Goto(p, l)
  /\ UNCHANGED <<pipeVars, lock, killed, history>>

call_pipewrite(p) == writeopen /\ Call(p, "write_enter")
call_piperead(p) == readopen /\ Call(p, "read_enter")

(* acquire(&pi->lock), on entry and when sleep() returns. *)
Acquire(p, from, to) ==
  /\ pc[p] = from
  /\ lock = NoProc
  /\ lock' = p
  /\ Goto(p, to)
  /\ UNCHANGED <<pipeVars, n, i, killed, calls, history>>

pipewrite_enter(p) == Acquire(p, "write_enter", "write")
piperead_enter(p) == Acquire(p, "read_enter", "read")

(* The system call is over; its locals are dead. *)
Leave(p) ==
  /\ lock' = NoProc
  /\ n' = [n EXCEPT ![p] = 0] /\ i' = [i EXCEPT ![p] = 0]
  /\ UNCHANGED <<pipeVars, killed, calls, history>>
-----------------------------------------------------------------------------
(* pipewrite: the loop's condition and its first test. *)
pipewrite_test(p) ==
  /\ pc[p] = "write"
  /\ i[p] < n[p] /\ readopen /\ ~killed[p]
  /\ Goto(p, "write_byte")
  /\ UNCHANGED <<pipeVars, lock, n, i, killed, calls, history>>

pipewrite_fail(p) ==
  /\ pc[p] = "write"
  /\ i[p] < n[p] /\ (~readopen \/ killed[p])
  /\ Goto(p, "user")
  /\ Leave(p)

pipewrite_sleep(p) ==
  /\ pc[p] = "write_byte"
  /\ Full
  /\ WakeReaders(p, "write_asleep")
  /\ lock' = NoProc
  /\ UNCHANGED <<pipeVars, n, i, killed, calls, history>>

pipewrite_byte(p) ==
  /\ pc[p] = "write_byte"
  /\ ~Full
  /\ data' = [data EXCEPT ![nwrite % PIPESIZE] = sent]
  /\ nwrite' = (nwrite + 1) % UINT
  /\ sent' = sent + 1
  /\ i' = [i EXCEPT ![p] = @ + 1]
  /\ Goto(p, "write")
  /\ UNCHANGED <<nread, readopen, writeopen, lock, n, killed, calls, got>>

(* All bytes are written, or copyin failed. *)
pipewrite_done(p) ==
  /\ \/ pc[p] = "write" /\ i[p] = n[p]
     \/ pc[p] = "write_byte" /\ ~Full
  /\ WakeReaders(p, "user")
  /\ Leave(p)
-----------------------------------------------------------------------------
(* piperead: the loop that waits for data, or for the last writer to go. *)
piperead_fail(p) ==
  /\ pc[p] = "read"
  /\ Empty /\ writeopen /\ killed[p]
  /\ Goto(p, "user")
  /\ Leave(p)

piperead_empty(p) ==
  /\ pc[p] = "read"
  /\ Empty /\ writeopen /\ ~killed[p]
  /\ Goto(p, "read_sleep")
  /\ UNCHANGED <<pipeVars, lock, n, i, killed, calls, history>>

piperead_sleep(p) ==
  /\ pc[p] = "read_sleep"
  /\ Goto(p, "read_asleep")
  /\ lock' = NoProc
  /\ UNCHANGED <<pipeVars, n, i, killed, calls, history>>

piperead_data(p) ==
  /\ pc[p] = "read"
  /\ ~(Empty /\ writeopen)
  /\ Goto(p, "read_copy")
  /\ UNCHANGED <<pipeVars, lock, n, i, killed, calls, history>>

piperead_copy(p) ==
  /\ pc[p] = "read_copy"
  /\ i[p] < n[p] /\ ~Empty
  /\ nread' = (nread + 1) % UINT
  /\ got' = got + 1
  /\ i' = [i EXCEPT ![p] = @ + 1]
  /\ UNCHANGED <<data, nwrite, readopen, writeopen, lock, pc, n, killed,
                 calls, sent>>

(* Mutant: no wakeup(&pi->nwrite). *)
piperead_done_nowakeup(p) ==
  /\ pc[p] = "read_copy"
  /\ Goto(p, "user")
  /\ Leave(p)

(* All bytes are read, or the pipe is empty, or copyout failed. *)
piperead_done(p) ==
  /\ pc[p] = "read_copy"
  /\ WakeWriters(p, "user")
  /\ Leave(p)
-----------------------------------------------------------------------------
Uses(locs) == \E q \in Procs : pc[q] \in locs
WriteLocs == {"write_enter", "write", "write_byte", "write_asleep"}
ReadLocs == {"read_enter", "read", "read_sleep", "read_asleep", "read_copy"}

(* Mutant: no wakeup(&pi->nread). *)
pipeclose_write_nowakeup(p) ==
  /\ pc[p] = "user"
  /\ writeopen /\ ~Uses(WriteLocs) /\ lock = NoProc
  /\ writeopen' = FALSE
  /\ UNCHANGED <<data, nread, nwrite, readopen, lock, pc, n, i, killed, calls,
                 history>>

(* pipeclose by p, which drops the last reference to the end. *)
pipeclose_write(p) ==
  /\ pc[p] = "user"
  /\ writeopen /\ ~Uses(WriteLocs) /\ lock = NoProc
  /\ writeopen' = FALSE
  /\ WakeReaders(p, "user")
  /\ UNCHANGED <<data, nread, nwrite, readopen, lock, n, i, killed, calls,
                 history>>

pipeclose_read(p) ==
  /\ pc[p] = "user"
  /\ readopen /\ ~Uses(ReadLocs) /\ lock = NoProc
  /\ readopen' = FALSE
  /\ WakeWriters(p, "user")
  /\ UNCHANGED <<data, nread, nwrite, writeopen, lock, n, i, killed, calls,
                 history>>

kkill(p) ==
  /\ p \in Killable /\ ~killed[p]
  /\ killed' = [killed EXCEPT ![p] = TRUE]
  /\ Goto(p, CASE pc[p] = "read_asleep" -> "read_enter"
               [] pc[p] = "write_asleep" -> "write_enter"
               [] OTHER -> pc[p])
  /\ UNCHANGED <<pipeVars, lock, n, i, calls, history>>

KernelStep(p) ==
  \/ pipewrite_enter(p) \/ pipewrite_test(p) \/ pipewrite_fail(p)
  \/ pipewrite_sleep(p) \/ pipewrite_byte(p) \/ pipewrite_done(p)
  \/ piperead_enter(p) \/ piperead_fail(p) \/ piperead_empty(p)
  \/ piperead_sleep(p) \/ piperead_data(p) \/ piperead_copy(p)
  \/ piperead_done(p)

Next ==
  \E p \in Procs :
    \/ KernelStep(p) \/ call_pipewrite(p) \/ call_piperead(p)
    \/ pipeclose_write(p) \/ pipeclose_read(p) \/ kkill(p)

Spec == Init /\ [][Next]_vars
FairSpec == Spec /\ \A p \in Procs : WF_vars(KernelStep(p))
-----------------------------------------------------------------------------
(* A pipe is a queue of at most PIPESIZE bytes: the bytes between nread    *)
(* and nwrite are the sent ones nobody has read, the oldest first, also    *)
(* when the counters have wrapped.                                         *)
Fifo ==
  /\ nread = got % UINT /\ nwrite = sent % UINT
  /\ got <= sent /\ sent <= got + PIPESIZE
  /\ \A k \in got..sent-1 : data[k % PIPESIZE] = k

NobodyKilled == \A q \in Procs : ~killed[q]

(* pipe.c:113 and 88: a reader sleeps only while the pipe is empty and has *)
(* a writer, and a writer only while it is full and has a reader, except   *)
(* while the process that changes this still holds pi->lock.  A writer     *)
(* that is killed in mid-write wakes no reader: nothing is claimed then.   *)
SleepersHaveReason ==
  lock = NoProc /\ NobodyKilled =>
    \A p \in Procs : /\ pc[p] = "read_asleep" => Empty /\ writeopen
                     /\ pc[p] = "write_asleep" => Full /\ readopen

(* Readers at the end of the data return when the last writer closes, and  *)
(* blocked writers when the last reader does.                              *)
ClosedEndWakes ==
  \A p \in Procs :
    /\ pc[p] = "read_asleep" /\ ~writeopen ~> pc[p] = "user"
    /\ pc[p] = "write_asleep" /\ ~readopen ~> pc[p] = "user"

=============================================================================
