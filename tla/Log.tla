-------------------------------- MODULE Log --------------------------------
(***************************************************************************)
(* The write-ahead log (log.c) with the part of the buffer cache (bio.c)   *)
(* it relies on: begin_op, log_write, end_op with its group commit,        *)
(* sys_sync, crashes at any step and recovery.  One step is one block      *)
(* written to the disk, or one section under log.lock.  A block write is   *)
(* atomic.  sleep() releases log.lock and suspends the caller in one step  *)
(* (Semaphore shows why nobody can run in between), and the callers of     *)
(* begin_op look again when woken.                                         *)
(*                                                                         *)
(* The contents of a block is the number of the operation that wrote it.   *)
(***************************************************************************)
EXTENDS Integers, Sequences, FiniteSetsExt

CONSTANTS
  Procs, Blocks,
  LOGBLOCKS, MAXOPBLOCKS, \* param.h
  OpBlocks,     \* distinct blocks an operation writes, at most
  MaxOps,       \* bound: operations begun in one behaviour
  MaxSyncs,     \* bound: calls of sys_sync in one behaviour
  MaxCrashes    \* bound: crashes in one behaviour

ASSUME LogAssumption ==
  /\ LOGBLOCKS \in Nat \ {0} /\ MAXOPBLOCKS \in Nat \ {0}
  /\ OpBlocks \in Nat /\ OpBlocks <= MAXOPBLOCKS
  /\ MaxOps \in Nat /\ MaxSyncs \in Nat /\ MaxCrashes \in Nat
  /\ IsFiniteSet(Procs) /\ IsFiniteSet(Blocks)

Val == 0..MaxOps   \* 0: as mkfs left the block
NoBuf == -1        \* no buffer of the cache holds the block

VARIABLES
  \* on the disk
  home,        \* the blocks of the file system
  logd,        \* the data blocks of the log
  head,        \* the header block: block numbers, n of them
  \* in memory
  cache,       \* the contents of each block's buffer
  pins,        \* references bpin() holds on it
  lh,          \* log.lh: block numbers, n of them
  outstanding, committing, ncommit,  \* struct log
  tail,        \* loop variable of write_log and install_trans
  mode,        \* booting: "read_head", "recover"; "up"; "panic"
  pc,          \* where each process is
  op, wrote,   \* its operation, and the blocks that operation wrote
  target,      \* n in sys_sync
  \* history
  started, ended, stable, \* operations begun, ended, and durable if crashed
  goal,        \* ended when a process called sys_sync
  syncs, crashes

diskSide == <<home, logd, head>>
cacheSide == <<cache, pins>>
logSide == <<lh, outstanding, committing, ncommit>>
history == <<started, ended, stable, goal, syncs, crashes>>
vars == <<diskSide, cacheSide, logSide, tail, mode, pc, op, wrote, target,
          history>>

Each(v) == [p \in Procs |-> v]
EmptyCache == [b \in Blocks |-> NoBuf]
NoPins == [b \in Blocks |-> 0]

Init ==
  /\ home = [b \in Blocks |-> 0]
  /\ logd = [i \in 1..LOGBLOCKS |-> 0]
  /\ head = << >>
  /\ cache = EmptyCache /\ pins = NoPins
  /\ lh = << >> /\ outstanding = 0 /\ committing = FALSE /\ ncommit = 0
  /\ tail = 1 /\ mode = "read_head"
  /\ pc = Each("idle") /\ op = Each(0) /\ wrote = Each({})
  /\ target = Each(0) /\ goal = Each(0)
  /\ started = 0 /\ ended = 0 /\ stable = 0 /\ syncs = 0 /\ crashes = 0

Goto(p, l) == pc' = [pc EXCEPT ![p] = l]

(* bread(): the buffer's contents, from the disk if it is not cached. *)
View(b) == IF cache[b] = NoBuf THEN home[b] ELSE cache[b]

(* wakeup(&log): sleepers in begin_op look again, sleepers in sys_sync     *)
(* return once ncommit (as this step leaves it) has reached their target.  *)
Awake(p) ==
  CASE pc[p] = "begin_sleep" -> "begin"
    [] pc[p] = "sync_sleep" /\ ncommit' >= target[p] -> "synced"
    [] OTHER -> pc[p]
-----------------------------------------------------------------------------
(* initlog and recover_from_log *)
read_head ==
  /\ mode = "read_head"
  /\ lh' = head
  /\ tail' = 1
  /\ mode' = "recover"
  /\ UNCHANGED <<diskSide, cacheSide, outstanding, committing, ncommit, pc,
                 op, wrote, target, history>>

(* Copy log block number tail to its place. *)
InstallBlock ==
  /\ home' = [home EXCEPT ![lh[tail]] = logd[tail]]
  /\ cache' = [cache EXCEPT ![lh[tail]] = logd[tail]]
  /\ tail' = tail + 1

(* Mutant: bunpin also when recovering. *)
install_trans_unpins ==
  /\ mode = "recover"
  /\ tail <= Len(lh)
  /\ InstallBlock
  /\ pins' = [pins EXCEPT ![lh[tail]] = @ - 1]
  /\ UNCHANGED <<logd, head, logSide, mode, pc, op, wrote, target, history>>

install_trans_recovering ==
  /\ mode = "recover"
  /\ tail <= Len(lh)
  /\ InstallBlock
  /\ UNCHANGED <<logd, head, pins, logSide, mode, pc, op, wrote, target,
                 history>>

recover_from_log ==
  /\ mode = "recover"
  /\ tail > Len(lh)
  /\ lh' = << >>
  /\ head' = << >>
  /\ mode' = "up"
  /\ tail' = 1
  /\ UNCHANGED <<home, logd, cacheSide, outstanding, committing, ncommit, pc,
                 op, wrote, target, history>>
-----------------------------------------------------------------------------
(* A file system call starts with begin_op. *)
call_begin_op(p) ==
  /\ mode = "up"
  /\ pc[p] \in {"idle", "synced"}
  /\ started < MaxOps
  /\ started' = started + 1
  /\ op' = [op EXCEPT ![p] = started']
  /\ target' = [target EXCEPT ![p] = 0] /\ goal' = [goal EXCEPT ![p] = 0]
  /\ Goto(p, "begin")
  /\ UNCHANGED <<diskSide, cacheSide, logSide, tail, mode, wrote, ended,
                 stable, syncs, crashes>>

(* Mutant: no room is kept for the outstanding operations. *)
MustWait_noreserve == committing \/ Len(lh) + MAXOPBLOCKS > LOGBLOCKS

MustWait ==
  committing \/ Len(lh) + (outstanding + 1) * MAXOPBLOCKS > LOGBLOCKS

begin_op(p) ==
  /\ mode = "up"
  /\ pc[p] = "begin"
  /\ outstanding' = IF MustWait THEN outstanding ELSE outstanding + 1
  /\ Goto(p, IF MustWait THEN "begin_sleep" ELSE "op")
  /\ UNCHANGED <<diskSide, cacheSide, lh, committing, ncommit, tail, mode,
                 op, wrote, target, history>>

(* The operation reads block b, changes it and calls log_write. *)
log_write(p, b) ==
  /\ mode = "up"
  /\ pc[p] = "op"
  /\ b \in wrote[p] \/ Cardinality(wrote[p]) < OpBlocks
  /\ IF Len(lh) >= LOGBLOCKS \/ outstanding < 1
     THEN /\ mode' = "panic"
          /\ UNCHANGED <<cacheSide, lh, wrote>>
     ELSE /\ cache' = [cache EXCEPT ![b] = op[p]]
          /\ wrote' = [wrote EXCEPT ![p] = @ \cup {b}]
          /\ IF \E i \in 1..Len(lh) : lh[i] = b
             THEN UNCHANGED <<lh, pins>>
             ELSE /\ lh' = Append(lh, b)
                  /\ pins' = [pins EXCEPT ![b] = @ + 1]
          /\ UNCHANGED mode
  /\ UNCHANGED <<diskSide, outstanding, committing, ncommit, tail, pc, op,
                 target, history>>

(* bget() for another block takes the buffer of b, unless somebody has a   *)
(* reference to it.                                                        *)
bget_recycle(b) ==
  /\ mode = "up"
  /\ cache[b] # NoBuf
  /\ pins[b] = 0
  /\ cache' = [cache EXCEPT ![b] = NoBuf]
  /\ UNCHANGED <<diskSide, pins, logSide, tail, mode, pc, op, wrote, target,
                 history>>

(* end_op up to its first release of log.lock. *)
end_op(p) ==
  /\ mode = "up"
  /\ pc[p] = "op"
  /\ outstanding' = outstanding - 1
  /\ ended' = ended + 1
  /\ mode' = IF committing THEN "panic" ELSE mode
  /\ committing' = (outstanding' = 0 \/ committing)
  /\ UNCHANGED ncommit
  /\ pc' = IF outstanding' = 0
           THEN [pc EXCEPT ![p] = "write_log"]
           ELSE [q \in Procs |-> IF q = p THEN "idle" ELSE Awake(q)]
  /\ tail' = 1
  /\ op' = [op EXCEPT ![p] = 0] /\ wrote' = [wrote EXCEPT ![p] = {}]
  /\ UNCHANGED <<diskSide, cacheSide, lh, target, started, stable, goal,
                 syncs, crashes>>

(* commit() by the process that ended the last operation. *)
write_log(p) ==
  /\ mode = "up"
  /\ pc[p] = "write_log"
  /\ tail <= Len(lh)
  /\ logd' = [logd EXCEPT ![tail] = View(lh[tail])]
  /\ tail' = tail + 1
  /\ UNCHANGED <<home, head, cacheSide, logSide, mode, pc, op, wrote, target,
                 history>>

(* Mutant: the header is written before the blocks of the log are. *)
write_head_early(p) ==
  /\ mode = "up"
  /\ pc[p] = "write_log"
  /\ head' = lh
  /\ stable' = ended
  /\ tail' = 1
  /\ Goto(p, IF lh = << >> THEN "commit_done" ELSE "install")
  /\ UNCHANGED <<home, logd, cacheSide, logSide, mode, op, wrote, target,
                 started, ended, goal, syncs, crashes>>

(* write_head: the commit point.  With an empty log commit() does nothing. *)
write_head(p) ==
  /\ mode = "up"
  /\ pc[p] = "write_log"
  /\ tail > Len(lh)
  /\ head' = lh
  /\ stable' = ended
  /\ tail' = 1
  /\ Goto(p, IF lh = << >> THEN "commit_done" ELSE "install")
  /\ UNCHANGED <<home, logd, cacheSide, logSide, mode, op, wrote, target,
                 started, ended, goal, syncs, crashes>>

install_trans(p) ==
  /\ mode = "up"
  /\ pc[p] = "install"
  /\ tail <= Len(lh)
  /\ InstallBlock
  /\ pins' = [pins EXCEPT ![lh[tail]] = @ - 1]
  /\ UNCHANGED <<logd, head, logSide, mode, pc, op, wrote, target, history>>

(* log.lh.n = 0, and the second write_head. *)
clear_head(p) ==
  /\ mode = "up"
  /\ pc[p] = "install"
  /\ tail > Len(lh)
  /\ lh' = << >>
  /\ head' = << >>
  /\ tail' = 1
  /\ Goto(p, "commit_done")
  /\ UNCHANGED <<home, logd, cacheSide, outstanding, committing, ncommit,
                 mode, op, wrote, target, history>>

(* Mutant: no wakeup after the commit. *)
end_commit_nowakeup(p) ==
  /\ mode = "up"
  /\ pc[p] = "commit_done"
  /\ committing' = FALSE
  /\ ncommit' = ncommit + 1
  /\ Goto(p, "idle")
  /\ UNCHANGED <<diskSide, cacheSide, lh, outstanding, tail, mode, op, wrote,
                 target, history>>

(* end_op after commit() has returned. *)
end_commit(p) ==
  /\ mode = "up"
  /\ pc[p] = "commit_done"
  /\ committing' = FALSE
  /\ ncommit' = ncommit + 1
  /\ pc' = [q \in Procs |-> IF q = p THEN "idle" ELSE Awake(q)]
  /\ UNCHANGED <<diskSide, cacheSide, lh, outstanding, tail, mode, op, wrote,
                 target, history>>

(* Mutant: a running commit is not waited for. *)
sys_sync_now(p) ==
  /\ mode = "up"
  /\ pc[p] \in {"idle", "synced"}
  /\ syncs < MaxSyncs
  /\ syncs' = syncs + 1
  /\ goal' = [goal EXCEPT ![p] = ended]
  /\ target' = [target EXCEPT ![p] = ncommit + 1]
  /\ Goto(p, IF outstanding > 0 THEN "sync_sleep" ELSE "synced")
  /\ UNCHANGED <<diskSide, cacheSide, logSide, tail, mode, op, wrote, started,
                 ended, stable, crashes>>

sys_sync(p) ==
  /\ mode = "up"
  /\ pc[p] \in {"idle", "synced"}
  /\ syncs < MaxSyncs
  /\ syncs' = syncs + 1
  /\ goal' = [goal EXCEPT ![p] = ended]
  /\ target' = [target EXCEPT ![p] = ncommit + 1]
  /\ Goto(p, IF committing \/ outstanding > 0 THEN "sync_sleep" ELSE "synced")
  /\ UNCHANGED <<diskSide, cacheSide, logSide, tail, mode, op, wrote, started,
                 ended, stable, crashes>>

(* The machine stops and boots again with what is on the disk. *)
Crash ==
  /\ mode # "panic"
  /\ crashes < MaxCrashes
  /\ crashes' = crashes + 1
  /\ cache' = EmptyCache /\ pins' = NoPins
  /\ lh' = << >> /\ outstanding' = 0 /\ committing' = FALSE /\ ncommit' = 0
  /\ tail' = 1 /\ mode' = "read_head"
  /\ pc' = Each("idle") /\ op' = Each(0) /\ wrote' = Each({})
  /\ target' = Each(0) /\ goal' = Each(0)
  /\ ended' = stable
  /\ UNCHANGED <<diskSide, started, stable, syncs>>

KernelStep(p) ==
  \/ begin_op(p) \/ end_op(p) \/ write_log(p) \/ write_head(p)
  \/ install_trans(p) \/ clear_head(p) \/ end_commit(p)

Recovery == read_head \/ install_trans_recovering \/ recover_from_log

Next ==
  \/ Recovery \/ Crash
  \/ \E p \in Procs : \/ KernelStep(p) \/ call_begin_op(p) \/ sys_sync(p)
                      \/ \E b \in Blocks : log_write(p, b)
  \/ \E b \in Blocks : bget_recycle(b)

Spec == Init /\ [][Next]_vars

FairSpec ==
  /\ Spec
  /\ WF_vars(Recovery)
  /\ \A p \in Procs : WF_vars(KernelStep(p))
-----------------------------------------------------------------------------
(* What the file system would be after a crash now: the home locations     *)
(* with the committed log laid over them.                                  *)
Durable ==
  [b \in Blocks |-> IF \E i \in 1..Len(head) : head[i] = b
                    THEN logd[CHOOSE i \in 1..Len(head) : head[i] = b]
                    ELSE home[b]]

Active == {p \in Procs : pc[p] = "op"}

(* log.c:10-16: operations reach the disk whole or not at all, across any  *)
(* number of crashes, also crashes during recovery.                        *)
Disk == INSTANCE AbstractDisk
          WITH InitVal <- 0, disk <- Durable, active <- Active,
               mem <- IF mode = "up" THEN [b \in Blocks |-> View(b)]
                      ELSE Durable
AtomicOperations == Disk!DiskSpec

(* begin_op keeps room for every outstanding operation: what the log holds *)
(* and what they may still write fit in it, however they overlap, and so   *)
(* no panic of log_write or end_op is reached.                             *)
RoomReserved ==
  /\ mode # "panic"
  /\ mode = "up" => Len(lh) + MapThenSumSet(LAMBDA p : MAXOPBLOCKS - Cardinality(wrote[p]), Active)
                      <= LOGBLOCKS

(* bpin and bunpin balance: exactly the logged blocks that commit() has    *)
(* not installed yet are pinned, once each, and a block that is not pinned *)
(* has the contents of its home location, so bget may take its buffer.     *)
PinsMatchLog ==
  mode = "up" =>
    \A b \in Blocks :
      LET logged == \E i \in 1..Len(lh) :
                      lh[i] = b /\ (tail <= i \/ \A p \in Procs : pc[p] # "install")
      IN /\ pins[b] = IF logged THEN 1 ELSE 0
         /\ ~logged => View(b) = home[b]

(* sys_sync returns only when every operation that had ended at the time   *)
(* of the call would survive a crash.                                      *)
SyncIsDurable == \A p \in Procs : pc[p] = "synced" => goal[p] <= stable

(* Once operations end, callers of begin_op get in and callers of sys_sync *)
(* return, unless the machine stops.                                       *)
Sleeps(p) == pc[p] \in {"begin_sleep", "sync_sleep"}
SleepersReturn == \A p \in Procs : Sleeps(p) ~> ~Sleeps(p)
=============================================================================
