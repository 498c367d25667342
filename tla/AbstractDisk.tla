---------------------------- MODULE AbstractDisk ----------------------------
(***************************************************************************)
(* What the log promises the file system: operations run between Begin and *)
(* End, their writes are seen at once in memory, and they reach the disk   *)
(* all together, only when no operation is half way.  A crash takes the    *)
(* memory back to the disk, so an operation is never seen in part.         *)
(***************************************************************************)
CONSTANTS Procs, Blocks, Val, InitVal

VARIABLES mem,     \* what readers of a block see
          disk,    \* what they see after a crash
          active   \* the processes between begin_op and end_op

diskVars == <<mem, disk, active>>

DiskInit ==
  /\ disk = [b \in Blocks |-> InitVal]
  /\ mem = disk
  /\ active = {}

Begin(p) ==
  /\ p \notin active
  /\ active' = active \cup {p}
  /\ UNCHANGED <<mem, disk>>

Write(p, b, v) ==
  /\ p \in active
  /\ mem' = [mem EXCEPT ![b] = v]
  /\ UNCHANGED <<disk, active>>

End(p) ==
  /\ p \in active
  /\ active' = active \ {p}
  /\ UNCHANGED <<mem, disk>>

Commit ==
  /\ active = {}
  /\ disk' = mem
  /\ UNCHANGED <<mem, active>>

Crash ==
  /\ mem' = disk
  /\ active' = {}
  /\ UNCHANGED disk

DiskNext ==
  \/ Commit \/ Crash
  \/ \E p \in Procs : \/ Begin(p) \/ End(p)
                      \/ \E b \in Blocks, v \in Val : Write(p, b, v)

DiskSpec == DiskInit /\ [][DiskNext]_diskVars
=============================================================================
