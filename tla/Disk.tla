-------------------------------- MODULE Disk --------------------------------
(***************************************************************************)
(* The buffer cache and the disk driver (kernel/bio.c, sleeplock.c,        *)
(* virtio_disk.c): processes that read, change, write, pin and unpin       *)
(* blocks, the virtio device, which answers requests in any order, and its *)
(* interrupt handler.  A step is a critical section of bcache.lock, of a   *)
(* sleep lock or of vdisk_lock; the device runs beside all of them.        *)
(***************************************************************************)
EXTENDS Integers, Sequences, FiniteSetsExt, SequencesExt

CONSTANTS Procs, Blocks,
          Requests,  \* what a process may do: <<operation, block>>
          NBUF,      \* buffers of the cache
          NUM,       \* descriptors, and entries of the two rings
          StartIdx,  \* requests served since the boot
          MaxOps

ASSUME DiskAssumption == NUM > 2 /\ 65536 % NUM = 0 /\ 1..NBUF \subseteq Blocks /\ 0 \notin Blocks

VARIABLES buf, lru,              \* the buffers, and their order of use, latest first
          free, desc, info,      \* descriptors, and the request at the head of a chain
          avail, used, used_idx, \* the rings, and how far the driver has seen the second
          seen, working,         \* device: how far it has read, and what it works on
          intr, handler,         \* the interrupt line, and the handler
          platter, latest,       \* what is on the disk, and what was last put in a block
          fr, ops

driver == <<free, desc, info, avail, used_idx>>
device == <<used, seen, working, platter>>
vars == <<buf, lru, driver, device, intr, handler, latest, fr, ops>>

Bufs == 1..NBUF
Ids == 0..NUM - 1
Inc(i) == (i + 1) % 65536
NoDesc == [next |-> 0, more |-> FALSE]
NoReq == [b |-> 0, n |-> 0, write |-> FALSE]
NoFrame == [pc |-> "idle", op |-> "none", n |-> 0, b |-> 0, write |-> FALSE, id |-> 0]

\* Some time after binit and virtio_disk_init: StartIdx requests have been served, and
\* the cache holds the first NBUF blocks.
Init ==
    /\ buf = [b \in Bufs |-> [n |-> b, valid |-> TRUE, refcnt |-> 0, disk |-> FALSE, locked |-> FALSE, data |-> 10 * b]]
    /\ lru = Reverse([b \in Bufs |-> b])
    /\ free = Ids /\ desc = [i \in Ids |-> NoDesc] /\ info = [i \in Ids |-> NoReq]
    /\ avail = [idx |-> StartIdx % 65536, ring |-> [i \in Ids |-> 0]]
    /\ used = avail /\ used_idx = StartIdx % 65536 /\ seen = StartIdx % 65536
    /\ working = {} /\ intr = FALSE /\ handler = "out"
    /\ platter = [n \in Blocks |-> 10 * n] /\ latest = platter
    /\ fr = [p \in Procs |-> NoFrame] /\ ops = 0

At(p, k) == fr[p].pc = k
Goes(p, k) == fr' = [fr EXCEPT ![p].pc = k]
\* Processes asleep at k are made runnable, and go on at r; p goes to s.
Wakes(Asleep(_), r, p, s) ==
    fr' = [q \in Procs |-> IF q = p THEN s ELSE IF Asleep(q) THEN [fr[q] EXCEPT !.pc = r] ELSE fr[q]]

(***************************************************************************)
(* The buffer cache.  A process does one of four things with a block: read *)
(* it; change it and write it (bwrite); change it and pin it (log_write);  *)
(* write a pinned block and unpin it (install_trans).  The log's           *)
(* reservations keep the buffers in use and pinned below NBUF.             *)
(***************************************************************************)
Pins(b) == buf[b].refcnt - Cardinality({p \in Procs : fr[p].b = b})
Pinned == {b \in Bufs : Pins(b) > 0}
Room == Cardinality(Pinned) + Cardinality({p \in Procs : ~At(p, "idle")}) < NBUF

Recyclable(b) == buf[b].refcnt = 0

Cached(n) == {b \in Bufs : buf[b].n = n}

Recycled_valid(b, n) == [buf[b] EXCEPT !.n = n, !.refcnt = 1]

\* A buffer that is now for block n, whose contents it does not have.
Recycled(b, n) == [buf[b] EXCEPT !.n = n, !.valid = FALSE, !.refcnt = 1]

bget(p, op, n) ==
    /\ At(p, "idle") /\ Room /\ ops < MaxOps
    /\ op = "log" => Pinned = {} /\ \A q \in Procs : fr[q].op # "log"
    /\ op = "install" => \E b \in Pinned : buf[b].n = n /\ \A q \in Procs : fr[q].op # "install"
    /\ LET unused == SelectSeq(lru, Recyclable)
           Takes(b) == fr' = [fr EXCEPT ![p] = [NoFrame EXCEPT !.pc = "lock", !.op = op, !.n = n, !.b = b]]
       IN  \/ \E b \in Cached(n) : buf' = [buf EXCEPT ![b].refcnt = @ + 1] /\ Takes(b)
           \/ /\ Cached(n) = {} /\ unused # <<>>
              /\ buf' = [buf EXCEPT ![Last(unused)] = Recycled(Last(unused), n)]
              /\ Takes(Last(unused))
    /\ ops' = ops + 1
    /\ UNCHANGED <<lru, driver, device, intr, handler, latest>>

\* bread fills a buffer that is not valid.
bread(b) == IF buf[b].valid THEN "have" ELSE "rw"

\* acquiresleep: sleep while it is locked.
acquiresleep(p) ==
    /\ At(p, "lock")
    /\ LET b == fr[p].b IN
        \/ buf[b].locked /\ Goes(p, "lock_sleep") /\ UNCHANGED buf
        \/ /\ ~buf[b].locked /\ buf' = [buf EXCEPT ![b].locked = TRUE]
           /\ Goes(p, bread(b))
    /\ UNCHANGED <<lru, driver, device, intr, handler, latest, ops>>

bpin_none(refcnt) == refcnt

bpin(refcnt) == refcnt + 1
bunpin(refcnt) == refcnt - 1

\* The process has the locked buffer with the block's contents: it is to be written, ...
bwrite(p) ==
    /\ At(p, "have") /\ fr[p].op \in {"write", "install"}
    /\ fr' = [fr EXCEPT ![p].pc = "rw", ![p].write = TRUE]
    /\ IF fr[p].op = "write"
       THEN /\ buf' = [buf EXCEPT ![fr[p].b].data = latest[fr[p].n] + 1]
            /\ latest' = [latest EXCEPT ![fr[p].n] = @ + 1]
       ELSE UNCHANGED <<buf, latest>>
    /\ UNCHANGED <<lru, driver, device, intr, handler, ops>>

\* ... or the process is done with it, after it changed and pinned it in one case.
\* brelse: releasesleep wakes whoever sleeps on the lock, ...
releasesleep(p) ==
    /\ At(p, "release") \/ (At(p, "have") /\ fr[p].op \in {"read", "log"})
    /\ LET b == fr[p].b IN
        IF fr[p].op = "log"
        THEN /\ buf' = [buf EXCEPT ![b].data = latest[fr[p].n] + 1, ![b].refcnt = bpin(@), ![b].locked = FALSE]
             /\ latest' = [latest EXCEPT ![fr[p].n] = @ + 1]
        ELSE buf' = [buf EXCEPT ![b].locked = FALSE] /\ UNCHANGED latest
    /\ Wakes(LAMBDA q : At(q, "lock_sleep") /\ fr[q].b = fr[p].b, "lock", p, [fr[p] EXCEPT !.pc = "unref"])
    /\ UNCHANGED <<lru, driver, device, intr, handler, ops>>

\* ... then the reference goes, and with the last one the buffer is the latest used.
brelse(p) ==
    /\ At(p, "unref")
    /\ LET b == fr[p].b
           left == buf[b].refcnt - 1
       IN  /\ buf' = [buf EXCEPT ![b].refcnt = left]
           /\ lru' = IF left = 0 THEN <<b>> \o SelectSeq(lru, LAMBDA c : c # b) ELSE lru
    /\ fr' = [fr EXCEPT ![p] = NoFrame]
    /\ UNCHANGED <<driver, device, intr, handler, latest, ops>>

(***************************************************************************)
(* virtio_disk_rw, under vdisk_lock.  alloc_desc takes the lowest free     *)
(* descriptor.  A failing alloc3_desc frees what it took, and every        *)
(* free_desc wakes the sleepers on disk.free[0].                           *)
(***************************************************************************)
WaitsDesc(q) == At(q, "rw_sleep")

alloc_desc(S) == Min(S)
alloc3_desc ==
    LET i == alloc_desc(free)
        j == alloc_desc(free \ {i})
    IN  <<i, j, alloc_desc(free \ {i, j})>>

virtio_disk_rw(p) ==
    /\ At(p, "rw") /\ handler = "out"
    /\ \/ /\ Cardinality(free) < 3
          /\ IF free = {} THEN Goes(p, "rw_sleep")
             ELSE Wakes(WaitsDesc, "rw", p, [fr[p] EXCEPT !.pc = "rw_sleep"])
          /\ UNCHANGED <<buf, free, desc, info, avail>>
       \/ /\ Cardinality(free) >= 3
          /\ \E x \in {alloc3_desc} :
                /\ free' = free \ {x[1], x[2], x[3]}
                /\ desc' = [desc EXCEPT ![x[1]] = [next |-> x[2], more |-> TRUE],
                                        ![x[2]] = [next |-> x[3], more |-> TRUE],
                                        ![x[3]] = NoDesc]
                /\ info' = [info EXCEPT ![x[1]] = [b |-> fr[p].b, n |-> fr[p].n, write |-> fr[p].write]]
                /\ avail' = [idx |-> Inc(avail.idx), ring |-> [avail.ring EXCEPT ![avail.idx % NUM] = x[1]]]
                /\ buf' = [buf EXCEPT ![fr[p].b].disk = TRUE]
                /\ fr' = [fr EXCEPT ![p].pc = "io_sleep", ![p].id = x[1]]
    /\ UNCHANGED <<lru, device, used_idx, intr, handler, latest, ops>>

free_chain_head(i) == {i}

\* The descriptors free_chain frees: those the chain at i links.
free_chain(i) == {i} \cup (IF desc[i].more THEN {desc[i].next} \cup
                             (IF desc[desc[i].next].more THEN {desc[desc[i].next].next} ELSE {})
                           ELSE {})

\* virtio_disk_rw goes on after the interrupt; bread sets valid, install_trans unpins.
finish_rw(p) ==
    /\ At(p, "io") /\ handler = "out"
    /\ LET b == fr[p].b
           i == fr[p].id
       IN  IF buf[b].disk THEN Goes(p, "io_sleep") /\ UNCHANGED <<buf, free, desc, info>>
           ELSE /\ info' = [info EXCEPT ![i] = NoReq]
                /\ free' = free \cup free_chain(i)
                /\ desc' = [j \in Ids |-> IF j \in free_chain(i) THEN NoDesc ELSE desc[j]]
                /\ buf' = [buf EXCEPT ![b].valid = TRUE, ![b].refcnt = IF fr[p].op = "install" /\ fr[p].write
                                                                          THEN bunpin(@) ELSE @]
                /\ Wakes(WaitsDesc, "rw", p, [fr[p] EXCEPT !.pc = IF fr[p].write THEN "release" ELSE "have", !.id = 0])
    /\ UNCHANGED <<lru, device, avail, used_idx, intr, handler, latest, ops>>

(***************************************************************************)
(* The device (external): it takes requests from the avail ring, serves    *)
(* them in any order, enters them in the used ring and interrupts.         *)
(***************************************************************************)
New == {avail.ring[(seen + k) % NUM] : k \in 0..((avail.idx - seen) % 65536) - 1}

device_serve(i) ==
    /\ i \in working \cup New
    /\ seen' = avail.idx /\ working' = (working \cup New) \ {i}
    /\ LET r == info[i] IN
        IF r.write THEN platter' = [platter EXCEPT ![r.n] = buf[r.b].data] /\ UNCHANGED buf
        ELSE buf' = [buf EXCEPT ![r.b].data = platter[r.n]] /\ UNCHANGED platter
    /\ used' = [idx |-> Inc(used.idx), ring |-> [used.ring EXCEPT ![used.idx % NUM] = i]]
    /\ intr' = TRUE /\ avail' = [avail EXCEPT !.ring = [k \in Ids |-> 0]]
    /\ UNCHANGED <<lru, free, desc, info, used_idx, handler, latest, fr, ops>>

(***************************************************************************)
(* virtio_disk_intr: it acknowledges first and then looks at the ring      *)
(* until nothing is new; the device may add to it all the time.  (The      *)
(* entries read from the rings are zeroed, so that equal situations are    *)
(* equal states: they are written again before they are read.)             *)
(***************************************************************************)
intr_ack ==
    /\ intr /\ handler = "out"
    /\ intr' = FALSE /\ handler' = "in"
    /\ UNCHANGED <<buf, lru, driver, device, latest, fr, ops>>

intr_used ==
    /\ handler = "in" /\ used_idx # used.idx
    /\ LET b == info[used.ring[used_idx % NUM]].b IN
        /\ buf' = [buf EXCEPT ![b].disk = FALSE]
        /\ fr' = [q \in Procs |-> IF At(q, "io_sleep") /\ fr[q].b = b THEN [fr[q] EXCEPT !.pc = "io"] ELSE fr[q]]
    /\ used_idx' = Inc(used_idx)
    /\ used' = [used EXCEPT !.ring[used_idx % NUM] = 0]
    /\ UNCHANGED <<lru, free, desc, info, avail, seen, working, platter, intr, handler, latest, ops>>

intr_end_if ==
    /\ handler = "in" /\ handler' = "out"
    /\ UNCHANGED <<buf, lru, driver, device, intr, latest, fr, ops>>

intr_end ==
    /\ handler = "in" /\ used_idx = used.idx
    /\ handler' = "out"
    /\ UNCHANGED <<buf, lru, driver, device, intr, latest, fr, ops>>

Idle == \A p \in Procs : At(p, "idle")
Finished == Idle /\ ops = MaxOps /\ UNCHANGED vars

Runs(p) == acquiresleep(p) \/ bwrite(p) \/ releasesleep(p) \/ brelse(p) \/ virtio_disk_rw(p) \/ finish_rw(p)
Hardware == \E i \in Ids : device_serve(i)
Handler == intr_ack \/ intr_used \/ intr_end

Next ==
    \/ \E p \in Procs : Runs(p) \/ \E r \in Requests[p] : bget(p, r[1], r[2])
    \/ Hardware \/ Handler \/ Finished

\* The scheduler runs every runnable process, the device answers every request, and the
\* interrupt is taken.
Fairness ==
    /\ \A p \in Procs : WF_vars(Runs(p))
    /\ (\A i \in Ids : WF_vars(device_serve(i)))
    /\ WF_vars(Handler)

Spec == Init /\ [][Next]_vars /\ Fairness

-----------------------------------------------------------------------------
\* At most one buffer stands for a block, and at most one process has its lock.
OneBuffer ==
    /\ \A b, c \in Bufs : buf[b].n = buf[c].n => b = c
    /\ \A b \in Bufs : Cardinality({p \in Procs : fr[p].b = b /\
            fr[p].pc \in {"have", "rw", "rw_sleep", "io_sleep", "io", "release"}}) = IF buf[b].locked THEN 1 ELSE 0

\* Who holds a locked, filled buffer sees what was last put into that block, however the
\* buffer came to the block (bget), whoever used, evicted or pinned it before, and in
\* whatever order the device answered; and no other buffer stands for the block.
ReadsLatest == OneBuffer /\ \A p \in Procs : At(p, "have") => buf[fr[p].b].data = latest[fr[p].n]

\* A block that nobody uses or pins is on the disk as it was last put: a write is over
\* only when the device has done it.
UnusedIsWritten ==
    \A n \in Blocks : (\A b \in Bufs : buf[b].n = n => buf[b].refcnt = 0) => platter[n] = latest[n]

\* The chains of the requests in flight are disjoint, and the other descriptors are the
\* free ones: alloc3_desc and free_chain lose none and give none twice.
DescriptorsExact ==
    LET inflight == {p \in Procs : fr[p].pc \in {"io_sleep", "io"}}
        chain == [p \in inflight |-> free_chain(fr[p].id)]
    IN  /\ UNION {chain[p] : p \in inflight} = Ids \ free
        /\ \A p \in inflight : Cardinality(chain[p]) = 3
        /\ \A p, q \in inflight : p # q => chain[p] \cap chain[q] = {}

\* Every operation on a block comes to its end: no wakeup of a sleep lock, of a request or
\* of a wait for descriptors is lost, and no completion is, though the handler
\* acknowledges the interrupt while the device goes on.
RequestsFinish == \A p \in Procs : ~At(p, "idle") ~> At(p, "idle")
=============================================================================
