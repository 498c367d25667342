------------------------------- MODULE FsData -------------------------------
(***************************************************************************)
(* Inode contents and the block allocator (kernel/fs.c), as operators on a *)
(* disk image D: the inodes, the bitmap and the data blocks.  A block      *)
(* holds BSIZE units.  A unit is a tuple: <<>> is all zero bytes,          *)
(* <<name, inum>> a directory entry, <<addr>> an entry of an indirect      *)
(* block, and any other tuple a piece of a file.                           *)
(***************************************************************************)
EXTENDS Integers, Sequences, FiniteSetsExt

CONSTANTS NINODES,  \* inodes are numbered from 1
          NBLOCKS,  \* data blocks are numbered from 1, address 0 is "none"
          BSIZE, NDIRECT, NINDIRECT

ROOTINO == 1
Inums == 1..NINODES
Blocks == 1..NBLOCKS
MAXFILE == NDIRECT + NINDIRECT
Zero == <<>>
Fault == <<"fault", "fault", "fault">>  \* a unit of an unmapped user page
Empty == [type |-> "free", nlink |-> 0, size |-> 0, addrs |-> [k \in 0..NDIRECT |-> 0]]
Zeroed == [k \in 0..BSIZE - 1 |-> Zero]

(***************************************************************************)
(* Blocks.                                                                 *)
(***************************************************************************)
bzero(D, b) == [D EXCEPT !.data[b] = Zeroed]

bfree(D, bs) == [D EXCEPT !.used = @ \ bs]

\* The first free block, marked in use and zeroed; address 0 when the disk is full.
balloc(D) ==
    LET b == Min(Blocks \ D.used)
    IN  IF D.used = Blocks THEN [addr |-> 0, D |-> D]
        ELSE [addr |-> b, D |-> bzero([D EXCEPT !.used = @ \cup {b}], b)]

\* The blocks an inode refers to: direct, in the indirect block, the indirect block.
Direct(ip) == {ip.addrs[k] : k \in 0..NDIRECT - 1} \ {0}
Indirect(D, ip) ==
    LET a == ip.addrs[NDIRECT]
    IN  IF a = 0 THEN {} ELSE {D.data[a][j][1] : j \in {k \in 0..NINDIRECT - 1 : D.data[a][k] # Zero}}
BlocksOf(D, ip) == Direct(ip) \cup Indirect(D, ip) \cup ({ip.addrs[NDIRECT]} \ {0})

itrunc_direct(D, ip) ==
    [D |-> bfree(D, Direct(ip) \cup ({ip.addrs[NDIRECT]} \ {0})),
     ip |-> [ip EXCEPT !.addrs = Empty.addrs, !.size = 0]]

\* Every block of the inode is given back with bfree.
itrunc(D, ip) ==
    [D |-> bfree(D, BlocksOf(D, ip)),
     ip |-> [ip EXCEPT !.addrs = Empty.addrs, !.size = 0]]

(***************************************************************************)
(* bmap: the address of block bn of ip, which is allocated when there is   *)
(* none.                                                                   *)
(***************************************************************************)
AddrSlot(D, ip, k) ==
    LET Set(r) == [addr |-> r.addr, D |-> r.D, ip |-> [ip EXCEPT !.addrs[k] = r.addr]]
    IN  IF ip.addrs[k] # 0 THEN [addr |-> ip.addrs[k], D |-> D, ip |-> ip] ELSE Set(balloc(D))

bmap(D, ip, bn) ==
    LET j == bn - NDIRECT
        Enter(i, r) == IF r.addr = 0 THEN [i EXCEPT !.addr = 0]
                       ELSE [addr |-> r.addr, ip |-> i.ip, D |-> [r.D EXCEPT !.data[i.addr][j] = <<r.addr>>]]
        Behind(i) == IF i.addr = 0 THEN i
                     ELSE IF i.D.data[i.addr][j] # Zero THEN [i EXCEPT !.addr = i.D.data[i.addr][j][1]]
                     ELSE Enter(i, balloc(i.D))
    IN  IF bn < NDIRECT THEN AddrSlot(D, ip, bn) ELSE Behind(AddrSlot(D, ip, NDIRECT))

(***************************************************************************)
(* readi and writei, in units.  readi finds every block of the file        *)
(* allocated (FilesHoldOwnData of module Fs), so it changes no image.      *)
(***************************************************************************)
Unit(D, ip, u) ==
    LET bn == u \div BSIZE
        At(a) == IF a = 0 THEN Zero ELSE D.data[a][u % BSIZE]
        In(a) == IF a = 0 \/ D.data[a][bn - NDIRECT] = Zero THEN Zero ELSE At(D.data[a][bn - NDIRECT][1])
    IN  IF bn < NDIRECT THEN At(ip.addrs[bn]) ELSE In(ip.addrs[NDIRECT])

readi(D, ip, off, n) ==
    IF off > ip.size THEN <<>>
    ELSE [k \in 1..Min({n, ip.size - off}) |-> Unit(D, ip, off + k - 1)]

\* One turn of writei's loop per block; a fault in the source ends it, with the
\* units before the fault already copied into the block (into its buffer, which
\* is not logged: that a crash or the cache may still drop them is left out).
RECURSIVE CopyBlocks(_, _, _, _, _)
CopyBlocks(D, ip, off, src, tot) ==
    LET o == off % BSIZE
        m == Min({Len(src) - tot, BSIZE - o})
        bad == {k \in 0..m - 1 : src[tot + k + 1] = Fault}
        Copied(b, n) == [b.D EXCEPT !.data[b.addr] = [k \in 0..BSIZE - 1 |->
                            IF o <= k /\ k < o + n THEN src[tot + k - o + 1] ELSE @[k]]]
        Turn(b) == IF b.addr = 0 THEN [n |-> tot, D |-> b.D, ip |-> b.ip, off |-> off]
                   ELSE IF bad # {} THEN [n |-> tot, D |-> Copied(b, Min(bad)), ip |-> b.ip, off |-> off]
                   ELSE CopyBlocks(Copied(b, m), b.ip, off + m, src, tot + m)
    IN  IF tot >= Len(src) THEN [n |-> tot, D |-> D, ip |-> ip, off |-> off]
        ELSE Turn(bmap(D, ip, off \div BSIZE))

Sized_end(w, end) == [n |-> w.n, D |-> w.D, ip |-> [w.ip EXCEPT !.size = Max({@, end})]]

\* The file ends no earlier than the last block that was copied completely.
Sized(w, end) == [n |-> w.n, D |-> w.D, ip |-> [w.ip EXCEPT !.size = Max({@, w.off})]]

writei(D, ip, off, src) ==
    IF off > ip.size \/ off + Len(src) > MAXFILE * BSIZE THEN [n |-> -1, D |-> D, ip |-> ip]
    ELSE Sized(CopyBlocks(D, ip, off, src, 0), off + Len(src))

\* Copy a modified in-memory inode to the disk.
iupdate(D, i, ip) == [D EXCEPT !.inode[i] = ip]

\* The inode that ialloc finds; there may be none.
ialloc(D) == {i \in Inums : D.inode[i].type = "free" /\ \A j \in 1..i - 1 : D.inode[j].type # "free"}

(***************************************************************************)
(* Directories.                                                            *)
(***************************************************************************)
Slots(ip) == 0..ip.size - 1
Entry(D, dp, name) == {u \in Slots(dp) : Unit(D, dp, u) # Zero /\ Unit(D, dp, u)[1] = name}

\* The inode number under a name, 0 when there is no such entry.
dirlookup(D, dp, name) ==
    LET Of(E) == IF E = {} THEN 0 ELSE Unit(D, dp, Min(E))[2] IN Of(Entry(D, dp, name))

\* A new entry in the first empty slot or at the end; n = 1 on success.  writei
\* writes dp back to the disk, also when it fails after bmap took a block.
dirlink(D, d, dp, name, inum) ==
    LET free == {u \in Slots(dp) : Unit(D, dp, u) = Zero}
        off == IF free = {} THEN dp.size ELSE Min(free)
        Linked(w) == [n |-> w.n, D |-> IF w.n = -1 THEN D ELSE iupdate(w.D, d, w.ip), ip |-> w.ip]
    IN  IF dirlookup(D, dp, name) # 0 THEN [n |-> -1, D |-> D, ip |-> dp]
        ELSE Linked(writei(D, dp, off, <<<<name, inum>>>>))

\* Nothing but "." and "..", which are the first two slots.
isdirempty(D, dp) == \A u \in Slots(dp) \ {0, 1} : Unit(D, dp, u) = Zero

(***************************************************************************)
(* The image mkfs writes: the root directory with its two entries, its     *)
(* size rounded up to whole blocks.                                        *)
(***************************************************************************)
mkfs ==
    LET root == [Empty EXCEPT !.type = "dir", !.nlink = 1, !.addrs[0] = 1,
                              !.size = (2 \div BSIZE + 1) * BSIZE]
    IN  [inode |-> [i \in Inums |-> IF i = ROOTINO THEN root ELSE Empty],
         used |-> {1},
         data |-> [b \in Blocks |-> IF b = 1 THEN [Zeroed EXCEPT ![0] = <<".", ROOTINO>>,
                                                                ![1] = <<"..", ROOTINO>>]
                                    ELSE Zeroed]]
=============================================================================
