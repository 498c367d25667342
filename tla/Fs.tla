--------------------------------- MODULE Fs ---------------------------------
(***************************************************************************)
(* Inodes, path names and the file system calls (kernel/fs.c, sysfile.c,   *)
(* file.c) of several processes, on an image that the log makes atomic     *)
(* (module Log): a crash brings back the image of the last moment at which *)
(* no operation was open.  A step reaches from one acquisition of an inode *)
(* lock to the next; within it the process holds what it changes.          *)
(***************************************************************************)
EXTENDS FsData

CONSTANTS Procs,      \* the processes that make calls
          InitProc,   \* the first process, which boots the file system
          Images,     \* what may be on the disk at the first boot
          Requests,   \* path calls: [call, abs, path, new, mode]
          Sources,    \* lengths and faults of the buffers given to write
          Chunk,      \* units filewrite puts into one operation
          NFILE,      \* open files in the system
          MaxCalls, MaxCrashes

ASSUME FsAssumption == NINODES > 1 /\ BSIZE > 2 /\ NDIRECT > 0 /\ NINDIRECT \in 1..BSIZE

VARIABLES disk,       \* the image with everything logged so far
          committed,  \* the image a crash leaves
          itable,     \* inode table: ref, valid, owner of the lock, copy of the inode
          pc, fr,     \* where a process is, and the variables of its call
          puts,       \* references it will drop with iput before it goes on
          cwd, ofile, calls, crashes

vars == <<disk, committed, itable, pc, fr, puts, cwd, ofile, calls, crashes>>

NoFile == [ip |-> 0, off |-> 0, mode |-> "none"]
NoFrame == [call |-> "none", abs |-> TRUE, path |-> <<>>, par |-> FALSE, ip |-> 0, dp |-> 0,
            old |-> 0, new |-> <<>>, name |-> "", mode |-> "none", src |-> <<>>]
NoEntry == [ref |-> 0, valid |-> FALSE, owner |-> 0, ip |-> Empty]
All == Procs \cup {InitProc}
Booted == [i \in Inums |-> IF i = ROOTINO THEN [NoEntry EXCEPT !.ref = Cardinality(All)] ELSE NoEntry]

Init ==
    /\ disk \in Images /\ committed = disk
    /\ itable = Booted
    /\ pc = [p \in All |-> "idle"] /\ fr = [p \in All |-> NoFrame]
    /\ puts = [p \in All |-> <<>>]
    /\ cwd = [p \in All |-> ROOTINO] /\ ofile = [p \in All |-> NoFile]
    /\ calls = 0 /\ crashes = 0

(***************************************************************************)
(* The inode table.                                                        *)
(***************************************************************************)
iget(T, i) == [T EXCEPT ![i].ref = @ + 1]

Cached(i) == IF itable[i].valid THEN itable[i].ip ELSE disk.inode[i]

\* ilock can go on; without a type it panics instead.
ilock(i) == itable[i].owner = 0 /\ Cached(i).type # "free"

\* Inode i, valid in the table with contents ip and its lock held by o.
With(T, i, ip, o) == [T EXCEPT ![i].valid = TRUE, ![i].ip = ip, ![i].owner = o]

Runs(p, k) == pc[p] = k /\ puts[p] = <<>>

\* The outcome of a step of p: image, table, where p goes, its variables, references to drop.
Becomes(p, D, T, k, f, ps) ==
    /\ disk' = D /\ itable' = T
    /\ pc' = [pc EXCEPT ![p] = k] /\ fr' = [fr EXCEPT ![p] = f] /\ puts' = [puts EXCEPT ![p] = ps]

Fails_keep(p, T, ps) == Becomes(p, disk, T, "end", NoFrame, <<>>)

\* The call gives up: it puts back what it holds and ends its operation.
Fails(p, T, ps) == Becomes(p, disk, T, "end", NoFrame, ps)
Rest == <<committed, calls, crashes>>

\* iput drops the last reference to an inode without links.
Unused(i) == itable[i].ref = 1 /\ itable[i].valid /\ itable[i].ip.nlink = 0

\* iput(ip) of the last reference to an inode without links locks it ...
iput_lock(p) ==
    /\ puts[p] # <<>>
    /\ LET i == Head(puts[p]) IN
        /\ Unused(i) /\ itable[i].owner = 0
        /\ itable' = [itable EXCEPT ![i].owner = p]
    /\ UNCHANGED <<disk, pc, fr, puts, cwd, ofile, Rest>>

\* ... frees its blocks and the inode itself, and unlocks it,
iput_free(p) ==
    /\ puts[p] # <<>>
    /\ LET i == Head(puts[p]) IN
        /\ itable[i].owner = p
        /\ disk' = iupdate(itrunc(disk, itable[i].ip).D, i, Empty)
        /\ itable' = [itable EXCEPT ![i].owner = 0, ![i].valid = FALSE, ![i].ip = Empty]
    /\ UNCHANGED <<pc, fr, puts, cwd, ofile, Rest>>

\* ... and then, as for any other inode, the reference goes.
iput_drop(p) ==
    /\ puts[p] # <<>>
    /\ LET i == Head(puts[p]) IN
        /\ ~Unused(i)
        /\ itable' = [itable EXCEPT ![i] = IF @.ref = 1 THEN NoEntry ELSE [@ EXCEPT !.ref = @ - 1]]
    /\ puts' = [puts EXCEPT ![p] = Tail(@)]
    /\ UNCHANGED <<disk, pc, fr, cwd, ofile, Rest>>

(***************************************************************************)
(* namex, one path element per step.  Its result x is in fr.ip: the inode, *)
(* or 0.                                                                   *)
(***************************************************************************)
Creates(f) == f.call \in {"mkdir", "mknod"} \/ (f.call = "open" /\ f.mode \in {"creat", "trunc"})
Second(f) == f.call = "link" /\ f.old # 0       \* link looks up its second path
WantsParent(f) == Creates(f) \/ f.call = "unlink" \/ Second(f)

After(f) == CASE Creates(f) -> "create_dp"
              [] Second(f) -> "link_dp"
              [] f.call = "link" -> "link_ip"
              [] f.call = "unlink" -> "unlink_dp"
              [] f.call = "chdir" -> "chdir_ip"
              [] OTHER -> "open_ip"

Start(q, p) == IF q.abs THEN ROOTINO ELSE cwd[p]

\* A process may make a call, once the boot is over.
Calls(p) == p \in Procs /\ Runs(p, "idle") /\ calls < MaxCalls /\ \A o \in All : fr[o].call # "boot"

\* A call starts: begin_op, and iget("/") or idup(cwd).
syscall(p, q) ==
    /\ Calls(p)
    /\ LET f == [NoFrame EXCEPT !.call = q.call, !.abs = q.abs, !.path = q.path, !.new = q.new, !.mode = q.mode] IN
        Becomes(p, disk, iget(itable, Start(q, p)), "namex",
                [f EXCEPT !.par = WantsParent(f), !.ip = Start(q, p)], <<>>)
    /\ calls' = calls + 1
    /\ UNCHANGED <<committed, cwd, ofile, crashes>>

Found(p, T, f, x, ps) ==
    IF x # 0 THEN Becomes(p, disk, T, After(f), [f EXCEPT !.ip = x], ps)
    ELSE IF Second(f) THEN Becomes(p, disk, T, "link_bad", [f EXCEPT !.ip = f.old], ps)
    ELSE Fails(p, T, ps)

namex(p) ==
    /\ Runs(p, "namex")
    /\ LET f == fr[p]
           i == f.ip
           c == Cached(i)
           T == With(itable, i, c, 0)
           name == Head(f.path)
           next == dirlookup(disk, c, name)
           g == [f EXCEPT !.path = Tail(@), !.ip = next]
       IN  \/ f.path = <<>> /\ f.par /\ Found(p, itable, f, 0, <<i>>)
           \/ f.path = <<>> /\ ~f.par /\ Found(p, itable, f, i, <<>>)
           \/ /\ f.path # <<>> /\ ilock(i)
              /\ IF c.type # "dir" THEN Found(p, T, f, 0, <<i>>)
                 ELSE IF f.par /\ Len(f.path) = 1 THEN Found(p, T, [f EXCEPT !.name = name], i, <<>>)
                 ELSE IF next = 0 THEN Found(p, T, f, 0, <<i>>)
                 ELSE Becomes(p, disk, iget(T, next), "namex", g, <<i>>)
    /\ UNCHANGED <<cwd, ofile, Rest>>

(***************************************************************************)
(* create, for open with O_CREATE, mkdir and mknod.                        *)
(***************************************************************************)
CreateType(f) == CASE f.call = "mkdir" -> "dir" [] f.call = "mknod" -> f.mode [] OTHER -> "file"

\* The caller of create: open goes on with ip locked, mkdir and mknod unlock and put it.
Created(p, D, T, f, i, ip, ps) ==
    IF f.call = "open" THEN Becomes(p, D, With(T, i, ip, p), "open_fin", [f EXCEPT !.ip = i], ps)
    ELSE Becomes(p, D, With(T, i, ip, 0), "end", NoFrame, ps \o <<i>>)

\* The new inode of create and its entries: the image, the two inodes, and success.
NewInode(D, d, dp, f, i) ==
    LET ip == [Empty EXCEPT !.type = CreateType(f), !.nlink = 1]
        DotDot(a) == IF a.n = 1 THEN dirlink(a.D, i, a.ip, "..", d) ELSE a
        Up(l) == IF ip.type = "dir" THEN [l.ip EXCEPT !.nlink = @ + 1] ELSE l.ip
        Linked(m, l) == IF l.n # 1 THEN [ok |-> FALSE, D |-> l.D, dp |-> l.ip, ip |-> m.ip]
                        ELSE [ok |-> TRUE, D |-> iupdate(l.D, d, Up(l)), dp |-> Up(l), ip |-> m.ip]
        Link(m) == IF m.n # 1 THEN [ok |-> FALSE, D |-> m.D, dp |-> dp, ip |-> m.ip]
                   ELSE Linked(m, dirlink(m.D, d, dp, f.name, i))
        new == iupdate(D, i, ip)
    IN  Link(IF ip.type = "dir" THEN DotDot(dirlink(new, i, ip, ".", i))
             ELSE [n |-> 1, D |-> new, ip |-> ip])

\* The name is there already, or ialloc finds no free inode, or the new inode is linked.
create_dp(p) ==
    /\ Runs(p, "create_dp") /\ ilock(fr[p].ip)
    /\ LET f == fr[p]
           d == f.ip
           c == Cached(d)
           T == With(itable, d, c, 0)
           old == dirlookup(disk, c, f.name)
           free == ialloc(disk)
       IN  \/ old # 0 /\ Becomes(p, disk, iget(T, old), "create_ip", [f EXCEPT !.ip = old], <<d>>)
           \/ old = 0 /\ free = {} /\ Fails(p, T, <<d>>)
           \/ /\ old = 0 /\ free # {}
              /\ \E i \in free : \E r \in {NewInode(disk, d, c, f, i)} :
                   LET U == iget(With(itable, d, r.dp, 0), i)
                       gone == [r.ip EXCEPT !.nlink = 0]
                   IN  IF r.ok THEN Created(p, r.D, U, f, i, r.ip, <<d>>)
                       ELSE Becomes(p, iupdate(r.D, i, gone), With(U, i, gone, 0), "end", NoFrame, <<i, d>>)
    /\ UNCHANGED <<cwd, ofile, Rest>>

\* An existing file or device will do for open, nothing existing for mkdir and mknod.
create_ip(p) ==
    /\ Runs(p, "create_ip") /\ ilock(fr[p].ip)
    /\ LET f == fr[p]
           c == Cached(f.ip)
       IN  IF f.call = "open" /\ c.type # "dir" THEN Created(p, disk, itable, f, f.ip, c, <<>>)
           ELSE Fails(p, With(itable, f.ip, c, 0), <<f.ip>>)
    /\ UNCHANGED <<cwd, ofile, Rest>>

(***************************************************************************)
(* open.                                                                   *)
(***************************************************************************)
open_ip(p) ==
    /\ Runs(p, "open_ip") /\ ilock(fr[p].ip)
    /\ LET f == fr[p]
           c == Cached(f.ip)
       IN  IF c.type = "dir" /\ f.mode # "read" THEN Fails(p, With(itable, f.ip, c, 0), <<f.ip>>)
           ELSE Becomes(p, disk, With(itable, f.ip, c, p), "open_fin", f, <<>>)
    /\ UNCHANGED <<cwd, ofile, Rest>>

Opened == {p \in All : ofile[p] # NoFile}

\* The inode is locked.  A device number out of range, a full file table or no
\* free descriptor (a process has one here) puts it back.
open_fin(p) ==
    /\ Runs(p, "open_fin")
    /\ LET f == fr[p]
           i == f.ip
           c == itable[i].ip
           t == itrunc(disk, c)
       IN  IF c.type = "baddev" \/ Cardinality(Opened) >= NFILE \/ p \in Opened
           THEN Fails(p, With(itable, i, c, 0), <<i>>) /\ UNCHANGED ofile
           ELSE /\ ofile' = [ofile EXCEPT ![p] = [ip |-> i, off |-> 0, mode |-> f.mode]]
                /\ IF f.mode = "trunc" /\ c.type = "file"
                   THEN Becomes(p, iupdate(t.D, i, t.ip), With(itable, i, t.ip, 0), "end", NoFrame, <<>>)
                   ELSE Becomes(p, disk, With(itable, i, c, 0), "end", NoFrame, <<>>)
    /\ UNCHANGED <<cwd, Rest>>

(***************************************************************************)
(* link.                                                                   *)
(***************************************************************************)
Counted_not(ip) == ip

Counted(ip) == [ip EXCEPT !.nlink = @ + 1]

\* The link is counted before it is made; then nameiparent(new).
link_ip(p) ==
    /\ Runs(p, "link_ip") /\ ilock(fr[p].ip)
    /\ LET f == fr[p]
           i == f.ip
           c == Cached(i)
       IN  IF c.type = "dir" THEN Fails(p, With(itable, i, c, 0), <<i>>)
           ELSE Becomes(p, iupdate(disk, i, Counted(c)), iget(With(itable, i, Counted(c), 0), Start(f, p)),
                        "namex", [f EXCEPT !.old = i, !.path = f.new, !.ip = Start(f, p), !.par = TRUE], <<>>)
    /\ UNCHANGED <<cwd, ofile, Rest>>

link_dp(p) ==
    /\ Runs(p, "link_dp") /\ ilock(fr[p].ip)
    /\ \E f \in {fr[p]} : \E l \in {dirlink(disk, f.ip, Cached(f.ip), f.name, f.old)} :
        LET T == With(itable, f.ip, l.ip, 0) IN
           IF l.n = 1 THEN Becomes(p, l.D, T, "end", NoFrame, <<f.ip, f.old>>)
           ELSE Becomes(p, l.D, T, "link_bad", [f EXCEPT !.ip = f.old], <<f.ip>>)
    /\ UNCHANGED <<cwd, ofile, Rest>>

link_bad(p) ==
    /\ Runs(p, "link_bad") /\ ilock(fr[p].ip)
    /\ LET i == fr[p].ip
           down == [Cached(i) EXCEPT !.nlink = @ - 1]
       IN  Becomes(p, iupdate(disk, i, down), With(itable, i, down, 0), "end", NoFrame, <<i>>)
    /\ UNCHANGED <<cwd, ofile, Rest>>

(***************************************************************************)
(* unlink keeps the directory locked while it locks the inode.             *)
(***************************************************************************)
unlink_dp(p) ==
    /\ Runs(p, "unlink_dp") /\ ilock(fr[p].ip)
    /\ LET f == fr[p]
           d == f.ip
           c == Cached(d)
           i == dirlookup(disk, c, f.name)
       IN  IF f.name \in {".", ".."} \/ i = 0 THEN Fails(p, With(itable, d, c, 0), <<d>>)
           ELSE Becomes(p, disk, iget(With(itable, d, c, p), i), "unlink_ip",
                        [f EXCEPT !.dp = d, !.ip = i], <<>>)
    /\ UNCHANGED <<cwd, ofile, Rest>>

Removable(D, ip) == ip.type = "dir" => isdirempty(D, ip)

unlink_ip(p) ==
    /\ Runs(p, "unlink_ip") /\ ilock(fr[p].ip) /\ Cached(fr[p].ip).nlink > 0
    /\ LET d == fr[p].dp
           i == fr[p].ip
           dp == itable[d].ip
           c == Cached(i)
           down == [c EXCEPT !.nlink = @ - 1]
       IN  \/ /\ ~Removable(disk, c)
              /\ Fails(p, With(With(itable, d, dp, 0), i, c, 0), <<i, d>>)
           \/ /\ Removable(disk, c)
              /\ \E w \in {writei(disk, dp, Min(Entry(disk, dp, fr[p].name)), <<Zero>>)} :
                   LET dp2 == IF c.type = "dir" THEN [w.ip EXCEPT !.nlink = @ - 1] ELSE w.ip
                   IN  Becomes(p, iupdate(iupdate(w.D, d, dp2), i, down),
                               With(With(itable, d, dp2, 0), i, down, 0), "end", NoFrame, <<d, i>>)
    /\ UNCHANGED <<cwd, ofile, Rest>>

chdir_ip(p) ==
    /\ Runs(p, "chdir_ip") /\ ilock(fr[p].ip)
    /\ LET i == fr[p].ip
           T == With(itable, i, Cached(i), 0)
       IN  IF Cached(i).type # "dir" THEN Fails(p, T, <<i>>) /\ UNCHANGED cwd
           ELSE Becomes(p, disk, T, "end", NoFrame, <<cwd[p]>>) /\ cwd' = [cwd EXCEPT ![p] = i]
    /\ UNCHANGED <<ofile, Rest>>

(***************************************************************************)
(* Calls on an open file.                                                  *)
(***************************************************************************)
Uses(p) == Calls(p) /\ p \in Opened /\ calls' = calls + 1

close(p) ==
    /\ Uses(p)
    /\ ofile' = [ofile EXCEPT ![p] = NoFile]
    /\ Becomes(p, disk, itable, "end", NoFrame, <<ofile[p].ip>>)
    /\ UNCHANGED <<cwd, committed, crashes>>

fileread(p) ==
    /\ Uses(p) /\ ilock(ofile[p].ip)
    /\ LET i == ofile[p].ip
           c == Cached(i)
       IN  /\ c.type \in {"file", "dir"}
           /\ ofile' = [ofile EXCEPT ![p].off = @ + Len(readi(disk, c, @, 1))]
           /\ itable' = With(itable, i, c, 0)
    /\ UNCHANGED <<disk, pc, fr, puts, cwd, committed, crashes>>

\* What a process writes into inode i tells which inode it was written to.
Piece(i) == <<"data", "of", i>>

call_filewrite(p, src) ==
    /\ Uses(p) /\ ofile[p].mode # "read" /\ Cached(ofile[p].ip).type = "file"
    /\ LET s == [k \in DOMAIN src |-> IF src[k] = "ok" THEN Piece(ofile[p].ip) ELSE Fault]
       IN  Becomes(p, disk, itable, "write", [NoFrame EXCEPT !.call = "write", !.src = s], <<>>)
    /\ UNCHANGED <<cwd, ofile, committed, crashes>>

\* One operation of filewrite's loop.
filewrite(p) ==
    /\ Runs(p, "write") /\ ilock(ofile[p].ip)
    /\ LET i == ofile[p].ip
           src == fr[p].src
           n1 == Min({Len(src), Chunk})
           left == SubSeq(src, n1 + 1, Len(src))
       IN  \E w \in {writei(disk, Cached(i), ofile[p].off, SubSeq(src, 1, n1))} :
           /\ ofile' = [ofile EXCEPT ![p].off = @ + Max({w.n, 0})]
           /\ Becomes(p, IF w.n = -1 THEN disk ELSE iupdate(w.D, i, w.ip), With(itable, i, w.ip, 0),
                      "end", [fr[p] EXCEPT !.src = IF w.n = n1 THEN left ELSE <<>>], <<>>)
    /\ UNCHANGED <<cwd, Rest>>

(***************************************************************************)
(* The end of an operation, crashes, and ireclaim during the next boot.    *)
(***************************************************************************)
end_op(p) ==
    /\ Runs(p, "end")
    /\ committed' = IF \A q \in All \ {p} : pc[q] = "idle" THEN disk ELSE committed
    /\ IF fr[p].src # <<>> THEN Becomes(p, disk, itable, "write", fr[p], <<>>)
       ELSE IF fr[p].call = "boot" THEN Becomes(p, disk, itable, "reclaim", fr[p], <<>>)
       ELSE Becomes(p, disk, itable, "idle", NoFrame, <<>>)
    /\ UNCHANGED <<cwd, ofile, calls, crashes>>

crash ==
    /\ crashes < MaxCrashes /\ crashes' = crashes + 1
    /\ disk' = committed /\ itable' = Booted
    /\ pc' = [p \in All |-> IF p = InitProc THEN "reclaim" ELSE "idle"]
    /\ fr' = [p \in All |-> IF p = InitProc THEN [NoFrame EXCEPT !.call = "boot", !.ip = 1] ELSE NoFrame]
    /\ puts' = [p \in All |-> <<>>]
    /\ cwd' = [p \in All |-> ROOTINO] /\ ofile' = [p \in All |-> NoFile]
    /\ UNCHANGED <<committed, calls>>

Orphans_none(D) == {}

\* The inodes ireclaim frees.
Orphans(D) == {i \in Inums : D.inode[i].type # "free" /\ D.inode[i].nlink = 0}

ireclaim(p) ==
    /\ Runs(p, "reclaim")
    /\ LET left == {i \in Orphans(disk) : i >= fr[p].ip}
           i == Min(left)
       IN  IF left = {} THEN Becomes(p, disk, itable, "idle", NoFrame, <<>>)
           ELSE Becomes(p, disk, With(iget(itable, i), i, disk.inode[i], 0), "end",
                        [fr[p] EXCEPT !.ip = i + 1], <<i>>)
    /\ UNCHANGED <<cwd, ofile, Rest>>

Idle == (\A p \in All : pc[p] = "idle")

Finished == Idle /\ calls = MaxCalls /\ UNCHANGED vars

Step(p) ==
    \/ \E q \in Requests : syscall(p, q)
    \/ \E s \in Sources : call_filewrite(p, s)
    \/ iput_lock(p) \/ iput_free(p) \/ iput_drop(p) \/ namex(p)
    \/ create_dp(p) \/ create_ip(p) \/ open_ip(p) \/ open_fin(p)
    \/ link_ip(p) \/ link_dp(p) \/ link_bad(p) \/ unlink_dp(p) \/ unlink_ip(p) \/ chdir_ip(p)
    \/ close(p) \/ fileread(p) \/ filewrite(p) \/ end_op(p) \/ ireclaim(p)

Next == (\E p \in All : Step(p)) \/ crash \/ Finished

Spec == Init /\ [][Next]_vars

-----------------------------------------------------------------------------
\* The directories that a path from the root leads to, in at most n elements.
Below(D, n) ==
    LET Listed(d) == {Unit(D, D.inode[d], u) : u \in Slots(D.inode[d])} \ {Zero}
        up[k \in 0..n] == IF k = 0 THEN {ROOTINO}
                          ELSE up[k - 1] \cup {i \in {e[2] : e \in UNION {Listed(d) : d \in up[k - 1]}} :
                                                D.inode[i].type = "dir"}
    IN  up[n]
Names(D, dirs, i) ==
    UNION {{<<d, u>> : u \in {v \in Slots(D.inode[d]) : LET e == Unit(D, D.inode[d], v)
                                                    IN  e # Zero /\ e[1] # "." /\ e[2] = i}} : d \in dirs}

\* On the image a crash leaves, every inode has at least as many links as there are
\* entries for it, "." aside: removing names (unlink) cannot free an inode that still
\* has one, whatever calls ran together and wherever the crash came.
LinksCounted ==
    \A dirs \in {Below(committed, NINODES)}, i \in Inums : \A ns \in {Names(committed, dirs, i)} :
        ns # {} => committed.inode[i].type # "free" /\ committed.inode[i].nlink >= Cardinality(ns)

\* On the image a crash leaves, the blocks marked in use are those the inodes refer to,
\* and no two inodes share one: balloc, bfree and itrunc lose and duplicate nothing.
BlocksExact ==
    LET of == [i \in Inums |-> BlocksOf(committed, committed.inode[i])]
    IN  /\ UNION {of[i] : i \in Inums} = committed.used
        /\ \A i, j \in Inums : i # j => of[i] \cap of[j] = {}

\* A file contains, up to its size, only what was written to it: no zeros, no old
\* contents of a reused block, no pieces of another file.
FilesHoldOwnData ==
    \A i \in Inums : LET ip == disk.inode[i] IN
        ip.type = "file" => \A u \in Slots(ip) : Unit(disk, ip, u) = Piece(i)

\* The panics of ilock (an inode without a type) and unlink (an inode without links); and an
\* open file or a current directory whose inode has been freed.
NoPanic ==
    \A p \in All :
        /\ pc[p] \in {"create_dp", "create_ip", "open_ip", "link_ip", "link_dp", "link_bad", "unlink_dp",
                     "unlink_ip", "chdir_ip"} \/ (pc[p] = "namex" /\ fr[p].path # <<>>)
           => (puts[p] = <<>> /\ itable[fr[p].ip].owner = 0
           => Cached(fr[p].ip).type # "free" /\ (pc[p] = "unlink_ip" => Cached(fr[p].ip).nlink > 0))
        /\ Cached(cwd[p]).type = "dir"
        /\ ofile[p] # NoFile => Cached(ofile[p].ip).type # "free"

\* When no call is running, the reference count of an inode is the number of open files
\* and current directories that point to it: no path through the calls, with all
\* their failures, keeps a reference or drops one too many.  References keep inodes alive:
\* no call meets a freed one.
RefsExact ==
    /\ NoPanic
    /\ Idle => \A i \in Inums : itable[i].ref =
            Cardinality({p \in All : cwd[p] = i}) + Cardinality({p \in All : ofile[p].ip = i})

\* When no call is running, an inode without links is one that somebody still uses; after
\* a crash nobody does, so ireclaim has freed them all.
NoOrphans ==
    Idle => \A i \in Inums : disk.inode[i].type # "free" /\ disk.inode[i].nlink = 0 => itable[i].ref > 0
=============================================================================
