------------------------------- MODULE Memory -------------------------------
(***************************************************************************)
(* Physical pages and user page tables (kernel/kalloc.c, vm.c, exec.c and  *)
(* the memory side of proc.c and sysproc.c), as operators on K: the free   *)
(* pages, the contents of pages, and what has gone wrong.  A page table    *)
(* has three levels, as in Sv39, with E entries in a page.  Addresses and  *)
(* sizes count units, PGSIZE to a page.                                    *)
(***************************************************************************)
EXTENDS Integers, Sequences, FiniteSetsExt, SequencesExt

CONSTANTS NPAGES, E, PGSIZE, USERSTACK,
          NPROC, Programs, Amounts, MaxCalls   \* processes, what they exec and sbrk, and how many calls

VARIABLES K,      \* [free, mem, wrong]
          proc,   \* [state, tf, pt, sz] of each process: trapframe, page table, size
          pipes,  \* pages that pipealloc has taken
          calls

vars == <<K, proc, pipes, calls>>

Pages == 1..NPAGES
MAXVA == E * E * E * PGSIZE
TRAMPOLINE == MAXVA - PGSIZE
TRAPFRAME == TRAMPOLINE - PGSIZE
Trampoline == NPAGES + 1           \* the page with trampoline.S, not from kalloc
PGROUNDUP(a) == ((a + PGSIZE - 1) \div PGSIZE) * PGSIZE
PGROUNDDOWN(a) == (a \div PGSIZE) * PGSIZE
PX(level, va) == ((va \div PGSIZE) \div E^level) % E

NoPte == [pa |-> 0, perm |-> {}]   \* PTE_V is clear
EmptyTable == [i \in 0..E - 1 |-> NoPte]
Wrong(k, what) == [k EXCEPT !.wrong = @ \cup {what}]

(***************************************************************************)
(* kalloc.c.  The free list is a set: pages are interchangeable.  Pages    *)
(* are filled with junk when they come and go.                             *)
(***************************************************************************)
kalloc(k) ==
    IF k.free = {} THEN [pa |-> 0, K |-> k]
    ELSE [pa |-> Min(k.free), K |-> [k EXCEPT !.free = @ \ {Min(@)}, !.mem[Min(k.free)] = "junk"]]

kfree(k, pa) == IF pa \notin Pages \/ pa \in k.free THEN Wrong(k, "kfree")
                ELSE [k EXCEPT !.free = @ \cup {pa}, !.mem[pa] = "junk"]

(***************************************************************************)
(* vm.c.  walk ends at the page-table page of level 0 for va.              *)
(***************************************************************************)
RECURSIVE walk(_, _, _, _, _)
walk(k, t, va, level, alloc) ==
    LET i == PX(level, va)
        Filled(r) == IF r.pa = 0 THEN [ok |-> FALSE, K |-> r.K, t |-> 0]
                     ELSE walk([r.K EXCEPT !.mem[r.pa] = EmptyTable, !.mem[t][i] = [pa |-> r.pa, perm |-> {}]],
                               r.pa, va, level - 1, alloc)
    IN  IF va >= MAXVA THEN [ok |-> FALSE, K |-> Wrong(k, "walk"), t |-> 0]
        ELSE IF level = 0 THEN [ok |-> TRUE, K |-> k, t |-> t]
        ELSE IF k.mem[t][i].pa # 0 THEN walk(k, k.mem[t][i].pa, va, level - 1, alloc)
        ELSE IF ~alloc THEN [ok |-> FALSE, K |-> k, t |-> 0]
        ELSE Filled(kalloc(k))

\* The entry for va, NoPte when there is none or it is not valid.
PteOf(k, t, va) == LET At(w) == IF w.ok THEN k.mem[w.t][PX(0, va)] ELSE NoPte IN At(walk(k, t, va, 2, FALSE))
SetPte(k, t, va, pte) == LET At(w) == [k EXCEPT !.mem[w.t][PX(0, va)] = pte] IN At(walk(k, t, va, 2, FALSE))

walkaddr(k, t, va) == LET U(pte) == IF "U" \in pte.perm THEN pte.pa ELSE 0
                      IN  IF va >= MAXVA THEN 0 ELSE U(PteOf(k, t, va))
ismapped(k, t, va) == PteOf(k, t, va).pa # 0

\* One page, as all callers ask for.
mappages(k, t, va, pa, perm) ==
    LET Put(w) == IF ~w.ok THEN [ok |-> FALSE, K |-> w.K]
                  ELSE IF w.K.mem[w.t][PX(0, va)].pa # 0 THEN [ok |-> TRUE, K |-> Wrong(w.K, "mappages: remap")]
                  ELSE [ok |-> TRUE, K |-> [w.K EXCEPT !.mem[w.t][PX(0, va)] = [pa |-> pa, perm |-> perm]]]
    IN  Put(walk(k, t, va, 2, TRUE))

unmap(k, t, va, do_free) ==
    LET Off(pte) == IF pte.pa = 0 THEN k
                    ELSE IF do_free THEN SetPte(kfree(k, pte.pa), t, va, NoPte) ELSE SetPte(k, t, va, NoPte)
    IN  Off(PteOf(k, t, va))
uvmunmap(k, t, va, npages, do_free) ==
    FoldLeft(LAMBDA kk, j : unmap(kk, t, va + (j - 1) * PGSIZE, do_free), k, [j \in 1..npages |-> j])

uvmdealloc_down(k, t, oldsz, newsz) ==
    IF newsz >= oldsz THEN [K |-> k, sz |-> oldsz]
    ELSE [K |-> uvmunmap(k, t, PGROUNDUP(newsz), (oldsz - newsz) \div PGSIZE, TRUE), sz |-> newsz]

uvmdealloc(k, t, oldsz, newsz) ==
    IF newsz >= oldsz THEN [K |-> k, sz |-> oldsz]
    ELSE [K |-> uvmunmap(k, t, PGROUNDUP(newsz), (PGROUNDUP(oldsz) - PGROUNDUP(newsz)) \div PGSIZE, TRUE),
          sz |-> newsz]

MapNew_leak(k, t, va, perm, content) ==
    LET With(r) == IF r.pa = 0 THEN [ok |-> FALSE, K |-> r.K]
                   ELSE mappages([r.K EXCEPT !.mem[r.pa] = content], t, va, r.pa, perm)
    IN  With(kalloc(k))

\* A zeroed page at va.  Without memory for it or for the tables, nothing is kept but
\* tables that are now part of the page table.
MapNew(k, t, va, perm, content) ==
    LET Mapped(m, pa) == IF m.ok THEN m ELSE [m EXCEPT !.K = kfree(@, pa)]
        With(r) == IF r.pa = 0 THEN [ok |-> FALSE, K |-> r.K]
                   ELSE Mapped(mappages([r.K EXCEPT !.mem[r.pa] = content], t, va, r.pa, perm), r.pa)
    IN  With(kalloc(k))

RECURSIVE Grow(_, _, _, _, _, _)
Grow(k, t, a, oldsz, newsz, perm) ==
    LET Went(m) == IF m.ok THEN Grow(m.K, t, a + PGSIZE, oldsz, newsz, perm)
                   ELSE [K |-> uvmdealloc(m.K, t, a, oldsz).K, sz |-> 0]
    IN  IF a >= newsz THEN [K |-> k, sz |-> newsz] ELSE Went(MapNew(k, t, a, perm, "zero"))

\* sz = 0 on failure.
uvmalloc(k, t, oldsz, newsz, xperm) ==
    IF newsz < oldsz THEN [K |-> k, sz |-> oldsz]
    ELSE Grow(k, t, PGROUNDUP(oldsz), PGROUNDUP(oldsz), newsz, {"R", "U"} \cup xperm)

RECURSIVE freewalk(_, _)
freewalk(k, t) ==
    LET Entry(kk, i) == LET pte == k.mem[t][i - 1] IN
            IF pte.pa = 0 THEN kk ELSE IF pte.perm = {} THEN freewalk(kk, pte.pa) ELSE Wrong(kk, "freewalk: leaf")
    IN  kfree(FoldLeft(Entry, k, [i \in 1..E |-> i]), t)

uvmfree(k, t, sz) == freewalk(uvmunmap(k, t, 0, PGROUNDUP(sz) \div PGSIZE, TRUE), t)

RECURSIVE CopyFrom(_, _, _, _, _)
CopyFrom(k, old, new, i, sz) ==
    LET Went(m) == IF m.ok THEN CopyFrom(m.K, old, new, i + PGSIZE, sz)
                   ELSE [ok |-> FALSE, K |-> uvmunmap(m.K, new, 0, i \div PGSIZE, TRUE)]
        Page(pte) == IF pte.pa = 0 THEN CopyFrom(k, old, new, i + PGSIZE, sz)
                     ELSE Went(MapNew(k, new, i, pte.perm, k.mem[pte.pa]))
    IN  IF i >= sz THEN [ok |-> TRUE, K |-> k] ELSE Page(PteOf(k, old, i))

uvmcopy_stop(k, old, new, sz) ==
    CopyFrom(k, old, new, 0, Min({sz} \cup {i \in 0..sz - 1 : i % PGSIZE = 0 /\ ~ismapped(k, old, i)}))

uvmcopy(k, old, new, sz) == CopyFrom(k, old, new, 0, sz)

uvmclear(k, t, va) ==
    LET Off(w) == IF ~w.ok THEN Wrong(k, "uvmclear") ELSE [k EXCEPT !.mem[w.t][PX(0, va)].perm = @ \ {"U"}]
    IN  Off(walk(k, t, va, 2, FALSE))

\* A page that sbrk promised lazily.
vmfault(k, t, sz, va) ==
    IF va >= sz \/ ismapped(k, t, PGROUNDDOWN(va)) THEN [ok |-> FALSE, K |-> k]
    ELSE MapNew(k, t, PGROUNDDOWN(va), {"R", "W", "U"}, "zero")

(***************************************************************************)
(* proc.c: the page table of a process.                                    *)
(***************************************************************************)
\* pt = 0 on failure.
proc_pagetable(k, tf) ==
    LET Second(m, t) == IF m.ok THEN [pt |-> t, K |-> m.K]
                        ELSE [pt |-> 0, K |-> uvmfree(uvmunmap(m.K, t, TRAMPOLINE, 1, FALSE), t, 0)]
        First(m, t) == IF m.ok THEN Second(mappages(m.K, t, TRAPFRAME, tf, {"R", "W"}), t)
                       ELSE [pt |-> 0, K |-> uvmfree(m.K, t, 0)]
        uvmcreate(r) == IF r.pa = 0 THEN [pt |-> 0, K |-> r.K]
                        ELSE First(mappages([r.K EXCEPT !.mem[r.pa] = EmptyTable], r.pa, TRAMPOLINE,
                                            Trampoline, {"R", "X"}), r.pa)
    IN  uvmcreate(kalloc(k))

proc_freepagetable(k, t, sz) ==
    uvmfree(uvmunmap(uvmunmap(k, t, TRAMPOLINE, 1, FALSE), t, TRAPFRAME, 1, FALSE), t, sz)

NoProc == [state |-> "UNUSED", tf |-> 0, pt |-> 0, sz |-> 0]

\* The memory of freeproc: what the process has by now.
freeproc(k, P) ==
    LET kk == IF P.tf = 0 THEN k ELSE kfree(k, P.tf)
    IN  IF P.pt = 0 THEN kk ELSE proc_freepagetable(kk, P.pt, P.sz)

\* allocproc: a trapframe and an empty page table, or NoProc.
allocproc(k) ==
    LET Table(r, tf) == IF r.pt = 0 THEN [P |-> NoProc, K |-> kfree(r.K, tf)]
                        ELSE [P |-> [state |-> "USED", tf |-> tf, pt |-> r.pt, sz |-> 0], K |-> r.K]
        Frame(r) == IF r.pa = 0 THEN [P |-> NoProc, K |-> r.K] ELSE Table(proc_pagetable(r.K, r.pa), r.pa)
    IN  Frame(kalloc(k))

\* kfork's child, or NoProc.
Forked(k, P) ==
    LET Copied(c, Q) == IF c.ok THEN [P |-> [Q EXCEPT !.state = "RUNNABLE", !.sz = P.sz], K |-> c.K]
                        ELSE [P |-> NoProc, K |-> freeproc(c.K, Q)]
        Child(r) == IF r.P = NoProc THEN r ELSE Copied(uvmcopy(r.K, P.pt, r.P.pt, P.sz), r.P)
    IN  Child(allocproc(k))

\* growproc: the process after it.  Below zero the unsigned size wraps around, and nothing is freed.
growproc(k, P, n) ==
    LET Grown(r) == IF r.sz = 0 THEN [P |-> P, K |-> r.K] ELSE [P |-> [P EXCEPT !.sz = r.sz], K |-> r.K]
        Shrunk(r) == [P |-> [P EXCEPT !.sz = r.sz], K |-> r.K]
    IN  IF n > 0 THEN IF P.sz + n > TRAPFRAME THEN [P |-> P, K |-> k]
                      ELSE Grown(uvmalloc(k, P.pt, P.sz, P.sz + n, {"W"}))
        ELSE IF n < 0 /\ P.sz + n >= 0 THEN Shrunk(uvmdealloc(k, P.pt, P.sz, P.sz + n))
        ELSE [P |-> P, K |-> k]

(***************************************************************************)
(* kexec.  A program is its segments to load, the number of arguments and  *)
(* what happens to the rest of the call: reading a segment fails, or the   *)
(* arguments do not fit.                                                   *)
(***************************************************************************)
loadseg(k, t, va, filesz) ==
    FoldLeft(LAMBDA kk, i : IF walkaddr(kk, t, va + (i - 1) * PGSIZE) = 0 THEN Wrong(kk, "loadseg")
                           ELSE [kk EXCEPT !.mem[walkaddr(kk, t, va + (i - 1) * PGSIZE)] = "text"],
             k, [i \in 1..PGROUNDUP(filesz) \div PGSIZE |-> i])

\* x = [ok, k, sz] after the segments so far.
LoadSegment(x, t, s) ==
    LET Loaded(r) == IF r.sz = 0 THEN [x EXCEPT !.ok = FALSE, !.K = r.K]
                     ELSE [ok |-> s.reads, sz |-> r.sz, K |-> loadseg(r.K, t, s.vaddr, s.filesz)]
    IN  IF ~x.ok THEN x
        ELSE IF s.memsz < s.filesz \/ s.vaddr % PGSIZE # 0 THEN [x EXCEPT !.ok = FALSE]
        ELSE Loaded(uvmalloc(x.K, t, x.sz, s.vaddr + s.memsz, s.perm))

kexec(k, P, prog) ==
    LET Bad(x, t) == [P |-> P, K |-> proc_freepagetable(x.K, t, x.sz)]
        Commit(kk, t, sz) == [P |-> [P EXCEPT !.pt = t, !.sz = sz], K |-> proc_freepagetable(kk, P.pt, P.sz)]
        Stack(r, x, t) ==
            IF r.sz = 0 THEN Bad([x EXCEPT !.K = r.K], t)
            ELSE IF ~prog.args THEN Bad([x EXCEPT !.K = uvmclear(r.K, t, r.sz - (USERSTACK + 1) * PGSIZE), !.sz = r.sz], t)
            ELSE Commit(uvmclear(r.K, t, r.sz - (USERSTACK + 1) * PGSIZE), t, r.sz)
        Loaded(x, t) == IF ~x.ok THEN Bad(x, t)
                        ELSE Stack(uvmalloc(x.K, t, PGROUNDUP(x.sz), PGROUNDUP(x.sz) + (USERSTACK + 1) * PGSIZE, {"W"}),
                                   [x EXCEPT !.sz = PGROUNDUP(@)], t)
        New(r) == IF r.pt = 0 THEN [P |-> P, K |-> r.K]
                  ELSE Loaded(FoldLeft(LAMBDA x, s : LoadSegment(x, r.pt, s), [ok |-> TRUE, K |-> r.K, sz |-> 0], prog.segs), r.pt)
    IN  New(proc_pagetable(k, P.tf))

(***************************************************************************)
(* The calls of processes.  Page tables are private and the free list is   *)
(* under kmem.lock, so a call is one step; pipealloc's pages stand for the *)
(* other users of the free list and vary what a call finds.                *)
(***************************************************************************)
NoMemory == [free |-> Pages, mem |-> [pg \in Pages |-> "junk"], wrong |-> {}]
\* The first process: userinit, then kexec in forkret.  It may have forked once at the start.
Booted(prog) == LET Runs(r) == kexec(r.K, [r.P EXCEPT !.state = "RUNNABLE"], prog) IN Runs(allocproc(NoMemory))

Init ==
    /\ \E r \in {Booted(prog) : prog \in Programs} :
        /\ r.P.sz > 0
        /\ \E f \in {Forked(r.K, r.P), [P |-> NoProc, K |-> r.K]} :
            /\ K = f.K
            /\ proc = [p \in 1..NPROC |-> IF p = 1 THEN r.P ELSE IF p = 2 THEN f.P ELSE NoProc]
    /\ pipes = {}
    /\ calls = 0

Runs(p) == proc[p].state = "RUNNABLE" /\ calls < MaxCalls /\ calls' = calls + 1
Becomes(p, r) == K' = r.K /\ proc' = [proc EXCEPT ![p] = r.P]

\* The child goes to a slot that allocproc finds; there may be none.
kfork(p) ==
    /\ Runs(p) /\ UNCHANGED pipes
    /\ \E c \in {q \in 1..NPROC : proc[q].state = "UNUSED"} :
        /\ \A q \in 1..c - 1 : proc[q].state # "UNUSED"
        /\ Becomes(c, Forked(K, proc[p]))

\* The pages of the argument strings, for the time of the call; without memory for all of them
\* sys_exec gives back those it has.
sys_exec(p) ==
    /\ Runs(p) /\ UNCHANGED pipes
    /\ \E prog \in Programs :
        LET argv == {pg \in K.free : Cardinality({q \in K.free : q <= pg}) <= prog.argc}
            Ran(r) == [r EXCEPT !.K.free = @ \cup argv]
        IN  Becomes(p, IF Cardinality(argv) < prog.argc THEN [P |-> proc[p], K |-> K]
                       ELSE Ran(kexec([K EXCEPT !.free = @ \ argv], proc[p], prog)))

sys_sbrk(p) ==
    /\ Runs(p) /\ UNCHANGED pipes
    /\ \E n \in Amounts, eager \in BOOLEAN :
        IF eager \/ n < 0 THEN Becomes(p, growproc(K, proc[p], n))
        ELSE /\ proc[p].sz + n <= TRAPFRAME
             /\ Becomes(p, [P |-> [proc[p] EXCEPT !.sz = @ + n], K |-> K])

\* A store by the process itself: through usertrap when it faults, which kills the process
\* unless vmfault can help.
Stored(k, t, va, v) == [k EXCEPT !.mem[walkaddr(k, t, va)] = v]
usertrap(p) ==
    /\ Runs(p) /\ p > 1 /\ UNCHANGED pipes
    /\ \E va \in 0..TRAPFRAME - 1 :
        LET P == proc[p]
            Fault(f) == IF f.ok THEN [P |-> P, K |-> Stored(f.K, P.pt, va, "user")]
                        ELSE [P |-> [P EXCEPT !.state = "ZOMBIE"], K |-> f.K]
        IN  /\ va % PGSIZE = 0 \/ va + 1 = P.sz
            /\ Becomes(p, IF {"U", "W"} \subseteq PteOf(K, P.pt, va).perm
                          THEN [P |-> P, K |-> Stored(K, P.pt, va, "user")]
                          ELSE Fault(vmfault(K, P.pt, P.sz, va)))

\* A system call that stores a result over n pages from va: up to the first page it may not write.
RECURSIVE copyout(_, _, _, _, _)
copyout(k, P, va, n, v) ==
    LET Page(pte) == IF "W" \in pte.perm
                     THEN copyout(Stored(k, P.pt, va, v), P, va + PGSIZE, n - 1, v) ELSE k
        Fault(f) == IF f.ok THEN copyout(f.K, P, va, n, v) ELSE f.K
    IN  IF n = 0 \/ va >= MAXVA THEN k
        ELSE IF walkaddr(k, P.pt, va) = 0 THEN Fault(vmfault(k, P.pt, P.sz, va))
        ELSE Page(PteOf(k, P.pt, va))

read(p) ==
    /\ Runs(p) /\ UNCHANGED pipes
    /\ \E va \in 0..MAXVA :
        /\ va % PGSIZE = 0
        /\ Becomes(p, [P |-> proc[p], K |-> copyout(K, proc[p], va, 2, "read")])

kexit(p) == Runs(p) /\ p > 1 /\ UNCHANGED <<K, pipes>> /\ proc' = [proc EXCEPT ![p].state = "ZOMBIE"]

kwait(p) ==
    /\ Runs(p) /\ UNCHANGED pipes
    /\ \E c \in 1..NPROC : proc[c].state = "ZOMBIE" /\ Becomes(c, [P |-> NoProc, K |-> freeproc(K, proc[c])])

\* The pages of n pipes, all closed together.
pipealloc(n) ==
    /\ pipes = {} /\ calls < MaxCalls /\ calls' = calls + 1 /\ UNCHANGED proc
    /\ pipes' = {pg \in K.free : Cardinality({q \in K.free : q <= pg}) <= n}
    /\ K' = [K EXCEPT !.free = @ \ pipes']
pipeclose ==
    /\ pipes # {} /\ calls < MaxCalls /\ calls' = calls + 1 /\ UNCHANGED proc
    /\ K' = [K EXCEPT !.free = @ \cup pipes] /\ pipes' = {}

Done == calls = MaxCalls /\ UNCHANGED vars
Next == \/ \E p \in 1..NPROC : \/ kfork(p) \/ sys_exec(p) \/ sys_sbrk(p) \/ usertrap(p) \/ read(p)
                               \/ kexit(p) \/ kwait(p)
        \/ \E n \in 1..NPAGES : pipealloc(n)
        \/ pipeclose
        \/ Done
Spec == Init /\ [][Next]_vars
-----------------------------------------------------------------------------
Live == {p \in 1..NPROC : proc[p].state # "UNUSED"}
Vas == {va \in 0..MAXVA - 1 : va % PGSIZE = 0}
Entries(t) == {i \in 0..E - 1 : K.mem[t][i].pa # 0}

\* Who has a page, and for what: <<process, use, place, page>>.
Tables(p) == LET root == proc[p].pt IN
    {<<p, "root", <<>>, root>>} \cup {<<p, "table", <<i>>, K.mem[root][i].pa>> : i \in Entries(root)}
        \cup UNION {{<<p, "table", <<i, j>>, K.mem[K.mem[root][i].pa][j].pa>> :
                       j \in Entries(K.mem[root][i].pa)} : i \in Entries(root)}
Leaves(p) == {<<p, "page", <<va>>, PteOf(K, proc[p].pt, va).pa>> :
                va \in {v \in Vas \ {TRAMPOLINE, TRAPFRAME} : PteOf(K, proc[p].pt, v).pa # 0}}
Owners == {<<0, "free", <<>>, pg>> : pg \in K.free} \cup {<<0, "pipe", <<>>, pg>> : pg \in pipes}
            \cup UNION {{<<p, "trapframe", <<>>, proc[p].tf>>} \cup Tables(p) \cup Leaves(p) : p \in Live}

\* Whatever calls fail for want of memory, and at whatever allocation inside them, every
\* physical page is either free or in use for exactly one thing: none is lost, freed while a
\* page table still leads to it, or shared by two processes.  None of the panics of vm.c, loadseg
\* and kfree happens: nothing is mapped twice, page tables are empty when freewalk takes them
\* apart, and kfree gets pages that are in use.
PagesExact == K.wrong = {} /\ \A pg \in Pages : Cardinality({o \in Owners : o[4] = pg}) = 1

\* What a process can reach is memory below its size that was filled by the kernel for it, never
\* what kalloc or kfree left in a page; and the trampoline and its own trapframe are in place.
ReachesOwnMemory == \A p \in Live :
    /\ \A va \in Vas : "U" \in PteOf(K, proc[p].pt, va).perm =>
            va < proc[p].sz /\ K.mem[PteOf(K, proc[p].pt, va).pa] # "junk"
    /\ PteOf(K, proc[p].pt, TRAMPOLINE).pa = Trampoline
    /\ PteOf(K, proc[p].pt, TRAPFRAME).pa = proc[p].tf

\* What a process finds at its addresses; a page promised by a lazy sbrk reads as zero.
Image(k, P) == [va \in {v \in Vas : v < P.sz} |->
    LET pte == PteOf(k, P.pt, va)
    IN  IF pte.pa = 0 THEN <<"zero", {"R", "W", "U"}>> ELSE <<k.mem[pte.pa], pte.perm>>]

\* A child that kfork makes has the memory of its parent: the same contents and permissions at
\* every address, with pages that the parent has not touched yet in between, in uvmcopy's loop.
ForkCopies == [][\A c \in 1..NPROC : proc[c].state = "UNUSED" /\ proc'[c].state # "UNUSED" =>
                    \E p \in Live : Image(K', proc'[c]) = Image(K, proc[p])]_vars
=============================================================================
