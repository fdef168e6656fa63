------------------------------- MODULE Memory -------------------------------
(***************************************************************************)
(* Pages, page tables and the swap device: mm/memory.c, mm/swap.c, page.s  *)
(* and ll_rw_page() of ll_rw_blk.c.                                        *)
(*                                                                         *)
(* Each process has one page table (4 MB) and runs one of the executables. *)
(* The kernel is not preempted: a process keeps the processor (`cpu') from *)
(* one point where it may sleep to the next.  It sleeps where              *)
(* get_free_page() has to swap something out, where a page comes from the  *)
(* swap device or from the executable, and where a system call waits for   *)
(* the disk between verify_area() and the copy to user space, and where    *)
(* exec() closes files.                                                    *)
(*                                                                         *)
(* The contents of a page are "zero", an executable's or something written.*)
(***************************************************************************)
EXTENDS Integers, FiniteSets, Sequences

CONSTANTS Procs, NoProc,
          NPages,     \* PAGING_PAGES: the pages get_free_page() looks at
          Sizes,      \* how many of them are main memory
          NAddrs,     \* the pages of an address space
          NFile,      \* those below end_data, loaded from the executable
          Exes, NoExe,\* the executables
          NSwap,      \* the pages of the swap device
          Vals,       \* what processes write
          Risks       \* what may happen although the code does not allow for it:
                      \* "wp", "share": get_free_page() has to swap there,
                      \* "read": a system call sleeps between verify_area()
                      \* and the copy to user space,
                      \* "kernel": that copy faults and gets a shared page,
                      \* "close": exec() sleeps while it closes files,
                      \* "early": swap_out() sees the copy un_wp_page() made
                      \* before the store, the process' or the kernel's, that
                      \* it was made for has set its dirty flag

Pages == 1..NPages
Addrs == 1..NAddrs
SwapNrs == 1..NSwap
USED == 100

ASSUME ProcsAssumption == IsFiniteSet(Procs) /\ NoProc \notin Procs
ASSUME SizesAssumption == NPages \in Nat \ {0} /\ Sizes \subseteq Nat /\ NSwap \in Nat
                          /\ NAddrs \in Nat \ {0} /\ NFile \in 0..NAddrs
ASSUME ValsAssumption == "zero" \notin Vals \cup Exes /\ Vals \cap Exes = {}
ASSUME ExesAssumption == NoExe \notin Exes
ASSUME RisksAssumption ==
    Risks \subseteq {"wp", "share", "read", "kernel", "close", "early"}

VARIABLES
    cpu,      \* the process in the kernel, or NoProc
    mem_map,  \* the users of each page
    data,     \* what each page holds
    dir,      \* the page that is the page table of a process, 0: none
    pte,      \* the entries of its page table
    spare,    \* swap_bitmap: the free pages of the swap device
    swapped,  \* what each page of the swap device holds
    queue,    \* the requests of ll_rw_page() not yet done, in order
    exe,      \* `executable' of each process
    pc, loc   \* where each process is, and its local variables

tables == <<dir, pte>>
swap == <<spare, swapped, queue>>
vars == <<cpu, mem_map, data, tables, swap, exe, pc, loc>>

Content == Vals \cup Exes \cup {"zero"}
NoEntry == [at |-> "none", n |-> 0, rw |-> FALSE, dirty |-> FALSE]
InMemory(n, rw, dirty) == [at |-> "page", n |-> n, rw |-> rw, dirty |-> dirty]
OnSwap(s) == [at |-> "swap", n |-> s, rw |-> FALSE, dirty |-> FALSE]
Entries == {NoEntry} \cup {OnSwap(s) : s \in SwapNrs}
           \cup {InMemory(n, rw, d) : n \in Pages, rw \in BOOLEAN, d \in BOOLEAN}

\* addr: the address of the fault (fork: of the loop); page: the page it holds;
\* got: what get_free_page() returned; out: the page it is swapping out; other:
\* un_wp_page()'s old_page, try_to_share()'s phys_addr; who: the task shared
\* with, or the child; why: who called get_free_page(); ret: where it goes when
\* the fault is over.
NoLoc == [addr |-> 0, page |-> 0, got |-> 0, out |-> 0, other |-> 0,
          who |-> NoProc, why |-> "none", ret |-> "user"]
Maybe(S) == S \cup {0}

Callers == {"wp", "swapin", "empty", "bread", "table", "share", "forktable",
            "forkpage"}
PCs == Callers \cup {"unused", "making", "user", "free", "swapout", "reading",
                     "filling", "put", "loop", "forkread", "store", "verified", "exec"}

TypeOK ==
    /\ cpu \in Procs \cup {NoProc}
    /\ mem_map \in [Pages -> Nat]  \* free_page(): "trying to free free page"
    /\ data \in [Pages -> Content]
    /\ dir \in [Procs -> Maybe(Pages)]
    /\ pte \in [Procs -> [Addrs -> Entries]]
    /\ spare \subseteq SwapNrs
    /\ swapped \in [SwapNrs -> Content]
    /\ queue \in Seq([cmd : {"read", "write"}, nr : SwapNrs, page : Pages,
                      by : Procs])
    /\ exe \in [Procs -> Exes \cup {NoExe}]
    /\ pc \in [Procs -> PCs]
    /\ loc \in [Procs -> [addr : 0..NAddrs + 1, page : Maybe(Pages),
                          got : Maybe(Pages), out : Maybe(Pages),
                          other : Maybe(Pages), who : Procs \cup {NoProc},
                          why : Callers \cup {"none"},
                          ret : {"user", "store", "verified"}]]

\* mem_init() and init_swapping(), and one process that has run exec().
Init ==
    /\ cpu = NoProc
    /\ \E main \in Sizes : mem_map = [n \in Pages |-> IF n > NPages - main THEN 0 ELSE USED]
    /\ data = [n \in Pages |-> "zero"]
    /\ dir = [p \in Procs |-> 0]
    /\ pte = [p \in Procs |-> [a \in Addrs |-> NoEntry]]
    /\ spare = SwapNrs /\ swapped = [s \in SwapNrs |-> "zero"] /\ queue = <<>>
    /\ \E p \in Procs, x \in Exes :
        /\ pc = [q \in Procs |-> IF q = p THEN "user" ELSE "unused"]
        /\ exe = [q \in Procs |-> IF q = p THEN x ELSE NoExe]
    /\ loc = [p \in Procs |-> NoLoc]

----------------------------------------------------------------------------
(* Processes                                                               *)

\* p goes on at l, or is picked by schedule() if nobody is in the kernel.
At(p, l) == cpu \in {p, NoProc} /\ pc[p] = l

\* p goes on with local variables r; it keeps the processor, or sleeps.
Moved(p, l, r) == pc' = [pc EXCEPT ![p] = l] /\ loc' = [loc EXCEPT ![p] = r]
Goto(p, l, r) == Moved(p, l, r) /\ cpu' = p /\ UNCHANGED exe
Sleep(p, l, r) == Moved(p, l, r) /\ cpu' = NoProc /\ UNCHANGED exe

\* page_fault after do_no_page(): back to the user, or to the kernel's access.
Return(p) ==
    IF loc[p].ret = "user" THEN Sleep(p, "user", NoLoc)
    ELSE Goto(p, "verified", [NoLoc EXCEPT !.addr = loc[p].addr])

\* After un_wp_page(): the store is made, at once unless something comes between.
\* `copied': it has a copy of the page, that is not dirty yet.
Proceed(p, l, a, copied) ==
    IF \/ l = "store" /\ "early" \in Risks
       \/ l = "verified" /\ "read" \in Risks /\ (copied => "early" \in Risks)
    THEN Sleep(p, l, [NoLoc EXCEPT !.addr = a])
    ELSE Goto(p, l, [NoLoc EXCEPT !.addr = a])

\* p calls get_free_page().
Call(p, why, r) ==
    /\ why \in {"wp", "share"} \ Risks => \E n \in Pages : mem_map[n] = 0
    /\ Goto(p, "free", [r EXCEPT !.why = why, !.got = 0])

\* free_page_tables(): pages, page table and swap pages of p.
EntriesTo(p, n) == {a \in Addrs : pte[p][a].at = "page" /\ pte[p][a].n = n}
free_page_tables(p, held) ==
    /\ mem_map' = [n \in Pages |-> mem_map[n] - Cardinality(EntriesTo(p, n))
                     - (IF dir[p] = n THEN 1 ELSE 0) - (IF held = n THEN 1 ELSE 0)]
    /\ spare' = spare \cup {pte[p][a].n : a \in {b \in Addrs : pte[p][b].at = "swap"}}
    /\ pte' = [pte EXCEPT ![p] = [a \in Addrs |-> NoEntry]]
    /\ dir' = [dir EXCEPT ![p] = 0]
    /\ UNCHANGED <<data, swapped, queue>>

\* do_exit(), of its own accord or from oom().
do_exit(p) ==
    /\ free_page_tables(p, loc[p].page)
    /\ Moved(p, "unused", NoLoc) /\ cpu' = NoProc
    /\ exe' = [exe EXCEPT ![p] = NoExe]

\* oom(): get_free_page() returned 0.
OutOfMemory(p, l) == At(p, l) /\ loc[p].got = 0 /\ do_exit(p)

Exit(p) == At(p, "user") /\ do_exit(p)

\* do_execve(), "the point of no return": the new executable is set, and files
\* are closed, which may sleep, while the old pages are still there.
Exec(p, x) ==
    /\ At(p, "user")
    /\ exe' = [exe EXCEPT ![p] = x]
    /\ Moved(p, "exec", NoLoc)
    /\ cpu' = IF "close" \in Risks THEN NoProc ELSE p
    /\ UNCHANGED <<mem_map, data, tables, swap>>
\* The old space goes, the new one is loaded on demand.
NewSpace(p) == At(p, "exec") /\ free_page_tables(p, 0) /\ Sleep(p, "user", NoLoc)

----------------------------------------------------------------------------
(* get_free_page() and swap_out()                                          *)

\* "Get physical address of first (actually last :-) free page".
GetFreePage(p) ==
    /\ At(p, "free")
    /\ \E n \in Pages :
        /\ mem_map[n] = 0 /\ \A k \in Pages : mem_map[k] = 0 => k <= n
        /\ mem_map' = [mem_map EXCEPT ![n] = 1]
        /\ data' = [data EXCEPT ![n] = "zero"]
        /\ Goto(p, loc[p].why, [loc[p] EXCEPT !.got = n])
    /\ UNCHANGED <<tables, swap>>

\* try_to_swap_out() of an entry: clean pages are dropped, dirty ones with
\* one user are written.  The scan may be at any entry.
DropDirty(e) == e.at = "page"   \* a mutant: the dirty flag is not looked at
Droppable(e) == e.at = "page" /\ ~e.dirty
Writable(e) == e.at = "page" /\ e.dirty /\ mem_map[e.n] = 1 /\ spare # {}
NoneFree(p) == At(p, "free") /\ \A n \in Pages : mem_map[n] > 0

Drop(p, q, a) ==
    /\ NoneFree(p) /\ Droppable(pte[q][a])
    /\ pte' = [pte EXCEPT ![q][a] = NoEntry]
    /\ mem_map' = [mem_map EXCEPT ![pte[q][a].n] = @ - 1]
    /\ Goto(p, "free", loc[p])
    /\ UNCHANGED <<data, dir, swap>>

\* A mutant: the page is free before it has been written.
FreeAtOnce(p, q, a) ==
    /\ NoneFree(p) /\ Writable(pte[q][a])
    /\ \E nr \in spare :
        /\ \A s \in spare : nr <= s
        /\ spare' = spare \ {nr}
        /\ pte' = [pte EXCEPT ![q][a] = OnSwap(nr)]
        /\ queue' = Append(queue, [cmd |-> "write", nr |-> nr,
                                   page |-> pte[q][a].n, by |-> p])
    /\ Sleep(p, "swapout", [loc[p] EXCEPT !.out = pte[q][a].n])
    /\ mem_map' = [mem_map EXCEPT ![pte[q][a].n] = @ - 1]
    /\ UNCHANGED <<data, dir, swapped>>

SwapOut(p, q, a) ==
    /\ NoneFree(p) /\ Writable(pte[q][a])
    /\ \E nr \in spare :
        /\ \A s \in spare : nr <= s
        /\ spare' = spare \ {nr}
        /\ pte' = [pte EXCEPT ![q][a] = OnSwap(nr)]
        /\ queue' = Append(queue, [cmd |-> "write", nr |-> nr,
                                   page |-> pte[q][a].n, by |-> p])
    /\ Sleep(p, "swapout", [loc[p] EXCEPT !.out = pte[q][a].n])
    /\ UNCHANGED <<mem_map, data, dir, swapped>>

Waiting(p) == \E i \in DOMAIN queue : queue[i].by = p

SwappedOut(p) ==
    /\ At(p, "swapout") /\ ~Waiting(p)
    /\ mem_map' = [mem_map EXCEPT ![loc[p].out] = @ - 1]
    /\ Goto(p, "free", [loc[p] EXCEPT !.out = 0])
    /\ UNCHANGED <<data, tables, swap>>

\* "Out of swap-memory".
OutOfSwap(p) ==
    /\ NoneFree(p)
    /\ \A q \in Procs, a \in Addrs : ~Droppable(pte[q][a]) /\ ~Writable(pte[q][a])
    /\ Goto(p, loc[p].why, loc[p])
    /\ UNCHANGED <<mem_map, data, tables, swap>>

\* The disk ends the first request: swap requests are done in their order.
Complete ==
    /\ queue # <<>>
    /\ LET r == Head(queue) IN
        IF r.cmd = "read"
        THEN data' = [data EXCEPT ![r.page] = swapped[r.nr]] /\ UNCHANGED swapped
        ELSE swapped' = [swapped EXCEPT ![r.nr] = data[r.page]] /\ UNCHANGED data
    /\ queue' = Tail(queue)
    /\ UNCHANGED <<cpu, mem_map, tables, spare, exe, pc, loc>>

----------------------------------------------------------------------------
(* Page faults                                                             *)

\* un_wp_page(): the only user may write, another one needs a copy.
un_wp_page(p, a, ret) ==
    LET n == pte[p][a].n
        r == [NoLoc EXCEPT !.addr = a, !.other = n, !.ret = ret] IN
    \/ /\ mem_map[n] = 1
       /\ pte' = [pte EXCEPT ![p][a].rw = TRUE]
       /\ Proceed(p, ret, a, FALSE)
       /\ UNCHANGED <<mem_map, data, dir, swap>>
    \/ /\ mem_map[n] # 1
       /\ Call(p, "wp", r)
       /\ UNCHANGED <<mem_map, data, tables, swap>>

ReadOnly(e) == e.at = "page" /\ ~e.rw

do_wp_page(p, a) == At(p, "user") /\ ReadOnly(pte[p][a]) /\ un_wp_page(p, a, "store")

\* un_wp_page() after get_free_page().
Copy(p) ==
    LET n == loc[p].got  old == loc[p].other IN
    /\ At(p, "wp") /\ n # 0
    /\ mem_map' = [mem_map EXCEPT ![old] = @ - 1]
    /\ data' = [data EXCEPT ![n] = data[old]]
    /\ pte' = [pte EXCEPT ![p][loc[p].addr] = InMemory(n, TRUE, FALSE)]
    /\ Proceed(p, loc[p].ret, loc[p].addr, TRUE)
    /\ UNCHANGED <<dir, swap>>

\* share_page() and try_to_share(): q runs the same executable and has a clean
\* page at the same address.
Sharers(p, a) == {q \in Procs \ {p} : exe[q] = exe[p] /\ Droppable(pte[q][a])}
\* A mutant: the other task may go on writing.
OneSided(p, a, q, n) ==
    /\ pte' = [pte EXCEPT ![p][a] = [pte[q][a] EXCEPT !.rw = FALSE]]
    /\ mem_map' = [mem_map EXCEPT ![n] = @ + 1]
Shared(p, a, q, n) ==
    /\ pte' = [pte EXCEPT ![q][a].rw = FALSE, ![p][a] = [pte[q][a] EXCEPT !.rw = FALSE]]
    /\ mem_map' = [mem_map EXCEPT ![n] = @ + 1]

share_page(p, a, r) ==
    \E q \in Sharers(p, a) :
        LET n == pte[q][a].n IN
        \/ /\ dir[p] # 0
           /\ Shared(p, a, q, n)
           /\ IF r.ret = "user" THEN Sleep(p, "user", NoLoc) ELSE Goto(p, "verified", r)
           /\ UNCHANGED <<data, dir, swap>>
        \/ /\ dir[p] = 0
           /\ Call(p, "share", [r EXCEPT !.other = n, !.who = q])
           /\ UNCHANGED <<mem_map, data, tables, swap>>

ShareTable(p) ==
    /\ At(p, "share") /\ loc[p].got # 0
    /\ dir' = [dir EXCEPT ![p] = loc[p].got]
    /\ Shared(p, loc[p].addr, loc[p].who, loc[p].other)
    /\ Return(p)
    /\ UNCHANGED <<data, swap>>

\* do_no_page(): from the swap device, from another task, from the executable,
\* or an empty page.
do_no_page(p, a, ret) ==
    LET r == [NoLoc EXCEPT !.addr = a, !.ret = ret] IN
    \/ /\ pte[p][a].at = "swap"
       /\ Call(p, "swapin", r) /\ UNCHANGED <<mem_map, data, tables, swap>>
    \/ /\ pte[p][a].at = "none" /\ a <= NFile
       /\ share_page(p, a, r)
    \/ /\ pte[p][a].at = "none" /\ a <= NFile /\ Sharers(p, a) = {}
       /\ Call(p, "bread", r) /\ UNCHANGED <<mem_map, data, tables, swap>>
    \/ /\ pte[p][a].at = "none" /\ a > NFile
       /\ Call(p, "empty", r) /\ UNCHANGED <<mem_map, data, tables, swap>>

Fault(p, a) == At(p, "user") /\ do_no_page(p, a, "user")

\* ll_rw_page(): the request is queued, the process sleeps until it is done.
ReadSwap(p, l, nr) ==
    /\ queue' = Append(queue, [cmd |-> "read", nr |-> nr, page |-> loc[p].got,
                               by |-> p])
    /\ Sleep(p, l, [loc[p] EXCEPT !.page = loc[p].got, !.got = 0])
    /\ UNCHANGED <<mem_map, data, tables, spare, swapped>>

SwapIn(p) ==
    /\ At(p, "swapin") /\ loc[p].got # 0
    /\ ReadSwap(p, "reading", pte[p][loc[p].addr].n)

SwappedIn(p) ==
    /\ At(p, "reading") /\ ~Waiting(p)
    /\ spare' = spare \cup {pte[p][loc[p].addr].n}
    /\ pte' = [pte EXCEPT ![p][loc[p].addr] = InMemory(loc[p].page, TRUE, TRUE)]
    /\ Return(p)
    /\ UNCHANGED <<mem_map, data, dir, swapped, queue>>

\* get_empty_page() has its page; do_no_page() has one to fill from the file.
Empty(p) ==
    /\ At(p, "empty") /\ loc[p].got # 0
    /\ Goto(p, "put", [loc[p] EXCEPT !.page = loc[p].got, !.got = 0])
    /\ UNCHANGED <<mem_map, data, tables, swap>>
Bread(p) ==
    /\ At(p, "bread") /\ loc[p].got # 0
    /\ Sleep(p, "filling", [loc[p] EXCEPT !.page = loc[p].got, !.got = 0])
    /\ UNCHANGED <<mem_map, data, tables, swap>>
bread_page(p) ==
    /\ At(p, "filling")
    /\ data' = [data EXCEPT ![loc[p].page] = exe[p]]
    /\ Goto(p, "put", loc[p])
    /\ UNCHANGED <<mem_map, tables, swap>>

\* put_page(): into the page table, which may have to be made first.
put_page(p) ==
    /\ At(p, "put")
    /\ \/ /\ dir[p] # 0
          /\ pte' = [pte EXCEPT ![p][loc[p].addr] = InMemory(loc[p].page, TRUE, FALSE)]
          /\ Return(p) /\ UNCHANGED <<mem_map, data, dir, swap>>
       \/ /\ dir[p] = 0
          /\ Call(p, "table", loc[p])
          /\ UNCHANGED <<mem_map, data, tables, swap>>
PutTable(p) ==
    /\ At(p, "table") /\ loc[p].got # 0
    /\ dir' = [dir EXCEPT ![p] = loc[p].got]
    /\ pte' = [pte EXCEPT ![p][loc[p].addr] = InMemory(loc[p].page, TRUE, FALSE)]
    /\ Return(p)
    /\ UNCHANGED <<mem_map, data, swap>>

----------------------------------------------------------------------------
(* fork(): copy_page_tables()                                              *)

\* find_empty_process() chose c; without a page table there is nothing to do.
Fork(p, c) ==
    /\ At(p, "user") /\ pc[c] = "unused"
    /\ IF dir[p] = 0
       THEN /\ pc' = [pc EXCEPT ![c] = "user"]
            /\ UNCHANGED <<cpu, loc>>
       ELSE /\ pc' = [pc EXCEPT ![c] = "making", ![p] = "free"]
            /\ loc' = [loc EXCEPT ![p] = [NoLoc EXCEPT !.who = c, !.why = "forktable"]]
            /\ cpu' = p
    /\ exe' = [exe EXCEPT ![c] = exe[p]]
    /\ UNCHANGED <<mem_map, data, tables, swap>>

ForkTable(p) ==
    /\ At(p, "forktable") /\ loc[p].got # 0
    /\ dir' = [dir EXCEPT ![loc[p].who] = loc[p].got]
    /\ Goto(p, "loop", [loc[p] EXCEPT !.got = 0, !.addr = 1])
    /\ UNCHANGED <<mem_map, data, pte, swap>>

\* One entry: nothing, a page to share, or one to be swapped in first.
ForkEntry(p) ==
    LET a == loc[p].addr  e == pte[p][a]  c == loc[p].who
        ro == [e EXCEPT !.rw = FALSE] IN
    /\ At(p, "loop") /\ a <= NAddrs
    /\ \/ /\ e.at = "none"
          /\ Goto(p, "loop", [loc[p] EXCEPT !.addr = a + 1])
          /\ UNCHANGED <<mem_map, data, tables, swap>>
       \/ /\ e.at = "page"
          /\ pte' = [pte EXCEPT ![p][a] = ro, ![c][a] = ro]
          /\ mem_map' = [mem_map EXCEPT ![e.n] = @ + 1]
          /\ Goto(p, "loop", [loc[p] EXCEPT !.addr = a + 1])
          /\ UNCHANGED <<data, dir, swap>>
       \/ /\ e.at = "swap"
          /\ Call(p, "forkpage", loc[p])
          /\ UNCHANGED <<mem_map, data, tables, swap>>

ForkRead(p) ==
    /\ At(p, "forkpage") /\ loc[p].got # 0
    /\ ReadSwap(p, "forkread", pte[p][loc[p].addr].n)

\* The child keeps the entry on the swap device, the parent gets the page.
ForkSwapped(p) ==
    LET a == loc[p].addr  c == loc[p].who IN
    /\ At(p, "forkread") /\ ~Waiting(p)
    /\ pte' = [pte EXCEPT ![c][a] = pte[p][a],
                          ![p][a] = InMemory(loc[p].page, TRUE, TRUE)]
    /\ Goto(p, "loop", [loc[p] EXCEPT !.page = 0, !.addr = a + 1])
    /\ UNCHANGED <<mem_map, data, dir, swap>>

ForkDone(p) ==
    /\ At(p, "loop") /\ loc[p].addr > NAddrs
    /\ pc' = [pc EXCEPT ![p] = "user", ![loc[p].who] = "user"]
    /\ loc' = [loc EXCEPT ![p] = NoLoc] /\ cpu' = NoProc
    /\ UNCHANGED <<mem_map, data, tables, swap, exe>>

\* -ENOMEM: copy_mem() frees what the child has.
ForkFailed(p) ==
    /\ \E l \in {"forktable", "forkpage"} : At(p, l)
    /\ loc[p].got = 0
    /\ free_page_tables(loc[p].who, 0)
    /\ pc' = [pc EXCEPT ![p] = "user", ![loc[p].who] = "unused"]
    /\ exe' = [exe EXCEPT ![loc[p].who] = NoExe]
    /\ loc' = [loc EXCEPT ![p] = NoLoc] /\ cpu' = NoProc

----------------------------------------------------------------------------
(* Users of memory                                                         *)

Stored(p, a, v) ==
    /\ data' = [data EXCEPT ![pte[p][a].n] = v]
    /\ pte' = [pte EXCEPT ![p][a].dirty = TRUE]
    /\ Sleep(p, "user", NoLoc)
    /\ UNCHANGED <<mem_map, dir, swap>>

\* A store: the hardware checks rw and sets dirty.
Allowed(e) == e.at = "page" /\ e.rw
Write(p, a, v) == At(p, "user") /\ Allowed(pte[p][a]) /\ Stored(p, a, v)

\* The store that do_wp_page() allowed is repeated; it may fault again.
Restart(p, v) ==
    LET a == loc[p].addr IN
    /\ At(p, "store")
    /\ IF Allowed(pte[p][a]) THEN Stored(p, a, v)
       ELSE /\ Sleep(p, "user", NoLoc)
            /\ UNCHANGED <<mem_map, data, tables, swap>>

\* A system call that will write to a: write_verify().
write_verify(p, a) ==
    /\ At(p, "user")
    /\ \/ ReadOnly(pte[p][a]) /\ un_wp_page(p, a, "verified")
       \/ /\ ~ReadOnly(pte[p][a])
          /\ pte[p][a].at = "none" /\ a <= NFile /\ Sharers(p, a) # {} => "kernel" \in Risks
          /\ LET r == [NoLoc EXCEPT !.addr = a] IN
               IF "read" \in Risks THEN Sleep(p, "verified", r)
               ELSE Goto(p, "verified", r)
          /\ UNCHANGED <<mem_map, data, tables, swap>>

\* put_fs_byte(): the 80386 does not check rw for the kernel.
KernelWrite(p, v) ==
    LET a == loc[p].addr IN
    /\ At(p, "verified")
    /\ \/ pte[p][a].at = "page" /\ Stored(p, a, v)
       \/ do_no_page(p, a, "verified")

----------------------------------------------------------------------------
Next ==
    \/ Complete
    \/ \E p \in Procs :
        \/ \E a \in Addrs : \/ do_wp_page(p, a)
                            \/ Fault(p, a)
                            \/ write_verify(p, a)
                            \/ \E v \in Vals : Write(p, a, v)
                            \/ \E q \in Procs : Drop(p, q, a) \/ SwapOut(p, q, a)
        \/ \E v \in Vals : Restart(p, v) \/ KernelWrite(p, v)
        \/ GetFreePage(p) \/ SwappedOut(p) \/ OutOfSwap(p)
        \/ \E l \in Callers \ {"forktable", "forkpage"} : OutOfMemory(p, l)
        \/ Copy(p) \/ ShareTable(p) \/ SwapIn(p) \/ SwappedIn(p)
        \/ Empty(p) \/ Bread(p) \/ bread_page(p) \/ put_page(p) \/ PutTable(p)
        \/ \E c \in Procs : Fork(p, c)
        \/ ForkTable(p) \/ ForkEntry(p) \/ ForkRead(p) \/ ForkSwapped(p)
        \/ ForkDone(p) \/ ForkFailed(p)
        \/ \E x \in Exes : Exec(p, x)
        \/ NewSpace(p) \/ Exit(p)

Spec == Init /\ [][Next]_vars

----------------------------------------------------------------------------
(* Properties                                                              *)

\* Reference counts are exact: the count of a page in mem_map (memory.c:72) is
\* the number of its users: page tables, entries of them, and the variables of
\* processes that hold it across a sleep.  What mem_init() has marked is left out.
Ref(p, k) ==
    CASE k = 0 -> dir[p]
      [] k = -1 -> loc[p].page
      [] k = -2 -> loc[p].out
      [] k = -3 -> loc[p].got
      [] OTHER -> IF pte[p][k].at = "page" THEN pte[p][k].n ELSE 0
Users(n) == Cardinality({u \in Procs \X (-3..NAddrs) : Ref(u[1], u[2]) = n})
CountsExact == \A n \in Pages : mem_map[n] - Users(n) \in {0, USED}

\* A page of the swap device that is taken belongs to exactly one page table
\* entry: swap_free(), swap_in() and copy_page_tables() lose none and free none
\* twice ("Swap-space bad", "swapping in multiply from same page").
SwapOwned ==
    \A s \in SwapNrs :
        Cardinality({u \in Procs \X Addrs : pte[u[1]][u[2]] = OnSwap(s)})
            = IF s \in spare THEN 0 ELSE 1

\* Every page of memory and of the swap device is accounted for.
Accounted == TypeOK /\ CountsExact /\ SwapOwned

\* A page somebody may write is nobody else's: the fault that allowed it
\* (un_wp_page()) or the fork or sharing that took the right away saw to that.
WriterAlone ==
    \A p \in Procs, a \in Addrs :
        pte[p][a].at = "page" /\ pte[p][a].rw => Users(pte[p][a].n) = 1

\* A memory of one's own: sharing, copying and swapping are invisible to the
\* processes (the purpose of do_wp_page(), do_no_page() and swap_out()).
Initially(x, a) == IF a <= NFile THEN x ELSE "zero"
OnDevice(s) ==
    LET W == {i \in DOMAIN queue : queue[i].cmd = "write" /\ queue[i].nr = s} IN
    IF W = {} THEN swapped[s]
    ELSE data[queue[CHOOSE i \in W : \A j \in W : j <= i].page]
Alive == {p \in Procs : pc[p] \notin {"unused", "making"}}
Reads(p, a) ==
    CASE p \notin Alive -> "zero"
      [] p \in Alive /\ (pc[p] = "exec" \/ pte[p][a].at = "none") -> Initially(exe[p], a)
      [] p \in Alive /\ pc[p] # "exec" /\ pte[p][a].at = "page" -> data[pte[p][a].n]
      [] p \in Alive /\ pc[p] # "exec" /\ pte[p][a].at = "swap" -> OnDevice(pte[p][a].n)
\* With the races in Risks the addresses beyond the executable only: a page of the
\* executable may be shared while a call of the system is about to write to it
\* (memory.c:446-464), or while exec() replaces it (exec.c:550-568).
Owned == IF Risks = {} THEN Addrs ELSE {a \in Addrs : a > NFile}
Private == INSTANCE Spaces WITH
    Addrs <- Owned, Initial <- Initially, Nothing <- "zero", alive <- Alive,
    mem <- [p \in Procs |-> [a \in Owned |-> Reads(p, a)]]
PrivateMemory == Private!Spec
=============================================================================
