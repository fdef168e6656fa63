---------------------------- MODULE BufferCache ----------------------------
(***************************************************************************)
(* The buffer cache, fs/buffer.c, with the part of the block layer it      *)
(* works through: make_request() of ll_rw_blk.c and end_request() of       *)
(* blk.h, and the ways its users fill and change a buffer.                 *)
(*                                                                         *)
(* The kernel is not preempted.  A process keeps the processor (`cpu')     *)
(* from one point where it may sleep to the next, each action is the code  *)
(* between two such points, and the disk interrupt comes in anywhere.      *)
(* Sleeping under cli() on a buffer's b_lock is waiting for the lock to be *)
(* free (WaitQueue shows that no wake-up is lost there); the two queues    *)
(* whose sleepers do not test a condition under cli(), buffer_wait and     *)
(* wait_for_request, are modelled with their wake-ups.                     *)
(*                                                                         *)
(* The contents of a block are abstracted to whether they are the newest   *)
(* ones written to it.                                                     *)
(***************************************************************************)
EXTENDS Integers, FiniteSets

CONSTANTS Procs, NoProc,
          NBufs,            \* NR_BUFFERS
          Blocks, NoBlock,  \* (device, block) pairs; NoBlock: b_dev = 0
          Devs, NoDev,      \* NoDev: sys_sync(), every device
          Dev,              \* the device of a block
          NSlots,           \* NR_REQUEST
          Ops,              \* the operations the processes may start
          Errors,           \* the transfers that may fail
          Faults,           \* TRUE: copying from user space may sleep
          MaxAhead,         \* bound: blocks a breada() reads ahead
          MaxOps            \* bound: operations started, 0: unlimited

Bufs == 1..NBufs
NoBuf == 0
Slots == 1..NSlots

ASSUME ProcsAssumption == IsFiniteSet(Procs) /\ NoProc \notin Procs
ASSUME SizeAssumption == NBufs \in Nat \ {0} /\ NSlots \in Nat /\ NSlots > 1 /\ MaxOps \in Nat
                           /\ MaxAhead \in Nat
ASSUME BlocksAssumption == NoBlock \notin Blocks
ASSUME DevAssumption == Dev \in [Blocks -> Devs] /\ NoDev \notin Devs
ASSUME OpsAssumption == Ops \subseteq
    {"bread", "breada", "new_block", "block_write", "file_write", "sync_dev",
     "sys_sync", "invalidate"}
ASSUME ErrorsAssumption == Errors \subseteq {"read", "write"} /\ Faults \in BOOLEAN

VARIABLES
    cpu,      \* the process in the kernel, NoProc: none, or all of them sleep
    pc, op,   \* where a process is, and in which operation
    want,     \* the block getblk() looks for
    bh,       \* the buffer it works on
    kept,     \* breada(): the first buffer, while others are read ahead
    ahead,    \* breada(): how many have been read ahead
    scan,     \* sync_dev(): [k, dev], the position in the buffer array
    rw,       \* make_request(): "read", "reada" or "write"
    blk,      \* b_dev and b_blocknr
    cnt,      \* b_count
    lock, dirt, upto,     \* b_lock, b_dirt, b_uptodate
    data,     \* the buffer holds the newest contents of its block
    disk,     \* the disk does
    slot,     \* request[]: the free entries are NoReq
    bufq,     \* processes asleep on buffer_wait
    slotq,    \* processes asleep on wait_for_request
    ops       \* operations started, if they are bounded

proc == <<pc, op, want, bh, kept, ahead, scan, rw>>
buf  == <<blk, cnt, lock, dirt, upto, data>>
vars == <<cpu, proc, buf, disk, slot, bufq, slotq, ops>>

NoScan == [k |-> 0, dev |-> NoDev]
NoReq  == [rw |-> "none", b |-> NoBuf]

PCs == {"user", "find", "hashwait", "select", "bufsleep", "wait", "rewait",
        "claim", "got", "scan", "lock", "slot", "noslot", "late", "slotsleep",
        "read", "hold", "copy", "release"}

TypeOK ==
    /\ cpu \in Procs \cup {NoProc}
    /\ pc \in [Procs -> PCs]
    /\ op \in [Procs -> Ops \cup {"none"}]
    /\ want \in [Procs -> Blocks \cup {NoBlock}]
    /\ bh \in [Procs -> Bufs \cup {NoBuf}]
    /\ kept \in [Procs -> Bufs \cup {NoBuf}]
    /\ ahead \in [Procs -> 0..MaxAhead]
    /\ scan \in [Procs -> [k : 0..2 * NBufs, dev : Devs \cup {NoDev}]]
    /\ rw \in [Procs -> {"read", "reada", "write"}]
    /\ blk \in [Bufs -> Blocks \cup {NoBlock}]
    /\ cnt \in [Bufs -> Nat]      \* brelse(): "Trying to free free buffer"
    /\ lock \in [Bufs -> BOOLEAN] /\ dirt \in [Bufs -> BOOLEAN]
    /\ upto \in [Bufs -> BOOLEAN] /\ data \in [Bufs -> BOOLEAN]
    /\ disk \in [Blocks -> BOOLEAN]
    /\ slot \in [Slots -> [rw : {"read", "write"}, b : Bufs] \cup {NoReq}]
    /\ bufq \subseteq Procs /\ slotq \subseteq Procs
    /\ ops \in 0..MaxOps

\* buffer_init() and blk_dev_init().
Init ==
    /\ cpu = NoProc
    /\ pc = [p \in Procs |-> "user"] /\ op = [p \in Procs |-> "none"]
    /\ want = [p \in Procs |-> NoBlock]
    /\ bh = [p \in Procs |-> NoBuf] /\ kept = [p \in Procs |-> NoBuf]
    /\ ahead = [p \in Procs |-> 0]
    /\ scan = [p \in Procs |-> NoScan] /\ rw = [p \in Procs |-> "read"]
    /\ blk = [b \in Bufs |-> NoBlock] /\ cnt = [b \in Bufs |-> 0]
    /\ lock = [b \in Bufs |-> FALSE] /\ dirt = [b \in Bufs |-> FALSE]
    /\ upto = [b \in Bufs |-> FALSE] /\ data = [b \in Bufs |-> FALSE]
    /\ disk = [x \in Blocks |-> TRUE]
    /\ slot = [s \in Slots |-> NoReq]
    /\ bufq = {} /\ slotq = {} /\ ops = 0

----------------------------------------------------------------------------
(* The processor                                                           *)

\* p goes on at pc, or is picked by schedule() if nobody is in the kernel.
At(p, l) == cpu \in {p, NoProc} /\ pc[p] = l

Goto(p, l) == pc' = [pc EXCEPT ![p] = l]

\* The buffer p waits for: the one the scan is at, or its own.
ScanBuf(k) == IF k > NBufs THEN k - NBufs ELSE k
Target(p) == IF scan[p].k > 0 THEN ScanBuf(scan[p].k) ELSE bh[p]

WaitsForLock == {"hashwait", "wait", "rewait", "scan", "lock", "read", "release"}

\* wait_on_buffer() and lock_buffer() go on when the buffer is not locked.
NoWaitOn(p, l, b) == At(p, l)     \* a mutant: b_lock is not looked at
WaitOn(p, l, b) == At(p, l) /\ ~lock[b]

\* sleep_on(&bh->b_wait): give up the processor while the buffer is locked.
SleepOnBuffer(p) ==
    /\ cpu = p /\ pc[p] \in WaitsForLock /\ lock[Target(p)]
    /\ cpu' = NoProc
    /\ UNCHANGED <<proc, buf, disk, slot, bufq, slotq, ops>>

----------------------------------------------------------------------------
(* getblk()                                                                *)

Hold(b) == cnt' = [cnt EXCEPT ![b] = @ + 1]

\* find_buffer(), and the b_count++ of get_hash_table().
Find(p) ==
    /\ At(p, "find")
    /\ cpu' = p
    /\ \/ \E b \in Bufs :
            /\ blk[b] = want[p]
            /\ bh' = [bh EXCEPT ![p] = b]
            /\ Hold(b)
            /\ Goto(p, "hashwait")
       \/ /\ \A b \in Bufs : blk[b] # want[p]
          /\ Goto(p, "select")
          /\ UNCHANGED <<bh, cnt>>
    /\ UNCHANGED <<op, want, kept, ahead, scan, rw, blk, lock, dirt, upto, data,
                   disk, slot, bufq, slotq, ops>>

\* get_hash_table() after wait_on_buffer(): is it still the block we want?
HashWait(p) ==
    /\ WaitOn(p, "hashwait", bh[p])
    /\ cpu' = p
    /\ IF blk[bh[p]] = want[p]
       THEN Goto(p, "got") /\ UNCHANGED cnt
       ELSE Goto(p, "find") /\ cnt' = [cnt EXCEPT ![bh[p]] = @ - 1]
    /\ UNCHANGED <<op, want, bh, kept, ahead, scan, rw, blk, lock, dirt, upto, data,
                   disk, slot, bufq, slotq, ops>>

Badness(b) == (IF dirt[b] THEN 2 ELSE 0) + (IF lock[b] THEN 1 ELSE 0)

\* Lines 307-330.  Of several least bad buffers the free list's order
\* decides, here any one is taken.
Select(p) ==
    /\ At(p, "select")
    /\ \/ \E b \in Bufs :
            /\ cnt[b] = 0
            /\ \A c \in Bufs : cnt[c] = 0 => Badness(b) <= Badness(c)
            /\ bh' = [bh EXCEPT ![p] = b]
            /\ Goto(p, "wait")
            /\ cpu' = p /\ bufq' = bufq
       \/ /\ \A b \in Bufs : cnt[b] # 0
          /\ Goto(p, "bufsleep")
          /\ cpu' = NoProc /\ bufq' = bufq \cup {p}
          /\ UNCHANGED bh
    /\ UNCHANGED <<op, want, kept, ahead, scan, rw, buf, disk, slot, slotq, ops>>

BufferWoken(p) ==
    /\ At(p, "bufsleep") /\ p \notin bufq
    /\ cpu' = p /\ Goto(p, "find")
    /\ UNCHANGED <<op, want, bh, kept, ahead, scan, rw, buf, disk, slot, bufq, slotq, ops>>

InScope(b, d) == d = NoDev \/ (blk[b] # NoBlock /\ Dev[blk[b]] = d)

\* The scan of operation o goes on behind position k, to the next buffer of
\* device d, or ends: back in getblk(), or in user mode.  sys_sync() and
\* invalidate_buffers() make one pass, sync_dev() two.
ScanFrom(p, o, k, d) ==
    LET end  == IF o \in {"sys_sync", "invalidate"} THEN NBufs ELSE 2 * NBufs
        left == {j \in (k + 1)..end : InScope(ScanBuf(j), d)}
    IN  \/ \E j \in left :
              /\ \A m \in left : j <= m
              /\ scan' = [scan EXCEPT ![p] = [k |-> j, dev |-> d]]
              /\ Goto(p, "scan")
        \/ /\ left = {}
           /\ scan' = [scan EXCEPT ![p] = NoScan]
           /\ Goto(p, IF o \in {"sync_dev", "sys_sync", "invalidate"}
                      THEN "user" ELSE "rewait")

GoOnScan(p) == ScanFrom(p, op[p], scan[p].k, scan[p].dev)

NeverTaken(p) == FALSE     \* a mutant: b_count is not looked at again
Taken(p) == cnt[bh[p]] # 0

NeverDirty(p) == FALSE     \* a mutant: getblk() without lines 337-342
MustSync(p) == dirt[bh[p]]

\* Lines 333-342: the buffer found may have been taken, or be dirty.
Wait(p) ==
    /\ WaitOn(p, "wait", bh[p]) \/ WaitOn(p, "rewait", bh[p])
    /\ cpu' = p
    /\ \/ Taken(p) /\ Goto(p, "find") /\ UNCHANGED scan
       \/ ~Taken(p) /\ MustSync(p) /\ ScanFrom(p, op[p], 0, Dev[blk[bh[p]]])
       \/ ~Taken(p) /\ ~MustSync(p) /\ Goto(p, "claim") /\ UNCHANGED scan
    /\ UNCHANGED <<op, want, bh, kept, ahead, rw, buf, disk, slot, bufq, slotq, ops>>

NeverAdded(p) == FALSE     \* a mutant: getblk() without line 347
Added(p) == \E b \in Bufs : blk[b] = want[p]

ResetFlags(b) == dirt' = [dirt EXCEPT ![b] = FALSE] /\ upto' = [upto EXCEPT ![b] = FALSE]

\* remove_from_queues(), b_dev and b_blocknr, insert_into_queues().
Requeue(b, x) == blk' = [blk EXCEPT ![b] = x]

\* Lines 347-363: somebody else may have added the block meanwhile.
Claim(p) ==
    /\ At(p, "claim")
    /\ cpu' = p
    /\ \/ /\ Added(p)
          /\ Goto(p, "find")
          /\ UNCHANGED buf
       \/ /\ ~Added(p)
          /\ Goto(p, "got")
          /\ cnt' = [cnt EXCEPT ![bh[p]] = 1]
          /\ ResetFlags(bh[p])
          /\ Requeue(bh[p], want[p])
          /\ data' = [data EXCEPT ![bh[p]] = FALSE]
          /\ UNCHANGED lock
    /\ UNCHANGED <<op, want, bh, kept, ahead, scan, rw, disk, slot, bufq, slotq, ops>>

----------------------------------------------------------------------------
(* make_request()                                                          *)

\* Back in the caller: sync_dev() goes on, bread() waits for the buffer,
\* breada() looks for a block to read ahead or lets go of one.
Return(p) ==
    IF scan[p].k > 0
    THEN GoOnScan(p) /\ UNCHANGED <<want, bh, kept, ahead, cnt>>
    ELSE IF op[p] # "breada"
    THEN Goto(p, "read") /\ UNCHANGED <<scan, want, bh, kept, ahead, cnt>>
    ELSE /\ cnt' = IF kept[p] = NoBuf THEN cnt
                   ELSE [cnt EXCEPT ![bh[p]] = @ - 1]         \* line 498
         /\ LET first == IF kept[p] = NoBuf THEN bh[p] ELSE kept[p] IN
            \/ /\ ahead[p] < MaxAhead
               /\ ahead' = [ahead EXCEPT ![p] = @ + 1]
               /\ \E x \in Blocks : want' = [want EXCEPT ![p] = x]
               /\ kept' = [kept EXCEPT ![p] = first]
               /\ Goto(p, "find")
               /\ UNCHANGED bh
            \/ /\ ahead' = [ahead EXCEPT ![p] = 0]
               /\ bh' = [bh EXCEPT ![p] = first]
               /\ kept' = [kept EXCEPT ![p] = NoBuf]
               /\ Goto(p, "read")
               /\ UNCHANGED want
         /\ UNCHANGED scan

\* There is nothing to do for a clean buffer, or one that was read already.
Needless(p) == IF rw[p] = "write" THEN ~dirt[Target(p)] ELSE upto[Target(p)]

\* lock_buffer(), and the test at line 174.  Line 163, a read-ahead does not
\* wait for a locked buffer, never applies: getblk() returned it unlocked and
\* nothing slept since (GetblkResult).
LockBuffer(p) ==
    /\ WaitOn(p, "lock", Target(p))
    /\ cpu' = p
    /\ \/ Needless(p) /\ Return(p) /\ UNCHANGED lock
       \/ /\ ~Needless(p)
          /\ lock' = [lock EXCEPT ![Target(p)] = TRUE]
          /\ Goto(p, "slot")
          /\ UNCHANGED <<scan, want, bh, kept, ahead, cnt>>
    /\ UNCHANGED <<op, rw, blk, dirt, upto, data, disk, slot, bufq, slotq, ops>>

\* The last third of the request table is only for reads.
Limit(p) == IF rw[p] = "write" THEN (NSlots * 2) \div 3 ELSE NSlots
FreeSlots(p) == {s \in 1..Limit(p) : slot[s] = NoReq}

\* Lines 196-222: the highest free entry is taken; add_request() marks the
\* buffer clean.
TakeSlot(p) ==
    /\ At(p, "slot")
    /\ cpu' = p
    /\ \E s \in FreeSlots(p) :
          /\ \A n \in FreeSlots(p) : n <= s
          /\ slot' = [slot EXCEPT ![s] =
                [rw |-> IF rw[p] = "write" THEN "write" ELSE "read", b |-> Target(p)]]
    /\ dirt' = [dirt EXCEPT ![Target(p)] = FALSE]
    /\ Return(p)
    /\ UNCHANGED <<op, rw, blk, lock, upto, data, disk, bufq, slotq, ops>>

\* Line 202: a read-ahead does not wait for a free entry.
SkipFull(p) ==
    /\ At(p, "slot") /\ FreeSlots(p) = {} /\ rw[p] = "reada"
    /\ cpu' = p
    /\ lock' = [lock EXCEPT ![Target(p)] = FALSE]
    /\ Return(p)
    /\ UNCHANGED <<op, rw, blk, dirt, upto, data, disk, slot, bufq, slotq, ops>>

\* The others do; interrupts are on between the search and the sleep.
NoSlot(p) ==
    /\ At(p, "slot") /\ FreeSlots(p) = {} /\ rw[p] # "reada"
    /\ cpu' = p /\ Goto(p, "noslot")
    /\ UNCHANGED <<op, want, bh, kept, ahead, scan, rw, buf, disk, slot, bufq, slotq, ops>>

SleepOnSlot(p) ==
    /\ At(p, "noslot") \/ At(p, "late")
    /\ cpu' = NoProc /\ Goto(p, "slotsleep")
    /\ slotq' = slotq \cup {p}
    /\ UNCHANGED <<op, want, bh, kept, ahead, scan, rw, buf, disk, slot, bufq, ops>>

SlotWoken(p) ==
    /\ At(p, "slotsleep") /\ p \notin slotq
    /\ cpu' = p /\ Goto(p, "slot")
    /\ UNCHANGED <<op, want, bh, kept, ahead, scan, rw, buf, disk, slot, bufq, slotq, ops>>

WakeSlotQueue == slotq' = {}

\* end_request(), in the disk interrupt.  Two requests do not complete in
\* the few instructions between a search and its sleep.  A buffer changed
\* during its transfer (dirty again) reaches the disk in either state.
EndRequest(s, ok) ==
    /\ slot[s] # NoReq
    /\ ok \/ slot[s].rw \in Errors
    /\ \A p \in Procs : pc[p] # "late"
    /\ pc' = [p \in Procs |-> IF pc[p] = "noslot" THEN "late" ELSE pc[p]]
    /\ LET b == slot[s].b IN
       /\ upto' = [upto EXCEPT ![b] = ok]
       /\ lock' = [lock EXCEPT ![b] = FALSE]
       /\ data' = IF ok /\ slot[s].rw = "read"
                  THEN [data EXCEPT ![b] = disk[blk[b]]] ELSE data
       /\ \/ /\ ok /\ slot[s].rw = "write"
             /\ \E v \in {data[b], data[b] /\ ~dirt[b]} : disk' = [disk EXCEPT ![blk[b]] = v]
          \/ ~(ok /\ slot[s].rw = "write") /\ UNCHANGED disk
    /\ slot' = [slot EXCEPT ![s] = NoReq]
    /\ WakeSlotQueue
    /\ UNCHANGED <<cpu, op, want, bh, kept, ahead, scan, rw, blk, cnt, dirt, bufq, ops>>

----------------------------------------------------------------------------
(* sync_dev(), sys_sync() and invalidate_buffers()                         *)

\* sync_inodes() comes before it: an inode is one more user that fills a buffer.
Scan(p) ==
    /\ WaitOn(p, "scan", Target(p))
    /\ cpu' = p
    /\ LET b == Target(p)
           still == InScope(b, scan[p].dev)
       IN  \/ /\ op[p] = "invalidate"
              /\ upto' = [upto EXCEPT ![b] = @ /\ ~still]
              /\ dirt' = [dirt EXCEPT ![b] = @ /\ ~still]
              /\ GoOnScan(p) /\ UNCHANGED rw
           \/ /\ op[p] # "invalidate" /\ still /\ dirt[b]
              /\ rw' = [rw EXCEPT ![p] = "write"]
              /\ Goto(p, "lock")
              /\ UNCHANGED <<scan, upto, dirt>>
           \/ /\ op[p] # "invalidate" /\ ~(still /\ dirt[b])
              /\ GoOnScan(p)
              /\ UNCHANGED <<rw, upto, dirt>>
    /\ UNCHANGED <<op, want, bh, kept, ahead, blk, cnt, lock, data, disk, slot, bufq, slotq, ops>>

----------------------------------------------------------------------------
(* The users                                                               *)

CountOp == IF MaxOps = 0 THEN UNCHANGED ops ELSE ops < MaxOps /\ ops' = ops + 1

\* bread(), breada(), new_block() and block_write() begin with getblk().
StartBlock(p, o, x) ==
    /\ At(p, "user") /\ cpu = NoProc /\ o \in Ops \ {"sync_dev", "sys_sync", "invalidate"}
    /\ cpu' = p /\ Goto(p, "find") /\ CountOp
    /\ op' = [op EXCEPT ![p] = o]
    /\ want' = [want EXCEPT ![p] = x]
    /\ UNCHANGED <<bh, kept, ahead, scan, rw, buf, disk, slot, bufq, slotq>>

StartScan(p, o, d) ==
    /\ At(p, "user") /\ cpu = NoProc /\ o \in Ops \cap {"sync_dev", "sys_sync", "invalidate"}
    /\ (o = "sys_sync") = (d = NoDev)
    /\ cpu' = p /\ CountOp
    /\ op' = [op EXCEPT ![p] = o]
    /\ ScanFrom(p, o, 0, d)
    /\ UNCHANGED <<want, bh, kept, ahead, rw, buf, disk, slot, bufq, slotq>>

\* getblk() returned: bread() and breada() read the buffer if need be,
\* new_block() clears it, block_write() will overwrite all of it.
Got(p) ==
    /\ At(p, "got")
    /\ cpu' = p
    /\ LET b == bh[p] IN
       \/ /\ op[p] \in {"bread", "breada", "file_write"} /\ ~upto[b]
          /\ rw' = [rw EXCEPT ![p] = IF kept[p] = NoBuf THEN "read" ELSE "reada"]
          /\ Goto(p, "lock")
          /\ UNCHANGED <<scan, want, bh, kept, ahead, cnt, upto, dirt, data, disk>>
       \/ /\ op[p] = "breada" /\ upto[b]
          /\ Return(p)
          /\ UNCHANGED <<rw, upto, dirt, data, disk>>
       \/ /\ op[p] \in {"bread", "file_write"} /\ upto[b]
          /\ Goto(p, "hold")
          /\ UNCHANGED <<rw, scan, want, bh, kept, ahead, cnt, upto, dirt, data, disk>>
       \/ /\ op[p] = "new_block"
          /\ data' = [data EXCEPT ![b] = TRUE]
          /\ disk' = [disk EXCEPT ![blk[b]] = FALSE]
          /\ upto' = [upto EXCEPT ![b] = TRUE]
          /\ dirt' = [dirt EXCEPT ![b] = TRUE]
          /\ Goto(p, "release")
          /\ UNCHANGED <<rw, scan, want, bh, kept, ahead, cnt>>
       \/ /\ op[p] = "block_write"
          /\ Goto(p, "copy")
          /\ UNCHANGED <<rw, scan, want, bh, kept, ahead, cnt, upto, dirt, data, disk>>
    /\ UNCHANGED <<op, blk, lock, slot, bufq, slotq, ops>>

\* bread() and breada() after their wait_on_buffer().
Read(p) ==
    /\ WaitOn(p, "read", bh[p])
    /\ cpu' = p
    /\ Goto(p, IF upto[bh[p]] THEN "hold" ELSE "release")
    /\ UNCHANGED <<op, want, bh, kept, ahead, scan, rw, buf, disk, slot, bufq, slotq, ops>>

\* The reader may go to sleep over something else with the buffer held.
HoldAsleep(p) ==
    /\ cpu = p /\ pc[p] = "hold"
    /\ cpu' = NoProc
    /\ UNCHANGED <<proc, buf, disk, slot, bufq, slotq, ops>>

Done(p) ==
    /\ At(p, "hold") /\ op[p] # "file_write"
    /\ cpu' = p /\ Goto(p, "release")
    /\ UNCHANGED <<op, want, bh, kept, ahead, scan, rw, buf, disk, slot, bufq, slotq, ops>>

\* The new contents of buffer b.
Modify(b) ==
    /\ data' = [data EXCEPT ![b] = TRUE]
    /\ disk' = [disk EXCEPT ![blk[b]] = FALSE]

\* A directory or inode block: changed and marked dirty without a sleep.
Change(p) ==
    /\ At(p, "hold") /\ op[p] # "file_write"
    /\ cpu' = p /\ Goto(p, "release")
    /\ Modify(bh[p])
    /\ dirt' = [dirt EXCEPT ![bh[p]] = TRUE]
    /\ UNCHANGED <<op, want, bh, kept, ahead, scan, rw, blk, cnt, lock, upto, slot, bufq, slotq, ops>>

\* file_write() marks the buffer dirty before it copies, block_write() after.
MarkDirty(p) ==
    /\ At(p, "hold") /\ op[p] = "file_write"
    /\ cpu' = p /\ Goto(p, "copy")
    /\ dirt' = [dirt EXCEPT ![bh[p]] = TRUE]
    /\ UNCHANGED <<op, want, bh, kept, ahead, scan, rw, blk, cnt, lock, upto, data,
                   disk, slot, bufq, slotq, ops>>

\* A page fault in get_fs_byte() may sleep.
PageFault(p) ==
    /\ Faults /\ cpu = p /\ pc[p] = "copy"
    /\ cpu' = NoProc
    /\ UNCHANGED <<proc, buf, disk, slot, bufq, slotq, ops>>

Copy(p) ==
    /\ At(p, "copy")
    /\ cpu' = p /\ Goto(p, "release")
    /\ Modify(bh[p])
    /\ dirt' = [dirt EXCEPT ![bh[p]] = @ \/ op[p] = "block_write"]
    /\ UNCHANGED <<op, want, bh, kept, ahead, scan, rw, blk, cnt, lock, upto, slot, bufq, slotq, ops>>

WakeBufferQueue == bufq' = {}

\* brelse(): wakes the processes that found no buffer.
Release(p) ==
    /\ WaitOn(p, "release", bh[p])
    /\ cpu' = NoProc /\ Goto(p, "user")
    /\ cnt' = [cnt EXCEPT ![bh[p]] = @ - 1]
    /\ WakeBufferQueue
    /\ bh' = [bh EXCEPT ![p] = NoBuf]
    /\ op' = [op EXCEPT ![p] = "none"]
    /\ want' = [want EXCEPT ![p] = NoBlock]
    /\ rw' = [rw EXCEPT ![p] = "read"]
    /\ UNCHANGED <<kept, ahead, scan, blk, lock, dirt, upto, data, disk, slot, slotq, ops>>

\* Back in user mode after a sync: the processor is free.
Leave(p) ==
    /\ cpu = p /\ pc[p] = "user"
    /\ cpu' = NoProc
    /\ op' = [op EXCEPT ![p] = "none"]
    /\ rw' = [rw EXCEPT ![p] = "read"]
    /\ UNCHANGED <<pc, want, bh, kept, ahead, scan, buf, disk, slot, bufq, slotq, ops>>

Start(p) ==
    \/ \E o \in Ops, x \in Blocks : StartBlock(p, o, x)
    \/ \E o \in Ops, d \in Devs \cup {NoDev} : StartScan(p, o, d)

\* What a process does next once it is in the kernel.
Run(p) ==
    \/ Find(p) \/ HashWait(p) \/ Select(p) \/ BufferWoken(p) \/ Wait(p)
    \/ Claim(p) \/ LockBuffer(p) \/ TakeSlot(p) \/ SkipFull(p)
    \/ NoSlot(p) \/ SleepOnSlot(p) \/ SlotWoken(p) \/ Scan(p) \/ Got(p)
    \/ Read(p) \/ Done(p) \/ Change(p) \/ MarkDirty(p) \/ Copy(p)
    \/ Release(p) \/ Leave(p) \/ SleepOnBuffer(p)

Next ==
    \/ \E s \in Slots, ok \in BOOLEAN : EndRequest(s, ok)
    \/ \E p \in Procs : Run(p) \/ Start(p) \/ HoldAsleep(p) \/ PageFault(p)

Spec == Init /\ [][Next]_vars

\* Every process that can go on is picked again and again by schedule(),
\* and the disk completes every request.
FairSpec ==
    /\ Spec
    /\ \A p \in Procs : SF_vars(Run(p))
    /\ \A s \in Slots : WF_vars(EndRequest(s, TRUE))

----------------------------------------------------------------------------
(* Properties                                                              *)

InRequest == {"lock", "slot", "noslot", "late", "slotsleep"}

\* p counts on buffer b in its b_count.
Holds(p, b) ==
    /\ bh[p] = b
    /\ \/ pc[p] \in {"hashwait", "got", "read", "hold", "copy", "release"}
       \/ pc[p] \in InRequest /\ scan[p].k = 0

(* getblk() "knows that this buffer is the only one of its kind" (line     *)
(* 349): no block is ever in two buffers, although getblk() sleeps between *)
(* finding that the block is not cached and adding it.                     *)
UniqueBlock ==
    \A b, c \in Bufs : blk[b] = blk[c] /\ blk[b] # NoBlock => b = c

(* b_count is the number of processes that hold the buffer: brelse() never *)
(* panics with "Trying to free free buffer", and no buffer is leaked.      *)
RefCount ==
    \A b \in Bufs : cnt[b] = Cardinality({p \in Procs : Holds(p, b)})
                              + Cardinality({p \in Procs : kept[p] = b})

(* A locked buffer has one owner, a request or the process that is about   *)
(* to make it, and an unlocked one has none: no buffer is ever in two      *)
(* requests, and no driver finds "block not locked" (INIT_REQUEST).        *)
LockOwner ==
    \A b \in Bufs :
        Cardinality({p \in Procs : pc[p] \in InRequest \ {"lock"} /\ Target(p) = b})
        + Cardinality({s \in Slots : slot[s].b = b}) = IF lock[b] THEN 1 ELSE 0

(* What getblk() returns, after any number of sleeps, is the wanted block, *)
(* held for the caller and not locked.                                     *)
GetblkResult ==
    \A p \in Procs : pc[p] = "got" =>
        blk[bh[p]] = want[p] /\ cnt[bh[p]] # 0 /\ ~lock[bh[p]]

(* A buffer that is held, locked or dirty is never given to another block: *)
(* the checks getblk() repeats after each of its sleeps are enough.        *)
HeldStays == [][\A b \in Bufs : cnt[b] # 0 \/ lock[b] \/ dirt[b]
                                    => blk'[b] = blk[b]]_vars

(* An up-to-date buffer holds what was last written to its block: no       *)
(* reader gets old contents.                                               *)
NewestCached == \A b \in Bufs : blk[b] # NoBlock /\ upto[b] => data[b]

(* What was written to a block is on the disk, or in a buffer that is      *)
(* marked dirty or being written: a buffer with b_dirt = 0 ("0-clean,      *)
(* 1-dirty", fs.h) has nothing to lose.                                    *)
Unwritten(b) == dirt[b] \/ \E s \in Slots : slot[s] = [rw |-> "write", b |-> b]
NothingLost ==
    \A x \in Blocks : disk[x] \/ \E b \in Bufs : blk[b] = x /\ data[b] /\ Unwritten(b)

(* What was written last is what is read, and what gets to the disk.       *)
DataKept == NewestCached /\ NothingLost

\* A sleep in get_fs_byte() after b_dirt is set loses what is copied to a buffer
\* that is written in the meantime: left to BufferCacheFileWrite.cfg.
NoWriteInCopy == \A p \in Procs : pc[p] = "copy" /\ dirt[bh[p]] => dirt'[bh[p]]

(* Nobody sleeps on a buffer that nobody will release: a process asleep in *)
(* getblk() is waited for by another that uses a buffer and has brelse()   *)
(* before it, also when breada() and get_hash_table() give up a buffer     *)
(* without a wake-up.                                                      *)
UsesBuffer(q) == op[q] \notin {"none", "sync_dev", "sys_sync", "invalidate"}
NobodyForgotten == \A p \in bufq : \E q \in Procs \ {p} : UsesBuffer(q)

(* The bookkeeping of the cache is right after any number of sleeps: counts, *)
(* locks, what getblk() returns, and who waits for whom.                   *)
BuffersOK == TypeOK /\ RefCount /\ LockOwner /\ GetblkResult /\ NobodyForgotten

(* Every operation on the cache returns, as long as the load is finite:    *)
(* nobody sleeps for ever on a buffer, a request or in getblk().           *)
AllReturn == \A p \in Procs : pc[p] # "user" ~> pc[p] = "user"
=============================================================================
