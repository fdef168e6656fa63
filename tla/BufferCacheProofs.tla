------------------------- MODULE BufferCacheProofs -------------------------
(***************************************************************************)
(* What TLAPS proves of BufferCache, for any number of processes, buffers, *)
(* blocks and request entries: no block is ever in two buffers, and a      *)
(* buffer that somebody holds, that is locked or dirty is never given to   *)
(* another block, whatever happens while getblk() sleeps; b_count counts   *)
(* those who hold the buffer, a locked buffer has one owner, getblk()      *)
(* returns what was asked for, and who sleeps on buffer_wait is waited for;*)
(* and what was written last is what is read, and gets to the disk.        *)
(***************************************************************************)
EXTENDS BufferCache, FiniteSetTheorems, TLAPS

\* The part of the types the argument needs.
BufType ==
    /\ pc \in [Procs -> PCs]
    /\ op \in [Procs -> Ops \cup {"none"}]
    /\ want \in [Procs -> Blocks \cup {NoBlock}]
    /\ bh \in [Procs -> Bufs \cup {NoBuf}]
    /\ kept \in [Procs -> Bufs \cup {NoBuf}]
    /\ blk \in [Bufs -> Blocks \cup {NoBlock}]
    /\ lock \in [Bufs -> BOOLEAN]
    /\ dirt \in [Bufs -> BOOLEAN]
    /\ cnt \in [Bufs -> Int]

ScanOps == {"sync_dev", "sys_sync", "invalidate"}

\* A process that is past the search of getblk(), or in a sync_dev() called
\* by it, has a buffer.
HasBuf ==
    \A p \in Procs :
        \/ pc[p] \in {"hashwait", "wait", "rewait", "claim", "got"}
        \/ pc[p] \in InRequest \cup {"scan"} /\ op[p] \notin ScanOps
        => bh[p] \in Bufs

\* The processes between their last wait and the claim of a buffer have the
\* processor, and the buffer they chose is still unused, unlocked and clean.
ClaimOK ==
    \A p \in Procs : pc[p] = "claim" =>
        cpu = p /\ cnt[bh[p]] = 0 /\ ~lock[bh[p]] /\ ~dirt[bh[p]]

IInv == BufType /\ HasBuf /\ ClaimOK /\ UniqueBlock

LEMMA InitIInv == Init => IInv
BY DEF Init, IInv, BufType, HasBuf, ClaimOK, UniqueBlock, InRequest, PCs, NoBuf, Bufs

----------------------------------------------------------------------------
(* Steps of a process                                                      *)

\* While a process is about to claim a buffer nobody else runs.
LEMMA OthersWait ==
    ASSUME IInv, NEW p \in Procs, NEW q \in Procs, pc[q] = "claim",
           cpu \in {p, NoProc}
    PROVE  q = p
BY ProcsAssumption DEF IInv, ClaimOK

\* A step of p that does not lead to a claim and moves no buffer to another
\* block, with a buffer in p's hands where HasBuf asks for one.
LEMMA QuietStep ==
    ASSUME IInv, BufType', NEW p \in Procs, cpu \in {p, NoProc},
           \A q \in Procs \ {p} : pc'[q] = pc[q] /\ bh'[q] = bh[q] /\ op'[q] = op[q],
           pc'[p] # "claim",
           \/ pc'[p] \in {"hashwait", "wait", "rewait", "got"}
           \/ pc'[p] \in InRequest \cup {"scan"} /\ op'[p] \notin ScanOps
           => bh'[p] \in Bufs,
           blk' = blk
    PROVE  IInv'
<1>1. \A q \in Procs : pc'[q] # "claim"
  BY OthersWait
<1>2. ClaimOK'
  BY <1>1 DEF ClaimOK
<1>3. UniqueBlock'
  BY DEF IInv, UniqueBlock
<1>4. HasBuf'
  BY <1>1 DEF IInv, HasBuf
<1> QED
  BY <1>2, <1>3, <1>4 DEF IInv

LEMMA ScanFromOK ==
    ASSUME NEW p \in Procs, NEW o, NEW k, NEW d, BufType, ScanFrom(p, o, k, d)
    PROVE  /\ pc' \in [Procs -> PCs]
           /\ \A q \in Procs \ {p} : pc'[q] = pc[q]
           /\ pc'[p] \in {"scan", "user", "rewait"}
           /\ pc'[p] = "rewait" => o \notin ScanOps
BY DEF ScanFrom, Goto, BufType, PCs, ScanOps

LEMMA ReturnOK ==
    ASSUME NEW p \in Procs, IInv, pc[p] \in {"lock", "slot", "got"}, Return(p)
    PROVE  /\ pc' \in [Procs -> PCs]
           /\ want' \in [Procs -> Blocks \cup {NoBlock}]
           /\ bh' \in [Procs -> Bufs \cup {NoBuf}]
           /\ kept' \in [Procs -> Bufs \cup {NoBuf}]
           /\ cnt' \in [Bufs -> Int]
           /\ \A q \in Procs \ {p} : pc'[q] = pc[q] /\ bh'[q] = bh[q]
           /\ pc'[p] \in {"scan", "user", "rewait", "read", "find"}
           /\ pc'[p] \in {"scan", "rewait"} =>
                 bh' = bh /\ (pc'[p] = "rewait" => op[p] \notin ScanOps)
<1> USE DEF IInv, BufType
<1>1. CASE scan[p].k > 0
  <2>1. GoOnScan(p) /\ UNCHANGED <<want, bh, kept, ahead, cnt>>
    BY <1>1 DEF Return
  <2> QED
    BY <2>1, ScanFromOK DEF GoOnScan
<1>2. CASE ~(scan[p].k > 0) /\ op[p] # "breada"
  BY <1>2 DEF Return, Goto, PCs
<1>3. CASE ~(scan[p].k > 0) /\ op[p] = "breada"
  <2>1. cnt' \in [Bufs -> Int] /\ scan' = scan
    BY <1>3 DEF Return
  <2>2. pc' \in [Procs -> PCs] /\ pc'[p] \in {"read", "find"}
    BY <1>3 DEF Return, Goto, PCs
  <2>3. \A q \in Procs \ {p} : pc'[q] = pc[q] /\ bh'[q] = bh[q]
    BY <1>3 DEF Return, Goto
  <2>4. want' \in [Procs -> Blocks \cup {NoBlock}]
    BY <1>3 DEF Return
  <2>5. bh' \in [Procs -> Bufs \cup {NoBuf}] /\ kept' \in [Procs -> Bufs \cup {NoBuf}]
    BY <1>3 DEF Return
  <2> QED
    BY <2>1, <2>2, <2>3, <2>4, <2>5
<1> QED
  BY <1>1, <1>2, <1>3

----------------------------------------------------------------------------
(* One lemma per group of actions                                          *)

LEMMA FindStep == ASSUME IInv, NEW p \in Procs, Find(p) PROVE IInv'
<1> USE DEF Find, Hold, At, Goto, IInv, BufType
<1>1. BufType'
  BY DEF PCs
<1>2. CASE \E b \in Bufs : /\ blk[b] = want[p]
                           /\ bh' = [bh EXCEPT ![p] = b]
                           /\ Goto(p, "hashwait")
  BY <1>1, <1>2, QuietStep
<1>3. CASE Goto(p, "select") /\ UNCHANGED bh
  BY <1>1, <1>3, QuietStep DEF InRequest
<1> QED
  BY <1>2, <1>3

LEMMA HashWaitStep == ASSUME IInv, NEW p \in Procs, HashWait(p) PROVE IInv'
<1> USE DEF HashWait, WaitOn, At, Goto, IInv, BufType
<1>1. BufType'
  BY DEF PCs
<1>2. bh[p] \in Bufs
  BY DEF HasBuf
<1>3. pc'[p] \in {"got", "find"} /\ \A q \in Procs \ {p} : pc'[q] = pc[q]
  OBVIOUS
<1> QED
  BY <1>1, <1>2, <1>3, QuietStep DEF InRequest

LEMMA SelectStep == ASSUME IInv, NEW p \in Procs, Select(p) PROVE IInv'
<1> USE DEF Select, At, Goto, IInv, BufType, buf
<1>1. BufType'
  BY DEF PCs
<1>2. CASE \E b \in Bufs : bh' = [bh EXCEPT ![p] = b] /\ Goto(p, "wait")
  BY <1>1, <1>2, QuietStep
<1>3. CASE Goto(p, "bufsleep") /\ UNCHANGED bh
  BY <1>1, <1>3, QuietStep DEF InRequest
<1> QED
  BY <1>2, <1>3

\* The step that leads to a claim.
LEMMA WaitStep == ASSUME IInv, NEW p \in Procs, Wait(p) PROVE IInv'
<1> USE DEF Wait, Taken, MustSync, WaitOn, At, IInv, BufType, buf
<1>1. bh[p] \in Bufs
  BY DEF HasBuf
<1>2. CASE cnt[bh[p]] # 0 /\ Goto(p, "find") /\ UNCHANGED scan
  <2>1. BufType'
    BY <1>2 DEF PCs, Goto
  <2> QED
    BY <1>1, <1>2, <2>1, QuietStep DEF Goto
<1>3. CASE ScanFrom(p, op[p], 0, Dev[blk[bh[p]]])
  <2>1. /\ pc' \in [Procs -> PCs]
        /\ \A q \in Procs \ {p} : pc'[q] = pc[q]
        /\ pc'[p] \in {"scan", "user", "rewait"}
    BY <1>3, ScanFromOK
  <2>2. BufType'
    BY <2>1
  <2> QED
    BY <1>1, <2>1, <2>2, QuietStep
<1>4. CASE cnt[bh[p]] = 0 /\ ~dirt[bh[p]] /\ Goto(p, "claim") /\ UNCHANGED scan
  <2>1. BufType'
    BY <1>4 DEF PCs, Goto
  <2>2. \A q \in Procs \ {p} : pc'[q] = pc[q] /\ pc[q] # "claim"
    BY <1>4, OthersWait DEF Goto
  <2>3. ClaimOK'
    BY <1>4, <2>2 DEF ClaimOK, Goto
  <2>4. HasBuf'
    BY <1>1, <2>2 DEF HasBuf
  <2>5. UniqueBlock'
    BY DEF UniqueBlock
  <2> QED
    BY <2>1, <2>3, <2>4, <2>5
<1> QED
  BY <1>2, <1>3, <1>4

LEMMA ClaimStep == ASSUME IInv, NEW p \in Procs, Claim(p) PROVE IInv'
<1> USE DEF Claim, Added, ResetFlags, Requeue, At, IInv, BufType
<1>1. bh[p] \in Bufs
  BY DEF HasBuf
<1>2. BufType'
  <2>1. pc' \in [Procs -> PCs] /\ UNCHANGED <<op, want, bh, kept>>
    BY DEF PCs, Goto
  <2>2. CASE UNCHANGED buf
    BY <2>1, <2>2 DEF buf
  <2>3. CASE ~ UNCHANGED buf
    <3>1. /\ cnt' = [cnt EXCEPT ![bh[p]] = 1]
          /\ dirt' = [dirt EXCEPT ![bh[p]] = FALSE]
          /\ blk' = [blk EXCEPT ![bh[p]] = want[p]]
          /\ lock' = lock
      BY <2>3
    <3> HIDE DEF Claim, Added, ResetFlags, Requeue, At
    <3>2. cnt' \in [Bufs -> Int]
      <4>1. \A n \in Int : [cnt EXCEPT ![bh[p]] = n] \in [Bufs -> Int]
        OBVIOUS
      <4> QED
        BY <3>1, <4>1
    <3>3. dirt' \in [Bufs -> BOOLEAN]
      BY <3>1
    <3>4. blk' \in [Bufs -> Blocks \cup {NoBlock}]
      BY <3>1
    <3> QED
      BY <2>1, <3>1, <3>2, <3>3, <3>4
  <2> QED
    BY <2>2, <2>3
<1>3. CASE Goto(p, "find") /\ UNCHANGED buf
  BY <1>1, <1>2, <1>3, QuietStep DEF Goto, buf, InRequest
<1>4. CASE /\ \A b \in Bufs : blk[b] # want[p]
           /\ Goto(p, "got")
           /\ blk' = [blk EXCEPT ![bh[p]] = want[p]]
  <2>1. \A q \in Procs : pc'[q] # "claim"
    BY <1>4, OthersWait DEF Goto
  <2>2. ClaimOK'
    BY <2>1 DEF ClaimOK
  <2>3. HasBuf'
    BY <1>1, <1>4 DEF HasBuf, Goto
  <2>4. UniqueBlock'
    BY <1>1, <1>4 DEF UniqueBlock
  <2> QED
    BY <1>2, <2>2, <2>3, <2>4
<1> QED
  BY <1>3, <1>4

\* make_request(): LockBuffer, TakeSlot and SkipFull may return to the caller.
LEMMA RequestStep ==
    ASSUME IInv, NEW p \in Procs,
           LockBuffer(p) \/ TakeSlot(p) \/ SkipFull(p)
    PROVE  IInv'
<1> USE DEF IInv, BufType
<1>1. /\ cpu \in {p, NoProc} /\ pc[p] \in {"lock", "slot"}
      /\ op' = op /\ blk' = blk
  BY DEF LockBuffer, TakeSlot, SkipFull, WaitOn, At
<1>2. lock' \in [Bufs -> BOOLEAN] /\ dirt' \in [Bufs -> BOOLEAN]
  BY DEF LockBuffer, TakeSlot, SkipFull
<1>3. CASE Return(p)
  <2>1. BufType'
    BY <1>1, <1>2, <1>3, ReturnOK
  <2>2. \/ pc'[p] \in {"hashwait", "wait", "rewait", "got"}
        \/ pc'[p] \in InRequest \cup {"scan"} /\ op'[p] \notin ScanOps
        => bh'[p] \in Bufs
    BY <1>1, <1>3, ReturnOK DEF HasBuf, InRequest
  <2>3. pc'[p] # "claim" /\ \A q \in Procs \ {p} : pc'[q] = pc[q] /\ bh'[q] = bh[q]
    BY <1>1, <1>3, ReturnOK
  <2> QED
    BY <1>1, <2>1, <2>2, <2>3, QuietStep
<1>4. CASE Goto(p, "slot") /\ UNCHANGED <<scan, want, bh, kept, ahead, cnt>>
  <2>1. BufType'
    BY <1>1, <1>2, <1>4 DEF Goto, PCs
  <2> QED
    BY <1>1, <1>4, <2>1, QuietStep DEF Goto, HasBuf, InRequest
<1> QED
  BY <1>3, <1>4 DEF LockBuffer, TakeSlot, SkipFull

\* Steps inside make_request() and those that only move on from a state
\* with a buffer in hand.
LEMMA SleepStep ==
    ASSUME IInv, NEW p \in Procs,
           \/ NoSlot(p) \/ SleepOnSlot(p) \/ SlotWoken(p) \/ BufferWoken(p)
           \/ Read(p) \/ Done(p)
    PROVE  IInv'
<1> USE DEF NoSlot, SleepOnSlot, SlotWoken, BufferWoken, Read, Done, WaitOn, At, Goto
<1>1. UNCHANGED <<op, want, bh, kept, buf>> /\ cpu \in {p, NoProc}
  OBVIOUS
<1>2. PICK l \in PCs : pc' = [pc EXCEPT ![p] = l]
  BY DEF PCs
<1>3. BufType'
  BY <1>1, <1>2 DEF IInv, BufType, buf
<1>4. /\ l \notin {"claim", "hashwait", "wait", "rewait", "got", "scan"}
      /\ l \in InRequest => pc[p] \in InRequest
  BY <1>2, IInv DEF IInv, BufType, InRequest
<1> QED
  BY <1>1, <1>2, <1>3, <1>4, QuietStep DEF IInv, BufType, HasBuf, buf

LEMMA HolderStep ==
    ASSUME IInv, NEW p \in Procs,
           Change(p) \/ MarkDirty(p) \/ Copy(p) \/ Release(p) \/ Leave(p)
    PROVE  IInv'
<1>1. cpu \in {p, NoProc} /\ blk' = blk
  BY DEF Change, MarkDirty, Copy, Release, Leave, WaitOn, At, buf
<1>2. pc' \in [Procs -> PCs] /\ pc'[p] \in {"copy", "release", "user"}
  BY DEF Change, MarkDirty, Copy, Release, Leave, WaitOn, At, Goto, IInv, BufType, PCs
<1>3. \A q \in Procs \ {p} : pc'[q] = pc[q] /\ bh'[q] = bh[q] /\ op'[q] = op[q]
  BY DEF Change, MarkDirty, Copy, Release, Leave, Goto, IInv, BufType
<1>4. /\ op' \in [Procs -> Ops \cup {"none"}]
      /\ want' \in [Procs -> Blocks \cup {NoBlock}]
      /\ bh' \in [Procs -> Bufs \cup {NoBuf}]
      /\ kept' \in [Procs -> Bufs \cup {NoBuf}]
  BY DEF Change, MarkDirty, Copy, Release, Leave, IInv, BufType
<1>5. lock' \in [Bufs -> BOOLEAN] /\ dirt' \in [Bufs -> BOOLEAN]
  <2>1. CASE Change(p) \/ MarkDirty(p)
    BY <2>1 DEF Change, MarkDirty, IInv, BufType
  <2>2. CASE Copy(p)
    <3>1. lock' = lock /\ dirt' = [dirt EXCEPT ![bh[p]] = dirt[bh[p]] \/ op[p] = "block_write"]
      BY <2>2 DEF Copy
    <3> DEFINE v == dirt[bh[p]] \/ op[p] = "block_write"
    <3>2. v \in BOOLEAN
      BY Zenon
    <3>3. dirt' = [dirt EXCEPT ![bh[p]] = v]
      BY <3>1
    <3> HIDE DEF v
    <3> QED
      BY <3>1, <3>2, <3>3 DEF IInv, BufType
  <2>3. CASE Release(p) \/ Leave(p)
    BY <2>3 DEF Release, Leave, buf, IInv, BufType
  <2> QED
    BY <2>1, <2>2, <2>3
<1>6. cnt' \in [Bufs -> Int]
  BY DEF Change, MarkDirty, Copy, Release, Leave, buf, IInv, BufType
<1>7. BufType'
  BY <1>1, <1>2, <1>4, <1>5, <1>6 DEF IInv, BufType
<1> QED
  BY <1>1, <1>2, <1>3, <1>7, QuietStep DEF InRequest

LEMMA StartStep == ASSUME IInv, NEW p \in Procs, Start(p) PROVE IInv'
<1> USE DEF IInv, BufType
<1>1. CASE \E o \in Ops, x \in Blocks : StartBlock(p, o, x)
  <2>1. PICK o \in Ops, x \in Blocks : StartBlock(p, o, x)
    BY <1>1
  <2> USE <2>1 DEF StartBlock, At, Goto, buf
  <2>2. BufType'
    BY DEF PCs
  <2> QED
    BY <2>2, QuietStep DEF InRequest
<1>2. CASE \E o \in Ops, d \in Devs \cup {NoDev} : StartScan(p, o, d)
  <2>1. PICK o \in Ops, d \in Devs \cup {NoDev} : StartScan(p, o, d)
    BY <1>2
  <2>2. /\ cpu = NoProc /\ o \in ScanOps /\ op' = [op EXCEPT ![p] = o]
        /\ ScanFrom(p, o, 0, d)
        /\ UNCHANGED <<want, bh, kept, buf>>
    BY <2>1 DEF StartScan, ScanOps
  <2>3. /\ pc' \in [Procs -> PCs]
        /\ \A q \in Procs \ {p} : pc'[q] = pc[q]
        /\ pc'[p] \in {"scan", "user"}
    BY <2>2, ScanFromOK
  <2>4. BufType'
    BY <2>2, <2>3 DEF buf
  <2> QED
    BY <2>2, <2>3, <2>4, QuietStep DEF InRequest, buf
<1> QED
  BY <1>1, <1>2 DEF Start

LEMMA ScanStep == ASSUME IInv, NEW p \in Procs, Scan(p) PROVE IInv'
<1> DEFINE b == Target(p)
           still == InScope(b, scan[p].dev)
<1>1. /\ pc[p] = "scan" /\ cpu \in {p, NoProc}
      /\ UNCHANGED <<op, want, bh, kept, blk, cnt, lock>>
  BY DEF Scan, WaitOn, At
<1>2. dirt' \in [Bufs -> BOOLEAN]
  <2>1. PICK v \in BOOLEAN : dirt' = [dirt EXCEPT ![b] = v] \/ dirt' = dirt
    <3>1. (dirt[b] /\ ~still) \in BOOLEAN
      OBVIOUS
    <3>2. \/ dirt' = [dirt EXCEPT ![b] = dirt[b] /\ ~still]
          \/ dirt' = dirt
      BY Zenon DEF Scan
    <3> QED
      BY <3>1, <3>2
  <2> QED
    BY <2>1 DEF IInv, BufType
<1>3. CASE Goto(p, "lock")
  <2>1. BufType'
    BY <1>1, <1>2, <1>3 DEF Goto, PCs, IInv, BufType
  <2> QED
    BY <1>1, <1>3, <2>1, QuietStep DEF Goto, HasBuf, IInv, BufType, InRequest
<1>4. CASE GoOnScan(p)
  <2>1. /\ pc' \in [Procs -> PCs]
        /\ \A q \in Procs \ {p} : pc'[q] = pc[q]
        /\ pc'[p] \in {"scan", "user", "rewait"}
        /\ pc'[p] = "rewait" => op[p] \notin ScanOps
    BY <1>4, ScanFromOK DEF GoOnScan, IInv
  <2>2. BufType'
    BY <1>1, <1>2, <2>1 DEF IInv, BufType
  <2> QED
    BY <1>1, <2>1, <2>2, QuietStep DEF HasBuf, IInv, InRequest
<1> QED
  BY <1>3, <1>4 DEF Scan

LEMMA GotStep == ASSUME IInv, NEW p \in Procs, Got(p) PROVE IInv'
<1>1. /\ pc[p] = "got" /\ cpu \in {p, NoProc} /\ bh[p] \in Bufs
      /\ UNCHANGED <<op, blk, lock>>
  BY DEF Got, At, IInv, HasBuf
<1>2. dirt' \in [Bufs -> BOOLEAN]
  BY DEF Got, IInv, BufType
<1>3. CASE Return(p)
  <2>1. BufType'
    BY <1>1, <1>2, <1>3, ReturnOK DEF IInv, BufType
  <2>2. \A q \in Procs \ {p} : pc'[q] = pc[q] /\ bh'[q] = bh[q] /\ op'[q] = op[q]
    BY <1>1, <1>3, ReturnOK
  <2>3. /\ pc'[p] \in {"scan", "user", "rewait", "read", "find"}
        /\ pc'[p] \in {"scan", "rewait"} => bh'[p] \in Bufs
    BY <1>1, <1>3, ReturnOK
  <2> QED
    BY <1>1, <2>1, <2>2, <2>3, QuietStep DEF InRequest
<1>4. CASE \E l \in {"lock", "hold", "release", "copy"} :
             Goto(p, l) /\ UNCHANGED <<want, bh, kept, cnt>>
  <2>1. BufType'
    BY <1>1, <1>2, <1>4 DEF Goto, PCs, IInv, BufType
  <2> QED
    BY <1>1, <1>4, <2>1, QuietStep DEF Goto, IInv, BufType
<1> QED
  BY <1>3, <1>4 DEF Got

----------------------------------------------------------------------------
(* The disk interrupt                                                      *)

LEMMA EndRequestStep ==
    ASSUME IInv, NEW s \in Slots, NEW ok \in BOOLEAN, EndRequest(s, ok)
    PROVE  IInv'
<1> DEFINE b == slot[s].b
<1>1. /\ UNCHANGED <<cpu, op, want, bh, kept, blk, cnt, dirt>>
      /\ lock' = [lock EXCEPT ![b] = FALSE]
      /\ pc' = [p \in Procs |-> IF pc[p] = "noslot" THEN "late" ELSE pc[p]]
  BY DEF EndRequest
<1>2. BufType'
  BY <1>1 DEF IInv, BufType, PCs
<1>3. HasBuf'
  BY <1>1 DEF IInv, HasBuf, InRequest
<1>4. UniqueBlock'
  BY <1>1 DEF IInv, UniqueBlock
<1>5. ClaimOK'
  <2> SUFFICES ASSUME NEW p \in Procs, pc'[p] = "claim"
               PROVE  (cpu = p /\ cnt[bh[p]] = 0 /\ ~lock[bh[p]] /\ ~dirt[bh[p]])'
    BY DEF ClaimOK
  <2>1. pc[p] = "claim"
    BY <1>1 DEF IInv, BufType
  <2>2. bh[p] \in Bufs /\ ~lock[bh[p]]
    BY <2>1 DEF IInv, HasBuf, ClaimOK
  <2>3. ~lock'[bh[p]]
    BY <1>1, <2>2 DEF IInv, BufType
  <2> QED
    BY <1>1, <2>1, <2>3 DEF IInv, ClaimOK
<1> QED
  BY <1>2, <1>3, <1>4, <1>5 DEF IInv

----------------------------------------------------------------------------
(* A process that only gives up the processor was not about to claim.      *)
LEMMA YieldStep ==
    ASSUME IInv, NEW p \in Procs,
           SleepOnBuffer(p) \/ HoldAsleep(p) \/ PageFault(p)
    PROVE  IInv'
<1>1. /\ cpu = p /\ pc[p] # "claim"
      /\ UNCHANGED <<proc, buf>>
  BY DEF SleepOnBuffer, HoldAsleep, PageFault, WaitsForLock
<1>2. BufType'
  BY <1>1 DEF IInv, BufType, proc, buf
<1> QED
  BY <1>1, <1>2, QuietStep DEF IInv, HasBuf, proc, buf

LEMMA NextIInv == IInv /\ [Next]_vars => IInv'
<1> SUFFICES ASSUME IInv, [Next]_vars PROVE IInv'
  OBVIOUS
<1>1. CASE \E s \in Slots, ok \in BOOLEAN : EndRequest(s, ok)
  BY <1>1, EndRequestStep
<1>2. ASSUME NEW p \in Procs, Run(p) PROVE IInv'
  BY <1>2, FindStep, HashWaitStep, SelectStep, SleepStep, WaitStep, ClaimStep,
     RequestStep, ScanStep, GotStep, HolderStep, YieldStep DEF Run
<1>3. ASSUME NEW p \in Procs, Start(p) \/ HoldAsleep(p) \/ PageFault(p) PROVE IInv'
  BY <1>3, StartStep, YieldStep
<1>4. CASE UNCHANGED vars
  BY <1>4 DEF vars, proc, buf, IInv, BufType, HasBuf, ClaimOK, UniqueBlock
<1> QED
  BY <1>1, <1>2, <1>3, <1>4 DEF Next

LEMMA IInvCorrect == Spec => []IInv
<1> QED
  BY InitIInv, NextIInv, PTL DEF Spec

(* getblk() sleeps between finding that a block is not cached and adding   *)
(* it, and yet no block is ever in two buffers.                            *)
THEOREM UniqueBlocks == Spec => []UniqueBlock
<1>1. IInv => UniqueBlock
  BY DEF IInv
<1> QED
  BY IInvCorrect, <1>1, PTL

\* Only getblk() moves a buffer to another block.
LEMMA BlkStep ==
    ASSUME IInv, [Next]_vars, blk' # blk
    PROVE  \E p \in Procs : Claim(p) /\ ~ UNCHANGED buf
<1>1. CASE \E s \in Slots, ok \in BOOLEAN : EndRequest(s, ok)
  BY <1>1 DEF EndRequest
<1>2. ASSUME NEW p \in Procs, Run(p) PROVE Claim(p) /\ ~ UNCHANGED buf
  BY <1>2 DEF Run, buf, Find, HashWait, Select, BufferWoken, Wait, LockBuffer,
     TakeSlot, SkipFull, NoSlot, SleepOnSlot, SlotWoken, Scan, Got, Read, Done,
     Change, MarkDirty, Copy, Release, Leave, SleepOnBuffer
<1>3. ASSUME NEW p \in Procs, Start(p) \/ HoldAsleep(p) \/ PageFault(p) PROVE FALSE
  BY <1>3 DEF Start, StartBlock, StartScan, HoldAsleep, PageFault, buf
<1> QED
  BY <1>1, <1>2, <1>3 DEF Next, vars, buf

(* getblk() never takes a buffer that is held, locked or dirty: the checks *)
(* it repeats after each of its sleeps are enough.                         *)
THEOREM HeldStaysPut == Spec => HeldStays
<1>1. ASSUME IInv, [Next]_vars, NEW b \in Bufs, cnt[b] # 0 \/ lock[b] \/ dirt[b],
             blk'[b] # blk[b]
      PROVE  FALSE
  <2>1. PICK p \in Procs : Claim(p) /\ ~ UNCHANGED buf
    BY <1>1, BlkStep
  <2>2. pc[p] = "claim" /\ blk' = [blk EXCEPT ![bh[p]] = want[p]]
    BY <2>1 DEF Claim, Added, ResetFlags, Requeue, At
  <2>3. b = bh[p]
    BY <1>1, <2>2 DEF IInv, BufType
  <2> QED
    BY <1>1, <2>2, <2>3 DEF IInv, ClaimOK
<1>2. IInv /\ [Next]_vars => [\A b \in Bufs : cnt[b] # 0 \/ lock[b] \/ dirt[b]
                                    => blk'[b] = blk[b]]_vars
  BY <1>1
<1> QED
  BY IInvCorrect, <1>2, PTL DEF Spec, HeldStays

----------------------------------------------------------------------------
(* Where a process is tells what it has in its hands                       *)

\* The types, with b_count an integer until it is shown to be a count.
Types ==
    /\ BufType
    /\ cpu \in Procs \cup {NoProc}
    /\ ahead \in [Procs -> 0..MaxAhead]
    /\ scan \in [Procs -> [k : 0..2 * NBufs, dev : Devs \cup {NoDev}]]
    /\ rw \in [Procs -> {"read", "reada", "write"}]
    /\ upto \in [Bufs -> BOOLEAN] /\ data \in [Bufs -> BOOLEAN]
    /\ disk \in [Blocks -> BOOLEAN]
    /\ slot \in [Slots -> [rw : {"read", "write"}, b : Bufs] \cup {NoReq}]
    /\ bufq \subseteq Procs /\ slotq \subseteq Procs
    /\ ops \in 0..MaxOps

\* In the search of getblk() a process works on no buffer yet.
Searching == {"find", "select", "bufsleep"}

\* Where p is, in which operation, and what it must have there.
Control(p) ==
    /\ pc[p] = "user" => op[p] \in ScanOps \cup {"none"}
    /\ pc[p] # "user" => op[p] # "none"
    /\ pc[p] \notin InRequest \cup {"user", "scan"} => op[p] \notin ScanOps
    /\ pc[p] = "scan" => scan[p].k # 0
    /\ scan[p].k # 0 => pc[p] \in InRequest \cup {"scan"}
    /\ pc[p] \in InRequest => (op[p] \in ScanOps => scan[p].k # 0)
    /\ pc[p] \in InRequest => (scan[p].k # 0 => rw[p] = "write")
    /\ UsesBuffer(p) => want[p] \in Blocks
    /\ UsesBuffer(p) /\ pc[p] \notin Searching => bh[p] \in Bufs
    /\ kept[p] # NoBuf => op[p] = "breada" /\ pc[p] \notin {"user", "read", "hold", "copy", "release"}
    /\ pc[p] \in {"got", "claim"} => cpu = p

\* The buffers p counts on, keeps or has locked hold a block.
Backed(p) ==
    /\ Holds(p, bh[p]) => blk[bh[p]] # NoBlock
    /\ kept[p] # NoBuf => blk[kept[p]] # NoBlock
    /\ pc[p] \in InRequest \ {"lock"} => blk[Target(p)] # NoBlock

\* So does a dirty buffer and one in a request.
BlocksThere ==
    /\ \A b \in Bufs : dirt[b] => blk[b] # NoBlock
    /\ \A s \in Slots : slot[s] # NoReq => blk[slot[s].b] # NoBlock

PInv ==
    /\ Types
    /\ \A p \in Procs : Control(p)
    /\ \A p \in Procs : Backed(p)
    /\ BlocksThere

\* The step of p changes nothing of the other processes.
Alone(p) ==
    \A q \in Procs \ {p} :
        /\ pc'[q] = pc[q] /\ op'[q] = op[q] /\ want'[q] = want[q]
        /\ bh'[q] = bh[q] /\ kept'[q] = kept[q] /\ ahead'[q] = ahead[q]
        /\ scan'[q] = scan[q] /\ rw'[q] = rw[q]

\* A buffer with a block never loses it.
BlocksStay == \A b \in Bufs : blk'[b] = blk[b] \/ blk'[b] \in Blocks

LEMMA ScanBufIn == ASSUME NEW k \in 1..2 * NBufs PROVE ScanBuf(k) \in Bufs
BY SizeAssumption DEF ScanBuf, Bufs

LEMMA TargetIn ==
    ASSUME PInv, NEW p \in Procs, pc[p] \in InRequest \cup {"scan"}
    PROVE  Target(p) \in Bufs
<1>1. scan[p].k \in 0..2 * NBufs
  BY DEF PInv, Types
<1>2. CASE scan[p].k = 0
  <2>1. Target(p) = bh[p]
    BY <1>2 DEF Target
  <2>2. UsesBuffer(p)
    BY <1>2 DEF PInv, Control, UsesBuffer, ScanOps, InRequest
  <2> QED
    BY <2>1, <2>2 DEF PInv, Control, Searching, InRequest
<1>3. CASE scan[p].k # 0
  <2>1. scan[p].k \in 1..2 * NBufs
    BY <1>1, <1>3, SizeAssumption
  <2>2. Target(p) = ScanBuf(scan[p].k)
    BY <2>1, SizeAssumption DEF Target
  <2> QED
    BY <2>1, <2>2, ScanBufIn
<1> QED
  BY <1>2, <1>3

LEMMA InitPInv == Init => PInv
<1> SUFFICES ASSUME Init PROVE PInv
  OBVIOUS
<1> USE SizeAssumption, DevAssumption
<1>1. Types
  BY InitIInv DEF IInv, Init, Types, NoScan
<1>2. ASSUME NEW p \in Procs PROVE Control(p) /\ Backed(p)
  BY <1>2 DEF Init, Control, Backed, NoScan, UsesBuffer, Holds, InRequest, Searching
<1>3. BlocksThere
  BY DEF Init, BlocksThere
<1> QED
  BY <1>1, <1>2, <1>3 DEF PInv

\* A step of p is right for everybody if it is for p.
LEMMA AloneStep ==
    ASSUME PInv, NEW p \in Procs, cpu \in {p, NoProc}, Alone(p), BlocksStay,
           Types', Control(p)', Backed(p)', BlocksThere'
    PROVE  PInv' /\ Alone(p)
<1>1. ASSUME NEW q \in Procs, q # p PROVE Control(q)'
  <2>1. Control(q) /\ NoProc # q
    BY <1>1, ProcsAssumption DEF PInv
  <2>2. pc[q] \notin {"got", "claim"}
    BY <1>1, <2>1 DEF Control
  <2> QED
    BY <1>1, <2>1, <2>2 DEF Control, Alone, UsesBuffer
<1>2. ASSUME NEW q \in Procs, q # p PROVE Backed(q)'
  <2>1. Backed(q) /\ Control(q)
    BY DEF PInv
  <2>2. UNCHANGED <<pc[q], op[q], bh[q], kept[q], scan[q]>>
    BY <1>2 DEF Alone
  <2>3. Holds(q, bh[q])' <=> Holds(q, bh[q])
    BY <2>2 DEF Holds
  <2>4. Target(q)' = Target(q)
    BY <2>2 DEF Target
  <2>5. Holds(q, bh[q]) => bh[q] \in Bufs
    BY <2>1 DEF Control, Holds, UsesBuffer, Searching, InRequest, ScanOps
  <2>6. pc[q] \in InRequest \ {"lock"} => Target(q) \in Bufs
    BY TargetIn
  <2>7. kept[q] # NoBuf => kept[q] \in Bufs
    BY DEF PInv, Types, BufType
  <2>8. \A b \in Bufs : blk[b] # NoBlock => blk'[b] # NoBlock
    BY BlocksAssumption DEF BlocksStay
  <2> QED
    BY <2>1, <2>2, <2>3, <2>4, <2>5, <2>6, <2>7, <2>8 DEF Backed
<1> QED
  BY <1>1, <1>2 DEF PInv

LEMMA ScanFromPlace ==
    ASSUME PInv, NEW p \in Procs, NEW o, NEW k \in 0..2 * NBufs,
           NEW d \in Devs \cup {NoDev}, ScanFrom(p, o, k, d)
    PROVE  /\ pc' \in [Procs -> PCs]
           /\ scan' \in [Procs -> [k : 0..2 * NBufs, dev : Devs \cup {NoDev}]]
           /\ \A q \in Procs \ {p} : pc'[q] = pc[q] /\ scan'[q] = scan[q]
           /\ \/ pc'[p] = "scan" /\ scan'[p].k # 0
              \/ pc'[p] = "user" /\ scan'[p].k = 0 /\ o \in ScanOps
              \/ pc'[p] = "rewait" /\ scan'[p].k = 0 /\ o \notin ScanOps
<1> DEFINE end  == IF o \in {"sys_sync", "invalidate"} THEN NBufs ELSE 2 * NBufs
           left == {j \in (k + 1)..end : InScope(ScanBuf(j), d)}
<1> USE SizeAssumption DEF PInv, Types, BufType
<1>1. CASE \E j \in left : /\ scan' = [scan EXCEPT ![p] = [k |-> j, dev |-> d]]
                           /\ Goto(p, "scan")
  <2>1. PICK j \in left : /\ scan' = [scan EXCEPT ![p] = [k |-> j, dev |-> d]]
                          /\ Goto(p, "scan")
    BY <1>1
  <2>2. j \in 1..2 * NBufs
    BY <2>1
  <2> HIDE DEF left
  <2> QED
    BY <2>1, <2>2 DEF Goto, PCs
<1>2. CASE /\ scan' = [scan EXCEPT ![p] = NoScan]
           /\ Goto(p, IF o \in ScanOps THEN "user" ELSE "rewait")
  BY <1>2 DEF NoScan, Goto, PCs
<1> QED
  BY <1>1, <1>2 DEF ScanFrom, ScanOps

\* What Return(p) leaves: everything of its type, the others where they were.
Returned(p) ==
    /\ pc' \in [Procs -> PCs]
    /\ want' \in [Procs -> Blocks \cup {NoBlock}]
    /\ bh' \in [Procs -> Bufs \cup {NoBuf}]
    /\ kept' \in [Procs -> Bufs \cup {NoBuf}]
    /\ ahead' \in [Procs -> 0..MaxAhead]
    /\ scan' \in [Procs -> [k : 0..2 * NBufs, dev : Devs \cup {NoDev}]]
    /\ cnt' \in [Bufs -> Int]
    /\ \A q \in Procs \ {p} :
          /\ pc'[q] = pc[q] /\ want'[q] = want[q] /\ bh'[q] = bh[q]
          /\ kept'[q] = kept[q] /\ ahead'[q] = ahead[q] /\ scan'[q] = scan[q]
    /\ Control(p)' /\ Backed(p)'

LEMMA ReturnPlace ==
    ASSUME PInv, NEW p \in Procs, Return(p), op' = op, blk' = blk,
           pc[p] \in {"lock", "slot"} \/ (pc[p] = "got" /\ op[p] = "breada")
    PROVE  Returned(p)
<1>1. Control(p) /\ Backed(p) /\ Types
  BY DEF PInv
<1>2. CASE scan[p].k # 0
  <2>1. GoOnScan(p) /\ UNCHANGED <<want, bh, kept, ahead, cnt>>
    BY <1>1, <1>2, SizeAssumption DEF Return, Types
  <2>2. /\ pc' \in [Procs -> PCs]
        /\ scan' \in [Procs -> [k : 0..2 * NBufs, dev : Devs \cup {NoDev}]]
        /\ \A q \in Procs \ {p} : pc'[q] = pc[q] /\ scan'[q] = scan[q]
        /\ \/ pc'[p] = "scan" /\ scan'[p].k # 0
           \/ pc'[p] = "user" /\ scan'[p].k = 0 /\ op[p] \in ScanOps
           \/ pc'[p] = "rewait" /\ scan'[p].k = 0 /\ op[p] \notin ScanOps
    BY <1>1, <2>1, ScanFromPlace DEF GoOnScan, Types
  <2>3. Control(p)'
    BY <1>1, <1>2, <2>1, <2>2 DEF Control, UsesBuffer, ScanOps, Searching, InRequest
  <2>4. Backed(p)'
    BY <1>1, <2>1, <2>2 DEF Backed, Holds, InRequest
  <2> QED
    BY <1>1, <2>1, <2>2, <2>3, <2>4 DEF Types, BufType, Returned
<1>3. CASE scan[p].k = 0 /\ op[p] # "breada"
  <2>1. Goto(p, "read") /\ UNCHANGED <<scan, want, bh, kept, ahead, cnt>>
    BY <1>3 DEF Return
  <2>2. Control(p)'
    BY <1>1, <1>3, <2>1 DEF Control, UsesBuffer, ScanOps, Searching, InRequest, Goto, Types, BufType
  <2>3. Backed(p)'
    BY <1>1, <1>3, <2>1 DEF Backed, Holds, InRequest, Goto, Types, BufType
  <2> QED
    BY <1>1, <2>1, <2>2, <2>3 DEF Types, BufType, Goto, PCs, Returned
<1>4. CASE scan[p].k = 0 /\ op[p] = "breada"
  <2> DEFINE first == IF kept[p] = NoBuf THEN bh[p] ELSE kept[p]
  <2>1. UsesBuffer(p) /\ bh[p] \in Bufs /\ Holds(p, bh[p])
    BY <1>1, <1>4 DEF Control, UsesBuffer, Searching, Holds, InRequest
  <2>2. first \in Bufs /\ blk[first] # NoBlock
    BY <1>1, <2>1 DEF Backed, Types, BufType
  <2>3. cnt' \in [Bufs -> Int] /\ scan' = scan
    BY <1>1, <1>4 DEF Return, Types, BufType
  <2> HIDE DEF first
  <2>4. CASE /\ ahead[p] < MaxAhead
             /\ ahead' = [ahead EXCEPT ![p] = @ + 1]
             /\ \E x \in Blocks : want' = [want EXCEPT ![p] = x]
             /\ kept' = [kept EXCEPT ![p] = first]
             /\ Goto(p, "find")
             /\ UNCHANGED bh
    <3>1. ahead[p] + 1 \in 0..MaxAhead
      BY <1>1, <2>4, SizeAssumption DEF Types
    <3>2. ahead' \in [Procs -> 0..MaxAhead]
      BY <1>1, <2>4, <3>1 DEF Types
    <3>3. want' \in [Procs -> Blocks \cup {NoBlock}] /\ want'[p] \in Blocks
      BY <1>1, <2>4 DEF Types, BufType
    <3>4. kept' \in [Procs -> Bufs \cup {NoBuf}] /\ kept'[p] = first
      BY <1>1, <2>2, <2>4 DEF Types, BufType
    <3>5. pc' \in [Procs -> PCs] /\ pc'[p] = "find"
      BY <1>1, <2>4 DEF Types, BufType, Goto, PCs
    <3>6. Control(p)'
      BY <1>1, <1>4, <2>1, <2>3, <2>4, <3>3, <3>5 DEF Control, UsesBuffer, ScanOps, Searching, InRequest
    <3>7. Backed(p)'
      BY <1>1, <1>4, <2>2, <3>4, <3>5 DEF Backed, Holds, InRequest
    <3> QED
      BY <1>1, <2>3, <2>4, <3>2, <3>3, <3>4, <3>5, <3>6, <3>7 DEF Types, BufType, Goto, Returned
  <2>5. CASE /\ ahead' = [ahead EXCEPT ![p] = 0]
             /\ bh' = [bh EXCEPT ![p] = first]
             /\ kept' = [kept EXCEPT ![p] = NoBuf]
             /\ Goto(p, "read")
             /\ UNCHANGED want
    <3>1. ahead' \in [Procs -> 0..MaxAhead]
      BY <1>1, <2>5, SizeAssumption DEF Types
    <3>2. bh' \in [Procs -> Bufs \cup {NoBuf}] /\ bh'[p] = first
      BY <1>1, <2>2, <2>5 DEF Types, BufType
    <3>3. kept' \in [Procs -> Bufs \cup {NoBuf}] /\ kept'[p] = NoBuf
      BY <1>1, <2>5 DEF Types, BufType
    <3>4. pc' \in [Procs -> PCs] /\ pc'[p] = "read"
      BY <1>1, <2>5 DEF Types, BufType, Goto, PCs
    <3>5. Control(p)'
      BY <1>1, <1>4, <2>1, <2>2, <2>3, <2>5, <3>2, <3>3, <3>4 DEF Control, UsesBuffer, ScanOps, Searching, InRequest
    <3>6. Backed(p)'
      BY <1>1, <1>4, <2>2, <3>2, <3>3, <3>4 DEF Backed, Holds, InRequest
    <3> QED
      BY <1>1, <2>3, <2>5, <3>1, <3>2, <3>3, <3>4, <3>5, <3>6 DEF Types, BufType, Goto, Returned
  <2> QED
    BY <1>4, <2>4, <2>5 DEF Return, first
<1> QED
  BY <1>1, <1>2, <1>3, <1>4

LEMMA FindPlace == ASSUME PInv, NEW p \in Procs, Find(p) PROVE PInv' /\ Alone(p)
<1>1. /\ Control(p) /\ Backed(p) /\ Types /\ BlocksThere
      /\ pc[p] = "find" /\ cpu \in {p, NoProc} /\ cpu' = p
      /\ UNCHANGED <<op, want, kept, ahead, scan, rw, blk, lock, dirt, upto, data,
                     disk, slot, bufq, slotq, ops>>
  BY DEF Find, At, PInv
<1>2. UsesBuffer(p) /\ want[p] \in Blocks
  BY <1>1 DEF Control, UsesBuffer, InRequest, ScanOps
<1>3. BlocksStay /\ BlocksThere'
  BY <1>1 DEF BlocksStay, BlocksThere
<1>4. CASE \E b \in Bufs : /\ blk[b] = want[p]
                           /\ bh' = [bh EXCEPT ![p] = b]
                           /\ Hold(b)
                           /\ Goto(p, "hashwait")
  <2>1. PICK b \in Bufs : /\ blk[b] = want[p]
                          /\ bh' = [bh EXCEPT ![p] = b]
                          /\ Hold(b)
                          /\ Goto(p, "hashwait")
    BY <1>4
  <2>2. Types' /\ Alone(p)
    BY <1>1, <2>1 DEF Types, BufType, Hold, Goto, PCs, Alone
  <2>3. Control(p)'
    BY <1>1, <2>1 DEF Control, Types, BufType, Goto, UsesBuffer, InRequest, Searching, ScanOps
  <2>4. Backed(p)'
    BY <1>1, <1>2, <2>1, BlocksAssumption DEF Backed, Types, BufType, Goto, InRequest, Holds
  <2> QED
    BY <1>1, <1>3, <2>2, <2>3, <2>4, AloneStep
<1>5. CASE Goto(p, "select") /\ UNCHANGED <<bh, cnt>>
  <2>2. Types' /\ Alone(p)
    BY <1>1, <1>5 DEF Types, BufType, Goto, PCs, Alone
  <2>3. Control(p)'
    BY <1>1, <1>5 DEF Control, Types, BufType, Goto, UsesBuffer, InRequest, Searching, ScanOps
  <2>4. Backed(p)'
    BY <1>1, <1>5 DEF Backed, Types, BufType, Goto, InRequest, Holds
  <2> QED
    BY <1>1, <1>3, <2>2, <2>3, <2>4, AloneStep
<1> QED
  BY <1>4, <1>5 DEF Find

LEMMA HashWaitPlace == ASSUME PInv, NEW p \in Procs, HashWait(p) PROVE PInv' /\ Alone(p)
<1>1. /\ Control(p) /\ Backed(p) /\ Types /\ BlocksThere
      /\ pc[p] = "hashwait" /\ cpu \in {p, NoProc} /\ cpu' = p
      /\ UNCHANGED <<op, want, bh, kept, ahead, scan, rw, blk, lock, dirt, upto, data,
                     disk, slot, bufq, slotq, ops>>
  BY DEF HashWait, WaitOn, At, PInv
<1>2. PICK l \in {"got", "find"} : Goto(p, l)
  BY DEF HashWait
<1>3. BlocksStay /\ BlocksThere'
  BY <1>1 DEF BlocksStay, BlocksThere
<1>4. cnt' \in [Bufs -> Int]
  BY <1>1 DEF HashWait, Types, BufType
<1>5. Types' /\ Alone(p)
  BY <1>1, <1>2, <1>4 DEF Types, BufType, Goto, PCs, Alone
<1>6. Control(p)'
  BY <1>1, <1>2 DEF Control, Types, BufType, Goto, UsesBuffer, InRequest, Searching, ScanOps
<1>7. Backed(p)'
  BY <1>1, <1>2 DEF Backed, Types, BufType, Goto, InRequest, Holds
<1> QED
  BY <1>1, <1>3, <1>5, <1>6, <1>7, AloneStep

LEMMA SelectPlace == ASSUME PInv, NEW p \in Procs, Select(p) PROVE PInv' /\ Alone(p)
<1>1. /\ Control(p) /\ Backed(p) /\ Types /\ BlocksThere
      /\ pc[p] = "select" /\ cpu \in {p, NoProc}
      /\ UNCHANGED <<op, want, kept, ahead, scan, rw, buf, disk, slot, slotq, ops>>
  BY DEF Select, At, PInv
<1>2. \/ \E b \in Bufs : bh' = [bh EXCEPT ![p] = b] /\ Goto(p, "wait") /\ cpu' = p /\ bufq' = bufq
      \/ Goto(p, "bufsleep") /\ cpu' = NoProc /\ bufq' = bufq \cup {p} /\ bh' = bh
  BY DEF Select
<1>3. BlocksStay /\ BlocksThere'
  BY <1>1 DEF BlocksStay, BlocksThere, buf
<1>4. Types' /\ Alone(p)
  <2>1. pc' \in [Procs -> PCs] /\ \A q \in Procs \ {p} : pc'[q] = pc[q]
    BY <1>1, <1>2 DEF Types, BufType, Goto, PCs
  <2>2. bh' \in [Procs -> Bufs \cup {NoBuf}] /\ \A q \in Procs \ {p} : bh'[q] = bh[q]
    BY <1>1, <1>2 DEF Types, BufType
  <2>3. cpu' \in Procs \cup {NoProc} /\ bufq' \subseteq Procs
    BY <1>1, <1>2 DEF Types
  <2> QED
    BY <1>1, <2>1, <2>2, <2>3 DEF Types, BufType, Alone, buf
<1>5. Control(p)'
  BY <1>1, <1>2 DEF Control, Types, BufType, Goto, UsesBuffer, InRequest, Searching, ScanOps
<1>6. Backed(p)'
  BY <1>1, <1>2 DEF Backed, Types, BufType, Goto, InRequest, Holds, buf
<1> QED
  BY <1>1, <1>3, <1>4, <1>5, <1>6, AloneStep

LEMMA WaitPlace == ASSUME PInv, NEW p \in Procs, Wait(p) PROVE PInv' /\ Alone(p)
<1>1. /\ Control(p) /\ Backed(p) /\ Types /\ BlocksThere
      /\ pc[p] \in {"wait", "rewait"} /\ cpu \in {p, NoProc} /\ cpu' = p
      /\ UNCHANGED <<op, want, bh, kept, ahead, rw, buf, disk, slot, bufq, slotq, ops>>
  BY DEF Wait, WaitOn, At, PInv
<1>2. BlocksStay /\ BlocksThere'
  BY <1>1 DEF BlocksStay, BlocksThere, buf
<1>3. CASE \E l \in {"find", "claim"} : Goto(p, l) /\ UNCHANGED scan
  <2>1. PICK l \in {"find", "claim"} : Goto(p, l) /\ UNCHANGED scan
    BY <1>3
  <2>2. Types' /\ Alone(p)
    BY <1>1, <2>1 DEF Types, BufType, Goto, PCs, Alone, buf
  <2>3. Control(p)'
    BY <1>1, <2>1 DEF Control, Types, BufType, Goto, UsesBuffer, InRequest, Searching, ScanOps
  <2>4. Backed(p)'
    BY <1>1, <2>1 DEF Backed, Types, BufType, Goto, InRequest, Holds, buf
  <2> QED
    BY <1>1, <1>2, <2>2, <2>3, <2>4, AloneStep
<1>4. CASE MustSync(p) /\ ScanFrom(p, op[p], 0, Dev[blk[bh[p]]])
  <2>1. op[p] \notin ScanOps /\ bh[p] \in Bufs
    BY <1>1 DEF Control, UsesBuffer, InRequest, Searching, ScanOps
  <2>2. blk[bh[p]] \in Blocks
    BY <1>1, <1>4, <2>1 DEF MustSync, BlocksThere, Types, BufType
  <2>3. Dev[blk[bh[p]]] \in Devs \cup {NoDev} /\ 0 \in 0..2 * NBufs
    BY <2>2, DevAssumption, SizeAssumption
  <2>4. /\ pc' \in [Procs -> PCs]
        /\ scan' \in [Procs -> [k : 0..2 * NBufs, dev : Devs \cup {NoDev}]]
        /\ \A q \in Procs \ {p} : pc'[q] = pc[q] /\ scan'[q] = scan[q]
        /\ \/ pc'[p] = "scan" /\ scan'[p].k # 0
           \/ pc'[p] = "rewait" /\ scan'[p].k = 0
    BY <1>4, <2>1, <2>3, ScanFromPlace
  <2>5. Types' /\ Alone(p)
    BY <1>1, <2>4 DEF Types, BufType, Alone, buf
  <2>6. Control(p)'
    BY <1>1, <2>1, <2>4 DEF Control, UsesBuffer, InRequest, Searching, ScanOps
  <2>7. Backed(p)'
    BY <1>1, <2>4 DEF Backed, InRequest, Holds, buf
  <2> QED
    BY <1>1, <1>2, <2>5, <2>6, <2>7, AloneStep
<1> QED
  BY <1>3, <1>4 DEF Wait

LEMMA ClaimPlace == ASSUME PInv, NEW p \in Procs, Claim(p) PROVE PInv' /\ Alone(p)
<1>1. /\ Control(p) /\ Backed(p) /\ Types /\ BlocksThere
      /\ pc[p] = "claim" /\ cpu \in {p, NoProc} /\ cpu' = p
      /\ UNCHANGED <<op, want, bh, kept, ahead, scan, rw, disk, slot, bufq, slotq, ops>>
  BY DEF Claim, At, PInv
<1>2. UsesBuffer(p) /\ want[p] \in Blocks /\ bh[p] \in Bufs
  BY <1>1 DEF Control, UsesBuffer, InRequest, ScanOps, Searching
<1>3. CASE Goto(p, "find") /\ UNCHANGED buf
  <2>1. Types' /\ Alone(p) /\ BlocksStay /\ BlocksThere'
    BY <1>1, <1>3 DEF Types, BufType, Goto, PCs, Alone, buf, BlocksStay, BlocksThere
  <2>2. Control(p)'
    BY <1>1, <1>3 DEF Control, Types, BufType, Goto, UsesBuffer, InRequest, Searching, ScanOps
  <2>3. Backed(p)'
    BY <1>1, <1>3 DEF Backed, Types, BufType, Goto, InRequest, Holds, buf
  <2> QED
    BY <1>1, <2>1, <2>2, <2>3, AloneStep
<1>4. CASE /\ Goto(p, "got")
           /\ cnt' = [cnt EXCEPT ![bh[p]] = 1]
           /\ dirt' = [dirt EXCEPT ![bh[p]] = FALSE]
           /\ upto' = [upto EXCEPT ![bh[p]] = FALSE]
           /\ blk' = [blk EXCEPT ![bh[p]] = want[p]]
           /\ data' = [data EXCEPT ![bh[p]] = FALSE]
           /\ lock' = lock
  <2>2. Types'
    <3>1. \A n \in Int : [cnt EXCEPT ![bh[p]] = n] \in [Bufs -> Int]
      BY <1>1 DEF Types, BufType
    <3>2. cnt' \in [Bufs -> Int]
      BY <1>4, <3>1
    <3>3. dirt' \in [Bufs -> BOOLEAN] /\ upto' \in [Bufs -> BOOLEAN] /\ data' \in [Bufs -> BOOLEAN]
      BY <1>1, <1>4 DEF Types, BufType
    <3>4. blk' \in [Bufs -> Blocks \cup {NoBlock}]
      BY <1>1, <1>2, <1>4 DEF Types, BufType
    <3>5. pc' \in [Procs -> PCs]
      BY <1>1, <1>4 DEF Types, BufType, Goto, PCs
    <3> QED
      BY <1>1, <1>4, <3>2, <3>3, <3>4, <3>5 DEF Types, BufType
  <2>3. Alone(p)
    BY <1>1, <1>4 DEF Alone, Goto, Types, BufType
  <2>4. BlocksStay /\ BlocksThere'
    BY <1>1, <1>2, <1>4, BlocksAssumption DEF BlocksStay, BlocksThere, Types, BufType
  <2>5. Control(p)'
    BY <1>1, <1>4 DEF Control, Types, BufType, Goto, UsesBuffer, InRequest, Searching, ScanOps
  <2>6. Backed(p)'
    BY <1>1, <1>2, <1>4, BlocksAssumption DEF Backed, Types, BufType, Goto, InRequest, Holds
  <2> QED
    BY <1>1, <2>2, <2>3, <2>4, <2>5, <2>6, AloneStep
<1> QED
  BY <1>3, <1>4 DEF Claim, ResetFlags, Requeue

\* make_request() locks a buffer that holds a block.
LEMMA LockBufferPlace == ASSUME PInv, NEW p \in Procs, LockBuffer(p) PROVE PInv' /\ Alone(p)
<1>1. /\ Control(p) /\ Backed(p) /\ Types /\ BlocksThere
      /\ pc[p] = "lock" /\ cpu \in {p, NoProc} /\ cpu' = p
      /\ UNCHANGED <<op, rw, blk, dirt, upto, data, disk, slot, bufq, slotq, ops>>
  BY DEF LockBuffer, WaitOn, At, PInv
<1>2. BlocksStay /\ BlocksThere'
  BY <1>1 DEF BlocksStay, BlocksThere
<1>3. CASE Return(p) /\ UNCHANGED lock
  <2>1. Returned(p)
    BY <1>1, <1>3, ReturnPlace
  <2>2. Types'
    BY <1>1, <1>3, <2>1 DEF Types, BufType, Returned
  <2>3. Alone(p)
    BY <1>1, <2>1 DEF Alone, Returned
  <2> QED
    BY <1>1, <1>2, <2>1, <2>2, <2>3, AloneStep DEF Returned
<1>4. CASE /\ ~Needless(p)
           /\ lock' = [lock EXCEPT ![Target(p)] = TRUE]
           /\ Goto(p, "slot")
           /\ UNCHANGED <<scan, want, bh, kept, ahead, cnt>>
  <2>1. Types' /\ Alone(p)
    BY <1>1, <1>4 DEF Types, BufType, Goto, PCs, Alone
  <2>2. Control(p)'
    BY <1>1, <1>4 DEF Control, Types, BufType, Goto, UsesBuffer, InRequest, Searching, ScanOps
  <2>3. Target(p) \in Bufs /\ Target(p)' = Target(p)
    BY <1>1, <1>4, TargetIn DEF InRequest, Target
  <2>4. blk[Target(p)] # NoBlock
    <3>1. CASE scan[p].k = 0
      BY <1>1, <3>1 DEF Target, Backed, Holds, InRequest
    <3>2. CASE scan[p].k # 0
      BY <1>1, <1>4, <2>3, <3>2 DEF Control, InRequest, Needless, BlocksThere
    <3> QED
      BY <3>1, <3>2
  <2>5. Backed(p)'
    BY <1>1, <1>4, <2>3, <2>4 DEF Backed, Types, BufType, Goto, InRequest, Holds
  <2> QED
    BY <1>1, <1>2, <2>1, <2>2, <2>5, AloneStep
<1> QED
  BY <1>3, <1>4 DEF LockBuffer

LEMMA TakeSlotPlace == ASSUME PInv, NEW p \in Procs, TakeSlot(p) PROVE PInv' /\ Alone(p)
<1>1. /\ Control(p) /\ Backed(p) /\ Types /\ BlocksThere
      /\ pc[p] = "slot" /\ cpu \in {p, NoProc} /\ cpu' = p
      /\ Return(p)
      /\ UNCHANGED <<op, rw, blk, lock, upto, data, disk, bufq, slotq, ops>>
  BY DEF TakeSlot, At, PInv
<1>2. PICK s : /\ s \in FreeSlots(p)
               /\ slot' = [slot EXCEPT ![s] =
                    [rw |-> IF rw[p] = "write" THEN "write" ELSE "read", b |-> Target(p)]]
  BY DEF TakeSlot
<1>3. dirt' = [dirt EXCEPT ![Target(p)] = FALSE]
  BY DEF TakeSlot
<1>4. Target(p) \in Bufs /\ blk[Target(p)] # NoBlock
  BY <1>1, TargetIn DEF InRequest, Backed
<1>5. slot' \in [Slots -> [rw : {"read", "write"}, b : Bufs] \cup {NoReq}]
  BY <1>1, <1>2, <1>4 DEF Types
<1>6. dirt' \in [Bufs -> BOOLEAN]
  BY <1>1, <1>3 DEF Types, BufType
<1>R. Returned(p)
  BY <1>1, ReturnPlace
<1>7. Types' /\ Alone(p)
  <2>1. Types'
    BY <1>1, <1>5, <1>6, <1>R DEF Types, BufType, Returned
  <2> QED
    BY <1>1, <1>R, <2>1 DEF Alone, Returned
<1>8. BlocksStay
  BY <1>1 DEF BlocksStay
<1>9. BlocksThere'
  <2>1. \A b \in Bufs : dirt'[b] => blk'[b] # NoBlock
    BY <1>1, <1>3 DEF BlocksThere, Types, BufType
  <2>2. ASSUME NEW t \in Slots, slot'[t] # NoReq PROVE blk'[slot'[t].b] # NoBlock
    BY <1>1, <1>2, <1>4, <2>2 DEF BlocksThere, Types
  <2> QED
    BY <2>1, <2>2 DEF BlocksThere
<1> QED
  BY <1>1, <1>7, <1>8, <1>9, <1>R, AloneStep DEF Returned

LEMMA SkipFullPlace == ASSUME PInv, NEW p \in Procs, SkipFull(p) PROVE PInv' /\ Alone(p)
<1>1. /\ Control(p) /\ Backed(p) /\ Types /\ BlocksThere
      /\ pc[p] = "slot" /\ cpu \in {p, NoProc} /\ cpu' = p
      /\ Return(p)
      /\ lock' = [lock EXCEPT ![Target(p)] = FALSE]
      /\ UNCHANGED <<op, rw, blk, dirt, upto, data, disk, slot, bufq, slotq, ops>>
  BY DEF SkipFull, At, PInv
<1>2. BlocksStay /\ BlocksThere'
  BY <1>1 DEF BlocksStay, BlocksThere
<1>3. Returned(p)
  BY <1>1, ReturnPlace
<1>4. Types' /\ Alone(p)
  <2>1. Types'
    BY <1>1, <1>3 DEF Types, BufType, Returned
  <2> QED
    BY <1>1, <1>3, <2>1 DEF Alone, Returned
<1> QED
  BY <1>1, <1>2, <1>3, <1>4, AloneStep DEF Returned

\* The steps that only move p on, in make_request() or to brelse().
LEMMA MovePlace ==
    ASSUME PInv, NEW p \in Procs,
           \/ NoSlot(p) \/ SleepOnSlot(p) \/ SlotWoken(p) \/ BufferWoken(p)
           \/ Read(p) \/ Done(p)
    PROVE  PInv' /\ Alone(p)
<1> USE DEF NoSlot, SleepOnSlot, SlotWoken, BufferWoken, Read, Done, WaitOn, At
<1>1. /\ Control(p) /\ Backed(p) /\ Types /\ BlocksThere
      /\ cpu \in {p, NoProc} /\ cpu' \in {p, NoProc}
      /\ UNCHANGED <<op, want, bh, kept, ahead, scan, rw, buf, disk, slot, bufq, ops>>
      /\ slotq' \subseteq Procs
  BY DEF PInv, Types
<1>2. PICK l \in PCs : Goto(p, l)
  BY DEF PCs
<1>3. \/ pc[p] \in {"slot", "noslot", "late", "slotsleep"} /\ l \in {"noslot", "slotsleep", "slot"}
      \/ pc[p] = "bufsleep" /\ l = "find"
      \/ pc[p] = "read" /\ l \in {"hold", "release"}
      \/ pc[p] = "hold" /\ l = "release"
  BY <1>1, <1>2 DEF Goto, Types, BufType
<1> HIDE DEF NoSlot, SleepOnSlot, SlotWoken, BufferWoken, Read, Done, WaitOn, At
<1>4. BlocksStay /\ BlocksThere'
  BY <1>1 DEF BlocksStay, BlocksThere, buf
<1>5. Types' /\ Alone(p)
  BY <1>1, <1>2 DEF Types, BufType, Goto, Alone, buf
<1>6. Control(p)'
  BY <1>1, <1>2, <1>3 DEF Control, Types, BufType, Goto, UsesBuffer, InRequest, Searching, ScanOps
<1>7. Backed(p)'
  BY <1>1, <1>2, <1>3 DEF Backed, Types, BufType, Goto, InRequest, Holds, buf, Target
<1> QED
  BY <1>1, <1>4, <1>5, <1>6, <1>7, AloneStep

LEMMA ScanPlace == ASSUME PInv, NEW p \in Procs, Scan(p) PROVE PInv' /\ Alone(p)
<1> DEFINE b == Target(p)
           still == InScope(b, scan[p].dev)
<1>1. /\ Control(p) /\ Backed(p) /\ Types /\ BlocksThere
      /\ pc[p] = "scan" /\ cpu \in {p, NoProc} /\ cpu' = p
      /\ UNCHANGED <<op, want, bh, kept, ahead, blk, cnt, lock, data, disk, slot, bufq, slotq, ops>>
  BY DEF Scan, WaitOn, At, PInv
<1>2. /\ scan[p].k # 0 /\ scan[p].k \in 0..2 * NBufs /\ scan[p].dev \in Devs \cup {NoDev}
      /\ op[p] # "none" /\ (UsesBuffer(p) => bh[p] \in Bufs)
  BY <1>1 DEF Control, Types, Searching
<1>3. /\ upto' \in [Bufs -> BOOLEAN] /\ dirt' \in [Bufs -> BOOLEAN]
      /\ \A c \in Bufs : dirt'[c] => dirt[c]
  <2>1. CASE UNCHANGED <<upto, dirt>>
    BY <1>1, <2>1 DEF Types, BufType
  <2>2. CASE /\ upto' = [upto EXCEPT ![b] = upto[b] /\ ~still]
             /\ dirt' = [dirt EXCEPT ![b] = dirt[b] /\ ~still]
    <3> DEFINE u == upto[b] /\ ~still
               v == dirt[b] /\ ~still
    <3>1. u \in BOOLEAN /\ v \in BOOLEAN /\ (v => dirt[b])
      BY Zenon
    <3>2. upto' = [upto EXCEPT ![b] = u] /\ dirt' = [dirt EXCEPT ![b] = v]
      BY <2>2
    <3> HIDE DEF u, v, b
    <3> QED
      BY <1>1, <3>1, <3>2 DEF Types, BufType
  <2> QED
    BY Zenon, <2>1, <2>2 DEF Scan
<1>4. BlocksStay /\ BlocksThere'
  BY <1>1, <1>3 DEF BlocksStay, BlocksThere
<1>5. CASE Goto(p, "lock") /\ scan' = scan /\ rw' = [rw EXCEPT ![p] = "write"]
  <2>1. Types' /\ Alone(p)
    BY <1>1, <1>3, <1>5 DEF Types, BufType, Goto, PCs, Alone
  <2>2. Control(p)'
    BY <1>1, <1>2, <1>5 DEF Control, Types, BufType, Goto, UsesBuffer, InRequest, Searching, ScanOps
  <2>3. Backed(p)'
    BY <1>1, <1>2, <1>5 DEF Backed, Types, BufType, Goto, InRequest, Holds
  <2> QED
    BY <1>1, <1>4, <2>1, <2>2, <2>3, AloneStep
<1>6. CASE GoOnScan(p) /\ rw' = rw
  <2>1. /\ pc' \in [Procs -> PCs]
        /\ scan' \in [Procs -> [k : 0..2 * NBufs, dev : Devs \cup {NoDev}]]
        /\ \A q \in Procs \ {p} : pc'[q] = pc[q] /\ scan'[q] = scan[q]
        /\ \/ pc'[p] = "scan" /\ scan'[p].k # 0
           \/ pc'[p] = "user" /\ scan'[p].k = 0 /\ op[p] \in ScanOps
           \/ pc'[p] = "rewait" /\ scan'[p].k = 0 /\ op[p] \notin ScanOps
    BY <1>2, <1>6, ScanFromPlace DEF GoOnScan
  <2>2. Types' /\ Alone(p)
    BY <1>1, <1>3, <1>6, <2>1 DEF Types, BufType, Alone
  <2>3. Control(p)'
    BY <1>1, <1>2, <1>6, <2>1 DEF Control, UsesBuffer, InRequest, Searching, ScanOps
  <2>4. Backed(p)'
    BY <1>1, <2>1 DEF Backed, InRequest, Holds
  <2> QED
    BY <1>1, <1>4, <2>2, <2>3, <2>4, AloneStep
<1> QED
  BY <1>5, <1>6 DEF Scan

LEMMA GotPlace == ASSUME PInv, NEW p \in Procs, Got(p) PROVE PInv' /\ Alone(p)
<1>1. /\ Control(p) /\ Backed(p) /\ Types /\ BlocksThere
      /\ pc[p] = "got" /\ cpu \in {p, NoProc} /\ cpu' = p
      /\ UNCHANGED <<op, blk, lock, slot, bufq, slotq, ops>>
  BY DEF Got, At, PInv
<1>2. /\ UsesBuffer(p) /\ bh[p] \in Bufs /\ blk[bh[p]] \in Blocks /\ scan[p].k = 0
  BY <1>1 DEF Control, Backed, Holds, UsesBuffer, InRequest, Searching, ScanOps, Types, BufType
<1>3. BlocksStay
  BY <1>1 DEF BlocksStay
<1>4. CASE op[p] = "breada" /\ Return(p) /\ UNCHANGED <<rw, upto, dirt, data, disk>>
  <2>1. Returned(p)
    BY <1>1, <1>4, ReturnPlace
  <2>2. Types' /\ BlocksThere'
    BY <1>1, <1>4, <2>1 DEF Types, BufType, Returned, BlocksThere
  <2>3. Alone(p)
    BY <1>1, <1>4, <2>1 DEF Alone, Returned
  <2> QED
    BY <1>1, <1>3, <2>1, <2>2, <2>3, AloneStep DEF Returned
<1>5. CASE \E l \in {"lock", "hold", "copy", "release"} :
             /\ Goto(p, l) /\ UNCHANGED <<scan, want, bh, kept, ahead, cnt>>
             /\ l \in {"hold", "copy", "release"} => op[p] # "breada" /\ rw' = rw
             /\ \/ UNCHANGED <<upto, dirt, data, disk>>
                \/ /\ data' = [data EXCEPT ![bh[p]] = TRUE]
                   /\ disk' = [disk EXCEPT ![blk[bh[p]]] = FALSE]
                   /\ upto' = [upto EXCEPT ![bh[p]] = TRUE]
                   /\ dirt' = [dirt EXCEPT ![bh[p]] = TRUE]
             /\ rw' = rw \/ \E m \in {"read", "reada"} : rw' = [rw EXCEPT ![p] = m]
  <2>1. PICK l \in {"lock", "hold", "copy", "release"} :
             /\ Goto(p, l) /\ UNCHANGED <<scan, want, bh, kept, ahead, cnt>>
             /\ l \in {"hold", "copy", "release"} => op[p] # "breada" /\ rw' = rw
             /\ \/ UNCHANGED <<upto, dirt, data, disk>>
                \/ /\ data' = [data EXCEPT ![bh[p]] = TRUE]
                   /\ disk' = [disk EXCEPT ![blk[bh[p]]] = FALSE]
                   /\ upto' = [upto EXCEPT ![bh[p]] = TRUE]
                   /\ dirt' = [dirt EXCEPT ![bh[p]] = TRUE]
             /\ rw' = rw \/ \E m \in {"read", "reada"} : rw' = [rw EXCEPT ![p] = m]
    BY <1>5
  <2>2. /\ upto' \in [Bufs -> BOOLEAN] /\ dirt' \in [Bufs -> BOOLEAN]
        /\ data' \in [Bufs -> BOOLEAN] /\ disk' \in [Blocks -> BOOLEAN]
        /\ \A c \in Bufs : dirt'[c] => dirt[c] \/ c = bh[p]
    BY <1>1, <2>1 DEF Types, BufType
  <2>3. rw' \in [Procs -> {"read", "reada", "write"}] /\ \A q \in Procs \ {p} : rw'[q] = rw[q]
    BY <1>1, <2>1 DEF Types
  <2>4. pc' \in [Procs -> PCs] /\ pc'[p] = l /\ \A q \in Procs \ {p} : pc'[q] = pc[q]
    BY <1>1, <2>1 DEF Types, BufType, Goto, PCs
  <2>5. Types'
    BY <1>1, <2>1, <2>2, <2>3, <2>4 DEF Types, BufType
  <2>6. Alone(p)
    BY <1>1, <2>1, <2>3, <2>4 DEF Alone
  <2>7. BlocksThere'
    BY <1>1, <1>2, <2>2, BlocksAssumption DEF BlocksThere
  <2>8. Control(p)'
    BY <1>1, <1>2, <2>1, <2>4 DEF Control, UsesBuffer, InRequest, Searching, ScanOps
  <2>9. Backed(p)'
    BY <1>1, <1>2, <2>1, <2>4, BlocksAssumption DEF Backed, InRequest, Holds
  <2> QED
    BY <1>1, <1>3, <2>5, <2>6, <2>7, <2>8, <2>9, AloneStep
<1> QED
  <2>1. CASE /\ op[p] \in {"bread", "breada", "file_write"} /\ ~upto[bh[p]]
             /\ rw' = [rw EXCEPT ![p] = IF kept[p] = NoBuf THEN "read" ELSE "reada"]
             /\ Goto(p, "lock")
             /\ UNCHANGED <<scan, want, bh, kept, ahead, cnt, upto, dirt, data, disk>>
    <3>1. \E m \in {"read", "reada"} : rw' = [rw EXCEPT ![p] = m]
      BY <2>1
    <3> QED
      BY <1>5, <2>1, <3>1
  <2>2. CASE /\ op[p] \in {"bread", "file_write"} /\ upto[bh[p]]
             /\ Goto(p, "hold")
             /\ UNCHANGED <<rw, scan, want, bh, kept, ahead, cnt, upto, dirt, data, disk>>
    BY <1>5, <2>2
  <2>3. CASE /\ op[p] = "new_block"
             /\ data' = [data EXCEPT ![bh[p]] = TRUE]
             /\ disk' = [disk EXCEPT ![blk[bh[p]]] = FALSE]
             /\ upto' = [upto EXCEPT ![bh[p]] = TRUE]
             /\ dirt' = [dirt EXCEPT ![bh[p]] = TRUE]
             /\ Goto(p, "release")
             /\ UNCHANGED <<rw, scan, want, bh, kept, ahead, cnt>>
    BY <1>5, <2>3
  <2>4. CASE /\ op[p] = "block_write"
             /\ Goto(p, "copy")
             /\ UNCHANGED <<rw, scan, want, bh, kept, ahead, cnt, upto, dirt, data, disk>>
    BY <1>5, <2>4
  <2> QED
    BY <1>4, <2>1, <2>2, <2>3, <2>4 DEF Got

\* The steps of the user of a buffer, up to brelse().
LEMMA UserPlace ==
    ASSUME PInv, NEW p \in Procs, Change(p) \/ MarkDirty(p) \/ Copy(p)
    PROVE  PInv' /\ Alone(p)
<1>1. /\ Control(p) /\ Backed(p) /\ Types /\ BlocksThere
      /\ pc[p] \in {"hold", "copy"} /\ cpu \in {p, NoProc} /\ cpu' = p
      /\ UNCHANGED <<op, want, bh, kept, ahead, scan, rw, blk, cnt, lock, upto, slot, bufq, slotq, ops>>
  BY DEF Change, MarkDirty, Copy, At, PInv
<1>2. /\ UsesBuffer(p) /\ bh[p] \in Bufs /\ blk[bh[p]] \in Blocks /\ scan[p].k = 0
  BY <1>1 DEF Control, Backed, Holds, UsesBuffer, InRequest, Searching, ScanOps, Types, BufType
<1>3. PICK l \in {"copy", "release"} : Goto(p, l)
  BY DEF Change, MarkDirty, Copy
<1>4. data' \in [Bufs -> BOOLEAN] /\ disk' \in [Blocks -> BOOLEAN]
  <2>1. \/ UNCHANGED <<data, disk>>
        \/ /\ data' = [data EXCEPT ![bh[p]] = TRUE]
           /\ disk' = [disk EXCEPT ![blk[bh[p]]] = FALSE]
    BY DEF Change, MarkDirty, Copy, Modify
  <2> QED
    BY <1>1, <2>1 DEF Types
<1>5. dirt' \in [Bufs -> BOOLEAN] /\ \A c \in Bufs : dirt'[c] => dirt[c] \/ c = bh[p]
  <2>1. PICK v \in {TRUE, dirt[bh[p]] \/ op[p] = "block_write"} : dirt' = [dirt EXCEPT ![bh[p]] = v]
    BY Zenon DEF Change, MarkDirty, Copy
  <2>2. v \in BOOLEAN
    BY <2>1
  <2> QED
    BY <1>1, <2>1, <2>2 DEF Types, BufType
<1>6. Types' /\ Alone(p)
  BY <1>1, <1>3, <1>4, <1>5 DEF Types, BufType, Goto, PCs, Alone
<1>7. BlocksStay /\ BlocksThere'
  BY <1>1, <1>2, <1>5, BlocksAssumption DEF BlocksThere, BlocksStay
<1>8. Control(p)'
  BY <1>1, <1>2, <1>3 DEF Control, Types, BufType, Goto, UsesBuffer, InRequest, Searching, ScanOps
<1>9. Backed(p)'
  BY <1>1, <1>2, <1>3 DEF Backed, Types, BufType, Goto, InRequest, Holds
<1> QED
  BY <1>1, <1>6, <1>7, <1>8, <1>9, AloneStep

LEMMA ReleasePlace == ASSUME PInv, NEW p \in Procs, Release(p) PROVE PInv' /\ Alone(p)
<1>1. /\ Control(p) /\ Backed(p) /\ Types /\ BlocksThere
      /\ pc[p] = "release" /\ cpu \in {p, NoProc} /\ cpu' = NoProc
      /\ Goto(p, "user") /\ bufq' = {}
      /\ cnt' = [cnt EXCEPT ![bh[p]] = @ - 1]
      /\ bh' = [bh EXCEPT ![p] = NoBuf]
      /\ op' = [op EXCEPT ![p] = "none"]
      /\ want' = [want EXCEPT ![p] = NoBlock]
      /\ rw' = [rw EXCEPT ![p] = "read"]
      /\ UNCHANGED <<kept, ahead, scan, blk, lock, dirt, upto, data, disk, slot, slotq, ops>>
  BY DEF Release, WaitOn, At, PInv, WakeBufferQueue
<1>2. BlocksStay /\ BlocksThere'
  BY <1>1 DEF BlocksThere, BlocksStay
<1>3. Types' /\ Alone(p)
  <2>1. pc' \in [Procs -> PCs] /\ cnt' \in [Bufs -> Int] /\ bh' \in [Procs -> Bufs \cup {NoBuf}]
    <3>1. bh[p] \in Bufs
      BY <1>1 DEF Control, UsesBuffer, InRequest, Searching, ScanOps
    <3>2. cnt[bh[p]] - 1 \in Int
      BY <1>1, <3>1 DEF Types, BufType
    <3>3. cnt' \in [Bufs -> Int]
      BY <1>1, <3>1, <3>2 DEF Types, BufType
    <3>4. pc' \in [Procs -> PCs]
      BY <1>1 DEF Types, BufType, Goto, PCs
    <3>5. bh' \in [Procs -> Bufs \cup {NoBuf}]
      BY <1>1 DEF Types, BufType
    <3> QED
      BY <3>3, <3>4, <3>5
  <2>2. /\ op' \in [Procs -> Ops \cup {"none"}] /\ want' \in [Procs -> Blocks \cup {NoBlock}]
        /\ rw' \in [Procs -> {"read", "reada", "write"}]
    BY <1>1 DEF Types, BufType
  <2> QED
    BY <1>1, <2>1, <2>2 DEF Types, BufType, Goto, Alone
<1>4. Control(p)'
  BY <1>1 DEF Control, Types, BufType, Goto, UsesBuffer, InRequest, Searching, ScanOps
<1>5. Backed(p)'
  <2>1. pc'[p] = "user" /\ bh'[p] = NoBuf
    BY <1>1 DEF Types, BufType, Goto
  <2>2. kept'[p] = NoBuf
    BY <1>4, <2>1 DEF Control
  <2> QED
    BY <2>1, <2>2 DEF Backed, InRequest, Holds
<1> QED
  BY <1>1, <1>2, <1>3, <1>4, <1>5, AloneStep

LEMMA LeavePlace == ASSUME PInv, NEW p \in Procs, Leave(p) PROVE PInv' /\ Alone(p)
<1>1. /\ Control(p) /\ Backed(p) /\ Types /\ BlocksThere
      /\ pc[p] = "user" /\ cpu = p /\ cpu' = NoProc
      /\ op' = [op EXCEPT ![p] = "none"]
      /\ rw' = [rw EXCEPT ![p] = "read"]
      /\ UNCHANGED <<pc, want, bh, kept, ahead, scan, buf, disk, slot, bufq, slotq, ops>>
  BY DEF Leave, PInv
<1>2. BlocksStay /\ BlocksThere'
  BY <1>1 DEF BlocksThere, BlocksStay, buf
<1>3. Types' /\ Alone(p)
  BY <1>1 DEF Types, BufType, Alone, buf
<1>4. Control(p)'
  BY <1>1 DEF Control, Types, BufType, UsesBuffer, InRequest, Searching, ScanOps
<1>5. Backed(p)'
  BY <1>1 DEF Backed, Types, BufType, InRequest, Holds, buf, Target
<1> QED
  BY <1>1, <1>2, <1>3, <1>4, <1>5, AloneStep

LEMMA OpsCount == ASSUME PInv, CountOp PROVE ops' \in 0..MaxOps
BY SizeAssumption DEF CountOp, PInv, Types

LEMMA StartPlace == ASSUME PInv, NEW p \in Procs, Start(p) PROVE PInv' /\ Alone(p)
<1>1. CASE \E o \in Ops, x \in Blocks : StartBlock(p, o, x)
  <2>1. PICK o \in Ops, x \in Blocks : StartBlock(p, o, x)
    BY <1>1
  <2>2. /\ Control(p) /\ Backed(p) /\ Types /\ BlocksThere
        /\ pc[p] = "user" /\ cpu = NoProc /\ cpu' = p
        /\ o \in Ops /\ o \notin ScanOps /\ o # "none" /\ Goto(p, "find")
        /\ op' = [op EXCEPT ![p] = o]
        /\ want' = [want EXCEPT ![p] = x]
        /\ UNCHANGED <<bh, kept, ahead, scan, rw, buf, disk, slot, bufq, slotq>>
    BY <2>1, OpsAssumption DEF StartBlock, At, PInv, ScanOps
  <2>3. BlocksStay /\ BlocksThere'
    BY <2>2 DEF BlocksThere, BlocksStay, buf
  <2>4. ops' \in 0..MaxOps
    BY <2>1, OpsCount DEF StartBlock
  <2>5. Types' /\ Alone(p)
    BY <2>2, <2>4 DEF Types, BufType, Goto, PCs, Alone, buf
  <2>6. Control(p)'
    BY <2>2 DEF Control, Types, BufType, Goto, UsesBuffer, InRequest, Searching, ScanOps
  <2>7. Backed(p)'
    BY <2>2 DEF Backed, Control, Types, BufType, Goto, InRequest, Holds, buf
  <2> QED
    BY <2>2, <2>3, <2>5, <2>6, <2>7, AloneStep
<1>2. CASE \E o \in Ops, d \in Devs \cup {NoDev} : StartScan(p, o, d)
  <2>1. PICK o \in Ops, d \in Devs \cup {NoDev} : StartScan(p, o, d)
    BY <1>2
  <2>2. /\ Control(p) /\ Backed(p) /\ Types /\ BlocksThere
        /\ pc[p] = "user" /\ cpu = NoProc /\ cpu' = p
        /\ o \in Ops \cap ScanOps
        /\ op' = [op EXCEPT ![p] = o]
        /\ ScanFrom(p, o, 0, d)
        /\ UNCHANGED <<want, bh, kept, ahead, rw, buf, disk, slot, bufq, slotq>>
    BY <2>1 DEF StartScan, At, PInv, ScanOps
  <2>3. BlocksStay /\ BlocksThere'
    BY <2>2 DEF BlocksThere, BlocksStay, buf
  <2>4. ops' \in 0..MaxOps
    BY <2>1, OpsCount DEF StartScan
  <2>5. /\ pc' \in [Procs -> PCs]
        /\ scan' \in [Procs -> [k : 0..2 * NBufs, dev : Devs \cup {NoDev}]]
        /\ \A q \in Procs \ {p} : pc'[q] = pc[q] /\ scan'[q] = scan[q]
        /\ \/ pc'[p] = "scan" /\ scan'[p].k # 0
           \/ pc'[p] = "user" /\ scan'[p].k = 0
    <3>1. 0 \in 0..2 * NBufs
      BY SizeAssumption
    <3> QED
      BY <2>2, <3>1, ScanFromPlace
  <2>6. Types' /\ Alone(p)
    BY <2>2, <2>4, <2>5 DEF Types, BufType, Alone, buf
  <2>7. Control(p)'
    BY <2>2, <2>5, OpsAssumption DEF Control, Types, BufType, UsesBuffer, InRequest, Searching, ScanOps
  <2>8. Backed(p)'
    BY <2>2, <2>5 DEF Backed, Control, Types, BufType, InRequest, Holds, buf
  <2> QED
    BY <2>2, <2>3, <2>6, <2>7, <2>8, AloneStep
<1> QED
  BY <1>1, <1>2 DEF Start

\* The interrupt moves the processes that found no free entry, nobody else.
LEMMA EndRequestPlace ==
    ASSUME PInv, NEW s \in Slots, NEW ok \in BOOLEAN, EndRequest(s, ok)
    PROVE  PInv'
<1> DEFINE b == slot[s].b
<1>1. /\ Types /\ BlocksThere
      /\ slot[s] # NoReq
      /\ pc' = [p \in Procs |-> IF pc[p] = "noslot" THEN "late" ELSE pc[p]]
      /\ upto' = [upto EXCEPT ![b] = ok]
      /\ lock' = [lock EXCEPT ![b] = FALSE]
      /\ slot' = [slot EXCEPT ![s] = NoReq]
      /\ slotq' = {}
      /\ UNCHANGED <<cpu, op, want, bh, kept, ahead, scan, rw, blk, cnt, dirt, bufq, ops>>
  BY DEF EndRequest, PInv, WakeSlotQueue
<1>2. b \in Bufs /\ blk[b] \in Blocks
  BY <1>1 DEF BlocksThere, Types, BufType, NoReq
<1>3. data' \in [Bufs -> BOOLEAN]
  <2>1. data' = data \/ data' = [data EXCEPT ![b] = disk[blk[b]]]
    BY DEF EndRequest
  <2>2. disk[blk[b]] \in BOOLEAN
    BY <1>1, <1>2 DEF Types
  <2> HIDE DEF b
  <2> QED
    BY <1>1, <2>1, <2>2 DEF Types
<1>4. disk' \in [Blocks -> BOOLEAN]
  <2>1. disk' = disk \/ \E v \in {data[b], data[b] /\ ~dirt[b]} : disk' = [disk EXCEPT ![blk[b]] = v]
    BY Zenon DEF EndRequest
  <2>2. CASE disk' = disk
    BY <1>1, <2>2 DEF Types
  <2>3. CASE \E v \in {data[b], data[b] /\ ~dirt[b]} : disk' = [disk EXCEPT ![blk[b]] = v]
    <3>1. PICK v \in {data[b], data[b] /\ ~dirt[b]} : disk' = [disk EXCEPT ![blk[b]] = v]
      BY <2>3
    <3>2. data[b] \in BOOLEAN
      BY <1>1, <1>2 DEF Types
    <3>3. v \in BOOLEAN
      BY <3>1, <3>2
    <3> HIDE DEF b
    <3> QED
      BY <1>1, <3>1, <3>3 DEF Types
  <2> QED
    BY <2>1, <2>2, <2>3
<1>5. /\ upto' \in [Bufs -> BOOLEAN] /\ lock' \in [Bufs -> BOOLEAN]
      /\ slot' \in [Slots -> [rw : {"read", "write"}, b : Bufs] \cup {NoReq}]
  BY <1>1 DEF Types, BufType
<1>6. pc' \in [Procs -> PCs]
  BY <1>1 DEF Types, BufType, PCs
<1>7. Types'
  BY <1>1, <1>3, <1>4, <1>5, <1>6 DEF Types, BufType
<1>8. ASSUME NEW p \in Procs PROVE Control(p)' /\ Backed(p)'
  <2>1. Control(p) /\ Backed(p)
    BY DEF PInv
  <2>2. pc'[p] = IF pc[p] = "noslot" THEN "late" ELSE pc[p]
    BY <1>1
  <2>3. Control(p)'
    BY <1>1, <2>1, <2>2 DEF Control, UsesBuffer, InRequest, Searching, ScanOps
  <2>4. Backed(p)'
    BY <1>1, <2>1, <2>2 DEF Backed, InRequest, Holds, Target
  <2> QED
    BY <2>3, <2>4
<1>9. BlocksThere'
  BY <1>1 DEF BlocksThere, Types
<1> QED
  BY <1>7, <1>8, <1>9 DEF PInv

LEMMA YieldPlace ==
    ASSUME PInv, NEW p \in Procs, SleepOnBuffer(p) \/ HoldAsleep(p) \/ PageFault(p)
    PROVE  PInv' /\ Alone(p)
<1>1. /\ Control(p) /\ Backed(p) /\ Types /\ BlocksThere
      /\ cpu = p /\ pc[p] \notin {"got", "claim"} /\ cpu' = NoProc
      /\ UNCHANGED <<proc, buf, disk, slot, bufq, slotq, ops>>
  BY DEF SleepOnBuffer, HoldAsleep, PageFault, WaitsForLock, PInv
<1>2. BlocksStay /\ BlocksThere' /\ Types' /\ Alone(p)
  BY <1>1 DEF BlocksThere, BlocksStay, Types, BufType, Alone, proc, buf
<1>3. Control(p)'
  BY <1>1 DEF Control, UsesBuffer, proc
<1>4. Backed(p)'
  BY <1>1 DEF Backed, Holds, Target, proc, buf
<1> QED
  BY <1>1, <1>2, <1>3, <1>4, AloneStep

\* What a process does.
Moves(p) == Run(p) \/ Start(p) \/ HoldAsleep(p) \/ PageFault(p)

LEMMA MovesPlace ==
    ASSUME PInv, NEW p \in Procs, Moves(p)
    PROVE  PInv' /\ Alone(p)
<1>1. CASE Run(p)
  BY <1>1, FindPlace, HashWaitPlace, SelectPlace, MovePlace, WaitPlace, ClaimPlace,
     LockBufferPlace, TakeSlotPlace, SkipFullPlace, ScanPlace, GotPlace, UserPlace,
     ReleasePlace, LeavePlace, YieldPlace DEF Run
<1>2. CASE Start(p) \/ HoldAsleep(p) \/ PageFault(p)
  BY <1>2, StartPlace, YieldPlace
<1> QED
  BY <1>1, <1>2 DEF Moves

LEMMA NextPInv == PInv /\ [Next]_vars => PInv'
<1> SUFFICES ASSUME PInv, [Next]_vars PROVE PInv'
  OBVIOUS
<1>1. CASE \E s \in Slots, ok \in BOOLEAN : EndRequest(s, ok)
  BY <1>1, EndRequestPlace
<1>2. CASE \E p \in Procs : Moves(p)
  BY <1>2, MovesPlace
<1>3. CASE UNCHANGED vars
  <2>1. Types' /\ BlocksThere'
    BY <1>3 DEF PInv, Types, BufType, BlocksThere, vars, proc, buf
  <2>2. ASSUME NEW p \in Procs PROVE Control(p)' /\ Backed(p)'
    BY <1>3 DEF PInv, Control, Backed, UsesBuffer, Holds, Target, vars, proc, buf
  <2> QED
    BY <2>1, <2>2 DEF PInv
<1> QED
  BY <1>1, <1>2, <1>3 DEF Next, Moves

----------------------------------------------------------------------------
(* b_count is the number of those who hold the buffer                      *)

\* How often p counts in b_count.
Share(p, b) == (IF Holds(p, b) THEN 1 ELSE 0) + (IF kept[p] = b THEN 1 ELSE 0)

\* A step of p changes b_count as much as what p has in its hands.
Balanced(p) == \A b \in Bufs : cnt'[b] - Share(p, b)' = cnt[b] - Share(p, b)

LEMMA CardChange ==
    ASSUME NEW X, IsFiniteSet(X), NEW S \in SUBSET X, NEW T \in SUBSET X, NEW e,
           S \ {e} = T \ {e}
    PROVE  /\ Cardinality(S) \in Nat /\ Cardinality(T) \in Nat
           /\ Cardinality(S) - (IF e \in S THEN 1 ELSE 0)
                 = Cardinality(T) - (IF e \in T THEN 1 ELSE 0)
<1>1. ASSUME NEW U \in SUBSET X
      PROVE  /\ Cardinality(U) \in Nat
             /\ Cardinality(U \ {e}) = Cardinality(U) - (IF e \in U THEN 1 ELSE 0)
  <2>1. IsFiniteSet(U)
    BY FS_Subset
  <2>2. Cardinality(U) \in Nat
    BY <2>1, FS_CardinalityType
  <2>3. CASE e \in U
    BY <2>1, <2>2, <2>3, FS_RemoveElement
  <2>4. CASE e \notin U
    <3>1. U \ {e} = U
      BY <2>4
    <3> QED
      BY <2>2, <2>4, <3>1
  <2> QED
    BY <2>2, <2>3, <2>4
<1>2. /\ Cardinality(S) \in Nat
      /\ Cardinality(S \ {e}) = Cardinality(S) - (IF e \in S THEN 1 ELSE 0)
  BY <1>1
<1>3. /\ Cardinality(T) \in Nat
      /\ Cardinality(T \ {e}) = Cardinality(T) - (IF e \in T THEN 1 ELSE 0)
  BY <1>1
<1> QED
  BY <1>2, <1>3

LEMMA HeldIn ==
    ASSUME PInv, NEW p \in Procs, NEW b, Holds(p, b)
    PROVE  b \in Bufs /\ UsesBuffer(p)
BY DEF PInv, Control, Holds, UsesBuffer, InRequest, Searching, ScanOps

LEMMA CountStep ==
    ASSUME Types, Types', RefCount, NEW p \in Procs, Alone(p), Balanced(p)
    PROVE  RefCount'
<1> SUFFICES ASSUME NEW b \in Bufs
             PROVE  cnt'[b] = Cardinality({q \in Procs : Holds(q, b)'})
                                + Cardinality({q \in Procs : kept'[q] = b})
  BY DEF RefCount
<1> DEFINE H == {q \in Procs : Holds(q, b)}
           H1 == {q \in Procs : Holds(q, b)'}
           K == {q \in Procs : kept[q] = b}
           K1 == {q \in Procs : kept'[q] = b}
<1>1. H \ {p} = H1 \ {p} /\ K \ {p} = K1 \ {p}
  BY DEF Alone, Holds
<1>2. /\ Cardinality(H) \in Nat /\ Cardinality(H1) \in Nat
      /\ Cardinality(H) - (IF p \in H THEN 1 ELSE 0)
            = Cardinality(H1) - (IF p \in H1 THEN 1 ELSE 0)
  <2>1. H \in SUBSET Procs /\ H1 \in SUBSET Procs
    OBVIOUS
  <2> HIDE DEF H, H1
  <2> QED
    BY <1>1, <2>1, CardChange, ProcsAssumption
<1>3. /\ Cardinality(K) \in Nat /\ Cardinality(K1) \in Nat
      /\ Cardinality(K) - (IF p \in K THEN 1 ELSE 0)
            = Cardinality(K1) - (IF p \in K1 THEN 1 ELSE 0)
  <2>1. K \in SUBSET Procs /\ K1 \in SUBSET Procs
    OBVIOUS
  <2> HIDE DEF K, K1
  <2> QED
    BY <1>1, <2>1, CardChange, ProcsAssumption
<1>4. Share(p, b) = (IF p \in H THEN 1 ELSE 0) + (IF p \in K THEN 1 ELSE 0)
  BY DEF Share
<1>5. Share(p, b)' = (IF p \in H1 THEN 1 ELSE 0) + (IF p \in K1 THEN 1 ELSE 0)
  BY DEF Share
<1>6. cnt[b] = Cardinality(H) + Cardinality(K)
  BY DEF RefCount
<1>7. cnt'[b] - Share(p, b)' = cnt[b] - Share(p, b) /\ cnt[b] \in Int /\ cnt'[b] \in Int
  BY DEF Balanced, Types, BufType
<1> HIDE DEF H, H1, K, K1
<1>8. cnt'[b] = Cardinality(H1) + Cardinality(K1)
  BY <1>2, <1>3, <1>4, <1>5, <1>6, <1>7
<1> QED
  BY <1>8 DEF H1, K1

LEMMA SameBalance ==
    ASSUME NEW p \in Procs, cnt' = cnt, kept'[p] = kept[p],
           \A b \in Bufs : Holds(p, b)' <=> Holds(p, b)
    PROVE  Balanced(p)
BY DEF Balanced, Share

\* Return(p) passes on what p counts in.
LEMMA ReturnBalance ==
    ASSUME PInv, NEW p \in Procs, Return(p), op' = op,
           pc[p] \in {"lock", "slot"} \/ (pc[p] = "got" /\ op[p] = "breada")
    PROVE  Balanced(p)
<1>1. Control(p) /\ Types
  BY DEF PInv
<1>2. CASE scan[p].k # 0
  <2>1. GoOnScan(p) /\ UNCHANGED <<want, bh, kept, ahead, cnt>>
    BY <1>1, <1>2, SizeAssumption DEF Return, Types
  <2>2. \/ pc'[p] = "scan" /\ scan'[p].k # 0
        \/ pc'[p] = "user" /\ scan'[p].k = 0 /\ op[p] \in ScanOps
        \/ pc'[p] = "rewait" /\ scan'[p].k = 0 /\ op[p] \notin ScanOps
    BY <1>1, <2>1, ScanFromPlace DEF GoOnScan, Types
  <2>3. \A b \in Bufs : ~Holds(p, b) /\ ~Holds(p, b)'
    BY <1>1, <1>2, <2>2 DEF Holds, InRequest, Control
  <2> QED
    BY <2>1, <2>3, SameBalance
<1>3. CASE scan[p].k = 0 /\ op[p] # "breada"
  <2>1. Goto(p, "read") /\ UNCHANGED <<scan, want, bh, kept, ahead, cnt>>
    BY <1>3 DEF Return
  <2>2. \A b \in Bufs : Holds(p, b) <=> Holds(p, b)'
    BY <1>1, <1>3, <2>1 DEF Holds, InRequest, Types, BufType, Goto
  <2> QED
    BY <2>1, <2>2, SameBalance
<1>4. CASE scan[p].k = 0 /\ op[p] = "breada"
  <2> DEFINE first == IF kept[p] = NoBuf THEN bh[p] ELSE kept[p]
  <2>1. bh[p] \in Bufs /\ NoBuf \notin Bufs
    BY <1>1, <1>4 DEF Control, UsesBuffer, Searching, InRequest, Bufs, NoBuf
  <2>2. \A b \in Bufs : Holds(p, b) <=> bh[p] = b
    BY <1>4 DEF Holds, InRequest
  <2>3. cnt' = IF kept[p] = NoBuf THEN cnt ELSE [cnt EXCEPT ![bh[p]] = @ - 1]
    BY <1>4 DEF Return
  <2>4. \A b \in Bufs : cnt[b] \in Int
    BY <1>1 DEF Types, BufType
  <2>5. \A b \in Bufs : cnt'[b] = cnt[b] - (IF kept[p] # NoBuf /\ b = bh[p] THEN 1 ELSE 0)
    BY <1>1, <2>1, <2>3, <2>4 DEF Types, BufType
  <2> HIDE DEF first
  <2>6. CASE /\ kept' = [kept EXCEPT ![p] = first]
             /\ Goto(p, "find")
             /\ UNCHANGED bh
    <3>1. kept'[p] = first /\ \A b \in Bufs : ~Holds(p, b)'
      BY <1>1, <2>6 DEF Types, BufType, Goto, Holds, InRequest
    <3> QED
      BY <2>1, <2>2, <2>4, <2>5, <3>1 DEF Balanced, Share, first
  <2>7. CASE /\ bh' = [bh EXCEPT ![p] = first]
             /\ kept' = [kept EXCEPT ![p] = NoBuf]
             /\ Goto(p, "read")
    <3>1. kept'[p] = NoBuf /\ \A b \in Bufs : Holds(p, b)' <=> first = b
      BY <1>1, <2>7 DEF Types, BufType, Goto, Holds, InRequest
    <3> QED
      BY <2>1, <2>2, <2>4, <2>5, <3>1 DEF Balanced, Share, first
  <2> QED
    BY <1>4, <2>6, <2>7 DEF Return, first
<1> QED
  BY <1>2, <1>3, <1>4

\* getblk() counts the buffer it found or claimed, and lets go of another.
LEMMA GetblkBalance ==
    ASSUME IInv, PInv, NEW p \in Procs,
           \/ Find(p) \/ HashWait(p) \/ Select(p) \/ BufferWoken(p) \/ Wait(p) \/ Claim(p)
    PROVE  Balanced(p)
<1>1. Control(p) /\ Types /\ BufType /\ scan[p] \in [k : 0..2 * NBufs, dev : Devs \cup {NoDev}]
  BY DEF PInv, Types
<1>2. CASE Find(p)
  <2>1. /\ pc[p] = "find" /\ kept' = kept
        /\ \/ \E b \in Bufs : bh' = [bh EXCEPT ![p] = b] /\ Hold(b) /\ Goto(p, "hashwait")
           \/ Goto(p, "select") /\ cnt' = cnt
    BY <1>2 DEF Find, At
  <2>2. \A b \in Bufs : ~Holds(p, b)
    BY <2>1 DEF Holds, InRequest
  <2>3. CASE Goto(p, "select") /\ cnt' = cnt
    BY <1>1, <2>1, <2>2, <2>3, SameBalance DEF Holds, InRequest, Goto, BufType
  <2>4. CASE \E b \in Bufs : bh' = [bh EXCEPT ![p] = b] /\ Hold(b) /\ Goto(p, "hashwait")
    <3>1. PICK c \in Bufs : bh' = [bh EXCEPT ![p] = c] /\ Hold(c) /\ Goto(p, "hashwait")
      BY <2>4
    <3>2. \A b \in Bufs : Holds(p, b)' <=> b = c
      BY <1>1, <3>1 DEF Holds, Goto, BufType
    <3>3. \A b \in Bufs : cnt[b] \in Int /\ cnt'[b] = cnt[b] + (IF b = c THEN 1 ELSE 0)
      BY <1>1, <3>1 DEF Hold, BufType
    <3> QED
      BY <2>1, <2>2, <3>2, <3>3 DEF Balanced, Share
  <2> QED
    BY <2>1, <2>3, <2>4
<1>3. CASE HashWait(p)
  <2>1. /\ pc[p] = "hashwait" /\ UNCHANGED <<bh, kept, scan>>
        /\ \/ Goto(p, "got") /\ cnt' = cnt
           \/ Goto(p, "find") /\ cnt' = [cnt EXCEPT ![bh[p]] = @ - 1]
    BY <1>3 DEF HashWait, WaitOn, At
  <2>2. bh[p] \in Bufs /\ \A b \in Bufs : Holds(p, b) <=> b = bh[p]
    BY <1>1, <2>1 DEF Holds, Control, UsesBuffer, Searching, InRequest, ScanOps
  <2>3. CASE Goto(p, "got") /\ cnt' = cnt
    BY <1>1, <2>1, <2>2, <2>3, SameBalance DEF Holds, Goto, BufType
  <2>4. CASE Goto(p, "find") /\ cnt' = [cnt EXCEPT ![bh[p]] = @ - 1]
    <3>1. \A b \in Bufs : ~Holds(p, b)'
      BY <1>1, <2>4 DEF Holds, Goto, BufType, InRequest
    <3>2. \A b \in Bufs : cnt[b] \in Int /\ cnt'[b] = cnt[b] - (IF b = bh[p] THEN 1 ELSE 0)
      BY <1>1, <2>2, <2>4 DEF BufType
    <3> QED
      BY <2>1, <2>2, <3>1, <3>2 DEF Balanced, Share
  <2> QED
    BY <2>1, <2>3, <2>4
<1>4. CASE Select(p) \/ BufferWoken(p)
  <2>1. /\ pc[p] \in {"select", "bufsleep"} /\ UNCHANGED <<kept, scan, cnt>>
        /\ \E l \in {"wait", "bufsleep", "find"} : Goto(p, l)
    BY <1>4 DEF Select, BufferWoken, At, buf
  <2>2. pc'[p] \in {"wait", "bufsleep", "find"}
    BY <1>1, <2>1 DEF Goto, BufType
  <2> QED
    BY <2>1, <2>2, SameBalance DEF Holds, InRequest
<1>5. CASE Wait(p)
  <2>1. /\ pc[p] \in {"wait", "rewait"} /\ UNCHANGED <<kept, cnt>>
        /\ \/ \E l \in {"find", "claim"} : Goto(p, l)
           \/ ScanFrom(p, op[p], 0, Dev[blk[bh[p]]])
    BY <1>5 DEF Wait, WaitOn, At, buf
  <2>2. pc'[p] \in {"find", "claim", "scan", "user", "rewait"}
    BY <1>1, <2>1, ScanFromOK DEF Goto, BufType
  <2> QED
    BY <2>1, <2>2, SameBalance DEF Holds, InRequest
<1>6. CASE Claim(p)
  <2>1. /\ pc[p] = "claim" /\ UNCHANGED <<bh, kept, scan>>
        /\ \/ Goto(p, "find") /\ cnt' = cnt
           \/ Goto(p, "got") /\ cnt' = [cnt EXCEPT ![bh[p]] = 1]
    BY <1>6 DEF Claim, At, buf
  <2>2. bh[p] \in Bufs /\ cnt[bh[p]] = 0 /\ \A b \in Bufs : ~Holds(p, b)
    BY <2>1 DEF IInv, HasBuf, ClaimOK, Holds, InRequest
  <2>3. CASE Goto(p, "find") /\ cnt' = cnt
    BY <1>1, <2>1, <2>2, <2>3, SameBalance DEF Holds, Goto, BufType, InRequest
  <2>4. CASE Goto(p, "got") /\ cnt' = [cnt EXCEPT ![bh[p]] = 1]
    <3>1. \A b \in Bufs : Holds(p, b)' <=> b = bh[p]
      BY <1>1, <2>1, <2>4 DEF Holds, Goto, BufType, InRequest
    <3>2. \A b \in Bufs : cnt[b] \in Int /\ cnt'[b] = IF b = bh[p] THEN 1 ELSE cnt[b]
      BY <1>1, <2>2, <2>4 DEF BufType
    <3> QED
      BY <2>1, <2>2, <3>1, <3>2 DEF Balanced, Share
  <2> QED
    BY <2>1, <2>3, <2>4
<1> QED
  BY <1>2, <1>3, <1>4, <1>5, <1>6

\* make_request() and what follows it keep what the caller holds.
LEMMA RequestBalance ==
    ASSUME PInv, NEW p \in Procs,
           \/ LockBuffer(p) \/ TakeSlot(p) \/ SkipFull(p) \/ NoSlot(p) \/ SleepOnSlot(p)
           \/ SlotWoken(p) \/ Got(p)
    PROVE  Balanced(p)
<1>1. Control(p) /\ Types /\ BufType
  BY DEF PInv, Types
<1>2. op' = op
  BY DEF LockBuffer, TakeSlot, SkipFull, NoSlot, SleepOnSlot, SlotWoken, Got
<1>3. CASE (LockBuffer(p) \/ TakeSlot(p) \/ SkipFull(p)) /\ Return(p)
  <2>1. pc[p] \in {"lock", "slot"}
    BY <1>3 DEF LockBuffer, TakeSlot, SkipFull, WaitOn, At
  <2> QED
    BY <1>2, <1>3, <2>1, ReturnBalance
<1>4. CASE Got(p) /\ Return(p) /\ op[p] = "breada"
  <2>1. pc[p] = "got"
    BY <1>4 DEF Got, At
  <2> QED
    BY <1>2, <1>4, <2>1, ReturnBalance
<1>5. CASE /\ pc[p] \in InRequest /\ UNCHANGED <<bh, kept, scan, cnt>>
           /\ \E l \in InRequest : Goto(p, l)
  <2>1. pc'[p] \in InRequest
    BY <1>1, <1>5 DEF Goto, BufType
  <2> QED
    BY <1>5, <2>1, SameBalance DEF Holds, InRequest
<1>6. CASE /\ Got(p) /\ UNCHANGED <<bh, kept, scan, cnt>>
           /\ \E l \in {"lock", "hold", "release", "copy"} : Goto(p, l)
  <2>1. pc[p] = "got" /\ pc'[p] \in {"lock", "hold", "release", "copy"} /\ scan'[p].k = 0
    BY <1>1, <1>6 DEF Goto, BufType, Got, At, Control, InRequest
  <2> QED
    BY <1>6, <2>1, SameBalance DEF Holds, InRequest
<1> QED
  <2>1. CASE LockBuffer(p)
    BY <1>3, <1>5, <2>1 DEF LockBuffer, WaitOn, At, InRequest
  <2>2. CASE TakeSlot(p) \/ SkipFull(p)
    BY <1>3, <2>2 DEF TakeSlot, SkipFull
  <2>3. CASE NoSlot(p) \/ SleepOnSlot(p) \/ SlotWoken(p)
    BY <1>5, <2>3 DEF NoSlot, SleepOnSlot, SlotWoken, At, InRequest, buf
  <2>4. CASE Got(p)
    BY <1>4, <1>6, <2>4 DEF Got
  <2> QED
    BY <2>1, <2>2, <2>3, <2>4

\* The users of a buffer hold it until brelse().
LEMMA UserBalance ==
    ASSUME PInv, NEW p \in Procs,
           \/ Read(p) \/ Done(p) \/ Change(p) \/ MarkDirty(p) \/ Copy(p) \/ Release(p)
    PROVE  Balanced(p)
<1>1. Control(p) /\ Types /\ BufType
  BY DEF PInv, Types
<1>2. CASE Read(p) \/ Done(p) \/ Change(p) \/ MarkDirty(p) \/ Copy(p)
  <2>1. /\ pc[p] \in {"read", "hold", "copy"} /\ UNCHANGED <<bh, kept, scan, cnt>>
        /\ \E l \in {"hold", "copy", "release"} : Goto(p, l)
    BY <1>2 DEF Read, Done, Change, MarkDirty, Copy, WaitOn, At, buf
  <2>2. pc'[p] \in {"hold", "copy", "release"}
    BY <1>1, <2>1 DEF Goto, BufType
  <2> QED
    BY <2>1, <2>2, SameBalance DEF Holds, InRequest
<1>3. CASE Release(p)
  <2>1. /\ pc[p] = "release" /\ Goto(p, "user") /\ UNCHANGED <<kept, scan>>
        /\ bh' = [bh EXCEPT ![p] = NoBuf]
        /\ cnt' = [cnt EXCEPT ![bh[p]] = @ - 1]
    BY <1>3 DEF Release, WaitOn, At
  <2>2. bh[p] \in Bufs /\ \A b \in Bufs : Holds(p, b) <=> b = bh[p]
    BY <1>1, <2>1 DEF Holds, Control, UsesBuffer, Searching, InRequest, ScanOps
  <2>3. \A b \in Bufs : ~Holds(p, b)'
    BY <1>1, <2>1 DEF Holds, Goto, BufType, InRequest
  <2>4. \A b \in Bufs : cnt[b] \in Int /\ cnt'[b] = cnt[b] - (IF b = bh[p] THEN 1 ELSE 0)
    BY <1>1, <2>1, <2>2 DEF BufType
  <2> QED
    BY <2>1, <2>2, <2>3, <2>4 DEF Balanced, Share
<1> QED
  BY <1>2, <1>3

\* The others hold nothing, or go on holding it.
LEMMA OtherBalance ==
    ASSUME PInv, NEW p \in Procs,
           \/ Scan(p) \/ Leave(p) \/ SleepOnBuffer(p) \/ Start(p) \/ HoldAsleep(p) \/ PageFault(p)
    PROVE  Balanced(p)
<1>1. Control(p) /\ Types /\ BufType
  BY DEF PInv, Types
<1>2. CASE Scan(p)
  <2>1. /\ pc[p] = "scan" /\ UNCHANGED <<kept, cnt>>
        /\ (Goto(p, "lock") /\ scan' = scan) \/ GoOnScan(p)
    BY <1>2 DEF Scan, WaitOn, At
  <2>2. scan[p].k # 0
    BY <1>1, <2>1 DEF Control
  <2>3. CASE Goto(p, "lock") /\ scan' = scan
    BY <1>1, <2>1, <2>2, <2>3, SameBalance DEF Holds, InRequest, Goto, BufType
  <2>4. CASE GoOnScan(p)
    <3>1. pc'[p] \in {"scan", "user", "rewait"}
      BY <1>1, <2>4, ScanFromOK DEF GoOnScan
    <3> QED
      BY <2>1, <3>1, SameBalance DEF Holds, InRequest
  <2> QED
    BY <2>1, <2>3, <2>4
<1>3. CASE Leave(p) \/ SleepOnBuffer(p) \/ HoldAsleep(p) \/ PageFault(p)
  <2>1. UNCHANGED <<pc, bh, kept, scan, cnt>>
    BY <1>3 DEF Leave, SleepOnBuffer, HoldAsleep, PageFault, buf, proc
  <2> QED
    BY <2>1, SameBalance DEF Holds
<1>4. CASE Start(p)
  <2>1. pc[p] = "user" /\ UNCHANGED <<kept, cnt>>
    BY <1>4 DEF Start, StartBlock, StartScan, At, buf
  <2>2. pc'[p] \in {"find", "scan", "user", "rewait"}
    BY <1>1, <1>4, ScanFromOK DEF Start, StartBlock, StartScan, Goto, BufType
  <2> QED
    BY <2>1, <2>2, SameBalance DEF Holds, InRequest
<1> QED
  BY <1>2, <1>3, <1>4

LEMMA MovesBalance ==
    ASSUME IInv, PInv, NEW p \in Procs, Moves(p)
    PROVE  Balanced(p)
BY GetblkBalance, RequestBalance, UserBalance, OtherBalance DEF Moves, Run

LEMMA NextRefCount == IInv /\ PInv /\ RefCount /\ [Next]_vars => RefCount'
<1> SUFFICES ASSUME IInv, PInv, RefCount, [Next]_vars PROVE RefCount'
  OBVIOUS
<1>1. Types /\ Types'
  BY NextPInv DEF PInv
<1>2. CASE \E s \in Slots, ok \in BOOLEAN : EndRequest(s, ok)
  <2>1. /\ UNCHANGED <<bh, kept, scan, cnt>>
        /\ pc' = [p \in Procs |-> IF pc[p] = "noslot" THEN "late" ELSE pc[p]]
    BY <1>2 DEF EndRequest
  <2>2. \A p \in Procs, b \in Bufs : Holds(p, b)' <=> Holds(p, b)
    BY <2>1 DEF Holds, InRequest
  <2>3. ASSUME NEW b \in Bufs
        PROVE  {q \in Procs : Holds(q, b)'} = {q \in Procs : Holds(q, b)}
    BY <2>2
  <2> QED
    BY <2>1, <2>3 DEF RefCount
<1>3. ASSUME NEW p \in Procs, Moves(p) PROVE RefCount'
  BY <1>1, <1>3, MovesPlace, MovesBalance, CountStep
<1>4. CASE UNCHANGED vars
  <2>1. ASSUME NEW b \in Bufs
        PROVE  {q \in Procs : Holds(q, b)'} = {q \in Procs : Holds(q, b)}
    BY <1>4 DEF Holds, vars, proc
  <2> QED
    BY <1>4, <2>1 DEF RefCount, vars, proc, buf
<1> QED
  BY <1>2, <1>3, <1>4 DEF Next, Moves

LEMMA HeldCounts ==
    ASSUME Types, RefCount, NEW p \in Procs, NEW b \in Bufs, Holds(p, b)
    PROVE  cnt[b] # 0
<1> DEFINE H == {q \in Procs : Holds(q, b)}
           K == {q \in Procs : kept[q] = b}
<1>1. H \in SUBSET Procs /\ K \in SUBSET Procs /\ p \in H
  OBVIOUS
<1>2. cnt[b] = Cardinality(H) + Cardinality(K)
  BY DEF RefCount
<1> HIDE DEF H, K
<1>3. Cardinality(K) \in Nat /\ Cardinality(H) \in Nat
  BY <1>1, ProcsAssumption, FS_Subset, FS_CardinalityType
<1>4. Cardinality(H) # 0
  BY <1>1, ProcsAssumption, FS_Subset, FS_EmptySet
<1> QED
  BY <1>2, <1>3, <1>4

\* A buffer that is counted is in somebody's hands.
LEMMA CountedHeld ==
    ASSUME RefCount, NEW b \in Bufs, cnt[b] # 0
    PROVE  \E q \in Procs : Holds(q, b) \/ kept[q] = b
<1> SUFFICES ASSUME \A q \in Procs : ~Holds(q, b) /\ kept[q] # b
             PROVE  cnt[b] = 0
  OBVIOUS
<1>1. {q \in Procs : Holds(q, b)} = {} /\ {q \in Procs : kept[q] = b} = {}
  OBVIOUS
<1>2. Cardinality({}) = 0
  BY FS_EmptySet
<1> QED
  BY <1>1, <1>2 DEF RefCount

----------------------------------------------------------------------------
(* A locked buffer has one owner                                           *)

\* p is making a request for b, which it has locked.
OwnsLock(p, b) == pc[p] \in InRequest \ {"lock"} /\ Target(p) = b

\* What p and the request entry s account for, of the locks of b.
Part(p, s, b) ==
    (IF p \in Procs /\ OwnsLock(p, b) THEN 1 ELSE 0) + (IF slot[s].b = b THEN 1 ELSE 0)
Locked(b) == IF lock[b] THEN 1 ELSE 0

LEMMA SlotsFinite == IsFiniteSet(Slots)
BY SizeAssumption, FS_Interval DEF Slots

LEMMA LockStep ==
    ASSUME LockOwner, NEW p, NEW s \in Slots,
           \A q \in Procs \ {p}, b \in Bufs : OwnsLock(q, b)' <=> OwnsLock(q, b),
           \A t \in Slots \ {s} : slot'[t] = slot[t],
           \A b \in Bufs : Locked(b)' - Part(p, s, b)' = Locked(b) - Part(p, s, b)
    PROVE  LockOwner'
<1> SUFFICES ASSUME NEW b \in Bufs
             PROVE  Cardinality({q \in Procs : OwnsLock(q, b)'})
                    + Cardinality({t \in Slots : slot'[t].b = b}) = Locked(b)'
  BY DEF LockOwner, OwnsLock, Locked
<1> DEFINE O == {q \in Procs : OwnsLock(q, b)}
           O1 == {q \in Procs : OwnsLock(q, b)'}
           R == {t \in Slots : slot[t].b = b}
           R1 == {t \in Slots : slot'[t].b = b}
<1>1. O \in SUBSET Procs /\ O1 \in SUBSET Procs /\ O \ {p} = O1 \ {p}
  OBVIOUS
<1>2. R \in SUBSET Slots /\ R1 \in SUBSET Slots /\ R \ {s} = R1 \ {s}
  OBVIOUS
<1>3. Part(p, s, b) = (IF p \in O THEN 1 ELSE 0) + (IF s \in R THEN 1 ELSE 0)
  BY DEF Part
<1>4. Part(p, s, b)' = (IF p \in O1 THEN 1 ELSE 0) + (IF s \in R1 THEN 1 ELSE 0)
  BY DEF Part
<1>5. Cardinality(O) + Cardinality(R) = Locked(b)
  BY DEF LockOwner, OwnsLock, Locked
<1>6. Locked(b) \in Int /\ Locked(b)' \in Int
      /\ Locked(b)' - Part(p, s, b)' = Locked(b) - Part(p, s, b)
  BY DEF Locked
<1> HIDE DEF O, O1, R, R1
<1>7. /\ Cardinality(O) \in Nat /\ Cardinality(O1) \in Nat
      /\ Cardinality(O) - (IF p \in O THEN 1 ELSE 0)
            = Cardinality(O1) - (IF p \in O1 THEN 1 ELSE 0)
  BY <1>1, CardChange, ProcsAssumption
<1>8. /\ Cardinality(R) \in Nat /\ Cardinality(R1) \in Nat
      /\ Cardinality(R) - (IF s \in R THEN 1 ELSE 0)
            = Cardinality(R1) - (IF s \in R1 THEN 1 ELSE 0)
  BY <1>2, CardChange, SlotsFinite
<1>9. Cardinality(O1) + Cardinality(R1) = Locked(b)'
  BY <1>3, <1>4, <1>5, <1>6, <1>7, <1>8
<1> QED
  BY <1>9 DEF O1, R1

\* Whoever is making a request, and a request made, has the buffer locked.
LEMMA OwnerLocked ==
    ASSUME LockOwner, NEW b \in Bufs,
           (\E p \in Procs : OwnsLock(p, b)) \/ (\E s \in Slots : slot[s].b = b)
    PROVE  lock[b]
<1> DEFINE O == {q \in Procs : OwnsLock(q, b)}
           R == {t \in Slots : slot[t].b = b}
<1>1. O \in SUBSET Procs /\ R \in SUBSET Slots /\ (O # {} \/ R # {})
  OBVIOUS
<1>2. Cardinality(O) + Cardinality(R) = Locked(b)
  BY DEF LockOwner, OwnsLock, Locked
<1> HIDE DEF O, R
<1>3. IsFiniteSet(O) /\ IsFiniteSet(R)
  BY <1>1, ProcsAssumption, SlotsFinite, FS_Subset
<1>4. /\ Cardinality(O) \in Nat /\ Cardinality(R) \in Nat
      /\ (Cardinality(O) # 0 \/ Cardinality(R) # 0)
  BY <1>1, <1>3, FS_CardinalityType, FS_EmptySet
<1> QED
  BY <1>2, <1>4 DEF Locked

LEMMA OthersOwn ==
    ASSUME NEW p \in Procs, Alone(p), NEW q \in Procs \ {p}, NEW b \in Bufs
    PROVE  OwnsLock(q, b)' <=> OwnsLock(q, b)
BY DEF Alone, OwnsLock, Target

\* A step of p that touches no lock and no request.
LEMMA QuietLock ==
    ASSUME LockOwner, NEW p \in Procs, Alone(p), lock' = lock, slot' = slot,
           \A b \in Bufs : OwnsLock(p, b)' <=> OwnsLock(p, b)
    PROVE  LockOwner'
<1>1. PICK s : s \in Slots
  BY SizeAssumption DEF Slots
<1>2. \A b \in Bufs : Locked(b)' = Locked(b) /\ Part(p, s, b)' = Part(p, s, b)
  BY DEF Locked, Part
<1>3. \A b \in Bufs : Locked(b)' - Part(p, s, b)' = Locked(b) - Part(p, s, b)
  BY <1>2
<1> QED
  BY <1>1, <1>3, OthersOwn, LockStep

LEMMA LockBufferOwner ==
    ASSUME IInv, PInv, LockOwner, NEW p \in Procs, LockBuffer(p)
    PROVE  LockOwner'
<1>1. /\ pc[p] = "lock" /\ ~lock[Target(p)] /\ slot' = slot
      /\ Target(p) \in Bufs /\ Alone(p) /\ Types
      /\ \A b \in Bufs : ~OwnsLock(p, b)
  BY TargetIn, LockBufferPlace DEF LockBuffer, WaitOn, At, InRequest, PInv, OwnsLock
<1>2. CASE Return(p) /\ UNCHANGED lock
  <2>1. pc'[p] \in {"scan", "user", "rewait", "read", "find"}
    BY <1>1, <1>2, ReturnOK
  <2> QED
    BY <1>1, <1>2, <2>1, QuietLock DEF OwnsLock, InRequest
<1>3. CASE /\ lock' = [lock EXCEPT ![Target(p)] = TRUE]
           /\ Goto(p, "slot")
           /\ UNCHANGED <<scan, want, bh, kept, ahead, cnt>>
  <2>1. PICK s : s \in Slots
    BY SizeAssumption DEF Slots
  <2>2. Target(p)' = Target(p) /\ pc'[p] = "slot"
    BY <1>1, <1>3 DEF Target, Goto, Types, BufType
  <2>3. \A b \in Bufs : OwnsLock(p, b)' <=> b = Target(p)
    BY <2>2 DEF OwnsLock, InRequest
  <2>4. \A b \in Bufs : Locked(b)' = IF b = Target(p) THEN 1 ELSE Locked(b)
    BY <1>1, <1>3 DEF Locked, Types, BufType
  <2>5. Locked(Target(p)) = 0
    BY <1>1 DEF Locked
  <2>6. \A b \in Bufs : Locked(b)' - Part(p, s, b)' = Locked(b) - Part(p, s, b)
    <3> TAKE b \in Bufs
    <3>1. Locked(b) \in Int
      BY DEF Locked
    <3>2. CASE b = Target(p)
      BY <1>1, <2>3, <2>4, <2>5, <3>1, <3>2 DEF Part
    <3>3. CASE b # Target(p)
      BY <1>1, <2>3, <2>4, <3>1, <3>3 DEF Part
    <3> QED
      BY <3>2, <3>3
  <2> QED
    BY <1>1, <2>1, <2>6, OthersOwn, LockStep
<1> QED
  BY <1>2, <1>3 DEF LockBuffer

LEMMA TakeSlotOwner ==
    ASSUME IInv, PInv, LockOwner, NEW p \in Procs, TakeSlot(p)
    PROVE  LockOwner'
<1>1. /\ pc[p] = "slot" /\ lock' = lock /\ Return(p)
      /\ Target(p) \in Bufs /\ Alone(p) /\ Types
  BY TargetIn, TakeSlotPlace DEF TakeSlot, At, InRequest, PInv
<1>2. PICK s : /\ s \in FreeSlots(p)
               /\ slot' = [slot EXCEPT ![s] =
                    [rw |-> IF rw[p] = "write" THEN "write" ELSE "read", b |-> Target(p)]]
  BY DEF TakeSlot
<1>3. s \in Slots /\ slot[s] = NoReq
  BY <1>2, SizeAssumption DEF FreeSlots, Limit, Slots
<1>4. slot'[s].b = Target(p) /\ \A t \in Slots \ {s} : slot'[t] = slot[t]
  BY <1>1, <1>2, <1>3 DEF Types
<1>5. pc'[p] \in {"scan", "user", "rewait", "read", "find"}
  BY <1>1, ReturnOK
<1>6. \A b \in Bufs : Locked(b)' - Part(p, s, b)' = Locked(b) - Part(p, s, b)
  <2> TAKE b \in Bufs
  <2>1. Locked(b)' = Locked(b) /\ Locked(b) \in Int
    BY <1>1 DEF Locked
  <2>2. ~OwnsLock(p, b)' /\ (OwnsLock(p, b) <=> b = Target(p))
    BY <1>1, <1>5 DEF OwnsLock, InRequest
  <2>3. slot[s].b # b
    BY <1>3 DEF NoReq, NoBuf, Bufs
  <2> QED
    BY <1>4, <2>1, <2>2, <2>3 DEF Part
<1> QED
  BY <1>1, <1>3, <1>4, <1>6, OthersOwn, LockStep

LEMMA SkipFullOwner ==
    ASSUME IInv, PInv, LockOwner, NEW p \in Procs, SkipFull(p)
    PROVE  LockOwner'
<1>1. /\ pc[p] = "slot" /\ slot' = slot /\ Return(p)
      /\ lock' = [lock EXCEPT ![Target(p)] = FALSE]
      /\ Target(p) \in Bufs /\ Alone(p) /\ Types
  BY TargetIn, SkipFullPlace DEF SkipFull, At, InRequest, PInv
<1>2. lock[Target(p)]
  BY <1>1, OwnerLocked DEF OwnsLock, InRequest
<1>3. PICK s : s \in Slots
  BY SizeAssumption DEF Slots
<1>4. pc'[p] \in {"scan", "user", "rewait", "read", "find"}
  BY <1>1, ReturnOK
<1>5. \A b \in Bufs : Locked(b)' - Part(p, s, b)' = Locked(b) - Part(p, s, b)
  <2> TAKE b \in Bufs
  <2>1. Locked(b) \in Int /\ Locked(b)' = IF b = Target(p) THEN 0 ELSE Locked(b)
    BY <1>1 DEF Locked, Types, BufType
  <2>2. b = Target(p) => Locked(b) = 1
    BY <1>2 DEF Locked
  <2>3. ~OwnsLock(p, b)' /\ (OwnsLock(p, b) <=> b = Target(p))
    BY <1>1, <1>4 DEF OwnsLock, InRequest
  <2> QED
    BY <1>1, <2>1, <2>2, <2>3 DEF Part
<1> QED
  BY <1>1, <1>3, <1>5, OthersOwn, LockStep

LEMMA EndRequestOwner ==
    ASSUME PInv, LockOwner, NEW s \in Slots, NEW ok \in BOOLEAN, EndRequest(s, ok)
    PROVE  LockOwner'
<1> DEFINE c == slot[s].b
<1>1. /\ Types /\ slot[s] # NoReq
      /\ pc' = [p \in Procs |-> IF pc[p] = "noslot" THEN "late" ELSE pc[p]]
      /\ lock' = [lock EXCEPT ![c] = FALSE]
      /\ slot' = [slot EXCEPT ![s] = NoReq]
      /\ UNCHANGED <<bh, scan>>
  BY DEF EndRequest, PInv
<1>2. c \in Bufs
  BY <1>1 DEF Types
<1>3. lock[c]
  BY <1>2, OwnerLocked
<1>4. ASSUME NEW q \in Procs, NEW b \in Bufs PROVE OwnsLock(q, b)' <=> OwnsLock(q, b)
  BY <1>1 DEF OwnsLock, Target, InRequest
<1>5. slot'[s] = NoReq /\ \A t \in Slots \ {s} : slot'[t] = slot[t]
  BY <1>1 DEF Types
<1> HIDE DEF c
<1>6. \A b \in Bufs : Locked(b)' - Part(NoProc, s, b)' = Locked(b) - Part(NoProc, s, b)
  <2> TAKE b \in Bufs
  <2>1. Locked(b) \in Int /\ Locked(b)' = IF b = c THEN 0 ELSE Locked(b)
    BY <1>1 DEF Locked, Types, BufType
  <2>2. b = c => Locked(b) = 1
    BY <1>3 DEF Locked
  <2>3. slot'[s].b # b /\ (slot[s].b = b <=> b = c)
    BY <1>5 DEF NoReq, NoBuf, Bufs, c
  <2> QED
    BY <2>1, <2>2, <2>3, ProcsAssumption DEF Part
<1> QED
  BY <1>4, <1>5, <1>6, LockStep

\* The other steps touch no lock.
LEMMA OtherLock ==
    ASSUME IInv, PInv, LockOwner, NEW p \in Procs, Moves(p),
           ~LockBuffer(p), ~TakeSlot(p), ~SkipFull(p)
    PROVE  LockOwner'
<1>1. Control(p) /\ Types /\ BufType /\ Alone(p)
  BY MovesPlace DEF PInv, Types
<1>2. lock' = lock /\ slot' = slot
  BY DEF Moves, Run, Start, StartBlock, StartScan, buf, HoldAsleep, PageFault, SleepOnBuffer,
     Find, HashWait, Select, BufferWoken, Wait, Claim, NoSlot, SleepOnSlot, SlotWoken, Scan,
     Got, Read, Done, Change, MarkDirty, Copy, Release, Leave
<1>3. CASE NoSlot(p) \/ SleepOnSlot(p) \/ SlotWoken(p)
  <2>1. /\ pc[p] \in InRequest \ {"lock"} /\ UNCHANGED <<bh, scan>>
        /\ \E l \in InRequest \ {"lock"} : Goto(p, l)
    BY <1>3 DEF NoSlot, SleepOnSlot, SlotWoken, At, InRequest
  <2>2. pc'[p] \in InRequest \ {"lock"}
    BY <1>1, <2>1 DEF Goto, BufType
  <2> QED
    BY <1>1, <1>2, <2>1, <2>2, QuietLock DEF OwnsLock, Target
<1>4. CASE UNCHANGED <<pc, bh, scan>>
  BY <1>1, <1>2, <1>4, QuietLock DEF OwnsLock, Target
<1>5. CASE /\ pc[p] \notin InRequest \ {"lock"}
           /\ pc'[p] \notin InRequest \ {"lock"}
  BY <1>1, <1>2, <1>5, QuietLock DEF OwnsLock
<1>6. CASE Find(p) \/ HashWait(p) \/ Select(p) \/ BufferWoken(p) \/ Wait(p) \/ Claim(p)
  <2>1. pc[p] \in {"find", "hashwait", "select", "bufsleep", "wait", "rewait", "claim"}
    BY <1>6 DEF Find, HashWait, Select, BufferWoken, Wait, Claim, WaitOn, At
  <2>2. \/ \E l \in {"hashwait", "select", "got", "find", "wait", "bufsleep", "claim"} : Goto(p, l)
        \/ ScanFrom(p, op[p], 0, Dev[blk[bh[p]]])
    BY <1>6 DEF Find, HashWait, Select, BufferWoken, Wait, Claim
  <2>3. pc'[p] \notin InRequest
    BY <1>1, <2>2, ScanFromOK DEF Goto, BufType, InRequest
  <2> QED
    BY <1>5, <2>1, <2>3 DEF InRequest
<1>7. CASE Scan(p) \/ Got(p)
  <2>1. pc[p] \in {"scan", "got"}
    BY <1>7 DEF Scan, Got, WaitOn, At
  <2>2. \/ \E l \in {"lock", "hold", "release", "copy"} : Goto(p, l)
        \/ GoOnScan(p)
        \/ pc[p] = "got" /\ Return(p)
    BY <1>7 DEF Scan, Got, At
  <2>3. pc'[p] \notin InRequest \ {"lock"}
    BY <1>1, <2>2, ScanFromOK, ReturnOK DEF Goto, BufType, InRequest, GoOnScan
  <2> QED
    BY <1>5, <2>1, <2>3 DEF InRequest
<1>8. CASE Read(p) \/ Done(p) \/ Change(p) \/ MarkDirty(p) \/ Copy(p) \/ Release(p)
  <2>1. pc[p] \in {"read", "hold", "copy", "release"}
    BY <1>8 DEF Read, Done, Change, MarkDirty, Copy, Release, WaitOn, At
  <2>2. \E l \in {"hold", "copy", "release", "user"} : Goto(p, l)
    BY <1>8 DEF Read, Done, Change, MarkDirty, Copy, Release
  <2>3. pc'[p] \notin InRequest
    BY <1>1, <2>2 DEF Goto, BufType, InRequest
  <2> QED
    BY <1>5, <2>1, <2>3 DEF InRequest
<1>9. CASE Leave(p) \/ SleepOnBuffer(p) \/ HoldAsleep(p) \/ PageFault(p)
  BY <1>4, <1>9 DEF Leave, SleepOnBuffer, HoldAsleep, PageFault, proc
<1>10. CASE Start(p)
  <2>1. pc[p] = "user" /\ pc'[p] \in {"find", "scan", "user", "rewait"}
    BY <1>1, <1>10, ScanFromOK DEF Start, StartBlock, StartScan, At, Goto, BufType
  <2> QED
    BY <1>5, <2>1 DEF InRequest
<1> QED
  BY <1>3, <1>6, <1>7, <1>8, <1>9, <1>10 DEF Moves, Run

LEMMA NextLockOwner == IInv /\ PInv /\ LockOwner /\ [Next]_vars => LockOwner'
<1> SUFFICES ASSUME IInv, PInv, LockOwner, [Next]_vars PROVE LockOwner'
  OBVIOUS
<1>1. CASE \E s \in Slots, ok \in BOOLEAN : EndRequest(s, ok)
  BY <1>1, EndRequestOwner
<1>2. CASE \E p \in Procs : Moves(p)
  BY <1>2, LockBufferOwner, TakeSlotOwner, SkipFullOwner, OtherLock
<1>3. CASE UNCHANGED vars
  <2>1. ASSUME NEW b \in Bufs
        PROVE  {p \in Procs : (pc[p] \in InRequest \ {"lock"} /\ Target(p) = b)'}
                 = {p \in Procs : pc[p] \in InRequest \ {"lock"} /\ Target(p) = b}
    BY <1>3 DEF vars, proc, Target
  <2> QED
    BY <1>3, <2>1 DEF LockOwner, vars, proc, buf
<1> QED
  BY <1>1, <1>2, <1>3 DEF Next, Moves

----------------------------------------------------------------------------
(* What getblk() returns, and who waits for whom                           *)

\* The block is the wanted one and nobody locked it, when getblk() returns.
GotOK == \A p \in Procs : pc[p] = "got" => blk[bh[p]] = want[p] /\ ~lock[bh[p]]

LEMMA MovesCpu == ASSUME NEW p \in Procs, Moves(p) PROVE cpu \in {p, NoProc}
BY DEF Moves, Run, Start, StartBlock, StartScan, HoldAsleep, PageFault, SleepOnBuffer,
   Find, HashWait, Select, BufferWoken, Wait, Claim, NoSlot, SleepOnSlot, SlotWoken, Scan,
   Got, Read, Done, Change, MarkDirty, Copy, Release, Leave, LockBuffer, TakeSlot, SkipFull,
   WaitOn, At

\* getblk() returns by get_hash_table() or with a buffer it claimed.
LEMMA ToGot ==
    ASSUME PInv, IInv, NEW p \in Procs, Moves(p), pc'[p] = "got"
    PROVE  HashWait(p) \/ Claim(p)
<1>1. Types /\ BufType
  BY DEF PInv, Types
<1>2. CASE \E l \in PCs \ {"got"} : Goto(p, l)
  BY <1>1, <1>2 DEF Goto, BufType
<1>3. CASE \E o, k, d : ScanFrom(p, o, k, d)
  BY <1>1, <1>3, ScanFromOK
<1>4. CASE Return(p) /\ pc[p] \in {"lock", "slot", "got"}
  BY <1>4, ReturnOK
<1>5. CASE pc' = pc /\ pc[p] # "got"
  BY <1>5
<1>6. CASE Find(p) \/ Select(p) \/ BufferWoken(p)
  BY <1>2, <1>6 DEF Find, Select, BufferWoken, PCs
<1>7. CASE Wait(p) \/ Start(p) \/ Scan(p)
  BY <1>2, <1>3, <1>7 DEF Wait, Start, StartBlock, StartScan, Scan, GoOnScan, PCs
<1>8. CASE LockBuffer(p) \/ TakeSlot(p) \/ SkipFull(p)
  BY <1>2, <1>4, <1>8 DEF LockBuffer, TakeSlot, SkipFull, WaitOn, At, PCs
<1>9. CASE NoSlot(p) \/ SleepOnSlot(p) \/ SlotWoken(p) \/ Read(p) \/ Done(p)
  BY <1>2, <1>9 DEF NoSlot, SleepOnSlot, SlotWoken, Read, Done, PCs
<1>10. CASE Got(p)
  BY <1>2, <1>4, <1>10 DEF Got, At, PCs
<1>11. CASE Change(p) \/ MarkDirty(p) \/ Copy(p) \/ Release(p)
  BY <1>2, <1>11 DEF Change, MarkDirty, Copy, Release, PCs
<1>12. CASE Leave(p) \/ SleepOnBuffer(p) \/ HoldAsleep(p) \/ PageFault(p)
  <2>1. pc' = pc /\ pc[p] # "got"
    BY <1>12 DEF Leave, SleepOnBuffer, HoldAsleep, PageFault, proc, WaitsForLock
  <2> QED
    BY <1>5, <2>1
<1> QED
  BY <1>6, <1>7, <1>8, <1>9, <1>10, <1>11, <1>12 DEF Moves, Run

LEMMA NextGotOK == IInv /\ PInv /\ GotOK /\ [Next]_vars => GotOK'
<1> SUFFICES ASSUME IInv, PInv, GotOK, [Next]_vars, NEW p \in Procs, pc'[p] = "got"
             PROVE  blk'[bh'[p]] = want'[p] /\ ~lock'[bh'[p]]
  BY DEF GotOK
<1>1. Types /\ BufType
  BY DEF PInv, Types
<1>2. CASE \E s \in Slots, ok \in BOOLEAN : EndRequest(s, ok)
  <2>1. PICK s \in Slots, ok \in BOOLEAN : EndRequest(s, ok)
    BY <1>2
  <2>2. /\ pc[p] = "got" /\ UNCHANGED <<bh, want, blk>>
        /\ \A b \in Bufs : lock'[b] => lock[b]
    BY <1>1, <2>1 DEF EndRequest, BufType
  <2>3. bh[p] \in Bufs
    BY <2>2 DEF IInv, HasBuf
  <2> QED
    BY <2>2, <2>3 DEF GotOK
<1>3. ASSUME NEW q \in Procs, Moves(q)
      PROVE  blk'[bh'[p]] = want'[p] /\ ~lock'[bh'[p]]
  <2>1. CASE q # p
    <3>1. pc[p] = "got" /\ cpu = p
      BY <1>3, <2>1, MovesPlace DEF PInv, Control, Alone
    <3> QED
      BY <1>3, <2>1, <3>1, MovesCpu, ProcsAssumption
  <2>2. CASE q = p
    <3>1. CASE HashWait(p)
      <4>1. /\ UNCHANGED <<bh, want, blk, lock>> /\ ~lock[bh[p]]
            /\ (blk[bh[p]] = want[p] \/ Goto(p, "find"))
        BY <3>1 DEF HashWait, WaitOn
      <4>2. ~Goto(p, "find")
        BY <1>1 DEF Goto, BufType
      <4> QED
        BY <4>1, <4>2
    <3>2. CASE Claim(p)
      <4>1. /\ pc[p] = "claim" /\ UNCHANGED <<bh, want>> /\ lock' = lock
            /\ (Goto(p, "find") \/ blk' = [blk EXCEPT ![bh[p]] = want[p]])
        BY <3>2 DEF Claim, Requeue, At, buf
      <4>2. ~Goto(p, "find")
        BY <1>1 DEF Goto, BufType
      <4>3. bh[p] \in Bufs /\ ~lock[bh[p]]
        BY <4>1 DEF IInv, HasBuf, ClaimOK
      <4> QED
        BY <1>1, <4>1, <4>2, <4>3 DEF BufType
    <3> QED
      BY <1>3, <2>2, <3>1, <3>2, ToGot
  <2> QED
    BY <2>1, <2>2
<1>4. CASE UNCHANGED vars
  BY <1>4 DEF GotOK, vars, proc, buf
<1> QED
  BY <1>2, <1>3, <1>4 DEF Next, Moves

\* Only brelse() and the way back from a sync end an operation.
LEMMA OpStays ==
    ASSUME PInv, NEW p \in Procs, Moves(p), ~Release(p), NEW q \in Procs, UsesBuffer(q)
    PROVE  UsesBuffer(q)'
<1>1. CASE q # p
  BY <1>1, MovesPlace DEF Alone, UsesBuffer
<1>2. CASE q = p
  <2>1. pc[p] # "user"
    BY <1>2 DEF PInv, Control, UsesBuffer, ScanOps
  <2>2. op' = op
    BY <2>1 DEF Moves, Run, Start, StartBlock, StartScan, HoldAsleep, PageFault, SleepOnBuffer,
       Find, HashWait, Select, BufferWoken, Wait, Claim, NoSlot, SleepOnSlot, SlotWoken, Scan,
       Got, Read, Done, Change, MarkDirty, Copy, Leave, LockBuffer, TakeSlot, SkipFull,
       proc, At
  <2> QED
    BY <1>2, <2>2 DEF UsesBuffer
<1> QED
  BY <1>1, <1>2

\* breada() can have two buffers in its hands at once.
EnoughBufs == NBufs > 1 \/ "breada" \notin Ops

\* When getblk() finds every buffer taken, another process has one of them.
LEMMA SomebodyElse ==
    ASSUME EnoughBufs, PInv, RefCount, NEW p \in Procs, pc[p] = "select",
           \A b \in Bufs : cnt[b] # 0
    PROVE  \E q \in Procs \ {p} : UsesBuffer(q)
<1>1. PICK b : b \in Bufs /\ kept[p] # b
  <2>1. CASE NBufs > 1
    <3>1. 1 \in Bufs /\ 2 \in Bufs
      BY <2>1, SizeAssumption DEF Bufs
    <3>2. kept[p] # 1 \/ kept[p] # 2
      OBVIOUS
    <3> QED
      BY <3>1, <3>2
  <2>2. CASE "breada" \notin Ops
    <3>1. kept[p] = NoBuf
      BY <2>2 DEF PInv, Types, BufType, Control
    <3>2. 1 \in Bufs /\ NoBuf # 1
      BY SizeAssumption DEF Bufs, NoBuf
    <3> QED
      BY <3>1, <3>2
  <2> QED
    BY <2>1, <2>2 DEF EnoughBufs
<1>2. PICK q \in Procs : Holds(q, b) \/ kept[q] = b
  BY <1>1, CountedHeld
<1>3. q # p
  BY <1>1, <1>2 DEF Holds, InRequest
<1>4. UsesBuffer(q)
  <2>1. CASE Holds(q, b)
    BY <2>1, HeldIn
  <2>2. CASE kept[q] = b
    <3>1. kept[q] # NoBuf
      BY <1>1, <2>2 DEF Bufs, NoBuf
    <3> QED
      BY <3>1 DEF PInv, Control, UsesBuffer
  <2> QED
    BY <1>2, <2>1, <2>2
<1> QED
  BY <1>3, <1>4

LEMMA NextForgotten ==
    ASSUME EnoughBufs, PInv, RefCount, NobodyForgotten, [Next]_vars
    PROVE  NobodyForgotten'
<1>1. CASE \E s \in Slots, ok \in BOOLEAN : EndRequest(s, ok)
  BY <1>1 DEF EndRequest, NobodyForgotten, UsesBuffer
<1>2. ASSUME NEW p \in Procs, Moves(p) PROVE NobodyForgotten'
  <2>1. CASE Release(p)
    BY <2>1 DEF Release, WakeBufferQueue, NobodyForgotten
  <2>2. CASE ~Release(p)
    <3>1. \A q \in Procs : UsesBuffer(q) => UsesBuffer(q)'
      BY <1>2, <2>2, OpStays
    <3>2. CASE bufq' = bufq
      BY <3>1, <3>2 DEF NobodyForgotten
    <3>3. CASE Select(p) /\ (\A b \in Bufs : cnt[b] # 0) /\ bufq' = bufq \cup {p}
      <4>1. \E q \in Procs \ {p} : UsesBuffer(q)
        BY <3>3, SomebodyElse DEF Select, At
      <4> QED
        BY <3>1, <3>3, <4>1 DEF NobodyForgotten
    <3>4. bufq' = bufq \/ Select(p)
      BY <1>2, <2>2 DEF Moves, Run, Start, StartBlock, StartScan, HoldAsleep, PageFault,
         SleepOnBuffer, Find, HashWait, BufferWoken, Wait, Claim, NoSlot, SleepOnSlot,
         SlotWoken, Scan, Got, Read, Done, Change, MarkDirty, Copy, Leave, LockBuffer,
         TakeSlot, SkipFull
    <3> QED
      BY <3>2, <3>3, <3>4 DEF Select
  <2> QED
    BY <2>1, <2>2
<1>3. CASE UNCHANGED vars
  BY <1>3 DEF NobodyForgotten, UsesBuffer, vars, proc
<1> QED
  BY <1>1, <1>2, <1>3 DEF Next, Moves

\* What is inductive in BuffersOK.
BookInv == IInv /\ PInv /\ RefCount /\ LockOwner /\ GotOK

LEMMA InitBookInv == Init => BookInv /\ NobodyForgotten
<1> SUFFICES ASSUME Init PROVE BookInv /\ NobodyForgotten
  OBVIOUS
<1>1. IInv /\ PInv
  BY InitIInv, InitPInv
<1>2. RefCount
  <2> SUFFICES ASSUME NEW b \in Bufs
               PROVE  cnt[b] = Cardinality({p \in Procs : Holds(p, b)})
                                 + Cardinality({p \in Procs : kept[p] = b})
    BY DEF RefCount
  <2>1. {p \in Procs : Holds(p, b)} = {}
    BY DEF Init, Holds, InRequest
  <2>2. {p \in Procs : kept[p] = b} = {}
    BY DEF Init, Bufs, NoBuf
  <2>3. cnt[b] = 0 /\ Cardinality({}) = 0
    BY FS_EmptySet DEF Init
  <2> QED
    BY <2>1, <2>2, <2>3
<1>3. LockOwner
  <2> SUFFICES ASSUME NEW b \in Bufs
               PROVE  Cardinality({p \in Procs : pc[p] \in InRequest \ {"lock"} /\ Target(p) = b})
                        + Cardinality({s \in Slots : slot[s].b = b}) = IF lock[b] THEN 1 ELSE 0
    BY DEF LockOwner
  <2>1. {p \in Procs : pc[p] \in InRequest \ {"lock"} /\ Target(p) = b} = {}
    BY DEF Init, InRequest
  <2>2. {s \in Slots : slot[s].b = b} = {}
    BY DEF Init, NoReq, Bufs, NoBuf
  <2>3. ~lock[b] /\ Cardinality({}) = 0
    BY FS_EmptySet DEF Init
  <2> QED
    BY <2>1, <2>2, <2>3
<1>4. GotOK /\ NobodyForgotten
  BY DEF Init, GotOK, NobodyForgotten
<1> QED
  BY <1>1, <1>2, <1>3, <1>4 DEF BookInv

LEMMA BookInvCorrect == Spec => []BookInv
<1>1. BookInv /\ [Next]_vars => BookInv'
  BY NextIInv, NextPInv, NextRefCount, NextLockOwner, NextGotOK DEF BookInv
<1> QED
  BY InitBookInv, <1>1, PTL DEF Spec

LEMMA BookResult ==
    ASSUME BookInv
    PROVE  TypeOK /\ RefCount /\ LockOwner /\ GetblkResult
<1>1. Types /\ RefCount /\ LockOwner
  BY DEF BookInv, PInv
<1>2. cnt \in [Bufs -> Nat]
  <2>1. ASSUME NEW b \in Bufs PROVE cnt[b] \in Nat
    <3> DEFINE H == {p \in Procs : Holds(p, b)}
               K == {p \in Procs : kept[p] = b}
    <3>1. H \in SUBSET Procs /\ K \in SUBSET Procs
      OBVIOUS
    <3>2. cnt[b] = Cardinality(H) + Cardinality(K)
      BY <1>1 DEF RefCount
    <3> HIDE DEF H, K
    <3>3. Cardinality(H) \in Nat /\ Cardinality(K) \in Nat
      BY <3>1, ProcsAssumption, FS_Subset, FS_CardinalityType
    <3> QED
      BY <3>2, <3>3
  <2> QED
    BY <1>1, <2>1 DEF Types, BufType
<1>3. TypeOK
  BY <1>1, <1>2 DEF Types, BufType, TypeOK
<1>4. GetblkResult
  <2> SUFFICES ASSUME NEW p \in Procs, pc[p] = "got"
               PROVE  blk[bh[p]] = want[p] /\ cnt[bh[p]] # 0 /\ ~lock[bh[p]]
    BY DEF GetblkResult
  <2>1. bh[p] \in Bufs /\ Holds(p, bh[p])
    BY DEF BookInv, IInv, HasBuf, Holds
  <2> QED
    BY <1>1, <2>1, HeldCounts DEF BookInv, GotOK
<1> QED
  BY <1>1, <1>3, <1>4

(* b_count, the locks and what getblk() returns are right after any number *)
(* of sleeps, whatever the size of the cache: brelse() never panics, no    *)
(* buffer is leaked, and none is ever in two requests.                     *)
THEOREM BooksKept == Spec => [](TypeOK /\ RefCount /\ LockOwner /\ GetblkResult)
<1>1. BookInv => TypeOK /\ RefCount /\ LockOwner /\ GetblkResult
  BY BookResult
<1> QED
  BY BookInvCorrect, <1>1, PTL

(* And nobody sleeps on buffer_wait without another process that will call *)
(* brelse(), unless breada() can hold the only buffer there is and look    *)
(* for another.                                                            *)
THEOREM BuffersKept == EnoughBufs => (Spec => []BuffersOK)
<1>1. CASE EnoughBufs
  <2>1. BookInv /\ NobodyForgotten /\ [Next]_vars => NobodyForgotten'
    BY <1>1, NextForgotten DEF BookInv
  <2>2. Spec => []NobodyForgotten
    BY BookInvCorrect, InitBookInv, <2>1, PTL DEF Spec
  <2>3. TypeOK /\ RefCount /\ LockOwner /\ GetblkResult /\ NobodyForgotten => BuffersOK
    BY DEF BuffersOK
  <2> QED
    BY BooksKept, <2>2, <2>3, PTL
<1>2. CASE ~EnoughBufs
  BY <1>2
<1> QED
  BY <1>1, <1>2

----------------------------------------------------------------------------
(* What was written last is what is read, and gets to the disk             *)

\* The operations that read a block before they change a part of it, or
\* clear it, and a disk that does not fail to write.
CarefulUse ==
    /\ Ops \subseteq {"bread", "breada", "new_block", "file_write", "sync_dev", "sys_sync"}
    /\ "write" \notin Errors

\* A dirty buffer is up to date, a buffer is read because it is not and
\* written because it is, and is changed only while it is.
DInv ==
    /\ \A b \in Bufs : dirt[b] => upto[b]
    /\ \A p \in Procs, b \in Bufs : OwnsLock(p, b) => (upto[b] <=> rw[p] = "write")
    /\ \A s \in Slots : slot[s] # NoReq => (upto[slot[s].b] <=> slot[s].rw = "write")
    /\ \A p \in Procs : pc[p] \in {"hold", "copy"} => upto[bh[p]]
    /\ \A p \in Procs : pc[p] = "copy" => dirt[bh[p]]
    /\ NewestCached
    /\ NothingLost

\* Of what a step of p leaves alone.
LEMMA QuietData ==
    ASSUME DInv, NEW p \in Procs, Alone(p),
           UNCHANGED <<upto, dirt, data, disk, slot, blk>>,
           \A b \in Bufs : OwnsLock(p, b)' => (upto[b] <=> rw'[p] = "write"),
           pc'[p] \in {"hold", "copy"} => upto[bh'[p]],
           pc'[p] = "copy" => dirt[bh'[p]]
    PROVE  DInv'
<1>1. (\A b \in Bufs : dirt[b] => upto[b])'
  BY DEF DInv
<1>2. (\A q \in Procs, b \in Bufs : OwnsLock(q, b) => (upto[b] <=> rw[q] = "write"))'
  <2> SUFFICES ASSUME NEW q \in Procs, NEW b \in Bufs, OwnsLock(q, b)'
               PROVE  upto'[b] <=> rw'[q] = "write"
    OBVIOUS
  <2>1. CASE q = p
    BY <2>1
  <2>2. CASE q # p
    <3>1. OwnsLock(q, b) /\ rw'[q] = rw[q]
      BY <2>2, OthersOwn DEF Alone
    <3> QED
      BY <3>1 DEF DInv
  <2> QED
    BY <2>1, <2>2
<1>3. (\A s \in Slots : slot[s] # NoReq => (upto[slot[s].b] <=> slot[s].rw = "write"))'
  BY DEF DInv
<1>4. /\ (\A q \in Procs : pc[q] \in {"hold", "copy"} => upto[bh[q]])'
      /\ (\A q \in Procs : pc[q] = "copy" => dirt[bh[q]])'
  <2> SUFFICES ASSUME NEW q \in Procs
               PROVE  /\ pc'[q] \in {"hold", "copy"} => upto[bh'[q]]
                      /\ pc'[q] = "copy" => dirt[bh'[q]]
    OBVIOUS
  <2>1. CASE q = p
    BY <2>1
  <2>2. CASE q # p
    <3>1. pc'[q] = pc[q] /\ bh'[q] = bh[q]
      BY <2>2 DEF Alone
    <3> QED
      BY <3>1 DEF DInv
  <2> QED
    BY <2>1, <2>2
<1>5. NewestCached' /\ NothingLost'
  BY DEF DInv, NewestCached, NothingLost, Unwritten
<1> QED
  BY <1>1, <1>2, <1>3, <1>4, <1>5 DEF DInv

\* Of a step after which p neither makes a request nor uses its buffer.
LEMMA IdleData ==
    ASSUME DInv, NEW p \in Procs, Alone(p),
           UNCHANGED <<upto, dirt, data, disk, slot, blk>>,
           pc'[p] \notin (InRequest \ {"lock"}) \cup {"hold", "copy"}
    PROVE  DInv'
<1>1. \A b \in Bufs : ~OwnsLock(p, b)'
  BY DEF OwnsLock
<1> QED
  BY <1>1, QuietData

LEMMA GetblkData ==
    ASSUME BookInv, DInv, NEW p \in Procs,
           Find(p) \/ HashWait(p) \/ Select(p) \/ BufferWoken(p) \/ Wait(p)
    PROVE  DInv'
<1>1. Types /\ BufType /\ Alone(p) /\ UNCHANGED <<upto, dirt, data, disk, slot, blk>>
  <2>1. UNCHANGED <<upto, dirt, data, disk, slot, blk>>
    BY DEF Find, HashWait, Select, BufferWoken, Wait, buf
  <2> QED
    BY <2>1, MovesPlace DEF BookInv, PInv, Types, Moves, Run
<1>2. \/ \E l \in {"hashwait", "select", "got", "find", "wait", "bufsleep", "claim"} : Goto(p, l)
      \/ ScanFrom(p, op[p], 0, Dev[blk[bh[p]]])
  BY DEF Find, HashWait, Select, BufferWoken, Wait
<1>3. pc'[p] \notin InRequest \cup {"hold", "copy"}
  BY <1>1, <1>2, ScanFromOK DEF Goto, BufType, InRequest
<1> QED
  BY <1>1, <1>3, IdleData

LEMMA ClaimData ==
    ASSUME BookInv, DInv, NEW p \in Procs, Claim(p)
    PROVE  DInv'
<1>1. /\ pc[p] = "claim" /\ Types /\ BufType /\ Alone(p) /\ RefCount /\ LockOwner
      /\ bh[p] \in Bufs /\ cnt[bh[p]] = 0 /\ ~lock[bh[p]] /\ ~dirt[bh[p]]
      /\ UNCHANGED <<bh, disk, slot, rw>>
  BY ClaimPlace DEF Claim, At, BookInv, IInv, HasBuf, ClaimOK, PInv, Types
<1>2. CASE Goto(p, "find") /\ UNCHANGED buf
  <2>1. pc'[p] = "find"
    BY <1>1, <1>2 DEF Goto, BufType
  <2> QED
    BY <1>1, <1>2, <2>1, IdleData DEF buf, InRequest
<1>3. CASE /\ Goto(p, "got")
           /\ dirt' = [dirt EXCEPT ![bh[p]] = FALSE]
           /\ upto' = [upto EXCEPT ![bh[p]] = FALSE]
           /\ blk' = [blk EXCEPT ![bh[p]] = want[p]]
           /\ data' = [data EXCEPT ![bh[p]] = FALSE]
  <2> DEFINE b == bh[p]
  <2>1. /\ b \in Bufs /\ ~dirt[b] /\ pc'[p] = "got"
        /\ ~dirt'[b] /\ ~upto'[b]
        /\ \A c \in Bufs \ {b} : /\ dirt'[c] = dirt[c] /\ upto'[c] = upto[c]
                                 /\ blk'[c] = blk[c] /\ data'[c] = data[c]
    BY <1>1, <1>3 DEF Types, BufType, Goto
  <2>2. /\ \A q \in Procs : ~OwnsLock(q, b)
        /\ \A s \in Slots : slot[s].b # b
    BY <1>1, OwnerLocked
  <2>3. \A q \in Procs : pc[q] \in {"hold", "copy"} => bh[q] # b
    BY <1>1, HeldCounts DEF Holds
  <2> HIDE DEF b
  <2>4. (\A c \in Bufs : dirt[c] => upto[c])'
    BY <2>1 DEF DInv
  <2>5. (\A q \in Procs, c \in Bufs : OwnsLock(q, c) => (upto[c] <=> rw[q] = "write"))'
    <3> SUFFICES ASSUME NEW q \in Procs, NEW c \in Bufs, OwnsLock(q, c)'
                 PROVE  upto'[c] <=> rw'[q] = "write"
      OBVIOUS
    <3>1. q # p
      BY <2>1 DEF OwnsLock, InRequest
    <3>2. OwnsLock(q, c)
      BY <1>1, <3>1, OthersOwn
    <3>3. c # b
      BY <2>2, <3>2
    <3> QED
      BY <1>1, <2>1, <3>2, <3>3 DEF DInv
  <2>6. (\A s \in Slots : slot[s] # NoReq => (upto[slot[s].b] <=> slot[s].rw = "write"))'
    <3> SUFFICES ASSUME NEW s \in Slots, slot[s] # NoReq
                 PROVE  upto'[slot[s].b] <=> slot[s].rw = "write"
      BY <1>1
    <3>1. slot[s].b \in Bufs \ {b}
      BY <1>1, <2>2 DEF Types
    <3> QED
      BY <2>1, <3>1 DEF DInv
  <2>7. /\ (\A q \in Procs : pc[q] \in {"hold", "copy"} => upto[bh[q]])'
        /\ (\A q \in Procs : pc[q] = "copy" => dirt[bh[q]])'
    <3> SUFFICES ASSUME NEW q \in Procs, pc'[q] \in {"hold", "copy"}
                 PROVE  upto'[bh'[q]] /\ (pc'[q] = "copy" => dirt'[bh'[q]])
      OBVIOUS
    <3>1. pc[q] = pc'[q] /\ bh'[q] = bh[q]
      BY <1>1, <2>1 DEF Alone
    <3>2. Holds(q, bh[q])
      BY <3>1 DEF Holds
    <3>3. bh[q] \in Bufs
      BY <3>2, HeldIn DEF BookInv
    <3> QED
      BY <2>1, <2>3, <3>1, <3>3 DEF DInv
  <2>8. NewestCached'
    BY <2>1 DEF DInv, NewestCached
  <2>9. NothingLost'
    <3> SUFFICES ASSUME NEW x \in Blocks, ~disk[x]
                 PROVE  \E c \in Bufs : blk'[c] = x /\ data'[c] /\ Unwritten(c)'
      BY <1>1 DEF NothingLost
    <3>1. PICK c \in Bufs : blk[c] = x /\ data[c] /\ Unwritten(c)
      BY DEF DInv, NothingLost
    <3>2. c # b
      BY <2>1, <2>2, <3>1 DEF Unwritten
    <3>3. Unwritten(c)'
      BY <1>1, <2>1, <3>1, <3>2 DEF Unwritten
    <3> QED
      BY <2>1, <3>1, <3>2, <3>3
  <2> QED
    BY <2>4, <2>5, <2>6, <2>7, <2>8, <2>9 DEF DInv
<1> QED
  BY <1>2, <1>3 DEF Claim, ResetFlags, Requeue

\* make_request() reads what is not up to date and writes what is dirty.
LEMMA RequestData ==
    ASSUME BookInv, DInv, NEW p \in Procs,
           LockBuffer(p) \/ SkipFull(p) \/ NoSlot(p) \/ SleepOnSlot(p) \/ SlotWoken(p)
    PROVE  DInv'
<1>1. /\ Types /\ BufType /\ PInv /\ IInv /\ Alone(p)
      /\ UNCHANGED <<upto, dirt, data, disk, slot, blk, rw>>
  <2>1. UNCHANGED <<upto, dirt, data, disk, slot, blk, rw>>
    BY DEF LockBuffer, SkipFull, NoSlot, SleepOnSlot, SlotWoken, buf
  <2> QED
    BY <2>1, MovesPlace DEF BookInv, PInv, Types, Moves, Run
<1>2. CASE (LockBuffer(p) \/ SkipFull(p)) /\ Return(p)
  <2>1. pc'[p] \in {"scan", "user", "rewait", "read", "find"}
    BY <1>1, <1>2, ReturnOK DEF LockBuffer, SkipFull, WaitOn, At
  <2> QED
    BY <1>1, <2>1, IdleData DEF InRequest
<1>3. CASE LockBuffer(p) /\ ~Needless(p) /\ Goto(p, "slot") /\ UNCHANGED <<scan, bh>>
  <2>1. Target(p)' = Target(p) /\ pc'[p] = "slot"
    BY <1>1, <1>3 DEF Target, Goto, BufType
  <2>2. Target(p) \in Bufs
    BY <1>1, <1>3, TargetIn DEF LockBuffer, WaitOn, At, InRequest
  <2>3. upto[Target(p)] <=> rw[p] = "write"
    BY <1>3, <2>2 DEF Needless, DInv
  <2>4. \A b \in Bufs : OwnsLock(p, b)' => (upto[b] <=> rw'[p] = "write")
    BY <1>1, <2>1, <2>3 DEF OwnsLock
  <2> QED
    BY <1>1, <2>1, <2>4, QuietData
<1>4. CASE NoSlot(p) \/ SleepOnSlot(p) \/ SlotWoken(p)
  <2>1. /\ pc[p] \in InRequest \ {"lock"} /\ UNCHANGED <<bh, scan>>
        /\ \E l \in InRequest \ {"lock"} : Goto(p, l)
    BY <1>4 DEF NoSlot, SleepOnSlot, SlotWoken, At, InRequest
  <2>2. pc'[p] \in InRequest
    BY <1>1, <2>1 DEF Goto, BufType
  <2>3. \A b \in Bufs : OwnsLock(p, b)' => OwnsLock(p, b)
    BY <2>1 DEF OwnsLock, Target
  <2>4. \A b \in Bufs : OwnsLock(p, b)' => (upto[b] <=> rw'[p] = "write")
    BY <1>1, <2>3 DEF DInv
  <2> QED
    BY <1>1, <2>2, <2>4, QuietData DEF InRequest
<1> QED
  BY <1>2, <1>3, <1>4 DEF LockBuffer, SkipFull

\* The buffer is clean from here on: what is in it is in the request.
LEMMA TakeSlotData ==
    ASSUME BookInv, DInv, NoWriteInCopy, NEW p \in Procs, TakeSlot(p)
    PROVE  DInv'
<1> DEFINE b == Target(p)
           w == IF rw[p] = "write" THEN "write" ELSE "read"
<1>1. /\ pc[p] = "slot" /\ Return(p) /\ Types /\ BufType /\ PInv /\ IInv
      /\ b \in Bufs /\ Alone(p)
      /\ dirt' = [dirt EXCEPT ![b] = FALSE]
      /\ UNCHANGED <<rw, blk, upto, data, disk>>
  BY TargetIn, TakeSlotPlace DEF TakeSlot, At, InRequest, BookInv, PInv, Types
<1>2. PICK s : s \in FreeSlots(p) /\ slot' = [slot EXCEPT ![s] = [rw |-> w, b |-> b]]
  BY DEF TakeSlot
<1>3. /\ s \in Slots /\ slot[s] = NoReq /\ slot'[s] = [rw |-> w, b |-> b]
      /\ \A t \in Slots \ {s} : slot'[t] = slot[t]
  BY <1>1, <1>2, SizeAssumption DEF FreeSlots, Limit, Slots, Types
<1>4. pc'[p] \in {"scan", "user", "rewait", "read", "find"}
  BY <1>1, ReturnOK
<1>5. upto[b] <=> w = "write"
  BY <1>1 DEF DInv, OwnsLock, InRequest
<1>6. ~dirt'[b] /\ \A c \in Bufs \ {b} : dirt'[c] = dirt[c]
  BY <1>1 DEF BufType
<1> HIDE DEF b, w
<1>7. (\A c \in Bufs : dirt[c] => upto[c])'
  BY <1>1, <1>6 DEF DInv
<1>8. (\A q \in Procs, c \in Bufs : OwnsLock(q, c) => (upto[c] <=> rw[q] = "write"))'
  <2> SUFFICES ASSUME NEW q \in Procs, NEW c \in Bufs, OwnsLock(q, c)'
               PROVE  upto'[c] <=> rw'[q] = "write"
    OBVIOUS
  <2>1. q # p
    BY <1>4 DEF OwnsLock, InRequest
  <2> QED
    BY <1>1, <2>1, OthersOwn DEF DInv
<1>9. (\A t \in Slots : slot[t] # NoReq => (upto[slot[t].b] <=> slot[t].rw = "write"))'
  BY <1>1, <1>3, <1>5 DEF DInv
<1>10. /\ (\A q \in Procs : pc[q] \in {"hold", "copy"} => upto[bh[q]])'
       /\ (\A q \in Procs : pc[q] = "copy" => dirt[bh[q]])'
  BY <1>1, <1>4 DEF DInv, Alone, NoWriteInCopy
<1>11. NewestCached'
  BY <1>1 DEF DInv, NewestCached
<1>12. NothingLost'
  <2> SUFFICES ASSUME NEW x \in Blocks, ~disk[x]
               PROVE  \E c \in Bufs : blk'[c] = x /\ data'[c] /\ Unwritten(c)'
    BY <1>1 DEF NothingLost
  <2>1. PICK c \in Bufs : blk[c] = x /\ data[c] /\ Unwritten(c)
    BY DEF DInv, NothingLost
  <2>2. Unwritten(c)'
    <3>1. CASE dirt[c] /\ c # b
      BY <1>6, <3>1 DEF Unwritten
    <3>2. CASE dirt[c] /\ c = b
      <4>1. w = "write"
        BY <1>5, <3>2 DEF DInv
      <4> QED
        BY <1>3, <3>2, <4>1 DEF Unwritten
    <3>3. CASE \E t \in Slots : slot[t] = [rw |-> "write", b |-> c]
      <4>1. PICK t \in Slots : slot[t] = [rw |-> "write", b |-> c]
        BY <3>3
      <4>2. t # s
        BY <1>3, <4>1 DEF NoReq
      <4> QED
        BY <1>3, <4>1, <4>2 DEF Unwritten
    <3> QED
      BY <2>1, <3>1, <3>2, <3>3 DEF Unwritten
  <2> QED
    BY <1>1, <2>1, <2>2
<1> QED
  BY <1>7, <1>8, <1>9, <1>10, <1>11, <1>12 DEF DInv

\* A step that changes or clears the buffer p holds, and leaves it dirty.
LEMMA DirtyData ==
    ASSUME BookInv, DInv, NEW p \in Procs, Alone(p), NEW b \in Bufs, bh[p] = b, bh' = bh,
           blk[b] # NoBlock,
           UNCHANGED <<blk, slot, rw>>, pc'[p] \in {"copy", "release"},
           dirt' = [dirt EXCEPT ![b] = TRUE],
           \/ upto' = upto /\ upto[b]
           \/ /\ upto' = [upto EXCEPT ![b] = TRUE] /\ ~lock[b]
              /\ data' = [data EXCEPT ![b] = TRUE],
           \/ UNCHANGED <<data, disk>>
           \/ /\ data' = [data EXCEPT ![b] = TRUE]
              /\ disk' = [disk EXCEPT ![blk[b]] = FALSE]
    PROVE  DInv'
<1>1. Types /\ BufType /\ LockOwner
  BY DEF BookInv, PInv, Types
<1>2. /\ dirt'[b] /\ upto'[b]
      /\ \A c \in Bufs \ {b} : dirt'[c] = dirt[c] /\ upto'[c] = upto[c] /\ data'[c] = data[c]
  BY <1>1 DEF Types, BufType
<1>3. \A x \in Blocks \ {blk[b]} : disk'[x] = disk[x]
  BY <1>1 DEF Types
<1>4. \/ upto' = upto
      \/ (\A q \in Procs : ~OwnsLock(q, b)) /\ (\A s \in Slots : slot[s].b # b)
  BY OwnerLocked, <1>1
<1>5. data'[b]
  BY <1>1 DEF DInv, NewestCached, Types
<1>6. (\A c \in Bufs : dirt[c] => upto[c])'
  BY <1>2 DEF DInv
<1>7. (\A q \in Procs, c \in Bufs : OwnsLock(q, c) => (upto[c] <=> rw[q] = "write"))'
  <2> SUFFICES ASSUME NEW q \in Procs, NEW c \in Bufs, OwnsLock(q, c)'
               PROVE  upto'[c] <=> rw'[q] = "write"
    OBVIOUS
  <2>1. q # p
    BY DEF OwnsLock, InRequest
  <2>2. OwnsLock(q, c)
    BY <2>1, OthersOwn
  <2>3. upto'[c] = upto[c]
    BY <1>2, <1>4, <2>2
  <2> QED
    BY <2>2, <2>3 DEF DInv
<1>8. (\A s \in Slots : slot[s] # NoReq => (upto[slot[s].b] <=> slot[s].rw = "write"))'
  <2> SUFFICES ASSUME NEW s \in Slots, slot[s] # NoReq
               PROVE  upto'[slot[s].b] <=> slot[s].rw = "write"
    OBVIOUS
  <2>1. slot[s].b \in Bufs
    BY <1>1 DEF Types
  <2>2. upto'[slot[s].b] = upto[slot[s].b]
    BY <1>2, <1>4, <2>1
  <2> QED
    BY <2>2 DEF DInv
<1>9. /\ (\A q \in Procs : pc[q] \in {"hold", "copy"} => upto[bh[q]])'
      /\ (\A q \in Procs : pc[q] = "copy" => dirt[bh[q]])'
  <2> SUFFICES ASSUME NEW q \in Procs, pc'[q] \in {"hold", "copy"}
               PROVE  upto'[bh[q]] /\ (pc'[q] = "copy" => dirt'[bh[q]])
    OBVIOUS
  <2>1. CASE bh[q] = b
    BY <1>2, <2>1
  <2>2. CASE bh[q] # b
    <3>1. pc[q] = pc'[q]
      BY <2>2 DEF Alone
    <3>2. bh[q] \in Bufs
      BY <3>1, HeldIn DEF Holds, BookInv
    <3> QED
      BY <1>2, <2>2, <3>1, <3>2 DEF DInv
  <2> QED
    BY <2>1, <2>2
<1>10. NewestCached'
  BY <1>2, <1>5 DEF DInv, NewestCached
<1>11. NothingLost'
  <2> SUFFICES ASSUME NEW x \in Blocks, ~disk'[x]
               PROVE  \E c \in Bufs : blk[c] = x /\ data'[c] /\ Unwritten(c)'
    BY DEF NothingLost
  <2>1. CASE x = blk[b]
    BY <1>2, <1>5, <2>1 DEF Unwritten
  <2>2. CASE x # blk[b]
    <3>1. PICK c \in Bufs : blk[c] = x /\ data[c] /\ Unwritten(c)
      BY <1>3, <2>2 DEF DInv, NothingLost
    <3> QED
      BY <1>2, <2>2, <3>1 DEF Unwritten
  <2> QED
    BY <2>1, <2>2
<1> QED
  BY <1>6, <1>7, <1>8, <1>9, <1>10, <1>11 DEF DInv

LEMMA UserData ==
    ASSUME CarefulUse, BookInv, DInv, NEW p \in Procs,
           Got(p) \/ Read(p) \/ Done(p) \/ Change(p) \/ MarkDirty(p) \/ Copy(p) \/ Release(p)
    PROVE  DInv'
<1>1. /\ Types /\ BufType /\ PInv /\ IInv /\ Alone(p) /\ Control(p) /\ Backed(p) /\ GotOK
      /\ op[p] \notin {"block_write", "invalidate"}
  BY MovesPlace DEF BookInv, PInv, Types, BufType, Moves, Run, CarefulUse
<1>2. CASE Release(p) \/ Done(p)
  <2>1. pc'[p] \in {"user", "release"}
    BY <1>1, <1>2 DEF Release, Done, Goto, BufType
  <2> QED
    BY <1>1, <1>2, <2>1, IdleData DEF Release, Done, InRequest, buf
<1>3. CASE Read(p)
  <2>1. /\ UNCHANGED <<buf, slot, disk, bh>>
        /\ (pc'[p] = "hold" /\ upto[bh[p]]) \/ pc'[p] = "release"
    BY <1>1, <1>3 DEF Read, Goto, BufType
  <2>2. \A b \in Bufs : ~OwnsLock(p, b)'
    BY <2>1 DEF OwnsLock, InRequest
  <2> QED
    BY <1>1, <2>1, <2>2, QuietData DEF buf
<1>4. CASE Got(p)
  <2>1. /\ pc[p] = "got" /\ bh[p] \in Bufs /\ ~lock[bh[p]] /\ blk[bh[p]] # NoBlock
        /\ UNCHANGED <<blk, slot>>
    BY <1>1, <1>4 DEF Got, At, GotOK, Backed, Holds, IInv, HasBuf
  <2>2. CASE Return(p) /\ UNCHANGED <<rw, upto, dirt, data, disk>>
    <3>1. pc'[p] \in {"scan", "user", "rewait", "read", "find"}
      BY <1>1, <2>1, <2>2, ReturnOK
    <3> QED
      BY <1>1, <2>1, <2>2, <3>1, IdleData DEF InRequest
  <2>3. CASE Goto(p, "lock") /\ UNCHANGED <<upto, dirt, data, disk>>
    <3>1. pc'[p] = "lock"
      BY <1>1, <2>3 DEF Goto, BufType
    <3> QED
      BY <1>1, <2>1, <2>3, <3>1, IdleData DEF InRequest
  <2>4. CASE Goto(p, "hold") /\ upto[bh[p]] /\ UNCHANGED <<bh, upto, dirt, data, disk>>
    <3>1. pc'[p] = "hold"
      BY <1>1, <2>4 DEF Goto, BufType
    <3>2. \A b \in Bufs : ~OwnsLock(p, b)'
      BY <3>1 DEF OwnsLock, InRequest
    <3> QED
      BY <1>1, <2>1, <2>4, <3>1, <3>2, QuietData
  <2>5. CASE /\ data' = [data EXCEPT ![bh[p]] = TRUE]
             /\ disk' = [disk EXCEPT ![blk[bh[p]]] = FALSE]
             /\ upto' = [upto EXCEPT ![bh[p]] = TRUE]
             /\ dirt' = [dirt EXCEPT ![bh[p]] = TRUE]
             /\ Goto(p, "release")
             /\ UNCHANGED <<rw, bh>>
    <3>1. pc'[p] = "release"
      BY <1>1, <2>5 DEF Goto, BufType
    <3> QED
      BY <1>1, <2>1, <2>5, <3>1, DirtyData
  <2> QED
    BY <1>1, <1>4, <2>2, <2>3, <2>4, <2>5 DEF Got
<1>5. CASE Change(p) \/ MarkDirty(p) \/ Copy(p)
  <2>1. /\ pc[p] \in {"hold", "copy"} /\ UNCHANGED <<bh, blk, slot, rw, upto>>
        /\ \E l \in {"copy", "release"} : Goto(p, l)
        /\ \/ UNCHANGED <<data, disk>>
           \/ /\ data' = [data EXCEPT ![bh[p]] = TRUE]
              /\ disk' = [disk EXCEPT ![blk[bh[p]]] = FALSE]
    BY <1>5 DEF Change, MarkDirty, Copy, At, Modify
  <2>2. Holds(p, bh[p]) /\ bh[p] \in Bufs /\ blk[bh[p]] # NoBlock
    BY <1>1, <2>1, HeldIn DEF Holds, Backed
  <2>3. upto[bh[p]] /\ (pc[p] = "copy" => dirt[bh[p]])
    BY <2>1 DEF DInv
  <2>4. dirt' = [dirt EXCEPT ![bh[p]] = TRUE]
    <3>1. CASE Change(p) \/ MarkDirty(p)
      BY <3>1 DEF Change, MarkDirty
    <3>2. CASE Copy(p)
      <4>1. dirt[bh[p]] = TRUE
        BY <1>1, <2>2, <2>3, <3>2 DEF Copy, At, BufType
      <4>2. (dirt[bh[p]] \/ op[p] = "block_write") = TRUE
        BY <4>1
      <4>3. dirt' = [dirt EXCEPT ![bh[p]] = dirt[bh[p]] \/ op[p] = "block_write"]
        BY <3>2 DEF Copy
      <4> QED
        BY <4>2, <4>3
    <3> QED
      BY <1>5, <3>1, <3>2
  <2>5. pc'[p] \in {"copy", "release"}
    BY <1>1, <2>1 DEF Goto, BufType
  <2> QED
    BY <1>1, <2>1, <2>2, <2>3, <2>4, <2>5, DirtyData
<1> QED
  BY <1>2, <1>3, <1>4, <1>5

LEMMA OtherData ==
    ASSUME CarefulUse, BookInv, DInv, NEW p \in Procs,
           \/ Scan(p) \/ Leave(p) \/ Start(p) \/ SleepOnBuffer(p) \/ HoldAsleep(p) \/ PageFault(p)
    PROVE  DInv'
<1>1. /\ Types /\ BufType /\ Alone(p) /\ Control(p)
      /\ op[p] \notin {"block_write", "invalidate"}
  BY MovesPlace DEF BookInv, PInv, Types, BufType, Moves, Run, CarefulUse
<1>2. CASE Scan(p)
  <2>1. /\ UNCHANGED <<upto, dirt, data, disk, slot, blk>>
        /\ Goto(p, "lock") \/ GoOnScan(p)
    BY <1>1, <1>2 DEF Scan
  <2>2. pc'[p] \in {"lock", "scan", "user", "rewait"}
    BY <1>1, <2>1, ScanFromOK DEF GoOnScan, Goto, BufType
  <2> QED
    BY <1>1, <2>1, <2>2, IdleData DEF InRequest
<1>3. CASE Start(p)
  <2>1. UNCHANGED <<upto, dirt, data, disk, slot, blk>>
    BY <1>3 DEF Start, StartBlock, StartScan, buf
  <2>2. pc'[p] \in {"find", "scan", "user", "rewait"}
    BY <1>1, <1>3, ScanFromOK DEF Start, StartBlock, StartScan, Goto, BufType
  <2> QED
    BY <1>1, <2>1, <2>2, IdleData DEF InRequest
<1>4. CASE Leave(p)
  <2>1. UNCHANGED <<upto, dirt, data, disk, slot, blk>> /\ pc'[p] = "user"
    BY <1>4 DEF Leave, buf
  <2> QED
    BY <1>1, <2>1, IdleData DEF InRequest
<1>5. CASE SleepOnBuffer(p) \/ HoldAsleep(p) \/ PageFault(p)
  <2>1. UNCHANGED <<proc, buf, disk, slot>>
    BY <1>5 DEF SleepOnBuffer, HoldAsleep, PageFault
  <2>2. \A b \in Bufs : OwnsLock(p, b)' <=> OwnsLock(p, b)
    BY <2>1 DEF OwnsLock, Target, proc
  <2>3. \A b \in Bufs : OwnsLock(p, b)' => (upto[b] <=> rw'[p] = "write")
    BY <2>1, <2>2 DEF DInv, proc
  <2>4. /\ pc'[p] \in {"hold", "copy"} => upto[bh'[p]]
        /\ pc'[p] = "copy" => dirt[bh'[p]]
    BY <2>1 DEF DInv, proc
  <2> QED
    BY <1>1, <2>1, <2>3, <2>4, QuietData DEF buf
<1> QED
  BY <1>2, <1>3, <1>4, <1>5

\* The buffer of a request is locked for it alone.
LEMMA OnlyRequest ==
    ASSUME LockOwner, NEW s \in Slots, NEW b \in Bufs, slot[s].b = b
    PROVE  /\ \A p \in Procs : ~OwnsLock(p, b)
           /\ \A t \in Slots \ {s} : slot[t].b # b
<1> DEFINE O == {q \in Procs : OwnsLock(q, b)}
           R == {t \in Slots : slot[t].b = b}
           T == R \ {s}
<1>1. /\ O \in SUBSET Procs /\ R \in SUBSET Slots /\ T \in SUBSET Slots
      /\ s \in R /\ s \notin T /\ R \ {s} = T \ {s}
  OBVIOUS
<1>2. Cardinality(O) + Cardinality(R) = Locked(b)
  BY DEF LockOwner, OwnsLock, Locked
<1> SUFFICES O = {} /\ T = {}
  OBVIOUS
<1> HIDE DEF O, R, T
<1>3. IsFiniteSet(O) /\ IsFiniteSet(T)
  BY <1>1, ProcsAssumption, SlotsFinite, FS_Subset
<1>4. /\ Cardinality(R) \in Nat /\ Cardinality(T) \in Nat
      /\ Cardinality(R) - 1 = Cardinality(T) - 0
  BY <1>1, SlotsFinite, CardChange
<1>5. Cardinality(O) \in Nat
  BY <1>3, FS_CardinalityType
<1>6. Cardinality(O) = 0 /\ Cardinality(T) = 0
  BY <1>2, <1>4, <1>5 DEF Locked
<1> QED
  BY <1>3, <1>6, FS_EmptySet

LEMMA EndRequestData ==
    ASSUME CarefulUse, BookInv, DInv, NEW s \in Slots, NEW ok \in BOOLEAN, EndRequest(s, ok)
    PROVE  DInv'
<1> DEFINE b == slot[s].b
<1>1. /\ Types /\ BlocksThere /\ UniqueBlock /\ LockOwner
      /\ slot[s] # NoReq
      /\ pc' = [p \in Procs |-> IF pc[p] = "noslot" THEN "late" ELSE pc[p]]
      /\ upto' = [upto EXCEPT ![b] = ok]
      /\ data' = IF ok /\ slot[s].rw = "read"
                 THEN [data EXCEPT ![b] = disk[blk[b]]] ELSE data
      /\ \/ /\ ok /\ slot[s].rw = "write"
            /\ \E v \in {data[b], data[b] /\ ~dirt[b]} : disk' = [disk EXCEPT ![blk[b]] = v]
         \/ ~(ok /\ slot[s].rw = "write") /\ UNCHANGED disk
      /\ slot' = [slot EXCEPT ![s] = NoReq]
      /\ UNCHANGED <<bh, scan, rw, blk, dirt>>
      /\ ok \/ slot[s].rw = "read"
  BY DEF EndRequest, BookInv, PInv, IInv, CarefulUse, Types
<1>2. b \in Bufs /\ blk[b] \in Blocks /\ slot[s].rw \in {"read", "write"}
  BY <1>1 DEF Types, BufType, BlocksThere
<1>3. /\ \A p \in Procs : ~OwnsLock(p, b)
      /\ \A t \in Slots \ {s} : slot[t].b # b
  BY <1>1, <1>2, OnlyRequest
<1>4. upto[b] <=> slot[s].rw = "write"
  BY <1>1 DEF DInv
<1>5. upto[b] => upto'[b]
  BY <1>1, <1>2, <1>4 DEF Types
<1>6. \A c \in Bufs \ {b} : upto'[c] = upto[c] /\ data'[c] = data[c]
  BY <1>1, <1>2 DEF Types
<1>7. slot'[s] = NoReq /\ \A t \in Slots \ {s} : slot'[t] = slot[t]
  BY <1>1 DEF Types
\* A buffer that is read has nothing to lose, and its block is on the disk.
<1>8. slot[s].rw = "read" => ~Unwritten(b)
  <2> SUFFICES ASSUME slot[s].rw = "read", Unwritten(b) PROVE FALSE
    OBVIOUS
  <2>1. ~dirt[b]
    BY <1>2, <1>4 DEF DInv
  <2>2. PICK t \in Slots : slot[t] = [rw |-> "write", b |-> b]
    BY <2>1 DEF Unwritten
  <2>3. t # s
    BY <2>2
  <2> QED
    BY <1>3, <2>2, <2>3
<1>9. slot[s].rw = "read" => disk[blk[b]]
  <2> SUFFICES ASSUME ~disk[blk[b]] PROVE Unwritten(b)
    BY <1>8
  <2>1. PICK c \in Bufs : blk[c] = blk[b] /\ Unwritten(c)
    BY <1>2 DEF DInv, NothingLost
  <2>2. blk[b] # NoBlock
    BY <1>1 DEF BlocksThere
  <2>3. c = b
    BY <1>1, <1>2, <2>1, <2>2 DEF UniqueBlock
  <2> QED
    BY <2>1, <2>3
<1>10. slot[s].rw = "write" => data[b]
  BY <1>1, <1>2, <1>4 DEF DInv, NewestCached, BlocksThere
<1>11. upto'[b] => data'[b]
  BY <1>1, <1>2, <1>9, <1>10 DEF Types
<1> HIDE DEF b
<1>12. (\A c \in Bufs : dirt[c] => upto[c])'
  BY <1>1, <1>5, <1>6 DEF DInv
<1>13. (\A q \in Procs, c \in Bufs : OwnsLock(q, c) => (upto[c] <=> rw[q] = "write"))'
  <2> SUFFICES ASSUME NEW q \in Procs, NEW c \in Bufs, OwnsLock(q, c)'
               PROVE  upto'[c] <=> rw'[q] = "write"
    OBVIOUS
  <2>1. OwnsLock(q, c)
    BY <1>1 DEF OwnsLock, Target, InRequest
  <2> QED
    BY <1>1, <1>3, <1>6, <2>1 DEF DInv
<1>14. (\A t \in Slots : slot[t] # NoReq => (upto[slot[t].b] <=> slot[t].rw = "write"))'
  <2> SUFFICES ASSUME NEW t \in Slots, slot'[t] # NoReq
               PROVE  upto'[slot'[t].b] <=> slot'[t].rw = "write"
    OBVIOUS
  <2>1. t # s /\ slot'[t] = slot[t]
    BY <1>7
  <2>2. slot[t].b \in Bufs \ {b}
    BY <1>1, <1>3, <2>1 DEF Types
  <2> QED
    BY <1>6, <2>1, <2>2 DEF DInv
<1>15. /\ (\A q \in Procs : pc[q] \in {"hold", "copy"} => upto[bh[q]])'
       /\ (\A q \in Procs : pc[q] = "copy" => dirt[bh[q]])'
  <2> SUFFICES ASSUME NEW q \in Procs, pc'[q] \in {"hold", "copy"}
               PROVE  upto'[bh[q]] /\ (pc'[q] = "copy" => dirt[bh[q]])
    BY <1>1
  <2>1. pc[q] = pc'[q]
    BY <1>1
  <2>2. bh[q] \in Bufs
    BY <2>1, HeldIn DEF Holds, BookInv
  <2> QED
    BY <1>5, <1>6, <2>1, <2>2 DEF DInv
<1>16. NewestCached'
  BY <1>1, <1>6, <1>11 DEF DInv, NewestCached
<1>17. \A c \in Bufs \ {b} : Unwritten(c) => Unwritten(c)'
  <2> SUFFICES ASSUME NEW c \in Bufs \ {b}, ~dirt[c], Unwritten(c)
               PROVE  Unwritten(c)'
    BY <1>1 DEF Unwritten
  <2>1. PICK t \in Slots : slot[t] = [rw |-> "write", b |-> c]
    BY DEF Unwritten
  <2>2. t # s
    BY <2>1 DEF b
  <2> QED
    BY <1>7, <2>1, <2>2 DEF Unwritten
<1>18. \A x \in Blocks \ {blk[b]} : disk'[x] = disk[x]
  BY <1>1, <1>2 DEF Types
<1>19. disk'[blk[b]] \/ (data'[b] /\ dirt'[b])
  <2>1. CASE slot[s].rw = "read"
    BY <1>1, <1>9, <2>1
  <2>2. CASE slot[s].rw = "write" /\ ~dirt[b]
    BY <1>1, <1>2, <1>10, <2>2 DEF Types
  <2>3. CASE slot[s].rw = "write" /\ dirt[b]
    <3>1. data' = data /\ dirt' = dirt
      BY <1>1, <2>3
    <3> QED
      BY <1>10, <2>3, <3>1
  <2> QED
    BY <1>2, <2>1, <2>2, <2>3
<1>20. NothingLost'
  <2> SUFFICES ASSUME NEW x \in Blocks, ~disk'[x]
               PROVE  \E c \in Bufs : blk[c] = x /\ data'[c] /\ Unwritten(c)'
    BY <1>1 DEF NothingLost
  <2>1. CASE x = blk[b]
    BY <1>2, <1>19, <2>1 DEF Unwritten
  <2>2. CASE x # blk[b]
    <3>1. PICK c \in Bufs : blk[c] = x /\ data[c] /\ Unwritten(c)
      BY <1>18, <2>2 DEF DInv, NothingLost
    <3> QED
      BY <1>6, <1>17, <2>2, <3>1
  <2> QED
    BY <2>1, <2>2
<1> QED
  BY <1>12, <1>13, <1>14, <1>15, <1>16, <1>20 DEF DInv

LEMMA InitDInv == Init => DInv
BY DEF Init, DInv, OwnsLock, InRequest, NewestCached, NothingLost

LEMMA StutterData == ASSUME DInv, UNCHANGED vars PROVE DInv'
<1>1. UNCHANGED <<pc, bh, scan, rw, blk, dirt, upto, data, disk, slot>>
  BY DEF vars, proc, buf
<1>2. \A p \in Procs, b \in Bufs : OwnsLock(p, b)' <=> OwnsLock(p, b)
  BY <1>1 DEF OwnsLock, Target
<1>3. (\A p \in Procs, b \in Bufs : OwnsLock(p, b) => (upto[b] <=> rw[p] = "write"))'
  BY <1>1, <1>2 DEF DInv
<1>4. NewestCached' /\ NothingLost'
  BY <1>1 DEF DInv, NewestCached, NothingLost, Unwritten
<1> QED
  BY <1>1, <1>3, <1>4 DEF DInv

LEMMA NextDInv ==
    ASSUME CarefulUse, BookInv, DInv, NoWriteInCopy, [Next]_vars
    PROVE  DInv'
<1>1. CASE \E s \in Slots, ok \in BOOLEAN : EndRequest(s, ok)
  BY <1>1, EndRequestData
<1>2. ASSUME NEW p \in Procs, Moves(p) PROVE DInv'
  BY <1>2, GetblkData, ClaimData, RequestData, TakeSlotData, UserData, OtherData
     DEF Moves, Run
<1> QED
  BY <1>1, <1>2, StutterData DEF Next, Moves

(* What was written last is what bread() returns and what gets to the disk, *)
(* through any number of sleeps, read-aheads, syncs and changes made while *)
(* the buffer is being written.  Kept out are block_write(), which leaves  *)
(* its buffer dirty but not up to date, invalidate_buffers(), which drops  *)
(* what was not written, and a file_write() that sleeps between b_dirt = 1 *)
(* and the end of its copy while the buffer, which it has not locked, is   *)
(* written.                                                                *)
THEOREM DataStays == CarefulUse => (Spec /\ [][NoWriteInCopy]_vars => []DataKept)
<1>1. CASE CarefulUse
  <2>1. ASSUME BookInv, DInv, [Next]_vars, [NoWriteInCopy]_vars PROVE DInv'
    <3>1. CASE NoWriteInCopy
      BY <1>1, <2>1, <3>1, NextDInv
    <3>2. CASE UNCHANGED vars
      BY <2>1, <3>2, StutterData
    <3> QED
      BY <2>1, <3>1, <3>2
  <2>2. DInv => DataKept
    BY DEF DInv, DataKept
  <2> QED
    BY BookInvCorrect, InitDInv, <2>1, <2>2, PTL DEF Spec
<1>2. CASE ~CarefulUse
  BY <1>2
<1> QED
  BY <1>1, <1>2
=============================================================================
