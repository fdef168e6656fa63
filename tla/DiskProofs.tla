----------------------------- MODULE DiskProofs -----------------------------
(***************************************************************************)
(* The safety properties of the two disk drivers: of HardDisk for any      *)
(* number of requests, blocks, drives and errors, and behind them those of *)
(* Floppy, as an instance F that shares nothing with it, for any number of *)
(* requests, drives, tracks and errors and any times.                      *)
(*                                                                         *)
(* The invariant of HardDisk has two parts.  TableOK says of the requests  *)
(* how far each has got: its sectors up to `place' have been moved.        *)
(* ServingOK says of the handler that is set and the command the           *)
(* controller works on that they are those of CURRENT, so that an          *)
(* interrupt that finds the controller ready can only be the answer to     *)
(* that command: one that comes late finds it busy.                        *)
(*                                                                         *)
(* That of Floppy says that one thing at most drives the driver (Alone),   *)
(* that the drive that is selected is the one of the request (Right), and  *)
(* that its motor stays on for the ticks that are left until the transfer  *)
(* ends (Turns, Lasts), whatever floppy_change() does meanwhile.           *)
(***************************************************************************)
EXTENDS HardDisk, FiniteSetTheorems, SequenceTheorems, TLAPS

Record == [cmd : {"none", "read", "write"}, page : BOOLEAN, first : Nat, sector : Nat,
           nr_sectors : Nat, place : Nat, errors : 0..MaxErrors - 1, right : SUBSET Nat]

\* What is behind `place' is done, what is before it is left.
Progress(r) ==
    r.cmd # "none" =>
        /\ r.sector = r.first + r.place
        /\ r.nr_sectors > 0 /\ r.place + r.nr_sectors = Sectors(r)
        /\ 0..r.place - 1 \subseteq r.right /\ r.right \subseteq 0..Sectors(r) - 1

\* The list is that of the requests that are used, each once.
Listed(q, t) ==
    /\ q \in Seq(Slots)
    /\ \A i, j \in 1..Len(q) : q[i] = q[j] => i = j
    /\ \A s \in Slots : t[s].cmd # "none" <=> \E i \in 1..Len(q) : q[i] = s

TableOK ==
    /\ slot \in [Slots -> Record]
    /\ Listed(queue, slot)
    /\ \A s \in Slots : Progress(slot[s])

ControlOK ==
    /\ pc \in {"idle", "start", "drq", "panic"}
    /\ do_hd \in {"none", "read_intr", "write_intr", "recal_intr", "reset_hd"}
    /\ hd_timeout \in BOOLEAN /\ reset \in BOOLEAN /\ recalibrate \in BOOLEAN /\ irq \in BOOLEAN
    /\ ghost \in BOOLEAN /\ unit \in 0..NrHd
    /\ drive \in [cmd : {"none", "read", "write", "restore", "specify"}, at : Nat, place : Nat,
                  busy : BOOLEAN, ok : BOOLEAN]

ServingOK ==
    /\ pc = "idle" /\ do_hd \in {"read_intr", "write_intr", "recal_intr"} => queue # <<>>
    /\ pc = "idle" /\ do_hd = "read_intr" => drive.cmd = "read" /\ drive.at = CURRENT.sector
    /\ pc = "idle" /\ do_hd = "write_intr" =>
          /\ drive.cmd = "write" /\ drive.at = CURRENT.sector /\ drive.place = CURRENT.place
          /\ ~drive.busy /\ drive.ok => CURRENT.place \in CURRENT.right
    /\ pc = "drq" =>
          /\ queue # <<>> /\ hd_timeout /\ do_hd = "write_intr"
          /\ drive.cmd = "write" /\ drive.at = CURRENT.sector
    /\ pc # "idle" /\ do_hd = "write_intr" => ~drive.busy

\* A controller that is reset answers, and with no request left nothing but its
\* answer is expected.
ResettingOK ==
    Risks = {} =>
        /\ do_hd = "reset_hd" => drive.cmd = "specify"
        /\ drive.cmd = "specify" /\ ~drive.busy => drive.ok
        /\ pc = "idle" /\ do_hd = "reset_hd" /\ queue = <<>> /\ irq => ~drive.busy
        /\ ghost = FALSE

IInv == TableOK /\ ControlOK /\ ServingOK /\ ResettingOK /\ Watched /\ short = FALSE

----------------------------------------------------------------------------
(* The list and the table                                                  *)

LEMMA ConstantTypes ==
    /\ NSlots \in Nat \ {0} /\ MaxErrors \in Nat \ {0} /\ PageSectors \in Nat \ {0}
    /\ NrHd \in Nat \ {0} /\ Size \in Nat \ {0}
    /\ Blocks \subseteq Nat /\ Pages \subseteq Nat
<1>1. \A n \in 0..Size : 2 * n \in Nat
  BY SizesAssumption
<1> QED  BY <1>1, SizesAssumption, FirstsAssumption

LEMMA FreeRecord == Free \in Record /\ Progress(Free) /\ Free.cmd = "none"
BY ConstantTypes DEF Free, Record, Progress

\* The head of the list is a request that is used.
LEMMA HeadUsed ==
    ASSUME TableOK, queue # <<>>
    PROVE  /\ Head(queue) \in Slots /\ CURRENT \in Record /\ Progress(CURRENT)
           /\ CURRENT.cmd # "none" /\ Head(queue) = queue[1] /\ Len(queue) \in Nat \ {0}
<1>1. Len(queue) \in Nat \ {0} /\ Head(queue) = queue[1] /\ queue[1] \in Slots
  BY EmptySeq, HeadTailProperties, ElementOfSeq DEF TableOK, Listed
<1> QED  BY <1>1 DEF TableOK, Listed, CURRENT

\* end_request() takes the head off.
LEMMA TailListed ==
    ASSUME TableOK, queue # <<>>
    PROVE  Listed(Tail(queue), [slot EXCEPT ![Head(queue)] = Free])
<1> DEFINE q == Tail(queue)
<1>1. /\ q \in Seq(Slots) /\ Len(q) = Len(queue) - 1
      /\ \A i \in 1..Len(q) : q[i] = queue[i + 1]
  BY HeadTailProperties DEF TableOK, Listed
<1>2. Head(queue) = queue[1] /\ Head(queue) \in Slots /\ Len(queue) \in Nat \ {0}
  BY HeadUsed
<1>3. \A i, j \in 1..Len(q) : q[i] = q[j] => i = j
  <2> SUFFICES ASSUME NEW i \in 1..Len(q), NEW j \in 1..Len(q), q[i] = q[j] PROVE i = j
    OBVIOUS
  <2>1. i + 1 \in 1..Len(queue) /\ j + 1 \in 1..Len(queue)  BY <1>1, <1>2
  <2>2. queue[i + 1] = queue[j + 1]  BY <1>1
  <2>3. i + 1 = j + 1  BY <2>1, <2>2 DEF TableOK, Listed
  <2> QED  BY <2>3, <1>1
<1>4. ASSUME NEW s \in Slots
      PROVE  [slot EXCEPT ![Head(queue)] = Free][s].cmd # "none" <=> \E i \in 1..Len(q) : q[i] = s
  <2>1. CASE s = Head(queue)
    <3>1. \A i \in 1..Len(q) : q[i] # s
      <4> SUFFICES ASSUME NEW i \in 1..Len(q), q[i] = s PROVE FALSE
        OBVIOUS
      <4>1. queue[i + 1] = queue[1] /\ i + 1 \in 1..Len(queue) /\ 1 \in 1..Len(queue)
        BY <1>1, <1>2, <2>1
      <4>2. i + 1 = 1  BY <4>1 DEF TableOK, Listed
      <4> QED  BY <4>2
    <3> QED  BY <3>1, <2>1, FreeRecord DEF TableOK
  <2>2. CASE s # Head(queue)
    <3>1. [slot EXCEPT ![Head(queue)] = Free][s] = slot[s]
      BY <2>2 DEF TableOK
    <3>2. ASSUME NEW i \in 1..Len(queue), queue[i] = s PROVE \E j \in 1..Len(q) : q[j] = s
      <4>1. i # 1  BY <3>2, <2>2, <1>2
      <4>2. i - 1 \in 1..Len(q) /\ q[i - 1] = s  BY <4>1, <3>2, <1>1, <1>2
      <4> QED  BY <4>2
    <3>3. ASSUME NEW i \in 1..Len(q), q[i] = s PROVE \E j \in 1..Len(queue) : queue[j] = s
      BY <3>3, <1>1, <1>2
    <3> QED  BY <3>1, <3>2, <3>3 DEF TableOK, Listed
  <2> QED  BY <2>1, <2>2
<1> QED  BY <1>1, <1>3, <1>4 DEF Listed

LEMMA EndRequestKeeps ==
    ASSUME TableOK, queue # <<>>, NEW u \in BOOLEAN, NEW r, EndRequest(u, r)
    PROVE  TableOK'
<1>1. Listed(queue', slot')  BY TailListed DEF EndRequest
<1>2. slot' \in [Slots -> Record] /\ \A s \in Slots : Progress(slot'[s])
  BY FreeRecord, HeadUsed DEF EndRequest, TableOK
<1> QED  BY <1>1, <1>2 DEF TableOK, Listed

LEMMA ChangeKeeps ==
    ASSUME TableOK, queue # <<>>, NEW r \in Record, r.cmd # "none", Progress(r), Change(r)
    PROVE  TableOK' /\ CURRENT' = r
<1>1. Head(queue) \in Slots /\ CURRENT.cmd # "none"  BY HeadUsed
<1>2. slot' = [slot EXCEPT ![Head(queue)] = r] /\ queue' = queue  BY DEF Change
<1>3. slot' \in [Slots -> Record] /\ \A s \in Slots : Progress(slot'[s])
  BY <1>1, <1>2 DEF TableOK
<1>4. \A s \in Slots : slot'[s].cmd # "none" <=> slot[s].cmd # "none"
  BY <1>1, <1>2 DEF TableOK, CURRENT
<1>5. Listed(queue', slot')  BY <1>2, <1>4 DEF TableOK, Listed
<1> QED  BY <1>1, <1>2, <1>3, <1>5 DEF TableOK, Listed, CURRENT

LEMMA InsertAtIs ==
    ASSUME NEW q, NEW i, NEW e
    PROVE  InsertAt(q, i, e) = (SubSeq(q, 1, i - 1) \o <<e>>) \o SubSeq(q, i, Len(q))
BY DEF InsertAt

\* add_request() puts s somewhere behind the head.
LEMMA InsertListed ==
    ASSUME TableOK, queue # <<>>, NEW i \in 1..Len(queue), NEW s \in Slots, slot[s].cmd = "none",
           NEW r, r.cmd # "none"
    PROVE  /\ Listed(InsertAt(queue, i + 1, s), [slot EXCEPT ![s] = r])
           /\ InsertAt(queue, i + 1, s) # <<>>
           /\ Head(InsertAt(queue, i + 1, s)) = Head(queue)
<1> DEFINE q == InsertAt(queue, i + 1, s)
           n == Len(queue)
<1>1. n \in Nat \ {0} /\ queue \in Seq(Slots) /\ Head(queue) = queue[1]
  BY HeadUsed DEF TableOK, Listed
<1>2. /\ SubSeq(queue, 1, i) \in Seq(Slots) /\ Len(SubSeq(queue, 1, i)) = i
      /\ \A k \in 1..i : SubSeq(queue, 1, i)[k] = queue[k]
  BY <1>1, SubSeqProperties
<1>3. /\ SubSeq(queue, i + 1, n) \in Seq(Slots) /\ Len(SubSeq(queue, i + 1, n)) = n - i
      /\ \A k \in 1..n - i : SubSeq(queue, i + 1, n)[k] = queue[i + k]
  <2>1. i + 1 \in Nat /\ n \in Nat  BY <1>1
  <2> QED  BY <1>1, <2>1, SubSeqProperties
<1>4. <<s>> \in Seq(Slots) /\ Len(<<s>>) = 1 /\ <<s>>[1] = s
  OBVIOUS
<1>5. q = (SubSeq(queue, 1, i) \o <<s>>) \o SubSeq(queue, i + 1, n)
  <2>1. (i + 1) - 1 = i  BY <1>1
  <2>2. SubSeq(queue, 1, (i + 1) - 1) = SubSeq(queue, 1, i)  BY <2>1
  <2>3. InsertAt(queue, i + 1, s)
            = (SubSeq(queue, 1, (i + 1) - 1) \o <<s>>) \o SubSeq(queue, i + 1, Len(queue))
    BY InsertAtIs
  <2> QED  BY <2>2, <2>3
<1>6. /\ SubSeq(queue, 1, i) \o <<s>> \in Seq(Slots)
      /\ Len(SubSeq(queue, 1, i) \o <<s>>) = i + 1
      /\ \A k \in 1..i : (SubSeq(queue, 1, i) \o <<s>>)[k] = queue[k]
      /\ (SubSeq(queue, 1, i) \o <<s>>)[i + 1] = s
  <2> DEFINE a == SubSeq(queue, 1, i)
  <2>1. a \in Seq(Slots) /\ Len(a) = i /\ \A k \in 1..i : a[k] = queue[k]  BY <1>2
  <2> HIDE DEF a
  <2>2. /\ a \o <<s>> \in Seq(Slots) /\ Len(a \o <<s>>) = i + 1
        /\ \A k \in 1..i + 1 : (a \o <<s>>)[k] = IF k <= i THEN a[k] ELSE <<s>>[k - i]
    BY <2>1, <1>1, <1>4, ConcatProperties
  <2>3. (a \o <<s>>)[i + 1] = s
    <3>1. i + 1 \in 1..i + 1 /\ ~(i + 1 <= i) /\ i + 1 - i = 1  BY <1>1
    <3> QED  BY <3>1, <2>2, <1>4
  <2>4. \A k \in 1..i : (a \o <<s>>)[k] = queue[k]
    <3>1. \A k \in 1..i : k \in 1..i + 1 /\ k <= i  BY <1>1
    <3> QED  BY <3>1, <2>1, <2>2
  <2> QED  BY <2>2, <2>3, <2>4 DEF a
<1>7. /\ q \in Seq(Slots) /\ Len(q) = n + 1
      /\ \A k \in 1..i : q[k] = queue[k]
      /\ q[i + 1] = s
      /\ \A k \in i + 2..n + 1 : q[k] = queue[k - 1]
  <2> HIDE DEF q
  <2> DEFINE a == SubSeq(queue, 1, i) \o <<s>>
             b == SubSeq(queue, i + 1, n)
  <2>a. /\ a \in Seq(Slots) /\ Len(a) = i + 1 /\ b \in Seq(Slots) /\ Len(b) = n - i /\ q = a \o b
        /\ \A k \in 1..n - i : b[k] = queue[i + k]
    BY <1>3, <1>5, <1>6
  <2> HIDE DEF a, b
  <2>b. /\ q \in Seq(Slots) /\ Len(q) = (i + 1) + (n - i)
        /\ \A k \in 1..(i + 1) + (n - i) : q[k] = IF k <= i + 1 THEN a[k] ELSE b[k - (i + 1)]
    <3>1. /\ a \o b \in Seq(Slots) /\ Len(a \o b) = Len(a) + Len(b)
          /\ \A k \in 1..Len(a) + Len(b) :
                (a \o b)[k] = IF k <= Len(a) THEN a[k] ELSE b[k - Len(a)]
      BY <2>a, ConcatProperties
    <3> QED  BY <3>1, <2>a
  <2>1. q \in Seq(Slots) /\ Len(q) = n + 1  BY <2>b, <1>1
  <2>2. \A k \in 1..i + 1 : q[k] = (SubSeq(queue, 1, i) \o <<s>>)[k]
    <3>1. \A k \in 1..i + 1 : k \in 1..(i + 1) + (n - i) /\ k <= i + 1  BY <1>1
    <3> QED  BY <3>1, <2>b DEF a
  <2>3. ASSUME NEW k \in i + 2..n + 1 PROVE q[k] = queue[k - 1]
    <3>1. /\ k - (i + 1) \in 1..n - i /\ i + (k - (i + 1)) = k - 1
          /\ k \in 1..(i + 1) + (n - i) /\ ~(k <= i + 1)
      BY <1>1
    <3> QED  BY <3>1, <2>a, <2>b
  <2>4. i + 1 \in 1..i + 1 /\ \A k \in 1..i : k \in 1..i + 1  BY <1>1
  <2> QED  BY <2>1, <2>2, <2>3, <2>4, <1>6
<1> HIDE DEF q
<1>8. \A k \in 1..n : queue[k] # s
  BY DEF TableOK, Listed
<1>9. ASSUME NEW j \in 1..Len(q), NEW k \in 1..Len(q), q[j] = q[k] PROVE j = k
  <2> DEFINE Old(m) == IF m <= i THEN m ELSE m - 1
  <2>1. ASSUME NEW m \in 1..Len(q), m # i + 1 PROVE Old(m) \in 1..n /\ q[m] = queue[Old(m)]
    <3>1. CASE m <= i  BY <3>1, <1>1, <1>7
    <3>2. CASE m > i + 1
      <4>1. m \in i + 2..n + 1 /\ ~(m <= i) /\ m - 1 \in 1..n  BY <3>2, <1>1, <1>7
      <4> QED  BY <4>1, <1>7
    <3> QED  BY <3>1, <3>2, <2>1, <1>1, <1>7
  <2>2. CASE j # i + 1 /\ k # i + 1
    <3>1. Old(j) = Old(k)
      <4>1. /\ Old(j) \in 1..n /\ q[j] = queue[Old(j)]
            /\ Old(k) \in 1..n /\ q[k] = queue[Old(k)]
        BY <2>1, <2>2
      <4>2. \A l, m \in 1..n : queue[l] = queue[m] => l = m  BY DEF TableOK, Listed
      <4> HIDE DEF Old, n
      <4> QED  BY <4>1, <4>2, <1>9
    <3> QED  BY <3>1, <2>2, <1>1, <1>7
  <2>3. CASE j = i + 1 \/ k = i + 1
    BY <2>1, <2>3, <1>7, <1>8, <1>9
  <2> QED  BY <2>2, <2>3
<1>10. ASSUME NEW t \in Slots
       PROVE  [slot EXCEPT ![s] = r][t].cmd # "none" <=> \E k \in 1..Len(q) : q[k] = t
  <2>1. i + 1 \in 1..Len(q)  BY <1>1, <1>7
  <2>2. CASE t = s
    BY <2>1, <2>2, <1>7 DEF TableOK
  <2>3. CASE t # s
    <3>1. [slot EXCEPT ![s] = r][t] = slot[t]  BY <2>3 DEF TableOK
    <3>2. ASSUME NEW k \in 1..n, queue[k] = t PROVE \E m \in 1..Len(q) : q[m] = t
      <4>1. CASE k <= i  BY <4>1, <3>2, <1>1, <1>7
      <4>2. CASE k > i
        <5>1. k + 1 \in i + 2..n + 1 /\ k + 1 \in 1..Len(q) /\ (k + 1) - 1 = k  BY <4>2, <1>1, <1>7
        <5> QED  BY <5>1, <3>2, <1>7
      <4> QED  BY <4>1, <4>2, <1>1
    <3>3. ASSUME NEW m \in 1..Len(q), q[m] = t PROVE \E k \in 1..n : queue[k] = t
      <4>1. CASE m <= i  BY <4>1, <3>3, <1>1, <1>7
      <4>2. CASE m = i + 1  BY <4>2, <3>3, <2>3, <1>7
      <4>3. CASE m > i + 1
        <5>1. m \in i + 2..n + 1 /\ m - 1 \in 1..n  BY <4>3, <1>1, <1>7
        <5> QED  BY <5>1, <3>3, <1>7
      <4> QED  BY <4>1, <4>2, <4>3, <1>1, <1>7
    <3> QED  BY <3>1, <3>2, <3>3 DEF TableOK, Listed
  <2> QED  BY <2>2, <2>3
<1>11. q # <<>> /\ Head(q) = q[1] /\ q[1] = queue[1]
  <2>1. q # <<>>  BY <1>1, <1>7, EmptySeq
  <2>2. 1 \in 1..i  BY <1>1
  <2> QED  BY <2>1, <2>2, <1>7, HeadTailProperties
<1> QED  BY <1>1, <1>7, <1>9, <1>10, <1>11 DEF Listed, q

\* bad_rw_intr() counts the error or ends the request, and the controller is reset
\* if that was the last one.
LEMMA BadRwKeeps ==
    ASSUME TableOK, queue # <<>>, short = FALSE, NEW again \in BOOLEAN, BadRw(again)
    PROVE  /\ TableOK' /\ reset' \in BOOLEAN /\ ghost' = ghost /\ short' = FALSE
           /\ queue' = <<>> => reset'
<1> DEFINE r == [CURRENT EXCEPT !.errors = @ + 1]
<1>1. CURRENT \in Record /\ Progress(CURRENT) /\ CURRENT.cmd # "none" /\ Len(queue) \in Nat \ {0}
  BY HeadUsed
<1>2. ghost' = ghost  BY DEF BadRw
<1>3. CASE r.errors >= MaxErrors
  <2>1. EndRequest(FALSE, r)
        /\ reset' = (again \/ Len(queue) = 1 \/ slot[queue[2]].errors > MaxErrors \div 2)
    BY <1>3 DEF BadRw
  <2>2. TableOK'  BY <2>1, EndRequestKeeps
  <2>3. short' = FALSE  BY <2>1 DEF EndRequest
  <2>4. queue' = <<>> => Len(queue) = 1
    <3>1. queue' = Tail(queue)  BY <2>1 DEF EndRequest
    <3>2. Len(Tail(queue)) = Len(queue) - 1  BY HeadTailProperties DEF TableOK, Listed
    <3>3. Len(<<>>) = 0  BY EmptySeq
    <3> QED  BY <3>1, <3>2, <3>3, <1>1
  <2> QED  BY <1>2, <2>1, <2>2, <2>3, <2>4
<1>4. CASE ~(r.errors >= MaxErrors)
  <2>1. Change(r) /\ reset' = (again \/ r.errors > MaxErrors \div 2)  BY <1>4 DEF BadRw
  <2>2. r \in Record /\ r.cmd # "none" /\ Progress(r)
    <3>1. CURRENT.errors \in 0..MaxErrors - 1 /\ CURRENT.errors + 1 \in 0..MaxErrors - 1
      BY <1>1, <1>4, ConstantTypes DEF Record
    <3>2. r \in Record  BY <1>1, <3>1 DEF Record
    <3>3. /\ r.cmd = CURRENT.cmd /\ r.page = CURRENT.page /\ r.first = CURRENT.first
          /\ r.sector = CURRENT.sector /\ r.nr_sectors = CURRENT.nr_sectors
          /\ r.place = CURRENT.place /\ r.right = CURRENT.right
      BY <1>1 DEF Record
    <3> QED  BY <1>1, <3>2, <3>3 DEF Progress, Sectors
  <2>3. TableOK'  BY <2>1, <2>2, ChangeKeeps
  <2>4. short' = FALSE /\ queue' = queue  BY <2>1 DEF Change
  <2> QED  BY <1>2, <2>1, <2>3, <2>4
<1> QED  BY <1>3, <1>4

----------------------------------------------------------------------------
(* The steps                                                               *)

LEMMA InitIInv == Init => IInv
<1> SUFFICES ASSUME Init PROVE IInv
  OBVIOUS
<1>1. TableOK
  <2>1. slot \in [Slots -> Record] /\ \A s \in Slots : Progress(slot[s]) /\ slot[s].cmd = "none"
    BY FreeRecord DEF Init
  <2>2. queue = <<>> /\ queue \in Seq(Slots) /\ Len(queue) = 0  BY EmptySeq DEF Init
  <2> QED  BY <2>1, <2>2 DEF TableOK, Listed
<1>2. ControlOK
  <2>1. drive \in [cmd : {"none", "read", "write", "restore", "specify"}, at : Nat, place : Nat,
                   busy : BOOLEAN, ok : BOOLEAN]
    BY DEF Init, NoCommand
  <2>2. unit \in 0..NrHd  BY ConstantTypes DEF Init
  <2> QED  BY <2>1, <2>2 DEF Init, ControlOK
<1>3. ServingOK /\ ResettingOK /\ Watched /\ short = FALSE
  BY DEF Init, ServingOK, ResettingOK, Watched, NoCommand
<1> QED  BY <1>1, <1>2, <1>3 DEF IInv

LEMMA RequestsOK ==
    ASSUME NEW r \in Requests
    PROVE  r \in Record /\ r.cmd # "none" /\ Progress(r)
<1>1. Free.place = 0 /\ Free.right = {} /\ ~Free.page /\ Free \in Record
  BY FreeRecord DEF Free
<1>2. ASSUME NEW c \in {"read", "write"}, NEW f \in Nat, NEW q, q = Request(c, f)
      PROVE  q \in Record /\ q.cmd = c /\ Progress(q) /\ q.first = f /\ q.sector = f
             /\ q.place = 0 /\ q.right = {}
  <2>1. q = [Free EXCEPT !.cmd = c, !.first = f, !.sector = f, !.nr_sectors = 2]
    BY <1>2 DEF Request
  <2>2. q \in Record /\ q.cmd = c /\ q.first = f /\ q.sector = f /\ q.nr_sectors = 2
        /\ q.place = 0 /\ q.right = {} /\ ~q.page
    BY <1>1, <2>1 DEF Record
  <2> QED  BY <2>2 DEF Progress, Sectors
<1>3. ASSUME NEW c \in {"read", "write"}, NEW f \in Nat, NEW q, q = PageRequest(c, f)
      PROVE  q \in Record /\ q.cmd = c /\ Progress(q)
  <2> DEFINE b == Request(c, f)
  <2>1. q = [b EXCEPT !.page = TRUE, !.nr_sectors = PageSectors]  BY <1>3 DEF PageRequest
  <2>2. b \in Record /\ b.cmd = c /\ b.first = f /\ b.sector = f /\ b.place = 0 /\ b.right = {}
    BY <1>2
  <2> HIDE DEF b
  <2>3. q \in Record /\ q.cmd = c /\ q.first = f /\ q.sector = f /\ q.nr_sectors = PageSectors
        /\ q.place = 0 /\ q.right = {} /\ q.page
    BY <2>1, <2>2, ConstantTypes DEF Record
  <2> QED  BY <2>3, ConstantTypes DEF Progress, Sectors
<1>4. CASE \E c \in Wants \ {"swap"}, f \in Blocks : r = Request(c, f)
  BY <1>4, <1>2, ConstantTypes, WantsAssumption
<1>5. CASE \E c \in {"read", "write"}, f \in Pages : r = PageRequest(c, f)
  BY <1>5, <1>3, ConstantTypes
<1> QED  BY <1>4, <1>5 DEF Requests

LEMMA AddKeeps ==
    ASSUME IInv, NEW r \in Requests, Add(r)
    PROVE  IInv'
<1>1. r \in Record /\ r.cmd # "none" /\ Progress(r)  BY RequestsOK
<1>2. PICK s \in 1..LastFor(r) :
        slot[s].cmd = "none" /\ slot' = [slot EXCEPT ![s] = r] /\ Place(s, r)
  BY DEF Add
<1>3. s \in Slots
  BY <1>2, ConstantTypes DEF LastFor, Slots
<1>4. slot' \in [Slots -> Record] /\ \A t \in Slots : Progress(slot'[t])
  BY <1>1, <1>2, <1>3 DEF IInv, TableOK
<1>5. CASE queue = <<>>
  <2>1. queue' = <<s>> /\ pc' = "start"  BY <1>2, <1>5 DEF Place, Add
  <2>2. Listed(queue', slot')
    <3>1. <<s>> \in Seq(Slots) /\ Len(<<s>>) = 1 /\ <<s>>[1] = s  BY <1>3
    <3>2. \A t \in Slots : slot[t].cmd = "none"
      BY <1>5, EmptySeq DEF IInv, TableOK, Listed
    <3> QED  BY <2>1, <3>1, <3>2, <1>1, <1>2, <1>3 DEF Listed, IInv, TableOK
  <2>3. do_hd # "write_intr"
    BY <1>5 DEF IInv, ServingOK, Add
  <2>4. TableOK'  BY <1>4, <2>2 DEF TableOK, Listed
  <2> QED  BY <2>1, <2>3, <2>4 DEF IInv, ControlOK, ServingOK, ResettingOK, Watched, Add
<1>6. CASE queue # <<>>
  <2>1. PICK i \in 1..Len(queue) : queue' = InsertAt(queue, i + 1, s)
    BY <1>2, <1>6 DEF Place
  <2>2. Listed(queue', slot') /\ queue' # <<>> /\ Head(queue') = Head(queue)
    BY <1>1, <1>2, <1>3, <1>6, <2>1, InsertListed DEF IInv
  <2>3. CURRENT' = CURRENT
    <3>1. Head(queue) \in Slots /\ CURRENT.cmd # "none"  BY <1>6, HeadUsed DEF IInv
    <3> QED  BY <3>1, <2>2, <1>2, <1>3 DEF IInv, TableOK, CURRENT
  <2>4. TableOK'  BY <1>4, <2>2 DEF TableOK, Listed
  <2> QED  BY <1>6, <2>2, <2>3, <2>4 DEF IInv, ControlOK, ServingOK, ResettingOK, Watched, Add
<1> QED  BY <1>5, <1>6

LEMMA DoneKeeps ==
    ASSUME IInv, Done
    PROVE  IInv'
<1>1. PICK ok \in BOOLEAN :
        /\ ok \/ drive.cmd # "specify" \/ "specify" \in Risks
        /\ drive' = [drive EXCEPT !.busy = FALSE, !.ok = ok]
        /\ IF ok /\ drive.cmd = "write" /\ do_hd = "write_intr"
           THEN slot' = [slot EXCEPT ![Head(queue)].right =
                            IF drive.at = CURRENT.first + drive.place
                            THEN @ \cup {drive.place} ELSE @ \ {drive.place}]
           ELSE UNCHANGED slot
  BY DEF Done
<1>2. drive.busy /\ irq' = TRUE /\ UNCHANGED <<queue, pc, do_hd, hd_timeout, reset, recalibrate, unit, short, ghost>>
  BY DEF Done
<1>3. ControlOK'  BY <1>1, <1>2 DEF IInv, ControlOK
<1>4. Watched' /\ short' = FALSE  BY <1>2 DEF IInv, Watched
<1>5. ResettingOK'
  BY <1>1, <1>2 DEF IInv, ControlOK, ResettingOK
<1>6. CASE ok /\ drive.cmd = "write" /\ do_hd = "write_intr"
  <2>1. pc = "idle" /\ queue # <<>>
    BY <1>2, <1>6 DEF IInv, ServingOK, ControlOK
  <2>2. drive.at = CURRENT.sector /\ drive.place = CURRENT.place
    BY <2>1, <1>6 DEF IInv, ServingOK
  <2>3. /\ Head(queue) \in Slots /\ CURRENT \in Record /\ Progress(CURRENT)
        /\ CURRENT.cmd # "none"
    BY <2>1, HeadUsed DEF IInv
  <2> DEFINE r == [CURRENT EXCEPT !.right = @ \cup {CURRENT.place}]
  <2>4. slot' = [slot EXCEPT ![Head(queue)] = r]
    BY <1>1, <1>6, <2>2, <2>3 DEF Progress, CURRENT, IInv, TableOK
  <2>5. r \in Record /\ r.cmd # "none" /\ Progress(r)
    BY <2>3, ConstantTypes DEF Record, Progress, Sectors
  <2>6. Change(r)  BY <2>4, <1>2 DEF Change
  <2>7. TableOK' /\ CURRENT' = r  BY <2>1, <2>5, <2>6, ChangeKeeps DEF IInv
  <2>8. ServingOK'
    BY <1>1, <1>2, <1>6, <2>1, <2>2, <2>3, <2>7 DEF IInv, ServingOK, ControlOK, Record
  <2> QED  BY <1>3, <1>4, <1>5, <2>7, <2>8 DEF IInv
<1>7. CASE ~(ok /\ drive.cmd = "write" /\ do_hd = "write_intr")
  <2>1. slot' = slot  BY <1>1, <1>7
  <2>2. TableOK'  BY <2>1, <1>2 DEF IInv, TableOK, Listed
  <2>3. ServingOK'
    BY <1>1, <1>2, <1>7, <2>1 DEF IInv, ServingOK, ControlOK, CURRENT
  <2> QED  BY <1>3, <1>4, <1>5, <2>2, <2>3 DEF IInv
<1> QED  BY <1>6, <1>7

\* Steps that leave the requests alone.
LEMMA SameTable ==
    ASSUME TableOK, UNCHANGED <<slot, queue>>
    PROVE  TableOK' /\ CURRENT' = CURRENT
BY DEF TableOK, Listed, CURRENT

LEMMA HdOutType ==
    ASSUME ControlOK, NEW h \in {"read_intr", "write_intr", "recal_intr", "reset_hd"},
           NEW c \in {"read", "write", "restore", "specify"}, NEW a \in Nat, NEW b \in BOOLEAN,
           NEW l, HdOut(l, h, c, a, b), pc' # "panic"
    PROVE  /\ pc' = l /\ do_hd' = h /\ hd_timeout' = TRUE
           /\ drive' \in [cmd : {"none", "read", "write", "restore", "specify"}, at : Nat, place : Nat,
                          busy : BOOLEAN, ok : BOOLEAN]
           /\ drive'.cmd = c /\ drive'.at = a /\ (drive'.busy <=> b) /\ drive'.ok
<1>1. /\ pc' = l /\ do_hd' = h /\ hd_timeout' = TRUE
      /\ drive' = [cmd |-> c, at |-> a, place |-> 0, busy |-> b, ok |-> TRUE]
  BY DEF HdOut
<1> QED  BY <1>1

\* hd_out() has waited in vain.
LEMMA PanicKeeps ==
    ASSUME IInv, NEW l, NEW h, NEW c, NEW a, NEW b, HdOut(l, h, c, a, b), pc' = "panic",
           l # "panic", pc # "idle" \/ do_hd # "write_intr",
           TableOK', short' = FALSE, irq' \in BOOLEAN, reset' \in BOOLEAN,
           recalibrate' \in BOOLEAN, unit' \in 0..NrHd, ghost' \in BOOLEAN,
           Risks = {} => ghost' = FALSE
    PROVE  IInv'
<1>1. do_hd' = do_hd /\ hd_timeout' = hd_timeout /\ drive' = drive
  BY DEF HdOut
<1>2. ControlOK'
  BY <1>1 DEF IInv, ControlOK
<1>3. ServingOK' /\ ResettingOK' /\ Watched'
  BY <1>1 DEF IInv, ServingOK, ResettingOK, Watched
<1> QED  BY <1>2, <1>3 DEF IInv

LEMMA CodeKeeps ==
    ASSUME IInv, Code
    PROVE  IInv'
<1> USE DEF IInv
<1>1. CASE StartNone
  <2>1. TableOK' /\ CURRENT' = CURRENT  BY <1>1, SameTable DEF StartNone, Proceeds, Same
  <2> QED  BY <1>1, <2>1 DEF StartNone, Starting, Proceeds, Same, ControlOK, ServingOK, ResettingOK, Watched
<1>2. CASE StartBad
  <2>1. TableOK'  BY <1>2, EndRequestKeeps DEF StartBad
  <2>2. short' = FALSE  BY <1>2 DEF StartBad, EndRequest
  <2> QED  BY <1>2, <2>1, <2>2 DEF StartBad, Starting, ControlOK, ServingOK, ResettingOK, Watched
<1>3. CASE StartReset
  <2>1. TableOK' /\ CURRENT' = CURRENT  BY <1>3, SameTable DEF StartReset, Same
  <2>2. queue # <<>> /\ pc = "start" /\ queue' = queue /\ ghost' = ghost /\ short' = short
    BY <1>3 DEF StartReset, Startable, Starting, Same
  <2>3. unit' = 0 /\ HdOut("idle", "reset_hd", "specify", 0, TRUE)
    BY <1>3 DEF StartReset, ResetController
  <2>6. irq' \in BOOLEAN /\ reset' \in BOOLEAN /\ recalibrate' \in BOOLEAN
    BY <1>3 DEF StartReset, ControlOK
  <2>7. unit' \in 0..NrHd  BY <2>3, ConstantTypes
  <2>8. CASE pc' = "panic"
    BY <2>1, <2>2, <2>3, <2>6, <2>7, <2>8, PanicKeeps DEF ControlOK, ResettingOK
  <2> SUFFICES ASSUME pc' # "panic" PROVE IInv'
    BY <2>8
  <2>4. /\ pc' = "idle" /\ do_hd' = "reset_hd" /\ hd_timeout' = TRUE
        /\ drive' \in [cmd : {"none", "read", "write", "restore", "specify"}, at : Nat, place : Nat,
                       busy : BOOLEAN, ok : BOOLEAN]
        /\ drive'.cmd = "specify" /\ drive'.busy /\ drive'.ok
    BY <2>3, HdOutType
  <2>5. ControlOK'
    BY <2>2, <2>4, <2>6, <2>7 DEF ControlOK
  <2> QED  BY <2>1, <2>2, <2>4, <2>5 DEF ServingOK, ResettingOK, Watched
<1>4. CASE StartRecalibrate
  <2>1. TableOK' /\ CURRENT' = CURRENT  BY <1>4, SameTable DEF StartRecalibrate, Same
  <2>2. queue # <<>> /\ pc = "start" /\ queue' = queue /\ ghost' = ghost /\ short' = short
    BY <1>4 DEF StartRecalibrate, Startable, Starting, Same
  <2>3. HdOut("idle", "recal_intr", "restore", 0, TRUE)  BY <1>4 DEF StartRecalibrate
  <2>5. irq' \in BOOLEAN  BY <1>4 DEF StartRecalibrate, Awaited, ControlOK
  <2>7. CASE pc' = "panic"
    BY <1>4, <2>1, <2>2, <2>3, <2>5, <2>7, PanicKeeps DEF StartRecalibrate, ControlOK, ResettingOK
  <2> SUFFICES ASSUME pc' # "panic" PROVE IInv'
    BY <2>7
  <2>4. /\ pc' = "idle" /\ do_hd' = "recal_intr" /\ hd_timeout' = TRUE
        /\ drive' \in [cmd : {"none", "read", "write", "restore", "specify"}, at : Nat, place : Nat,
                       busy : BOOLEAN, ok : BOOLEAN]
        /\ drive'.cmd = "restore"
    BY <2>3, HdOutType
  <2>6. ControlOK'
    BY <1>4, <2>2, <2>4, <2>5 DEF StartRecalibrate, ControlOK
  <2> QED  BY <2>1, <2>2, <2>4, <2>6 DEF ServingOK, ResettingOK, Watched
<1>5. CASE StartTransfer
  <2>1. TableOK' /\ CURRENT' = CURRENT  BY <1>5, SameTable DEF StartTransfer, Same
  <2>2. queue # <<>> /\ pc = "start" /\ queue' = queue /\ ghost' = ghost /\ short' = short
    BY <1>5 DEF StartTransfer, Startable, Starting, Same
  <2>3. CURRENT \in Record  BY <2>2, HeadUsed
  <2>4. CURRENT.sector \in Nat  BY <2>3 DEF Record
  <2>5. irq' \in BOOLEAN  BY <1>5 DEF StartTransfer, Awaited, ControlOK
  <2>8. UNCHANGED <<reset, recalibrate, unit>>  BY <1>5 DEF StartTransfer
  <2>6. CASE CURRENT.cmd = "write"
    <3>1. HdOut("drq", "write_intr", "write", CURRENT.sector, FALSE)
      BY <1>5, <2>6 DEF StartTransfer
    <3>4. CASE pc' = "panic"
      BY <2>1, <2>2, <2>5, <2>8, <3>1, <3>4, PanicKeeps DEF ControlOK, ResettingOK
    <3> SUFFICES ASSUME pc' # "panic" PROVE IInv'
      BY <3>4
    <3>2. /\ pc' = "drq" /\ do_hd' = "write_intr" /\ hd_timeout' = TRUE
          /\ drive' \in [cmd : {"none", "read", "write", "restore", "specify"}, at : Nat, place : Nat,
                         busy : BOOLEAN, ok : BOOLEAN]
          /\ drive'.cmd = "write" /\ drive'.at = CURRENT.sector /\ ~drive'.busy
      BY <3>1, <2>4, HdOutType
    <3>3. ControlOK'  BY <2>2, <2>5, <2>8, <3>2 DEF ControlOK
    <3> QED  BY <2>1, <2>2, <3>2, <3>3 DEF ServingOK, ResettingOK, Watched
  <2>7. CASE CURRENT.cmd # "write"
    <3>1. HdOut("idle", "read_intr", "read", CURRENT.sector, TRUE)
      BY <1>5, <2>7 DEF StartTransfer
    <3>4. CASE pc' = "panic"
      BY <2>1, <2>2, <2>5, <2>8, <3>1, <3>4, PanicKeeps DEF ControlOK, ResettingOK
    <3> SUFFICES ASSUME pc' # "panic" PROVE IInv'
      BY <3>4
    <3>2. /\ pc' = "idle" /\ do_hd' = "read_intr" /\ hd_timeout' = TRUE
          /\ drive' \in [cmd : {"none", "read", "write", "restore", "specify"}, at : Nat, place : Nat,
                         busy : BOOLEAN, ok : BOOLEAN]
          /\ drive'.cmd = "read" /\ drive'.at = CURRENT.sector
      BY <3>1, <2>4, HdOutType
    <3>3. ControlOK'  BY <2>2, <2>5, <2>8, <3>2 DEF ControlOK
    <3> QED  BY <2>1, <2>2, <3>2, <3>3 DEF ServingOK, ResettingOK, Watched
  <2> QED  BY <2>6, <2>7
<1>6. CASE Drq
  <2>1. queue # <<>> /\ hd_timeout /\ do_hd = "write_intr" /\ pc = "drq"
        /\ drive.cmd = "write" /\ drive.at = CURRENT.sector /\ ~drive.busy
    BY <1>6 DEF Drq, ServingOK
  <2>2. CURRENT \in Record  BY <2>1, HeadUsed
  <2>3. CASE drive' = [drive EXCEPT !.place = CURRENT.place, !.busy = TRUE] /\ Proceeds("idle")
             /\ UNCHANGED reset
    <3>1. TableOK' /\ CURRENT' = CURRENT  BY <2>3, SameTable DEF Proceeds, Same
    <3>2. /\ drive' \in [cmd : {"none", "read", "write", "restore", "specify"}, at : Nat, place : Nat,
                         busy : BOOLEAN, ok : BOOLEAN]
          /\ drive'.cmd = "write" /\ drive'.at = CURRENT.sector /\ drive'.busy
          /\ drive'.place = CURRENT.place
      BY <2>1, <2>2, <2>3 DEF ControlOK, Record
    <3> QED  BY <1>6, <2>1, <2>3, <3>1, <3>2
             DEF Drq, Proceeds, Same, ControlOK, ServingOK, ResettingOK, Watched
  <2>4. CASE BadRw(reset) /\ pc' = "start" /\ UNCHANGED drive
    <3>1. TableOK' /\ reset' \in BOOLEAN /\ ghost' = ghost /\ short' = FALSE
      BY <2>1, <2>4, BadRwKeeps DEF ControlOK
    <3> QED  BY <1>6, <2>1, <2>4, <3>1 DEF Drq, ControlOK, ServingOK, ResettingOK, Watched
  <2> QED  BY <1>6, <2>3, <2>4 DEF Drq
<1> QED  BY <1>1, <1>2, <1>3, <1>4, <1>5, <1>6 DEF Code

\* r is CURRENT with one sector more done.
LEMMA AfterSectorKeeps ==
    ASSUME IInv, queue # <<>>, pc = "idle", do_hd \in {"read_intr", "write_intr"},
           ~drive.busy, drive.ok,
           NEW r \in [cmd : {"none", "read", "write"}, page : BOOLEAN, first : Nat, sector : Nat,
                      nr_sectors : Nat, place : Nat, errors : 0..MaxErrors - 1, right : SUBSET Nat],
           r.nr_sectors > 0 => r.cmd # "none" /\ Progress(r) /\ r.sector = drive.at + 1,
           r.nr_sectors = 0 => r.right = 0..Sectors(r) - 1,
           AfterSector(r, do_hd),
           irq' = FALSE, UNCHANGED <<reset, recalibrate, unit, ghost>>
    PROVE  IInv'
<1> USE DEF IInv
<1>1. CASE r.nr_sectors > 0
  <2>1. Change(r) /\ do_hd' = do_hd /\ hd_timeout' = TRUE /\ pc' = "idle"
        /\ drive' = [drive EXCEPT !.at = @ + 1, !.place = r.place, !.busy = TRUE]
    BY <1>1 DEF AfterSector
  <2>2. TableOK' /\ CURRENT' = r  BY <1>1, <2>1, ChangeKeeps DEF Record
  <2>3. queue' = queue /\ short' = short  BY <2>1 DEF Change
  <2>4. /\ drive' \in [cmd : {"none", "read", "write", "restore", "specify"}, at : Nat, place : Nat,
                       busy : BOOLEAN, ok : BOOLEAN]
        /\ drive'.cmd = drive.cmd /\ drive'.at = drive.at + 1 /\ drive'.busy
        /\ drive'.place = r.place
    <3>1. drive.at + 1 \in Nat /\ r.place \in Nat  BY DEF ControlOK
    <3>2. drive \in [cmd : {"none", "read", "write", "restore", "specify"}, at : Nat, place : Nat,
                    busy : BOOLEAN, ok : BOOLEAN]
      BY DEF ControlOK
    <3> QED  BY <2>1, <3>1, <3>2
  <2>5. ControlOK'
    BY <2>1, <2>4 DEF ControlOK
  <2>6. ServingOK'
    BY <1>1, <2>1, <2>2, <2>3, <2>4 DEF ServingOK
  <2> QED  BY <2>1, <2>2, <2>3, <2>4, <2>5, <2>6 DEF ResettingOK, Watched
<1>2. CASE ~(r.nr_sectors > 0)
  <2>1. EndRequest(TRUE, r) /\ do_hd' = "none" /\ hd_timeout' = FALSE /\ pc' = "start"
        /\ UNCHANGED drive
    BY <1>2 DEF AfterSector
  <2>2. r.nr_sectors = 0  BY <1>2
  <2>3. TableOK'  BY <2>1, EndRequestKeeps
  <2>4. short' = FALSE  BY <2>1, <2>2 DEF EndRequest
  <2> QED  BY <2>1, <2>3, <2>4 DEF ControlOK, ServingOK, ResettingOK, Watched
<1> QED  BY <1>1, <1>2

LEMMA ReadIntrKeeps ==
    ASSUME IInv, ReadIntr
    PROVE  IInv'
<1> USE DEF IInv
<1> DEFINE done == IF drive.cmd = "read" /\ drive.at = CURRENT.first + CURRENT.place
                   THEN CURRENT.right \cup {CURRENT.place} ELSE CURRENT.right \ {CURRENT.place}
           r == [CURRENT EXCEPT !.errors = 0, !.place = @ + 1, !.sector = @ + 1,
                                !.nr_sectors = @ - 1, !.right = done]
<1>1. /\ pc = "idle" /\ do_hd = "read_intr" /\ irq' = FALSE /\ ~drive.busy /\ drive.ok
      /\ AfterSector(r, do_hd) /\ UNCHANGED <<reset, recalibrate, unit, ghost>>
  BY DEF ReadIntr, Interrupt, Good
<1>2. queue # <<>> /\ drive.cmd = "read" /\ drive.at = CURRENT.sector
  BY <1>1 DEF ServingOK
<1>3. CURRENT \in Record /\ Progress(CURRENT) /\ CURRENT.cmd # "none"
  BY <1>2, HeadUsed
<1>4. done = CURRENT.right \cup {CURRENT.place}
  BY <1>2, <1>3 DEF Progress
<1> HIDE DEF done
<1>5. /\ r.cmd = CURRENT.cmd /\ r.page = CURRENT.page /\ r.first = CURRENT.first /\ r.errors = 0
      /\ r.place = CURRENT.place + 1 /\ r.sector = CURRENT.sector + 1
      /\ r.nr_sectors = CURRENT.nr_sectors - 1 /\ r.right = done
  BY <1>3 DEF Record
<1>6. CURRENT.nr_sectors - 1 \in Nat /\ CURRENT.place \in Nat /\ Sectors(CURRENT) \in Nat
  BY <1>3, ConstantTypes DEF Record, Progress, Sectors
<1>7. r \in Record
  <2>1. done \in SUBSET Nat /\ 0 \in 0..MaxErrors - 1 /\ CURRENT.place + 1 \in Nat
        /\ CURRENT.sector + 1 \in Nat
    BY <1>3, <1>4, <1>6, ConstantTypes DEF Record
  <2> QED  BY <1>3, <1>6, <2>1 DEF Record
<1>8. 0..r.place - 1 \subseteq r.right /\ r.right \subseteq 0..Sectors(r) - 1
      /\ r.place + r.nr_sectors = Sectors(r) /\ r.sector = r.first + r.place
  BY <1>3, <1>4, <1>5, <1>6 DEF Progress, Sectors, Record
<1>9. r.nr_sectors > 0 => Progress(r)  BY <1>8 DEF Progress
<1>10. r.nr_sectors = 0 => r.right = 0..Sectors(r) - 1
  <2> SUFFICES ASSUME r.nr_sectors = 0 PROVE r.right = 0..Sectors(r) - 1
    OBVIOUS
  <2>1. r.place = Sectors(r)  BY <1>5, <1>6, <1>8
  <2> QED  BY <1>8, <2>1
<1>11. r.cmd # "none" /\ r.sector = drive.at + 1  BY <1>2, <1>3, <1>5
<1> HIDE DEF r
<1> QED  BY <1>1, <1>2, <1>7, <1>9, <1>10, <1>11, AfterSectorKeeps DEF Record

LEMMA WriteIntrKeeps ==
    ASSUME IInv, WriteIntr
    PROVE  IInv'
<1> USE DEF IInv
<1> DEFINE left == CURRENT.nr_sectors - 1
           step == IF left > 0 THEN 1 ELSE 0
           r == [CURRENT EXCEPT !.nr_sectors = left, !.sector = @ + step, !.place = @ + step]
<1>1. /\ pc = "idle" /\ do_hd = "write_intr" /\ irq' = FALSE /\ ~drive.busy /\ drive.ok
      /\ AfterSector(r, do_hd) /\ UNCHANGED <<reset, recalibrate, unit, ghost>>
  BY DEF WriteIntr, Interrupt, Good
<1>2. queue # <<>> /\ drive.at = CURRENT.sector /\ CURRENT.place \in CURRENT.right
  BY <1>1 DEF ServingOK
<1>3. CURRENT \in Record /\ Progress(CURRENT) /\ CURRENT.cmd # "none"
  BY <1>2, HeadUsed
<1>4. left \in Nat /\ step \in {0, 1} /\ (left > 0 => step = 1) /\ CURRENT.place \in Nat
      /\ Sectors(CURRENT) \in Nat /\ (left = 0 => step = 0)
  BY <1>3, ConstantTypes DEF Record, Progress, Sectors
<1>5. /\ r.cmd = CURRENT.cmd /\ r.page = CURRENT.page /\ r.first = CURRENT.first
      /\ r.errors = CURRENT.errors /\ r.right = CURRENT.right
      /\ r.place = CURRENT.place + step /\ r.sector = CURRENT.sector + step
      /\ r.nr_sectors = left
  BY <1>3 DEF Record
<1>6. r \in Record
  <2>1. CURRENT.place + step \in Nat /\ CURRENT.sector + step \in Nat
    BY <1>3, <1>4 DEF Record
  <2> HIDE DEF left, step
  <2> QED  BY <1>3, <1>4, <2>1 DEF Record
<1>7. CURRENT.place + left + 1 = Sectors(CURRENT) /\ Sectors(r) = Sectors(CURRENT)
      /\ 0..CURRENT.place \subseteq CURRENT.right /\ CURRENT.right \subseteq 0..Sectors(CURRENT) - 1
      /\ CURRENT.sector = CURRENT.first + CURRENT.place
  BY <1>2, <1>3, <1>4, <1>5 DEF Progress, Sectors, Record
<1> HIDE DEF left, step, r
<1>8. r.nr_sectors > 0 => Progress(r) /\ r.sector = drive.at + 1
  <2> SUFFICES ASSUME left > 0 PROVE Progress(r) /\ r.sector = drive.at + 1
    BY <1>5
  <2>1. step = 1  BY <1>4
  <2>2. /\ r.sector = r.first + r.place /\ r.place + r.nr_sectors = Sectors(r) /\ r.nr_sectors > 0
        /\ 0..r.place - 1 \subseteq r.right /\ r.right \subseteq 0..Sectors(r) - 1
    BY <1>3, <1>4, <1>5, <1>7, <2>1 DEF Record
  <2> QED  BY <1>2, <1>5, <2>1, <2>2 DEF Progress
<1>9. r.nr_sectors = 0 => r.right = 0..Sectors(r) - 1
  <2> SUFFICES ASSUME left = 0 PROVE r.right = 0..Sectors(r) - 1
    BY <1>5
  <2>1. Sectors(r) - 1 = CURRENT.place  BY <1>4, <1>7
  <2> QED  BY <1>5, <1>7, <2>1
<1> QED  BY <1>1, <1>2, <1>3, <1>5, <1>6, <1>8, <1>9, AfterSectorKeeps DEF Record

\* The handler of a reset: with a request to serve any answer is expected, with none
\* only that of the drive, which is good.
LEMMA ResetHdKeeps ==
    ASSUME IInv, ResetHd
    PROVE  IInv'
<1> USE DEF IInv
<1> DEFINE Drives == [cmd : {"none", "read", "write", "restore", "specify"}, at : Nat, place : Nat,
                      busy : BOOLEAN, ok : BOOLEAN]
<1>1. pc = "idle" /\ irq /\ do_hd = "reset_hd" /\ recalibrate' = recalibrate
  BY DEF ResetHd
<1>2. ASSUME NextUnit, TableOK', reset' \in BOOLEAN, short' = FALSE,
             Risks = {} => ghost' = FALSE, ghost' \in BOOLEAN,
             queue' = <<>> => queue = <<>> /\ Good
      PROVE  IInv'
  <2>1. CASE unit + 1 < NrHd
    <3>1. unit' = unit + 1 /\ HdOut("idle", "reset_hd", "specify", 0, TRUE) /\ Awaited(FALSE)
      BY <1>2, <2>1 DEF NextUnit
    <3>7. CASE pc' = "panic"
      <4>1. irq' \in BOOLEAN  BY <3>1 DEF Awaited
      <4>2. unit' \in 0..NrHd  BY <2>1, <3>1, ConstantTypes DEF ControlOK
      <4>3. recalibrate' \in BOOLEAN  BY <1>1 DEF ControlOK
      <4> QED  BY <1>1, <1>2, <3>1, <3>7, <4>1, <4>2, <4>3, PanicKeeps
    <3> SUFFICES ASSUME pc' # "panic" PROVE IInv'
      BY <3>7
    <3>2. pc' = "idle" /\ do_hd' = "reset_hd" /\ hd_timeout' = TRUE /\ drive' \in Drives
          /\ drive'.cmd = "specify" /\ drive'.busy /\ drive'.ok
      BY <3>1, HdOutType
    <3>3. irq' \in BOOLEAN /\ (~drive.busy => irq' = FALSE)  BY <3>1 DEF Awaited
    <3>4. unit' \in 0..NrHd  BY <2>1, <3>1, ConstantTypes DEF ControlOK
    <3>5. ControlOK'  BY <1>1, <1>2, <3>1, <3>2, <3>3, <3>4 DEF ControlOK
    <3>6. ResettingOK'  BY <1>2, <3>2, <3>3 DEF ResettingOK, Good
    <3> QED  BY <1>2, <3>1, <3>2, <3>5, <3>6 DEF ServingOK, Watched
  <2>2. CASE ~(unit + 1 < NrHd)
    <3>1. unit' = NrHd /\ do_hd' = "none" /\ hd_timeout' = FALSE /\ pc' = "start"
          /\ irq' = FALSE /\ drive' = drive
      BY <1>2, <2>2 DEF NextUnit
    <3>2. unit' \in 0..NrHd  BY <3>1, ConstantTypes
    <3>3. ControlOK'  BY <1>1, <1>2, <3>1, <3>2 DEF ControlOK
    <3>4. ResettingOK'  BY <1>2, <3>1 DEF ResettingOK
    <3> QED  BY <1>2, <3>1, <3>3, <3>4 DEF ServingOK, Watched
  <2> QED  BY <2>1, <2>2
<1>3. CASE Good
  <2>1. NextUnit /\ UNCHANGED <<slot, queue, reset, short, ghost>>  BY <1>3 DEF ResetHd
  <2>2. TableOK'  BY <2>1, SameTable
  <2> QED  BY <1>2, <1>3, <2>1, <2>2 DEF ControlOK, ResettingOK
<1>4. CASE ~Good
  <2>1. /\ BadRw(FALSE)
        /\ IF reset' THEN ResetController /\ irq' = FALSE ELSE NextUnit
    BY <1>4 DEF ResetHd
  <2>2. /\ TableOK' /\ reset' \in BOOLEAN /\ short' = FALSE /\ ghost' \in BOOLEAN
        /\ Risks = {} => ghost' = FALSE
        /\ queue' = <<>> => reset'
    <3>1. CASE queue # <<>>
      <4>1. /\ TableOK' /\ reset' \in BOOLEAN /\ ghost' = ghost /\ short' = FALSE
            /\ queue' = <<>> => reset'
        BY <2>1, <3>1, BadRwKeeps
      <4> QED  BY <4>1 DEF ResettingOK, ControlOK
    <3>2. CASE queue = <<>>
      <4>1. ghost' = TRUE /\ reset' = TRUE /\ UNCHANGED <<slot, queue, short>>
        BY <2>1, <3>2 DEF BadRw
      <4>2. Risks # {}  BY <1>1, <1>4, <3>2 DEF ResettingOK, Good
      <4> QED  BY <4>1, <4>2, SameTable
    <3> QED  BY <3>1, <3>2
  <2>3. CASE reset'
    <3>1. unit' = 0 /\ HdOut("idle", "reset_hd", "specify", 0, TRUE) /\ irq' = FALSE
      BY <2>1, <2>3 DEF ResetController
    <3>3. unit' \in 0..NrHd  BY <3>1, ConstantTypes
    <3>6. CASE pc' = "panic"
      <4>1. recalibrate' \in BOOLEAN  BY <1>1 DEF ControlOK
      <4> QED  BY <1>1, <2>2, <3>1, <3>3, <3>6, <4>1, PanicKeeps
    <3> SUFFICES ASSUME pc' # "panic" PROVE IInv'
      BY <3>6
    <3>2. pc' = "idle" /\ do_hd' = "reset_hd" /\ hd_timeout' = TRUE /\ drive' \in Drives
          /\ drive'.cmd = "specify" /\ drive'.busy /\ drive'.ok
      BY <3>1, HdOutType
    <3>4. ControlOK'  BY <1>1, <2>2, <3>1, <3>2, <3>3 DEF ControlOK
    <3>5. ResettingOK'  BY <2>2, <3>1, <3>2 DEF ResettingOK
    <3> QED  BY <2>2, <3>1, <3>2, <3>4, <3>5 DEF ServingOK, Watched
  <2>4. CASE ~reset'
    BY <1>2, <2>1, <2>2, <2>4
  <2> QED  BY <2>3, <2>4
<1> QED  BY <1>3, <1>4

LEMMA InterruptsKeep ==
    ASSUME IInv, Interrupts
    PROVE  IInv'
<1> USE DEF IInv
<1>1. CASE Unexpected
  <2>1. TableOK' /\ CURRENT' = CURRENT  BY <1>1, SameTable DEF Unexpected
  <2> QED  BY <1>1, <2>1 DEF Unexpected, Interrupt, ControlOK, ServingOK, ResettingOK, Watched
<1>2. CASE Fails
  <2>1. /\ pc = "idle" /\ do_hd \in {"read_intr", "write_intr", "recal_intr"} /\ irq' = FALSE
        /\ BadRw(reset) /\ pc' = "start" /\ do_hd' = "none" /\ hd_timeout' = FALSE
        /\ UNCHANGED <<recalibrate, unit, drive>>
    BY <1>2 DEF Fails, Interrupt
  <2>2. queue # <<>>  BY <2>1 DEF ServingOK
  <2>3. TableOK' /\ reset' \in BOOLEAN /\ ghost' = ghost /\ short' = FALSE
    BY <2>1, <2>2, BadRwKeeps DEF ControlOK
  <2> QED  BY <2>1, <2>3 DEF ControlOK, ServingOK, ResettingOK, Watched
<1>3. CASE Recalibrated
  <2>1. TableOK' /\ CURRENT' = CURRENT  BY <1>3, SameTable DEF Recalibrated
  <2> QED  BY <1>3, <2>1 DEF Recalibrated, Interrupt, ControlOK, ServingOK, ResettingOK, Watched
<1> QED  BY <1>1, <1>2, <1>3, ReadIntrKeeps, WriteIntrKeeps, ResetHdKeeps DEF Interrupts

LEMMA TimesOutKeeps ==
    ASSUME IInv, TimesOut
    PROVE  IInv'
<1> USE DEF IInv
<1>1. pc = "idle" /\ hd_timeout /\ UNCHANGED <<recalibrate, unit, drive, irq, ghost>>
  BY DEF TimesOut
<1>2. CASE queue = <<>>
  <2>1. hd_timeout' = FALSE /\ UNCHANGED <<slot, queue, short, do_hd, reset, pc>>
    BY <1>2 DEF TimesOut
  <2>2. TableOK' /\ CURRENT' = CURRENT  BY <2>1, SameTable
  <2> QED  BY <1>1, <1>2, <2>1, <2>2 DEF ControlOK, ServingOK, ResettingOK, Watched
<1>3. CASE queue # <<>>
  <2> DEFINE r == [CURRENT EXCEPT !.errors = @ + 1]
  <2>1. /\ IF r.errors >= MaxErrors THEN EndRequest(FALSE, r) ELSE Change(r)
        /\ do_hd' = "none" /\ hd_timeout' = TRUE /\ reset' = TRUE /\ pc' = "start"
    BY <1>3 DEF TimesOut
  <2>2. TableOK' /\ short' = FALSE
    <3>1. CASE r.errors >= MaxErrors
      <4>1. EndRequest(FALSE, r)  BY <2>1, <3>1
      <4> QED  BY <1>3, <4>1, EndRequestKeeps DEF EndRequest
    <3>2. CASE ~(r.errors >= MaxErrors)
      <4>1. Change(r)  BY <2>1, <3>2
      <4>2. CURRENT \in Record /\ Progress(CURRENT) /\ CURRENT.cmd # "none"
        BY <1>3, HeadUsed
      <4>3. CURRENT.errors \in 0..MaxErrors - 1 /\ CURRENT.errors + 1 \in 0..MaxErrors - 1
        BY <3>2, <4>2, ConstantTypes DEF Record
      <4>4. r \in Record  BY <4>2, <4>3 DEF Record
      <4>5. /\ r.cmd = CURRENT.cmd /\ r.page = CURRENT.page /\ r.first = CURRENT.first
            /\ r.sector = CURRENT.sector /\ r.nr_sectors = CURRENT.nr_sectors
            /\ r.place = CURRENT.place /\ r.right = CURRENT.right
        BY <4>2 DEF Record
      <4>6. r.cmd # "none" /\ Progress(r)  BY <4>2, <4>5 DEF Progress, Sectors
      <4> QED  BY <1>3, <4>1, <4>4, <4>6, ChangeKeeps DEF Change
    <3> QED  BY <3>1, <3>2
  <2> QED  BY <1>1, <2>1, <2>2 DEF ControlOK, ServingOK, ResettingOK, Watched
<1> QED  BY <1>2, <1>3

LEMMA StepIInv == IInv /\ [Next]_vars => IInv'
<1> SUFFICES ASSUME IInv, [Next]_vars PROVE IInv'
  OBVIOUS
<1>1. CASE Code  BY <1>1, CodeKeeps
<1>2. CASE Interrupts  BY <1>2, InterruptsKeep
<1>3. CASE Done  BY <1>3, DoneKeeps
<1>4. CASE TimesOut  BY <1>4, TimesOutKeeps
<1>5. CASE \E r \in Requests : Add(r)  BY <1>5, AddKeeps
<1>6. CASE UNCHANGED vars
  <2>1. TableOK' /\ CURRENT' = CURRENT  BY <1>6, SameTable DEF IInv, vars
  <2> QED  BY <1>6, <2>1 DEF IInv, vars, ControlOK, ServingOK, ResettingOK, Watched
<1>7. CASE Stopped  BY <1>6, <1>7 DEF Stopped
<1> QED  BY <1>1, <1>2, <1>3, <1>4, <1>5, <1>6, <1>7 DEF Next

LEMMA IInvariant == Spec => []IInv
BY InitIInv, StepIInv, PTL DEF Spec

----------------------------------------------------------------------------
(* Theorems                                                                *)

\* The types, with the list that of the used requests, each once (ll_rw_blk.c:106-147).
THEOREM TypeCorrect == Spec => []TypeOK
<1>1. IInv => TypeOK
  <2> SUFFICES ASSUME IInv PROVE TypeOK
    OBVIOUS
  <2>1. \A s \in Slots : slot[s].cmd \in {"none", "read", "write"}
                         /\ slot[s].errors \in 0..MaxErrors - 1
    BY DEF IInv, TableOK, Record
  <2>2. queue \in Seq(Slots) /\ DOMAIN queue = 1..Len(queue)
    BY LenProperties DEF IInv, TableOK, Listed
  <2>3. IsInjective(queue)  BY <2>2 DEF IInv, TableOK, Listed, IsInjective
  <2>4. Queued = {s \in Slots : slot[s].cmd # "none"}
    <3>1. \A i \in 1..Len(queue) : queue[i] \in Slots  BY <2>2, ElementOfSeq
    <3> QED  BY <2>2, <3>1 DEF IInv, TableOK, Listed, Queued
  <2>5. {hd_timeout, reset, recalibrate, irq, short, ghost} \subseteq BOOLEAN
    BY DEF IInv, ControlOK
  <2>6. drive.cmd \in {"none", "read", "write", "restore", "specify"}
    BY DEF IInv, ControlOK
  <2> QED  BY <2>1, <2>2, <2>3, <2>4, <2>5, <2>6 DEF TypeOK, IInv, ControlOK
<1> QED  BY <1>1, IInvariant, PTL

\* A request that ends as if it were complete is, for any number of sectors of a page,
\* errors, resets, time-outs and late interrupts (hd.c:407-416, 436-444).
THEOREM EndsComplete == Spec => []EndedComplete
<1>1. IInv => EndedComplete  BY DEF IInv, EndedComplete
<1> QED  BY <1>1, IInvariant, PTL

\* Whoever is served is watched by the timer (blk.h:138, sys_call.s:341).
THEOREM AlwaysWatched == Spec => []Watched
<1>1. IInv => Watched  BY DEF IInv
<1> QED  BY <1>1, IInvariant, PTL

\* Errors are counted only in a request that is there, as long as a drive that is being
\* reset does not fail (hd.c:382).
THEOREM CountsInRequest == ASSUME Risks = {} PROVE Spec => []CurrentThere
<1>1. IInv => CurrentThere  BY DEF IInv, ResettingOK, CurrentThere
<1> QED  BY <1>1, IInvariant, PTL

\* So the driver serves what it is to serve and is watched (hd.c:382, blk.h:138).
THEOREM ServesWatched == ASSUME Risks = {} PROVE Spec => []Served
<1>1. TypeOK /\ Watched /\ CurrentThere => Served  BY DEF Served
<1> QED  BY <1>1, TypeCorrect, AlwaysWatched, CountsInRequest, PTL

----------------------------------------------------------------------------
(* Floppy                                                                  *)

CONSTANTS Drives, Tracks, Checked, Asked, BadTrack, MaxQueue, FloppyErrors, SpinUp, Select, Off,
          MaxFaults, FloppyRisks
VARIABLES floppy_queue, floppy_pc, do_floppy, floppy_reset, floppy_recalibrate, seek,
          current_drive, current_track, selected, dor, mon_timer, moff_timer, timers, ticking,
          fdc, floppy_irq, at, changer, faults, floppy_ghost

F == INSTANCE Floppy WITH
        MaxErrors <- FloppyErrors, Risks <- FloppyRisks, queue <- floppy_queue,
        pc <- floppy_pc, reset <- floppy_reset, recalibrate <- floppy_recalibrate,
        irq <- floppy_irq, ghost <- floppy_ghost

\* What Floppy assumes of its constants, and that a request only starts when the
\* controller has recovered.
Floppies == /\ F!DrivesAssumption /\ F!TracksAssumption /\ F!TimesAssumption
            /\ "busy" \notin FloppyRisks

FloppyRequests == [drive : Drives, track : Tracks \cup {BadTrack}, errors : 0..FloppyErrors]
FloppyCommands == [cmd : F!Commands, drive : Drives, track : Tracks, aged : BOOLEAN]
FloppyTimers == [fn : {"floppy_on_interrupt", "transfer"}, left : 1..SpinUp]
Changers == [pc : {"no", "motor", "select", "sleep", "look", "rest"}, nr : Drives,
             asleep : BOOLEAN]
QueueTyped == floppy_queue \in Seq(FloppyRequests) /\ Len(floppy_queue) <= MaxQueue
ControlTyped ==
    /\ floppy_pc \in F!Functions /\ do_floppy \in F!Handlers
    /\ floppy_reset \in BOOLEAN /\ floppy_recalibrate \in BOOLEAN
    /\ floppy_irq \in {"none", "ok", "bad", "protected", "silent"}
HeadTyped ==
    /\ seek \in BOOLEAN /\ selected \in BOOLEAN /\ ticking \in BOOLEAN /\ floppy_ghost \in BOOLEAN
    /\ current_drive \in Drives /\ current_track \in Tracks \cup {F!Nowhere}
    /\ at \in [Drives -> Tracks]
MotorsTyped ==
    /\ dor \in [drive : Drives, on : SUBSET Drives]
    /\ mon_timer \in [Drives -> 0..SpinUp] /\ moff_timer \in [Drives -> 0..F!Never]
TimersTyped ==
    /\ timers \subseteq FloppyTimers
    /\ \A t \in timers : t.fn = "transfer" => t.left <= Select
FloppyTyped ==
    /\ QueueTyped /\ ControlTyped /\ HeadTyped /\ MotorsTyped /\ TimersTyped
    /\ fdc \in FloppyCommands /\ changer \in Changers

\* At most one thing drives the driver: a function that runs, a timer, or a
\* command and its interrupt.
Alone ==
    /\ floppy_pc # "idle" => timers = {} /\ fdc.cmd = "none" /\ floppy_irq = "none"
    /\ floppy_pc # "idle" /\ do_floppy # "none" => floppy_pc = "do_fd_request" /\ floppy_reset
    /\ timers # {} => do_floppy = "none"
    /\ \A t, u \in timers : t = u
    /\ floppy_irq # "none" => fdc.cmd = "none"
    /\ floppy_pc = "idle" /\ do_floppy # "none" => fdc.cmd # "none" \/ floppy_irq # "none"
    /\ fdc.cmd # "none" \/ floppy_irq \in {"bad", "protected"} => do_floppy # "none"
    /\ floppy_pc = "idle" /\ floppy_queue # <<>> => timers # {} \/ do_floppy # "none"

\* The request is the one that was set up, and once its drive is selected it
\* stays so until the request ends.
Chosen == floppy_queue # <<>> /\ F!CURRENT.drive = current_drive /\ F!CURRENT.track # BadTrack
Spinning == floppy_pc = "floppy_on_interrupt" \/ \E t \in timers : t.fn = "floppy_on_interrupt"
Running == \/ floppy_pc \in {"transfer", "setup_rw_floppy"}
           \/ \E t \in timers : t.fn = "transfer"
           \/ floppy_pc = "idle" /\ do_floppy \in {"seek_interrupt", "rw_interrupt"}
Right ==
    /\ Spinning => Chosen
    /\ Running => selected
    /\ selected => Chosen /\ dor.drive = current_drive
    /\ fdc.cmd = "rw" => do_floppy = "rw_interrupt" /\ fdc.track = F!CURRENT.track

\* The motor is on and spins up while the first timer runs.
Ticks == IF ticking THEN 1 ELSE 0
Turns ==
    /\ Spinning => current_drive \in dor.on /\ moff_timer[current_drive] >= Off
    /\ floppy_pc = "floppy_on_interrupt" => mon_timer[current_drive] <= Select
    /\ \A t \in timers : t.fn = "floppy_on_interrupt" =>
          /\ mon_timer[current_drive] + 1 >= t.left + Ticks
          /\ \/ mon_timer[current_drive] <= Select
             \/ mon_timer[current_drive] <= t.left + Ticks

\* The motor has n ticks left.
Warm(n) == /\ current_drive \in dor.on /\ mon_timer[current_drive] <= Select
           /\ moff_timer[current_drive] >= n + Ticks
Lasts ==
    /\ floppy_pc = "transfer" => Warm(2)
    /\ floppy_pc = "setup_rw_floppy" => Warm(1)
    /\ \A t \in timers : t.fn = "transfer" => Warm(t.left + 2)
    /\ floppy_pc = "idle" /\ do_floppy = "seek_interrupt" /\ floppy_irq # "none" => Warm(1)
    /\ do_floppy = "seek_interrupt" /\ fdc.cmd # "none" => Warm(IF fdc.aged THEN 1 ELSE 2)
    /\ fdc.cmd = "rw" => Warm(IF fdc.aged THEN 0 ELSE 1)

FloppyInv == FloppyTyped /\ Alone /\ Right /\ Turns /\ Lasts

LEMMA FloppyTimes ==
  ASSUME Floppies
  PROVE  /\ MaxQueue \in Nat /\ FloppyErrors \in Nat /\ SpinUp \in Nat /\ Select \in Nat
         /\ Off \in Nat /\ 0 < Select /\ Select <= SpinUp /\ Select + 3 <= Off
         /\ F!Never \in Nat /\ F!Never = Off + 1
         /\ 0 \in Drives /\ 0 \in Tracks /\ BadTrack \notin Tracks
  BY DEF Floppies, F!DrivesAssumption, F!TracksAssumption, F!TimesAssumption, F!Never

\* The request at the head of the queue, and what is left behind it.
LEMMA FloppyCurrent ==
  ASSUME FloppyTyped, floppy_queue # <<>>, MaxQueue \in Nat
  PROVE  /\ F!CURRENT \in FloppyRequests
         /\ Tail(floppy_queue) \in Seq(FloppyRequests)
         /\ Len(Tail(floppy_queue)) <= MaxQueue
  <1>1. floppy_queue \in Seq(FloppyRequests) /\ Len(floppy_queue) <= MaxQueue BY DEF FloppyTyped, QueueTyped
  <1>2. F!CURRENT \in FloppyRequests BY <1>1, HeadTailProperties DEF F!CURRENT
  <1>3. Tail(floppy_queue) \in Seq(FloppyRequests) /\ Len(Tail(floppy_queue)) = Len(floppy_queue) - 1
    BY <1>1, HeadTailProperties
  <1> QED BY <1>1, <1>2, <1>3, LenProperties

LEMMA FloppyRequestTyped ==
  ASSUME NEW r \in FloppyRequests
  PROVE  r.drive \in Drives /\ r.track \in Tracks \cup {BadTrack} /\ r.errors \in 0..FloppyErrors
  BY DEF FloppyRequests

LEMMA FloppyAppend ==
  ASSUME FloppyTyped, NEW r \in FloppyRequests, Len(floppy_queue) < MaxQueue,
         MaxQueue \in Nat
  PROVE  /\ Append(floppy_queue, r) \in Seq(FloppyRequests)
         /\ Len(Append(floppy_queue, r)) <= MaxQueue
         /\ Append(floppy_queue, r) # <<>>
         /\ floppy_queue # <<>> => Head(Append(floppy_queue, r)) = F!CURRENT
  <1>1. floppy_queue \in Seq(FloppyRequests) BY DEF FloppyTyped, QueueTyped
  <1>2. Append(floppy_queue, r) \in Seq(FloppyRequests)
        /\ Len(Append(floppy_queue, r)) = Len(floppy_queue) + 1 BY <1>1, AppendProperties
  <1>3. Append(floppy_queue, r) # <<>> BY <1>1, AppendProperties
  <1>4. floppy_queue # <<>> => Head(Append(floppy_queue, r)) = F!CURRENT
    BY <1>1 DEF F!CURRENT
  <1> QED BY <1>1, <1>2, <1>3, <1>4, LenProperties

LEMMA FloppyCounted ==
  ASSUME FloppyTyped, floppy_queue # <<>>, NEW r \in FloppyRequests
  PROVE  /\ <<r>> \o Tail(floppy_queue) \in Seq(FloppyRequests)
         /\ Len(<<r>> \o Tail(floppy_queue)) <= MaxQueue
         /\ <<r>> \o Tail(floppy_queue) # <<>>
         /\ Head(<<r>> \o Tail(floppy_queue)) = r
  <1>1. floppy_queue \in Seq(FloppyRequests) /\ Len(floppy_queue) <= MaxQueue BY DEF FloppyTyped, QueueTyped
  <1>2. Tail(floppy_queue) \in Seq(FloppyRequests)
        /\ Len(Tail(floppy_queue)) = Len(floppy_queue) - 1 BY <1>1, HeadTailProperties
  <1>3. <<r>> \in Seq(FloppyRequests) /\ Len(<<r>>) = 1 OBVIOUS
  <1>4. /\ <<r>> \o Tail(floppy_queue) \in Seq(FloppyRequests)
        /\ Len(<<r>> \o Tail(floppy_queue)) = 1 + Len(Tail(floppy_queue))
    BY <1>2, <1>3, ConcatProperties
  <1>5. (<<r>> \o Tail(floppy_queue))[1] = r BY <1>2, <1>3
  <1> QED BY <1>1, <1>2, <1>4, <1>5, LenProperties

LEMMA FloppyCommand ==
  ASSUME NEW c \in F!Commands, NEW d \in Drives, NEW t \in Tracks, NEW b \in BOOLEAN
  PROVE  [cmd |-> c, drive |-> d, track |-> t, aged |-> b] \in FloppyCommands
  BY DEF FloppyCommands

LEMMA CommandFields ==
  ASSUME NEW r, NEW c, NEW d, NEW t, NEW b \in BOOLEAN,
         r = [cmd |-> c, drive |-> d, track |-> t, aged |-> b]
  PROVE  /\ r.cmd = c /\ r.drive = d /\ r.track = t /\ r.aged = b
         /\ [r EXCEPT !.cmd = "reset"] = [cmd |-> "reset", drive |-> d, track |-> t, aged |-> b]
  OBVIOUS

LEMMA ResetCommand ==
  ASSUME NEW d \in Drives, NEW t \in Tracks, NEW b \in BOOLEAN, NEW none,
         none = [cmd |-> "none", drive |-> d, track |-> t, aged |-> b]
  PROVE  /\ none \in FloppyCommands /\ none.cmd = "none" /\ none.aged = b
         /\ [none EXCEPT !.cmd = "reset"] \in FloppyCommands
         /\ [none EXCEPT !.cmd = "reset"].cmd = "reset"
         /\ [none EXCEPT !.cmd = "reset"].aged = b
  <1>1. [none EXCEPT !.cmd = "reset"]
        = [cmd |-> "reset", drive |-> d, track |-> t, aged |-> b]
    BY CommandFields
  <1>2. {"none", "reset"} \subseteq F!Commands BY DEF F!Commands
  <1>3. none \in FloppyCommands BY <1>2, FloppyCommand
  <1>4. [none EXCEPT !.cmd = "reset"] \in FloppyCommands
    BY <1>1, <1>2, FloppyCommand
  <1>5. none.cmd = "none" /\ none.aged = b BY CommandFields
  <1>6. [none EXCEPT !.cmd = "reset"].cmd = "reset"
        /\ [none EXCEPT !.cmd = "reset"].aged = b BY <1>1, CommandFields
  <1> QED BY <1>3, <1>4, <1>5, <1>6

LEMMA FloppyNoCommand ==
  ASSUME Floppies
  PROVE  /\ F!NoCommand \in FloppyCommands /\ F!NoCommand.cmd = "none"
         /\ F!NoCommand.aged = FALSE
         /\ [F!NoCommand EXCEPT !.cmd = "reset"] \in FloppyCommands
         /\ [F!NoCommand EXCEPT !.cmd = "reset"].cmd = "reset"
         /\ [F!NoCommand EXCEPT !.cmd = "reset"].aged = FALSE
  <1>1. F!NoCommand = [cmd |-> "none", drive |-> 0, track |-> 0, aged |-> FALSE]
    BY DEF F!NoCommand
  <1>2. 0 \in Drives /\ 0 \in Tracks BY FloppyTimes
  <1>3. PICK z \in Drives, y \in Tracks, b \in BOOLEAN :
          b = FALSE /\ F!NoCommand = [cmd |-> "none", drive |-> z, track |-> y, aged |-> b]
    BY <1>1, <1>2
  <1>4. \A n : n = F!NoCommand => 
         /\ n \in FloppyCommands /\ n.cmd = "none"
         /\ n.aged = b
         /\ [n EXCEPT !.cmd = "reset"] \in FloppyCommands
         /\ [n EXCEPT !.cmd = "reset"].cmd = "reset"
         /\ [n EXCEPT !.cmd = "reset"].aged = b
    BY <1>3, ResetCommand
  <1> QED BY <1>3, <1>4

\* A command is sent, or the controller has to be reset.
LEMMA FloppySend ==
  ASSUME Floppies, FloppyTyped, Alone, floppy_pc # "idle",
         NEW h \in F!Handlers, NEW c \in F!Commands \ {"none"}, NEW t \in Tracks,
         F!Send(h, c, t)
  PROVE  /\ do_floppy' = h /\ fdc' \in FloppyCommands
         /\ floppy_reset' \in BOOLEAN
         /\ \/ /\ fdc'.cmd = c /\ fdc'.track = t /\ fdc'.aged = FALSE
               /\ floppy_pc' = "idle" /\ ~floppy_reset /\ ~floppy_reset'
            \/ /\ fdc'.cmd = "none" /\ floppy_pc' = "do_fd_request" /\ floppy_reset' = TRUE
  <1>1. fdc.cmd = "none" /\ fdc \in FloppyCommands BY DEF Alone, FloppyTyped
  <1>2. CASE /\ F!Ready
             /\ fdc' = [cmd |-> c, drive |-> current_drive, track |-> t, aged |-> FALSE]
             /\ F!Calls("idle") /\ UNCHANGED <<floppy_reset, faults>>
    <2>1. current_drive \in Drives /\ floppy_reset \in BOOLEAN
      BY DEF FloppyTyped, ControlTyped, HeadTyped
    <2>2. fdc' \in FloppyCommands BY <1>2, <2>1, FloppyCommand
    <2>3. fdc'.cmd = c /\ fdc'.track = t /\ fdc'.aged = FALSE BY <1>2, CommandFields
    <2> QED BY <1>2, <2>1, <2>2, <2>3 DEF F!Send, F!Ready, F!Calls
  <1>3. CASE floppy_reset' = TRUE /\ F!Calls("do_fd_request") /\ UNCHANGED fdc
    BY <1>1, <1>3 DEF F!Send, F!Calls
  <1> QED BY <1>2, <1>3 DEF F!Send

\* A timer of its own, or none.
LEMMA FloppyAddTimer ==
  ASSUME Floppies, timers = {}, NEW n \in 0..SpinUp, NEW f, F!AddTimer(n, f),
         f \in {"floppy_on_interrupt", "transfer"}, f = "transfer" => n <= Select
  PROVE  /\ TimersTyped' /\ \A t \in timers' : t.fn = f /\ t.left = n
         /\ \A t, u \in timers' : t = u
         /\ \/ n = 0 /\ floppy_pc' = f /\ timers' = {}
            \/ n > 0 /\ floppy_pc' = "idle" /\ timers' # {}
  <1>1. CASE n = 0 BY <1>1 DEF F!AddTimer, F!Calls, TimersTyped
  <1>2. CASE n # 0
    <2>1. timers' = {[fn |-> f, left |-> n]} /\ floppy_pc' = "idle"
      BY <1>2 DEF F!AddTimer, F!Calls
    <2>2. n \in 1..SpinUp BY <1>2, FloppyTimes
    <2>3. [fn |-> f, left |-> n] \in FloppyTimers BY <2>2 DEF FloppyTimers
    <2> QED BY <2>1, <2>2, <2>3 DEF TimersTyped
  <1> QED BY <1>1, <1>2

\* ticks_to_floppy_on(): the motor is on, and its timers only go up.
LEMMA FloppyTicksOn ==
  ASSUME Floppies, MotorsTyped, NEW nr \in Drives, F!TicksToFloppyOn(nr)
  PROVE  /\ MotorsTyped' /\ F!TicksFor(nr) \in 0..SpinUp
         /\ dor'.on = dor.on \cup {nr}
         /\ dor'.drive = IF selected THEN dor.drive ELSE nr
         /\ mon_timer'[nr] = F!TicksFor(nr) /\ moff_timer'[nr] = F!Never
         /\ nr \notin dor.on => mon_timer'[nr] = SpinUp
         /\ nr \in dor.on => mon_timer'[nr] \in {mon_timer[nr], Select} /\ mon_timer[nr] <= mon_timer'[nr]
         /\ \A d \in Drives \ {nr} : mon_timer'[d] = mon_timer[d] /\ moff_timer'[d] = moff_timer[d]
  <1>1. /\ dor.on \subseteq Drives /\ dor.drive \in Drives /\ mon_timer[nr] \in 0..SpinUp
        /\ F!Never \in 0..F!Never /\ SpinUp \in 0..SpinUp /\ Select \in 0..SpinUp
    BY FloppyTimes DEF MotorsTyped
  <1>2. F!TicksFor(nr) \in 0..SpinUp BY <1>1 DEF F!TicksFor
  <1>3. dor' = [drive |-> IF selected THEN dor.drive ELSE nr, on |-> dor.on \cup {nr}]
    BY DEF F!TicksToFloppyOn, F!DorFor
  <1>4. /\ dor' \in [drive : Drives, on : SUBSET Drives] /\ dor'.on = dor.on \cup {nr}
        /\ dor'.drive = IF selected THEN dor.drive ELSE nr
    BY <1>1, <1>3
  <1>5. /\ mon_timer' \in [Drives -> 0..SpinUp] /\ mon_timer'[nr] = F!TicksFor(nr)
        /\ \A d \in Drives \ {nr} : mon_timer'[d] = mon_timer[d]
    BY <1>2 DEF F!TicksToFloppyOn, MotorsTyped
  <1>6. /\ moff_timer' \in [Drives -> 0..F!Never] /\ moff_timer'[nr] = F!Never
        /\ \A d \in Drives \ {nr} : moff_timer'[d] = moff_timer[d]
    BY <1>1 DEF F!TicksToFloppyOn, MotorsTyped
  <1>7. nr \notin dor.on => F!TicksFor(nr) = SpinUp BY DEF F!TicksFor
  <1>8. nr \in dor.on => F!TicksFor(nr) \in {mon_timer[nr], Select} /\ mon_timer[nr] <= F!TicksFor(nr)
    BY <1>1, FloppyTimes DEF F!TicksFor
  <1> QED BY <1>2, <1>4, <1>5, <1>6, <1>7, <1>8 DEF MotorsTyped

\* floppy_off(): the motor has some time left.
LEMMA FloppyOffTyped ==
  ASSUME Floppies, MotorsTyped, NEW nr \in Drives, F!FloppyOff(nr)
  PROVE  /\ moff_timer' \in [Drives -> 0..F!Never] /\ moff_timer'[nr] = Off
         /\ \A d \in Drives \ {nr} : moff_timer'[d] = moff_timer[d]
  <1>1. Off \in 0..F!Never BY FloppyTimes
  <1> QED BY <1>1 DEF F!FloppyOff, MotorsTyped

\* do_fd_request() and what follows it, one lemma for each function.
LEMMA FloppyReset ==
  ASSUME Floppies, FloppyInv, F!ResetFloppy
  PROVE  FloppyInv'
<1> USE FloppyTimes, FloppyNoCommand DEF FloppyInv, F!Calls, F!Runs, F!flags, F!motors,
  F!ResetFloppy
<1>1. FloppyTyped'
  <2> USE DEF FloppyTyped
  <2>1. QueueTyped' BY DEF QueueTyped
  <2>2. ControlTyped' BY DEF ControlTyped, F!Functions, F!Handlers
  <2>3. HeadTyped' BY DEF HeadTyped, F!Nowhere
  <2>4. MotorsTyped' BY DEF MotorsTyped
  <2>5. TimersTyped' BY DEF TimersTyped
  <2>6. (fdc \in FloppyCommands)' OBVIOUS
  <2>7. (changer \in Changers)' OBVIOUS
  <2> QED BY <2>1, <2>2, <2>3, <2>4, <2>5, <2>6, <2>7
<1> USE DEF FloppyTyped, QueueTyped, ControlTyped, HeadTyped, MotorsTyped, TimersTyped
<1>2. Alone' BY DEF Alone, F!Functions, F!Handlers
<1>3. Right' BY DEF Right, Chosen, Spinning, Running, Alone, F!CURRENT
<1>4. Turns' BY DEF Turns, Right, Chosen, Spinning, Ticks, Alone
<1>5. Lasts' BY DEF Lasts, Warm, Ticks, Alone, Right, Turns, Running
<1> QED BY <1>1, <1>2, <1>3, <1>4, <1>5

LEMMA FloppyRecalibrate ==
  ASSUME Floppies, FloppyInv, F!RecalibrateFloppy
  PROVE  FloppyInv'
<1> USE DEF FloppyInv
<1>a. /\ do_floppy' = "recal_interrupt" /\ fdc' \in FloppyCommands /\ floppy_reset' \in BOOLEAN
      /\ \/ /\ fdc'.cmd = "recal" /\ fdc'.track = 0 /\ fdc'.aged = FALSE
            /\ floppy_pc' = "idle" /\ ~floppy_reset /\ ~floppy_reset'
         \/ /\ fdc'.cmd = "none" /\ floppy_pc' = "do_fd_request" /\ floppy_reset' = TRUE
  BY FloppyTimes, FloppySend DEF F!RecalibrateFloppy, F!Runs, F!Handlers, F!Commands
<1> USE FloppyTimes, <1>a DEF FloppyInv, F!Calls, F!Runs, F!flags, F!motors, F!RecalibrateFloppy
<1>1. FloppyTyped'
  <2> USE DEF FloppyTyped
  <2>1. QueueTyped' BY DEF QueueTyped
  <2>2. ControlTyped' BY DEF ControlTyped, F!Functions, F!Handlers
  <2>3. HeadTyped' BY DEF HeadTyped, F!Nowhere
  <2>4. MotorsTyped' BY DEF MotorsTyped
  <2>5. TimersTyped' BY DEF TimersTyped
  <2>6. (fdc \in FloppyCommands)' OBVIOUS
  <2>7. (changer \in Changers)' OBVIOUS
  <2> QED BY <2>1, <2>2, <2>3, <2>4, <2>5, <2>6, <2>7
<1> USE DEF FloppyTyped, QueueTyped, ControlTyped, HeadTyped, MotorsTyped, TimersTyped
<1>2. Alone' BY DEF Alone, F!Functions, F!Handlers
<1>3. Right' BY DEF Right, Chosen, Spinning, Running, Alone, F!CURRENT
<1>4. Turns' BY DEF Turns, Right, Chosen, Spinning, Ticks, Alone
<1>5. Lasts' BY DEF Lasts, Warm, Ticks, Alone, Right, Turns, Running
<1> QED BY <1>1, <1>2, <1>3, <1>4, <1>5

LEMMA FloppyNo ==
  ASSUME Floppies, FloppyInv, F!NoRequest
  PROVE  FloppyInv'
<1> USE FloppyTimes DEF FloppyInv, F!Calls, F!Runs, F!flags, F!motors, F!NoRequest, F!AtRequest,
  F!Seeking
<1>1. FloppyTyped'
  <2> USE DEF FloppyTyped
  <2>1. QueueTyped' BY DEF QueueTyped
  <2>2. ControlTyped' BY DEF ControlTyped, F!Functions, F!Handlers
  <2>3. HeadTyped' BY DEF HeadTyped, F!Nowhere
  <2>4. MotorsTyped' BY DEF MotorsTyped
  <2>5. TimersTyped' BY DEF TimersTyped
  <2>6. (fdc \in FloppyCommands)' OBVIOUS
  <2>7. (changer \in Changers)' OBVIOUS
  <2> QED BY <2>1, <2>2, <2>3, <2>4, <2>5, <2>6, <2>7
<1> USE DEF FloppyTyped, QueueTyped, ControlTyped, HeadTyped, MotorsTyped, TimersTyped
<1>2. Alone' BY DEF Alone, F!Functions, F!Handlers
<1>3. Right' BY DEF Right, Chosen, Spinning, Running, Alone, F!CURRENT
<1>4. Turns' BY DEF Turns, Right, Chosen, Spinning, Ticks, Alone
<1>5. Lasts' BY DEF Lasts, Warm, Ticks, Alone, Right, Turns, Running
<1> QED BY <1>1, <1>2, <1>3, <1>4, <1>5

LEMMA FloppyBad ==
  ASSUME Floppies, FloppyInv, F!BadRequest
  PROVE  FloppyInv'
<1> USE DEF FloppyInv
<1>a. F!CURRENT.drive \in Drives BY FloppyTimes, FloppyCurrent, FloppyRequestTyped DEF F!BadRequest
<1>b. /\ moff_timer' \in [Drives -> 0..F!Never] /\ moff_timer'[F!CURRENT.drive] = Off
      /\ \A d \in Drives \ {F!CURRENT.drive} : moff_timer'[d] = moff_timer[d]
  BY <1>a, FloppyOffTyped DEF F!BadRequest, F!EndRequest, FloppyTyped
<1> USE FloppyTimes, FloppyCurrent, <1>a, <1>b DEF FloppyInv, F!Calls, F!Runs, F!flags,
  F!motors, F!BadRequest, F!AtRequest, F!Seeking, F!EndRequest
<1>1. FloppyTyped'
  <2> USE DEF FloppyTyped
  <2>1. QueueTyped' BY DEF QueueTyped
  <2>2. ControlTyped' BY DEF ControlTyped, F!Functions, F!Handlers
  <2>3. HeadTyped' BY DEF HeadTyped, F!Nowhere
  <2>4. MotorsTyped' BY DEF MotorsTyped
  <2>5. TimersTyped' BY DEF TimersTyped
  <2>6. (fdc \in FloppyCommands)' OBVIOUS
  <2>7. (changer \in Changers)' OBVIOUS
  <2> QED BY <2>1, <2>2, <2>3, <2>4, <2>5, <2>6, <2>7
<1> USE DEF FloppyTyped, QueueTyped, ControlTyped, HeadTyped, MotorsTyped, TimersTyped
<1>2. Alone' BY DEF Alone, F!Functions, F!Handlers
<1>3. Right' BY DEF Right, Chosen, Spinning, Running, Alone, F!CURRENT
<1>4. Turns' BY DEF Turns, Right, Chosen, Spinning, Ticks, Alone
<1>5. Lasts' BY DEF Lasts, Warm, Ticks, Alone, Right, Turns, Running
<1> QED BY <1>1, <1>2, <1>3, <1>4, <1>5

LEMMA FloppyStart ==
  ASSUME Floppies, FloppyInv, F!StartRequest
  PROVE  FloppyInv'
<1> USE DEF FloppyInv
<1>a. /\ floppy_queue # <<>> /\ floppy_queue' = floppy_queue /\ F!CURRENT.track # BadTrack
      /\ current_drive' = F!CURRENT.drive /\ F!CURRENT.drive \in Drives
  BY FloppyTimes, FloppyCurrent, FloppyRequestTyped DEF F!StartRequest
<1>b. timers = {} /\ do_floppy = "none" /\ fdc.cmd = "none" /\ floppy_irq = "none"
  BY DEF F!StartRequest, F!AtRequest, F!Runs, Alone
<1>c. /\ MotorsTyped' /\ F!TicksFor(F!CURRENT.drive) \in 0..SpinUp
      /\ dor'.on = dor.on \cup {F!CURRENT.drive}
      /\ dor'.drive = IF selected THEN dor.drive ELSE F!CURRENT.drive
      /\ mon_timer'[F!CURRENT.drive] = F!TicksFor(F!CURRENT.drive)
      /\ moff_timer'[F!CURRENT.drive] = F!Never
  BY <1>a, FloppyTicksOn DEF F!StartRequest, FloppyTyped
<1>d. /\ TimersTyped' /\ \A t \in timers' : t.fn = "floppy_on_interrupt" /\ t.left = F!TicksFor(F!CURRENT.drive)
      /\ \A t, u \in timers' : t = u
      /\ \/ F!TicksFor(F!CURRENT.drive) = 0 /\ floppy_pc' = "floppy_on_interrupt" /\ timers' = {}
         \/ F!TicksFor(F!CURRENT.drive) > 0 /\ floppy_pc' = "idle" /\ timers' # {}
  BY <1>a, <1>b, <1>c, FloppyAddTimer DEF F!StartRequest
<1>e. /\ seek' \in BOOLEAN
      /\ UNCHANGED <<floppy_queue, do_floppy, floppy_reset, floppy_recalibrate, current_track, selected, ticking,
                   fdc, floppy_irq, at, changer, faults, floppy_ghost>>
  BY DEF F!StartRequest, F!Seeking
<1>4. Turns'
  <2>1. /\ current_drive' = F!CURRENT.drive /\ current_drive' \in dor'.on
        /\ moff_timer'[current_drive'] >= Off
        /\ mon_timer'[current_drive'] \in Nat /\ Ticks' \in {0, 1}
        /\ \A t \in timers' : t.left = mon_timer'[current_drive'] /\ t.left > 0
        /\ floppy_pc' = "floppy_on_interrupt" => mon_timer'[current_drive'] = 0
    BY <1>a, <1>c, <1>d, FloppyTimes DEF Ticks
  <2> QED BY <2>1, FloppyTimes DEF Turns, Spinning
<1> USE FloppyTimes, FloppyCurrent, <1>a, <1>b, <1>c, <1>d, <1>e DEF FloppyInv, F!Calls, F!Runs,
  F!flags, F!motors
<1>1. FloppyTyped'
  <2> USE DEF FloppyTyped
  <2>1. QueueTyped' BY DEF QueueTyped
  <2>2. ControlTyped' BY DEF ControlTyped, F!Functions, F!Handlers
  <2>3. HeadTyped' BY DEF HeadTyped, F!Nowhere
  <2>4. MotorsTyped' BY DEF MotorsTyped
  <2>5. TimersTyped' BY DEF TimersTyped
  <2>6. (fdc \in FloppyCommands)' OBVIOUS
  <2>7. (changer \in Changers)' OBVIOUS
  <2> QED BY <2>1, <2>2, <2>3, <2>4, <2>5, <2>6, <2>7
<1> USE DEF FloppyTyped, QueueTyped, ControlTyped, HeadTyped, MotorsTyped, TimersTyped
<1>2. Alone' BY DEF Alone, F!Functions, F!Handlers
<1>3. Right' BY DEF Right, Chosen, Spinning, Running, Alone, F!CURRENT
<1>5. Lasts' BY DEF Lasts, Warm, Ticks, Alone, Right, Turns, Running
<1> QED BY <1>1, <1>2, <1>3, <1>4, <1>5

LEMMA FloppyOnInt ==
  ASSUME Floppies, FloppyInv, F!FloppyOnInterrupt
  PROVE  FloppyInv'
<1> USE DEF FloppyInv
<1>a. /\ timers = {} /\ do_floppy = "none" /\ fdc.cmd = "none" /\ floppy_irq = "none" /\ Chosen
      /\ floppy_pc = "floppy_on_interrupt" /\ current_drive \in Drives
  BY DEF F!FloppyOnInterrupt, F!Runs, Alone, Right, Spinning, FloppyTyped, HeadTyped
<1>b. /\ TimersTyped' /\ \A t \in timers' : t.fn = "transfer" /\ t.left <= Select /\ t.left \in Nat
      /\ \A t, u \in timers' : t = u
      /\ \/ floppy_pc' = "transfer" /\ timers' = {}
         \/ floppy_pc' = "idle" /\ timers' # {}
  <2>1. CASE dor.drive = current_drive
    <3>1. F!AddTimer(0, "transfer") BY <2>1 DEF F!FloppyOnInterrupt
    <3> QED BY <1>a, <3>1, FloppyAddTimer, FloppyTimes
  <2>2. CASE dor.drive # current_drive
    <3>1. F!AddTimer(Select, "transfer") BY <2>2 DEF F!FloppyOnInterrupt
    <3> QED BY <1>a, <3>1, FloppyAddTimer, FloppyTimes
  <2> QED BY <2>1, <2>2
<1>c. /\ dor' \in [drive : Drives, on : SUBSET Drives] /\ dor'.drive = current_drive /\ dor'.on = dor.on
      /\ selected' = TRUE
      /\ UNCHANGED <<floppy_queue, do_floppy, floppy_reset, floppy_recalibrate, seek, current_drive, current_track,
                   mon_timer, moff_timer, ticking, fdc, floppy_irq, at, changer, faults, floppy_ghost>>
  BY <1>a DEF F!FloppyOnInterrupt, FloppyTyped, MotorsTyped, F!flags
<1>5. Lasts'
  <2>1. /\ current_drive \in dor.on /\ moff_timer[current_drive] >= Off
        /\ mon_timer[current_drive] <= Select /\ moff_timer[current_drive] \in Nat
    BY <1>a, FloppyTimes DEF Turns, Spinning, FloppyTyped, MotorsTyped
  <2>2. (\A n \in 0..(Select + 2) : Warm(n))'
    BY <1>c, <2>1, FloppyTimes DEF Warm, Ticks
  <2>3. fdc'.cmd = "none" /\ do_floppy' = "none" BY <1>a, <1>c
  <2> QED BY <1>b, <2>2, <2>3, FloppyTimes DEF Lasts
<1> USE FloppyTimes, <1>a, <1>b, <1>c DEF FloppyInv, F!Calls, F!Runs, F!flags, F!motors
<1>1. FloppyTyped'
  <2> USE DEF FloppyTyped
  <2>1. QueueTyped' BY DEF QueueTyped
  <2>2. ControlTyped' BY DEF ControlTyped, F!Functions, F!Handlers
  <2>3. HeadTyped' BY DEF HeadTyped, F!Nowhere
  <2>4. MotorsTyped' BY DEF MotorsTyped
  <2>5. TimersTyped' BY DEF TimersTyped
  <2>6. (fdc \in FloppyCommands)' OBVIOUS
  <2>7. (changer \in Changers)' OBVIOUS
  <2> QED BY <2>1, <2>2, <2>3, <2>4, <2>5, <2>6, <2>7
<1> USE DEF FloppyTyped, QueueTyped, ControlTyped, HeadTyped, MotorsTyped, TimersTyped
<1>2. Alone' BY DEF Alone, F!Functions, F!Handlers
<1>3. Right' BY DEF Right, Chosen, Spinning, Running, Alone, F!CURRENT
<1>4. Turns' BY DEF Turns, Right, Chosen, Spinning, Ticks, Alone
<1> QED BY <1>1, <1>2, <1>3, <1>4, <1>5

LEMMA FloppyTransferSeeks ==
  ASSUME Floppies, FloppyInv, seek, ~floppy_reset, F!Transfer
  PROVE  FloppyInv'
<1> USE DEF FloppyInv
<1>a. /\ timers = {} /\ do_floppy = "none" /\ fdc.cmd = "none" /\ floppy_irq = "none" /\ Chosen /\ selected
      /\ dor.drive = current_drive /\ floppy_pc = "transfer"
  BY DEF F!Transfer, F!Runs, Alone, Right, Running
<1>b. F!TheTrack = F!CURRENT.track /\ F!CURRENT.track \in Tracks
  BY <1>a, FloppyTimes, FloppyCurrent, FloppyRequestTyped DEF F!TheTrack, Chosen
<1>c. PICK c \in F!Commands \ {"none", "rw"} : F!Send("seek_interrupt", c, F!TheTrack)
  BY DEF F!Transfer, F!Commands
<1>d. /\ do_floppy' = "seek_interrupt" /\ fdc' \in FloppyCommands /\ floppy_reset' \in BOOLEAN
      /\ \/ /\ fdc'.cmd = c /\ fdc'.track = F!CURRENT.track /\ fdc'.aged = FALSE
            /\ floppy_pc' = "idle" /\ ~floppy_reset /\ ~floppy_reset'
         \/ /\ fdc'.cmd = "none" /\ floppy_pc' = "do_fd_request" /\ floppy_reset' = TRUE
  BY <1>a, <1>b, <1>c, FloppyTimes, FloppySend DEF F!Handlers
<1>e. UNCHANGED <<floppy_queue, floppy_recalibrate, seek, current_drive, current_track, selected, dor, mon_timer,
                   moff_timer, timers, ticking, floppy_irq, at, changer>> /\ floppy_ghost' = floppy_ghost
  BY DEF F!Transfer, F!motors
<1> USE FloppyTimes, <1>a, <1>b, <1>c, <1>d, <1>e DEF FloppyInv, F!Calls, F!Runs, F!flags,
  F!motors
<1>1. FloppyTyped'
  <2> USE DEF FloppyTyped
  <2>1. QueueTyped' BY DEF QueueTyped
  <2>2. ControlTyped' BY DEF ControlTyped, F!Functions, F!Handlers
  <2>3. HeadTyped' BY DEF HeadTyped, F!Nowhere
  <2>4. MotorsTyped' BY DEF MotorsTyped
  <2>5. TimersTyped' BY DEF TimersTyped
  <2>6. (fdc \in FloppyCommands)' OBVIOUS
  <2>7. (changer \in Changers)' OBVIOUS
  <2> QED BY <2>1, <2>2, <2>3, <2>4, <2>5, <2>6, <2>7
<1> USE DEF FloppyTyped, QueueTyped, ControlTyped, HeadTyped, MotorsTyped, TimersTyped
<1>2. Alone' BY DEF Alone, F!Functions, F!Handlers
<1>3. Right' BY DEF Right, Chosen, Spinning, Running, Alone, F!CURRENT
<1>4. Turns' BY DEF Turns, Right, Chosen, Spinning, Ticks, Alone
<1>5. Lasts' BY DEF Lasts, Warm, Ticks, Alone, Right, Turns, Running
<1> QED BY <1>1, <1>2, <1>3, <1>4, <1>5

LEMMA FloppyTransferOn ==
  ASSUME Floppies, FloppyInv, ~(seek /\ ~floppy_reset), F!Transfer
  PROVE  FloppyInv'
<1> USE DEF FloppyInv
<1>a. /\ timers = {} /\ do_floppy = "none" /\ fdc.cmd = "none" /\ floppy_irq = "none" /\ Chosen /\ selected
      /\ dor.drive = current_drive /\ floppy_pc = "transfer"
  BY DEF F!Transfer, F!Runs, Alone, Right, Running
<1>b. /\ floppy_pc' \in {"do_fd_request", "setup_rw_floppy"} /\ UNCHANGED <<do_floppy, floppy_reset, fdc, faults>>
  BY DEF F!Transfer, F!Calls
<1>c. UNCHANGED <<floppy_queue, floppy_recalibrate, seek, current_drive, current_track, selected, dor, mon_timer,
                   moff_timer, timers, ticking, floppy_irq, at, changer>> /\ floppy_ghost' = floppy_ghost
  BY DEF F!Transfer, F!motors
<1> USE FloppyTimes, <1>a, <1>b, <1>c DEF FloppyInv, F!Calls, F!Runs, F!flags, F!motors
<1>1. FloppyTyped'
  <2> USE DEF FloppyTyped
  <2>1. QueueTyped' BY DEF QueueTyped
  <2>2. ControlTyped' BY DEF ControlTyped, F!Functions, F!Handlers
  <2>3. HeadTyped' BY DEF HeadTyped, F!Nowhere
  <2>4. MotorsTyped' BY DEF MotorsTyped
  <2>5. TimersTyped' BY DEF TimersTyped
  <2>6. (fdc \in FloppyCommands)' OBVIOUS
  <2>7. (changer \in Changers)' OBVIOUS
  <2> QED BY <2>1, <2>2, <2>3, <2>4, <2>5, <2>6, <2>7
<1> USE DEF FloppyTyped, QueueTyped, ControlTyped, HeadTyped, MotorsTyped, TimersTyped
<1>2. Alone' BY DEF Alone, F!Functions, F!Handlers
<1>3. Right' BY DEF Right, Chosen, Spinning, Running, Alone, F!CURRENT
<1>4. Turns' BY DEF Turns, Right, Chosen, Spinning, Ticks, Alone
<1>5. Lasts' BY DEF Lasts, Warm, Ticks, Alone, Right, Turns, Running
<1> QED BY <1>1, <1>2, <1>3, <1>4, <1>5

LEMMA FloppySetup ==
  ASSUME Floppies, FloppyInv, F!SetupRwFloppy
  PROVE  FloppyInv'
<1> USE DEF FloppyInv
<1>a. /\ timers = {} /\ do_floppy = "none" /\ fdc.cmd = "none" /\ floppy_irq = "none" /\ Chosen /\ selected
      /\ dor.drive = current_drive /\ floppy_pc = "setup_rw_floppy"
  BY DEF F!SetupRwFloppy, F!Runs, Alone, Right, Running
<1>b. F!TheTrack = F!CURRENT.track /\ F!CURRENT.track \in Tracks
  BY <1>a, FloppyTimes, FloppyCurrent, FloppyRequestTyped DEF F!TheTrack, Chosen
<1>c. /\ do_floppy' = "rw_interrupt" /\ fdc' \in FloppyCommands /\ floppy_reset' \in BOOLEAN
      /\ \/ /\ fdc'.cmd = "rw" /\ fdc'.track = F!CURRENT.track /\ fdc'.aged = FALSE
            /\ floppy_pc' = "idle" /\ ~floppy_reset /\ ~floppy_reset'
         \/ /\ fdc'.cmd = "none" /\ floppy_pc' = "do_fd_request" /\ floppy_reset' = TRUE
  BY <1>a, <1>b, FloppyTimes, FloppySend DEF F!SetupRwFloppy, F!Handlers, F!Commands
<1>d. UNCHANGED <<floppy_queue, floppy_recalibrate, seek, current_drive, current_track, selected, dor, mon_timer,
                   moff_timer, timers, ticking, floppy_irq, at, changer>> /\ floppy_ghost' \in BOOLEAN
  BY DEF F!SetupRwFloppy, F!motors, F!flags, FloppyTyped, HeadTyped
<1> USE FloppyTimes, <1>a, <1>b, <1>c, <1>d DEF FloppyInv, F!Calls, F!Runs, F!flags, F!motors
<1>1. FloppyTyped'
  <2> USE DEF FloppyTyped
  <2>1. QueueTyped' BY DEF QueueTyped
  <2>2. ControlTyped' BY DEF ControlTyped, F!Functions, F!Handlers
  <2>3. HeadTyped' BY DEF HeadTyped, F!Nowhere
  <2>4. MotorsTyped' BY DEF MotorsTyped
  <2>5. TimersTyped' BY DEF TimersTyped
  <2>6. (fdc \in FloppyCommands)' OBVIOUS
  <2>7. (changer \in Changers)' OBVIOUS
  <2> QED BY <2>1, <2>2, <2>3, <2>4, <2>5, <2>6, <2>7
<1> USE DEF FloppyTyped, QueueTyped, ControlTyped, HeadTyped, MotorsTyped, TimersTyped
<1>2. Alone' BY DEF Alone, F!Functions, F!Handlers
<1>3. Right' BY DEF Right, Chosen, Spinning, Running, Alone, F!CURRENT
<1>4. Turns' BY DEF Turns, Right, Chosen, Spinning, Ticks, Alone
<1>5. Lasts' BY DEF Lasts, Warm, Ticks, Alone, Right, Turns, Running
<1> QED BY <1>1, <1>2, <1>3, <1>4, <1>5

\* The interrupts.
LEMMA FloppySeekFails ==
  ASSUME Floppies, FloppyInv, F!SeekFails
  PROVE  FloppyInv'
<1> USE DEF FloppyInv
<1>a. timers = {} /\ fdc.cmd = "none" /\ floppy_pc = "idle"
  BY DEF F!SeekFails, F!Interrupt, Alone
<1>b. floppy_queue # <<>> /\ selected /\ Chosen /\ dor.drive = current_drive /\ do_floppy # "none"
  BY <1>a DEF F!SeekFails, F!Interrupt, Alone, Right, Running
<1>c. \/ F!EndRequest /\ F!Deselect
      \/ /\ floppy_queue' \in Seq(FloppyRequests) /\ Len(floppy_queue') <= MaxQueue
         /\ floppy_queue' # <<>> /\ Head(floppy_queue').drive = F!CURRENT.drive
         /\ Head(floppy_queue').track = F!CURRENT.track
         /\ UNCHANGED <<moff_timer, selected, changer>>
  <2>1. F!CURRENT \in FloppyRequests /\ FloppyErrors \in Nat BY <1>b, FloppyTimes, FloppyCurrent
  <2>2. CASE F!BadFlp /\ ~F!GivenUp(F!Counted)
    <3>1. F!Counted \in FloppyRequests
      BY <2>1, <2>2 DEF F!Counted, F!GivenUp, FloppyRequests
    <3>2. F!Counted.drive = F!CURRENT.drive /\ F!Counted.track = F!CURRENT.track
      BY <2>1 DEF F!Counted, FloppyRequests
    <3>3. floppy_queue' = <<F!Counted>> \o Tail(floppy_queue)
          /\ UNCHANGED <<moff_timer, selected, changer>>
      BY <2>2 DEF F!BadFlp, F!NotDeselected
    <3> QED BY <1>b, <3>1, <3>2, <3>3, FloppyCounted
  <2>3. CASE F!BadFlp /\ F!GivenUp(F!Counted) BY <2>3 DEF F!BadFlp
  <2> QED BY <2>2, <2>3 DEF F!SeekFails
<1>d. floppy_reset' \in BOOLEAN /\ floppy_recalibrate' \in BOOLEAN
  BY DEF F!SeekFails, F!BadFlp, FloppyTyped, ControlTyped
<1>e. /\ F!EndRequest /\ F!Deselect => 
         /\ floppy_queue' \in Seq(FloppyRequests) /\ Len(floppy_queue') <= MaxQueue
         /\ moff_timer' \in [Drives -> 0..F!Never] /\ selected' = FALSE /\ changer' \in Changers
  <2>1. F!CURRENT.drive \in Drives BY <1>b, FloppyTimes, FloppyCurrent, FloppyRequestTyped
  <2>2. F!EndRequest => moff_timer' \in [Drives -> 0..F!Never]
    BY <2>1, FloppyOffTyped DEF F!EndRequest, FloppyTyped
  <2>3. F!EndRequest => floppy_queue' \in Seq(FloppyRequests) /\ Len(floppy_queue') <= MaxQueue
    BY <1>b, FloppyTimes, FloppyCurrent DEF F!EndRequest
  <2>4. F!Deselect => selected' = FALSE /\ changer' \in Changers
    BY DEF F!Deselect, F!Awake, FloppyTyped, Changers
  <2> QED BY <2>2, <2>3, <2>4
<1>f. floppy_irq' = "none" /\ do_floppy' = "none" /\ floppy_pc' = "do_fd_request"
  BY DEF F!SeekFails, F!Calls
<1>g. UNCHANGED <<seek, current_drive, current_track, dor, mon_timer, timers, ticking,
               fdc, at, faults, floppy_ghost>>
  BY DEF F!SeekFails, F!motors, F!flags
<1> USE FloppyTimes, <1>a, <1>b, <1>c, <1>d, <1>e, <1>f, <1>g DEF FloppyInv, F!Calls, F!Runs,
  F!flags, F!motors
<1>1. FloppyTyped'
  <2> USE DEF FloppyTyped
  <2>1. QueueTyped' BY DEF QueueTyped
  <2>2. ControlTyped' BY DEF ControlTyped, F!Functions, F!Handlers
  <2>3. HeadTyped' BY DEF HeadTyped, F!Nowhere
  <2>4. MotorsTyped' BY DEF MotorsTyped
  <2>5. TimersTyped' BY DEF TimersTyped
  <2>6. (fdc \in FloppyCommands)' OBVIOUS
  <2>7. (changer \in Changers)' OBVIOUS
  <2> QED BY <2>1, <2>2, <2>3, <2>4, <2>5, <2>6, <2>7
<1> USE DEF FloppyTyped, QueueTyped, ControlTyped, HeadTyped, MotorsTyped, TimersTyped
<1>2. Alone' BY DEF Alone, F!Functions, F!Handlers
<1>3. Right' BY DEF Right, Chosen, Spinning, Running, Alone, F!CURRENT
<1>4. Turns' BY DEF Turns, Right, Chosen, Spinning, Ticks, Alone
<1>5. Lasts' BY DEF Lasts, Warm, Ticks, Alone, Right, Turns, Running
<1> QED BY <1>1, <1>2, <1>3, <1>4, <1>5

LEMMA FloppyRwFails ==
  ASSUME Floppies, FloppyInv, F!RwFails
  PROVE  FloppyInv'
<1> USE DEF FloppyInv
<1>a. timers = {} /\ fdc.cmd = "none" /\ floppy_pc = "idle"
  BY DEF F!RwFails, F!Interrupt, Alone
<1>b. floppy_queue # <<>> /\ selected /\ Chosen /\ dor.drive = current_drive /\ do_floppy # "none"
  BY <1>a DEF F!RwFails, F!Interrupt, Alone, Right, Running
<1>c. \/ F!EndRequest /\ F!Deselect
      \/ /\ floppy_queue' \in Seq(FloppyRequests) /\ Len(floppy_queue') <= MaxQueue
         /\ floppy_queue' # <<>> /\ Head(floppy_queue').drive = F!CURRENT.drive
         /\ Head(floppy_queue').track = F!CURRENT.track
         /\ UNCHANGED <<moff_timer, selected, changer>>
  <2>1. F!CURRENT \in FloppyRequests /\ FloppyErrors \in Nat BY <1>b, FloppyTimes, FloppyCurrent
  <2>2. CASE F!BadFlp /\ ~F!GivenUp(F!Counted)
    <3>1. F!Counted \in FloppyRequests
      BY <2>1, <2>2 DEF F!Counted, F!GivenUp, FloppyRequests
    <3>2. F!Counted.drive = F!CURRENT.drive /\ F!Counted.track = F!CURRENT.track
      BY <2>1 DEF F!Counted, FloppyRequests
    <3>3. floppy_queue' = <<F!Counted>> \o Tail(floppy_queue)
          /\ UNCHANGED <<moff_timer, selected, changer>>
      BY <2>2 DEF F!BadFlp, F!NotDeselected
    <3> QED BY <1>b, <3>1, <3>2, <3>3, FloppyCounted
  <2>3. CASE F!BadFlp /\ F!GivenUp(F!Counted) BY <2>3 DEF F!BadFlp
  <2> QED BY <2>2, <2>3 DEF F!RwFails
<1>d. floppy_reset' \in BOOLEAN /\ floppy_recalibrate' \in BOOLEAN
  BY DEF F!RwFails, F!BadFlp, FloppyTyped, ControlTyped
<1>e. /\ F!EndRequest /\ F!Deselect => 
         /\ floppy_queue' \in Seq(FloppyRequests) /\ Len(floppy_queue') <= MaxQueue
         /\ moff_timer' \in [Drives -> 0..F!Never] /\ selected' = FALSE /\ changer' \in Changers
  <2>1. F!CURRENT.drive \in Drives BY <1>b, FloppyTimes, FloppyCurrent, FloppyRequestTyped
  <2>2. F!EndRequest => moff_timer' \in [Drives -> 0..F!Never]
    BY <2>1, FloppyOffTyped DEF F!EndRequest, FloppyTyped
  <2>3. F!EndRequest => floppy_queue' \in Seq(FloppyRequests) /\ Len(floppy_queue') <= MaxQueue
    BY <1>b, FloppyTimes, FloppyCurrent DEF F!EndRequest
  <2>4. F!Deselect => selected' = FALSE /\ changer' \in Changers
    BY DEF F!Deselect, F!Awake, FloppyTyped, Changers
  <2> QED BY <2>2, <2>3, <2>4
<1>f. floppy_irq' = "none" /\ do_floppy' = "none" /\ floppy_pc' = "do_fd_request"
  BY DEF F!RwFails, F!Calls
<1>g. UNCHANGED <<seek, current_drive, current_track, dor, mon_timer, timers, ticking,
               fdc, at, faults, floppy_ghost>>
  BY DEF F!RwFails, F!motors, F!flags
<1> USE FloppyTimes, <1>a, <1>b, <1>c, <1>d, <1>e, <1>f, <1>g DEF FloppyInv, F!Calls, F!Runs,
  F!flags, F!motors
<1>1. FloppyTyped'
  <2> USE DEF FloppyTyped
  <2>1. QueueTyped' BY DEF QueueTyped
  <2>2. ControlTyped' BY DEF ControlTyped, F!Functions, F!Handlers
  <2>3. HeadTyped' BY DEF HeadTyped, F!Nowhere
  <2>4. MotorsTyped' BY DEF MotorsTyped
  <2>5. TimersTyped' BY DEF TimersTyped
  <2>6. (fdc \in FloppyCommands)' OBVIOUS
  <2>7. (changer \in Changers)' OBVIOUS
  <2> QED BY <2>1, <2>2, <2>3, <2>4, <2>5, <2>6, <2>7
<1> USE DEF FloppyTyped, QueueTyped, ControlTyped, HeadTyped, MotorsTyped, TimersTyped
<1>2. Alone' BY DEF Alone, F!Functions, F!Handlers
<1>3. Right' BY DEF Right, Chosen, Spinning, Running, Alone, F!CURRENT
<1>4. Turns' BY DEF Turns, Right, Chosen, Spinning, Ticks, Alone
<1>5. Lasts' BY DEF Lasts, Warm, Ticks, Alone, Right, Turns, Running
<1> QED BY <1>1, <1>2, <1>3, <1>4, <1>5

LEMMA FloppySeekInterrupt ==
  ASSUME Floppies, FloppyInv, F!SeekInterrupt
  PROVE  FloppyInv'
<1> USE DEF FloppyInv
<1>a. timers = {} /\ fdc.cmd = "none" /\ floppy_pc = "idle"
  BY DEF F!SeekInterrupt, F!Interrupt, Alone
<1>b. selected /\ Chosen /\ dor.drive = current_drive
  BY <1>a DEF F!SeekInterrupt, F!Interrupt, Right, Running
<1>c. F!TheTrack \in Tracks
  BY <1>b, FloppyTimes, FloppyCurrent, FloppyRequestTyped DEF F!TheTrack, Chosen
<1> USE FloppyTimes, <1>a, <1>b, <1>c DEF FloppyInv, F!Calls, F!Runs, F!flags, F!motors,
  F!SeekInterrupt, F!Interrupt
<1>1. FloppyTyped'
  <2> USE DEF FloppyTyped
  <2>1. QueueTyped' BY DEF QueueTyped
  <2>2. ControlTyped' BY DEF ControlTyped, F!Functions, F!Handlers
  <2>3. HeadTyped' BY DEF HeadTyped, F!Nowhere
  <2>4. MotorsTyped' BY DEF MotorsTyped
  <2>5. TimersTyped' BY DEF TimersTyped
  <2>6. (fdc \in FloppyCommands)' OBVIOUS
  <2>7. (changer \in Changers)' OBVIOUS
  <2> QED BY <2>1, <2>2, <2>3, <2>4, <2>5, <2>6, <2>7
<1> USE DEF FloppyTyped, QueueTyped, ControlTyped, HeadTyped, MotorsTyped, TimersTyped
<1>2. Alone' BY DEF Alone, F!Functions, F!Handlers
<1>3. Right' BY DEF Right, Chosen, Spinning, Running, Alone, F!CURRENT
<1>4. Turns' BY DEF Turns, Right, Chosen, Spinning, Ticks, Alone
<1>5. Lasts' BY DEF Lasts, Warm, Ticks, Alone, Right, Turns, Running
<1> QED BY <1>1, <1>2, <1>3, <1>4, <1>5

LEMMA FloppyRwInterrupt ==
  ASSUME Floppies, FloppyInv, F!RwInterrupt
  PROVE  FloppyInv'
<1> USE DEF FloppyInv
<1>a. timers = {} /\ fdc.cmd = "none" /\ floppy_pc = "idle"
  BY DEF F!RwInterrupt, F!Interrupt, Alone
<1>b. floppy_queue # <<>> /\ F!EndRequest /\ F!Deselect
  BY DEF F!RwInterrupt
<1>c. /\ F!EndRequest /\ F!Deselect => 
         /\ floppy_queue' \in Seq(FloppyRequests) /\ Len(floppy_queue') <= MaxQueue
         /\ moff_timer' \in [Drives -> 0..F!Never] /\ selected' = FALSE /\ changer' \in Changers
  <2>1. F!CURRENT.drive \in Drives BY <1>b, FloppyTimes, FloppyCurrent, FloppyRequestTyped
  <2>2. F!EndRequest => moff_timer' \in [Drives -> 0..F!Never]
    BY <2>1, FloppyOffTyped DEF F!EndRequest, FloppyTyped
  <2>3. F!EndRequest => floppy_queue' \in Seq(FloppyRequests) /\ Len(floppy_queue') <= MaxQueue
    BY <1>b, FloppyTimes, FloppyCurrent DEF F!EndRequest
  <2>4. F!Deselect => selected' = FALSE /\ changer' \in Changers
    BY DEF F!Deselect, F!Awake, FloppyTyped, Changers
  <2> QED BY <2>2, <2>3, <2>4
<1>d. floppy_irq' = "none" /\ do_floppy' = "none" /\ floppy_pc' = "do_fd_request"
  BY DEF F!RwInterrupt, F!Calls
<1>e. UNCHANGED <<floppy_reset, floppy_recalibrate, seek, current_drive, current_track, dor, mon_timer, timers, ticking,
               fdc, at, faults, floppy_ghost>>
  BY DEF F!RwInterrupt, F!motors, F!flags
<1> USE FloppyTimes, <1>a, <1>b, <1>c, <1>d, <1>e DEF FloppyInv, F!Calls, F!Runs, F!flags,
  F!motors
<1>1. FloppyTyped'
  <2> USE DEF FloppyTyped
  <2>1. QueueTyped' BY DEF QueueTyped
  <2>2. ControlTyped' BY DEF ControlTyped, F!Functions, F!Handlers
  <2>3. HeadTyped' BY DEF HeadTyped, F!Nowhere
  <2>4. MotorsTyped' BY DEF MotorsTyped
  <2>5. TimersTyped' BY DEF TimersTyped
  <2>6. (fdc \in FloppyCommands)' OBVIOUS
  <2>7. (changer \in Changers)' OBVIOUS
  <2> QED BY <2>1, <2>2, <2>3, <2>4, <2>5, <2>6, <2>7
<1> USE DEF FloppyTyped, QueueTyped, ControlTyped, HeadTyped, MotorsTyped, TimersTyped
<1>2. Alone' BY DEF Alone, F!Functions, F!Handlers
<1>3. Right' BY DEF Right, Chosen, Spinning, Running, Alone, F!CURRENT
<1>4. Turns' BY DEF Turns, Right, Chosen, Spinning, Ticks, Alone
<1>5. Lasts' BY DEF Lasts, Warm, Ticks, Alone, Right, Turns, Running
<1> QED BY <1>1, <1>2, <1>3, <1>4, <1>5

LEMMA FloppyRecalInterrupt ==
  ASSUME Floppies, FloppyInv, F!RecalInterrupt
  PROVE  FloppyInv'
<1> USE DEF FloppyInv
<1>a. timers = {} /\ fdc.cmd = "none" /\ floppy_pc = "idle"
  BY DEF F!RecalInterrupt, F!Interrupt, Alone
<1> USE FloppyTimes, <1>a DEF FloppyInv, F!Calls, F!Runs, F!flags, F!motors, F!RecalInterrupt,
  F!Interrupt
<1>1. FloppyTyped'
  <2> USE DEF FloppyTyped
  <2>1. QueueTyped' BY DEF QueueTyped
  <2>2. ControlTyped' BY DEF ControlTyped, F!Functions, F!Handlers
  <2>3. HeadTyped' BY DEF HeadTyped, F!Nowhere
  <2>4. MotorsTyped' BY DEF MotorsTyped
  <2>5. TimersTyped' BY DEF TimersTyped
  <2>6. (fdc \in FloppyCommands)' OBVIOUS
  <2>7. (changer \in Changers)' OBVIOUS
  <2> QED BY <2>1, <2>2, <2>3, <2>4, <2>5, <2>6, <2>7
<1> USE DEF FloppyTyped, QueueTyped, ControlTyped, HeadTyped, MotorsTyped, TimersTyped
<1>2. Alone' BY DEF Alone, F!Functions, F!Handlers
<1>3. Right' BY DEF Right, Chosen, Spinning, Running, Alone, F!CURRENT
<1>4. Turns' BY DEF Turns, Right, Chosen, Spinning, Ticks, Alone
<1>5. Lasts' BY DEF Lasts, Warm, Ticks, Alone, Right, Turns, Running
<1> QED BY <1>1, <1>2, <1>3, <1>4, <1>5

LEMMA FloppyResetInterrupt ==
  ASSUME Floppies, FloppyInv, F!ResetInterrupt
  PROVE  FloppyInv'
<1> USE DEF FloppyInv
<1>a. timers = {} /\ fdc.cmd = "none" /\ floppy_pc = "idle"
  BY DEF F!ResetInterrupt, F!Interrupt, Alone
<1> USE FloppyTimes, <1>a DEF FloppyInv, F!Calls, F!Runs, F!flags, F!motors, F!ResetInterrupt,
  F!Interrupt
<1>1. FloppyTyped'
  <2> USE DEF FloppyTyped
  <2>1. QueueTyped' BY DEF QueueTyped
  <2>2. ControlTyped' BY DEF ControlTyped, F!Functions, F!Handlers
  <2>3. HeadTyped' BY DEF HeadTyped, F!Nowhere
  <2>4. MotorsTyped' BY DEF MotorsTyped
  <2>5. TimersTyped' BY DEF TimersTyped
  <2>6. (fdc \in FloppyCommands)' OBVIOUS
  <2>7. (changer \in Changers)' OBVIOUS
  <2> QED BY <2>1, <2>2, <2>3, <2>4, <2>5, <2>6, <2>7
<1> USE DEF FloppyTyped, QueueTyped, ControlTyped, HeadTyped, MotorsTyped, TimersTyped
<1>2. Alone' BY DEF Alone, F!Functions, F!Handlers
<1>3. Right' BY DEF Right, Chosen, Spinning, Running, Alone, F!CURRENT
<1>4. Turns' BY DEF Turns, Right, Chosen, Spinning, Ticks, Alone
<1>5. Lasts' BY DEF Lasts, Warm, Ticks, Alone, Right, Turns, Running
<1> QED BY <1>1, <1>2, <1>3, <1>4, <1>5

LEMMA FloppyUnexpected ==
  ASSUME Floppies, FloppyInv, F!Unexpected
  PROVE  FloppyInv'
<1> USE FloppyTimes DEF FloppyInv, F!Calls, F!Runs, F!flags, F!motors, F!Unexpected, F!Interrupt
<1>1. FloppyTyped'
  <2> USE DEF FloppyTyped
  <2>1. QueueTyped' BY DEF QueueTyped
  <2>2. ControlTyped' BY DEF ControlTyped, F!Functions, F!Handlers
  <2>3. HeadTyped' BY DEF HeadTyped, F!Nowhere
  <2>4. MotorsTyped' BY DEF MotorsTyped
  <2>5. TimersTyped' BY DEF TimersTyped
  <2>6. (fdc \in FloppyCommands)' OBVIOUS
  <2>7. (changer \in Changers)' OBVIOUS
  <2> QED BY <2>1, <2>2, <2>3, <2>4, <2>5, <2>6, <2>7
<1> USE DEF FloppyTyped, QueueTyped, ControlTyped, HeadTyped, MotorsTyped, TimersTyped
<1>2. Alone' BY DEF Alone, F!Functions, F!Handlers
<1>3. Right' BY DEF Right, Chosen, Spinning, Running, Alone, F!CURRENT
<1>4. Turns' BY DEF Turns, Right, Chosen, Spinning, Ticks, Alone
<1>5. Lasts' BY DEF Lasts, Warm, Ticks, Alone, Right, Turns, Running
<1> QED BY <1>1, <1>2, <1>3, <1>4, <1>5

\* The controller, the requests and floppy_change().
\* While a request is served its motor is only given time.
LEMMA FloppyKept ==
  ASSUME Floppies, FloppyInv,
         /\ dor.on \subseteq dor'.on
         /\ \A d \in dor.on : /\ mon_timer'[d] \in {mon_timer[d], Select} /\ mon_timer[d] <= mon_timer'[d]
                              /\ moff_timer'[d] \in {moff_timer[d], Off, F!Never},
         UNCHANGED <<floppy_pc, do_floppy, current_drive, timers, ticking, fdc, floppy_irq>>
  PROVE  Turns' /\ Lasts'
<1> USE DEF FloppyInv
<1>1. /\ mon_timer[current_drive] \in Nat /\ moff_timer[current_drive] \in Nat
      /\ Ticks \in {0, 1} /\ Ticks' = Ticks
      /\ \A t \in timers : t.left \in Nat /\ (t.fn = "transfer" => t.left <= Select)
  BY FloppyTimes
     DEF FloppyTyped, HeadTyped, MotorsTyped, TimersTyped, FloppyTimers, Ticks
<1>2. current_drive \in dor.on =>
        /\ current_drive \in dor'.on
        /\ mon_timer'[current_drive] \in {mon_timer[current_drive], Select}
        /\ mon_timer[current_drive] <= mon_timer'[current_drive]
        /\ moff_timer'[current_drive] \in {moff_timer[current_drive], Off, F!Never}
  OBVIOUS
<1>3. Spinning' = Spinning BY DEF Spinning
<1>4. Turns'
  <2>1. Spinning => current_drive \in dor.on /\ moff_timer[current_drive] >= Off BY DEF Turns
  <2>2. (Spinning => current_drive \in dor.on /\ moff_timer[current_drive] >= Off)'
    BY <1>1, <1>2, <1>3, <2>1, FloppyTimes
  <2>3. (floppy_pc = "floppy_on_interrupt" => mon_timer[current_drive] <= Select)'
    BY <1>1, <1>2, <2>1, FloppyTimes DEF Turns, Spinning
  <2>4. ASSUME NEW t \in timers, t.fn = "floppy_on_interrupt"
        PROVE  /\ mon_timer'[current_drive] + 1 >= t.left + Ticks
               /\ mon_timer'[current_drive] <= Select \/ mon_timer'[current_drive] <= t.left + Ticks
    <3>1. /\ mon_timer[current_drive] + 1 >= t.left + Ticks
          /\ mon_timer[current_drive] <= Select \/ mon_timer[current_drive] <= t.left + Ticks
      BY <2>4 DEF Turns
    <3>2. current_drive \in dor.on BY <2>1, <2>4 DEF Spinning
    <3> QED BY <1>1, <1>2, <3>1, <3>2, FloppyTimes
  <2> QED BY <1>1, <2>2, <2>3, <2>4 DEF Turns
<1>5. Lasts'
  <2>1. ASSUME NEW n \in 0..(Select + 2), Warm(n) PROVE Warm(n)'
    BY <1>1, <1>2, <2>1, FloppyTimes DEF Warm
  <2>2. \A t \in timers : t.fn = "transfer" => Warm(t.left + 2)'
    BY <1>1, <2>1, FloppyTimes DEF Lasts
  <2> QED BY <2>1, <2>2, FloppyTimes DEF Lasts
<1> QED BY <1>4, <1>5

LEMMA FloppyDone ==
  ASSUME Floppies, FloppyInv, F!Done
  PROVE  FloppyInv'
<1> USE DEF FloppyInv
<1>a. /\ fdc.cmd # "none" /\ floppy_pc = "idle" /\ timers = {} /\ do_floppy # "none" /\ floppy_irq = "none"
  BY DEF F!Done, Alone
<1>b. /\ fdc' \in FloppyCommands /\ fdc'.cmd = "none"
  BY FloppyNoCommand DEF F!Done
<1>c. at' \in [Drives -> Tracks]
  <2>1. fdc.track \in Tracks BY DEF FloppyTyped, FloppyCommands
  <2>2. [at EXCEPT ![dor.drive] = fdc.track] \in [Drives -> Tracks]
    BY <2>1 DEF FloppyTyped, HeadTyped
  <2> QED BY <2>2 DEF F!Done, FloppyTyped, HeadTyped
<1>d. floppy_irq' \in {"ok", "bad", "protected", "silent"}
  BY DEF F!Done
<1>e. UNCHANGED <<floppy_queue, floppy_pc, do_floppy, floppy_reset, floppy_recalibrate, seek, current_drive,
               current_track, selected, dor, mon_timer, moff_timer, timers, ticking, changer, floppy_ghost>>
  BY DEF F!Done, F!flags, F!motors
<1> USE FloppyTimes, <1>a, <1>b, <1>c, <1>d, <1>e DEF FloppyInv, F!Calls, F!Runs, F!flags,
  F!motors
<1>1. FloppyTyped'
  <2> USE DEF FloppyTyped
  <2>1. QueueTyped' BY DEF QueueTyped
  <2>2. ControlTyped' BY DEF ControlTyped, F!Functions, F!Handlers
  <2>3. HeadTyped' BY DEF HeadTyped, F!Nowhere
  <2>4. MotorsTyped' BY DEF MotorsTyped
  <2>5. TimersTyped' BY DEF TimersTyped
  <2>6. (fdc \in FloppyCommands)' OBVIOUS
  <2>7. (changer \in Changers)' OBVIOUS
  <2> QED BY <2>1, <2>2, <2>3, <2>4, <2>5, <2>6, <2>7
<1> USE DEF FloppyTyped, QueueTyped, ControlTyped, HeadTyped, MotorsTyped, TimersTyped
<1>2. Alone' BY DEF Alone, F!Functions, F!Handlers
<1>3. Right' BY DEF Right, Chosen, Spinning, Running, Alone, F!CURRENT
<1>4. Turns' BY DEF Turns, Right, Chosen, Spinning, Ticks, Alone
<1>5. Lasts' BY DEF Lasts, Warm, Ticks, Alone, Right, Turns, Running
<1> QED BY <1>1, <1>2, <1>3, <1>4, <1>5

LEMMA FloppySpurious ==
  ASSUME Floppies, FloppyInv, F!Spurious
  PROVE  FloppyInv'
<1> USE FloppyTimes DEF FloppyInv, F!Calls, F!Runs, F!flags, F!motors, F!Spurious, F!Fault
<1>1. FloppyTyped'
  <2> USE DEF FloppyTyped
  <2>1. QueueTyped' BY DEF QueueTyped
  <2>2. ControlTyped' BY DEF ControlTyped, F!Functions, F!Handlers
  <2>3. HeadTyped' BY DEF HeadTyped, F!Nowhere
  <2>4. MotorsTyped' BY DEF MotorsTyped
  <2>5. TimersTyped' BY DEF TimersTyped
  <2>6. (fdc \in FloppyCommands)' OBVIOUS
  <2>7. (changer \in Changers)' OBVIOUS
  <2> QED BY <2>1, <2>2, <2>3, <2>4, <2>5, <2>6, <2>7
<1> USE DEF FloppyTyped, QueueTyped, ControlTyped, HeadTyped, MotorsTyped, TimersTyped
<1>2. Alone' BY DEF Alone, F!Functions, F!Handlers
<1>3. Right' BY DEF Right, Chosen, Spinning, Running, Alone, F!CURRENT
<1>4. Turns' BY DEF Turns, Right, Chosen, Spinning, Ticks, Alone
<1>5. Lasts' BY DEF Lasts, Warm, Ticks, Alone, Right, Turns, Running
<1> QED BY <1>1, <1>2, <1>3, <1>4, <1>5

LEMMA FloppyAdd ==
  ASSUME Floppies, FloppyInv, NEW d \in Drives, NEW t \in Tracks \cup {BadTrack},
         F!Add(d, t)
  PROVE  FloppyInv'
<1> USE DEF FloppyInv
<1>a. /\ floppy_pc = "idle" /\ Len(floppy_queue) < MaxQueue
      /\ floppy_queue' = Append(floppy_queue, [drive |-> d, track |-> t, errors |-> 0])
      /\ IF floppy_queue = <<>> THEN floppy_pc' = "do_fd_request" ELSE floppy_pc' = floppy_pc
      /\ UNCHANGED <<do_floppy, floppy_reset, floppy_recalibrate, seek, current_drive, current_track, selected,
                     dor, mon_timer, moff_timer, timers, ticking, fdc, floppy_irq, at, changer, faults, floppy_ghost>>
  BY DEF F!Add, F!Calls, F!flags, F!motors
<1>b. floppy_queue = <<>> => do_floppy = "none" /\ fdc.cmd = "none" /\ floppy_irq = "none" /\ timers = {}
  BY DEF F!Add, F!Recovering, Floppies
<1>c. [drive |-> d, track |-> t, errors |-> 0] \in FloppyRequests
  BY FloppyTimes DEF FloppyRequests
<1>d. /\ floppy_queue' \in Seq(FloppyRequests) /\ Len(floppy_queue') <= MaxQueue /\ floppy_queue' # <<>>
      /\ floppy_queue # <<>> => Head(floppy_queue') = F!CURRENT
  BY <1>a, <1>c, FloppyAppend, FloppyTimes
<1> USE FloppyTimes, <1>a, <1>b, <1>c, <1>d DEF FloppyInv, F!Calls, F!Runs, F!flags, F!motors
<1>1. FloppyTyped'
  <2> USE DEF FloppyTyped
  <2>1. QueueTyped' BY DEF QueueTyped
  <2>2. ControlTyped' BY DEF ControlTyped, F!Functions, F!Handlers
  <2>3. HeadTyped' BY DEF HeadTyped, F!Nowhere
  <2>4. MotorsTyped' BY DEF MotorsTyped
  <2>5. TimersTyped' BY DEF TimersTyped
  <2>6. (fdc \in FloppyCommands)' OBVIOUS
  <2>7. (changer \in Changers)' OBVIOUS
  <2> QED BY <2>1, <2>2, <2>3, <2>4, <2>5, <2>6, <2>7
<1> USE DEF FloppyTyped, QueueTyped, ControlTyped, HeadTyped, MotorsTyped, TimersTyped
<1>2. Alone' BY DEF Alone, F!Functions, F!Handlers
<1>3. Right' BY DEF Right, Chosen, Spinning, Running, Alone, F!CURRENT
<1>4. Turns' BY DEF Turns, Right, Chosen, Spinning, Ticks, Alone
<1>5. Lasts' BY DEF Lasts, Warm, Ticks, Alone, Right, Turns, Running
<1> QED BY <1>1, <1>2, <1>3, <1>4, <1>5

LEMMA FloppyChange ==
  ASSUME Floppies, FloppyInv, NEW nr \in Drives, F!Change(nr)
  PROVE  FloppyInv'
<1> USE DEF FloppyInv
<1>a. changer' \in Changers BY DEF F!Change, FloppyTyped, Changers
<1>b. UNCHANGED <<floppy_queue, floppy_pc, do_floppy, floppy_reset, floppy_recalibrate, seek,
                   current_drive, current_track, selected, timers, ticking, fdc, floppy_irq, at,
                   faults>>
      /\ floppy_ghost' = floppy_ghost /\ dor' = dor /\ mon_timer' = mon_timer /\ moff_timer' = moff_timer
  BY DEF F!Change, F!Only, F!flags
<1> USE FloppyTimes, <1>a, <1>b DEF FloppyInv, F!Calls, F!Runs, F!flags, F!motors
<1>1. FloppyTyped'
  <2> USE DEF FloppyTyped
  <2>1. QueueTyped' BY DEF QueueTyped
  <2>2. ControlTyped' BY DEF ControlTyped, F!Functions, F!Handlers
  <2>3. HeadTyped' BY DEF HeadTyped, F!Nowhere
  <2>4. MotorsTyped' BY DEF MotorsTyped
  <2>5. TimersTyped' BY DEF TimersTyped
  <2>6. (fdc \in FloppyCommands)' OBVIOUS
  <2>7. (changer \in Changers)' OBVIOUS
  <2> QED BY <2>1, <2>2, <2>3, <2>4, <2>5, <2>6, <2>7
<1> USE DEF FloppyTyped, QueueTyped, ControlTyped, HeadTyped, MotorsTyped, TimersTyped
<1>2. Alone' BY DEF Alone, F!Functions, F!Handlers
<1>3. Right' BY DEF Right, Chosen, Spinning, Running, Alone, F!CURRENT
<1>4. Turns' BY DEF Turns, Right, Chosen, Spinning, Ticks, Alone
<1>5. Lasts' BY DEF Lasts, Warm, Ticks, Alone, Right, Turns, Running
<1> QED BY <1>1, <1>2, <1>3, <1>4, <1>5

LEMMA FloppyProcessOn ==
  ASSUME Floppies, FloppyInv, F!FloppyOn
  PROVE  FloppyInv'
<1> USE DEF FloppyInv
<1>a. changer.nr \in Drives /\ changer' \in Changers BY DEF F!FloppyOn, FloppyTyped, Changers
<1>b. /\ dor' \in [drive : Drives, on : SUBSET Drives] /\ mon_timer' \in [Drives -> 0..SpinUp]
      /\ moff_timer' \in [Drives -> 0..F!Never]
      /\ dor.on \subseteq dor'.on /\ (selected => dor'.drive = dor.drive)
      /\ \A d \in dor.on : /\ mon_timer'[d] \in {mon_timer[d], Select} /\ mon_timer[d] <= mon_timer'[d]
                            /\ moff_timer'[d] \in {moff_timer[d], Off, F!Never}
  BY <1>a, FloppyTicksOn DEF F!FloppyOn, FloppyTyped, MotorsTyped
<1>c. UNCHANGED <<floppy_queue, floppy_pc, do_floppy, floppy_reset, floppy_recalibrate, seek,
                   current_drive, current_track, selected, timers, ticking, fdc, floppy_irq, at,
                   faults>> /\ floppy_ghost' = floppy_ghost
  BY DEF F!FloppyOn, F!Only, F!flags
<1>4. Turns'
  BY <1>b, <1>c, FloppyKept
<1>5. Lasts'
  BY <1>b, <1>c, FloppyKept
<1> USE FloppyTimes, <1>a, <1>b, <1>c DEF FloppyInv, F!Calls, F!Runs, F!flags, F!motors
<1>1. FloppyTyped'
  <2> USE DEF FloppyTyped
  <2>1. QueueTyped' BY DEF QueueTyped
  <2>2. ControlTyped' BY DEF ControlTyped, F!Functions, F!Handlers
  <2>3. HeadTyped' BY DEF HeadTyped, F!Nowhere
  <2>4. MotorsTyped' BY DEF MotorsTyped
  <2>5. TimersTyped' BY DEF TimersTyped
  <2>6. (fdc \in FloppyCommands)' OBVIOUS
  <2>7. (changer \in Changers)' OBVIOUS
  <2> QED BY <2>1, <2>2, <2>3, <2>4, <2>5, <2>6, <2>7
<1> USE DEF FloppyTyped, QueueTyped, ControlTyped, HeadTyped, MotorsTyped, TimersTyped
<1>2. Alone' BY DEF Alone, F!Functions, F!Handlers
<1>3. Right' BY DEF Right, Chosen, Spinning, Running, Alone, F!CURRENT
<1> QED BY <1>1, <1>2, <1>3, <1>4, <1>5

LEMMA FloppyProcessWaitSelect ==
  ASSUME Floppies, FloppyInv, F!WaitSelect
  PROVE  FloppyInv'
<1> USE DEF FloppyInv
<1>a. changer' \in Changers BY DEF F!WaitSelect, FloppyTyped, Changers
<1>b. UNCHANGED <<floppy_queue, floppy_pc, do_floppy, floppy_reset, floppy_recalibrate, seek,
                   current_drive, current_track, selected, timers, ticking, fdc, floppy_irq, at,
                   faults>>
      /\ floppy_ghost' = floppy_ghost /\ dor' = dor /\ mon_timer' = mon_timer /\ moff_timer' = moff_timer
  BY DEF F!WaitSelect, F!Only, F!flags
<1> USE FloppyTimes, <1>a, <1>b DEF FloppyInv, F!Calls, F!Runs, F!flags, F!motors
<1>1. FloppyTyped'
  <2> USE DEF FloppyTyped
  <2>1. QueueTyped' BY DEF QueueTyped
  <2>2. ControlTyped' BY DEF ControlTyped, F!Functions, F!Handlers
  <2>3. HeadTyped' BY DEF HeadTyped, F!Nowhere
  <2>4. MotorsTyped' BY DEF MotorsTyped
  <2>5. TimersTyped' BY DEF TimersTyped
  <2>6. (fdc \in FloppyCommands)' OBVIOUS
  <2>7. (changer \in Changers)' OBVIOUS
  <2> QED BY <2>1, <2>2, <2>3, <2>4, <2>5, <2>6, <2>7
<1> USE DEF FloppyTyped, QueueTyped, ControlTyped, HeadTyped, MotorsTyped, TimersTyped
<1>2. Alone' BY DEF Alone, F!Functions, F!Handlers
<1>3. Right' BY DEF Right, Chosen, Spinning, Running, Alone, F!CURRENT
<1>4. Turns' BY DEF Turns, Right, Chosen, Spinning, Ticks, Alone
<1>5. Lasts' BY DEF Lasts, Warm, Ticks, Alone, Right, Turns, Running
<1> QED BY <1>1, <1>2, <1>3, <1>4, <1>5

LEMMA FloppyProcessSleep ==
  ASSUME Floppies, FloppyInv, F!Sleep
  PROVE  FloppyInv'
<1> USE DEF FloppyInv
<1>a. changer' \in Changers BY DEF F!Sleep, FloppyTyped, Changers
<1>b. UNCHANGED <<floppy_queue, floppy_pc, do_floppy, floppy_reset, floppy_recalibrate, seek,
                   current_drive, current_track, selected, timers, ticking, fdc, floppy_irq, at,
                   faults>>
      /\ floppy_ghost' = floppy_ghost /\ dor' = dor /\ mon_timer' = mon_timer /\ moff_timer' = moff_timer
  BY DEF F!Sleep, F!Only, F!flags
<1> USE FloppyTimes, <1>a, <1>b DEF FloppyInv, F!Calls, F!Runs, F!flags, F!motors
<1>1. FloppyTyped'
  <2> USE DEF FloppyTyped
  <2>1. QueueTyped' BY DEF QueueTyped
  <2>2. ControlTyped' BY DEF ControlTyped, F!Functions, F!Handlers
  <2>3. HeadTyped' BY DEF HeadTyped, F!Nowhere
  <2>4. MotorsTyped' BY DEF MotorsTyped
  <2>5. TimersTyped' BY DEF TimersTyped
  <2>6. (fdc \in FloppyCommands)' OBVIOUS
  <2>7. (changer \in Changers)' OBVIOUS
  <2> QED BY <2>1, <2>2, <2>3, <2>4, <2>5, <2>6, <2>7
<1> USE DEF FloppyTyped, QueueTyped, ControlTyped, HeadTyped, MotorsTyped, TimersTyped
<1>2. Alone' BY DEF Alone, F!Functions, F!Handlers
<1>3. Right' BY DEF Right, Chosen, Spinning, Running, Alone, F!CURRENT
<1>4. Turns' BY DEF Turns, Right, Chosen, Spinning, Ticks, Alone
<1>5. Lasts' BY DEF Lasts, Warm, Ticks, Alone, Right, Turns, Running
<1> QED BY <1>1, <1>2, <1>3, <1>4, <1>5

LEMMA FloppyProcessRetry ==
  ASSUME Floppies, FloppyInv, F!Retry
  PROVE  FloppyInv'
<1> USE DEF FloppyInv
<1>a. changer' \in Changers BY DEF F!Retry, FloppyTyped, Changers
<1>b. UNCHANGED <<floppy_queue, floppy_pc, do_floppy, floppy_reset, floppy_recalibrate, seek,
                   current_drive, current_track, selected, timers, ticking, fdc, floppy_irq, at,
                   faults>>
      /\ floppy_ghost' = floppy_ghost /\ dor' = dor /\ mon_timer' = mon_timer /\ moff_timer' = moff_timer
  BY DEF F!Retry, F!Only, F!flags
<1> USE FloppyTimes, <1>a, <1>b DEF FloppyInv, F!Calls, F!Runs, F!flags, F!motors
<1>1. FloppyTyped'
  <2> USE DEF FloppyTyped
  <2>1. QueueTyped' BY DEF QueueTyped
  <2>2. ControlTyped' BY DEF ControlTyped, F!Functions, F!Handlers
  <2>3. HeadTyped' BY DEF HeadTyped, F!Nowhere
  <2>4. MotorsTyped' BY DEF MotorsTyped
  <2>5. TimersTyped' BY DEF TimersTyped
  <2>6. (fdc \in FloppyCommands)' OBVIOUS
  <2>7. (changer \in Changers)' OBVIOUS
  <2> QED BY <2>1, <2>2, <2>3, <2>4, <2>5, <2>6, <2>7
<1> USE DEF FloppyTyped, QueueTyped, ControlTyped, HeadTyped, MotorsTyped, TimersTyped
<1>2. Alone' BY DEF Alone, F!Functions, F!Handlers
<1>3. Right' BY DEF Right, Chosen, Spinning, Running, Alone, F!CURRENT
<1>4. Turns' BY DEF Turns, Right, Chosen, Spinning, Ticks, Alone
<1>5. Lasts' BY DEF Lasts, Warm, Ticks, Alone, Right, Turns, Running
<1> QED BY <1>1, <1>2, <1>3, <1>4, <1>5

LEMMA FloppyProcessLook ==
  ASSUME Floppies, FloppyInv, F!Look
  PROVE  FloppyInv'
<1> USE DEF FloppyInv
<1>a. changer' \in Changers BY DEF F!Look, FloppyTyped, Changers
<1>b. UNCHANGED <<floppy_queue, floppy_pc, do_floppy, floppy_reset, floppy_recalibrate, seek,
                   current_drive, current_track, selected, timers, ticking, fdc, floppy_irq, at,
                   faults>>
      /\ floppy_ghost' = floppy_ghost /\ dor' = dor /\ mon_timer' = mon_timer /\ moff_timer' = moff_timer
  BY DEF F!Look, F!Only, F!flags
<1> USE FloppyTimes, <1>a, <1>b DEF FloppyInv, F!Calls, F!Runs, F!flags, F!motors
<1>1. FloppyTyped'
  <2> USE DEF FloppyTyped
  <2>1. QueueTyped' BY DEF QueueTyped
  <2>2. ControlTyped' BY DEF ControlTyped, F!Functions, F!Handlers
  <2>3. HeadTyped' BY DEF HeadTyped, F!Nowhere
  <2>4. MotorsTyped' BY DEF MotorsTyped
  <2>5. TimersTyped' BY DEF TimersTyped
  <2>6. (fdc \in FloppyCommands)' OBVIOUS
  <2>7. (changer \in Changers)' OBVIOUS
  <2> QED BY <2>1, <2>2, <2>3, <2>4, <2>5, <2>6, <2>7
<1> USE DEF FloppyTyped, QueueTyped, ControlTyped, HeadTyped, MotorsTyped, TimersTyped
<1>2. Alone' BY DEF Alone, F!Functions, F!Handlers
<1>3. Right' BY DEF Right, Chosen, Spinning, Running, Alone, F!CURRENT
<1>4. Turns' BY DEF Turns, Right, Chosen, Spinning, Ticks, Alone
<1>5. Lasts' BY DEF Lasts, Warm, Ticks, Alone, Right, Turns, Running
<1> QED BY <1>1, <1>2, <1>3, <1>4, <1>5

LEMMA FloppyProcessLooked ==
  ASSUME Floppies, FloppyInv, F!Looked
  PROVE  FloppyInv'
<1> USE DEF FloppyInv
<1>a. changer' \in Changers /\ changer.nr \in Drives /\ floppy_ghost' \in BOOLEAN
  BY DEF F!Looked, FloppyTyped, HeadTyped, Changers
<1>b. /\ dor' \in [drive : Drives, on : SUBSET Drives] /\ mon_timer' \in [Drives -> 0..SpinUp]
      /\ moff_timer' \in [Drives -> 0..F!Never]
      /\ dor.on \subseteq dor'.on /\ (selected => dor'.drive = dor.drive)
      /\ \A d \in dor.on : /\ mon_timer'[d] \in {mon_timer[d], Select} /\ mon_timer[d] <= mon_timer'[d]
                            /\ moff_timer'[d] \in {moff_timer[d], Off, F!Never}
  BY <1>a, FloppyOffTyped DEF F!Looked, FloppyTyped, MotorsTyped
<1>c. UNCHANGED <<floppy_queue, floppy_pc, do_floppy, floppy_reset, floppy_recalibrate, seek,
                   current_drive, current_track, selected, timers, ticking, fdc, floppy_irq, at,
                   faults>>
  BY DEF F!Looked, F!flags
<1>4. Turns'
  BY <1>b, <1>c, FloppyKept
<1>5. Lasts'
  BY <1>b, <1>c, FloppyKept
<1> USE FloppyTimes, <1>a, <1>b, <1>c DEF FloppyInv, F!Calls, F!Runs, F!flags, F!motors
<1>1. FloppyTyped'
  <2> USE DEF FloppyTyped
  <2>1. QueueTyped' BY DEF QueueTyped
  <2>2. ControlTyped' BY DEF ControlTyped, F!Functions, F!Handlers
  <2>3. HeadTyped' BY DEF HeadTyped, F!Nowhere
  <2>4. MotorsTyped' BY DEF MotorsTyped
  <2>5. TimersTyped' BY DEF TimersTyped
  <2>6. (fdc \in FloppyCommands)' OBVIOUS
  <2>7. (changer \in Changers)' OBVIOUS
  <2> QED BY <2>1, <2>2, <2>3, <2>4, <2>5, <2>6, <2>7
<1> USE DEF FloppyTyped, QueueTyped, ControlTyped, HeadTyped, MotorsTyped, TimersTyped
<1>2. Alone' BY DEF Alone, F!Functions, F!Handlers
<1>3. Right' BY DEF Right, Chosen, Spinning, Running, Alone, F!CURRENT
<1> QED BY <1>1, <1>2, <1>3, <1>4, <1>5

\* Time.
\* A tick lets the timer run, or calls its function.
LEMMA FloppyTicked ==
  ASSUME Floppies, FloppyInv, F!Tick
  PROVE  /\ TimersTyped' /\ \A t, u \in timers' : t = u
         /\ \/ /\ floppy_pc' = floppy_pc
               /\ \A u \in timers' : \E t \in timers : u.fn = t.fn /\ t.left = u.left + 1
               /\ timers # {} => timers' # {}
            \/ /\ timers' = {}
               /\ \E t \in timers : t.left = 1 /\ floppy_pc' = t.fn
<1> USE DEF FloppyInv
<1>1. timers \subseteq FloppyTimers /\ (\A t \in timers : t.fn = "transfer" => t.left <= Select)
      /\ \A t, u \in timers : t = u
  BY DEF FloppyTyped, TimersTyped, Alone
<1>2. CASE /\ {t \in timers : t.left = 1} = {}
           /\ timers' = {[t EXCEPT !.left = @ - 1] : t \in timers}
           /\ UNCHANGED floppy_pc
  <2>1. ASSUME NEW t \in timers
        PROVE  LET u == [t EXCEPT !.left = @ - 1] IN
               u \in FloppyTimers /\ u.fn = t.fn /\ t.left = u.left + 1 /\ u.left <= t.left
    <3>1. t.fn \in {"floppy_on_interrupt", "transfer"} /\ t.left \in 2..SpinUp
          /\ t = [fn |-> t.fn, left |-> t.left]
      BY <1>1, <1>2, FloppyTimes DEF FloppyTimers
    <3>2. [t EXCEPT !.left = @ - 1] = [fn |-> t.fn, left |-> t.left - 1] BY <3>1
    <3> QED BY <3>1, <3>2, FloppyTimes DEF FloppyTimers
  <2>2. \A u \in timers' : \E t \in timers : u = [t EXCEPT !.left = @ - 1] BY <1>2
  <2>3. \A u \in timers' : u \in FloppyTimers /\ \E t \in timers : u.fn = t.fn /\ t.left = u.left + 1 /\ u.left <= t.left
    BY <2>1, <2>2
  <2>4. TimersTyped' BY <1>1, <2>3, FloppyTimes DEF TimersTyped, FloppyTimers
  <2>5. \A t, u \in timers' : t = u BY <1>1, <1>2
  <2>6. timers # {} => timers' # {} BY <1>2
  <2> QED BY <1>2, <2>3, <2>4, <2>5, <2>6
<1>3. ASSUME NEW t \in timers, t.left = 1, F!Calls(t.fn),
             timers' = {[u EXCEPT !.left = IF @ > 1 THEN @ - 1 ELSE 1] : u \in timers \ {t}}
      PROVE  timers' = {} /\ floppy_pc' = t.fn
  <2>1. timers \ {t} = {} BY <1>1
  <2> QED BY <1>3, <2>1 DEF F!Calls
<1>4. CASE \E t \in timers : timers' = {} /\ t.left = 1 /\ floppy_pc' = t.fn
  BY <1>4 DEF TimersTyped
<1> QED
  <2>1. ASSUME NEW t \in {v \in timers : v.left = 1}, F!Calls(t.fn),
             timers' = {[u EXCEPT !.left = IF @ > 1 THEN @ - 1 ELSE 1] : u \in timers \ {t}}
        PROVE  \E v \in timers : timers' = {} /\ v.left = 1 /\ floppy_pc' = v.fn
    <3>1. timers' = {} /\ floppy_pc' = t.fn BY <1>3, <2>1
    <3> QED BY <3>1
  <2> QED BY <1>2, <1>4, <2>1 DEF F!Tick

\* do_floppy_timer() for the motor of one drive.
LEMMA FloppyMotorTicks ==
  ASSUME Floppies, FloppyInv, F!DoFloppyTimer
  PROVE  /\ MotorsTyped' /\ dor'.drive = dor.drive /\ dor'.on \subseteq dor.on
         /\ ticking = TRUE /\ ticking' = FALSE /\ floppy_pc = "idle" /\ changer' \in Changers
         /\ \A d \in dor.on : mon_timer[d] > 0 =>
              d \in dor'.on /\ mon_timer'[d] = mon_timer[d] - 1 /\ moff_timer'[d] = moff_timer[d]
         /\ \A d \in dor.on : mon_timer[d] = 0 /\ moff_timer[d] > 0 =>
              d \in dor'.on /\ mon_timer'[d] = 0 /\ moff_timer'[d] \in {moff_timer[d], moff_timer[d] - 1}
         /\ UNCHANGED <<floppy_queue, floppy_pc, do_floppy, floppy_reset, floppy_recalibrate, seek,
                        current_drive, current_track, selected, timers, fdc, floppy_irq, at,
                        faults, floppy_ghost>>
<1> USE DEF FloppyInv
<1> DEFINE up == {d \in dor.on : mon_timer[d] > 0}
           off == {d \in dor.on \ up : moff_timer[d] = 0}
<1>1. /\ dor.on \subseteq Drives /\ dor.drive \in Drives
      /\ \A d \in Drives : mon_timer[d] \in 0..SpinUp /\ moff_timer[d] \in 0..F!Never
  BY DEF FloppyTyped, MotorsTyped
<1>2. mon_timer' = [d \in Drives |-> IF d \in up THEN mon_timer[d] - 1 ELSE mon_timer[d]]
  BY DEF F!DoFloppyTimer
<1>3. moff_timer' = [d \in Drives |->
              IF d \in dor.on \ (up \cup off) /\ moff_timer[d] # F!Never THEN moff_timer[d] - 1
              ELSE moff_timer[d]]
  BY DEF F!DoFloppyTimer
<1>4. dor' = [dor EXCEPT !.on = @ \ off] BY DEF F!DoFloppyTimer
<1>5. dor' = [drive |-> dor.drive, on |-> dor.on \ off] BY <1>4 DEF FloppyTyped, MotorsTyped
<1>6. \A d \in up : mon_timer[d] > 0 /\ d \in dor.on OBVIOUS
<1>7. \A d \in dor.on \ (up \cup off) : moff_timer[d] # 0 OBVIOUS
<1>8. \A d \in dor.on : mon_timer[d] > 0 <=> d \in up OBVIOUS
<1>9. \A d \in dor.on : d \in off <=> d \notin up /\ moff_timer[d] = 0 OBVIOUS
<1>10. ticking = TRUE /\ ticking' = FALSE /\ floppy_pc = "idle"
       /\ UNCHANGED <<floppy_queue, floppy_pc, do_floppy, floppy_reset, floppy_recalibrate, seek,
                        current_drive, current_track, selected, timers, fdc, floppy_irq, at,
                        faults, floppy_ghost>>
  BY DEF F!DoFloppyTimer, F!flags, FloppyTyped, HeadTyped
<1>11. changer' \in Changers BY DEF F!DoFloppyTimer, F!Awake, FloppyTyped, Changers
<1> HIDE DEF up, off
<1>12. \A d \in Drives : mon_timer'[d] = IF d \in up THEN mon_timer[d] - 1 ELSE mon_timer[d] BY <1>2
<1>13. \A d \in Drives : moff_timer'[d] =
              IF d \in dor.on \ (up \cup off) /\ moff_timer[d] # F!Never THEN moff_timer[d] - 1
              ELSE moff_timer[d]
  BY <1>3
<1>14. \A d \in Drives : mon_timer'[d] \in 0..SpinUp BY <1>1, <1>6, <1>12, FloppyTimes
<1>15. \A d \in Drives : moff_timer'[d] \in 0..F!Never BY <1>1, <1>7, <1>13, FloppyTimes
<1>16. mon_timer' \in [Drives -> 0..SpinUp] BY <1>2, <1>14
<1>17. moff_timer' \in [Drives -> 0..F!Never] BY <1>3, <1>15
<1>18. dor'.on = dor.on \ off /\ dor'.drive = dor.drive BY <1>5
<1>19. dor' \in [drive : Drives, on : SUBSET Drives] BY <1>1, <1>5
<1>20. \A d \in dor.on : mon_timer[d] > 0 =>
              d \in dor'.on /\ mon_timer'[d] = mon_timer[d] - 1 /\ moff_timer'[d] = moff_timer[d]
  BY <1>1, <1>8, <1>9, <1>12, <1>13, <1>18
<1>21. \A d \in dor.on : mon_timer[d] = 0 /\ moff_timer[d] > 0 =>
              d \in dor'.on /\ mon_timer'[d] = 0 /\ moff_timer'[d] \in {moff_timer[d], moff_timer[d] - 1}
  BY <1>1, <1>8, <1>9, <1>12, <1>13, <1>18
<1> QED BY <1>10, <1>11, <1>16, <1>17, <1>18, <1>19, <1>20, <1>21 DEF MotorsTyped

LEMMA FloppyTick ==
  ASSUME Floppies, FloppyInv, F!Tick
  PROVE  FloppyInv'
<1> USE DEF FloppyInv
<1>a. /\ floppy_pc = "idle" /\ ticking = FALSE /\ floppy_irq = "none" /\ ~fdc.aged /\ ticking' = TRUE
      /\ UNCHANGED <<floppy_queue, do_floppy, floppy_reset, floppy_recalibrate, seek, current_drive, current_track,
                     selected, dor, mon_timer, moff_timer, floppy_irq, at, faults, floppy_ghost>>
  BY DEF F!Tick, F!flags, F!motors, FloppyTyped, HeadTyped
<1>b. fdc' \in FloppyCommands /\ fdc'.cmd = fdc.cmd /\ fdc'.track = fdc.track /\ (fdc'.aged <=> fdc.cmd # "none")
  BY DEF F!Tick, FloppyTyped, FloppyCommands
<1>c. changer' \in Changers BY DEF F!Tick, FloppyTyped, Changers
<1>d. /\ TimersTyped' /\ \A t, u \in timers' : t = u
      /\ \/ /\ floppy_pc' = floppy_pc
            /\ \A u \in timers' : \E t \in timers : u.fn = t.fn /\ t.left = u.left + 1
            /\ timers # {} => timers' # {}
         \/ /\ timers' = {}
            /\ \E t \in timers : t.left = 1 /\ floppy_pc' = t.fn
  BY FloppyTicked
<1>e. /\ timers # {} => do_floppy = "none" /\ fdc.cmd = "none"
      /\ \A t \in timers : t.fn \in {"floppy_on_interrupt", "transfer"} /\ t.left \in Nat
                          /\ (t.fn = "transfer" => t.left <= Select)
      /\ \A t \in timers' : t.left \in Nat /\ t.left > 0
      /\ floppy_pc' \in {"idle", "floppy_on_interrupt", "transfer"}
  BY <1>a, <1>d, FloppyTimes DEF Alone, FloppyTyped, TimersTyped, FloppyTimers
<1>f. /\ mon_timer[current_drive] \in Nat /\ moff_timer[current_drive] \in Nat
      /\ Ticks = 0 /\ Ticks' = 1 /\ mon_timer' = mon_timer /\ moff_timer' = moff_timer
      /\ current_drive' = current_drive /\ dor' = dor
  BY <1>a, FloppyTimes DEF FloppyTyped, HeadTyped, MotorsTyped, Ticks
<1>g. (Spinning' => Spinning) /\ (Running' => Running)
  BY <1>a, <1>d, <1>e DEF Spinning, Running
<1>4. Turns'
  <2>1. Spinning => current_drive \in dor.on /\ moff_timer[current_drive] >= Off BY DEF Turns
  <2>2. ASSUME NEW t \in timers, t.fn = "floppy_on_interrupt"
        PROVE  /\ mon_timer[current_drive] + 1 >= t.left
               /\ mon_timer[current_drive] <= Select \/ mon_timer[current_drive] <= t.left
    BY <1>e, <1>f, <2>2 DEF Turns
  <2>3. floppy_pc' = "floppy_on_interrupt" => mon_timer[current_drive] <= Select
    BY <1>a, <1>d, <1>e, <1>f, <2>2, FloppyTimes
  <2>4. ASSUME NEW u \in timers', u.fn = "floppy_on_interrupt"
        PROVE  /\ mon_timer[current_drive] + 1 >= u.left + 1
               /\ mon_timer[current_drive] <= Select \/ mon_timer[current_drive] <= u.left + 1
    <3>1. PICK t \in timers : t.fn = "floppy_on_interrupt" /\ t.left = u.left + 1 BY <1>d, <2>4
    <3> QED BY <1>e, <1>f, <2>2, <3>1, FloppyTimes
  <2> QED BY <1>f, <1>g, <2>1, <2>3, <2>4 DEF Turns
<1>5. Lasts'
  <2>1. ASSUME NEW n \in 0..(Select + 2), NEW m, n = m + 1, m \in Nat, Warm(n) PROVE Warm(m)'
    BY <1>f, <2>1, FloppyTimes DEF Warm
  <2>2. ASSUME NEW u \in timers', u.fn = "transfer" PROVE Warm(u.left + 2)'
    <3>1. PICK t \in timers : t.fn = "transfer" /\ t.left = u.left + 1 BY <1>d, <2>2
    <3>2. Warm(t.left + 2) BY <3>1 DEF Lasts
    <3>3. t.left + 2 \in 0..(Select + 2) /\ t.left + 2 = (u.left + 2) + 1
      BY <1>e, <3>1, FloppyTimes
    <3>4. u.left + 2 \in Nat BY <1>e, <3>1
    <3> QED BY <2>1, <3>2, <3>3, <3>4
  <2>3. floppy_pc' = "transfer" => Warm(2)'
    <3>1. SUFFICES ASSUME floppy_pc' = "transfer" PROVE Warm(2)' OBVIOUS
    <3>2. PICK t \in timers : t.fn = "transfer" /\ t.left = 1 BY <1>a, <1>d, <3>1
    <3>3. Warm(t.left + 2) BY <3>2 DEF Lasts
    <3> QED BY <2>1, <3>2, <3>3, FloppyTimes
  <2>4. do_floppy = "seek_interrupt" /\ fdc.cmd # "none" => Warm(1)'
    <3>1. do_floppy = "seek_interrupt" /\ fdc.cmd # "none" => Warm(2) BY <1>a DEF Lasts
    <3> QED BY <2>1, <3>1, FloppyTimes
  <2>5. fdc.cmd = "rw" => Warm(0)'
    <3>1. fdc.cmd = "rw" => Warm(1) BY <1>a DEF Lasts
    <3> QED BY <2>1, <3>1, FloppyTimes
  <2> QED BY <1>a, <1>b, <1>e, <2>2, <2>3, <2>4, <2>5 DEF Lasts
<1> USE FloppyTimes, <1>a, <1>b, <1>c, <1>d, <1>e, <1>f, <1>g DEF FloppyInv, F!Calls, F!Runs,
  F!flags, F!motors
<1>1. FloppyTyped'
  <2> USE DEF FloppyTyped
  <2>1. QueueTyped' BY DEF QueueTyped
  <2>2. ControlTyped' BY DEF ControlTyped, F!Functions, F!Handlers
  <2>3. HeadTyped' BY DEF HeadTyped, F!Nowhere
  <2>4. MotorsTyped' BY DEF MotorsTyped
  <2>5. TimersTyped' BY DEF TimersTyped
  <2>6. (fdc \in FloppyCommands)' OBVIOUS
  <2>7. (changer \in Changers)' OBVIOUS
  <2> QED BY <2>1, <2>2, <2>3, <2>4, <2>5, <2>6, <2>7
<1> USE DEF FloppyTyped, QueueTyped, ControlTyped, HeadTyped, MotorsTyped, TimersTyped
<1>2. Alone' BY DEF Alone, F!Functions, F!Handlers
<1>3. Right' BY DEF Right, Chosen, Spinning, Running, Alone, F!CURRENT
<1> QED BY <1>1, <1>2, <1>3, <1>4, <1>5

LEMMA FloppyTimer ==
  ASSUME Floppies, FloppyInv, F!DoFloppyTimer
  PROVE  FloppyInv'
<1> USE DEF FloppyInv
<1>a. /\ MotorsTyped' /\ dor'.drive = dor.drive
      /\ ticking = TRUE /\ ticking' = FALSE /\ floppy_pc = "idle" /\ changer' \in Changers
      /\ UNCHANGED <<floppy_queue, floppy_pc, do_floppy, floppy_reset, floppy_recalibrate, seek,
                     current_drive, current_track, selected, timers, fdc, floppy_irq, at,
                     faults, floppy_ghost>>
  BY FloppyMotorTicks
<1>b. /\ current_drive \in dor.on /\ mon_timer[current_drive] > 0 =>
              /\ current_drive \in dor'.on /\ mon_timer'[current_drive] = mon_timer[current_drive] - 1
              /\ moff_timer'[current_drive] = moff_timer[current_drive]
      /\ current_drive \in dor.on /\ mon_timer[current_drive] = 0 /\ moff_timer[current_drive] > 0 =>
              /\ current_drive \in dor'.on /\ mon_timer'[current_drive] = 0
              /\ moff_timer'[current_drive] \in {moff_timer[current_drive], moff_timer[current_drive] - 1}
  BY FloppyMotorTicks
<1>c. /\ mon_timer[current_drive] \in Nat /\ moff_timer[current_drive] \in Nat
      /\ Ticks = 1 /\ Ticks' = 0
      /\ \A t \in timers : t.left \in Nat /\ t.left > 0 /\ (t.fn = "transfer" => t.left <= Select)
  BY <1>a, FloppyTimes DEF FloppyTyped, HeadTyped, MotorsTyped, TimersTyped, FloppyTimers, Ticks
<1>4. Turns'
  <2>1. Spinning => current_drive \in dor.on /\ moff_timer[current_drive] >= Off BY DEF Turns
  <2>2. ASSUME NEW t \in timers, t.fn = "floppy_on_interrupt"
        PROVE  /\ current_drive \in dor.on
               /\ mon_timer[current_drive] > 0 /\ mon_timer[current_drive] + 1 >= t.left + 1
               /\ mon_timer[current_drive] <= Select \/ mon_timer[current_drive] <= t.left + 1
               /\ t.left \in Nat
    BY <1>b, <1>c, <2>1, <2>2 DEF Turns, Spinning
  <2>3. Spinning' => current_drive \in dor'.on /\ moff_timer'[current_drive] >= Off
    BY <1>a, <1>b, <2>1, <2>2 DEF Spinning
  <2>4. ASSUME NEW t \in timers, t.fn = "floppy_on_interrupt"
        PROVE  /\ mon_timer'[current_drive] + 1 >= t.left
               /\ mon_timer'[current_drive] <= Select \/ mon_timer'[current_drive] <= t.left
    BY <1>a, <1>b, <1>c, <2>2, <2>4, FloppyTimes
  <2> QED BY <1>a, <1>b, <1>c, <2>3, <2>4 DEF Turns
<1>5. Lasts'
  <2>1. ASSUME NEW n \in 0..(Select + 2), Warm(n) PROVE Warm(n)'
    <3>1. CASE mon_timer[current_drive] > 0
      BY <1>a, <1>b, <1>c, <2>1, <3>1, FloppyTimes DEF Warm
    <3>2. CASE mon_timer[current_drive] = 0
      BY <1>a, <1>b, <1>c, <2>1, <3>2, FloppyTimes DEF Warm
    <3> QED BY <1>c, <3>1, <3>2
  <2>2. \A t \in timers : t.fn = "transfer" => Warm(t.left + 2)'
    BY <1>c, <2>1, FloppyTimes DEF Lasts
  <2> QED BY <1>a, <2>1, <2>2, FloppyTimes DEF Lasts
<1> USE FloppyTimes, <1>a, <1>b, <1>c DEF FloppyInv, F!Calls, F!Runs, F!flags, F!motors
<1>1. FloppyTyped'
  <2> USE DEF FloppyTyped
  <2>1. QueueTyped' BY DEF QueueTyped
  <2>2. ControlTyped' BY DEF ControlTyped, F!Functions, F!Handlers
  <2>3. HeadTyped' BY DEF HeadTyped, F!Nowhere
  <2>4. MotorsTyped' BY DEF MotorsTyped
  <2>5. TimersTyped' BY DEF TimersTyped
  <2>6. (fdc \in FloppyCommands)' OBVIOUS
  <2>7. (changer \in Changers)' OBVIOUS
  <2> QED BY <2>1, <2>2, <2>3, <2>4, <2>5, <2>6, <2>7
<1> USE DEF FloppyTyped, QueueTyped, ControlTyped, HeadTyped, MotorsTyped, TimersTyped
<1>2. Alone' BY DEF Alone, F!Functions, F!Handlers
<1>3. Right' BY DEF Right, Chosen, Spinning, Running, Alone, F!CURRENT
<1> QED BY <1>1, <1>2, <1>3, <1>4, <1>5

\* floppy_change() is never disturbed between a test and its use, the drive it
\* looks at is the one it asked for, and its motor is on.
Changing ==
    /\ changer.pc \in {"sleep", "look"} => floppy_pc = "idle" /\ ~ticking /\ ~changer.asleep
    /\ changer.pc = "sleep" => selected /\ dor.drive # changer.nr
    /\ changer.pc = "select" /\ changer.asleep => selected /\ dor.drive # changer.nr
    /\ changer.pc = "look" => dor.drive = changer.nr /\ changer.nr \in dor.on
    /\ changer.pc = "select" /\ dor.drive = changer.nr =>
          /\ changer.nr \in dor.on
          /\ ticking => mon_timer[changer.nr] > 0 \/ moff_timer[changer.nr] > 0

ChangeInv == FloppyInv /\ FloppyRisks = {} /\ Changing /\ ~floppy_ghost

\* Only the actions that move a head, a motor or the process need more.
LEMMA FloppyUnchanged ==
  ASSUME Floppies, ChangeInv,
         UNCHANGED <<changer, selected, dor, ticking, mon_timer, floppy_ghost>>,
         changer.pc \in {"sleep", "look"} => floppy_pc' = floppy_pc,
         moff_timer'[changer.nr] \in {moff_timer[changer.nr], Off}
  PROVE  Changing' /\ ~floppy_ghost'
  BY FloppyTimes DEF ChangeInv, Changing

LEMMA ResetFloppyChange ==
  ASSUME Floppies, ChangeInv, F!ResetFloppy
  PROVE  Changing' /\ ~floppy_ghost'
  BY FloppyUnchanged
     DEF ChangeInv, FloppyInv, Changing, F!ResetFloppy, F!Runs, F!motors, F!AtRequest

LEMMA RecalibrateFloppyChange ==
  ASSUME Floppies, ChangeInv, F!RecalibrateFloppy
  PROVE  Changing' /\ ~floppy_ghost'
  BY FloppyUnchanged
     DEF ChangeInv, FloppyInv, Changing, F!RecalibrateFloppy, F!Runs, F!motors, F!AtRequest

LEMMA NoRequestChange ==
  ASSUME Floppies, ChangeInv, F!NoRequest
  PROVE  Changing' /\ ~floppy_ghost'
  BY FloppyUnchanged
     DEF ChangeInv, FloppyInv, Changing, F!NoRequest, F!Runs, F!motors, F!AtRequest

LEMMA TransferChange ==
  ASSUME Floppies, ChangeInv, F!Transfer
  PROVE  Changing' /\ ~floppy_ghost'
  BY FloppyUnchanged
     DEF ChangeInv, FloppyInv, Changing, F!Transfer, F!Runs, F!motors, F!AtRequest

LEMMA RecalInterruptChange ==
  ASSUME Floppies, ChangeInv, F!RecalInterrupt
  PROVE  Changing' /\ ~floppy_ghost'
  BY FloppyUnchanged
     DEF ChangeInv, FloppyInv, Changing, F!RecalInterrupt, F!Runs, F!motors, F!AtRequest, F!Interrupt, F!Undisturbed

LEMMA ResetInterruptChange ==
  ASSUME Floppies, ChangeInv, F!ResetInterrupt
  PROVE  Changing' /\ ~floppy_ghost'
  BY FloppyUnchanged
     DEF ChangeInv, FloppyInv, Changing, F!ResetInterrupt, F!Runs, F!motors, F!AtRequest, F!Interrupt, F!Undisturbed

LEMMA UnexpectedChange ==
  ASSUME Floppies, ChangeInv, F!Unexpected
  PROVE  Changing' /\ ~floppy_ghost'
  BY FloppyUnchanged
     DEF ChangeInv, FloppyInv, Changing, F!Unexpected, F!Runs, F!motors, F!AtRequest, F!Interrupt, F!Undisturbed

LEMMA SeekInterruptChange ==
  ASSUME Floppies, ChangeInv, F!SeekInterrupt
  PROVE  Changing' /\ ~floppy_ghost'
  BY FloppyUnchanged
     DEF ChangeInv, FloppyInv, Changing, F!SeekInterrupt, F!Runs, F!motors, F!AtRequest, F!Interrupt, F!Undisturbed

LEMMA DoneChange ==
  ASSUME Floppies, ChangeInv, F!Done
  PROVE  Changing' /\ ~floppy_ghost'
  BY FloppyUnchanged
     DEF ChangeInv, FloppyInv, Changing, F!Done, F!Runs, F!motors, F!AtRequest

LEMMA SpuriousChange ==
  ASSUME Floppies, ChangeInv, F!Spurious
  PROVE  Changing' /\ ~floppy_ghost'
  BY FloppyUnchanged
     DEF ChangeInv, FloppyInv, Changing, F!Spurious, F!Runs, F!motors, F!AtRequest

LEMMA SetupRwFloppyChange ==
  ASSUME Floppies, ChangeInv, F!SetupRwFloppy
  PROVE  Changing' /\ ~floppy_ghost'
  BY FloppyUnchanged
     DEF ChangeInv, FloppyInv, Changing, F!SetupRwFloppy, F!Runs, F!motors, F!AtRequest, Right, Chosen, Running

LEMMA BadChange ==
  ASSUME Floppies, ChangeInv, F!BadRequest
  PROVE  Changing' /\ ~floppy_ghost'
<1> USE DEF ChangeInv, FloppyInv
<1>a. F!CURRENT.drive \in Drives BY FloppyTimes, FloppyCurrent, FloppyRequestTyped DEF F!BadRequest
<1>b. moff_timer'[F!CURRENT.drive] = Off
      /\ \A d \in Drives \ {F!CURRENT.drive} : moff_timer'[d] = moff_timer[d]
  BY <1>a, FloppyOffTyped DEF F!BadRequest, F!EndRequest, FloppyTyped
<1>c. floppy_pc # "idle" BY DEF F!BadRequest, F!AtRequest, F!Runs
<1>1. Changing'
  BY FloppyTimes, <1>a, <1>b, <1>c DEF Changing, Ticks, FloppyTyped, HeadTyped, MotorsTyped,
    Changers, F!Calls, F!Runs, F!flags, F!motors, F!BadRequest
<1>2. ~floppy_ghost'
  BY FloppyTimes, <1>a, <1>b, <1>c DEF F!Calls, F!Runs, F!flags, F!motors, F!BadRequest
<1> QED BY <1>1, <1>2

LEMMA StartChange ==
  ASSUME Floppies, ChangeInv, F!StartRequest
  PROVE  Changing' /\ ~floppy_ghost'
<1> USE DEF ChangeInv, FloppyInv
<1>a. F!CURRENT.drive \in Drives BY FloppyTimes, FloppyCurrent, FloppyRequestTyped DEF F!StartRequest
<1>b. /\ dor'.on = dor.on \cup {F!CURRENT.drive}
      /\ dor'.drive = IF selected THEN dor.drive ELSE F!CURRENT.drive
      /\ moff_timer'[F!CURRENT.drive] = F!Never
      /\ \A d \in Drives \ {F!CURRENT.drive} : mon_timer'[d] = mon_timer[d] /\ moff_timer'[d] = moff_timer[d]
  BY <1>a, FloppyTicksOn DEF F!StartRequest, FloppyTyped
<1>c. floppy_pc # "idle" /\ UNCHANGED <<changer, selected, ticking, floppy_ghost>>
  BY DEF F!StartRequest, F!AtRequest, F!Runs
<1>1. Changing'
  BY FloppyTimes, <1>a, <1>b, <1>c DEF Changing, Ticks, FloppyTyped, HeadTyped, MotorsTyped,
    Changers, F!Calls, F!Runs, F!flags, F!motors
<1>2. ~floppy_ghost'
  BY FloppyTimes, <1>a, <1>b, <1>c DEF F!Calls, F!Runs, F!flags, F!motors
<1> QED BY <1>1, <1>2

LEMMA OnChange ==
  ASSUME Floppies, ChangeInv, F!FloppyOnInterrupt
  PROVE  Changing' /\ ~floppy_ghost'
<1> USE DEF ChangeInv, FloppyInv
<1>a. floppy_pc # "idle" /\ selected' = TRUE /\ UNCHANGED <<changer, ticking, mon_timer, moff_timer, floppy_ghost>>
      /\ dor'.drive = current_drive /\ dor'.on = dor.on
  BY DEF F!FloppyOnInterrupt, F!Runs, FloppyTyped, MotorsTyped
<1>b. current_drive \in dor.on /\ moff_timer[current_drive] >= Off /\ (selected => dor.drive = current_drive)
  BY DEF F!FloppyOnInterrupt, F!Runs, Turns, Right, Spinning
<1>1. Changing'
  BY FloppyTimes, <1>a, <1>b DEF Changing, Ticks, FloppyTyped, HeadTyped, MotorsTyped, Changers,
    F!Calls, F!Runs, F!flags, F!motors
<1>2. ~floppy_ghost'
  BY FloppyTimes, <1>a, <1>b DEF F!Calls, F!Runs, F!flags, F!motors
<1> QED BY <1>1, <1>2

LEMMA SeekFailsChange ==
  ASSUME Floppies, ChangeInv, F!SeekFails
  PROVE  Changing' /\ ~floppy_ghost'
<1> USE DEF ChangeInv, FloppyInv
<1>a. floppy_queue # <<>> /\ floppy_pc = "idle" /\ changer.pc \notin {"sleep", "look"}
  BY DEF F!SeekFails, F!Interrupt, F!Undisturbed, ChangeInv
<1>b. F!CURRENT.drive \in Drives BY <1>a, FloppyTimes, FloppyCurrent, FloppyRequestTyped
<1>c. F!EndRequest => moff_timer'[F!CURRENT.drive] = Off
      /\ \A d \in Drives \ {F!CURRENT.drive} : moff_timer'[d] = moff_timer[d]
  BY <1>b, FloppyOffTyped DEF F!EndRequest, FloppyTyped
<1>d. /\ UNCHANGED <<dor, mon_timer, ticking, floppy_ghost>>
      /\ (F!EndRequest /\ F!Deselect) \/ UNCHANGED <<moff_timer, selected, changer>>
  BY DEF F!SeekFails, F!BadFlp, F!NotDeselected
<1>e. F!Deselect => /\ selected' = FALSE /\ changer'.pc = changer.pc /\ changer'.nr = changer.nr
                    /\ changer.pc = "select" => changer'.asleep = FALSE
  BY DEF F!Deselect, F!Awake, FloppyTyped, Changers
<1>1. Changing'
  <2>1. CASE F!EndRequest /\ F!Deselect
    <3>1. moff_timer'[changer.nr] \in {moff_timer[changer.nr], Off}
      BY <1>c, <2>1 DEF FloppyTyped, Changers
    <3>2. selected' = FALSE /\ changer'.pc = changer.pc /\ changer'.nr = changer.nr
          /\ (changer.pc = "select" => changer'.asleep = FALSE)
      BY <1>e, <2>1
    <3> QED BY <1>a, <1>d, <3>1, <3>2, FloppyTimes DEF Changing
  <2>2. CASE UNCHANGED <<moff_timer, selected, changer>>
    BY <1>a, <1>d, <2>2 DEF Changing
  <2> QED BY <1>d, <2>1, <2>2
<1>2. ~floppy_ghost'
  BY FloppyTimes, <1>a, <1>b, <1>c, <1>d, <1>e DEF F!Calls, F!Runs, F!flags, F!motors
<1> QED BY <1>1, <1>2

LEMMA RwFailsChange ==
  ASSUME Floppies, ChangeInv, F!RwFails
  PROVE  Changing' /\ ~floppy_ghost'
<1> USE DEF ChangeInv, FloppyInv
<1>a. floppy_queue # <<>> /\ floppy_pc = "idle" /\ changer.pc \notin {"sleep", "look"}
  BY DEF F!RwFails, F!Interrupt, F!Undisturbed, ChangeInv
<1>b. F!CURRENT.drive \in Drives BY <1>a, FloppyTimes, FloppyCurrent, FloppyRequestTyped
<1>c. F!EndRequest => moff_timer'[F!CURRENT.drive] = Off
      /\ \A d \in Drives \ {F!CURRENT.drive} : moff_timer'[d] = moff_timer[d]
  BY <1>b, FloppyOffTyped DEF F!EndRequest, FloppyTyped
<1>d. /\ UNCHANGED <<dor, mon_timer, ticking, floppy_ghost>>
      /\ (F!EndRequest /\ F!Deselect) \/ UNCHANGED <<moff_timer, selected, changer>>
  BY DEF F!RwFails, F!BadFlp, F!NotDeselected
<1>e. F!Deselect => /\ selected' = FALSE /\ changer'.pc = changer.pc /\ changer'.nr = changer.nr
                    /\ changer.pc = "select" => changer'.asleep = FALSE
  BY DEF F!Deselect, F!Awake, FloppyTyped, Changers
<1>1. Changing'
  <2>1. CASE F!EndRequest /\ F!Deselect
    <3>1. moff_timer'[changer.nr] \in {moff_timer[changer.nr], Off}
      BY <1>c, <2>1 DEF FloppyTyped, Changers
    <3>2. selected' = FALSE /\ changer'.pc = changer.pc /\ changer'.nr = changer.nr
          /\ (changer.pc = "select" => changer'.asleep = FALSE)
      BY <1>e, <2>1
    <3> QED BY <1>a, <1>d, <3>1, <3>2, FloppyTimes DEF Changing
  <2>2. CASE UNCHANGED <<moff_timer, selected, changer>>
    BY <1>a, <1>d, <2>2 DEF Changing
  <2> QED BY <1>d, <2>1, <2>2
<1>2. ~floppy_ghost'
  BY FloppyTimes, <1>a, <1>b, <1>c, <1>d, <1>e DEF F!Calls, F!Runs, F!flags, F!motors
<1> QED BY <1>1, <1>2

LEMMA RwInterruptChange ==
  ASSUME Floppies, ChangeInv, F!RwInterrupt
  PROVE  Changing' /\ ~floppy_ghost'
<1> USE DEF ChangeInv, FloppyInv
<1>a. floppy_queue # <<>> /\ floppy_pc = "idle" /\ changer.pc \notin {"sleep", "look"}
  BY DEF F!RwInterrupt, F!Interrupt, F!Undisturbed, ChangeInv
<1>b. F!CURRENT.drive \in Drives BY <1>a, FloppyTimes, FloppyCurrent, FloppyRequestTyped
<1>c. F!EndRequest => moff_timer'[F!CURRENT.drive] = Off
      /\ \A d \in Drives \ {F!CURRENT.drive} : moff_timer'[d] = moff_timer[d]
  BY <1>b, FloppyOffTyped DEF F!EndRequest, FloppyTyped
<1>d. /\ UNCHANGED <<dor, mon_timer, ticking, floppy_ghost>>
      /\ (F!EndRequest /\ F!Deselect) \/ UNCHANGED <<moff_timer, selected, changer>>
  BY DEF F!RwInterrupt, F!BadFlp, F!NotDeselected
<1>e. F!Deselect => /\ selected' = FALSE /\ changer'.pc = changer.pc /\ changer'.nr = changer.nr
                    /\ changer.pc = "select" => changer'.asleep = FALSE
  BY DEF F!Deselect, F!Awake, FloppyTyped, Changers
<1>1. Changing'
  <2>1. CASE F!EndRequest /\ F!Deselect
    <3>1. moff_timer'[changer.nr] \in {moff_timer[changer.nr], Off}
      BY <1>c, <2>1 DEF FloppyTyped, Changers
    <3>2. selected' = FALSE /\ changer'.pc = changer.pc /\ changer'.nr = changer.nr
          /\ (changer.pc = "select" => changer'.asleep = FALSE)
      BY <1>e, <2>1
    <3> QED BY <1>a, <1>d, <3>1, <3>2, FloppyTimes DEF Changing
  <2>2. CASE UNCHANGED <<moff_timer, selected, changer>>
    BY <1>a, <1>d, <2>2 DEF Changing
  <2> QED BY <1>d, <2>1, <2>2
<1>2. ~floppy_ghost'
  BY FloppyTimes, <1>a, <1>b, <1>c, <1>d, <1>e DEF F!Calls, F!Runs, F!flags, F!motors
<1> QED BY <1>1, <1>2

LEMMA AddChange ==
  ASSUME Floppies, ChangeInv, NEW d, NEW t, F!Add(d, t)
  PROVE  Changing' /\ ~floppy_ghost'
<1> USE DEF ChangeInv, FloppyInv
<1>1. Changing'
  BY FloppyTimes DEF Changing, Ticks, FloppyTyped, HeadTyped, MotorsTyped, Changers, F!Calls,
    F!Runs, F!flags, F!motors, F!Add
<1>2. ~floppy_ghost'
  BY FloppyTimes DEF F!Calls, F!Runs, F!flags, F!motors, F!Add
<1> QED BY <1>1, <1>2

LEMMA TickChange ==
  ASSUME Floppies, ChangeInv, F!Tick
  PROVE  Changing' /\ ~floppy_ghost'
<1> USE DEF ChangeInv, FloppyInv
<1>1. Changing'
  BY FloppyTimes DEF Changing, Ticks, FloppyTyped, HeadTyped, MotorsTyped, Changers, F!Calls,
    F!Runs, F!flags, F!motors, F!Tick
<1>2. ~floppy_ghost'
  BY FloppyTimes DEF F!Calls, F!Runs, F!flags, F!motors, F!Tick
<1> QED BY <1>1, <1>2

LEMMA TimerChange ==
  ASSUME Floppies, ChangeInv, F!DoFloppyTimer
  PROVE  Changing' /\ ~floppy_ghost'
<1> USE DEF ChangeInv, FloppyInv
<1>a. /\ dor'.drive = dor.drive /\ ticking = TRUE /\ ticking' = FALSE
      /\ UNCHANGED <<floppy_pc, selected, floppy_ghost>>
  BY FloppyMotorTicks
<1>b. changer.nr \in dor.on /\ (mon_timer[changer.nr] > 0 \/ moff_timer[changer.nr] > 0)
        => changer.nr \in dor'.on
  <2>1. \A d \in dor.on : mon_timer[d] > 0 \/ mon_timer[d] = 0
    BY FloppyTimes DEF FloppyTyped, MotorsTyped
  <2> QED BY <2>1, FloppyMotorTicks
<1>c. /\ changer'.pc = changer.pc /\ changer'.nr = changer.nr
      /\ changer'.asleep => changer.asleep
      /\ changer.pc \in {"sleep", "look"} => FALSE
  BY <1>a DEF F!DoFloppyTimer, F!Awake, FloppyTyped, Changers, Changing
<1>1. Changing'
  BY FloppyTimes, <1>a, <1>b, <1>c DEF Changing, Ticks, FloppyTyped, HeadTyped, MotorsTyped,
    Changers, F!Calls, F!Runs, F!flags, F!motors
<1>2. ~floppy_ghost'
  BY FloppyTimes, <1>a, <1>b, <1>c DEF F!Calls, F!Runs, F!flags, F!motors
<1> QED BY <1>1, <1>2

LEMMA ChangeChange ==
  ASSUME Floppies, ChangeInv, NEW nr \in Drives, F!Change(nr)
  PROVE  Changing' /\ ~floppy_ghost'
<1> USE DEF ChangeInv, FloppyInv
<1>1. Changing'
  BY FloppyTimes DEF Changing, Ticks, FloppyTyped, HeadTyped, MotorsTyped, Changers, F!Calls,
    F!Runs, F!flags, F!motors, F!Change, F!Only, F!InProcess
<1>2. ~floppy_ghost'
  BY FloppyTimes DEF F!Calls, F!Runs, F!flags, F!motors, F!Change, F!Only, F!InProcess
<1> QED BY <1>1, <1>2

LEMMA FloppyOnChange ==
  ASSUME Floppies, ChangeInv, F!FloppyOn
  PROVE  Changing' /\ ~floppy_ghost'
<1> USE DEF ChangeInv, FloppyInv
<1>a. changer.nr \in Drives BY DEF FloppyTyped, Changers
<1>b. /\ changer.nr \in dor'.on /\ floppy_pc = "idle" /\ ticking = FALSE
      /\ UNCHANGED <<floppy_pc, selected, ticking, floppy_ghost>>
  BY <1>a, FloppyTicksOn DEF F!FloppyOn, F!InProcess, F!Only, FloppyTyped, HeadTyped
<1>c. /\ changer'.nr = changer.nr /\ changer'.pc \in {"motor", "select"}
      /\ changer'.pc = "select" => changer'.asleep = FALSE
  BY DEF F!FloppyOn, F!InProcess, FloppyTyped, Changers
<1>1. Changing'
  BY FloppyTimes, <1>a, <1>b, <1>c DEF Changing, Ticks, FloppyTyped, HeadTyped, MotorsTyped,
    Changers, F!Calls, F!Runs, F!flags, F!motors
<1>2. ~floppy_ghost'
  BY FloppyTimes, <1>a, <1>b, <1>c DEF F!Calls, F!Runs, F!flags, F!motors
<1> QED BY <1>1, <1>2

LEMMA WaitSelectChange ==
  ASSUME Floppies, ChangeInv, F!WaitSelect
  PROVE  Changing' /\ ~floppy_ghost'
<1> USE DEF ChangeInv, FloppyInv
<1>1. Changing'
  BY FloppyTimes DEF Changing, Ticks, FloppyTyped, HeadTyped, MotorsTyped, Changers, F!Calls,
    F!Runs, F!flags, F!motors, F!WaitSelect, F!Only, F!InProcess, F!Taken
<1>2. ~floppy_ghost'
  BY FloppyTimes DEF F!Calls, F!Runs, F!flags, F!motors, F!WaitSelect, F!Only, F!InProcess,
    F!Taken
<1> QED BY <1>1, <1>2

LEMMA SleepChange ==
  ASSUME Floppies, ChangeInv, F!Sleep
  PROVE  Changing' /\ ~floppy_ghost'
<1> USE DEF ChangeInv, FloppyInv
<1>1. Changing'
  BY FloppyTimes DEF Changing, Ticks, FloppyTyped, HeadTyped, MotorsTyped, Changers, F!Calls,
    F!Runs, F!flags, F!motors, F!Sleep, F!Only, F!InProcess, F!Taken
<1>2. ~floppy_ghost'
  BY FloppyTimes DEF F!Calls, F!Runs, F!flags, F!motors, F!Sleep, F!Only, F!InProcess, F!Taken
<1> QED BY <1>1, <1>2

LEMMA RetryChange ==
  ASSUME Floppies, ChangeInv, F!Retry
  PROVE  Changing' /\ ~floppy_ghost'
<1> USE DEF ChangeInv, FloppyInv
<1>1. Changing'
  BY FloppyTimes DEF Changing, Ticks, FloppyTyped, HeadTyped, MotorsTyped, Changers, F!Calls,
    F!Runs, F!flags, F!motors, F!Retry, F!Only, F!InProcess, F!Taken
<1>2. ~floppy_ghost'
  BY FloppyTimes DEF F!Calls, F!Runs, F!flags, F!motors, F!Retry, F!Only, F!InProcess, F!Taken
<1> QED BY <1>1, <1>2

LEMMA LookChange ==
  ASSUME Floppies, ChangeInv, F!Look
  PROVE  Changing' /\ ~floppy_ghost'
<1> USE DEF ChangeInv, FloppyInv
<1>1. Changing'
  BY FloppyTimes DEF Changing, Ticks, FloppyTyped, HeadTyped, MotorsTyped, Changers, F!Calls,
    F!Runs, F!flags, F!motors, F!Look, F!Only, F!InProcess, F!Taken
<1>2. ~floppy_ghost'
  BY FloppyTimes DEF F!Calls, F!Runs, F!flags, F!motors, F!Look, F!Only, F!InProcess, F!Taken
<1> QED BY <1>1, <1>2

LEMMA LookedChange ==
  ASSUME Floppies, ChangeInv, F!Looked
  PROVE  Changing' /\ ~floppy_ghost'
<1> USE DEF ChangeInv, FloppyInv
<1>1. Changing'
  BY FloppyTimes DEF Changing, Ticks, FloppyTyped, HeadTyped, MotorsTyped, Changers, F!Calls,
    F!Runs, F!flags, F!motors, F!Looked, F!InProcess
<1>2. ~floppy_ghost'
  BY DEF F!Looked, F!InProcess, Changing
<1> QED BY <1>1, <1>2

\* It holds at the start, and no step breaks it.
LEMMA FloppyInit ==
  ASSUME Floppies, F!Init
  PROVE  FloppyInv /\ Changing /\ ~floppy_ghost
<1>1. QueueTyped /\ TimersTyped
  BY FloppyTimes DEF F!Init, QueueTyped, TimersTyped
<1>2. ControlTyped /\ HeadTyped
  BY FloppyTimes DEF F!Init, ControlTyped, HeadTyped, F!Functions, F!Handlers, F!Nowhere
<1>3. MotorsTyped BY FloppyTimes DEF F!Init, MotorsTyped
<1>4. fdc \in FloppyCommands /\ fdc.cmd = "none" BY FloppyNoCommand DEF F!Init
<1>5. changer \in Changers /\ changer.pc = "no" BY FloppyTimes DEF F!Init, Changers
<1>6. FloppyTyped BY <1>1, <1>2, <1>3, <1>4, <1>5 DEF FloppyTyped
<1>7. Alone BY <1>4 DEF F!Init, Alone
<1>8. Right /\ Turns /\ Lasts BY <1>4 DEF F!Init, Right, Turns, Lasts, Spinning, Running
<1>9. Changing /\ ~floppy_ghost BY <1>5 DEF F!Init, Changing
<1> QED BY <1>6, <1>7, <1>8, <1>9 DEF FloppyInv

LEMMA FloppyNext ==
  ASSUME Floppies, FloppyInv, [F!Next]_(F!vars)
  PROVE  FloppyInv'
<1>1. CASE F!Code
  <2>1. CASE F!ResetFloppy BY <2>1, FloppyReset
  <2>2. CASE F!RecalibrateFloppy BY <2>2, FloppyRecalibrate
  <2>3. CASE F!NoRequest BY <2>3, FloppyNo
  <2>4. CASE F!BadRequest BY <2>4, FloppyBad
  <2>5. CASE F!StartRequest BY <2>5, FloppyStart
  <2>6. CASE F!FloppyOnInterrupt BY <2>6, FloppyOnInt
  <2>7. CASE F!Transfer BY <2>7, FloppyTransferSeeks, FloppyTransferOn
  <2>8. CASE F!SetupRwFloppy BY <2>8, FloppySetup
  <2> QED BY <1>1, <2>1, <2>2, <2>3, <2>4, <2>5, <2>6, <2>7, <2>8 DEF F!Code
<1>2. CASE F!Interrupts
  <2>1. CASE F!SeekFails BY <2>1, FloppySeekFails
  <2>2. CASE F!SeekInterrupt BY <2>2, FloppySeekInterrupt
  <2>3. CASE F!RwFails BY <2>3, FloppyRwFails
  <2>4. CASE F!RwInterrupt BY <2>4, FloppyRwInterrupt
  <2>5. CASE F!RecalInterrupt BY <2>5, FloppyRecalInterrupt
  <2>6. CASE F!ResetInterrupt BY <2>6, FloppyResetInterrupt
  <2>7. CASE F!Unexpected BY <2>7, FloppyUnexpected
  <2> QED BY <1>2, <2>1, <2>2, <2>3, <2>4, <2>5, <2>6, <2>7 DEF F!Interrupts
<1>3. CASE F!Timer
  <2>1. CASE F!Tick BY <2>1, FloppyTick
  <2>2. CASE F!DoFloppyTimer BY <2>2, FloppyTimer
  <2> QED BY <1>3, <2>1, <2>2 DEF F!Timer
<1>4. CASE F!Done BY <1>4, FloppyDone
<1>5. CASE F!Spurious BY <1>5, FloppySpurious
<1>6. CASE F!Process
  <2>1. CASE F!FloppyOn BY <2>1, FloppyProcessOn
  <2>2. CASE F!WaitSelect BY <2>2, FloppyProcessWaitSelect
  <2>3. CASE F!Sleep BY <2>3, FloppyProcessSleep
  <2>4. CASE F!Retry BY <2>4, FloppyProcessRetry
  <2>5. CASE F!Look BY <2>5, FloppyProcessLook
  <2>6. CASE F!Looked BY <2>6, FloppyProcessLooked
  <2> QED BY <1>6, <2>1, <2>2, <2>3, <2>4, <2>5, <2>6 DEF F!Process
<1>7. ASSUME NEW a \in Asked, F!Add(a[1], a[2]) PROVE FloppyInv'
  <2>1. a[1] \in Drives /\ a[2] \in Tracks \cup {BadTrack} BY DEF Floppies, F!TracksAssumption
  <2> QED BY <1>7, <2>1, FloppyAdd
<1>8. ASSUME NEW d \in Checked, F!Change(d) PROVE FloppyInv'
  <2>1. d \in Drives BY DEF Floppies, F!DrivesAssumption
  <2> QED BY <1>8, <2>1, FloppyChange
<1>9. CASE UNCHANGED F!vars
  <2>1. FloppyTyped' BY <1>9
    DEF F!vars, F!flags, F!motors, FloppyInv, FloppyTyped, QueueTyped, ControlTyped, HeadTyped, MotorsTyped,
        TimersTyped
  <2>2. Alone' /\ Right' BY <1>9
    DEF F!vars, F!flags, F!motors, FloppyInv, Alone, Right, Chosen, Spinning, Running, F!CURRENT
  <2>3. Turns' /\ Lasts' BY <1>9
    DEF F!vars, F!flags, F!motors, FloppyInv, Turns, Lasts, Warm, Ticks, Spinning
  <2> QED BY <2>1, <2>2, <2>3 DEF FloppyInv
<1> QED BY <1>1, <1>2, <1>3, <1>4, <1>5, <1>6, <1>7, <1>8, <1>9 DEF F!Next

LEMMA FloppyChangeNext ==
  ASSUME Floppies, ChangeInv, [F!Next]_(F!vars)
  PROVE  Changing' /\ ~floppy_ghost'
<1>1. CASE F!Code
  <2>1. CASE F!ResetFloppy BY <2>1, ResetFloppyChange
  <2>2. CASE F!RecalibrateFloppy BY <2>2, RecalibrateFloppyChange
  <2>3. CASE F!NoRequest BY <2>3, NoRequestChange
  <2>4. CASE F!BadRequest BY <2>4, BadChange
  <2>5. CASE F!StartRequest BY <2>5, StartChange
  <2>6. CASE F!FloppyOnInterrupt BY <2>6, OnChange
  <2>7. CASE F!Transfer BY <2>7, TransferChange
  <2>8. CASE F!SetupRwFloppy BY <2>8, SetupRwFloppyChange
  <2> QED BY <1>1, <2>1, <2>2, <2>3, <2>4, <2>5, <2>6, <2>7, <2>8 DEF F!Code
<1>2. CASE F!Interrupts
  <2>1. CASE F!SeekFails BY <2>1, SeekFailsChange
  <2>2. CASE F!SeekInterrupt BY <2>2, SeekInterruptChange
  <2>3. CASE F!RwFails BY <2>3, RwFailsChange
  <2>4. CASE F!RwInterrupt BY <2>4, RwInterruptChange
  <2>5. CASE F!RecalInterrupt BY <2>5, RecalInterruptChange
  <2>6. CASE F!ResetInterrupt BY <2>6, ResetInterruptChange
  <2>7. CASE F!Unexpected BY <2>7, UnexpectedChange
  <2> QED BY <1>2, <2>1, <2>2, <2>3, <2>4, <2>5, <2>6, <2>7 DEF F!Interrupts
<1>3. CASE F!Timer
  <2>1. CASE F!Tick BY <2>1, TickChange
  <2>2. CASE F!DoFloppyTimer BY <2>2, TimerChange
  <2> QED BY <1>3, <2>1, <2>2 DEF F!Timer
<1>4. CASE F!Done BY <1>4, DoneChange
<1>5. CASE F!Spurious BY <1>5, SpuriousChange
<1>6. CASE F!Process
  <2>1. CASE F!FloppyOn BY <2>1, FloppyOnChange
  <2>2. CASE F!WaitSelect BY <2>2, WaitSelectChange
  <2>3. CASE F!Sleep BY <2>3, SleepChange
  <2>4. CASE F!Retry BY <2>4, RetryChange
  <2>5. CASE F!Look BY <2>5, LookChange
  <2>6. CASE F!Looked BY <2>6, LookedChange
  <2> QED BY <1>6, <2>1, <2>2, <2>3, <2>4, <2>5, <2>6 DEF F!Process
<1>7. ASSUME NEW a \in Asked, F!Add(a[1], a[2]) PROVE Changing' /\ ~floppy_ghost'
  <2>1. a[1] \in Drives /\ a[2] \in Tracks \cup {BadTrack} BY DEF Floppies, F!TracksAssumption
  <2> QED BY <1>7, <2>1, AddChange
<1>8. ASSUME NEW d \in Checked, F!Change(d) PROVE Changing' /\ ~floppy_ghost'
  <2>1. d \in Drives BY DEF Floppies, F!DrivesAssumption
  <2> QED BY <1>8, <2>1, ChangeChange
<1>9. CASE UNCHANGED F!vars
  BY <1>9 DEF F!vars, F!flags, F!motors, ChangeInv, Changing
<1> QED BY <1>1, <1>2, <1>3, <1>4, <1>5, <1>6, <1>7, <1>8, <1>9 DEF F!Next

\* What it gives.
LEMMA FloppyTypes ==
  ASSUME Floppies, FloppyInv
  PROVE  F!TypeOK
<1> USE DEF FloppyInv
<1>1. \A i \in DOMAIN floppy_queue : floppy_queue[i] \in FloppyRequests
  BY DEF FloppyTyped, QueueTyped
<1> QED BY <1>1 DEF F!TypeOK, FloppyTyped, QueueTyped, FloppyRequests, ControlTyped, HeadTyped, MotorsTyped,
                    TimersTyped, FloppyTimers, FloppyCommands, F!Nowhere

LEMMA FloppyRight ==
  ASSUME Floppies, FloppyInv
  PROVE  F!RightDrive
<1>1. SUFFICES ASSUME fdc.cmd = "rw" PROVE F!RightDrive BY DEF F!RightDrive
<1>2. do_floppy = "rw_interrupt" /\ fdc.track = F!CURRENT.track /\ floppy_pc = "idle"
  BY <1>1 DEF FloppyInv, FloppyTyped, ControlTyped, Right, Alone
<1>3. selected BY <1>2 DEF FloppyInv, Right, Running
<1>4. Chosen /\ dor.drive = current_drive BY <1>3 DEF FloppyInv, Right
<1>5. Warm(IF fdc.aged THEN 0 ELSE 1) BY <1>1 DEF FloppyInv, Lasts
<1> QED BY <1>2, <1>4, <1>5 DEF F!RightDrive, Chosen, Warm

LEMMA FloppyDrives ==
  ASSUME Floppies, FloppyInv
  PROVE  F!Driven
<1>1. timers = {} => F!Cardinality(timers) = 0
  <2>1. timers = {} => Cardinality(timers) = 0 BY FS_EmptySet
  <2> QED BY <2>1 DEF F!Cardinality, Cardinality
<1>2. timers # {} => F!Cardinality(timers) = 1
  <2>1. SUFFICES ASSUME timers # {} PROVE Cardinality(timers) = 1
    BY DEF F!Cardinality, Cardinality
  <2>2. PICK t : timers = {t} BY <2>1 DEF FloppyInv, Alone
  <2> QED BY <2>2, FS_Singleton
<1> QED BY <1>1, <1>2 DEF F!Driven, FloppyInv, Alone

\* As long as a request only starts when the controller has recovered, there is
\* always exactly one thing that will end the request in service, and a transfer
\* is on its drive and track with the motor on (floppy.c:588-660, sched.c:325-394).
THEOREM FloppyDriven ==
  ASSUME Floppies
  PROVE  F!Spec => [](F!Driven /\ F!TypeOK /\ F!RightDrive)
<1>1. F!Init => FloppyInv BY FloppyInit
<1>2. FloppyInv /\ [F!Next]_(F!vars) => FloppyInv' BY FloppyNext
<1>3. FloppyInv => F!Driven /\ F!TypeOK /\ F!RightDrive
  BY FloppyDrives, FloppyTypes, FloppyRight
<1> QED BY <1>1, <1>2, <1>3, PTL DEF F!Spec

\* And as long as floppy_change() is not disturbed between a test and its use,
\* it looks at the drive it asked for, with its motor on (floppy.c:213-236).
THEOREM FloppyDrive ==
  ASSUME Floppies, FloppyRisks = {}
  PROVE  F!Spec => []F!DriveOK
<1>1. F!Init => ChangeInv BY FloppyInit DEF ChangeInv
<1>2. ChangeInv /\ [F!Next]_(F!vars) => ChangeInv'
  BY FloppyNext, FloppyChangeNext DEF ChangeInv
<1>3. ChangeInv => F!DriveOK
  BY FloppyTypes, FloppyRight DEF ChangeInv, F!DriveOK, F!Sound
<1> QED BY <1>1, <1>2, <1>3, PTL DEF F!Spec
=============================================================================
