------------------------------ MODULE HardDisk ------------------------------
(***************************************************************************)
(* The hard disk driver, kernel/blk_drv/hd.c, with the request queue of    *)
(* ll_rw_blk.c and blk.h and the interrupt entry of sys_call.s.            *)
(*                                                                         *)
(* Requests come from processes, answers from the drive (external), and    *)
(* the timer gives up on answers that do not come.  The handlers run with  *)
(* interrupts off and call do_hd_request() last: `pc' = "start" is its     *)
(* label `repeat'.  Waiting for the drive in a loop takes no time.         *)
(* add_request() calls it with interrupts on (ll_rw_blk.c:124): the late   *)
(* interrupt of a command given up before comes before or after that call. *)
(*                                                                         *)
(* Device and sector are one number here, since IN_ORDER compares them one *)
(* after the other, and a request asks for two sectors or for a page.      *)
(***************************************************************************)
EXTENDS Integers, Sequences, FiniteSets, SequencesExt

CONSTANTS NSlots,        \* NR_REQUEST
          Blocks, Pages, \* their first sectors
          Size,          \* nr_sects
          PageSectors,   \* eight
          NrHd,          \* NR_HD
          MaxErrors,     \* MAX_ERRORS
          Wants,         \* the requests that are made: "read", "write", "swap"
          Risks          \* "specify": a drive may fail while it is being reset,
                         \* which the code does not survive

Slots == 1..NSlots

ASSUME SizesAssumption == {NSlots, Size, PageSectors, NrHd, MaxErrors} \subseteq Nat \ {0}
ASSUME FirstsAssumption == Blocks \cup Pages \subseteq {2 * n : n \in 0..Size}
ASSUME WantsAssumption == Wants \subseteq {"read", "write", "swap"}
ASSUME RisksAssumption == Risks \subseteq {"specify"}

VARIABLES
    slot,          \* request[]
    queue,         \* the list from current_request on, as slots
    pc,            \* "idle": no code of the driver runs; "panic": nothing does
    do_hd,         \* the handler of the next interrupt
    hd_timeout,    \* TRUE: the timer runs
    reset, recalibrate,
    unit,          \* the static i of reset_hd()
    drive,         \* the command the controller works on
    irq,           \* its interrupt is pending
    short,         \* a request ended as if it were complete, but was not
    ghost          \* errors was counted in a request that is not there

vars == <<slot, queue, pc, do_hd, hd_timeout, reset, recalibrate, unit, drive, irq,
          short, ghost>>

\* place: how far `buffer' has gone; right: the places of the buffer that hold
\* what is on the disk, or the disk what they hold.
Free == [cmd |-> "none", page |-> FALSE, first |-> 0, sector |-> 0, nr_sectors |-> 0,
         place |-> 0, errors |-> 0, right |-> {}]
NoCommand == [cmd |-> "none", at |-> 0, place |-> 0, busy |-> FALSE, ok |-> TRUE]
Request(c, f) == [Free EXCEPT !.cmd = c, !.first = f, !.sector = f, !.nr_sectors = 2]
PageRequest(c, f) == [Request(c, f) EXCEPT !.page = TRUE, !.nr_sectors = PageSectors]
Sectors(r) == IF r.page THEN PageSectors ELSE 2

Queued == {queue[i] : i \in DOMAIN queue}

TypeOK ==
    /\ \A s \in Slots : slot[s].cmd \in {"none", "read", "write"}
                        /\ slot[s].errors \in 0..MaxErrors - 1
    /\ queue \in Seq(Slots) /\ IsInjective(queue)
    /\ Queued = {s \in Slots : slot[s].cmd # "none"}
    /\ pc \in {"idle", "start", "drq", "panic"}
    /\ do_hd \in {"none", "read_intr", "write_intr", "recal_intr", "reset_hd"}
    /\ {hd_timeout, reset, recalibrate, irq, short, ghost} \subseteq BOOLEAN
    /\ unit \in 0..NrHd
    /\ drive.cmd \in {"none", "read", "write", "restore", "specify"}

Init ==
    /\ slot = [s \in Slots |-> Free] /\ queue = <<>>
    /\ pc = "idle" /\ do_hd = "none" /\ hd_timeout = FALSE
    /\ reset = FALSE /\ recalibrate = FALSE /\ unit = 0
    /\ drive = NoCommand /\ irq = FALSE
    /\ short = FALSE /\ ghost = FALSE

----------------------------------------------------------------------------
(* The queue                                                               *)

\* IN_ORDER: reads before writes, then by device and sector.
IN_ORDER(a, b) ==
    \/ a.cmd = "read" /\ b.cmd = "write"
    \/ a.cmd = b.cmd /\ a.sector < b.sector

\* a mutant: reads go before all writes, wherever the heads are.
BreaksReads(q, i, r) ==
    IF r.page THEN ~slot[q[i + 1]].page
    ELSE r.cmd = "read" /\ slot[q[i + 1]].cmd = "write"

\* r goes between the i-th request and the one behind it.
Breaks(q, i, r) ==
    LET tmp == slot[q[i]]  next == slot[q[i + 1]] IN
    IF r.page THEN ~next.page
    ELSE (IN_ORDER(tmp, r) \/ ~IN_ORDER(tmp, next)) /\ IN_ORDER(r, next)

\* add_request(): behind the first request that is to be followed by r, or the last.
Place(s, r) ==
    IF queue = <<>> THEN queue' = <<s>>
    ELSE \E i \in 1..Len(queue) :
            /\ i < Len(queue) => Breaks(queue, i, r)
            /\ \A j \in 1..i - 1 : ~Breaks(queue, j, r)
            /\ queue' = InsertAt(queue, i + 1, s)

\* make_request() and ll_rw_page() take the last free slot, but the last third
\* is not for writing blocks.  A block has one buffer, which is locked.
Locked(f) == \E s \in Slots : slot[s].cmd # "none" /\ ~slot[s].page /\ slot[s].first = f
Requests ==
    {Request(c, f) : c \in Wants \ {"swap"}, f \in {x \in Blocks : ~Locked(x)}}
    \cup IF "swap" \in Wants THEN {PageRequest(c, f) : c \in {"read", "write"}, f \in Pages} ELSE {}
LastFor(r) == IF r.cmd = "write" /\ ~r.page THEN (NSlots * 2) \div 3 ELSE NSlots
Add(r) ==
    /\ pc = "idle"
    /\ \E s \in 1..LastFor(r) :
        /\ slot[s].cmd = "none" /\ \A t \in s + 1..LastFor(r) : slot[t].cmd # "none"
        /\ slot' = [slot EXCEPT ![s] = r]
        /\ Place(s, r)
    /\ pc' = IF queue = <<>> THEN "start" ELSE "idle"
    /\ UNCHANGED <<do_hd, hd_timeout, reset, recalibrate, unit, drive, irq, short, ghost>>

CURRENT == slot[Head(queue)]
Change(r) == slot' = [slot EXCEPT ![Head(queue)] = r] /\ UNCHANGED <<queue, short>>

\* r is CURRENT as it ends.
EndRequest(uptodate, r) ==
    /\ slot' = [slot EXCEPT ![Head(queue)] = Free]
    /\ queue' = Tail(queue)
    /\ short' = (short \/ (uptodate /\ r.right # 0..Sectors(r) - 1))

----------------------------------------------------------------------------
(* The drive                                                               *)

\* hd_out(): it waits until the controller is not busy, which may end a command;
\* with a controller that works, or is being reset, it may wait in vain.
HdOut(l, handler, cmd, at, busy) ==
    \/ /\ pc' = l /\ do_hd' = handler /\ hd_timeout' = TRUE
       /\ drive' = [cmd |-> cmd, at |-> at, place |-> 0, busy |-> busy, ok |-> TRUE]
    \/ /\ drive.busy \/ cmd = "specify"
       /\ pc' = "panic" /\ UNCHANGED <<do_hd, hd_timeout, drive>>
Awaited(pending) == irq' \in (IF drive.busy THEN {pending, TRUE} ELSE {pending})

\* The drive is done with the sector or the command: a sector that was written
\* is on the disk.
Done ==
    /\ drive.busy
    /\ \E ok \in BOOLEAN :
        /\ ok \/ drive.cmd # "specify" \/ "specify" \in Risks
        /\ drive' = [drive EXCEPT !.busy = FALSE, !.ok = ok]
        /\ IF ok /\ drive.cmd = "write" /\ do_hd = "write_intr"
           THEN slot' = [slot EXCEPT ![Head(queue)].right =
                            IF drive.at = CURRENT.first + drive.place
                            THEN @ \cup {drive.place} ELSE @ \ {drive.place}]
           ELSE UNCHANGED slot
    /\ irq' = TRUE
    /\ UNCHANGED <<queue, pc, do_hd, hd_timeout, reset, recalibrate, unit, short, ghost>>

\* win_result(): a drive that is busy is not ready, another may have failed.
Good == ~drive.busy /\ drive.ok

\* bad_rw_intr(), with the next request's errors looked at if CURRENT ended.
\* When there is none they are read from the page directory, which lies at 0.
BadRw(again) ==
    LET r == [CURRENT EXCEPT !.errors = @ + 1] IN
    IF queue = <<>>
    THEN /\ ghost' = TRUE /\ reset' = TRUE /\ UNCHANGED <<slot, queue, short>>
    ELSE /\ UNCHANGED ghost
         /\ IF r.errors >= MaxErrors
            THEN /\ EndRequest(FALSE, r)
                 /\ reset' = (again \/ Len(queue) = 1
                              \/ slot[queue[2]].errors > MaxErrors \div 2)
            ELSE /\ Change(r)
                 /\ reset' = (again \/ r.errors > MaxErrors \div 2)

----------------------------------------------------------------------------
(* do_hd_request() from its label                                          *)

Starting == pc = "start"
Same == UNCHANGED <<slot, queue, short, ghost>>
Proceeds(l) == pc' = l /\ Same

\* INIT_REQUEST: nothing is expected when there is no request.
StartNone ==
    /\ Starting /\ queue = <<>>
    /\ do_hd' = "none" /\ hd_timeout' = FALSE
    /\ Proceeds("idle") /\ UNCHANGED <<reset, recalibrate, unit, drive, irq>>

OutOfRange == CURRENT.sector + 2 > Size
StartBad ==
    /\ Starting /\ queue # <<>> /\ OutOfRange
    /\ EndRequest(FALSE, CURRENT)
    /\ UNCHANGED <<pc, do_hd, hd_timeout, reset, recalibrate, unit, drive, irq, ghost>>

\* reset_hd() where reset is set: the controller is reset and forgets what it
\* did, and the parameters of the first drive are specified.
ResetController == unit' = 0 /\ HdOut("idle", "reset_hd", "specify", 0, TRUE)

Startable == Starting /\ queue # <<>> /\ ~OutOfRange
StartReset ==
    /\ Startable /\ reset
    /\ recalibrate' = TRUE
    /\ ResetController /\ reset' = FALSE /\ irq' \in {irq, FALSE}
    /\ Same
StartRecalibrate ==
    /\ Startable /\ ~reset /\ recalibrate
    /\ recalibrate' = FALSE
    /\ HdOut("idle", "recal_intr", "restore", 0, TRUE) /\ Awaited(irq)
    /\ Same /\ UNCHANGED <<reset, unit>>
StartTransfer ==
    /\ Startable /\ ~reset /\ ~recalibrate
    /\ IF CURRENT.cmd = "write"
       THEN HdOut("drq", "write_intr", "write", CURRENT.sector, FALSE)
       ELSE HdOut("idle", "read_intr", "read", CURRENT.sector, TRUE)
    /\ Awaited(irq) /\ Same
    /\ UNCHANGED <<reset, recalibrate, unit>>

\* After a write command: the drive asks for the first sector, or it does not.
Drq ==
    /\ pc = "drq"
    /\ \/ /\ drive' = [drive EXCEPT !.place = CURRENT.place, !.busy = TRUE]
          /\ Proceeds("idle") /\ UNCHANGED reset
       \/ BadRw(reset) /\ pc' = "start" /\ UNCHANGED drive
    /\ UNCHANGED <<do_hd, hd_timeout, recalibrate, unit, irq>>

----------------------------------------------------------------------------
(* Interrupts                                                              *)

\* hd_interrupt: the timer is stopped and the handler is taken.
Interrupt(handler) == pc = "idle" /\ irq /\ irq' = FALSE /\ do_hd = handler

Unexpected ==
    /\ Interrupt("none")
    /\ do_hd' = "none" /\ hd_timeout' = FALSE
    /\ reset' = TRUE /\ pc' = "start"
    /\ UNCHANGED <<slot, queue, recalibrate, unit, drive, short, ghost>>

\* read_intr(), write_intr() and recal_intr() when the result is bad.
Fails ==
    /\ \E h \in {"read_intr", "write_intr", "recal_intr"} : Interrupt(h)
    /\ ~Good /\ BadRw(reset) /\ pc' = "start"
    /\ do_hd' = "none" /\ hd_timeout' = FALSE
    /\ UNCHANGED <<recalibrate, unit, drive>>

Recalibrated ==
    /\ Interrupt("recal_intr") /\ Good
    /\ do_hd' = "none" /\ hd_timeout' = FALSE /\ pc' = "start"
    /\ UNCHANGED <<slot, queue, reset, recalibrate, unit, drive, short, ghost>>

\* a mutant: the timer is not started again.
AfterUntimed(r, handler) ==
    IF r.nr_sectors > 0
    THEN /\ Change(r) /\ do_hd' = handler /\ hd_timeout' = FALSE /\ pc' = "idle"
         /\ drive' = [drive EXCEPT !.at = @ + 1, !.place = r.place, !.busy = TRUE]
    ELSE /\ EndRequest(TRUE, r) /\ do_hd' = "none" /\ hd_timeout' = FALSE /\ pc' = "start"
         /\ UNCHANGED drive

\* r is CURRENT after a sector: `handler' awaits the next one, or it ends.
AfterSector(r, handler) ==
    IF r.nr_sectors > 0
    THEN /\ Change(r) /\ do_hd' = handler /\ hd_timeout' = TRUE /\ pc' = "idle"
         /\ drive' = [drive EXCEPT !.at = @ + 1, !.place = r.place, !.busy = TRUE]
    ELSE /\ EndRequest(TRUE, r) /\ do_hd' = "none" /\ hd_timeout' = FALSE /\ pc' = "start"
         /\ UNCHANGED drive

\* read_intr(): the sector goes to the buffer.
ReadIntr ==
    LET r == CURRENT
        right == IF drive.cmd = "read" /\ drive.at = r.first + r.place
                 THEN r.right \cup {r.place} ELSE r.right \ {r.place}
    IN  /\ Interrupt("read_intr") /\ Good
        /\ AfterSector([r EXCEPT !.errors = 0, !.place = @ + 1, !.sector = @ + 1,
                                 !.nr_sectors = @ - 1, !.right = right], "read_intr")
        /\ UNCHANGED <<reset, recalibrate, unit, ghost>>

\* a mutant: the result of a write is not looked at.
WriteIntrBlind ==
    LET r == CURRENT  left == r.nr_sectors - 1  step == IF left > 0 THEN 1 ELSE 0 IN
    /\ Interrupt("write_intr")
    /\ AfterSector([r EXCEPT !.nr_sectors = left, !.sector = @ + step, !.place = @ + step],
                   "write_intr")
    /\ UNCHANGED <<reset, recalibrate, unit, ghost>>

\* write_intr(): a sector has been written, the next goes to the drive.
WriteIntr ==
    LET r == CURRENT  left == r.nr_sectors - 1  step == IF left > 0 THEN 1 ELSE 0 IN
    /\ Interrupt("write_intr") /\ Good
    /\ AfterSector([r EXCEPT !.nr_sectors = left, !.sector = @ + step, !.place = @ + step],
                   "write_intr")
    /\ UNCHANGED <<reset, recalibrate, unit, ghost>>

\* reset_hd() as a handler goes on to the next drive, or to the request.
NextUnit ==
    IF unit + 1 < NrHd
    THEN unit' = unit + 1 /\ HdOut("idle", "reset_hd", "specify", 0, TRUE) /\ Awaited(FALSE)
    ELSE /\ unit' = NrHd /\ do_hd' = "none" /\ hd_timeout' = FALSE /\ pc' = "start"
         /\ irq' = FALSE /\ UNCHANGED drive
ResetHd ==
    /\ pc = "idle" /\ irq /\ do_hd = "reset_hd"
    /\ IF Good
       THEN NextUnit /\ UNCHANGED <<slot, queue, reset, short, ghost>>
       ELSE /\ BadRw(FALSE)
            /\ IF reset' THEN ResetController /\ irq' = FALSE ELSE NextUnit
    /\ UNCHANGED recalibrate

\* hd_times_out(), before or after an interrupt that is pending.
TimesOut ==
    /\ pc = "idle" /\ hd_timeout
    /\ IF queue = <<>>
       THEN hd_timeout' = FALSE /\ UNCHANGED <<slot, queue, short, do_hd, reset, pc>>
       ELSE /\ LET r == [CURRENT EXCEPT !.errors = @ + 1] IN
               IF r.errors >= MaxErrors THEN EndRequest(FALSE, r) ELSE Change(r)
            /\ do_hd' = "none" /\ hd_timeout' = TRUE
            /\ reset' = TRUE /\ pc' = "start"
    /\ UNCHANGED <<recalibrate, unit, drive, irq, ghost>>

----------------------------------------------------------------------------
Code == StartNone \/ StartBad \/ StartReset \/ StartRecalibrate \/ StartTransfer \/ Drq
Interrupts == Unexpected \/ Fails \/ Recalibrated \/ ReadIntr \/ WriteIntr \/ ResetHd

\* panic() does not return.
Stopped == pc = "panic" /\ UNCHANGED vars

Next ==
    \/ Code \/ Interrupts \/ Done \/ TimesOut \/ Stopped
    \/ \E r \in Requests : Add(r)

\* The code goes on, interrupts are taken, and the timer goes on counting; the
\* drive may never answer.
Fairness == WF_vars(Code) /\ WF_vars(Interrupts) /\ WF_vars(TimesOut)

Spec == Init /\ [][Next]_vars /\ Fairness

----------------------------------------------------------------------------
(* Properties                                                              *)

\* A request that ends with b_uptodate set has moved each of its sectors to its
\* place, whatever was retried, reset or answered too late (hd.c:407-416,
\* 436-444).
EndedComplete == ~short

\* The request that is served is watched by the timer: hd_interrupt stops it,
\* and each way out of a handler starts it again (blk.h:138, sys_call.s:341).
Watched == pc = "idle" /\ queue # <<>> => hd_timeout

\* Errors are only counted in a request that is there (hd.c:382).
CurrentThere == ~ghost

\* The driver serves the request it is to serve, and is never left without a timer.
Served == TypeOK /\ Watched /\ CurrentThere

\* Each request ends, though others keep coming and are put before it, and
\* though the drive may fail or not answer at all (ll_rw_blk.c:132-142,
\* hd.c:382, 472), unless the kernel panics since the controller itself does not
\* become ready (hd.c:286).  Only swapping that goes on for ever can keep it waiting.
Swapping == \E s \in Slots : slot[s].page
Ends ==
    <>[]~Swapping => \A s \in Slots : slot[s].cmd # "none" ~> slot[s].cmd = "none" \/ pc = "panic"
=============================================================================
