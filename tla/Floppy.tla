------------------------------- MODULE Floppy -------------------------------
(***************************************************************************)
(* The floppy driver, kernel/blk_drv/floppy.c, with its motors and timers  *)
(* in kernel/sched.c and a process in floppy_change().                     *)
(*                                                                         *)
(* The controller and the drives are external: a command ends with an      *)
(* interrupt, and each drive has its head on a track.  Interrupts run to   *)
(* the end; `pc' is the function that is called last.  Time passes in      *)
(* ticks, and a command takes at most one.                                 *)
(***************************************************************************)
EXTENDS Integers, Sequences, FiniteSets

CONSTANTS Drives, Tracks,
          Checked,     \* bound: the drives floppy_change() is called for
          Asked,       \* bound: the drives and tracks that are asked for
          BadTrack,    \* of a request beyond the end of the disk
          MaxQueue,    \* bound: requests at a time
          MaxErrors,   \* MAX_ERRORS
          SpinUp,      \* HZ / 2, mon_timer of a motor that is turned on
          Select,      \* 2, mon_timer of a drive that is selected
          Off,         \* 3 * HZ, how long a motor stays on
          MaxFaults,   \* bound: failures that are not counted as errors, and
                       \* interrupts nobody asked for
          Risks        \* "busy": a request while the controller still recovers
                       \* from the last one; "select": the drive is given back
                       \* after floppy_change() has looked; "change": it is
                       \* taken after it has looked

Never == Off + 1     \* 100 s, moff_timer of a drive in use

ASSUME DrivesAssumption == IsFiniteSet(Drives) /\ 0 \in Drives /\ Drives \subseteq Nat /\ Checked \subseteq Drives
ASSUME TracksAssumption == 0 \in Tracks /\ Tracks \subseteq Nat /\ BadTrack \notin Tracks
    /\ Asked \subseteq Drives \X (Tracks \cup {BadTrack})
ASSUME TimesAssumption ==
    /\ {MaxQueue, MaxErrors, SpinUp, Select, Off, MaxFaults} \subseteq Nat
    /\ 0 < Select /\ Select <= SpinUp /\ Select + 3 <= Off
ASSUME RisksAssumption == Risks \subseteq {"busy", "select", "change"}

VARIABLES
    queue,                    \* the requests from CURRENT on
    pc,                       \* "idle", or the function that runs next
    do_floppy,                \* the handler of the next interrupt
    reset, recalibrate, seek,
    current_drive, current_track,
    selected, dor,            \* dor: the drive and the motors of current_DOR
    mon_timer, moff_timer,
    timers,                   \* of add_timer(): those of the floppy
    ticking,                  \* do_timer() goes on with do_floppy_timer()
    fdc,                      \* the command the controller works on
    irq,                      \* its result, until the interrupt is handled
    at,                       \* the track under the head of each drive
    changer,                  \* the process in floppy_change()
    faults, ghost

flags == <<reset, recalibrate, seek>>
motors == <<selected, dor, mon_timer, moff_timer>>
vars == <<queue, pc, do_floppy, flags, current_drive, current_track, motors,
          timers, ticking, fdc, irq, at, changer, faults, ghost>>

Nowhere == 255     \* current_track at the start
NoCommand == [cmd |-> "none", drive |-> 0, track |-> 0, aged |-> FALSE]
Commands == {"none", "reset", "seek", "recal", "rw"}
Functions == {"idle", "do_fd_request", "repeat", "floppy_on_interrupt", "transfer", "setup_rw_floppy"}
Handlers == {"none", "reset_interrupt", "recal_interrupt", "seek_interrupt", "rw_interrupt"}

TypeOK ==
    /\ \A i \in DOMAIN queue : queue[i] \in [drive : Drives, track : Tracks \cup {BadTrack},
                                             errors : 0..MaxErrors]
    /\ Len(queue) <= MaxQueue
    /\ pc \in Functions /\ do_floppy \in Handlers
    /\ {reset, recalibrate, seek, selected, ticking, ghost} \subseteq BOOLEAN
    /\ current_drive \in Drives /\ current_track \in Tracks \cup {Nowhere}
    /\ dor \in [drive : Drives, on : SUBSET Drives]
    /\ mon_timer \in [Drives -> 0..SpinUp] /\ moff_timer \in [Drives -> 0..Never]
    /\ timers \subseteq [fn : {"floppy_on_interrupt", "transfer"}, left : 1..SpinUp]
    /\ fdc.cmd \in Commands /\ irq \in {"none", "ok", "bad", "protected", "silent"}
    /\ at \in [Drives -> Tracks]

Init ==
    /\ queue = <<>> /\ pc = "idle" /\ do_floppy = "none"
    /\ reset = FALSE /\ recalibrate = FALSE /\ seek = FALSE
    /\ current_drive = 0 /\ current_track = Nowhere
    /\ selected = FALSE /\ dor = [drive |-> 0, on |-> {}]
    /\ mon_timer = [d \in Drives |-> 0] /\ moff_timer = [d \in Drives |-> 0]
    /\ timers = {} /\ ticking = FALSE
    /\ fdc = NoCommand /\ irq = "none" /\ at = [d \in Drives |-> 0]
    /\ changer = [pc |-> "no", nr |-> 0, asleep |-> FALSE]
    /\ faults = 0 /\ ghost = FALSE

CURRENT == Head(queue)
Calls(f) == pc' = f
Runs(f) == pc = f

----------------------------------------------------------------------------
(* Motors                                                                  *)

\* a mutant: the drive is selected even while another one is in use.
DorForAlways(nr) == [drive |-> nr, on |-> dor.on \cup {nr}]
\* ticks_to_floppy_on(): the drive is selected unless another one is in use.
DorFor(nr) == [drive |-> IF selected THEN dor.drive ELSE nr, on |-> dor.on \cup {nr}]
TicksFor(nr) ==
    IF nr \notin dor.on THEN SpinUp
    ELSE IF DorFor(nr) # dor /\ mon_timer[nr] < Select THEN Select ELSE mon_timer[nr]
TicksToFloppyOn(nr) ==
    /\ moff_timer' = [moff_timer EXCEPT ![nr] = Never]
    /\ dor' = DorFor(nr)
    /\ mon_timer' = [mon_timer EXCEPT ![nr] = TicksFor(nr)]

\* floppy_off()
FloppyOff(nr) == moff_timer' = [moff_timer EXCEPT ![nr] = Off]

Awake == changer' = [changer EXCEPT !.asleep = FALSE]

\* do_floppy_timer(), the last part of the timer interrupt.
DoFloppyTimer ==
    LET up == {d \in dor.on : mon_timer[d] > 0}
        off == {d \in dor.on \ up : moff_timer[d] = 0}
    IN  /\ pc = "idle" /\ ticking
        /\ ticking' = FALSE
        /\ mon_timer' = [d \in Drives |-> IF d \in up THEN mon_timer[d] - 1 ELSE mon_timer[d]]
        /\ moff_timer' = [d \in Drives |->
              IF d \in dor.on \ (up \cup off) /\ moff_timer[d] # Never THEN moff_timer[d] - 1
              ELSE moff_timer[d]]
        /\ dor' = [dor EXCEPT !.on = @ \ off]
        /\ IF changer.pc = "motor" /\ changer.nr \in up /\ mon_timer[changer.nr] = 1
           THEN Awake ELSE UNCHANGED changer
        /\ UNCHANGED <<queue, pc, do_floppy, flags, current_drive, current_track, selected,
                       timers, fdc, irq, at, faults, ghost>>

\* do_timer(): a timer that is due is called.  A process that has been woken
\* runs, and an interrupt is handled, before the next tick.
Tick ==
    LET due == {t \in timers : t.left = 1} IN
    /\ pc = "idle" /\ ~ticking /\ irq = "none" /\ ~fdc.aged
    /\ changer.pc \in {"no", "rest"} \/ changer.asleep
    /\ changer' = (IF changer.pc = "rest" THEN [changer EXCEPT !.pc = "no"] ELSE changer)
    /\ ticking' = TRUE
    /\ fdc' = [fdc EXCEPT !.aged = fdc.cmd # "none"]
    /\ \/ /\ due = {}
          /\ timers' = {[t EXCEPT !.left = @ - 1] : t \in timers}
          /\ UNCHANGED pc
       \/ \E t \in due :
             /\ timers' = {[u EXCEPT !.left = IF @ > 1 THEN @ - 1 ELSE 1] : u \in timers \ {t}}
             /\ Calls(t.fn)
    /\ UNCHANGED <<queue, do_floppy, flags, current_drive, current_track, motors, irq, at,
                   faults, ghost>>

\* add_timer(): without a delay the function is called at once.
AddTimer(ticks, fn) ==
    IF ticks = 0 THEN Calls(fn) /\ UNCHANGED timers
    ELSE Calls("idle") /\ timers' = timers \cup {[fn |-> fn, left |-> ticks]}

----------------------------------------------------------------------------
(* The controller                                                          *)

\* output_byte() or result() finds that the controller does not answer.
Fault == faults < MaxFaults /\ faults' = faults + 1

\* Some bytes are sent; if that fails the function calls do_fd_request() again.
Ready == ~reset /\ fdc.cmd = "none" /\ irq = "none"
Send(handler, cmd, track) ==
    /\ do_floppy' = handler
    /\ \/ /\ Ready
          /\ fdc' = [cmd |-> cmd, drive |-> current_drive, track |-> track, aged |-> FALSE]
          /\ Calls("idle") /\ UNCHANGED <<reset, faults>>
       \/ /\ IF Ready THEN Fault ELSE UNCHANGED faults
          /\ reset' = TRUE /\ Calls("do_fd_request") /\ UNCHANGED fdc

\* The command ends.  The heads of the selected drive move, a transfer needs the
\* right track and a motor that runs; a disk may be bad or write-protected.
Done ==
    LET d == dor.drive IN
    /\ pc = "idle" /\ fdc.cmd # "none"
    /\ fdc' = NoCommand
    /\ \/ /\ fdc.cmd = "rw" => at[d] = fdc.track /\ d \in dor.on
          /\ irq' = "ok"
          /\ at' = IF fdc.cmd \in {"seek", "recal"} THEN [at EXCEPT ![d] = fdc.track] ELSE at
          /\ UNCHANGED faults
       \/ /\ irq' \in (CASE fdc.cmd = "rw" -> {"bad", "protected"}
                        [] fdc.cmd = "seek" -> {"bad"} [] OTHER -> {})
          /\ UNCHANGED <<at, faults>>
       \/ Fault /\ irq' = "silent" /\ UNCHANGED at
    /\ UNCHANGED <<queue, pc, do_floppy, flags, current_drive, current_track, motors,
                   timers, ticking, changer, ghost>>

\* The controller interrupts though it has no command.
Spurious ==
    /\ pc = "idle" /\ fdc.cmd = "none" /\ irq = "none"
    /\ Fault /\ irq' \in {"ok", "silent"}
    /\ UNCHANGED <<queue, pc, do_floppy, flags, current_drive, current_track, motors,
                   timers, ticking, fdc, at, changer, ghost>>

----------------------------------------------------------------------------
(* Requests                                                                *)

\* add_request() calls do_fd_request() when there was no request.
Recovering == do_floppy # "none" \/ fdc.cmd # "none" \/ irq # "none" \/ timers # {}
Add(d, t) ==
    /\ pc = "idle" /\ ~ticking /\ Len(queue) < MaxQueue
    /\ changer.pc \in {"no", "rest"} \/ changer.asleep
    /\ queue = <<>> => "busy" \in Risks \/ ~Recovering
    /\ queue' = Append(queue, [drive |-> d, track |-> t, errors |-> 0])
    /\ IF queue = <<>> THEN Calls("do_fd_request") ELSE UNCHANGED pc
    /\ UNCHANGED <<do_floppy, flags, current_drive, current_track, motors, timers, ticking,
                   fdc, irq, at, changer, faults, ghost>>

\* end_request() turns the motor off before long.
EndRequest == queue' = Tail(queue) /\ FloppyOff(CURRENT.drive)

\* do_fd_request(): first a reset, then a recalibration, then the request.
ResetFloppy ==
    /\ Runs("do_fd_request") /\ reset
    /\ seek' = FALSE /\ reset' = FALSE /\ recalibrate' = TRUE
    /\ do_floppy' = "reset_interrupt"
    /\ fdc' = [NoCommand EXCEPT !.cmd = "reset"] /\ irq' = "none"
    /\ Calls("idle")
    /\ UNCHANGED <<queue, current_drive, current_track, motors, timers, ticking, at, changer,
                   faults, ghost>>
RecalibrateFloppy ==
    /\ Runs("do_fd_request") /\ ~reset /\ recalibrate
    /\ seek' = FALSE /\ recalibrate' = FALSE /\ current_track' = 0
    /\ Send("recal_interrupt", "recal", 0)
    /\ UNCHANGED <<queue, current_drive, motors, timers, ticking, irq, at, changer, ghost>>
\* INIT_REQUEST has the label `repeat', behind seek = 0.
AtRequest == Runs("repeat") \/ (Runs("do_fd_request") /\ ~reset /\ ~recalibrate)
Seeking == Runs("repeat") /\ seek
NoRequest ==
    /\ AtRequest /\ queue = <<>>
    /\ seek' = Seeking /\ do_floppy' = "none" /\ Calls("idle")
    /\ UNCHANGED <<queue, reset, recalibrate, current_drive, current_track, motors, timers,
                   ticking, fdc, irq, at, changer, faults, ghost>>
BadRequest ==
    /\ AtRequest /\ queue # <<>> /\ CURRENT.track = BadTrack
    /\ current_drive' = CURRENT.drive
    /\ seek' = (Seeking \/ current_drive # CURRENT.drive)
    /\ EndRequest /\ Calls("repeat")
    /\ UNCHANGED <<do_floppy, reset, recalibrate, current_track, selected, dor,
                   mon_timer, timers, ticking, fdc, irq, at, changer, faults, ghost>>
StartRequest ==
    /\ AtRequest /\ queue # <<>> /\ CURRENT.track # BadTrack
    /\ current_drive' = CURRENT.drive
    /\ seek' = (Seeking \/ current_drive # CURRENT.drive \/ current_track # CURRENT.track)
    /\ TicksToFloppyOn(CURRENT.drive)
    /\ AddTimer(TicksFor(CURRENT.drive), "floppy_on_interrupt")
    /\ UNCHANGED <<queue, do_floppy, reset, recalibrate, current_track, selected, ticking,
                   fdc, irq, at, changer, faults, ghost>>

FloppyOnInterrupt ==
    /\ Runs("floppy_on_interrupt")
    /\ selected' = TRUE
    /\ dor' = [dor EXCEPT !.drive = current_drive]
    /\ AddTimer(IF dor.drive = current_drive THEN 0 ELSE Select, "transfer")
    /\ UNCHANGED <<queue, do_floppy, flags, current_drive, current_track, mon_timer,
                   moff_timer, ticking, fdc, irq, at, changer, faults, ghost>>

\* CURRENT, or what is found where a request should be.
TheTrack == IF queue = <<>> THEN 0 ELSE CURRENT.track
Transfer ==
    /\ Runs("transfer")
    /\ IF seek /\ ~reset
       THEN Send("seek_interrupt", IF TheTrack = 0 THEN "recal" ELSE "seek", TheTrack)
       ELSE /\ Calls(IF reset THEN "do_fd_request" ELSE "setup_rw_floppy")
            /\ UNCHANGED <<do_floppy, reset, fdc, faults>>
    /\ UNCHANGED <<queue, recalibrate, seek, current_drive, current_track, motors, timers,
                   ticking, irq, at, changer, ghost>>

\* setup_DMA() takes the address from CURRENT.
SetupRwFloppy ==
    /\ Runs("setup_rw_floppy")
    /\ ghost' = (ghost \/ queue = <<>>)
    /\ Send("rw_interrupt", "rw", TheTrack)
    /\ UNCHANGED <<queue, recalibrate, seek, current_drive, current_track, motors, timers,
                   ticking, irq, at, changer>>

----------------------------------------------------------------------------
(* Interrupts                                                              *)

\* Without the risks floppy_change() is not interrupted between a test and its use.
\* Interrupts stay on in a handler, but only ticks can come: the controller gets its
\* next command last.
Undisturbed ==
    /\ changer.pc = "sleep" => "select" \in Risks
    /\ changer.pc = "look" => "change" \in Risks
Interrupt(handler) == pc = "idle" /\ irq # "none" /\ do_floppy = handler /\ Undisturbed

\* a mutant: nobody is woken.
DeselectSilent == selected' = FALSE /\ UNCHANGED changer
\* floppy_deselect() wakes floppy_change().
Deselect ==
    /\ selected' = FALSE
    /\ IF changer.pc = "select" THEN Awake ELSE UNCHANGED changer
NotDeselected == UNCHANGED <<selected, changer>>

Counted == [CURRENT EXCEPT !.errors = @ + 1]

GivenUp(r) == r.errors > MaxErrors

\* bad_flp_intr(): one more error, the last one ends the request; how many the
\* next one has is read where it should be.
BadFlp ==
    LET r == Counted  last == GivenUp(r)
        many == IF last THEN Len(queue) = 1 \/ queue[2].errors > MaxErrors \div 2
                ELSE r.errors > MaxErrors \div 2
    IN  /\ IF last THEN EndRequest /\ Deselect
           ELSE queue' = <<r>> \o Tail(queue) /\ UNCHANGED moff_timer /\ NotDeselected
        /\ reset' = (reset \/ irq = "silent" \/ many) /\ recalibrate' = (recalibrate \/ ~many)

SeekFails ==
    /\ Interrupt("seek_interrupt") /\ queue # <<>> /\ irq # "ok" /\ BadFlp
    /\ irq' = "none" /\ do_floppy' = "none" /\ Calls("do_fd_request")
    /\ UNCHANGED <<seek, current_drive, current_track, dor, mon_timer, timers, ticking,
                   fdc, at, faults, ghost>>
SeekInterrupt ==
    /\ Interrupt("seek_interrupt") /\ irq = "ok"
    /\ current_track' = TheTrack
    /\ irq' = "none" /\ do_floppy' = "none" /\ Calls("setup_rw_floppy")
    /\ UNCHANGED <<queue, flags, current_drive, motors, timers, ticking, fdc, at, changer,
                   faults, ghost>>

RwFails ==
    /\ Interrupt("rw_interrupt") /\ queue # <<>> /\ irq # "ok"
    /\ IF irq = "protected" THEN EndRequest /\ Deselect /\ UNCHANGED <<reset, recalibrate>>
       ELSE BadFlp
    /\ irq' = "none" /\ do_floppy' = "none" /\ Calls("do_fd_request")
    /\ UNCHANGED <<seek, current_drive, current_track, dor, mon_timer, timers, ticking,
                   fdc, at, faults, ghost>>
RwInterrupt ==
    /\ Interrupt("rw_interrupt") /\ queue # <<>> /\ irq = "ok"
    /\ Deselect /\ EndRequest
    /\ irq' = "none" /\ do_floppy' = "none" /\ Calls("do_fd_request")
    /\ UNCHANGED <<flags, current_drive, current_track, dor, mon_timer, timers, ticking,
                   fdc, at, faults, ghost>>

\* a mutant: do_fd_request() is only called when the recalibration failed.
RecalInterruptStops ==
    /\ Interrupt("recal_interrupt")
    /\ IF irq = "silent" THEN reset' = TRUE /\ UNCHANGED recalibrate /\ Calls("do_fd_request")
       ELSE recalibrate' = FALSE /\ UNCHANGED reset /\ Calls("idle")
    /\ irq' = "none" /\ do_floppy' = "none"
    /\ UNCHANGED <<queue, seek, current_drive, current_track, motors, timers, ticking, fdc,
                   at, changer, faults, ghost>>
RecalInterrupt ==
    /\ Interrupt("recal_interrupt")
    /\ IF irq = "silent" THEN reset' = TRUE /\ UNCHANGED recalibrate
       ELSE recalibrate' = FALSE /\ UNCHANGED reset
    /\ irq' = "none" /\ do_floppy' = "none" /\ Calls("do_fd_request")
    /\ UNCHANGED <<queue, seek, current_drive, current_track, motors, timers, ticking, fdc,
                   at, changer, faults, ghost>>
ResetInterrupt ==
    /\ Interrupt("reset_interrupt")
    /\ reset' = (reset \/ irq = "silent")
    /\ irq' = "none" /\ do_floppy' = "none" /\ Calls("do_fd_request")
    /\ UNCHANGED <<queue, recalibrate, seek, current_drive, current_track, motors, timers,
                   ticking, fdc, at, changer, faults, ghost>>

\* unexpected_floppy_interrupt() leaves the rest to the next request.
Unexpected ==
    /\ Interrupt("none")
    /\ reset' = (reset \/ irq = "silent") /\ recalibrate' = (recalibrate \/ irq = "ok")
    /\ irq' = "none"
    /\ UNCHANGED <<queue, pc, do_floppy, seek, current_drive, current_track, motors,
                   timers, ticking, fdc, at, changer, faults, ghost>>

----------------------------------------------------------------------------
(* floppy_change(), in a process                                           *)

Only == UNCHANGED <<queue, pc, do_floppy, flags, current_drive, current_track, selected,
                    timers, ticking, fdc, irq, at, faults, ghost>>
InProcess(l) == pc = "idle" /\ ~ticking /\ changer.pc = l /\ ~changer.asleep
Change(nr) ==
    /\ InProcess("no")
    /\ changer' = [changer EXCEPT !.pc = "motor", !.nr = nr]
    /\ UNCHANGED <<dor, mon_timer, moff_timer>> /\ Only

\* floppy_on() sleeps until the motor has been on for long enough.
FloppyOn ==
    /\ InProcess("motor")
    /\ TicksToFloppyOn(changer.nr)
    /\ changer' = (IF TicksFor(changer.nr) > 0 THEN [changer EXCEPT !.asleep = TRUE]
                   ELSE [changer EXCEPT !.pc = "select"])
    /\ Only

\* It waits until the drive is free, tries again, or looks at the disk.
Taken == dor.drive # changer.nr /\ selected
WaitSelect ==
    /\ InProcess("select") /\ Taken
    /\ changer' = [changer EXCEPT !.pc = "sleep"]
    /\ UNCHANGED <<dor, mon_timer, moff_timer>> /\ Only
Sleep ==
    /\ InProcess("sleep")
    /\ changer' = [changer EXCEPT !.pc = "select", !.asleep = TRUE]
    /\ UNCHANGED <<dor, mon_timer, moff_timer>> /\ Only
Retry ==
    /\ InProcess("select") /\ ~Taken /\ dor.drive # changer.nr
    /\ changer' = [changer EXCEPT !.pc = "motor"]
    /\ UNCHANGED <<dor, mon_timer, moff_timer>> /\ Only
Look ==
    /\ InProcess("select") /\ dor.drive = changer.nr
    /\ changer' = [changer EXCEPT !.pc = "look"]
    /\ UNCHANGED <<dor, mon_timer, moff_timer>> /\ Only
Looked ==
    /\ InProcess("look")
    /\ ghost' = (ghost \/ dor.drive # changer.nr \/ changer.nr \notin dor.on)
    /\ FloppyOff(changer.nr)
    /\ changer' = [changer EXCEPT !.pc = "rest"]
    /\ UNCHANGED <<queue, pc, do_floppy, flags, current_drive, current_track, selected, dor,
                   mon_timer, timers, ticking, fdc, irq, at, faults>>

----------------------------------------------------------------------------
Code == ResetFloppy \/ RecalibrateFloppy \/ NoRequest \/ BadRequest \/ StartRequest
        \/ FloppyOnInterrupt \/ Transfer \/ SetupRwFloppy
Interrupts == SeekFails \/ SeekInterrupt \/ RwFails \/ RwInterrupt
              \/ RecalInterrupt \/ ResetInterrupt \/ Unexpected
Process == FloppyOn \/ WaitSelect \/ Sleep \/ Retry \/ Look \/ Looked
Timer == Tick \/ DoFloppyTimer

Next ==
    \/ Code \/ Interrupts \/ Timer \/ Done \/ Spurious \/ Process
    \/ \E a \in Asked : Add(a[1], a[2])
    \/ \E d \in Checked : Change(d)

\* Time passes, the controller answers, interrupts and processes go on.
Fairness == WF_vars(Code) /\ WF_vars(Interrupts) /\ WF_vars(Timer) /\ WF_vars(Done)
            /\ WF_vars(Process)

Spec == Init /\ [][Next]_vars /\ Fairness

----------------------------------------------------------------------------
(* Properties                                                              *)

\* While data is transferred the drive of the request is selected, its motor has
\* been on for long enough but for a select delay, and the data is the request's
\* (floppy.c:588-602, sched.c:325-355, 377-394).
RightDrive ==
    fdc.cmd = "rw" =>
        /\ queue # <<>> /\ dor.drive = CURRENT.drive /\ fdc.track = CURRENT.track
        /\ CURRENT.drive \in dor.on /\ mon_timer[CURRENT.drive] <= Select

\* setup_DMA() has a request to take the address from, and floppy_change()
\* looks at the drive it asked for, turned on (floppy.c:249, 224-230).
Sound == ~ghost

\* The drive that turns is the one whose data is meant.
DriveOK == TypeOK /\ RightDrive /\ Sound

\* There is no timeout, so that a request only ends because a timer runs, the
\* controller works or its interrupt is handled: there is always one of them,
\* and never two (floppy.c:607-660).
Driven ==
    pc = "idle" =>
        LET drives == Cardinality(timers)
                      + (IF do_floppy # "none" /\ (fdc.cmd # "none" \/ irq # "none") THEN 1 ELSE 0)
        IN  /\ drives <= 1
            /\ queue # <<>> => drives = 1
            /\ fdc.cmd # "none" \/ irq \in {"bad", "protected"} => do_floppy # "none"

\* floppy_change() comes to an end when there are no more requests, and requests
\* end (floppy.c:213-236).
ChangeEnds ==
    <>[](queue = <<>>) => [](changer.pc = "motor" => <>(changer.pc = "no"))
RequestsEnd == []<>(queue = <<>>) \/ []<><<queue' = SubSeq(queue, 2, Len(queue))>>_queue

\* Whoever waits for the controller, a request or floppy_change(), never waits in vain.
AllEnd == ChangeEnds /\ RequestsEnd
=============================================================================
