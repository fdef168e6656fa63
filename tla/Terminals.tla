------------------------------ MODULE Terminals ------------------------------
(***************************************************************************)
(* A terminal: the three queues and the line discipline of tty_io.c, the   *)
(* ioctls of tty_ioctl.c that change them, the interrupts of rs_io.s and   *)
(* keyboard.S, and the two ways to write, rs_write() and con_write().      *)
(*                                                                         *)
(* A process reads and another one writes, both of one process group; what *)
(* is typed and the speed of the line are external.  An interrupt runs to  *)
(* the end, and it can come between any two steps of a process.  A queue   *)
(* is the sequence of what lies between tail and head: one character more  *)
(* than it holds makes it empty.                                           *)
(***************************************************************************)
EXTENDS Integers, Sequences, FiniteSets, FiniteSetsExt, SequencesExt

CONSTANTS Kinds,       \* "console", "serial"
          Modes,       \* of each kind: sets of "canon", "echo", "isig", "ixon"
          Keys,        \* of each kind: what is typed
          Size,        \* TTY_BUF_SIZE
          Room,        \* 128, what a writer waits for
          Startup,     \* 256, what is left when a writer is woken
          Reads, Vmins,\* bounds: how much is read by a call, and what VMIN is
          MaxWrite,    \* bound: how much is written by a call
          Risks        \* "echo": an echo between the two halves of a PUTCH, while
                       \* con_write() counts, or without room, and START
                       \* likewise; "stop": output is stopped; "race": the
                       \* character that a process is about to take is erased;
                       \* "eof": VEOF is disabled or enabled; "mode": the mode
                       \* is changed while a process reads

ASSUME SizesAssumption ==
    /\ {Size, Room, Startup, MaxWrite} \cup Reads \subseteq Nat \ {0} /\ Vmins \subseteq Nat /\ Room < Size
ASSUME InputAssumption ==
    /\ Kinds \subseteq {"console", "serial"}
    /\ \A k \in Kinds : Modes[k] \subseteq SUBSET {"canon", "echo", "isig", "ixon"}
    /\ \A k \in Kinds : Keys[k] \subseteq {"x", "nl", "eof", "kill", "erase", "intr", "stop", "start"}
    /\ Risks \subseteq {"echo", "stop", "race", "eof", "mode"}

VARIABLES
    kind, mode,
    eof,                       \* VEOF is not disabled
    read_q, secondary, write_q,
    data,                      \* secondary->data, how many lines there are
    transmitting,              \* the serial line interrupts when it can send
    stopped,
    reader, writer,
    garbled                    \* output has been lost or doubled

input == <<read_q, secondary, data>>
output == <<write_q, transmitting>>
settings == <<kind, mode, eof, stopped>>
vars == <<settings, input, output, reader, writer, garbled>>

Held == Size - 1     \* what a queue holds
FULL(q) == Len(q) = Held
IsEnd(c) == c = "nl" \/ (c = "eof" /\ eof)
Lines(q) == Cardinality({i \in DOMAIN q : IsEnd(q[i])})

\* In write_q "w" is of the writer and "e" an echo.
TypeOK ==
    /\ kind \in Kinds /\ mode \in Modes[kind]
    /\ read_q \in Seq(Keys[kind]) /\ secondary \in Seq(Keys[kind]) /\ write_q \in Seq({"w", "e"})
    /\ \A q \in {read_q, secondary, write_q} : Len(q) <= Held
    /\ data \in 0..Held
    /\ {eof, transmitting, stopped, garbled} \subseteq BOOLEAN
    /\ reader.pc \in {"no", "test", "take", "again"}
    /\ reader.timeout \in {"over", "set", "never"}
    /\ writer.pc \in {"no", "full", "put", "stored", "out", "con"}
    /\ writer.left \in 0..MaxWrite /\ writer.nr \in 0..Held

Idle == [pc |-> "no", asleep |-> FALSE, sig |-> FALSE, left |-> 0, need |-> 0, time |-> FALSE,
         timeout |-> "over"]
Resting == [pc |-> "no", asleep |-> FALSE, sig |-> FALSE, left |-> 0, nr |-> 0]

Init ==
    /\ kind \in Kinds /\ mode \in Modes[kind] /\ eof = TRUE
    /\ read_q = <<>> /\ secondary = <<>> /\ write_q = <<>> /\ data = 0
    /\ transmitting = FALSE /\ stopped = FALSE
    /\ reader = Idle /\ writer = Resting
    /\ garbled = FALSE

\* Another process runs only while this one is in schedule(), or before it.
Scheduled(p) == p.pc \in {"no", "test", "full"}
Woken(p) == [p EXCEPT !.asleep = FALSE]
\* a mutant: a signal wakes nobody.
SignalledAsleep(p) == IF p.pc = "no" THEN p ELSE [p EXCEPT !.sig = TRUE]
Signalled(p) == IF p.pc = "no" THEN p ELSE [p EXCEPT !.sig = TRUE, !.asleep = FALSE]

----------------------------------------------------------------------------
(* copy_to_cooked()                                                        *)

\* What copy_to_cooked() works on; `rest' is what stays in read_q.
Work == [secondary |-> secondary, data |-> data, rest |-> <<>>, write_q |-> write_q,
         stopped |-> stopped, sig |-> FALSE, wrote |-> FALSE, echoed |-> FALSE, lost |-> FALSE]

\* tty->write(): the console shows all there is.
Written(w) == [w EXCEPT !.wrote = TRUE,
                        !.write_q = IF kind = "console" /\ ~w.stopped THEN <<>> ELSE @]

\* PUTCH does not look whether there is room.
Echo(w, n) ==
    LET over == Len(w.write_q) + n > Held IN
    Written([w EXCEPT !.write_q = IF over THEN [i \in 1..(Len(@) + n - Size) |-> "e"]
                                  ELSE @ \o [i \in 1..n |-> "e"],
                      !.lost = @ \/ (over /\ "w" \in ToSet(w.write_q)),
                      !.echoed = TRUE])
Echoing(w, n) == IF "echo" \in mode /\ n > 0 THEN Echo(w, n) ELSE w

\* The line is what follows the last end of a line.
Killed(q) == SubSeq(q, 1, Max({0} \cup {i \in DOMAIN q : IsEnd(q[i])}))
Erased(q) == IF q = <<>> \/ IsEnd(Last(q)) THEN q ELSE Front(q)
Edited(w, q) == Echoing([w EXCEPT !.secondary = q], Len(w.secondary) - Len(q))

\* a mutant: only a newline is counted.
StoredNewlines(w, c) ==
    Echoing([w EXCEPT !.secondary = Append(@, c), !.data = IF c = "nl" THEN @ + 1 ELSE @],
            IF c \in {"x", "erase"} THEN 1 ELSE 2)
Stored(w, c) ==
    Echoing([w EXCEPT !.secondary = Append(@, c), !.data = IF IsEnd(c) THEN @ + 1 ELSE @],
            IF c \in {"x", "erase"} THEN 1 ELSE 2)

Cook(w, c) ==
    IF FULL(w.secondary) THEN [w EXCEPT !.rest = Append(@, c)]
    ELSE CASE "canon" \in mode /\ c = "kill" -> Edited(w, Killed(w.secondary))
           [] "canon" \in mode /\ c = "erase" -> Edited(w, Erased(w.secondary))
           [] "ixon" \in mode /\ c \in {"stop", "start"} ->
                  Written([w EXCEPT !.stopped = c = "stop"])
           [] "isig" \in mode /\ c = "intr" -> [w EXCEPT !.sig = TRUE]
           [] OTHER -> Stored(w, c)

\* copy_to_cooked() takes one character after the other.
Cooked(q) ==
    LET w[n \in 0..Len(q)] == IF n = 0 THEN Work ELSE Cook(w[n - 1], q[n]) IN w[Len(q)]

\* One of the two interrupts puts the character into read_q, if there is room.
Typed(c) == IF FULL(read_q) THEN read_q ELSE Append(read_q, c)

\* What the risks are about.
Allowed(w) ==
    /\ w.echoed => "echo" \in Risks \/ (~w.lost /\ writer.pc \notin {"stored", "con"})
    /\ Len(w.write_q) < Len(write_q) => "echo" \in Risks \/ writer.pc # "con"
    /\ w.stopped => "stop" \in Risks
    /\ secondary # <<>> /\ w.secondary = <<>> => "race" \in Risks \/ reader.pc # "take"

\* Who waits for a line is woken at the end, whatever was typed.
Answered(w) == IF w.sig THEN Signalled(reader) ELSE Woken(reader)

Key(c) ==
    LET w == Cooked(Typed(c)) IN
    /\ Allowed(w)
    /\ read_q' = w.rest /\ secondary' = w.secondary /\ data' = w.data
    /\ write_q' = w.write_q /\ stopped' = w.stopped
    /\ transmitting' = (transmitting \/ (kind = "serial" /\ w.wrote /\ w.write_q # <<>>))
    /\ reader' = Answered(w)
    /\ writer' = (IF w.sig THEN Signalled(writer) ELSE writer)
    /\ garbled' = (garbled \/ w.lost \/ (w.echoed /\ writer.pc = "stored"))
    /\ UNCHANGED <<kind, mode, eof>>

\* rs_int reads a character when one has come; keyboard_interrupt makes one of
\* the scan codes.
ReadChar(c) == kind = "serial" /\ Key(c)
KeyboardInterrupt(c) == kind = "console" /\ Key(c)

----------------------------------------------------------------------------
(* tty_read()                                                              *)

ReaderRuns(l) == reader.pc = l /\ ~reader.asleep /\ Scheduled(writer)
OnlyReader == UNCHANGED <<settings, output, writer, garbled>>

\* VMIN and VTIME count only when lines do not.
StartRead(n, vmin, vtime) ==
    LET canon == "canon" \in mode IN
    /\ ReaderRuns("no")
    /\ reader' = [Idle EXCEPT !.pc = "test", !.left = n,
            !.need = IF canon \/ vmin = 0 THEN n ELSE Min({vmin, n}),
            !.time = ~canon /\ vmin > 0 /\ vtime,
            !.timeout = CASE canon \/ vmin > 0 -> "never"
                          [] vtime -> "set"
                          [] OTHER -> "over"]
    /\ UNCHANGED input /\ OnlyReader

Return == reader' = Idle

Nothing == secondary = <<>> \/ ("canon" \in mode /\ ~FULL(read_q) /\ data = 0)
Test ==
    /\ ReaderRuns("test")
    /\ IF ~Nothing THEN reader' = [reader EXCEPT !.pc = "take"]
       ELSE IF reader.timeout = "over" \/ reader.sig THEN Return
       ELSE reader' = [reader EXCEPT !.asleep = TRUE]
    /\ UNCHANGED input /\ OnlyReader

\* One character.  Where there is none GETCH goes on beyond the head.
Take ==
    /\ ReaderRuns("take")
    /\ IF secondary = <<>>
       THEN /\ Return /\ UNCHANGED input
       ELSE LET c == Head(secondary)
                left == reader.left - 1
                ends == "canon" \in mode /\ IsEnd(c)
                stays == "canon" \in mode /\ c = "eof" /\ eof
            IN  /\ secondary' = Tail(secondary)
                /\ data' = (IF IsEnd(c) THEN data - 1 ELSE data)
                /\ reader' = IF stays THEN [reader EXCEPT !.pc = "again"]
                             ELSE [reader EXCEPT !.left = left, !.need = Max({@ - 1, 0}),
                                    !.pc = IF left = 0 \/ ends \/ secondary' = <<>>
                                           THEN "again" ELSE "take"]
                /\ UNCHANGED read_q
    /\ OnlyReader

Again ==
    /\ ReaderRuns("again")
    /\ IF "canon" \in mode \/ reader.need = 0 \/ reader.left = 0 THEN Return
       ELSE reader' = [reader EXCEPT !.pc = "test",
                                     !.timeout = IF reader.time THEN "set" ELSE @]
    /\ UNCHANGED input /\ OnlyReader

\* schedule() wakes a process whose time is over.
Expire ==
    /\ reader.asleep /\ reader.timeout = "set"
    /\ reader' = [reader EXCEPT !.asleep = FALSE, !.timeout = "over"]
    /\ UNCHANGED input /\ OnlyReader
----------------------------------------------------------------------------
(* tty_write()                                                             *)

WriterRuns(l) == writer.pc = l /\ ~writer.asleep /\ Scheduled(reader)
OnlyWriter == UNCHANGED <<settings, input, reader>>

StartWrite(n) ==
    /\ WriterRuns("no")
    /\ writer' = [Resting EXCEPT !.pc = "full", !.left = n]
    /\ UNCHANGED <<output, garbled>> /\ OnlyWriter

\* sleep_if_full(): once it sleeps it wants some room.
SleepIfFull ==
    /\ WriterRuns("full")
    /\ writer' = (IF writer.sig THEN Resting
                  ELSE IF Len(write_q) > Held - (IF writer.nr = 1 THEN Room ELSE 1)
                  THEN [writer EXCEPT !.asleep = TRUE, !.nr = 1]
                  ELSE [writer EXCEPT !.pc = "put", !.nr = 0])
    /\ UNCHANGED <<output, garbled>> /\ OnlyWriter

\* PUTCH stores the character and then moves the head.
Put ==
    /\ WriterRuns("put")
    /\ writer' = [writer EXCEPT !.pc = IF writer.left = 0 \/ FULL(write_q) THEN "out" ELSE "stored"]
    /\ UNCHANGED <<output, garbled>> /\ OnlyWriter
Inc ==
    /\ WriterRuns("stored")
    /\ write_q' = (IF FULL(write_q) THEN <<>> ELSE Append(write_q, "w"))
    /\ writer' = [writer EXCEPT !.pc = "put", !.left = @ - 1]
    /\ UNCHANGED <<transmitting, garbled>> /\ OnlyWriter

\* tty->write(), and another turn when something is left.
NextTurn == IF writer.left = 0 THEN Resting ELSE [writer EXCEPT !.pc = "full", !.nr = 0]
\* a mutant: the interrupts are not enabled.
RsWriteQuiet ==
    /\ WriterRuns("out") /\ kind = "serial"
    /\ writer' = NextTurn
    /\ UNCHANGED <<write_q, transmitting, garbled>> /\ OnlyWriter
RsWrite ==
    /\ WriterRuns("out") /\ kind = "serial"
    /\ transmitting' = (transmitting \/ write_q # <<>>)
    /\ writer' = NextTurn
    /\ UNCHANGED <<write_q, garbled>> /\ OnlyWriter
\* con_write() counts what there is to show before it shows it.
ConWrite ==
    /\ WriterRuns("out") /\ kind = "console"
    /\ writer' = [writer EXCEPT !.pc = "con", !.nr = Len(write_q)]
    /\ UNCHANGED <<output, garbled>> /\ OnlyWriter
Show ==
    /\ WriterRuns("con")
    /\ IF writer.nr = 0 \/ stopped
       THEN writer' = NextTurn /\ UNCHANGED <<write_q, garbled>>
       ELSE /\ writer' = [writer EXCEPT !.nr = @ - 1]
            /\ IF write_q = <<>> THEN garbled' = TRUE /\ UNCHANGED write_q
               ELSE write_q' = Tail(write_q) /\ UNCHANGED garbled
    /\ UNCHANGED transmitting /\ OnlyWriter

----------------------------------------------------------------------------
(* The line and the other processes                                        *)

\* write_char: a writer is woken when little is left, and there are no more
\* interrupts when nothing is.
Transmit ==
    /\ transmitting
    /\ write_q' = (IF write_q = <<>> THEN <<>> ELSE Tail(write_q))
    /\ transmitting' = (write_q' # <<>>)
    /\ writer' = (IF Len(write_q) <= Startup \/ write_q' = <<>> THEN Woken(writer) ELSE writer)
    /\ UNCHANGED <<settings, input, reader, garbled>>

Others == Scheduled(reader) /\ Scheduled(writer)

\* set_termios() and set_termio().
SetTermios(m, e) ==
    /\ Others
    /\ m # mode => "mode" \in Risks \/ reader.pc = "no"
    /\ e # eof => "eof" \in Risks
    /\ mode' = m /\ eof' = e
    /\ UNCHANGED <<kind, stopped, input, output, reader, writer, garbled>>

\* TCFLSH: flush().
Flush ==
    /\ Others
    /\ \/ read_q' = <<>> /\ UNCHANGED write_q
       \/ write_q' = <<>> /\ UNCHANGED read_q
       \/ read_q' = <<>> /\ write_q' = <<>>
    /\ UNCHANGED <<settings, secondary, data, transmitting, reader, writer, garbled>>

\* TCXONC with TCOOFF and TCOON; TCIOFF and TCION put a character out without a test.
Tcxonc(on) ==
    /\ Others
    /\ on => "stop" \in Risks
    /\ stopped' = on
    /\ write_q' = (IF kind = "console" /\ ~on THEN <<>> ELSE write_q)
    /\ transmitting' = (transmitting \/ (kind = "serial" /\ write_q # <<>>))
    /\ UNCHANGED <<kind, mode, eof, input, reader, writer, garbled>>

----------------------------------------------------------------------------
Reader == Test \/ Take \/ Again \/ Expire
Writer == SleepIfFull \/ Put \/ Inc \/ RsWrite \/ ConWrite \/ Show

Next ==
    \/ Reader \/ Writer \/ Transmit \/ Flush
    \/ \E c \in Keys[kind] : ReadChar(c) \/ KeyboardInterrupt(c)
    \/ \E n \in Reads, vmin \in Vmins, vtime \in BOOLEAN : StartRead(n, vmin, vtime)
    \/ \E n \in 1..MaxWrite : StartWrite(n)
    \/ \E m \in Modes[kind], e \in BOOLEAN : SetTermios(m, e)
    \/ \E b \in BOOLEAN : Tcxonc(b)

\* Whoever can run again and again is chosen by schedule(), for the others use
\* up their time; the line is ready to send after a while.
Fairness == SF_vars(Reader) /\ SF_vars(Writer) /\ WF_vars(Transmit)

Spec == Init /\ [][Next]_vars /\ Fairness

----------------------------------------------------------------------------
(* Properties                                                              *)

\* secondary->data is the number of lines in the queue, which decides whether a
\* process waits (tty_io.c:284, 418, 441).
DataExact == data = Lines(secondary)


\* Nothing is taken from an empty queue (tty_io.c:417, 439).
NeverShort == reader.pc = "take" => secondary # <<>>

\* The queues hold what they are said to hold.
QueuesOK ==
    /\ "eof" \notin Risks => TypeOK /\ DataExact
    /\ "race" \notin Risks => NeverShort

\* Nobody sleeps on while there is what he waits for, and a writer's sleep is
\* ended by the interrupts that the line still makes, which a console does not
\* have: nobody sleeps on one that is not stopped (tty_io.c:153, 417).
Ended == kind = "serial" \/ "stop" \notin Risks
Waiting ==
    /\ reader.asleep /\ "mode" \notin Risks => Nothing /\ ~reader.sig /\ reader.timeout # "over"
    /\ writer.asleep /\ Ended => ~writer.sig /\ transmitting

\* A call of tty_write() comes to an end, unless echoes fill the queue or it is
\* emptied for ever; one of tty_read() does when there is a line, unless the mode
\* is changed (serial.c:76, rs_io.s:152-192, tty_io.c:417).
Disturbed == Flush \/ \E c \in Keys[kind] : Key(c)
WriteEnds ==
    \/ kind = "console" /\ <>stopped
    \/ []<><<Disturbed>>_vars
    \/ writer.pc # "no" ~> writer.pc = "no"
ReadEnds ==
    reader.pc # "no" /\ "canon" \in mode /\ data > 0 ~> reader.pc = "no" \/ "canon" \notin mode

\* Neither of the calls is forgotten.
CallsEnd == WriteEnds /\ ReadEnds
=============================================================================
