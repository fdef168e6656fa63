------------------------------- MODULE Console -------------------------------
(***************************************************************************)
(* The virtual consoles of console.c: how each one's part of the video     *)
(* memory shows its screen.  con_write() interprets one character at a     *)
(* time; the cursor is kept twice, as column and line and as an address,   *)
(* and on an EGA the screen moves through its part of the memory instead   *)
(* of being copied.                                                        *)
(*                                                                         *)
(* con_write() runs with interrupts on.  A character that tests where the  *)
(* cursor is before it acts takes two steps here, and between them the      *)
(* keyboard may change the console in front and echo keys to it, which is   *)
(* con_write() again.  An echo to the console that is being written to goes *)
(* between the test and the change: that is the risk "echo", and what is    *)
(* below does not hold then.  The other characters, and set_cursor() at the *)
(* end of each, take one step.                                             *)
(*                                                                         *)
(* Addresses count characters.  A cell is blank or not: attributes,        *)
(* character sets and the bell are left out, and so is the answer to ESC Z, *)
(* which respond() puts into the terminal's queue as if it were typed.      *)
(***************************************************************************)
EXTENDS Integers, Sequences, FiniteSets, FiniteSetsExt, SequencesExt

CONSTANTS Columns, Rows,      \* video_num_columns, video_num_lines
          Tab,                \* 8
          Memory,             \* video_mem_term - video_mem_base
          MAX_CONSOLES, NPAR,
          Videos,             \* "EGA", "CGA": the kinds of video_type
          Chars,              \* what is written
          Written,            \* which consoles are written to
          MaxInk,             \* bound: how many cells of a console are not blank
          MaxPar,             \* bound: what a parameter of a sequence is
          Saved,              \* bound: where the cursor is when it is saved
          Echoed,             \* what the keyboard echoes to a console that is not written to
          Risks               \* "echo": a key is echoed to a console in the middle of a character

ASSUME ScreenAssumption ==
    /\ {Columns, Rows, Tab, MAX_CONSOLES, NPAR, MaxInk, MaxPar} \subseteq Nat \ {0}
    /\ Columns % 2 = 0 /\ Columns % Tab = 0 /\ Memory >= Rows * Columns
    /\ Videos \subseteq {"EGA", "CGA"} /\ Risks \subseteq {"echo"}
    /\ <<0, 0>> \in Saved /\ Saved \subseteq (0..Columns) \X (0..(Rows - 1))

\* con_init() shares the memory out.
NR_CONSOLES == Min({MAX_CONSOLES, Memory \div (Rows * Columns)})
Consoles == 0..(NR_CONSOLES - 1)
Room == Memory \div NR_CONSOLES
video_mem_start(c) == c * Room
video_mem_end(c) == (c + 1) * Room

ASSUME WrittenAssumption == Written \subseteq Consoles

VARIABLES
    video,         \* video_type
    ink,           \* the addresses that are not blank
    vc,            \* vc_cons[]
    fg_console,
    shown, cursor, \* the registers of the controller
    half           \* the character whose tests are made, and what they saw

vars == <<video, ink, vc, fg_console, shown, cursor, half>>
Whole == [c |-> -1]

States == {"normal", "esc", "square", "getpars", "funckey", "setterm", "setgraph", "none"}

TypeOK ==
    /\ video \in Videos /\ fg_console \in Consoles
    /\ ink \subseteq 0..(Memory - 1)
    /\ \A c \in Consoles :
          /\ vc[c].x \in 0..Columns /\ vc[c].y \in 0..(Rows - 1)
          /\ vc[c].saved_x \in 0..Columns /\ vc[c].saved_y \in 0..(Rows - 1)
          /\ 0 <= vc[c].top /\ vc[c].top < vc[c].bottom /\ vc[c].bottom <= Rows
          /\ vc[c].state \in States /\ vc[c].npar \in 0..(NPAR - 1)

NoPars == [i \in 0..(NPAR - 1) |-> 0]
\* A console whose cursor is in column x of line y.
Fresh(c, x, y) ==
    [origin |-> c * Room, scr_end |-> c * Room + Rows * Columns,
     pos |-> c * Room + y * Columns + x, x |-> x, y |-> y, top |-> 0, bottom |-> Rows,
     saved_x |-> 0, saved_y |-> 0, state |-> "normal", ques |-> FALSE, npar |-> 0, par |-> NoPars]

\* con_init(): the cursor is where the loader left it.
Init ==
    /\ video \in Videos /\ ink = {} /\ fg_console = 0 /\ shown = 0
    /\ \E x \in 0..(Columns - 1), y \in 0..(Rows - 1) :
          vc = [c \in Consoles |-> IF c = 0 THEN Fresh(c, x, y) ELSE Fresh(c, 0, 0)]
    /\ cursor = vc[0].pos /\ half = Whole

----------------------------------------------------------------------------
(* What a console works on: v is its entry of vc_cons[], ink is the        *)
(* memory, shown the register and c its number.  saw is its entry when the *)
(* tests were made.                                                        *)

At(s, v) == [s EXCEPT !.v = v]

\* stosw, and movsl, which moves two characters at a time.
Cleared(i, from, n) == {a \in i : a < from \/ a >= from + n}
Words(n) == 2 * (n \div 2)
Moved(i, to, from, n) ==
    {a \in i : a < to \/ a >= to + n} \cup
    {a - from + to : a \in {b \in i : from <= b /\ b < from + n}}

\* A negative number is a large one here.
gotoxy(s, x, y) ==
    IF x < 0 \/ x > Columns \/ y < 0 \/ y >= Rows THEN s
    ELSE At(s, [s.v EXCEPT !.x = x, !.y = y, !.pos = s.v.origin + y * Columns + x])

set_origin(s) == [s EXCEPT !.shown = IF video = "EGA" /\ s.c = fg_console THEN s.v.origin ELSE @]

\* On an EGA the whole screen scrolls by moving on, and back at the end.
\* a mutant: the cursor stays where it is when the screen moves back.
ScrollAllPos(s) ==
    LET v == [s.v EXCEPT !.origin = @ + Columns, !.pos = @ + Columns, !.scr_end = @ + Columns]
        back == v.origin - video_mem_start(s.c)
        n == Words((Rows - 1) * Columns)
    IN  set_origin(
            IF v.scr_end > video_mem_end(s.c)
            THEN [s EXCEPT !.v = [v EXCEPT !.origin = @ - back, !.scr_end = @ - back],
                           !.ink = Cleared(Moved(@, video_mem_start(s.c), v.origin, n),
                                           video_mem_start(s.c) + n, Columns)]
            ELSE [s EXCEPT !.v = v, !.ink = Cleared(@, v.scr_end - Columns, Columns)])
ScrollAll(s) ==
    LET v == [s.v EXCEPT !.origin = @ + Columns, !.pos = @ + Columns, !.scr_end = @ + Columns]
        back == v.origin - video_mem_start(s.c)
        n == Words((Rows - 1) * Columns)
    IN  set_origin(
            IF v.scr_end > video_mem_end(s.c)
            THEN [s EXCEPT !.v = [v EXCEPT !.origin = @ - back, !.pos = @ - back, !.scr_end = @ - back],
                           !.ink = Cleared(Moved(@, video_mem_start(s.c), v.origin, n),
                                           video_mem_start(s.c) + n, Columns)]
            ELSE [s EXCEPT !.v = v, !.ink = Cleared(@, v.scr_end - Columns, Columns)])

scrup(s) ==
    LET to == s.v.origin + Columns * s.v.top
        n == Words((s.v.bottom - s.v.top - 1) * Columns)
    IN  IF s.v.bottom <= s.v.top THEN s
        ELSE IF video = "EGA" /\ s.v.top = 0 /\ s.v.bottom = Rows THEN ScrollAll(s)
        ELSE [s EXCEPT !.ink = Cleared(Moved(@, to, to + Columns, n), to + n, Columns)]

\* It copies downwards from the end, and clears what is left of it.
scrdown(s) ==
    LET end == s.v.origin + Columns * s.v.bottom
        n == Words((s.v.bottom - s.v.top - 1) * Columns)
    IN  IF s.v.bottom <= s.v.top THEN s
        ELSE [s EXCEPT !.ink = Cleared(Moved(@, end - n, end - n - Columns, n), end - n - Columns, Columns)]

lf(s) ==
    IF s.saw.y + 1 < s.saw.bottom THEN At(s, [s.v EXCEPT !.y = @ + 1, !.pos = @ + Columns]) ELSE scrup(s)
ri(s) ==
    IF s.saw.y > s.saw.top THEN At(s, [s.v EXCEPT !.y = @ - 1, !.pos = @ - Columns]) ELSE scrdown(s)
cr(s) == At(s, [s.v EXCEPT !.pos = @ - s.v.x, !.x = 0])
Back(s) == IF s.saw.x = 0 THEN s ELSE At(s, [s.v EXCEPT !.pos = @ - 1, !.x = @ - 1])
del(s) == IF s.saw.x = 0 THEN s ELSE [Back(s) EXCEPT !.ink = @ \ {s.v.pos - 1}]

\* The next line when the column is behind the last one.
Wrapped(s) == lf(At(s, [s.v EXCEPT !.x = @ - Columns, !.pos = @ - Columns]))
Put(s) ==
    LET t == IF s.saw.x >= Columns THEN Wrapped(s) ELSE s
    IN  [t EXCEPT !.ink = @ \cup {t.v.pos}, !.v.pos = @ + 1, !.v.x = @ + 1]
TabTo(s) ==
    LET n == Tab - (s.v.x % Tab)
        t == At(s, [s.v EXCEPT !.x = @ + n, !.pos = @ + n])
    IN  IF t.v.x > Columns THEN Wrapped(t) ELSE t

csi_J(s, vpar) ==
    CASE vpar = 0 -> [s EXCEPT !.ink = Cleared(@, s.v.pos, s.v.scr_end - s.v.pos)]
      [] vpar = 1 -> [s EXCEPT !.ink = Cleared(@, s.v.origin, s.v.pos - s.v.origin)]
      [] vpar = 2 -> [s EXCEPT !.ink = Cleared(@, s.v.origin, Columns * Rows)]
      [] OTHER -> s
csi_K(s, vpar) ==
    LET start == s.v.pos - s.v.x IN
    CASE vpar = 0 /\ s.v.x < Columns -> [s EXCEPT !.ink = Cleared(@, s.v.pos, Columns - s.v.x)]
      [] vpar = 1 -> [s EXCEPT !.ink = Cleared(@, start, s.v.x)]
      [] vpar = 2 -> [s EXCEPT !.ink = Cleared(@, start, Columns)]
      [] OTHER -> s

\* What is pushed out of the line is lost.
insert_char(s) ==
    LET n == Columns - s.v.x - 1 IN
    IF s.v.x >= Columns THEN s
    ELSE [s EXCEPT !.ink = Cleared(Moved(@, s.v.pos + 1, s.v.pos, n), s.v.pos, 1)]
\* a mutant: one character too many moves up.
delete_charNext(s) ==
    LET n == Columns - s.v.x IN
    IF s.v.x >= Columns THEN s ELSE [s EXCEPT !.ink = Moved(@, s.v.pos, s.v.pos + 1, n)]
delete_char(s) ==
    LET n == Columns - s.v.x - 1 IN
    IF s.v.x >= Columns THEN s
    ELSE [s EXCEPT !.ink = Cleared(Moved(@, s.v.pos, s.v.pos + 1, n), s.v.pos + n, 1)]

\* The region is the lines from the cursor on for the time of a call.
FromHere(s) == At(s, [s.v EXCEPT !.top = s.v.y, !.bottom = Rows])
AsBefore(t, s) == At(t, [t.v EXCEPT !.top = s.v.top, !.bottom = s.v.bottom])
insert_line(s) == AsBefore(scrdown(FromHere(s)), s)
delete_line(s) == AsBefore(scrup(FromHere(s)), s)

Count(nr, most) == IF nr > most THEN most ELSE IF nr = 0 THEN 1 ELSE nr
Times(Op(_), s, n) == FoldLeft(LAMBDA t, i : Op(t), s, [i \in 1..n |-> i])
csi_at(s, nr) == Times(insert_char, s, Count(nr, Columns))
csi_L(s, nr) == Times(insert_line, s, Count(nr, Rows))
csi_P(s, nr) == Times(delete_char, s, Count(nr, Columns))
csi_M(s, nr) == Times(delete_line, s, Count(nr, Rows))

save_cur(s) == At(s, [s.v EXCEPT !.saved_x = s.v.x, !.saved_y = s.v.y])
restore_cur(s) == gotoxy(s, s.v.saved_x, s.v.saved_y)

----------------------------------------------------------------------------
(* con_write(): the sequences                                              *)

State(s, st) == At(s, [s.v EXCEPT !.state = st])

Controls == {"esc", "lf", "cr", "del", "bs", "tab", "can"}
Normal(s, ch) ==
    CASE ch = "esc" -> State(s, "esc")
      [] ch = "lf" -> lf(s)
      [] ch = "cr" -> cr(s)
      [] ch = "del" -> del(s)
      [] ch = "bs" -> Back(s)
      [] ch = "tab" -> TabTo(s)
      [] ch = "can" -> s
      [] OTHER -> Put(s)

Escape(s, ch) ==
    LET t == State(s, "normal") IN
    CASE ch = "[" -> State(s, "square")
      [] ch = "E" -> gotoxy(t, 0, t.v.y + 1)
      [] ch = "M" -> ri(t)
      [] ch = "D" -> lf(t)
      [] ch = "7" -> save_cur(t)
      [] ch = "8" -> restore_cur(t)
      [] ch = "(" -> State(s, "setgraph")
      [] ch = "P" -> State(s, "setterm")
      [] ch = "#" -> State(s, "none")
      [] ch = "c" -> At(t, [t.v EXCEPT !.top = 0, !.bottom = Rows])
      [] OTHER -> t

Region(s, first, last) ==
    LET top == IF first = 0 THEN 0 ELSE first - 1
        bottom == IF last = 0 THEN Rows ELSE last
    IN  IF top < bottom /\ bottom <= Rows THEN At(s, [s.v EXCEPT !.top = top, !.bottom = bottom])
        ELSE s

\* ESgotpars.
Execute(s, ch) ==
    LET p == s.v.par[0]
        less == IF p = 0 THEN 0 ELSE p - 1
        one == IF p = 0 THEN 1 ELSE p
        q == s.v.par[1]
        x == s.v.x
        y == s.v.y
    IN  CASE ch = "G" -> gotoxy(s, less, y)
          [] ch = "A" -> gotoxy(s, x, y - one)
          [] ch = "B" -> gotoxy(s, x, y + one)
          [] ch = "C" -> gotoxy(s, x + one, y)
          [] ch = "D" -> gotoxy(s, x - one, y)
          [] ch = "E" -> gotoxy(s, 0, y + one)
          [] ch = "F" -> gotoxy(s, 0, y - one)
          [] ch = "d" -> gotoxy(s, x, less)
          [] ch = "H" -> gotoxy(s, IF q = 0 THEN 0 ELSE q - 1, less)
          [] ch = "J" -> csi_J(s, p)
          [] ch = "K" -> csi_K(s, p)
          [] ch = "L" -> csi_L(s, p)
          [] ch = "M" -> csi_M(s, p)
          [] ch = "P" -> csi_P(s, p)
          [] ch = "@" -> csi_at(s, p)
          [] ch = "r" -> Region(s, p, q)
          [] ch = "s" -> save_cur(s)
          [] ch = "u" -> restore_cur(s)
          [] OTHER -> s

Digit == [ch \in {"0", "1", "2", "3"} |->
             CASE ch = "0" -> 0 [] ch = "1" -> 1 [] ch = "2" -> 2 [] OTHER -> 3]
Parameter(s, ch) ==
    LET npar == s.v.npar
        t == At(s, [s.v EXCEPT !.state = "normal", !.ques = FALSE])
    IN  IF ch = ";" /\ npar < NPAR - 1 THEN At(s, [s.v EXCEPT !.npar = @ + 1])
        ELSE IF ch \in DOMAIN Digit
        THEN At(s, [s.v EXCEPT !.par[npar] = Min({10 * @ + Digit[ch], MaxPar})])
        ELSE IF s.v.ques THEN t ELSE Execute(t, ch)

\* The first character of a sequence can already be its last.
Square(s, ch) ==
    LET t == At(s, [s.v EXCEPT !.npar = 0, !.par = NoPars, !.state = "getpars", !.ques = ch = "?"]) IN
    CASE ch = "[" -> At(s, [s.v EXCEPT !.npar = 0, !.par = NoPars, !.state = "funckey"])
      [] ch = "?" -> t
      [] OTHER -> Parameter(t, ch)

\* The character after ESC [ [, ESC P, ESC ( or ESC #: function keys, the default
\* attribute and the character set are left out.
Ends(s, ch) == State(s, "normal")

Interpret(s, ch) ==
    LET st == IF ch = "can" THEN "normal" ELSE s.saw.state IN
    CASE st = "normal" -> Normal(State(s, "normal"), ch)
      [] st = "esc" -> Escape(s, ch)
      [] st = "square" -> Square(s, ch)
      [] st = "getpars" -> Parameter(s, ch)
      [] OTHER -> Ends(s, ch)

----------------------------------------------------------------------------
Of(c) == [v |-> vc[c], ink |-> ink, shown |-> shown, c |-> c, saw |-> vc[c]]
Own(i, c) == {a \in i : video_mem_start(c) <= a /\ a < video_mem_end(c)}

\* set_cursor() is the end of it.
Done(s) ==
    /\ <<s.v.saved_x, s.v.saved_y>> \in Saved
    /\ vc' = [vc EXCEPT ![s.c] = s.v] /\ ink' = s.ink /\ shown' = s.shown
    /\ cursor' = (IF s.c = fg_console THEN s.v.pos ELSE cursor)
    /\ UNCHANGED <<video, fg_console>>

\* Whether there may be one more character.
Inkable(c) == Cardinality(Own(ink, c)) < MaxInk
Asks(c, ch) == vc[c].state = "normal" /\ ch \notin Controls => Inkable(c)

\* The characters that test where the cursor is.
Tests(c, ch) ==
    \/ vc[c].state = "normal" /\ ch \in {"a", "lf", "del", "bs", "tab"}
    \/ vc[c].state = "esc" /\ ch \in {"M", "D"}

con_write(c, ch) ==
    /\ half = Whole /\ Asks(c, ch)
    /\ IF Tests(c, ch)
       THEN /\ half' = [c |-> c, ch |-> ch, saw |-> vc[c]]
            /\ vc' = [vc EXCEPT ![c].state = "normal"]
            /\ UNCHANGED <<video, ink, fg_console, shown, cursor>>
       ELSE Done(Interpret(Of(c), ch)) /\ UNCHANGED half
Goes ==
    /\ half # Whole
    /\ Done(Interpret([Of(half.c) EXCEPT !.saw = half.saw], half.ch)) /\ half' = Whole

\* Interrupts run through: on the console that is half-way they are a risk.
Apart == fg_console # half.c \/ "echo" \in Risks

\* copy_to_cooked() for the console in front: a whole con_write().
Echo(ch) ==
    /\ Apart /\ (fg_console \notin Written \/ half # Whole)
    /\ Asks(fg_console, ch)
    /\ Done(Interpret(Of(fg_console), ch)) /\ UNCHANGED half

\* printk() writes to the console in front and knows no sequences.
console_print(ch) ==
    LET s == Of(fg_console) IN
    /\ Apart /\ fg_console \in Written /\ (ch = "a" => Inkable(fg_console))
    /\ Done(CASE ch = "lf" -> lf(cr(s)) [] ch = "cr" -> cr(s) [] OTHER -> Put(s))
    /\ UNCHANGED half

\* change_console() and update_screen().
change_console(new) ==
    /\ new \in Consoles \ {fg_console}
    /\ fg_console' = new
    /\ shown' = (IF video = "EGA" THEN vc[new].origin ELSE shown)
    /\ cursor' = vc[new].pos
    /\ UNCHANGED <<video, ink, vc, half>>

Next ==
    \/ \E c \in Written, ch \in Chars : con_write(c, ch)
    \/ Goes
    \/ \E ch \in Echoed : Echo(ch)
    \/ \E ch \in {"lf", "cr", "a"} : console_print(ch)
    \/ \E new \in Consoles : change_console(new)

Spec == Init /\ [][Next]_vars

----------------------------------------------------------------------------
(* Properties                                                              *)

\* The address of the cursor is that of its column and line, and the screen lies
\* in the console's part of the memory, after any sequence of characters
\* (console.c:206-213, 251-293, 812-852).
PlaceExact ==
    \A c \in Consoles :
        /\ vc[c].pos = vc[c].origin + vc[c].y * Columns + vc[c].x
        /\ vc[c].scr_end = vc[c].origin + Rows * Columns
        /\ video_mem_start(c) <= vc[c].origin /\ vc[c].scr_end <= video_mem_end(c)

\* The controller shows the console in front and its cursor, whatever the others
\* do and whenever the keyboard changes it (console.c:216-235, 570-585, 1262-1266).
\* Only an EGA can be told where the screen begins.
InFront ==
    /\ cursor = vc[fg_console].pos
    /\ shown = IF video = "EGA" THEN vc[fg_console].origin ELSE 0

\* What is kept twice agrees: position and address, and the controller's registers.
PlacesOK == TypeOK /\ PlaceExact /\ InFront

\* Each step does one of the operations of a screen to one console and nothing to
\* any other, and a character that tests its place does the operation that it
\* stands for at the place where the cursor was (console.c:783-1102).
Screen(c) ==
    {<<(a - vc[c].origin) % Columns, (a - vc[c].origin) \div Columns>> :
        a \in {b \in ink : vc[c].origin <= b /\ b < vc[c].scr_end}}
Abstract == INSTANCE Screens WITH
    screen <- [c \in Consoles |-> Screen(c)],
    at <- [c \in Consoles |-> <<vc[c].x, vc[c].y>>],
    region <- [c \in Consoles |-> <<vc[c].top, vc[c].bottom>>]
Meant == half # Whole /\ half' = Whole => Abstract!Stands(half.c, half.ch)
Separate == Abstract!Spec /\ [][Meant]_vars
=============================================================================
