------------------------------- MODULE Screens -------------------------------
(***************************************************************************)
(* What whoever writes to a console relies on: every console has a screen  *)
(* of its own, a cursor and a scrolling region, and an operation changes    *)
(* the cells it names and no others.                                        *)
(***************************************************************************)
EXTENDS Integers

CONSTANTS Rows, Columns, Consoles

VARIABLES screen,    \* of each console: the cells that are not blank
          at,        \* of each console: the column and the line of the cursor
          region     \* of each console: the first line and the end of the region

Lines == 0..(Rows - 1)
Cells == (0..(Columns - 1)) \X Lines
\* The cursor may be behind the last column.
Places == (0..Columns) \X Lines

Init ==
    /\ screen = [c \in Consoles |-> {}]
    /\ at \in [Consoles -> Places]
    /\ region = [c \in Consoles |-> <<0, Rows>>]

ScrollUp(s, r) ==
    {p \in s : p[2] < r[1] \/ p[2] >= r[2]} \cup
    {<<p[1], p[2] - 1>> : p \in {q \in s : r[1] < q[2] /\ q[2] < r[2]}}
ScrollDown(s, r) ==
    {p \in s : p[2] < r[1] \/ p[2] >= r[2]} \cup
    {<<p[1], p[2] + 1>> : p \in {q \in s : r[1] <= q[2] /\ q[2] + 1 < r[2]}}

\* A line feed at the end of the region scrolls it, wherever the cursor is below.
Feed(c, x) ==
    IF at[c][2] + 1 < region[c][2]
    THEN [screen |-> screen[c], at |-> <<x, at[c][2] + 1>>]
    ELSE [screen |-> ScrollUp(screen[c], region[c]), at |-> <<x, at[c][2]>>]

Becomes(c, s, p) ==
    /\ at' = [at EXCEPT ![c] = p]
    /\ screen' = [screen EXCEPT ![c] = s]
    /\ UNCHANGED region

\* A character behind the last column goes to the next line.
Type(c) ==
    LET f == IF at[c][1] = Columns THEN Feed(c, 0) ELSE [screen |-> screen[c], at |-> at[c]]
    IN  Becomes(c, f.screen \cup {f.at}, <<f.at[1] + 1, f.at[2]>>)
LineFeedAt(c, x) == LET f == Feed(c, x) IN Becomes(c, f.screen, f.at)
LineFeed(c) == \E x \in 0..Columns : LineFeedAt(c, x)
ReverseFeed(c) ==
    IF at[c][2] > region[c][1] THEN Becomes(c, screen[c], <<at[c][1], at[c][2] - 1>>)
    ELSE Becomes(c, ScrollDown(screen[c], region[c]), at[c])
Move(c) ==
    /\ at'[c] \in Places /\ at' = [at EXCEPT ![c] = at'[c]]
    /\ UNCHANGED <<screen, region>>
RubOut(c) ==
    LET p == <<at[c][1] - 1, at[c][2]>> IN p \in Cells /\ Becomes(c, screen[c] \ {p}, p)

Before(p, q) == p[2] < q[2] \/ (p[2] = q[2] /\ p[1] < q[1])
Erase(c) ==
    \E gone \in {Cells, {p \in Cells : Before(p, at[c])}, {p \in Cells : ~Before(p, at[c])}},
       lines \in {Lines, {at[c][2]}} :
        Becomes(c, screen[c] \ {p \in gone : p[2] \in lines}, at[c])

\* The rest of the line, or the lines down to the last, make room or close up.
Below(c) == {p \in screen[c] : p[2] >= at[c][2]}
Behind(c) == {p \in screen[c] : p[2] = at[c][2] /\ p[1] >= at[c][1]}
InsertLines(c, n) ==
    Becomes(c, (screen[c] \ Below(c)) \cup ({<<p[1], p[2] + n>> : p \in Below(c)} \cap Cells), at[c])
DeleteLines(c, n) ==
    Becomes(c, (screen[c] \ Below(c)) \cup
               {<<p[1], p[2] - n>> : p \in {q \in Below(c) : q[2] - n >= at[c][2]}}, at[c])
InsertChars(c, n) ==
    Becomes(c, (screen[c] \ Behind(c)) \cup ({<<p[1] + n, p[2]>> : p \in Behind(c)} \cap Cells), at[c])
DeleteChars(c, n) ==
    Becomes(c, (screen[c] \ Behind(c)) \cup
               {<<p[1] - n, p[2]>> : p \in {q \in Behind(c) : q[1] - n >= at[c][1]}}, at[c])

SetRegion(c) ==
    /\ \E top \in Lines, bottom \in 1..Rows :
           top < bottom /\ region' = [region EXCEPT ![c] = <<top, bottom>>]
    /\ UNCHANGED <<screen, at>>

Next ==
    \E c \in Consoles :
        \/ Move(c) \/ Type(c) \/ SetRegion(c) \/ LineFeed(c) \/ ReverseFeed(c) \/ RubOut(c)
        \/ Erase(c)
        \/ \E n \in 1..Rows : InsertLines(c, n) \/ DeleteLines(c, n)
        \/ \E n \in 1..Columns : InsertChars(c, n) \/ DeleteChars(c, n)

\* What a character stands for.  A backspace does nothing in the first column, and
\* a tab may go on to the next line.
Stands(c, ch) ==
    CASE ch = "a" -> Type(c)
      [] ch \in {"lf", "D"} -> LineFeedAt(c, at[c][1])
      [] ch = "M" -> ReverseFeed(c)
      [] ch = "del" -> IF at[c][1] = 0 THEN Becomes(c, screen[c], at[c]) ELSE RubOut(c)
      [] ch = "bs" ->
             LET p == <<IF at[c][1] = 0 THEN 0 ELSE at[c][1] - 1, at[c][2]>> IN Becomes(c, screen[c], p)
      [] ch = "tab" -> Move(c) \/ LineFeed(c)

Spec == Init /\ [][Next]_<<screen, at, region>>
=============================================================================
