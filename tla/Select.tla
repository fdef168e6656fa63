-------------------------------- MODULE Select --------------------------------
(***************************************************************************)
(* select(), which queues a process up at several places at once, and      *)
(* those who wait there with sleep_on(): readers and writers of a pipe and *)
(* readers of a terminal.                                                  *)
(*                                                                         *)
(* Like sleep_on(), add_wait() stores the old head of a queue and puts the *)
(* process in its place, so what the sleepers remember forms the queue.    *)
(* The kernel is not pre-empted, and select() runs with interrupts off:     *)
(* `current' is the process that runs until it calls schedule() or returns. *)
(***************************************************************************)
EXTENDS Integers, Sequences, FiniteSets, SequencesExt

CONSTANTS Procs, None,
          Wants,     \* of each process: the sets of descriptors it selects
          Calls,     \* of each process: what else it does
          Cap,       \* what a pipe holds
          Risks      \* "out": select for writing; "timeout": select with a time for
                     \* something

ASSUME SelectAssumption ==
    /\ IsFiniteSet(Procs) /\ None \notin Procs /\ Cap \in Nat \ {0}
    /\ \A p \in Procs : Wants[p] \subseteq SUBSET {"in pipe", "out pipe", "ex pipe", "in tty"}
    /\ \A p \in Procs : Calls[p] \subseteq {"read", "write", "tty"}
    /\ Risks \subseteq {"out", "timeout"}

Queues == {"i_wait", "i_wait2", "proc_list"}

VARIABLES
    chars,     \* in the pipe
    closed,    \* nobody else has the pipe open any more
    tty,       \* there is something to read
    head,      \* of each queue
    state,     \* of each process: "run", "int", "unint"
    call,      \* what a process is doing, and how far it is
    table,     \* the places where it waits and who was there before
    current

vars == <<chars, closed, tty, head, state, call, table, current>>
devices == <<chars, closed, tty>>

Nowhere == [doing |-> "no", at |-> "test", wants |-> {}, time |-> "over", sig |-> FALSE]

TypeOK ==
    /\ chars \in 0..Cap /\ {closed, tty} \subseteq BOOLEAN
    /\ head \in [Queues -> Procs \cup {None}]
    /\ state \in [Procs -> {"run", "int", "unint"}]
    /\ \A p \in Procs :
          /\ call[p].doing \in {"no", "select"} \cup Calls[p] /\ call[p].at \in {"test", "free"}
          /\ call[p].wants \in {{}} \cup Wants[p]
          /\ call[p].time \in {"never", "set", "over"} /\ call[p].sig \in BOOLEAN
          /\ table[p] \in Seq([queue : Queues, old : Procs \cup {None}])
    /\ current \in Procs \cup {None}
    /\ current # None => state[current] = "run"

Init ==
    /\ chars = 0 /\ closed = FALSE /\ tty = FALSE
    /\ head = [q \in Queues |-> None] /\ state = [p \in Procs |-> "run"]
    /\ call = [p \in Procs |-> Nowhere] /\ table = [p \in Procs |-> <<>>]
    /\ current = None

----------------------------------------------------------------------------
Runs(p) == current \in {None, p} /\ state[p] = "run"
At(p, doing, at) == Runs(p) /\ call[p].doing = doing /\ call[p].at = at

\* wake_up() of a process in st.
Woken(st, p) == IF p = None THEN st ELSE [st EXCEPT ![p] = "run"]

Queue(w) == IF w = "in tty" THEN "proc_list" ELSE "i_wait"
Ready(w) ==
    CASE w = "in tty" -> tty
      [] w = "in pipe" -> chars > 0
      [] w = "out pipe" -> chars < Cap
      [] OTHER -> closed

Return(p) == call' = [call EXCEPT ![p] = Nowhere] /\ current' = None

\* A call starts.
SelectStart(p, wants, time) ==
    /\ current = None /\ state[p] = "run" /\ call[p].doing = "no"
    /\ time = "set" => wants = {} \/ "timeout" \in Risks
    /\ "out pipe" \in wants => "out" \in Risks
    /\ ~(wants = {} /\ time = "never")
    /\ call' = [call EXCEPT ![p] = [Nowhere EXCEPT !.doing = "select", !.wants = wants, !.time = time]]
    /\ UNCHANGED <<devices, head, state, table, current>>
CallStart(p, c) ==
    /\ current = None /\ state[p] = "run" /\ call[p].doing = "no"
    /\ c = "write" => ~closed
    /\ call' = [call EXCEPT ![p] = [Nowhere EXCEPT !.doing = c]]
    /\ UNCHANGED <<devices, head, state, table, current>>

----------------------------------------------------------------------------
(* do_select()                                                             *)

\* a mutant: whoever was there before is forgotten.
TablesAlone(p) ==
    {[i \in DOMAIN s |-> [queue |-> s[i], old |-> None]] :
        s \in SetToSeqs({Queue(w) : w \in {v \in call[p].wants : ~Ready(v)}})}
\* One entry for every queue where there is nothing ready, in any order.
Tables(p) ==
    {[i \in DOMAIN s |-> [queue |-> s[i], old |-> head[s[i]]]] :
        s \in SetToSeqs({Queue(w) : w \in {v \in call[p].wants : ~Ready(v)}})}

\* Queue up, and sleep unless there is something ready.  free_wait() of who has not
\* slept wakes whoever was there before.
Check(p) ==
    /\ At(p, "select", "test")
    /\ \E t \in Tables(p) :
        IF ~call[p].sig /\ (t # <<>> \/ call[p].time # "over")
                        /\ \A w \in call[p].wants : ~Ready(w)
        THEN /\ head' = [q \in Queues |-> IF \E i \in DOMAIN t : t[i].queue = q THEN p ELSE head[q]]
             /\ state' = [state EXCEPT ![p] = "int"]
             /\ call' = [call EXCEPT ![p].at = "free"]
             /\ table' = [table EXCEPT ![p] = t]
             /\ current' = None
        ELSE /\ state' = [r \in Procs |-> IF \E i \in DOMAIN t : t[i].old = r THEN "run" ELSE state[r]]
             /\ Return(p)
             /\ UNCHANGED <<head, table>>
    /\ UNCHANGED devices

\* free_wait(), and what sleep_on() does after schedule(): those who came later go first.
FreeWait(p) ==
    /\ Runs(p) /\ call[p].at = "free"
    /\ IF table[p] = <<>>
       THEN /\ call' = [call EXCEPT ![p].at = "test"] /\ current' = p
            /\ UNCHANGED <<head, state, table>>
       ELSE LET e == Head(table[p]) IN
            IF head[e.queue] \notin {None, p}
            THEN /\ state' = [Woken(state, head[e.queue]) EXCEPT ![p] = "unint"]
                 /\ current' = None
                 /\ UNCHANGED <<head, call, table>>
            ELSE /\ head' = [head EXCEPT ![e.queue] = e.old]
                 /\ state' = Woken(state, e.old)
                 /\ table' = [table EXCEPT ![p] = Tail(@)]
                 /\ current' = p
                 /\ UNCHANGED call
    /\ UNCHANGED devices

----------------------------------------------------------------------------
(* The others                                                              *)

\* __sleep_on().
SleepOn(p, q, st, how) ==
    /\ table' = [table EXCEPT ![p] = <<[queue |-> q, old |-> head[q]]>>]
    /\ head' = [head EXCEPT ![q] = p]
    /\ state' = [st EXCEPT ![p] = how]
    /\ call' = [call EXCEPT ![p].at = "free"]
    /\ current' = None

\* read_pipe() of a byte.
\* a mutant: a writer is not woken.
ReadPipeQuiet(p) ==
    /\ At(p, "read", "test")
    /\ IF chars > 0
       THEN /\ chars' = chars - 1 /\ Return(p)
            /\ UNCHANGED <<state, head, table>>
       ELSE /\ UNCHANGED chars
            /\ IF closed \/ call[p].sig
               THEN state' = Woken(state, head["i_wait2"]) /\ Return(p) /\ UNCHANGED <<head, table>>
               ELSE SleepOn(p, "i_wait", Woken(state, head["i_wait2"]), "int")
    /\ UNCHANGED <<closed, tty>>
ReadPipe(p) ==
    /\ At(p, "read", "test")
    /\ IF chars > 0
       THEN /\ chars' = chars - 1 /\ state' = Woken(state, head["i_wait2"]) /\ Return(p)
            /\ UNCHANGED <<head, table>>
       ELSE /\ UNCHANGED chars
            /\ IF closed \/ call[p].sig
               THEN state' = Woken(state, head["i_wait2"]) /\ Return(p) /\ UNCHANGED <<head, table>>
               ELSE SleepOn(p, "i_wait", Woken(state, head["i_wait2"]), "int")
    /\ UNCHANGED <<closed, tty>>

\* write_pipe() of a byte; a signal does not end it.
WritePipe(p) ==
    /\ At(p, "write", "test")
    /\ IF chars < Cap
       THEN /\ chars' = chars + 1 /\ state' = Woken(state, head["i_wait"]) /\ Return(p)
            /\ UNCHANGED <<head, table>>
       ELSE UNCHANGED chars /\ SleepOn(p, "i_wait2", Woken(state, head["i_wait"]), "unint")
    /\ UNCHANGED <<closed, tty>>

\* tty_read().
TtyRead(p) ==
    /\ At(p, "tty", "test")
    /\ IF tty THEN tty' = FALSE /\ Return(p) /\ UNCHANGED <<head, state, table>>
       ELSE /\ UNCHANGED tty
            /\ IF call[p].sig THEN Return(p) /\ UNCHANGED <<head, state, table>>
               ELSE SleepOn(p, "proc_list", state, "int")
    /\ UNCHANGED <<chars, closed>>

\* copy_to_cooked(), in an interrupt.
Key ==
    /\ current = None
    /\ tty' = TRUE /\ state' = Woken(state, head["proc_list"])
    /\ UNCHANGED <<chars, closed, head, call, table, current>>

\* iput() of the other end, by a process that is not one of these.
Iput ==
    /\ current = None /\ ~closed /\ \A p \in Procs : call[p].doing # "write"
    /\ closed' = TRUE /\ state' = Woken(Woken(state, head["i_wait"]), head["i_wait2"])
    /\ UNCHANGED <<chars, tty, head, call, table, current>>

\* The first loop of schedule(): signals and times.
\* a mutant: the process is not woken.
InterruptedAsleep(p) == state' = state
Interrupted(p) == state' = [state EXCEPT ![p] = IF @ = "int" THEN "run" ELSE @]
Signal(p) ==
    /\ current = None /\ call[p].doing # "no" /\ ~call[p].sig
    /\ call' = [call EXCEPT ![p].sig = TRUE] /\ Interrupted(p)
    /\ UNCHANGED <<devices, head, table, current>>
Expire(p) ==
    /\ current = None /\ call[p].time = "set"
    /\ call' = [call EXCEPT ![p].time = "over"] /\ Interrupted(p)
    /\ UNCHANGED <<devices, head, table, current>>

----------------------------------------------------------------------------
Step(p) == Check(p) \/ FreeWait(p) \/ ReadPipe(p) \/ WritePipe(p) \/ TtyRead(p)

Next ==
    \/ Key \/ Iput
    \/ \E p \in Procs :
          \/ Step(p) \/ Signal(p) \/ Expire(p)
          \/ \E w \in Wants[p] : SelectStart(p, w, "never") \/ SelectStart(p, w, "set")
          \/ \E c \in Calls[p] : CallStart(p, c)

\* schedule() lets everybody run who can again and again; time passes.
Fairness == \A p \in Procs : SF_vars(Step(p)) /\ WF_vars(Expire(p))

Spec == Init /\ [][Next]_vars /\ Fairness

----------------------------------------------------------------------------
(* Properties                                                              *)

Entries(q, p) == {i \in DOMAIN table[p] : table[p][i].queue = q}
Waiting(q) == {p \in Procs : Entries(q, p) # {}}
Old(q, p) == LET i == CHOOSE i \in Entries(q, p) : TRUE IN table[p][i].old

\* What the waiting processes remember is one chain from the head of each queue to its
\* end, although each of them is in several (select.c:57-102, sched.c:242-273).
ChainOK ==
    \A q \in Queues :
        \E s \in SetToSeqs(Waiting(q)) :
            /\ head[q] = (IF s = <<>> THEN None ELSE s[1])
            /\ \A i \in DOMAIN s : Old(q, s[i]) = (IF i = Len(s) THEN None ELSE s[i + 1])

\* Nothing is ever wrong with the queues themselves.
QueuesOK == TypeOK /\ ChainOK

\* While somebody sleeps although there is what he waits for, somebody in a queue
\* runs, and will pass the wake-up on (select.c:88-99, pipe.c:29, 57).
Awaits(p) ==
    CASE call[p].doing = "select" -> call[p].wants
      [] call[p].doing = "read" -> {"in pipe"}
      [] call[p].doing = "write" -> {"out pipe"}
      [] call[p].doing = "tty" -> {"in tty"}
      [] OTHER -> {}
Asleep(p) == table[p] # <<>> /\ state[p] # "run"
NoLostWakeup ==
    (\E p \in Procs : Asleep(p) /\ \E w \in Awaits(p) : Ready(w)) =>
        \E p \in Procs : table[p] # <<>> /\ state[p] = "run"

\* A select() for something that is ready, or only for a time, comes to an end when
\* nobody else waits in one of its queues (select.c:264-274).
Due(p) ==
    call[p].doing = "select" /\ (call[p].time = "over" \/ \E w \in call[p].wants : Ready(w))
Shared == \E q \in Queues : Cardinality(Waiting(q)) > 1
Selected(p) == Due(p) ~> ~Due(p) \/ Shared
SelectEnds == \A p \in Procs : Selected(p)
=============================================================================
