----------------------------- MODULE Processes -----------------------------
(***************************************************************************)
(* The processes of kernel/fork.c and kernel/exit.c: fork, exit, waitpid,  *)
(* kill, the default actions of the signals (kernel/signal.c), process     *)
(* groups and sessions (kernel/sys.c) and the controlling terminal.        *)
(*                                                                         *)
(* A task_struct fills a page.  task[] points to those of the processes    *)
(* that exist, and p_pptr, p_cptr, p_ysptr and p_osptr tie them into a     *)
(* tree whose root is task 0; its only child is init, which never exits.   *)
(* The kernel is not preempted, so that a system call is one step but for  *)
(* the places where it sleeps: waitpid() waiting for a child, do_exit()    *)
(* closing files, and copy_process() when get_free_page() has to swap.     *)
(***************************************************************************)
EXTENDS Integers, Sequences, FiniteSets

CONSTANTS Pages,      \* pages for the task_structs of processes 2, 3, ...
          Zero,       \* the task_struct of task 0
          InitTask,   \* task[1], the process of init/main.c
          Null,
          Slots,      \* the entries of task[] after the first two
          MaxPid,     \* last_pid starts again from 1 above it: 2^31 - 1
          Codes,      \* arguments of exit()
          Waits,      \* first arguments of waitpid()
          Options,    \* third arguments of waitpid(), as sets
          Uses        \* the ways the system is used: which system calls are
                      \* made, which signals kill() is asked to send, and which
                      \* calls of get_free_page() may have to swap

ASSUME TasksAssumption ==
    /\ IsFiniteSet(Pages) /\ Null \notin Pages
    /\ Zero \notin Pages \cup {Null, InitTask} /\ InitTask \notin Pages \cup {Null}
ASSUME SlotsAssumption == IsFiniteSet(Slots) /\ Slots \subseteq Nat \ {0, 1}
ASSUME NumbersAssumption ==
    /\ MaxPid \in Nat \ {0} /\ Codes \subseteq 0..255 /\ Waits \subseteq Int
    /\ Options \subseteq SUBSET {"WNOHANG", "WUNTRACED"}
\* "suser" is no call: whoever calls setsid() may be the superuser.
Calls == {"fork", "exit", "wait", "kill", "setpgid", "setsid", "suser", "tty"}
ASSUME UsesAssumption ==
    Uses \subseteq [calls : SUBSET Calls, sends : SUBSET {1, 9, 18, 19},
                    sleeps : SUBSET {"page", "copy"}]

VARIABLES
    task,       \* task[1] and task[n] for n \in Slots
    ts,         \* the content of the task_structs
    last_pid,
    spaces,     \* the n whose 64 MB of linear addresses have page tables
    nr,         \* nr[p]: the n of p's address space
    pc,         \* where a process is
    local,      \* the local variables of a system call that sleeps
    use,        \* the way the system is used, one of Uses
    shell,      \* init's variable pid: the child it waits for, 0 for none
    tty,        \* session and pgrp of the terminal
    panicked    \* the kernel has stopped in panic() or corrupted itself

vars == <<task, ts, last_pid, spaces, nr, pc, local, use, shell, tty, panicked>>

Tasks == Pages \cup {InitTask}

SIGHUP  == 1
SIGKILL == 9
SIGCHLD == 17
SIGCONT == 18
SIGSTOP == 19
Signals == {SIGHUP, SIGKILL, SIGCHLD, SIGCONT, SIGSTOP}

Pids == 0..MaxPid
States == {"running", "interruptible", "uninterruptible", "zombie", "stopped"}
TaskStruct == [state : States, exit_code : Nat, signal : SUBSET Signals,
               pid : Pids, pgrp : Pids, session : Pids,
               leader : BOOLEAN, tty : BOOLEAN,      \* tty: it is not -1
               p_pptr : Tasks \cup {Zero, Null}, p_cptr : Tasks \cup {Null},
               p_ysptr : Tasks \cup {Null}, p_osptr : Tasks \cup {Null}]
Blank == [state |-> "running", exit_code |-> 0, signal |-> {},
          pid |-> 0, pgrp |-> 0, session |-> 0, leader |-> FALSE, tty |-> FALSE,
          p_pptr |-> Null, p_cptr |-> Null, p_ysptr |-> Null, p_osptr |-> Null]

\* n: the entry of task[] a fork is to fill, or the argument of do_exit();
\* q: the child in the making; w, opts: the arguments of waitpid().
Locals == [n : Nat, q : Pages \cup {Null}, w : Int, opts : SUBSET {"WNOHANG", "WUNTRACED"}]
NoLocals == [n |-> 0, q |-> Null, w |-> 0, opts |-> {}]

\* "free": not a task_struct; "new": a task_struct copy_process() is still
\* filling in; "user", or asleep in "page" and "copy" (get_free_page() in
\* copy_process() and copy_mem()), "wait" (waitpid()), "exit" (do_exit()).
TypeOK ==
    /\ task \in [Slots \cup {1} -> Tasks \cup {Null}]
    /\ ts \in [Tasks \cup {Zero} -> TaskStruct]
    /\ last_pid \in Pids
    /\ spaces \subseteq Slots
    /\ nr \in [Tasks -> Slots \cup {1}]
    /\ pc \in [Tasks -> {"free", "new", "user", "page", "copy", "wait", "exit", "dead"}]
    /\ local \in [Tasks -> Locals]
    /\ use \in Uses
    /\ shell \in Pids
    /\ tty \in [session : Pids, pgrp : Pids]
    /\ panicked \in BOOLEAN

\* main() has forked task 1, init() is about to fork the first shell.
Init ==
    /\ task = [n \in Slots \cup {1} |-> IF n = 1 THEN InitTask ELSE Null]
    /\ ts = [p \in Tasks \cup {Zero} |->
                CASE p = InitTask -> [Blank EXCEPT !.pid = 1, !.p_pptr = Zero]
                  [] p = Zero -> [Blank EXCEPT !.p_pptr = Zero, !.p_cptr = InitTask]
                  [] OTHER -> Blank]
    /\ last_pid = 1
    /\ spaces = {}
    /\ nr = [p \in Tasks |-> 1]
    /\ pc = [p \in Tasks |-> IF p = InitTask THEN "user" ELSE "free"]
    /\ local = [p \in Tasks |-> NoLocals]
    /\ use \in Uses
    /\ shell = 0
    /\ tty = [session |-> 0, pgrp |-> 0]
    /\ panicked = FALSE

----------------------------------------------------------------------------
(* The tables and the tree.  T stands for the task_structs at some point.  *)

Entries(T, P(_)) == {n \in DOMAIN task : task[n] # Null /\ P(T[task[n]])}
Listed == {task[n] : n \in DOMAIN task} \ {Null}

\* The loops from LAST_TASK down stop at the first task that fits.
LastOf(S) == task[CHOOSE n \in S : \A m \in S : m <= n]

\* The children of p from p_cptr on along p_osptr.
Kids(T, p) ==
    LET kid[i \in 1..Cardinality(Pages)] ==
            IF i = 1 THEN T[p].p_cptr
            ELSE LET younger == kid[i - 1]
                 IN  IF younger = Null THEN Null ELSE T[younger].p_osptr
    IN  [i \in 1..Cardinality({j \in DOMAIN kid : kid[j] # Null}) |-> kid[i]]

\* free_page_tables() for the memory of p.
FreedTables(p) == spaces \ {nr[p]}

\* task[n] = NULL and free_page(q) in release() and in a fork that fails.
\* The page keeps its content; only a half made child still looks at it.
Freed(T, q) ==
    IF \E p \in Pages : pc[p] = "new" /\ p # q /\ T[p].p_pptr = q
    THEN T ELSE [T EXCEPT ![q] = Blank]

\* A process may make a system call: it runs in user mode, and on the way
\* there it has been given all its signals.
Enters(p, call) ==
    /\ call \in use.calls /\ ~panicked
    /\ pc[p] = "user" /\ p \in Listed
    /\ ts[p].state = "running" /\ ts[p].signal = {}

----------------------------------------------------------------------------
(* Signals                                                                 *)

\* send_sig(), for processes that neither catch nor ignore signals.
Sent(r, sig) ==
    LET woken == IF sig \notin {SIGKILL, SIGCONT} THEN r
                 ELSE [r EXCEPT !.state = IF @ = "stopped" THEN "running" ELSE @,
                                !.exit_code = 0,
                                !.signal = @ \ {SIGSTOP}]
    IN  [woken EXCEPT !.signal =
            (IF sig = SIGSTOP THEN @ \ {SIGCONT} ELSE @) \cup {sig}]

kill_pg(T, pgrp, sig) ==
    [p \in DOMAIN T |-> IF pgrp > 0 /\ p \in Listed /\ T[p].pgrp = pgrp
                        THEN Sent(T[p], sig) ELSE T[p]]

\* Who sys_kill() reaches.  For 0 it is the group named like the caller;
\* init belongs to the superuser, who does not kill it.
Reached(p, w) ==
    (CASE w > 0  -> LET S == Entries(ts, LAMBDA r : r.pid = w)
                    IN  IF S = {} THEN {} ELSE {LastOf(S)}
       [] w = -1 -> Listed
       [] OTHER  -> {q \in Listed : ts[q].pgrp = (IF w = 0 THEN ts[p].pid ELSE -w)})
    \ {InitTask}

Kill(p, w, sig) ==
    /\ Enters(p, "kill") /\ p # InitTask
    /\ Reached(p, w) # {}     \* else -ESRCH or -EPERM
    /\ ts' = [q \in DOMAIN ts |-> IF q \in Reached(p, w) THEN Sent(ts[q], sig) ELSE ts[q]]
    /\ UNCHANGED <<task, last_pid, spaces, nr, pc, local, use, shell, tty, panicked>>

Lowest(S) == CHOOSE s \in S : \A r \in S : s <= r
NotTold(T, father) == T     \* a mutant: no SIGCHLD
Told(T, father) == [T EXCEPT ![father].signal = @ \cup {SIGCHLD}]

\* ret_from_sys_call and do_signal(): one signal, the lowest first.
Deliver(p) ==
    LET sig == Lowest(ts[p].signal)
        taken == [ts EXCEPT ![p].signal = @ \ {sig}]
    IN  /\ ~panicked
        /\ pc[p] = "user" /\ p \in Listed
        /\ ts[p].state = "running" /\ ts[p].signal # {}
        /\ \/ /\ sig \in {SIGCHLD, SIGCONT}
              /\ ts' = taken
              /\ UNCHANGED <<spaces, pc, local>>
           \/ /\ sig = SIGSTOP
              /\ ts' = Told([taken EXCEPT ![p].state = "stopped", ![p].exit_code = SIGSTOP],
                            ts[p].p_pptr)
              /\ UNCHANGED <<spaces, pc, local>>
           \/ /\ sig \in {SIGHUP, SIGKILL}
              /\ ts' = taken
              /\ spaces' = FreedTables(p)
              /\ pc' = [pc EXCEPT ![p] = "exit"]
              /\ local' = [local EXCEPT ![p].n = sig]
        /\ UNCHANGED <<task, last_pid, nr, use, shell, tty, panicked>>

----------------------------------------------------------------------------
(* fork()                                                                  *)

\* find_empty_process() leaves the first number in last_pid that no task
\* has as its pid or pgrp.
NeverInUse(n) == FALSE     \* a mutant: find_empty_process() without lines 218-221
PidInUse(n) == \E p \in Listed : n \in {ts[p].pid, ts[p].pgrp}
After(n) == IF n = MaxPid THEN 1 ELSE n + 1
NextPid ==
    LET step[i \in 1..MaxPid] == IF i = 1 THEN After(last_pid) ELSE After(step[i - 1])
        fits == {i \in 1..MaxPid : ~PidInUse(step[i])}
    IN  IF fits = {} THEN 0 ELSE step[Lowest(fits)]

\* *p = *current and the assignments up to copy_mem().
Embryo(p, pid) ==
    [ts[p] EXCEPT !.state = "uninterruptible", !.pid = pid, !.signal = {}, !.leader = FALSE]

\* Lines 196-203.
Linked(T, p, q) ==
    LET older == T[p].p_cptr
        new == [T EXCEPT ![q].p_pptr = p, ![q].p_cptr = Null, ![q].p_ysptr = Null,
                         ![q].p_osptr = older, ![q].state = "running", ![p].p_cptr = q]
    IN  IF older = Null THEN new ELSE [new EXCEPT ![older].p_ysptr = q]

\* fork() returns r to p; init keeps it.
Returns(p, r) == shell' = IF p = InitTask THEN r ELSE shell

\* -EAGAIN.
Failed(p) ==
    /\ pc' = [pc EXCEPT ![p] = "user"]
    /\ local' = [local EXCEPT ![p] = NoLocals]
    /\ UNCHANGED <<task, ts, spaces, nr, shell, panicked>>

\* copy_process() from the return of get_free_page() on; pid is last_pid.
CopyProcess(p, n, pid) ==
    \E q \in Pages :
        /\ pc[q] = "free"
        /\ task' = [task EXCEPT ![n] = q]
        /\ nr' = [nr EXCEPT ![q] = n]
        /\ LET T == [ts EXCEPT ![q] = Embryo(p, pid)] IN
           \/ /\ n \in spaces     \* "copy_page_tables: already exist"
              /\ panicked' = TRUE
              /\ ts' = T
              /\ pc' = [pc EXCEPT ![q] = "new"]
              /\ UNCHANGED <<spaces, local, shell>>
           \/ /\ n \notin spaces
              /\ ts' = Linked(T, p, q)
              /\ spaces' = spaces \cup {n}
              /\ pc' = [pc EXCEPT ![p] = "user", ![q] = "user"]
              /\ local' = [local EXCEPT ![p] = NoLocals]
              /\ Returns(p, pid)
              /\ UNCHANGED panicked
           \/ /\ n \notin spaces /\ "copy" \in use.sleeps
              /\ ts' = T
              /\ spaces' = spaces \cup {n}
              /\ pc' = [pc EXCEPT ![p] = "copy", ![q] = "new"]
              /\ local' = [local EXCEPT ![p] = [NoLocals EXCEPT !.n = n, !.q = q]]
              /\ UNCHANGED <<shell, panicked>>

\* init() forks only when its shell is gone, and waits only when it is not.
InitLoop(p, forks) == p = InitTask => (shell = 0) = forks

Fork(p) ==
    /\ Enters(p, "fork") /\ InitLoop(p, TRUE)
    /\ NextPid # 0     \* else find_empty_process() never ends
    /\ last_pid' = NextPid
    /\ LET free == {n \in Slots : task[n] = Null} IN
       \/ free = {} /\ Failed(p)
       \/ free # {} /\ CopyProcess(p, Lowest(free), NextPid)
       \/ /\ free # {} /\ "page" \in use.sleeps
          /\ pc' = [pc EXCEPT ![p] = "page"]
          /\ local' = [local EXCEPT ![p].n = Lowest(free)]
          /\ UNCHANGED <<task, ts, spaces, nr, shell, panicked>>
    /\ UNCHANGED <<use, tty>>

\* get_free_page() returns, with a page or without.
PageCame(p) ==
    /\ ~panicked /\ p \in Listed /\ pc[p] = "page"
    /\ CopyProcess(p, local[p].n, last_pid) \/ Failed(p)
    /\ UNCHANGED <<last_pid, use, tty>>

\* copy_mem() ends after a sleep: with success, or out of memory.
CopyDone(p) ==
    LET q == local[p].q IN
    /\ ~panicked /\ p \in Listed /\ pc[p] = "copy"
    /\ \/ /\ ts' = Linked(ts, p, q)
          /\ pc' = [pc EXCEPT ![p] = "user", ![q] = "user"]
          /\ Returns(p, last_pid)
          /\ UNCHANGED <<task, spaces>>
       \/ /\ ts' = Freed(ts, q)
          /\ pc' = [pc EXCEPT ![p] = "user", ![q] = "free"]
          /\ task' = [task EXCEPT ![local[p].n] = Null]
          /\ spaces' = spaces \ {local[p].n}
          /\ UNCHANGED shell
    /\ local' = [local EXCEPT ![p] = NoLocals]
    /\ UNCHANGED <<last_pid, nr, use, tty, panicked>>

----------------------------------------------------------------------------
(* exit()                                                                  *)

\* do_exit() frees the memory, then sleeps in sys_close() and iput().
Exit(p, c) ==
    /\ Enters(p, "exit") /\ p # InitTask
    /\ spaces' = FreedTables(p)
    /\ pc' = [pc EXCEPT ![p] = "exit"]
    /\ local' = [local EXCEPT ![p].n = 256 * c]
    /\ UNCHANGED <<task, ts, last_pid, nr, use, shell, tty, panicked>>

\* No living member has a parent outside the group but in its session;
\* init does not count.
is_orphaned_pgrp(T, pgrp) ==
    \A q \in Listed :
        \/ T[q].pgrp # pgrp \/ T[q].state = "zombie" \/ T[T[q].p_pptr].pid = 1
        \/ T[T[q].p_pptr].pgrp = pgrp
        \/ T[T[q].p_pptr].session # T[q].session

has_stopped_jobs(T, pgrp) ==
    \E q \in Listed : T[q].pgrp = pgrp /\ T[q].state = "stopped"

\* Whether the exit of p may have cut off the group of q, a neighbour of
\* p's in the tree, and what is done about it.
CutOff(T, p, q, pgrp) ==
    /\ T[q].pgrp # T[p].pgrp /\ T[q].session = T[p].session
    /\ is_orphaned_pgrp(T, pgrp) /\ has_stopped_jobs(T, pgrp)
OnlyHup(r) == Sent(r, SIGHUP)     \* a mutant: no SIGCONT
HangUp(r) == Sent(Sent(r, SIGHUP), SIGCONT)
HangUpAll(T, pgrps) ==
    [q \in DOMAIN T |-> IF q \in Listed /\ T[q].pgrp \in pgrps \ {0} THEN HangUp(T[q]) ELSE T[q]]

\* Lines 393-422: a zombie; case i; SIGCHLD.
Zombie(p) ==
    LET father == ts[p].p_pptr
        T == [ts EXCEPT ![p].state = "zombie", ![p].exit_code = local[p].n]
        U == IF CutOff(T, p, father, T[p].pgrp) THEN HangUpAll(T, {T[p].pgrp}) ELSE T
    IN  Told(U, father)

\* Lines 443-466: the children become init's one by one, each of them is
\* looked at as soon as it has been handed over (case ii).
Adopted(T, some) == [q \in DOMAIN T |->
    IF q \in some THEN [T[q] EXCEPT !.p_pptr = InitTask] ELSE T[q]]
Orphans(T, p) ==
    LET kids == Kids(T, p)
        after(i) == Adopted(T, {kids[j] : j \in 1..i})
        all == after(Len(kids))
        cut == {T[kids[i]].pgrp : i \in {j \in 1..Len(kids) :
                    CutOff(after(j), p, kids[j], T[kids[j]].pgrp)}}
        hung == HangUpAll(all, cut)
    IN  IF \E i \in 1..Len(kids) : T[kids[i]].state = "zombie"
        THEN Told(hung, InitTask) ELSE hung

\* Lines 482-485: the list of children is put before init's own.
Spliced(T, p) ==
    LET kids == Kids(T, p)
        first == T[InitTask].p_cptr
    IN  IF kids = <<>> THEN T
        ELSE [T EXCEPT ![kids[Len(kids)]].p_osptr = first, ![first].p_ysptr = kids[Len(kids)],
                       ![InitTask].p_cptr = T[p].p_cptr, ![p].p_cptr = Null]

\* Lines 491-505: the exit of a session leader.
KeptTty(T, p) == T     \* a mutant: lines 502-504 are missing
Disconnected(T, p) ==
    [q \in DOMAIN T |-> IF q \in Listed /\ T[q].session = T[p].session
                        THEN [T[q] EXCEPT !.tty = FALSE] ELSE T[q]]
LeaderGone(T, p) ==
    IF ~T[p].leader THEN T
    ELSE Disconnected(IF T[p].tty THEN kill_pg(T, tty.pgrp, SIGHUP) ELSE T, p)

\* Lines 393-513, which do not sleep.  task[1]->p_cptr is not tested.
Die(p) ==
    /\ ~panicked /\ p \in Listed /\ pc[p] = "exit"
    /\ LET T == Orphans(Zombie(p), p) IN
       IF Kids(T, p) # <<>> /\ T[InitTask].p_cptr = Null
       THEN panicked' = TRUE /\ UNCHANGED <<ts, tty, pc, local>>
       ELSE /\ ts' = LeaderGone(Spliced(T, p), p)
            /\ tty' = IF ts[p].leader /\ ts[p].tty THEN [session |-> 0, pgrp |-> 0] ELSE tty
            /\ pc' = [pc EXCEPT ![p] = "dead"]
            /\ local' = [local EXCEPT ![p] = NoLocals]
            /\ UNCHANGED panicked
    /\ UNCHANGED <<task, last_pid, spaces, nr, use, shell>>

----------------------------------------------------------------------------
(* waitpid()                                                               *)

Asked(p, w, q) ==
    CASE w > 0  -> ts[q].pid = w
      [] w = 0  -> ts[q].pgrp = ts[p].pgrp
      [] w = -1 -> TRUE
      [] OTHER  -> ts[q].pgrp = -w

\* The links after lines 51-56 of release().
OneSided(T, q) ==     \* a mutant: p_cptr is not changed when the youngest child goes
    LET older == T[q].p_osptr IN
    IF older = Null THEN T ELSE [T EXCEPT ![older].p_ysptr = T[q].p_ysptr]
Unlinked(T, q) ==
    LET older == T[q].p_osptr
        younger == T[q].p_ysptr
        U == IF older = Null THEN T ELSE [T EXCEPT ![older].p_ysptr = younger]
    IN  IF younger = Null THEN [U EXCEPT ![T[q].p_pptr].p_cptr = older]
        ELSE [U EXCEPT ![younger].p_osptr = older]

\* What the scan of the children finds: whether some child is asked for,
\* and those among them that have something to report, the first of which
\* is the one it ends at.
Asks(p, w) ==
    LET kids == Kids(ts, p) IN {q \in {kids[i] : i \in DOMAIN kids} : Asked(p, w, q)}
Reports(q, opts) ==
    \/ ts[q].state = "zombie"
    \/ ts[q].state = "stopped" /\ "WUNTRACED" \in opts /\ ts[q].exit_code # 0
Found(p, w, opts) == {q \in Asks(p, w) : Reports(q, opts)}
First(p, found) ==
    LET kids == Kids(ts, p) IN kids[Lowest({i \in DOMAIN kids : kids[i] \in found})]

\* waitpid() returns r to p.
WaitReturns(p, r) ==
    /\ pc' = [pc EXCEPT ![p] = "user"]
    /\ local' = [local EXCEPT ![p] = NoLocals]
    /\ shell' = IF p = InitTask /\ r = shell THEN 0 ELSE shell

\* One pass over the children that ends in a report; awake is ts with p
\* running.
Collect(p, q, awake) ==
    \/ /\ ts[q].state = "stopped"
       /\ ts' = [awake EXCEPT ![q].exit_code = 0]
       /\ WaitReturns(p, ts[q].pid)
       /\ UNCHANGED <<task, panicked>>
    \/ /\ ts[q].state = "zombie" /\ q \in Listed
       /\ ts' = Freed(Unlinked(awake, q), q)
       /\ task' = [n \in DOMAIN task |-> IF task[n] = q THEN Null ELSE task[n]]
       /\ pc' = [pc EXCEPT ![p] = "user", ![q] = "free"]
       /\ local' = [local EXCEPT ![p] = NoLocals]
       /\ shell' = IF p = InitTask /\ ts[q].pid = shell THEN 0 ELSE shell
       /\ UNCHANGED panicked
    \/ /\ ts[q].state = "zombie" /\ q \notin Listed    \* line 63
       /\ panicked' = TRUE
       /\ UNCHANGED <<task, ts, pc, local, shell>>

\* init waits for any child, as long as it has a shell.
Wait(p, w, opts) ==
    /\ Enters(p, "wait")
    /\ InitLoop(p, FALSE) /\ (p = InitTask => w = -1 /\ opts = {})
    /\ Asks(p, w) # {}                                   \* else -ECHILD
    /\ \/ /\ Found(p, w, opts) # {}
          /\ Collect(p, First(p, Found(p, w, opts)), ts)
       \/ /\ Found(p, w, opts) = {} /\ "WNOHANG" \notin opts
          /\ ts' = [ts EXCEPT ![p].state = "interruptible"]
          /\ pc' = [pc EXCEPT ![p] = "wait"]
          /\ local' = [local EXCEPT ![p].w = w, ![p].opts = opts]
          /\ UNCHANGED <<task, shell, panicked>>
    /\ UNCHANGED <<last_pid, spaces, nr, use, tty>>

\* schedule() has made p running because of a signal.  With SIGCHLD alone
\* the children are looked at again, and p may go back to sleep.
WaitAgain(p) ==
    LET awake == [ts EXCEPT ![p].state = "running"]
        found == Found(p, local[p].w, local[p].opts)
    IN  /\ ~panicked /\ p \in Listed /\ pc[p] = "wait" /\ ts[p].signal # {}
        /\ \/ /\ ts[p].signal # {SIGCHLD} \/ Asks(p, local[p].w) = {}
              /\ ts' = awake
              /\ WaitReturns(p, -1)
              /\ UNCHANGED <<task, panicked>>
           \/ /\ ts[p].signal = {SIGCHLD} /\ found # {}
              /\ Collect(p, First(p, found), awake)
        /\ UNCHANGED <<last_pid, spaces, nr, use, tty>>

----------------------------------------------------------------------------
(* Process groups, sessions and the terminal                               *)

session_of_pgrp(pgrp) ==
    LET S == Entries(ts, LAMBDA r : r.pgrp = pgrp) IN IF S = {} THEN -1 ELSE ts[LastOf(S)].session

\* q is p or a child of p.
Setpgid(p, q, pgid) ==
    /\ Enters(p, "setpgid") /\ p # InitTask
    /\ q \in Listed /\ (q = p \/ ts[q].p_pptr = p)
    /\ ~ts[q].leader /\ ts[q].session = ts[p].session
    /\ pgid # ts[q].pid => session_of_pgrp(pgid) = ts[p].session
    /\ ts' = [ts EXCEPT ![q].pgrp = pgid]
    /\ UNCHANGED <<task, last_pid, spaces, nr, pc, local, use, shell, tty, panicked>>

\* A superuser who leads a session may do it again: it keeps the session
\* and leaves its terminal to the others in it.
Setsid(p) ==
    /\ Enters(p, "setsid") /\ p # InitTask
    /\ ts[p].leader => "suser" \in use.calls     \* else -EPERM
    /\ ts' = [ts EXCEPT ![p].leader = TRUE, ![p].session = ts[p].pid,
                        ![p].pgrp = ts[p].pid, ![p].tty = FALSE]
    /\ UNCHANGED <<task, last_pid, spaces, nr, pc, local, use, shell, tty, panicked>>

\* check_char_dev() in sys_open(): a leader without a terminal gets it.
OpenTty(p) ==
    /\ Enters(p, "tty")
    /\ ts[p].leader /\ ~ts[p].tty /\ tty.session = 0
    /\ ts' = [ts EXCEPT ![p].tty = TRUE]
    /\ tty' = [session |-> ts[p].session, pgrp |-> ts[p].pgrp]
    /\ UNCHANGED <<task, last_pid, spaces, nr, pc, local, use, shell, panicked>>

\* tty_ioctl(TIOCSPGRP).
SetForeground(p, pgrp) ==
    /\ Enters(p, "tty") /\ ts[p].tty /\ tty.session = ts[p].session
    /\ session_of_pgrp(pgrp) = ts[p].session
    /\ tty' = [tty EXCEPT !.pgrp = pgrp]
    /\ UNCHANGED <<task, ts, last_pid, spaces, nr, pc, local, use, shell, panicked>>

----------------------------------------------------------------------------
\* What the kernel goes on with by itself.
Continue(p) == Deliver(p) \/ PageCame(p) \/ CopyDone(p) \/ Die(p) \/ WaitAgain(p)

Step(p) ==
    \/ Continue(p)
    \/ Fork(p) \/ Setsid(p) \/ OpenTty(p)
    \/ \E c \in Codes : Exit(p, c)
    \/ \E w \in Waits, opts \in Options : Wait(p, w, opts)
    \/ \E w \in -MaxPid..MaxPid, sig \in use.sends : Kill(p, w, sig)
    \/ \E q \in Tasks, pgid \in 1..MaxPid : Setpgid(p, q, pgid)
    \/ \E pgrp \in 1..MaxPid : SetForeground(p, pgrp)

Next == \E p \in Tasks : Step(p)
Spec == Init /\ [][Next]_vars

\* ENABLED <<Continue(p)>>_vars, spelled out because TLC is slow at it.
Ready(p) ==
    /\ ~panicked /\ p \in Listed
    /\ \/ pc[p] \in {"page", "copy", "exit"}
       \/ pc[p] = "user" /\ ts[p].state = "running" /\ ts[p].signal # {}
       \/ /\ pc[p] = "wait" /\ ts[p].signal # {}
          /\ \/ ts[p].signal # {SIGCHLD} \/ Asks(p, local[p].w) = {}
             \/ Found(p, local[p].w, local[p].opts) # {}

\* schedule() passes over no runnable process for ever, and the disk ends
\* every transfer a fork or an exit waits for: WF_vars(Continue(p)).
FairSpec == Spec /\ \A p \in Tasks : <>[]Ready(p) => []<><<Continue(p)>>_vars

----------------------------------------------------------------------------
(* Properties                                                              *)

Linkable == {p \in Pages : pc[p] \notin {"free", "new"}}

(* The four links always agree, as audit_ptree() (exit.c:104) wants it, and *)
(* every process is on the list of its parent, which is alive: fork, exit,  *)
(* adoption by init and release() never leave a process hanging in the air. *)
TreeOK ==
    /\ \A p \in Linkable :
        LET father == ts[p].p_pptr
            kids == Kids(ts, father)
        IN  /\ father \in {InitTask} \cup {q \in Linkable : ts[q].state # "zombie"}
            /\ \E i \in 1..Len(kids) :
                /\ kids[i] = p
                /\ ts[p].p_ysptr = IF i = 1 THEN Null ELSE kids[i - 1]
                /\ ts[p].p_osptr = IF i = Len(kids) THEN Null ELSE kids[i + 1]
    /\ \A p \in Tasks \ {q \in Pages : pc[q] \in {"free", "new"}} :
        LET kids == Kids(ts, p) IN \A i \in DOMAIN kids : ts[kids[i]].p_pptr = p

(* No two tasks have one pid, "last_pid does not repeat" (fork.c:208); it   *)
(* takes that get_free_page() does not sleep before task[nr] is set.        *)
UniquePid ==
    "page" \notin use.sleeps =>
        \A p, q \in Listed : ts[p].pid = ts[q].pid => p = q

(* Neither fork nor release() nor the adoption of children brings the       *)
(* kernel down: it takes, again, a fork that does not sleep too early.      *)
NoPanic == "page" \notin use.sleeps => ~panicked

(* The tree and the table are those of processes that are there, and        *)
(* nothing in them brings the kernel down.                                  *)
FamilyOK == TypeOK /\ TreeOK /\ NoPanic
NeverPanics == ~panicked

(* A process that sleeps in waitpid() has SIGCHLD pending as soon as one of *)
(* the children it asked for is a zombie, whoever was its father then.      *)
ZombieReported ==
    \A p \in Listed : pc[p] = "wait" =>
        \A q \in Asks(p, local[p].w) : ts[q].state = "zombie" => SIGCHLD \in ts[p].signal

(* Nobody sleeps through SIGKILL: whoever was killed, stopped or asleep in  *)
(* waitpid() or not, goes on by itself.                                     *)
KillHeard ==
    \A p \in Listed : ~panicked /\ pc[p] \notin {"new", "dead"} =>
        (SIGKILL \in ts[p].signal => Ready(p))

(* Nor through the death of a child it asked for.                           *)
DeathHeard ==
    \A p \in Listed : ~panicked /\ pc[p] = "wait" =>
        ((\E q \in Asks(p, local[p].w) : ts[q].state = "zombie") => Ready(p))

(* Whom a death or a signal concerns is told, and awake.                    *)
NothingMissed == ZombieReported /\ KillHeard /\ DeathHeard

(* "Newly orphaned process groups are to receive a SIGHUP and a SIGCONT"    *)
(* (exit.c:306): the exit of a process leaves nobody stopped in a group     *)
(* that this exit has cut off from its session.                             *)
Detached(pgrp) ==
    ~\E q \in Listed :
        LET father == ts[q].p_pptr IN
        /\ ts[q].pgrp = pgrp /\ ts[q].state # "zombie"
        /\ father # InitTask /\ ts[father].state # "zombie"
        /\ ts[father].pgrp # pgrp /\ ts[father].session = ts[q].session
Suspended(pgrp) == pgrp # 0 /\ \E q \in Listed : ts[q].pgrp = pgrp /\ ts[q].state = "stopped"
OrphansContinued ==
    [][\A p \in Tasks : pc[p] = "exit" /\ pc'[p] = "dead" /\ use.sleeps = {} =>
        \A g \in Pids : ~Detached(g) /\ Detached(g)' => ~Suspended(g)']_vars

\* The process that leads the session of the terminal.
Leads(p) == p \in Listed /\ ts[p].leader /\ ts[p].state # "zombie" /\ ts[p].session = tty.session

(* Whoever has the terminal is of the session it belongs to, and that       *)
(* session has a living leader, whose exit will take the terminal from all  *)
(* of them (exit.c:497-504).  The leader has the terminal itself, so that   *)
(* it is given back, unless it was the superuser's and has called setsid()  *)
(* again (sys.c:362): then its exit finds no terminal to free, and no       *)
(* session can ever have that terminal again.                               *)
TtyHasLeader ==
    /\ \A p \in Listed : ts[p].tty =>
        ts[p].session = tty.session /\ tty.session # 0 /\ \E q \in Tasks : Leads(q)
    /\ tty.session # 0 /\ "suser" \notin use.calls => \E q \in Tasks : Leads(q) /\ ts[q].tty

(* The exit status of a process is the argument of do_exit(), and stays so *)
(* until the parent has fetched it with waitpid() (exit.c:525).             *)
ExitCodeKept ==
    [][\A p \in Pages :
        /\ pc[p] = "exit" /\ pc'[p] = "dead" => ts'[p].exit_code = local[p].n
        /\ pc[p] = "dead" /\ pc'[p] = "dead" => ts'[p].exit_code = ts[p].exit_code]_vars

(* waitpid() returns when a child it was asked for has died, although every *)
(* other SIGCHLD wakes it for nothing and is not taken off.                 *)
WaitEnds == \A p \in Tasks :
    pc[p] = "wait" /\ (\E q \in Asks(p, local[p].w) : ts[q].state = "zombie")
        ~> pc[p] # "wait"

(* SIGKILL ends every process, whether it is stopped, asleep in waitpid()   *)
(* or in the middle of a fork.                                              *)
KillEnds == \A p \in Pages :
    "page" \notin use.sleeps /\ SIGKILL \in ts[p].signal ~> pc[p] \in {"exit", "dead", "free"}
=============================================================================
