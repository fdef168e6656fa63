------------------------------- MODULE Pipes -------------------------------
(***************************************************************************)
(* Pipes and descriptors: fs/pipe.c, fs/fcntl.c, sys_open() and            *)
(* sys_close() of fs/open.c, sys_read() and sys_write() on a pipe, and     *)
(* what fork(), exec() and exit() do to descriptors.                       *)
(*                                                                         *)
(* There is one pipe at a time.  The kernel is not preempted: a process    *)
(* keeps the processor (`cpu') until it returns to its program or sleeps:  *)
(* on a pipe, in open() of a file, in the iput() of one, or in the copy of *)
(* bytes from or to its program, when a page of it is not there.           *)
(*                                                                         *)
(* Each byte that is written is the successor of the one before, modulo    *)
(* NVals, so that bytes lost, repeated or out of order are seen.           *)
(***************************************************************************)
EXTENDS Integers, FiniteSets, FiniteSetsExt, Sequences

CONSTANTS Procs, NoProc,
          NFiles,     \* NR_FILE
          NFds,       \* NR_OPEN
          Size,       \* PAGE_SIZE
          NVals,
          MaxCount,   \* the longest read or write
          Risks       \* "copy": another process uses the pipe while the copy
                      \* of bytes sleeps, which the code does not allow for

Files == 1..NFiles
Fds == 1..NFds
Bytes == 0..NVals - 1
Offsets == 0..Size - 1

ASSUME ProcsAssumption == IsFiniteSet(Procs) /\ NoProc \notin Procs
ASSUME SizesAssumption == {NFiles, NFds, Size, NVals, MaxCount} \subseteq Nat \ {0}
ASSUME RisksAssumption == Risks \subseteq {"copy"}

VARIABLES
    cpu,      \* the process in the kernel, or NoProc
    file,     \* file_table
    filp,     \* the files of each process' descriptors; 0: none
    coe,      \* close_on_exec
    pipe,     \* the inode of the pipe and its page
    next,     \* the byte to be written next
    signal,   \* the processes with a signal that is not blocked
    asleep,   \* the wait queue each process sleeps on
    pc, loc,  \* where each process is, its local variables
    got       \* what the last step gave to a process

tables == <<file, filp, coe>>
vars == <<cpu, tables, pipe, next, signal, asleep, pc, loc, got>>

\* The result of a call: bytes, nothing, or a condition.
Data(p, s) == [by |-> p, is |-> "bytes", bytes |-> s]
Nothing == [by |-> NoProc, is |-> "nothing", bytes |-> <<>>]
EOF(p) == [by |-> p, is |-> "end of file", bytes |-> <<>>]
BrokenPipe(p) == [by |-> p, is |-> "broken pipe", bytes |-> <<>>]

NoFile == [count |-> 0, mode |-> "none"]
NoPipe == [count |-> 0, head |-> 0, tail |-> 0, page |-> [o \in Offsets |-> 0]]
\* left: the bytes still to be read or written; some: there were some already;
\* from, chars: those being copied.
NoLoc == [left |-> 0, some |-> FALSE, from |-> 0, chars |-> 0]

TypeOK ==
    /\ cpu \in Procs \cup {NoProc}
    /\ file \in [Files -> [count : Nat, mode : {"none", "read", "write", "file"}]]
    /\ filp \in [Procs -> [Fds -> Files \cup {0}]]
    /\ coe \in [Procs -> SUBSET Fds]
    /\ pipe \in [count : 0..2, head : Offsets, tail : Offsets, page : [Offsets -> Bytes]]
    /\ next \in Bytes
    /\ signal \subseteq Procs
    /\ asleep \in [Procs -> {"no", "read", "write"}]
    /\ pc \in [Procs -> {"unused", "user", "opening", "exec", "exit",
                         "read", "write", "copyout", "copyin"}]
    /\ loc \in [Procs -> [left : 0..MaxCount, some : BOOLEAN, from : Offsets, chars : 0..Size]]

Init ==
    /\ cpu = NoProc
    /\ file = [f \in Files |-> NoFile]
    /\ filp = [p \in Procs |-> [d \in Fds |-> 0]] /\ coe = [p \in Procs |-> {}]
    /\ pipe = NoPipe /\ next = 0
    /\ signal = {} /\ asleep = [p \in Procs |-> "no"]
    /\ \E p \in Procs : pc = [q \in Procs |-> IF q = p THEN "user" ELSE "unused"]
    /\ loc = [p \in Procs |-> NoLoc] /\ got = Nothing

----------------------------------------------------------------------------
(* Processes                                                               *)

At(p, l) == cpu \in {p, NoProc} /\ pc[p] = l /\ asleep[p] = "no"
Goto(p, l, r) ==
    /\ pc' = [pc EXCEPT ![p] = l] /\ loc' = [loc EXCEPT ![p] = r] /\ cpu' = p
Leave(p, l) ==
    /\ pc' = [pc EXCEPT ![p] = l] /\ loc' = [loc EXCEPT ![p] = NoLoc]
    /\ cpu' = NoProc
FaultIn(p, l, r) ==
    pc' = [pc EXCEPT ![p] = l] /\ loc' = [loc EXCEPT ![p] = r] /\ cpu' = NoProc
InUser(p) == At(p, "user")
\* ret_from_sys_call handles signals before the program goes on.
Return(p) == Leave(p, "user") /\ signal' = signal \ {p}
Same(p) == UNCHANGED <<cpu, pc, loc>>

\* wake_up(): all who sleep there run again, one after the other (WaitQueue).
Woken(queues) == [p \in Procs |-> IF asleep[p] \in queues THEN "no" ELSE asleep[p]]

\* A signal ends an interruptible sleep.
Signal(p) ==
    /\ cpu = NoProc /\ p \notin signal /\ pc[p] = "read"
    /\ signal' = signal \cup {p}
    /\ asleep' = [asleep EXCEPT ![p] = IF @ = "read" THEN "no" ELSE @]
    /\ Same(p) /\ UNCHANGED <<tables, pipe, next>> /\ got' = Nothing

----------------------------------------------------------------------------
(* Descriptors                                                             *)

FreeFds(p) == {d \in Fds : filp[p][d] = 0}
FreeFiles == {f \in Files : file[f].count = 0}
Mode(p, d) == IF filp[p][d] = 0 THEN "none" ELSE file[filp[p][d]].mode

\* sys_pipe(): the first two files and the first two descriptors that are free.
\* get_pipe_inode() may sleep after they are taken, which nobody sees.
Pipe(p) ==
    LET r == Min(FreeFiles)  w == Min(FreeFiles \ {r})
        d == Min(FreeFds(p)) e == Min(FreeFds(p) \ {d})
    IN  /\ InUser(p) /\ pipe.count = 0
        /\ Cardinality(FreeFiles) >= 2 /\ Cardinality(FreeFds(p)) >= 2
        /\ file' = [file EXCEPT ![r] = [count |-> 1, mode |-> "read"],
                                ![w] = [count |-> 1, mode |-> "write"]]
        /\ filp' = [filp EXCEPT ![p][d] = r, ![p][e] = w]
        /\ pipe' = [NoPipe EXCEPT !.count = 2]
        /\ Same(p) /\ UNCHANGED <<coe, next, signal, asleep>> /\ got' = Nothing

\* sys_open(): the file is taken before open_namei() sleeps.
Open(p) ==
    LET f == Min(FreeFiles)  d == Min(FreeFds(p)) IN
    /\ InUser(p) /\ FreeFiles # {} /\ FreeFds(p) # {}
    /\ file' = [file EXCEPT ![f] = [count |-> @.count + 1, mode |-> "none"]]
    /\ filp' = [filp EXCEPT ![p][d] = f]
    /\ coe' = [coe EXCEPT ![p] = @ \ {d}]
    /\ Leave(p, "opening")
    /\ UNCHANGED <<pipe, next, signal, asleep>> /\ got' = Nothing
Opened(p) ==
    LET d == CHOOSE d \in Fds : filp[p][d] # 0 /\ Mode(p, d) = "none"  f == filp[p][d] IN
    /\ At(p, "opening")
    /\ \/ /\ file' = [file EXCEPT ![f] = [count |-> 1, mode |-> "file"]]
          /\ UNCHANGED filp
       \/ /\ file' = [file EXCEPT ![f] = NoFile]
          /\ filp' = [filp EXCEPT ![p][d] = 0]
    /\ Return(p)
    /\ UNCHANGED <<coe, pipe, next, asleep>> /\ got' = Nothing

\* a mutant: each close counts as that of an end.
CloseFdEach(p, d) ==
    LET f == filp[p][d]
        end == Mode(p, d) \in {"read", "write"} /\ pipe.count > 1
    IN
    /\ coe' = [coe EXCEPT ![p] = @ \ {d}]
    /\ filp' = [filp EXCEPT ![p][d] = 0]
    /\ file' = [file EXCEPT ![f] = IF @.count = 1 THEN NoFile ELSE [@ EXCEPT !.count = @ - 1]]
    /\ pipe' = IF end THEN [pipe EXCEPT !.count = @ - 1] ELSE pipe
    /\ asleep' = IF end THEN Woken({"read", "write"}) ELSE asleep
    /\ UNCHANGED next /\ got' = Nothing

\* sys_close(): the last descriptor of an end puts the inode, iput() wakes all.
CloseFd(p, d) ==
    LET f == filp[p][d]  last == file[f].count = 1
        end == last /\ file[f].mode \in {"read", "write"}
    IN  /\ coe' = [coe EXCEPT ![p] = @ \ {d}]
        /\ filp' = [filp EXCEPT ![p][d] = 0]
        /\ file' = [file EXCEPT ![f] = IF last THEN NoFile ELSE [file[f] EXCEPT !.count = @ - 1]]
        /\ pipe' = IF ~end THEN pipe ELSE IF pipe.count = 1 THEN NoPipe
                   ELSE [pipe EXCEPT !.count = @ - 1]
        /\ asleep' = IF end THEN Woken({"read", "write"}) ELSE asleep
        /\ UNCHANGED next /\ got' = Nothing
Close(p) ==
    /\ InUser(p)
    /\ \E d \in Fds \ FreeFds(p) : CloseFd(p, d)
    /\ Same(p) /\ UNCHANGED signal

\* dupfd(), for dup() and fcntl(); dup2() closes the descriptor before.
Dup(p) ==
    /\ InUser(p)
    /\ \E d \in Fds \ FreeFds(p), arg \in Fds :
        LET free == {e \in FreeFds(p) : e >= arg}  e == Min(free) IN
        /\ free # {}
        /\ coe' = [coe EXCEPT ![p] = @ \ {e}]
        /\ filp' = [filp EXCEPT ![p][e] = filp[p][d]]
        /\ file' = [file EXCEPT ![filp[p][d]].count = @ + 1]
    /\ Same(p) /\ UNCHANGED <<pipe, next, signal, asleep>> /\ got' = Nothing

\* fcntl(F_SETFD), on one descriptor of one process at a time.
SetFd(p) ==
    /\ InUser(p) /\ \A q \in Procs : coe[q] = {}
    /\ \E d \in Fds \ FreeFds(p) : coe' = [coe EXCEPT ![p] = @ \cup {d}]
    /\ Same(p) /\ UNCHANGED <<file, filp, pipe, next, signal, asleep>> /\ got' = Nothing

\* a mutant: one reference for the child, not one for each descriptor.
ForkOnce(p, c) ==
    /\ InUser(p) /\ pc[c] = "unused"
    /\ filp' = [filp EXCEPT ![c] = filp[p]] /\ coe' = [coe EXCEPT ![c] = coe[p]]
    /\ file' = [f \in Files |-> [file[f] EXCEPT !.count =
                   IF \E d \in Fds : filp[p][d] = f THEN @ + 1 ELSE @]]
    /\ pc' = [pc EXCEPT ![c] = "user"]
    /\ UNCHANGED <<cpu, loc, pipe, next, signal, asleep>> /\ got' = Nothing

Fork(p, c) ==
    /\ InUser(p) /\ pc[c] = "unused"
    /\ filp' = [filp EXCEPT ![c] = filp[p]] /\ coe' = [coe EXCEPT ![c] = coe[p]]
    /\ file' = [f \in Files |-> [file[f] EXCEPT !.count =
                   @ + Cardinality({d \in Fds : filp[p][d] = f})]]
    /\ pc' = [pc EXCEPT ![c] = "user"]
    /\ UNCHANGED <<cpu, loc, pipe, next, signal, asleep>> /\ got' = Nothing

\* do_execve() closes some descriptors, do_exit() all, one after the other.
Exec(p) == InUser(p) /\ coe[p] # {} /\ Goto(p, "exec", NoLoc)
           /\ UNCHANGED <<tables, pipe, next, signal, asleep>> /\ got' = Nothing
Exit(p) == InUser(p) /\ (\E q \in Procs \ {p} : pc[q] # "unused") /\ Goto(p, "exit", NoLoc)
           /\ UNCHANGED <<tables, pipe, next, signal, asleep>> /\ got' = Nothing
Closing(p) == IF pc[p] = "exec" THEN coe[p] ELSE Fds \ FreeFds(p)
CloseNext(p) ==
    LET d == Min(Closing(p)) IN
    /\ At(p, "exec") \/ At(p, "exit")
    /\ Closing(p) # {}
    /\ CloseFd(p, d)
    /\ cpu' = (IF Mode(p, d) = "file" THEN NoProc ELSE p) /\ UNCHANGED <<pc, loc, signal>>
ClosedAll(p) ==
    /\ At(p, "exec") \/ At(p, "exit")
    /\ Closing(p) = {}
    /\ Leave(p, IF pc[p] = "exec" THEN "user" ELSE "unused")
    /\ UNCHANGED <<tables, pipe, next, signal, asleep>> /\ got' = Nothing

----------------------------------------------------------------------------
(* read_pipe()                                                             *)

\* Without that risk nobody uses the pipe while another process copies.
Copying == {p \in Procs : pc[p] \in {"copyout", "copyin"}}
AtPipe(p, l) == At(p, l) /\ ("copy" \in Risks \/ Copying = {})

PIPE_SIZE == (pipe.head - pipe.tail) % Size

Read(p) ==
    /\ AtPipe(p, "user") /\ \E d \in Fds : Mode(p, d) = "read"
    /\ \E n \in 1..MaxCount : Goto(p, "read", [NoLoc EXCEPT !.left = n])
    /\ UNCHANGED <<tables, pipe, next, signal, asleep>> /\ got' = Nothing

\* The pipe is empty: the writers are gone, or there is a signal, or p sleeps.
ReadEmpty(p) ==
    /\ AtPipe(p, "read") /\ PIPE_SIZE = 0
    /\ \/ /\ pipe.count # 2
          /\ got' = IF loc[p].some THEN Nothing ELSE EOF(p)
          /\ Return(p) /\ asleep' = Woken({"write"})
       \/ /\ pipe.count = 2 /\ p \in signal /\ got' = Nothing
          /\ Return(p) /\ asleep' = Woken({"write"})
       \/ /\ pipe.count = 2 /\ p \notin signal /\ got' = Nothing
          /\ asleep' = [Woken({"write"}) EXCEPT ![p] = "read"]
          /\ cpu' = NoProc /\ UNCHANGED <<pc, loc, signal>>
    /\ UNCHANGED <<tables, pipe, next>>

\* a mutant: the writers are woken only while p reads on.
CopyOutQuiet(p, from, chars, left) ==
    /\ got' = Data(p, [i \in 1..chars |-> pipe.page[from + i - 1]])
    /\ IF left > 0
       THEN /\ Goto(p, "read", [NoLoc EXCEPT !.left = left, !.some = TRUE])
            /\ asleep' = Woken({"write"}) /\ UNCHANGED signal
       ELSE Return(p) /\ UNCHANGED asleep

\* The chars bytes from `from' on are p's; it reads on, or has all it wanted.
CopyOut(p, from, chars, left) ==
    /\ got' = Data(p, [i \in 1..chars |-> pipe.page[from + i - 1]])
    /\ IF left > 0
       THEN /\ Goto(p, "read", [NoLoc EXCEPT !.left = left, !.some = TRUE])
            /\ UNCHANGED <<asleep, signal>>
       ELSE Return(p) /\ asleep' = Woken({"write"})

\* Up to the end of the page: the tail goes on, then the bytes are copied.
Take(p) ==
    LET chars == Min({Size - pipe.tail, loc[p].left, PIPE_SIZE})
        left == loc[p].left - chars
    IN  /\ AtPipe(p, "read") /\ PIPE_SIZE > 0
        /\ pipe' = [pipe EXCEPT !.tail = (@ + chars) % Size]
        /\ \/ CopyOut(p, pipe.tail, chars, left)
           \/ /\ FaultIn(p, "copyout", [NoLoc EXCEPT !.left = left, !.from = pipe.tail,
                                                     !.chars = chars])
              /\ UNCHANGED <<asleep, signal>> /\ got' = Nothing
        /\ UNCHANGED <<tables, next>>
TakeLate(p) ==
    /\ At(p, "copyout")
    /\ CopyOut(p, loc[p].from, loc[p].chars, loc[p].left)
    /\ UNCHANGED <<tables, pipe, next>>

----------------------------------------------------------------------------
(* write_pipe()                                                            *)

Write(p) ==
    /\ AtPipe(p, "user") /\ \E d \in Fds : Mode(p, d) = "write"
    /\ \E n \in 1..MaxCount : Goto(p, "write", [NoLoc EXCEPT !.left = n])
    /\ UNCHANGED <<tables, pipe, next, signal, asleep>> /\ got' = Nothing

\* The pipe is full: SIGPIPE if there are no readers, else p sleeps, and no
\* signal wakes it.
WriteFull(p) ==
    /\ AtPipe(p, "write") /\ PIPE_SIZE = Size - 1
    /\ IF pipe.count # 2
       THEN got' = BrokenPipe(p) /\ Return(p) /\ asleep' = Woken({"read"})
       ELSE /\ asleep' = [Woken({"read"}) EXCEPT ![p] = "write"] /\ got' = Nothing
            /\ cpu' = NoProc /\ UNCHANGED <<pc, loc, signal>>
    /\ UNCHANGED <<tables, pipe, next>>

\* chars bytes go to the page from `from' on, and the head to `head'.
CopyIn(p, from, chars, left, head) ==
    /\ pipe' = [pipe EXCEPT !.head = head, !.page = [o \in Offsets |->
                   IF o \in from..from + chars - 1 THEN (next + o - from) % NVals ELSE @[o]]]
    /\ next' = (next + chars) % NVals
    /\ IF left > 0
       THEN Goto(p, "write", [NoLoc EXCEPT !.left = left]) /\ UNCHANGED <<asleep, signal>>
       ELSE Return(p) /\ asleep' = Woken({"read"})
    /\ got' = Nothing

\* Up to the end of the page: the head goes on, then the bytes are copied.
Put(p) ==
    LET chars == Min({Size - pipe.head, loc[p].left, Size - 1 - PIPE_SIZE})
        left == loc[p].left - chars  head == (pipe.head + chars) % Size
    IN  /\ AtPipe(p, "write") /\ PIPE_SIZE < Size - 1
        /\ \/ CopyIn(p, pipe.head, chars, left, head)
           \/ /\ pipe' = [pipe EXCEPT !.head = head] /\ got' = Nothing
              /\ FaultIn(p, "copyin", [NoLoc EXCEPT !.left = left, !.from = pipe.head,
                                                    !.chars = chars])
              /\ UNCHANGED <<next, asleep, signal>>
        /\ UNCHANGED tables
PutLate(p) ==
    /\ At(p, "copyin")
    /\ CopyIn(p, loc[p].from, loc[p].chars, loc[p].left, pipe.head)
    /\ UNCHANGED tables

----------------------------------------------------------------------------
Next ==
    \E p \in Procs :
        \/ Pipe(p) \/ Open(p) \/ Opened(p) \/ Close(p) \/ Dup(p) \/ SetFd(p)
        \/ Exec(p) \/ Exit(p) \/ CloseNext(p) \/ ClosedAll(p) \/ Signal(p)
        \/ Read(p) \/ ReadEmpty(p) \/ Take(p) \/ TakeLate(p)
        \/ Write(p) \/ WriteFull(p) \/ Put(p) \/ PutLate(p)
        \/ \E c \in Procs : Fork(p, c)

Spec == Init /\ [][Next]_vars

----------------------------------------------------------------------------
(* Properties                                                              *)

\* f_count is the number of descriptors of a file, and i_count of the pipe the
\* number of its ends that are in use (open.c:283, 342, fcntl.c:41, fork.c:178),
\* so that "i_count != 2" (pipe.c:30, 73) means that an end is closed for good.
Using(f) == {pd \in Procs \X Fds : filp[pd[1]][pd[2]] = f}
CountsExact ==
    /\ \A f \in Files : file[f].count = Cardinality(Using(f))
    /\ pipe.count = Cardinality({f \in Files : file[f].mode \in {"read", "write"}})

\* Descriptors, files and the pipe agree with each other.
Counted == TypeOK /\ CountsExact

\* Who sleeps on the pipe has something to wait for, or has been woken: nobody
\* stays asleep before bytes, room or a closed end (pipe.c:29, 56, 72, 98 and
\* inode.c:219).
Waiting ==
    cpu = NoProc /\ Copying = {} => \A p \in Procs :
        /\ asleep[p] = "read"  => PIPE_SIZE = 0 /\ pipe.count = 2
        /\ asleep[p] = "write" => PIPE_SIZE = Size - 1 /\ pipe.count = 2

\* The pipe is a channel: the bytes come out as they went in, the end of file
\* comes when no process can write, SIGPIPE when no process can read.
Having(m) == {p \in Procs : \E d \in Fds : Mode(p, d) = m}
Taken == {p \in Procs : pc[p] = "copyout"}
Putting == {p \in Procs : pc[p] = "copyin"}
Content ==
    LET tail == IF Taken = {} THEN pipe.tail ELSE loc[CHOOSE p \in Taken : TRUE].from
        head == IF Putting = {} THEN pipe.head ELSE loc[CHOOSE p \in Putting : TRUE].from
    IN  [i \in 1..(head - tail) % Size |-> pipe.page[(tail + i - 1) % Size]]
C == INSTANCE Channel WITH Capacity <- Size - 1, Vals <- Bytes, queue <- Content,
                           readers <- Having("read"), writers <- Having("write"),
                           got <- got
InOrder == C!Spec
=============================================================================
