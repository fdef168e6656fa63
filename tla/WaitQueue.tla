----------------------------- MODULE WaitQueue -----------------------------
(***************************************************************************)
(* The wait queues of kernel/sched.c: __sleep_on(), wake_up() and the part *)
(* of schedule() that makes signalled sleepers runnable.                   *)
(*                                                                         *)
(* A queue is one pointer *p (here `head').  A task that sleeps keeps the  *)
(* previous head in a variable on its kernel stack (`tmp') and puts itself *)
(* in its place, so that the sleepers form a chain through their stacks.   *)
(* wake_up() makes the head runnable and changes nothing else: the chain   *)
(* is taken apart by the sleepers themselves as they run.                  *)
(*                                                                         *)
(* The users of a queue wait in a loop for a resource: lock_buffer() and   *)
(* wait_on_buffer() for b_lock with interrupts off, make_request() for a   *)
(* request slot with interrupts on, sleep_if_empty() for input or a        *)
(* signal.  `busy' is that resource; an interrupt handler releases it.     *)
(* The kernel is not preempted: a task runs until it sleeps, only the      *)
(* interrupt handler comes in between.                                     *)
(***************************************************************************)
EXTENDS Naturals, FiniteSets

CONSTANTS Tasks,        \* tasks 1, 2, ...; task 0 never sleeps (line 250)
          NoTask,       \* the NULL task pointer
          Clis,         \* whether callers test and sleep under cli(): some queues
                        \* do (b_wait), others do not (wait_for_request)
          Kinds,        \* the sleeps the callers of this queue use
          MaxAcquire    \* bound: how often the resource is taken

ASSUME TasksAssumption == IsFiniteSet(Tasks)
ASSUME NoTaskAssumption == NoTask \notin Tasks
ASSUME ClisAssumption == Clis \subseteq BOOLEAN
ASSUME KindsAssumption == Kinds \subseteq {"interruptible", "uninterruptible"}
ASSUME MaxAcquireAssumption == MaxAcquire \in Nat

VARIABLES
    head,       \* *p
    tmp,        \* tmp[t]: t's stack variable in __sleep_on()
    state,      \* state[t]: task_struct.state
    pc,         \* pc[t]: where t is
    sig,        \* tasks with a pending, unblocked signal
    current,    \* the running task, NoTask while task 0 idles or a switch is due
    cli,        \* this queue is one of those used under cli()
    busy,       \* the resource the sleepers wait for is taken
    acquired    \* how often it has been taken

vars == <<head, tmp, state, pc, sig, current, cli, busy, acquired>>

\* "user": outside the wait loop; "loop": about to test the resource;
\* "tested", "linked": inside __sleep_on() before lines 254 and 256 (only
\* when interrupts are on); "slept": inside schedule() at line 258.
TypeOK ==
    /\ head \in Tasks \cup {NoTask}
    /\ tmp \in [Tasks -> Tasks \cup {NoTask}]
    /\ state \in [Tasks -> {"running", "interruptible", "uninterruptible"}]
    /\ pc \in [Tasks -> {"user", "loop", "tested", "linked", "slept"}]
    /\ sig \subseteq Tasks
    /\ current \in Tasks \cup {NoTask}
    /\ current # NoTask => state[current] = "running"
    /\ cli \in BOOLEAN /\ busy \in BOOLEAN
    /\ acquired \in 0..MaxAcquire

Init ==
    /\ head = NoTask
    /\ tmp = [t \in Tasks |-> NoTask]
    /\ state = [t \in Tasks |-> "running"]
    /\ pc = [t \in Tasks |-> "user"]
    /\ sig = {}
    /\ current = NoTask
    /\ cli \in Clis
    /\ busy = FALSE
    /\ acquired = 0

----------------------------------------------------------------------------
(* schedule()                                                              *)

\* Sleepers that can be interrupted and have a signal become runnable.
Signalled(s) == [t \in Tasks |->
    IF t \in sig /\ s[t] = "interruptible" THEN "running" ELSE s[t]]

Runnable(t) == Signalled(state)[t] = "running"

\* Which runnable task is picked depends on the counters: any may be.
Dispatch(t) ==
    /\ current = NoTask /\ Runnable(t)
    /\ state' = Signalled(state)
    /\ current' = t
    /\ UNCHANGED <<head, tmp, pc, sig, cli, busy, acquired>>

\* The timer interrupt calls schedule() when it interrupted user mode, and
\* a system call does so before it returns if the time slice is used up.
Preempt(t) ==
    /\ current = t /\ pc[t] = "user"
    /\ current' = NoTask
    /\ UNCHANGED <<head, tmp, state, pc, sig, cli, busy, acquired>>

----------------------------------------------------------------------------
(* The callers' loop                                                       *)

Call(t) ==
    /\ current = t /\ pc[t] = "user"
    /\ pc' = [pc EXCEPT ![t] = "loop"]
    /\ UNCHANGED <<head, tmp, state, sig, current, cli, busy, acquired>>

\* while (bh->b_lock) ...; bh->b_lock = 1
Acquire(t) ==
    /\ current = t /\ pc[t] = "loop"
    /\ ~busy /\ acquired < MaxAcquire
    /\ busy' = TRUE
    /\ acquired' = acquired + 1
    /\ pc' = [pc EXCEPT ![t] = "user"]
    /\ UNCHANGED <<head, tmp, state, sig, current, cli>>

\* The callers of interruptible_sleep_on() also stop at a signal.
Stops(t) == "interruptible" \in Kinds /\ t \in sig

\* wait_on_buffer() only waits, sleep_if_empty() gives up at a signal.
Return(t) ==
    /\ current = t /\ pc[t] = "loop"
    /\ ~busy \/ Stops(t)
    /\ pc' = [pc EXCEPT ![t] = "user"]
    /\ UNCHANGED <<head, tmp, state, sig, current, cli, busy, acquired>>

\* Lines 254-258 in one step, no interrupt can come in between.
SleepOn(t, s) ==
    /\ cli /\ current = t /\ pc[t] = "loop" /\ busy /\ ~Stops(t)
    /\ tmp' = [tmp EXCEPT ![t] = head]
    /\ head' = t
    /\ state' = [state EXCEPT ![t] = s]
    /\ pc' = [pc EXCEPT ![t] = "slept"]
    /\ current' = NoTask
    /\ UNCHANGED <<sig, cli, busy, acquired>>

\* The same with interrupts on: test, lines 254-255, line 256.
Test(t) ==
    /\ ~cli /\ current = t /\ pc[t] = "loop" /\ busy /\ ~Stops(t)
    /\ pc' = [pc EXCEPT ![t] = "tested"]
    /\ UNCHANGED <<head, tmp, state, sig, current, cli, busy, acquired>>

Link(t) ==
    /\ current = t /\ pc[t] = "tested"
    /\ tmp' = [tmp EXCEPT ![t] = head]
    /\ head' = t
    /\ pc' = [pc EXCEPT ![t] = "linked"]
    /\ UNCHANGED <<state, sig, current, cli, busy, acquired>>

SetState(t, s) ==
    /\ current = t /\ pc[t] = "linked"
    /\ state' = [state EXCEPT ![t] = s]
    /\ pc' = [pc EXCEPT ![t] = "slept"]
    /\ current' = NoTask
    /\ UNCHANGED <<head, tmp, sig, cli, busy, acquired>>

NeverOvertaken(t) == FALSE     \* a mutant: sleep_on() without lines 262-266
Overtaken(t) == head \notin {NoTask, t}

\* Lines 262-266: somebody queued up behind us, he is to run first.
Resleep(t) ==
    /\ current = t /\ pc[t] = "slept"
    /\ Overtaken(t)
    /\ state' = [state EXCEPT ![head] = "running", ![t] = "uninterruptible"]
    /\ current' = NoTask
    /\ UNCHANGED <<head, tmp, pc, sig, cli, busy, acquired>>

WakeNobody(t) == state     \* a mutant: lines 271-272 are missing
WakeNext(t) == IF tmp[t] = NoTask THEN state ELSE [state EXCEPT ![tmp[t]] = "running"]

\* Lines 269-272: take ourselves off, wake the one before us.
Unlink(t) ==
    /\ current = t /\ pc[t] = "slept"
    /\ ~Overtaken(t)
    /\ head' = tmp[t]
    /\ state' = WakeNext(t)
    /\ tmp' = [tmp EXCEPT ![t] = NoTask]     \* out of scope
    /\ pc' = [pc EXCEPT ![t] = "loop"]
    /\ UNCHANGED <<sig, current, cli, busy, acquired>>

----------------------------------------------------------------------------
(* Interrupt handlers, and the signals of other processes                  *)

\* unlock_buffer(), end_request(): release and wake_up().
Release ==
    /\ busy
    /\ busy' = FALSE
    /\ state' = IF head = NoTask THEN state
                ELSE [state EXCEPT ![head] = "running"]
    /\ UNCHANGED <<head, tmp, pc, sig, current, cli, acquired>>

Signal(t) ==
    /\ t \notin sig
    /\ sig' = sig \cup {t}
    /\ UNCHANGED <<head, tmp, state, pc, current, cli, busy, acquired>>

\* do_signal() on the way back to user mode.
DoSignal(t) ==
    /\ current = t /\ pc[t] = "user" /\ t \in sig
    /\ sig' = sig \ {t}
    /\ UNCHANGED <<head, tmp, state, pc, current, cli, busy, acquired>>

----------------------------------------------------------------------------
\* What a task does by itself once it has the processor in the kernel.
Run(t) ==
    \/ Acquire(t) \/ Return(t)
    \/ \E s \in Kinds : SleepOn(t, s) \/ SetState(t, s)
    \/ Test(t) \/ Link(t) \/ Resleep(t) \/ Unlink(t)

Next ==
    \/ Release
    \/ \E t \in Tasks : \/ Run(t) \/ Call(t) \/ Dispatch(t) \/ Preempt(t)
                        \/ Signal(t) \/ DoSignal(t)

Spec == Init /\ [][Next]_vars

\* The scheduler never passes over a runnable task for ever (its counter
\* grows), time slices end, a kernel path goes on by itself.
SchedFairness == \A t \in Tasks :
    WF_vars(Run(t)) /\ SF_vars(Dispatch(t)) /\ SF_vars(Preempt(t))

\* The device completes what it was given.
FairSpec == Spec /\ SchedFairness /\ WF_vars(Release)

\* A terminal need never send another character.
SchedSpec == Spec /\ SchedFairness

----------------------------------------------------------------------------
(* Properties                                                              *)

\* The tasks that are on the chain: line 255 is behind them, 271 is not.
Sleepers == {t \in Tasks : pc[t] \in {"linked", "slept"}}

\* q lists the sleepers from the first that came to the head of the queue.
IsChain(q, S) ==
    LET n == Cardinality(S) IN
    /\ q \in [1..n -> S]
    /\ \A i, j \in 1..n : q[i] = q[j] => i = j
    /\ \A t \in S : \E i \in 1..n : q[i] = t
    /\ head = IF n = 0 THEN NoTask ELSE q[n]
    /\ \A i \in 1..n : tmp[q[i]] = IF i = 1 THEN NoTask ELSE q[i - 1]

(* The head pointer and the stack variables of __sleep_on() always form one *)
(* chain that holds every sleeper exactly once: no sleeper is cut off by a  *)
(* pop, none is linked twice and "Warning: *P = NULL" (line 270) is never   *)
(* printed.                                                                 *)
ChainOK == \E q \in [1..Cardinality(Sleepers) -> Sleepers] : IsChain(q, Sleepers)

(* Nothing is ever wrong with the queue itself.                              *)
QueueOK == TypeOK /\ ChainOK

(* When the resource is free and there are sleepers, one of them is already *)
(* runnable: no wake-up is lost, although wake_up() only ever reaches the   *)
(* head of the queue.  make_request() counts on it for wait_for_request.    *)
WakeupKept ==
    ~busy /\ Sleepers # {} => \E t \in Sleepers : state[t] = "running"

(* The same for the queues that lock_buffer() and wait_on_buffer() use,     *)
(* which test and sleep with interrupts off.                                *)
NoLostWakeup == cli => WakeupKept

(* For those queues the chain of stack variables implements a set of        *)
(* waiters in which a wake-up is handed on from one to the next.            *)
Awake == {t \in Sleepers : state[t] = "running"}
Abstract == INSTANCE WaitQueueSpec WITH waiting <- Sleepers, awake <- Awake
Refinement ==
    /\ cli => Abstract!Init
    /\ [][cli => Abstract!Next]_(Abstract!vars)

(* When a buffer is unlocked all its waiters get out of sleep_on(), as long *)
(* as the resource is not taken again and again (fs/buffer.c:52).           *)
AllWoken == \A t \in Tasks : cli /\ pc[t] = "slept" ~> pc[t] # "slept"

(* A signal ends an interruptible sleep (the comment on __sleep_on()), even *)
(* if the awaited input never comes.                                        *)
SignalEndsSleep == \A t \in Tasks :
    (pc[t] = "slept" /\ state[t] = "interruptible" /\ t \in sig)
        ~> pc[t] # "slept"
=============================================================================
