--------------------------- MODULE WaitQueueSpec ---------------------------
(***************************************************************************)
(* What a Linux 0.12 wait queue promises its users, without the way the    *)
(* queue is stored: a set of waiters, the subset of them that has been     *)
(* made runnable, and the resource they wait for.  A wake-up need not      *)
(* reach every waiter, but whoever is woken hands the wake-up on: nobody   *)
(* may leave the set, or go back to sleep in it, without making another    *)
(* waiter runnable.  WaitQueue implements this specification with one      *)
(* pointer and a chain of stack variables.                                 *)
(***************************************************************************)
CONSTANT Tasks

VARIABLES waiting,   \* tasks inside sleep_on()
          awake,     \* those of them that are runnable
          busy       \* the resource is taken

vars == <<waiting, awake, busy>>

TypeOK == waiting \subseteq Tasks /\ awake \subseteq waiting /\ busy \in BOOLEAN

Init == waiting = {} /\ awake = {} /\ busy = FALSE

\* A task that found the resource taken starts to wait.
Enter(t) ==
    /\ busy /\ t \notin waiting
    /\ waiting' = waiting \cup {t}
    /\ UNCHANGED <<awake, busy>>

Acquire == ~busy /\ busy' = TRUE /\ UNCHANGED <<waiting, awake>>

\* The resource is released: one waiter, if there is one, becomes runnable.
Release ==
    /\ busy /\ busy' = FALSE
    /\ \/ waiting = {} /\ awake' = awake
       \/ \E u \in waiting : awake' = awake \cup {u}
    /\ UNCHANGED waiting

\* A woken waiter leaves and hands the wake-up to another one, if any.
Leave(t) ==
    /\ t \in awake
    /\ waiting' = waiting \ {t}
    /\ \/ waiting = {t} /\ awake' = {}
       \/ \E u \in waiting \ {t} : awake' = (awake \ {t}) \cup {u}
    /\ UNCHANGED busy

\* A woken waiter goes back to sleep, making another one runnable.
HandOn(t) ==
    /\ t \in awake
    /\ \E u \in waiting \ {t} : awake' = (awake \ {t}) \cup {u}
    /\ UNCHANGED <<waiting, busy>>

\* Some waiters are made runnable by something else, a signal.
Interrupted ==
    /\ \E S \in SUBSET waiting : awake' = awake \cup S
    /\ UNCHANGED <<waiting, busy>>

Next == \/ Acquire \/ Release \/ Interrupted
        \/ \E t \in Tasks : Enter(t) \/ Leave(t) \/ HandOn(t)

Spec == Init /\ [][Next]_vars

\* A free resource never leaves all its waiters asleep.
NoLostWakeup == ~busy /\ waiting # {} => awake # {}
=============================================================================
