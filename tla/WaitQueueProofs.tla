-------------------------- MODULE WaitQueueProofs --------------------------
(***************************************************************************)
(* What TLAPS proves of WaitQueue, for any number of tasks: its types, the *)
(* chain of sleepers, that no wake-up is lost under cli(), and that the    *)
(* queue implements WaitQueueSpec.                                         *)
(***************************************************************************)
EXTENDS WaitQueue, FiniteSetTheorems, TLAPS

\* Under cli() no task is ever seen half way into __sleep_on().
NoGap == cli => \A t \in Tasks : pc[t] \notin {"tested", "linked"}

----------------------------------------------------------------------------
(* Every step keeps the types of the variables.                            *)
THEOREM TypeCorrect == Spec => []TypeOK
<1>1. Init => TypeOK
  <2>1. 0 \in 0..MaxAcquire
    BY MaxAcquireAssumption
  <2> QED
    BY <2>1, ClisAssumption DEF Init, TypeOK
<1>2. TypeOK /\ [Next]_vars => TypeOK'
  <2> SUFFICES ASSUME TypeOK, [Next]_vars PROVE TypeOK'
    OBVIOUS
  <2> USE DEF TypeOK
  <2>1. CASE Release
    BY <2>1 DEF Release
  <2>2. ASSUME NEW t \in Tasks, Dispatch(t) PROVE TypeOK'
    BY <2>2 DEF Dispatch, Runnable, Signalled
  <2>3. ASSUME NEW t \in Tasks, Preempt(t) \/ Call(t) \/ Signal(t) \/ DoSignal(t)
        PROVE TypeOK'
    BY <2>3 DEF Preempt, Call, Signal, DoSignal
  <2>4. ASSUME NEW t \in Tasks, Acquire(t) PROVE TypeOK'
    BY <2>4, MaxAcquireAssumption DEF Acquire
  <2>5. ASSUME NEW t \in Tasks, Return(t) \/ Test(t) \/ Link(t) PROVE TypeOK'
    BY <2>5 DEF Return, Test, Link
  <2>6. ASSUME NEW t \in Tasks, NEW s \in Kinds, SleepOn(t, s) \/ SetState(t, s)
        PROVE TypeOK'
    BY <2>6, KindsAssumption DEF SleepOn, SetState
  <2>7. ASSUME NEW t \in Tasks, Resleep(t) PROVE TypeOK'
    BY <2>7 DEF Resleep, Overtaken
  <2>8. ASSUME NEW t \in Tasks, Unlink(t) PROVE TypeOK'
    BY <2>8 DEF Unlink, Overtaken, WakeNext
  <2>9. CASE UNCHANGED vars
    BY <2>9 DEF vars
  <2> QED
    BY <2>1, <2>2, <2>3, <2>4, <2>5, <2>6, <2>7, <2>8, <2>9 DEF Next, Run
<1> QED
  BY <1>1, <1>2, PTL DEF Spec

----------------------------------------------------------------------------
(* The chain, and what happens to it at its head                           *)

LEMMA SleepersFinite ==
    /\ IsFiniteSet(Sleepers)
    /\ Cardinality(Sleepers) \in Nat
    /\ Cardinality(Sleepers) = 0 <=> Sleepers = {}
<1>1. Sleepers \subseteq Tasks
  BY DEF Sleepers
<1>2. IsFiniteSet(Sleepers)
  BY <1>1, TasksAssumption, FS_Subset
<1> QED
  BY <1>2, FS_CardinalityType, FS_EmptySet

\* What the chain says of the head of the queue and the task behind it.
LEMMA ChainHead ==
    ASSUME ChainOK
    PROVE  /\ head = NoTask <=> Sleepers = {}
           /\ head # NoTask => head \in Sleepers
           /\ head # NoTask =>
                 \/ tmp[head] = NoTask /\ Sleepers = {head}
                 \/ tmp[head] \in Sleepers \ {head}
<1> DEFINE n == Cardinality(Sleepers)
<1>1. PICK q \in [1..n -> Sleepers] : IsChain(q, Sleepers)
  BY DEF ChainOK
<1>2. n \in Nat /\ (n = 0 <=> Sleepers = {})
  BY SleepersFinite
<1>3. CASE n = 0
  BY <1>1, <1>2, <1>3 DEF IsChain
<1>4. CASE n # 0
  <2>1. n \in 1..n /\ head = q[n] /\ head \in Sleepers
    BY <1>1, <1>2, <1>4 DEF IsChain
  <2>2. head # NoTask
    BY <2>1, NoTaskAssumption DEF Sleepers
  <2>3. CASE n = 1
    <3>1. \A t \in Sleepers : t = head
      BY <1>1, <2>1, <2>3 DEF IsChain
    <3>2. tmp[head] = NoTask
      BY <1>1, <2>1, <2>3 DEF IsChain
    <3> QED
      BY <2>1, <2>2, <3>1, <3>2
  <2>4. CASE n # 1
    <3>1. n - 1 \in 1..n /\ n - 1 # n
      BY <1>2, <1>4, <2>4
    <3>2. tmp[head] = q[n - 1]
      BY <1>1, <2>1, <2>4 DEF IsChain
    <3>3. q[n - 1] # q[n] /\ q[n - 1] \in Sleepers
      BY <1>1, <2>1, <3>1 DEF IsChain
    <3> QED
      BY <2>1, <2>2, <3>2, <3>3
  <2> QED
    BY <2>3, <2>4
<1> QED
  BY <1>3, <1>4

\* Lines 254-255 put a task at the end of the chain.
LEMMA ChainPush ==
    ASSUME TypeOK, ChainOK, NEW t \in Tasks, t \notin Sleepers,
           Sleepers' = Sleepers \cup {t},
           head' = t, tmp' = [tmp EXCEPT ![t] = head]
    PROVE  ChainOK'
<1>0. PICK n \in Nat : n = Cardinality(Sleepers)
  BY SleepersFinite
<1> DEFINE m == n + 1
           S == Sleepers \cup {t}
<1>1. PICK q \in [1..n -> Sleepers] : IsChain(q, Sleepers)
  BY <1>0 DEF ChainOK
<1>2. n \in Nat /\ Cardinality(S) = m
  BY <1>0, SleepersFinite, FS_AddElement
<1> DEFINE r == [i \in 1..m |-> IF i = m THEN t ELSE q[i]]
<1>3. r \in [1..m -> S] /\ r[m] = t /\ \A i \in 1..n : i \in 1..m /\ r[i] = q[i]
  BY <1>1, <1>2
<1>4. \A i, j \in 1..m : r[i] = r[j] => i = j
  BY <1>0, <1>1, <1>2, <1>3 DEF IsChain
<1>5. \A u \in S : \E i \in 1..m : r[i] = u
  <2> SUFFICES ASSUME NEW u \in S PROVE \E i \in 1..m : r[i] = u
    OBVIOUS
  <2>1. CASE u = t
    BY <1>2, <1>3, <2>1
  <2>2. CASE u \in Sleepers
    <3>1. PICK i \in 1..n : q[i] = u
      BY <1>0, <1>1, <2>2 DEF IsChain
    <3> QED
      BY <1>3, <3>1
  <2> QED
    BY <2>1, <2>2
<1>6. \A i \in 1..m : tmp'[r[i]] = IF i = 1 THEN NoTask ELSE r[i - 1]
  <2> SUFFICES ASSUME NEW i \in 1..m
               PROVE  tmp'[r[i]] = IF i = 1 THEN NoTask ELSE r[i - 1]
    OBVIOUS
  <2>1. CASE i = m
    <3>1. tmp'[r[i]] = head
      BY <1>3, <2>1 DEF TypeOK
    <3>2. CASE n = 0
      BY <1>0, <1>1, <2>1, <3>1, <3>2 DEF IsChain
    <3>3. CASE n # 0
      <4>1. head = q[n] /\ n \in 1..n /\ i # 1 /\ i - 1 = n
        BY <1>0, <1>1, <1>2, <2>1, <3>3 DEF IsChain
      <4> QED
        BY <1>3, <3>1, <4>1
    <3> QED
      BY <3>2, <3>3
  <2>2. CASE i # m
    <3>1. i \in 1..n /\ (i = 1 \/ i - 1 \in 1..n)
      BY <1>2, <2>2
    <3>2. q[i] # t /\ q[i] \in Tasks
      BY <1>1, <3>1 DEF Sleepers
    <3>3. tmp'[r[i]] = tmp[q[i]]
      BY <1>3, <3>1, <3>2 DEF TypeOK
    <3>4. tmp[q[i]] = IF i = 1 THEN NoTask ELSE q[i - 1]
      BY <1>0, <1>1, <3>1 DEF IsChain
    <3> QED
      BY <1>3, <3>1, <3>3, <3>4
  <2> QED
    BY <2>1, <2>2
<1>7. Cardinality(Sleepers') = m /\ Sleepers' = S
  BY <1>2
<1>8. head' = IF m = 0 THEN NoTask ELSE r[m]
  BY <1>2, <1>3
<1> HIDE DEF r, m
<1>9. IsChain(r, Sleepers)'
  BY <1>0, <1>3, <1>4, <1>5, <1>6, <1>7, <1>8 DEF IsChain
<1> QED
  BY <1>3, <1>7, <1>9 DEF ChainOK

\* Line 271 takes the last task off the chain.
LEMMA ChainPop ==
    ASSUME TypeOK, ChainOK, NEW t \in Sleepers, head \in {NoTask, t},
           Sleepers' = Sleepers \ {t},
           head' = tmp[t], tmp' = [tmp EXCEPT ![t] = NoTask]
    PROVE  ChainOK'
<1>0. PICK n \in Nat : n = Cardinality(Sleepers)
  BY SleepersFinite
<1> DEFINE m == n - 1
           S == Sleepers \ {t}
<1>1. PICK q \in [1..n -> Sleepers] : IsChain(q, Sleepers)
  BY <1>0 DEF ChainOK
<1>2. n \in Nat /\ n # 0 /\ m \in Nat /\ Cardinality(S) = m
  <2>1. IsFiniteSet(Sleepers) /\ n \in Nat /\ n # 0
    BY <1>0, SleepersFinite
  <2>2. Cardinality(S) = m
    BY <1>0, <2>1, FS_RemoveElement
  <2> QED
    BY <2>1, <2>2
<1>3. n \in 1..n /\ q[n] = t
  BY <1>0, <1>1, <1>2, NoTaskAssumption DEF IsChain, Sleepers
<1> DEFINE r == [i \in 1..m |-> q[i]]
<1>4. \A i \in 1..m : i \in 1..n /\ i # n /\ q[i] # t /\ r[i] = q[i]
  <2> SUFFICES ASSUME NEW i \in 1..m PROVE i \in 1..n /\ i # n /\ q[i] # t /\ r[i] = q[i]
    OBVIOUS
  <2>1. i \in 1..n /\ i # n
    BY <1>2
  <2> QED
    BY <1>0, <1>1, <1>3, <2>1 DEF IsChain
<1>5. r \in [1..m -> S]
  BY <1>1, <1>4
<1>6. \A i, j \in 1..m : r[i] = r[j] => i = j
  BY <1>0, <1>1, <1>4 DEF IsChain
<1>7. \A u \in S : \E i \in 1..m : r[i] = u
  <2> SUFFICES ASSUME NEW u \in S PROVE \E i \in 1..m : r[i] = u
    OBVIOUS
  <2>1. PICK i \in 1..n : q[i] = u
    BY <1>0, <1>1 DEF IsChain
  <2>2. i \in 1..m
    BY <1>2, <1>3, <2>1
  <2> QED
    BY <1>4, <2>1, <2>2
<1>8. head' = IF m = 0 THEN NoTask ELSE r[m]
  <2>1. tmp[t] = IF n = 1 THEN NoTask ELSE q[m]
    BY <1>0, <1>1, <1>3 DEF IsChain
  <2>2. m # 0 => m \in 1..m
    BY <1>2
  <2> QED
    BY <1>2, <1>4, <2>1, <2>2
<1>9. \A i \in 1..m : tmp'[r[i]] = IF i = 1 THEN NoTask ELSE r[i - 1]
  <2> SUFFICES ASSUME NEW i \in 1..m
               PROVE  tmp'[r[i]] = IF i = 1 THEN NoTask ELSE r[i - 1]
    OBVIOUS
  <2>1. q[i] \in Tasks /\ tmp'[r[i]] = tmp[q[i]]
    BY <1>1, <1>4 DEF TypeOK, Sleepers
  <2>2. tmp[q[i]] = IF i = 1 THEN NoTask ELSE q[i - 1]
    BY <1>0, <1>1, <1>4 DEF IsChain
  <2>3. i = 1 \/ i - 1 \in 1..m
    BY <1>2
  <2> QED
    BY <1>4, <2>1, <2>2, <2>3
<1>10. Cardinality(Sleepers') = m /\ Sleepers' = S
  BY <1>2
<1> HIDE DEF r, m
<1>11. IsChain(r, Sleepers)'
  BY <1>0, <1>5, <1>6, <1>7, <1>8, <1>9, <1>10 DEF IsChain
<1> QED
  BY <1>5, <1>10, <1>11 DEF ChainOK

----------------------------------------------------------------------------
(* The strengthening of ChainOK and NoLostWakeup that every step keeps     *)
IInv == TypeOK /\ NoGap /\ ChainOK /\ NoLostWakeup

LEMMA InitIInv == Init => IInv
<1> SUFFICES ASSUME Init PROVE IInv
  OBVIOUS
<1>1. TypeOK
  <2>1. 0 \in 0..MaxAcquire
    BY MaxAcquireAssumption
  <2> QED
    BY <2>1, ClisAssumption DEF Init, TypeOK
<1>2. NoGap
  BY DEF Init, NoGap, TypeOK
<1>3. Sleepers = {} /\ head = NoTask
  BY DEF Init, Sleepers
<1> DEFINE q == [i \in 1..0 |-> NoTask]
<1>4. Cardinality(Sleepers) = 0 /\ q \in [1..0 -> Sleepers]
  BY <1>3, FS_EmptySet
<1>5. ChainOK
  BY <1>3, <1>4 DEF ChainOK, IsChain
<1>6. NoLostWakeup
  BY <1>3 DEF NoLostWakeup, WakeupKept
<1> QED
  BY <1>1, <1>2, <1>5, <1>6 DEF IInv

\* A step that leaves the chain alone and makes no sleeper unrunnable.
LEMMA ChainUntouched ==
    ASSUME ChainOK, UNCHANGED <<head, tmp>>, Sleepers' = Sleepers
    PROVE  ChainOK'
BY DEF ChainOK, IsChain

LEMMA NextIInv == IInv /\ TypeOK' /\ [Next]_vars => IInv'
<1> SUFFICES ASSUME IInv, TypeOK', [Next]_vars
             PROVE  NoGap' /\ ChainOK' /\ NoLostWakeup'
  BY DEF IInv
<1> USE DEF IInv
<1>1. CASE Release
  <2>1. NoGap'
    BY <1>1, NoTaskAssumption DEF Release, NoGap, TypeOK
  <2>2. Sleepers' = Sleepers
    BY <1>1 DEF Release, Sleepers
  <2>3. ChainOK'
    BY <1>1, <2>2, ChainUntouched DEF Release
  <2>4. NoLostWakeup'
    BY <1>1, <2>2, ChainHead DEF Release, NoLostWakeup, WakeupKept, TypeOK
  <2> QED
    BY <2>1, <2>3, <2>4
<1>2. ASSUME NEW t \in Tasks, Dispatch(t)
      PROVE  NoGap' /\ ChainOK' /\ NoLostWakeup'
  <2>1. NoGap'
    BY <1>2 DEF Dispatch, Runnable, NoGap, TypeOK
  <2>2. Sleepers' = Sleepers
    BY <1>2 DEF Dispatch, Runnable, Sleepers
  <2>3. ChainOK'
    BY <1>2, <2>2, ChainUntouched DEF Dispatch, Runnable
  <2>4. \A u \in Tasks : state[u] = "running" => state'[u] = "running"
    BY <1>2 DEF Dispatch, Runnable, Signalled
  <2>5. NoLostWakeup'
    BY <1>2, <2>2, <2>4 DEF Dispatch, Runnable, NoLostWakeup, WakeupKept, Sleepers
  <2> QED
    BY <2>1, <2>3, <2>5
<1>3. ASSUME NEW t \in Tasks, \/ Preempt(t) \/ Call(t) \/ Signal(t) \/ DoSignal(t)
                              \/ Acquire(t) \/ Return(t) \/ Test(t)
      PROVE  NoGap' /\ ChainOK' /\ NoLostWakeup'
  <2> USE DEF Preempt, Call, Signal, DoSignal, Acquire, Return, Test
  <2>1. NoGap'
    BY <1>3 DEF NoGap, TypeOK
  <2>2. Sleepers' = Sleepers
    BY <1>3 DEF Sleepers, TypeOK
  <2>3. ChainOK'
    BY <1>3, <2>2, ChainUntouched
  <2>4. NoLostWakeup'
    BY <1>3, <2>2 DEF NoLostWakeup, WakeupKept
  <2> QED
    BY <2>1, <2>3, <2>4
<1>4. ASSUME NEW t \in Tasks, NEW s \in Kinds, SleepOn(t, s)
      PROVE  NoGap' /\ ChainOK' /\ NoLostWakeup'
  <2>1. NoGap'
    BY <1>4 DEF SleepOn, NoGap, TypeOK
  <2>2. t \notin Sleepers /\ Sleepers' = Sleepers \cup {t}
    BY <1>4 DEF SleepOn, Sleepers, TypeOK
  <2>3. ChainOK'
    BY <1>4, <2>2, ChainPush DEF SleepOn
  <2>4. NoLostWakeup'
    BY <1>4 DEF SleepOn, NoLostWakeup, WakeupKept
  <2> QED
    BY <2>1, <2>3, <2>4
<1>5. ASSUME NEW t \in Tasks, Link(t)
      PROVE  NoGap' /\ ChainOK' /\ NoLostWakeup'
  <2>1. ~cli
    BY <1>5 DEF Link, NoGap, TypeOK
  <2>2. NoGap'
    BY <1>5, <2>1 DEF Link, NoGap, TypeOK
  <2>3. t \notin Sleepers /\ Sleepers' = Sleepers \cup {t}
    BY <1>5 DEF Link, Sleepers, TypeOK
  <2>4. ChainOK'
    BY <1>5, <2>3, ChainPush DEF Link
  <2> QED
    BY <1>5, <2>1, <2>2, <2>4 DEF Link, NoLostWakeup
<1>6. ASSUME NEW t \in Tasks, NEW s \in Kinds, SetState(t, s)
      PROVE  NoGap' /\ ChainOK' /\ NoLostWakeup'
  <2>1. ~cli
    BY <1>6 DEF SetState, NoGap, TypeOK
  <2>2. NoGap'
    BY <1>6, <2>1 DEF SetState, NoGap, TypeOK
  <2>3. Sleepers' = Sleepers
    BY <1>6 DEF SetState, Sleepers, TypeOK
  <2>4. ChainOK'
    BY <1>6, <2>3, ChainUntouched DEF SetState
  <2> QED
    BY <1>6, <2>1, <2>2, <2>4 DEF SetState, NoLostWakeup
<1>7. ASSUME NEW t \in Tasks, Resleep(t)
      PROVE  NoGap' /\ ChainOK' /\ NoLostWakeup'
  <2>1. NoGap'
    BY <1>7 DEF Resleep, Overtaken, NoGap, TypeOK
  <2>2. Sleepers' = Sleepers
    BY <1>7 DEF Resleep, Overtaken, Sleepers
  <2>3. ChainOK'
    BY <1>7, <2>2, ChainUntouched DEF Resleep, Overtaken
  <2>4. head \in Sleepers /\ head # t /\ head \in Tasks
    BY <1>7, ChainHead DEF Resleep, Overtaken, Sleepers
  <2>5. state'[head] = "running"
    BY <1>7, <2>4 DEF Resleep, Overtaken, TypeOK
  <2>6. NoLostWakeup'
    BY <2>2, <2>4, <2>5 DEF NoLostWakeup, WakeupKept
  <2> QED
    BY <2>1, <2>3, <2>6
<1>8. ASSUME NEW t \in Tasks, Unlink(t)
      PROVE  NoGap' /\ ChainOK' /\ NoLostWakeup'
  <2>1. t \in Sleepers /\ t # NoTask /\ head = t
    BY <1>8, ChainHead, NoTaskAssumption DEF Unlink, Overtaken, WakeNext, Sleepers
  <2>2. NoGap'
    BY <1>8, <2>1 DEF Unlink, Overtaken, WakeNext, NoGap, TypeOK
  <2>3. Sleepers' = Sleepers \ {t}
    BY <1>8 DEF Unlink, Overtaken, WakeNext, Sleepers, TypeOK
  <2>4. ChainOK'
    BY <1>8, <2>1, <2>3, ChainPop DEF Unlink, Overtaken, WakeNext
  <2>5. NoLostWakeup'
    <3>1. CASE tmp[t] = NoTask
      BY <2>1, <2>3, <3>1, ChainHead, NoTaskAssumption DEF NoLostWakeup, WakeupKept, Sleepers
    <3>2. CASE tmp[t] # NoTask
      <4>1. tmp[t] \in Sleepers \ {t} /\ tmp[t] \in Tasks
        BY <2>1, <3>2, ChainHead DEF Sleepers
      <4>2. state'[tmp[t]] = "running"
        BY <1>8, <3>2, <4>1 DEF Unlink, Overtaken, WakeNext, TypeOK
      <4> QED
        BY <2>3, <4>1, <4>2 DEF NoLostWakeup, WakeupKept
    <3> QED
      BY <3>1, <3>2
  <2> QED
    BY <2>2, <2>4, <2>5
<1>9. CASE UNCHANGED vars
  <2>1. Sleepers' = Sleepers /\ NoGap' /\ NoLostWakeup' = NoLostWakeup
    BY <1>9 DEF vars, Sleepers, NoGap, TypeOK, NoLostWakeup, WakeupKept
  <2> QED
    BY <1>9, <2>1, ChainUntouched DEF vars
<1> QED
  BY <1>1, <1>2, <1>3, <1>4, <1>5, <1>6, <1>7, <1>8, <1>9 DEF Next, Run

LEMMA IInvCorrect == Spec => []IInv
BY InitIInv, NextIInv, TypeCorrect, PTL DEF Spec

(* __sleep_on()'s stack variables hold every sleeper exactly once, behind  *)
(* the head pointer, whatever the order of sleeps, wake-ups and signals.   *)
THEOREM ChainCorrect == Spec => []ChainOK
<1>1. IInv => ChainOK
  BY DEF IInv
<1> QED
  BY <1>1, IInvCorrect, PTL

(* Both together: nothing is ever wrong with the queue itself (sched.c:242-273). *)
THEOREM QueueCorrect == Spec => []QueueOK
<1>1. TypeOK /\ ChainOK => QueueOK
  BY DEF QueueOK
<1> QED
  BY <1>1, TypeCorrect, ChainCorrect, PTL

(* In a queue used under cli() a released resource never leaves all its waiters asleep,    *)
(* although wake_up() makes only the head of the queue runnable.           *)
THEOREM WakeupsKept == Spec => []NoLostWakeup
<1>1. IInv => NoLostWakeup
  BY DEF IInv
<1> QED
  BY <1>1, IInvCorrect, PTL

----------------------------------------------------------------------------
(* Refinement                                                              *)

LEMMA NextRefines == cli /\ IInv /\ TypeOK' /\ [Next]_vars => [Abstract!Next]_(Abstract!vars)
<1> SUFFICES ASSUME cli, IInv, TypeOK', [Next]_vars
             PROVE  Abstract!Next \/ UNCHANGED Abstract!vars
  OBVIOUS
<1> USE DEF IInv, Awake
<1>1. CASE Release
  <2>1. Sleepers' = Sleepers
    BY <1>1 DEF Release, Sleepers
  <2>2. CASE head = NoTask
    <3>1. Sleepers = {} /\ Awake' = Awake
      BY <1>1, <2>1, <2>2, ChainHead DEF Release
    <3> QED
      BY <1>1, <2>1, <3>1 DEF Release, Abstract!Next, Abstract!Release
  <2>3. CASE head # NoTask
    <3>1. head \in Sleepers
      BY <2>3, ChainHead
    <3>2. Awake' = Awake \cup {head}
      BY <1>1, <2>1, <2>3, <3>1 DEF Release, Sleepers, TypeOK
    <3> QED
      BY <1>1, <2>1, <3>1, <3>2 DEF Release, Abstract!Next, Abstract!Release
  <2> QED
    BY <2>2, <2>3
<1>2. ASSUME NEW t \in Tasks, Dispatch(t) PROVE Abstract!Next
  <2>1. Sleepers' = Sleepers
    BY <1>2 DEF Dispatch, Runnable, Sleepers
  <2>2. \A u \in Tasks : state[u] = "running" => state'[u] = "running"
    BY <1>2 DEF Dispatch, Runnable, Signalled
  <2>3. Awake' = Awake \cup Awake' /\ Awake' \in SUBSET Sleepers
    BY <2>1, <2>2 DEF Sleepers
  <2>4. busy' = busy
    BY <1>2 DEF Dispatch, Runnable
  <2> QED
    BY <2>1, <2>3, <2>4 DEF Abstract!Next, Abstract!Interrupted
<1>3. ASSUME NEW t \in Tasks,
             Preempt(t) \/ Call(t) \/ Signal(t) \/ DoSignal(t) \/ Return(t)
      PROVE  UNCHANGED Abstract!vars
  <2>1. Sleepers' = Sleepers
    BY <1>3 DEF Preempt, Call, Signal, DoSignal, Return, Sleepers, TypeOK
  <2>2. UNCHANGED <<state, busy>>
    BY <1>3 DEF Preempt, Call, Signal, DoSignal, Return
  <2> QED
    BY <2>1, <2>2 DEF Abstract!vars
<1>4. ASSUME NEW t \in Tasks, Acquire(t) PROVE Abstract!Next
  <2>1. Sleepers' = Sleepers
    BY <1>4 DEF Acquire, Sleepers, TypeOK
  <2>2. ~busy /\ busy' /\ busy' = TRUE /\ UNCHANGED state
    BY <1>4 DEF Acquire
  <2> QED
    BY <2>1, <2>2 DEF Abstract!Next, Abstract!Acquire
<1>5. ASSUME NEW t \in Tasks, NEW s \in Kinds, SleepOn(t, s) PROVE Abstract!Next
  <2>1. t \notin Sleepers /\ Sleepers' = Sleepers \cup {t}
    BY <1>5 DEF SleepOn, Sleepers, TypeOK
  <2>2. state' = [state EXCEPT ![t] = s] /\ s # "running"
    BY <1>5, KindsAssumption DEF SleepOn
  <2>3. Awake' = Awake
    BY <2>1, <2>2 DEF Sleepers, TypeOK
  <2>4. busy /\ UNCHANGED busy
    BY <1>5 DEF SleepOn
  <2> QED
    BY <2>1, <2>3, <2>4 DEF Abstract!Next, Abstract!Enter
<1>6. ASSUME NEW t \in Tasks, Test(t) \/ Link(t) \/ \E s \in Kinds : SetState(t, s)
      PROVE  FALSE
  BY <1>6 DEF Test, Link, SetState, NoGap, TypeOK
<1>7. ASSUME NEW t \in Tasks, Resleep(t) PROVE Abstract!Next
  <2>1. Sleepers' = Sleepers /\ t \in Sleepers /\ UNCHANGED busy
    BY <1>7 DEF Resleep, Overtaken, Sleepers
  <2>2. t \in Awake
    BY <1>7, <2>1, NoTaskAssumption DEF Resleep, Overtaken, NoGap, TypeOK, Sleepers
  <2>3. head \in Sleepers \ {t}
    BY <1>7, ChainHead DEF Resleep, Overtaken
  <2>4. Awake' = (Awake \ {t}) \cup {head}
    BY <1>7, <2>1, <2>3 DEF Resleep, Overtaken, Sleepers, TypeOK
  <2> QED
    BY <2>1, <2>2, <2>3, <2>4 DEF Abstract!Next, Abstract!HandOn
<1>8. ASSUME NEW t \in Tasks, Unlink(t) PROVE Abstract!Next
  <2>1. t \in Sleepers /\ t # NoTask /\ head = t /\ UNCHANGED busy
    BY <1>8, ChainHead, NoTaskAssumption DEF Unlink, Overtaken, WakeNext, Sleepers
  <2>2. t \in Awake
    BY <1>8, <2>1 DEF Unlink, Overtaken, WakeNext, NoGap, TypeOK
  <2>3. Sleepers' = Sleepers \ {t}
    BY <1>8 DEF Unlink, Overtaken, WakeNext, Sleepers, TypeOK
  <2>4. CASE tmp[t] = NoTask
    <3>1. Sleepers = {t}
      BY <2>1, <2>4, ChainHead, NoTaskAssumption DEF Sleepers
    <3>2. Awake' = {}
      BY <2>3, <3>1
    <3> QED
      BY <2>1, <2>2, <2>3, <3>1, <3>2 DEF Abstract!Next, Abstract!Leave
  <2>5. CASE tmp[t] # NoTask
    <3>1. tmp[t] \in Sleepers \ {t} /\ tmp[t] \in Tasks
      BY <2>1, <2>5, ChainHead DEF Sleepers
    <3>2. Awake' = (Awake \ {t}) \cup {tmp[t]}
      BY <1>8, <2>3, <2>5, <3>1 DEF Unlink, Overtaken, WakeNext, TypeOK, Sleepers
    <3> QED
      BY <2>1, <2>2, <2>3, <3>1, <3>2 DEF Abstract!Next, Abstract!Leave
  <2> QED
    BY <2>4, <2>5
<1>9. CASE UNCHANGED vars
  <2>1. Sleepers' = Sleepers /\ UNCHANGED <<state, busy>>
    BY <1>9 DEF vars, Sleepers
  <2> QED
    BY <2>1 DEF Abstract!vars
<1> QED
  BY <1>1, <1>2, <1>3, <1>4, <1>5, <1>6, <1>7, <1>8, <1>9 DEF Next, Run

(* The pointer and the stack variables implement a set of waiters that     *)
(* hands every wake-up on.                                                 *)
THEOREM Implements == Spec => Refinement
<1>1. Init => (cli => Abstract!Init)
  BY DEF Init, Abstract!Init, Sleepers, Awake
<1>2. IInv /\ TypeOK' /\ [Next]_vars => [cli => Abstract!Next]_(Abstract!vars)
  BY NextRefines
<1> QED
  BY <1>1, <1>2, IInvCorrect, TypeCorrect, PTL DEF Spec, Refinement
=============================================================================
