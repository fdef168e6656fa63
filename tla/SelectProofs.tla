---------------------------- MODULE SelectProofs ----------------------------
(***************************************************************************)
(* The queues of select() and sleep_on(), for any number of processes: what*)
(* the waiting processes remember is one chain in each queue, and, as long *)
(* as nobody selects a pipe for writing, no wake-up is lost.               *)
(*                                                                         *)
(* Whoever queues up does so in all his queues at once and is their head.  *)
(* So one order of the processes, by the time they queued up, is that of   *)
(* all the chains: rank is such an order.  A process that was woken and    *)
(* sleeps again because somebody is before it has been passed over for a   *)
(* process of a higher rank, and the highest of these runs.                *)
(***************************************************************************)
EXTENDS Select, FiniteSetTheorems, FunctionTheorems, WellFoundedInduction, SequenceTheorems, TLAPS

\* The n elements of s are the processes of S in the order of the chain from h, those
\* who came later first.
Lists(s, n, S, h, old, rank) ==
    /\ \A x \in S : \E i \in 1..n : s[i] = x
    /\ h = IF n = 0 THEN None ELSE s[1]
    /\ \A i \in 1..n : old[s[i]] = IF i = n THEN None ELSE s[i + 1]
    /\ \A i, j \in 1..n : i < j => rank[s[i]] > rank[s[j]]
Linked(S, h, old, rank) ==
    \E n \in Nat : \E s \in [1..n -> S] : Lists(s, n, S, h, old, rank)

LEMMA LinkedEmpty == ASSUME NEW old, NEW rank PROVE Linked({}, None, old, rank)
<1> DEFINE s == [i \in 1..0 |-> None]
<1>1. s \in [1..0 -> {}]  OBVIOUS
<1>2. Lists(s, 0, {}, None, old, rank)  BY DEF Lists
<1> QED  BY <1>1, <1>2 DEF Linked

LEMMA LinkedSame ==
    ASSUME NEW S, NEW h, NEW f, NEW g, NEW r, NEW t, Linked(S, h, f, r),
           \A x \in S : g[x] = f[x] /\ t[x] = r[x]
    PROVE  Linked(S, h, g, t)
<1>0. PICK n \in Nat : \E s \in [1..n -> S] : Lists(s, n, S, h, f, r)
  BY DEF Linked
<1>1. PICK s \in [1..n -> S] : Lists(s, n, S, h, f, r)  BY <1>0
<1> USE DEF Lists
<1>2. \A i \in 1..n : g[s[i]] = f[s[i]] /\ t[s[i]] = r[s[i]]  OBVIOUS
<1>3. \A i \in 1..n : g[s[i]] = IF i = n THEN None ELSE s[i + 1]  BY <1>1, <1>2
<1>4. \A i, j \in 1..n : i < j => t[s[i]] > t[s[j]]  BY <1>1, <1>2
<1> QED  BY <1>1, <1>3, <1>4 DEF Linked

\* The head, and who is behind it.
LEMMA LinkedHead ==
    ASSUME NEW S \in SUBSET Procs, NEW h, NEW f, NEW r \in [Procs -> Nat], Linked(S, h, f, r)
    PROVE  /\ h = None <=> S = {}
           /\ h # None => h \in S
           /\ \A x \in S : x # h => r[x] < r[h]
           /\ h # None /\ f[h] = None => S = {h}
           /\ h # None /\ f[h] # None => f[h] \in S \ {h}
<1>0. PICK n \in Nat : \E s \in [1..n -> S] : Lists(s, n, S, h, f, r)
  BY DEF Linked
<1>1. PICK s \in [1..n -> S] : Lists(s, n, S, h, f, r)  BY <1>0
<1> USE DEF Lists
<1>2. CASE n = 0
  <2>1. S = {} /\ h = None  BY <1>1, <1>2
  <2> QED  BY <2>1
<1>3. CASE n # 0
  <2>1. 1 \in 1..n /\ h = s[1] /\ h \in S  BY <1>1, <1>3
  <2>2. h # None  BY <2>1, SelectAssumption
  <2>3. ASSUME NEW x \in S, x # h PROVE r[x] < r[h]
    <3>1. PICK i \in 1..n : s[i] = x  BY <1>1
    <3>2. 1 < i  BY <2>1, <2>3, <3>1
    <3>3. r[s[1]] > r[s[i]]  BY <1>1, <2>1, <3>2
    <3> QED  BY <2>1, <3>1, <3>3
  <2>4. CASE n = 1
    <3>1. f[h] = None  BY <1>1, <2>1, <2>4
    <3>2. \A x \in S : x = h  BY <1>1, <2>1, <2>4
    <3> QED  BY <2>1, <2>2, <2>3, <3>1, <3>2
  <2>5. CASE n # 1
    <3>1. 2 \in 1..n  BY <1>3, <2>5
    <3>2. f[h] = s[2] /\ s[2] \in S  BY <1>1, <2>1, <2>5, <3>1
    <3>3. r[s[1]] > r[s[2]]  BY <1>1, <2>1, <3>1
    <3>4. f[h] # None  BY <3>2, SelectAssumption
    <3>5. CASE s[2] # h  BY <2>1, <2>2, <2>3, <3>2, <3>4, <3>5
    <3>6. CASE s[2] = h
      <4>1. r[h] > r[h] /\ r[h] \in Nat  BY <2>1, <3>3, <3>6
      <4> QED  BY <4>1
    <3> QED  BY <3>5, <3>6
  <2> QED  BY <2>4, <2>5
<1> QED  BY <1>2, <1>3

\* add_wait() and __sleep_on() put a process before all others.
LEMMA LinkedPush ==
    ASSUME NEW S \in SUBSET Procs, NEW h, NEW f, NEW g, NEW r, NEW t, NEW p,
           Linked(S, h, f, r), p \notin S, g[p] = h,
           \A x \in S : g[x] = f[x] /\ t[x] = r[x] /\ t[p] > t[x]
    PROVE  Linked(S \cup {p}, p, g, t)
<1>0. PICK n \in Nat : \E s \in [1..n -> S] : Lists(s, n, S, h, f, r)
  BY DEF Linked
<1>1. PICK s \in [1..n -> S] : Lists(s, n, S, h, f, r)  BY <1>0
<1> DEFINE m == n + 1
           u == [i \in 1..m |-> IF i = 1 THEN p ELSE s[i - 1]]
<1>2. u \in [1..m -> S \cup {p}] /\ u[1] = p
  <2>1. ASSUME NEW i \in 1..m, i # 1 PROVE i - 1 \in 1..n  BY <2>1
  <2> QED  BY <2>1
<1>3. \A i \in 1..n : i + 1 \in 1..m /\ u[i + 1] = s[i]  OBVIOUS
<1>4. ASSUME NEW i \in 1..m, i # 1 PROVE i - 1 \in 1..n /\ u[i] = s[i - 1]  BY <1>4
<1> HIDE DEF u
<1>5. \A x \in S \cup {p} : \E i \in 1..m : u[i] = x
  <2>1. 1 \in 1..m  OBVIOUS
  <2>2. ASSUME NEW x \in S PROVE \E i \in 1..m : u[i] = x
    <3>1. PICK i \in 1..n : s[i] = x  BY <1>1 DEF Lists
    <3> QED  BY <1>3, <3>1
  <2> QED  BY <1>2, <2>1, <2>2
<1>6. ASSUME NEW i \in 1..m PROVE g[u[i]] = IF i = m THEN None ELSE u[i + 1]
  <2>1. CASE i = 1
    <3>1. g[u[i]] = h /\ (n = 0 <=> i = m)  BY <1>2, <2>1
    <3>2. n # 0 => 1 \in 1..n /\ u[2] = s[1]  BY <1>3
    <3> QED  BY <1>1, <2>1, <3>1, <3>2 DEF Lists
  <2>2. CASE i # 1
    <3>1. i - 1 \in 1..n /\ u[i] = s[i - 1]  BY <1>4, <2>2
    <3>2. g[u[i]] = f[s[i - 1]]  BY <3>1
    <3>3. f[s[i - 1]] = IF i - 1 = n THEN None ELSE s[(i - 1) + 1]  BY <1>1, <3>1 DEF Lists
    <3>4. i - 1 # n => i \in 1..n /\ u[i + 1] = s[i]  BY <1>3, <3>1
    <3> QED  BY <3>1, <3>2, <3>3, <3>4
  <2> QED  BY <2>1, <2>2
<1>7. ASSUME NEW i \in 1..m, NEW j \in 1..m, i < j PROVE t[u[i]] > t[u[j]]
  <2>1. j - 1 \in 1..n /\ u[j] = s[j - 1]  BY <1>4, <1>7
  <2>2. CASE i = 1
    <3>1. u[i] = p /\ s[j - 1] \in S  BY <1>2, <2>1, <2>2
    <3> QED  BY <2>1, <3>1
  <2>3. CASE i # 1
    <3>1. i - 1 \in 1..n /\ u[i] = s[i - 1]  BY <1>4, <2>3
    <3>2. r[s[i - 1]] > r[s[j - 1]]  BY <1>1, <1>7, <2>1, <3>1 DEF Lists
    <3> QED  BY <2>1, <3>1, <3>2
  <2> QED  BY <2>2, <2>3
<1>8. Lists(u, m, S \cup {p}, p, g, t)
  BY <1>2, <1>5, <1>6, <1>7 DEF Lists
<1> HIDE DEF m
<1>9. m \in Nat  BY DEF m
<1> QED  BY <1>2, <1>8, <1>9 DEF Linked

\* The head leaves.
LEMMA LinkedPop ==
    ASSUME NEW S \in SUBSET Procs, NEW h \in S, NEW f, NEW r \in [Procs -> Nat],
           Linked(S, h, f, r)
    PROVE  Linked(S \ {h}, f[h], f, r)
<1>0. PICK n \in Nat : \E s \in [1..n -> S] : Lists(s, n, S, h, f, r)
  BY DEF Linked
<1>1. PICK s \in [1..n -> S] : Lists(s, n, S, h, f, r)  BY <1>0
<1>2. n # 0 /\ h = s[1] /\ 1 \in 1..n
  <2>1. n # 0  BY <1>1, SelectAssumption DEF Lists
  <2> QED  BY <1>1, <2>1 DEF Lists
<1> DEFINE m == n - 1
           u == [i \in 1..m |-> s[i + 1]]
<1>3. \A i \in 1..m : i + 1 \in 1..n /\ u[i] = s[i + 1]  OBVIOUS
<1>4. ASSUME NEW i \in 1..n, i # 1 PROVE i - 1 \in 1..m /\ u[i - 1] = s[i]
  <2>1. i - 1 \in 1..m /\ (i - 1) + 1 = i  BY <1>4
  <2> QED  BY <2>1
<1>5. \A i \in 1..n : i # 1 => s[i] # h
  <2> SUFFICES ASSUME NEW i \in 1..n, i # 1 PROVE s[i] # h  OBVIOUS
  <2>1. r[s[1]] > r[s[i]]  BY <1>1, <1>2 DEF Lists
  <2>2. r[h] \in Nat  OBVIOUS
  <2> QED  BY <1>2, <2>1, <2>2
<1>6. u \in [1..m -> S \ {h}]
  <2>1. \A i \in 1..m : i + 1 \in 1..n /\ i + 1 # 1  OBVIOUS
  <2> QED  BY <1>5, <2>1
<1> HIDE DEF u
<1>7. \A x \in S \ {h} : \E i \in 1..m : u[i] = x
  <2> SUFFICES ASSUME NEW x \in S \ {h} PROVE \E i \in 1..m : u[i] = x  OBVIOUS
  <2>1. PICK i \in 1..n : s[i] = x  BY <1>1 DEF Lists
  <2>2. i # 1  BY <1>2, <2>1
  <2> QED  BY <1>4, <2>1, <2>2
<1>8. f[h] = IF m = 0 THEN None ELSE u[1]
  <2>1. f[s[1]] = IF 1 = n THEN None ELSE s[1 + 1]  BY <1>1, <1>2 DEF Lists
  <2>2. n # 1 => 1 \in 1..m  BY <1>2
  <2> QED  BY <1>2, <1>3, <2>1, <2>2
<1>9. ASSUME NEW i \in 1..m PROVE f[u[i]] = IF i = m THEN None ELSE u[i + 1]
  <2>1. f[s[i + 1]] = IF i + 1 = n THEN None ELSE s[(i + 1) + 1]  BY <1>1, <1>3 DEF Lists
  <2>2. i # m => i + 1 \in 1..m  OBVIOUS
  <2>3. i # m => u[i + 1] = s[(i + 1) + 1]  BY <1>3, <2>2
  <2> QED  BY <1>3, <2>1, <2>3
<1>10. ASSUME NEW i \in 1..m, NEW j \in 1..m, i < j PROVE r[u[i]] > r[u[j]]
  <2>1. r[s[i + 1]] > r[s[j + 1]]  BY <1>1, <1>3, <1>10 DEF Lists
  <2> QED  BY <1>3, <2>1
<1>11. Lists(u, m, S \ {h}, f[h], f, r)
  BY <1>7, <1>8, <1>9, <1>10 DEF Lists
<1>12. m \in Nat  BY <1>2
<1> HIDE DEF m
<1> QED  BY <1>6, <1>11, <1>12 DEF Linked

----------------------------------------------------------------------------
(* What a process remembers                                                *)

Rows == [queue : Queues, old : Procs \cup {None}]
InTable(t, q) == \E i \in DOMAIN t : t[i].queue = q
OldIn(t, q) == t[CHOOSE i \in {i \in DOMAIN t : t[i].queue = q} : TRUE].old
\* It is in each queue once.
Unique(t) == \A i, j \in DOMAIN t : t[i].queue = t[j].queue => i = j

LEMMA WaitingIs == \A q : Waiting(q) = {p \in Procs : InTable(table[p], q)}
BY DEF Waiting, Entries, InTable
LEMMA WaitingWillBe == \A q : Waiting(q)' = {p \in Procs : InTable(table'[p], q)}
BY DEF Waiting, Entries, InTable
LEMMA OldIs == \A q, p : Old(q, p) = OldIn(table[p], q)
BY DEF Old, Entries, OldIn
LEMMA OldWillBe == \A q, p : Old(q, p)' = OldIn(table'[p], q)
BY DEF Old, Entries, OldIn

LEMMA OldOf ==
    ASSUME NEW t, Unique(t), NEW i \in DOMAIN t PROVE OldIn(t, t[i].queue) = t[i].old
<1> DEFINE E == {j \in DOMAIN t : t[j].queue = t[i].queue}
<1>1. E = {i}  BY DEF Unique
<1>2. (CHOOSE j \in E : TRUE) = i  BY <1>1
<1> QED  BY <1>2 DEF OldIn

\* free_wait() goes on with the next entry.
LEMMA NextEntry ==
    ASSUME NEW t \in Seq(Rows), Unique(t), t # <<>>
    PROVE  /\ Head(t) = t[1] /\ 1 \in DOMAIN t /\ t[1] \in Rows
           /\ Tail(t) \in Seq(Rows) /\ Unique(Tail(t))
           /\ \A q : InTable(Tail(t), q) <=> InTable(t, q) /\ q # t[1].queue
           /\ \A q : InTable(Tail(t), q) => OldIn(Tail(t), q) = OldIn(t, q)
<1>1. Len(t) \in Nat /\ Len(t) # 0 /\ DOMAIN t = 1..Len(t)  OBVIOUS
<1>2. Head(t) = t[1] /\ 1 \in DOMAIN t /\ t[1] \in Rows  BY <1>1
<1>3. /\ Tail(t) \in Seq(Rows) /\ DOMAIN Tail(t) = 1..Len(t) - 1
      /\ \A i \in 1..Len(t) - 1 : Tail(t)[i] = t[i + 1]
  BY <1>1
<1>4. \A i \in 1..Len(t) - 1 : i + 1 \in DOMAIN t /\ i + 1 # 1  BY <1>1
<1>5. Unique(Tail(t))
  <2> SUFFICES ASSUME NEW i \in 1..Len(t) - 1, NEW j \in 1..Len(t) - 1,
                      t[i + 1].queue = t[j + 1].queue
               PROVE  i = j
    BY <1>3 DEF Unique
  <2>1. i + 1 = j + 1  BY <1>4 DEF Unique
  <2> QED  BY <2>1
<1>6. ASSUME NEW i \in 1..Len(t) - 1
      PROVE  InTable(t, Tail(t)[i].queue) /\ Tail(t)[i].queue # t[1].queue
  BY <1>2, <1>3, <1>4 DEF InTable, Unique
<1>7. ASSUME NEW q, InTable(t, q), q # t[1].queue PROVE InTable(Tail(t), q)
  <2>1. PICK i \in DOMAIN t : t[i].queue = q  BY <1>7 DEF InTable
  <2>2. i # 1  BY <1>7, <2>1
  <2>3. i - 1 \in 1..Len(t) - 1 /\ (i - 1) + 1 = i  BY <1>1, <2>1, <2>2
  <2> QED  BY <1>3, <2>1, <2>3 DEF InTable
<1>8. ASSUME NEW q, InTable(Tail(t), q) PROVE OldIn(Tail(t), q) = OldIn(t, q)
  <2>1. PICK i \in 1..Len(t) - 1 : Tail(t)[i].queue = q  BY <1>3, <1>8 DEF InTable
  <2>2. t[i + 1].queue = q /\ t[i + 1].old = Tail(t)[i].old /\ i + 1 \in DOMAIN t
    BY <1>3, <1>4, <2>1
  <2>3. OldIn(Tail(t), q) = Tail(t)[i].old  BY <1>3, <1>5, <2>1, OldOf
  <2>4. OldIn(t, q) = t[i + 1].old  BY <2>2, OldOf
  <2> QED  BY <2>2, <2>3, <2>4
<1>9. ASSUME NEW q, InTable(Tail(t), q) PROVE InTable(t, q) /\ q # t[1].queue
  BY <1>3, <1>6, <1>9 DEF InTable
<1> QED  BY <1>2, <1>3, <1>5, <1>7, <1>8, <1>9

----------------------------------------------------------------------------
(* The inductive invariant                                                 *)

Places == [doing : {"no", "select", "read", "write", "tty"}, at : {"test", "free"},
           wants : SUBSET {"in pipe", "out pipe", "ex pipe", "in tty"},
           time : {"never", "set", "over"}, sig : BOOLEAN]

CallsOK ==
    /\ call \in [Procs -> Places]
    /\ \A p \in Procs : /\ call[p].doing \in {"no", "select"} \cup Calls[p]
                        /\ call[p].wants \in {{}} \cup Wants[p]

Types ==
    /\ CallsOK
    /\ chars \in 0..Cap /\ closed \in BOOLEAN /\ tty \in BOOLEAN
    /\ head \in [Queues -> Procs \cup {None}]
    /\ state \in [Procs -> {"run", "int", "unint"}]
    /\ table \in [Procs -> Seq(Rows)]
    /\ current \in Procs \cup {None}
    /\ current # None => state[current] = "run"

\* Only a process that has queued up remembers anything.
TablesOK ==
    \A p \in Procs :
        /\ Unique(table[p])
        /\ call[p].at = "test" => table[p] = <<>>
        /\ call[p].doing = "no" => call[p].at = "test"

Olds(q) == [p \in Procs |-> Old(q, p)]

\* A process that was woken too early sleeps until one that queued up after it goes.
Behind(p, rank) ==
    table[p] # <<>> /\ table[p][1].queue # "i_wait2" /\ state[p] = "unint" =>
        \E d \in Waiting(table[p][1].queue) : state[d] # "int" /\ rank[d] > rank[p]

InOrder(rank) ==
    /\ \A q \in Queues : Linked(Waiting(q), head[q], Olds(q), rank)
    /\ \A p \in Procs : Behind(p, rank)
Ordered == \E n \in Nat : \E rank \in [Procs -> 0..n] : InOrder(rank)

IInv == Types /\ TablesOK /\ Ordered

LEMMA InitIInv == Init => IInv
<1> SUFFICES ASSUME Init PROVE IInv  OBVIOUS
<1>1. Nowhere \in Places  BY DEF Nowhere, Places
<1>2. Types  
  <2>1. Cap \in Nat  BY SelectAssumption
  <2>2. chars \in 0..Cap  BY <2>1 DEF Init
  <2>5. closed \in BOOLEAN /\ tty \in BOOLEAN  BY Zenon DEF Init
  <2>3. call \in [Procs -> Places] /\ table \in [Procs -> Seq(Rows)]  BY <1>1 DEF Init
  <2>4. \A p \in Procs : call[p].doing = "no" /\ call[p].wants = {}  BY DEF Init, Nowhere
  <2> QED  BY <2>2, <2>3, <2>4, <2>5 DEF Init, Types, CallsOK
<1>3. TablesOK  BY DEF Init, TablesOK, Unique, Nowhere
<1>4. \A q \in Queues : Waiting(q) = {} /\ head[q] = None
  BY DEF Init, Waiting, Entries
<1> DEFINE rank == [p \in Procs |-> 0]
<1>5. \A q \in Queues : Linked(Waiting(q), head[q], Olds(q), rank)
  BY <1>4, LinkedEmpty
<1>6. \A p \in Procs : Behind(p, rank)  BY DEF Init, Behind
<1>7. rank \in [Procs -> 0..0]  OBVIOUS
<1> QED  BY <1>2, <1>3, <1>5, <1>6, <1>7 DEF IInv, Ordered, InOrder

----------------------------------------------------------------------------
(* Four kinds of steps: processes are woken, one queues up, one is passed  *)
(* over for the head of its queue, one leaves a queue                      *)

NoneToSleep(p) == \A r \in Procs \ {p} : state'[r] \in {state[r], "run"}

\* A step that changes no queue.
LEMMA WaitingSame ==
    ASSUME table' = table
    PROVE  \A q : Waiting(q)' = Waiting(q) /\ Olds(q)' = Olds(q)
BY WaitingIs, WaitingWillBe, OldIs, OldWillBe DEF Olds

LEMMA OrderWakes ==
    ASSUME Ordered, table' = table, head' = head,
           \A r \in Procs : state'[r] \in {state[r], "run"}
    PROVE  Ordered'
<1>1. PICK n \in Nat : \E rank \in [Procs -> 0..n] : InOrder(rank)  BY DEF Ordered
<1>2. PICK rank \in [Procs -> 0..n] : InOrder(rank)  BY <1>1
<1>3. \A q : Waiting(q)' = Waiting(q) /\ Olds(q)' = Olds(q)  BY WaitingSame
<1>4. \A q \in Queues : Linked(Waiting(q)', head'[q], Olds(q)', rank)
  BY <1>2, <1>3 DEF InOrder
<1>5. \A d \in Procs : state[d] # "int" => state'[d] # "int"  OBVIOUS
<1>6. \A q : Waiting(q) \subseteq Procs  BY DEF Waiting
<1>7. ASSUME NEW p \in Procs, table'[p] # <<>>, table'[p][1].queue # "i_wait2",
             state'[p] = "unint"
      PROVE  \E d \in Waiting(table[p][1].queue)' : state'[d] # "int" /\ rank[d] > rank[p]
  <2>1. state[p] = "unint"  BY <1>7
  <2>2. PICK d \in Waiting(table[p][1].queue) : state[d] # "int" /\ rank[d] > rank[p]
    BY <1>2, <1>7, <2>1 DEF InOrder, Behind
  <2> QED  BY <1>3, <1>5, <1>6, <2>2
<1>8. InOrder(rank)'  BY <1>4, <1>7 DEF InOrder, Behind
<1> QED  BY <1>8 DEF Ordered

\* Line 263-264 of sched.c, and 88-92 of select.c.
LEMMA OrderPassedOver ==
    ASSUME IInv, NEW p \in Procs, table[p] # <<>>, table' = table, head' = head,
           head[table[p][1].queue] \notin {None, p},
           state'[head[table[p][1].queue]] = "run", state'[p] = "unint", NoneToSleep(p)
    PROVE  Ordered'
<1> Types /\ TablesOK /\ Ordered  BY DEF IInv
<1>1. PICK n \in Nat : \E rank \in [Procs -> 0..n] : InOrder(rank)  BY DEF Ordered
<1>2. PICK rank \in [Procs -> 0..n] : InOrder(rank)  BY <1>1
<1>3. \A q : Waiting(q)' = Waiting(q) /\ Olds(q)' = Olds(q)  BY WaitingSame
<1>4. \A q \in Queues : Linked(Waiting(q)', head'[q], Olds(q)', rank)
  BY <1>2, <1>3 DEF InOrder
<1>5. \A d \in Procs : state[d] # "int" => state'[d] # "int"  BY DEF NoneToSleep
<1>6. \A q : Waiting(q) \subseteq Procs  BY DEF Waiting
<1>7. ASSUME NEW r \in Procs, table'[r] # <<>>, table'[r][1].queue # "i_wait2",
             state'[r] = "unint"
      PROVE  \E d \in Waiting(table[r][1].queue)' : state'[d] # "int" /\ rank[d] > rank[r]
  <2>1. CASE r # p
    <3>1. state[r] = "unint"  BY <1>7, <2>1 DEF NoneToSleep
    <3>2. PICK d \in Waiting(table[r][1].queue) : state[d] # "int" /\ rank[d] > rank[r]
      BY <1>2, <1>7, <3>1 DEF InOrder, Behind
    <3> QED  BY <1>3, <1>5, <1>6, <3>2
  <2>2. CASE r = p
    <3> DEFINE q == table[p][1].queue
    <3>1. 1 \in DOMAIN table[p] /\ q \in Queues  BY NextEntry DEF Types, TablesOK, Rows
    <3>2. p \in Waiting(q)  BY <3>1, WaitingIs DEF InTable
    <3>3. rank \in [Procs -> Nat] /\ Linked(Waiting(q), head[q], Olds(q), rank)
      BY <1>2, <3>1 DEF InOrder
    <3>4. head[q] \in Waiting(q) /\ rank[p] < rank[head[q]]
      BY <1>6, <3>2, <3>3, LinkedHead
    <3>5. head[q] \in Procs /\ rank[p] \in Nat /\ rank[head[q]] \in Nat  BY <1>6, <3>3, <3>4
    <3>6. rank[head[q]] > rank[p]  BY <3>4, <3>5
    <3> QED  BY <1>3, <2>2, <3>4, <3>6
  <2> QED  BY <2>1, <2>2
<1>8. InOrder(rank)'  BY <1>4, <1>7 DEF InOrder, Behind
<1> QED  BY <1>8 DEF Ordered

\* add_wait() at all places of t, and __sleep_on().
QueuesUp(p, t) ==
    /\ table[p] = <<>> /\ table' = [table EXCEPT ![p] = t]
    /\ t \in Seq(Rows) /\ Unique(t) /\ \A i \in DOMAIN t : t[i].old = head[t[i].queue]
    /\ head' = [q \in Queues |-> IF InTable(t, q) THEN p ELSE head[q]]
    /\ state'[p] = "int" \/ ~\E i \in DOMAIN t : t[i].queue # "i_wait2"
    /\ NoneToSleep(p)

LEMMA OrderQueuesUp ==
    ASSUME IInv, NEW p \in Procs, NEW t, QueuesUp(p, t) PROVE Ordered'
<1> Types /\ TablesOK /\ Ordered  BY DEF IInv
<1>1. PICK n \in Nat : \E rank \in [Procs -> 0..n] : InOrder(rank)  BY DEF Ordered
<1>2. PICK rank \in [Procs -> 0..n] : InOrder(rank)  BY <1>1
<1> DEFINE m == n + 1
           later == [rank EXCEPT ![p] = m]
<1>3. /\ later \in [Procs -> 0..m] /\ later[p] = m
      /\ \A r \in Procs : r # p => later[r] = rank[r] /\ m > rank[r]
  OBVIOUS
<1> HIDE DEF later
<1>4. /\ table'[p] = t
      /\ \A r \in Procs : r # p => table'[r] = table[r]
  BY DEF QueuesUp, Types
<1>5. ASSUME NEW q PROVE /\ Waiting(q) \subseteq Procs \ {p}
                         /\ Waiting(q)' = Waiting(q) \cup {r \in {p} : InTable(t, q)}
  <2>1. ~InTable(table[p], q)  BY DEF QueuesUp, InTable
  <2> QED  BY <1>4, <2>1, WaitingIs, WaitingWillBe
<1>6. ASSUME NEW q, NEW r \in Procs, r # p PROVE Olds(q)'[r] = Olds(q)[r]
  BY <1>4, <1>6, OldIs, OldWillBe DEF Olds
<1>7. ASSUME NEW q \in Queues PROVE Linked(Waiting(q)', head'[q], Olds(q)', later)
  <2>1. Linked(Waiting(q), head[q], Olds(q), rank)  BY <1>2 DEF InOrder
  <2>2. \A r \in Waiting(q) : /\ Olds(q)'[r] = Olds(q)[r] /\ later[r] = rank[r]
                              /\ later[p] > later[r]
    BY <1>3, <1>5, <1>6
  <2>3. CASE ~InTable(t, q)
    <3>1. Waiting(q)' = Waiting(q) /\ head'[q] = head[q]  BY <1>5, <2>3 DEF QueuesUp
    <3>2. Linked(Waiting(q), head[q], Olds(q)', later)  BY <2>1, <2>2, LinkedSame
    <3> QED  BY <3>1, <3>2
  <2>4. CASE InTable(t, q)
    <3>1. Waiting(q)' = Waiting(q) \cup {p} /\ head'[q] = p  BY <1>5, <2>4 DEF QueuesUp
    <3>2. PICK i \in DOMAIN t : t[i].queue = q  BY <2>4 DEF InTable
    <3>3. Olds(q)'[p] = head[q]
      <4>1. OldIn(t, q) = t[i].old  BY <3>2, OldOf DEF QueuesUp
      <4>2. t[i].old = head[q]  BY <3>2 DEF QueuesUp
      <4>3. Olds(q)'[p] = OldIn(t, q)  BY <1>4, OldWillBe DEF Olds
      <4> QED  BY <4>1, <4>2, <4>3
    <3>4. Waiting(q) \in SUBSET Procs /\ p \notin Waiting(q)  BY <1>5
    <3>5. Linked(Waiting(q) \cup {p}, p, Olds(q)', later)
      BY <2>1, <2>2, <3>3, <3>4, LinkedPush
    <3> QED  BY <3>1, <3>5
  <2> QED  BY <2>3, <2>4
<1>8. ASSUME NEW r \in Procs, table'[r] # <<>>, table'[r][1].queue # "i_wait2",
             state'[r] = "unint"
      PROVE  \E d \in Waiting(table[r][1].queue)' : state'[d] # "int" /\ later[d] > later[r]
  <2>1. r # p
    <3>1. t # <<>> => 1 \in DOMAIN t  BY DEF QueuesUp
    <3> QED  BY <1>4, <1>8, <3>1 DEF QueuesUp
  <2>2. state[r] = "unint" /\ table'[r] = table[r]  BY <1>4, <1>8, <2>1 DEF NoneToSleep, QueuesUp
  <2>3. PICK d \in Waiting(table[r][1].queue) : state[d] # "int" /\ rank[d] > rank[r]
    BY <1>2, <1>8, <2>2 DEF InOrder, Behind
  <2>4. d \in Procs \ {p}  BY <1>5
  <2>5. state'[d] # "int"  BY <2>3, <2>4 DEF NoneToSleep, QueuesUp
  <2>6. later[d] > later[r]  BY <1>3, <2>1, <2>3, <2>4
  <2>7. d \in Waiting(table[r][1].queue)'  BY <1>5, <2>2
  <2> QED  BY <2>5, <2>6, <2>7
<1>9. \A r \in Procs : Behind(r, later)'
  <2> SUFFICES ASSUME NEW r \in Procs PROVE Behind(r, later)'  OBVIOUS
  <2>1. r = p \/ table'[r] = table[r]  BY <1>4
  <2>2. state'[p] = "unint" => t = <<>> \/ t[1].queue = "i_wait2"
    <3>1. t # <<>> => 1 \in DOMAIN t  BY DEF QueuesUp
    <3> QED  BY <3>1 DEF QueuesUp
  <2>3. CASE r = p  BY <1>4, <2>2, <2>3 DEF Behind
  <2>4. CASE r # p  BY <1>4, <1>8, <2>4 DEF Behind
  <2> QED  BY <2>3, <2>4
<1>10. InOrder(later)'  BY <1>7, <1>9 DEF InOrder
<1>11. m \in Nat  OBVIOUS
<1> HIDE DEF m
<1> QED  BY <1>3, <1>10, <1>11 DEF Ordered

\* Lines 270-271 of sched.c, and 92-96 of select.c.
Leaves(p) ==
    LET e == table[p][1] IN
    /\ table[p] # <<>> /\ head[e.queue] \in {None, p}
    /\ table' = [table EXCEPT ![p] = Tail(@)]
    /\ head' = [head EXCEPT ![e.queue] = e.old]
    /\ state[p] = "run" /\ state' = Woken(state, e.old)

\* What is known of p, which leaves the queue q to o.
Left(p, q, o) ==
    /\ q \in Queues /\ p \in Waiting(q) /\ head[q] = p
    /\ Waiting(q)' = Waiting(q) \ {p}
    /\ \A k : k # q => Waiting(k)' = Waiting(k)
    /\ o = None => Waiting(q)' = {}
    /\ o # None => o \in Waiting(q)' /\ state'[o] = "run"
    /\ \A r \in Procs : state'[r] \in {state[r], "run"}
    /\ table'[p] = Tail(table[p]) /\ Unique(table'[p])
    /\ \A r \in Procs : r # p => table'[r] = table[r]
    /\ \A k : \A r \in Procs : InTable(table'[r], k) => Olds(k)'[r] = Olds(k)[r]
    /\ Olds(q)[p] = o
    /\ state'[p] = "run"

LEMMA Leaving ==
    ASSUME IInv, NEW p \in Procs, Leaves(p),
           NEW q, q = table[p][1].queue, NEW o, o = table[p][1].old
    PROVE  Left(p, q, o)
<1> Types /\ TablesOK /\ Ordered  BY DEF IInv
<1> DEFINE t == table[p]
<1>0. t[1].queue = q /\ t[1].old = o  OBVIOUS
<1>1. t \in Seq(Rows) /\ Unique(t) /\ t # <<>>  BY DEF Types, TablesOK, Leaves
<1>2. /\ 1 \in DOMAIN t /\ t[1] \in Rows
      /\ Unique(Tail(t))
      /\ \A k : InTable(Tail(t), k) <=> InTable(t, k) /\ k # q
      /\ \A k : InTable(Tail(t), k) => OldIn(Tail(t), k) = OldIn(t, k)
  BY <1>0, <1>1, NextEntry
<1>3. /\ table'[p] = Tail(t)
      /\ \A r \in Procs : r # p => table'[r] = table[r]
  BY DEF Leaves, Types
<1>4. q \in Queues /\ o \in Procs \cup {None}  BY <1>0, <1>2 DEF Rows
<1>5. InTable(t, q) /\ p \in Waiting(q)  BY <1>0, <1>2, WaitingIs DEF InTable
<1>6. \E rank \in [Procs -> Nat] : Linked(Waiting(q), head[q], Olds(q), rank)
  <2>1. PICK n \in Nat : \E rank \in [Procs -> 0..n] : InOrder(rank)  BY DEF Ordered
  <2>2. PICK rank \in [Procs -> 0..n] : InOrder(rank)  BY <2>1
  <2>3. rank \in [Procs -> Nat]  OBVIOUS
  <2> QED  BY <1>4, <2>2, <2>3 DEF InOrder
<1>7. /\ head[q] = None <=> Waiting(q) = {}
      /\ head[q] # None /\ Olds(q)[head[q]] = None => Waiting(q) = {head[q]}
      /\ head[q] # None /\ Olds(q)[head[q]] # None =>
            Olds(q)[head[q]] \in Waiting(q) \ {head[q]}
  <2>1. Waiting(q) \in SUBSET Procs  BY DEF Waiting
  <2>2. PICK rank \in [Procs -> Nat] : Linked(Waiting(q), head[q], Olds(q), rank)  BY <1>6
  <2> QED  BY <2>1, <2>2, LinkedHead
<1>8. head[q] = p  BY <1>5, <1>7 DEF Leaves
<1>9. p # None  BY SelectAssumption
<1>10. Olds(q)[p] = o
  <2>1. OldIn(t, q) = o  BY <1>0, <1>1, <1>2, OldOf
  <2> QED  BY <2>1, OldIs DEF Olds
<1>11. o = None => Waiting(q) = {p}  BY <1>7, <1>8, <1>9, <1>10
<1>12. o # None => o \in Waiting(q) \ {p}  BY <1>7, <1>8, <1>9, <1>10
<1>13. Waiting(q)' = Waiting(q) \ {p}
  BY <1>2, <1>3, WaitingIs, WaitingWillBe
<1>14. \A k : k # q => Waiting(k)' = Waiting(k)
  BY <1>2, <1>3, WaitingIs, WaitingWillBe
<1>15. \A r \in Procs : state'[r] \in {state[r], "run"}  BY DEF Leaves, Woken, Types
<1>16. o # None => state'[o] = "run"  BY <1>4 DEF Leaves, Woken, Types
<1>17. ASSUME NEW k, NEW r \in Procs, InTable(table'[r], k) PROVE Olds(k)'[r] = Olds(k)[r]
  BY <1>2, <1>3, <1>17, OldIs, OldWillBe DEF Olds
<1>18. state'[p] = "run"  BY <1>15 DEF Leaves
<1> QED
  BY <1>2, <1>3, <1>4, <1>5, <1>8, <1>10, <1>11, <1>12, <1>13, <1>14, <1>15, <1>16, <1>17, <1>18
  DEF Left

LEMMA OrderLeaves ==
    ASSUME IInv, NEW p \in Procs, Leaves(p) PROVE Ordered'
<1> Types /\ TablesOK /\ Ordered  BY DEF IInv
<1>1. PICK n \in Nat : \E rank \in [Procs -> 0..n] : InOrder(rank)  BY DEF Ordered
<1>2. PICK rank \in [Procs -> 0..n] : InOrder(rank)  BY <1>1
<1>3. rank \in [Procs -> Nat]  OBVIOUS
<1>0. PICK q, o : q = table[p][1].queue /\ o = table[p][1].old  OBVIOUS
<1>30. Left(p, q, o)  BY <1>0, Leaving
<1>4. /\ q \in Queues /\ p \in Waiting(q) /\ head[q] = p
      /\ Waiting(q)' = Waiting(q) \ {p}
      /\ \A k : k # q => Waiting(k)' = Waiting(k)
      /\ o = None => Waiting(q)' = {}
      /\ o # None => o \in Waiting(q)' /\ state'[o] = "run"
      /\ \A r \in Procs : state'[r] \in {state[r], "run"}
      /\ \A r \in Procs : r # p => table'[r] = table[r]
      /\ \A k : \A r \in Procs : InTable(table'[r], k) => Olds(k)'[r] = Olds(k)[r]
      /\ Olds(q)[p] = o /\ state'[p] = "run"
  BY <1>30 DEF Left
<1>5. \A k : /\ Waiting(k) \in SUBSET Procs
             /\ \A r \in Waiting(k)' : r \in Procs /\ InTable(table'[r], k)
  BY WaitingIs, WaitingWillBe
<1>6. ASSUME NEW k \in Queues PROVE Linked(Waiting(k)', head'[k], Olds(k)', rank)
  <2>1. Linked(Waiting(k), head[k], Olds(k), rank)  BY <1>2 DEF InOrder
  <2>2. \A r \in Waiting(k)' : Olds(k)'[r] = Olds(k)[r]  BY <1>4, <1>5
  <2>3. CASE k = q
    <3>1. head'[k] = o  BY <1>0, <1>4, <2>3 DEF Leaves, Types
    <3>2. Linked(Waiting(k) \ {p}, o, Olds(k), rank)
      BY <1>3, <1>4, <1>5, <2>1, <2>3, LinkedPop
    <3>3. Linked(Waiting(k)', o, Olds(k), rank)  BY <1>4, <2>3, <3>2
    <3>4. Linked(Waiting(k)', o, Olds(k)', rank)  BY <2>2, <3>3, LinkedSame
    <3> QED  BY <3>1, <3>4
  <2>4. CASE k # q
    <3>1. head'[k] = head[k] /\ Waiting(k)' = Waiting(k)  BY <1>0, <1>4, <2>4 DEF Leaves, Types
    <3>2. Linked(Waiting(k), head[k], Olds(k)', rank)  BY <2>1, <2>2, <3>1, LinkedSame
    <3> QED  BY <3>1, <3>2
  <2> QED  BY <2>3, <2>4
<1>7. ASSUME NEW r \in Procs, table'[r] # <<>>, table'[r][1].queue # "i_wait2",
             state'[r] = "unint"
      PROVE  \E d \in Waiting(table[r][1].queue)' : state'[d] # "int" /\ rank[d] > rank[r]
  <2>0. PICK k : k = table[r][1].queue  OBVIOUS
  <2>1. r # p /\ state[r] = "unint" /\ table'[r] = table[r]  BY <1>4, <1>7
  <2>2. PICK d \in Waiting(k) : state[d] # "int" /\ rank[d] > rank[r]
    BY <1>2, <1>7, <2>0, <2>1 DEF InOrder, Behind
  <2>3. d \in Procs /\ state'[d] # "int"  BY <1>4, <1>5, <2>2
  <2>4. CASE d \in Waiting(k)'  BY <2>0, <2>1, <2>2, <2>3, <2>4
  <2>5. CASE d \notin Waiting(k)'
    <3>1. k = q /\ d = p  BY <1>4, <2>5
    <3>2. r \in Waiting(k)
      <4>1. 1 \in DOMAIN table[r]  BY <1>7, <2>1 DEF Types
      <4> QED  BY <2>0, <4>1, WaitingIs DEF InTable
    <3>3. r \in Waiting(q)'  BY <1>4, <2>1, <3>1, <3>2
    <3>4. o # None /\ o \in Waiting(q)' /\ state'[o] = "run" /\ o # r  BY <1>4, <1>7, <3>3
    <3>5. Linked(Waiting(q)', o, Olds(q)', rank)
      BY <1>0, <1>4, <1>6 DEF Leaves, Types
    <3>6. Waiting(q)' \in SUBSET Procs  BY <1>5
    <3>7. rank[r] < rank[o]  BY <1>3, <3>3, <3>4, <3>5, <3>6, LinkedHead
    <3>8. rank[o] > rank[r]  BY <1>3, <1>7, <3>4, <3>6, <3>7
    <3> QED  BY <2>0, <2>1, <3>1, <3>4, <3>8
  <2> QED  BY <2>4, <2>5
<1>8. \A r \in Procs : Behind(r, rank)'
  <2> SUFFICES ASSUME NEW r \in Procs PROVE Behind(r, rank)'  OBVIOUS
  <2>1. r = p => state'[r] = "run"  BY <1>4
  <2>2. r # p => table'[r] = table[r]  BY <1>4
  <2> QED  BY <1>7, <2>1, <2>2 DEF Behind
<1>9. InOrder(rank)'  BY <1>6, <1>8 DEF InOrder
<1> QED  BY <1>9 DEF Ordered

----------------------------------------------------------------------------
(* Every step is of these kinds                                            *)

LEMMA WokenIs ==
    ASSUME NEW st \in [Procs -> {"run", "int", "unint"}], NEW h \in Procs \cup {None}
    PROVE  /\ Woken(st, h) \in [Procs -> {"run", "int", "unint"}]
           /\ \A r \in Procs : Woken(st, h)[r] \in {st[r], "run"}
           /\ h # None => Woken(st, h)[h] = "run"
BY DEF Woken

LEMMA CallMoves ==
    ASSUME CallsOK, NEW p \in Procs, NEW c \in Places, call' = [call EXCEPT ![p] = c],
           c.doing \in {"no", "select"} \cup Calls[p], c.wants \in {{}} \cup Wants[p]
    PROVE  /\ CallsOK' /\ call'[p] = c
           /\ \A r \in Procs : r # p => call'[r] = call[r]
BY DEF CallsOK

LEMMA Returns ==
    ASSUME CallsOK, NEW p \in Procs, Return(p)
    PROVE  /\ CallsOK' /\ call'[p] = Nowhere
           /\ \A r \in Procs : r # p => call'[r] = call[r]
<1>1. Nowhere \in Places /\ Nowhere.doing = "no" /\ Nowhere.wants = {}
  BY DEF Nowhere, Places
<1> QED  BY <1>1, CallMoves DEF Return

LEMMA GoesTo ==
    ASSUME CallsOK, NEW p \in Procs, NEW a \in {"test", "free"}, call' = [call EXCEPT ![p].at = a]
    PROVE  /\ CallsOK' /\ call'[p] = [call[p] EXCEPT !.at = a]
           /\ \A r \in Procs : r # p => call'[r] = call[r]
<1> DEFINE c == [call[p] EXCEPT !.at = a]
<1>1. c \in Places /\ c.doing = call[p].doing /\ c.wants = call[p].wants
  BY DEF CallsOK, Places
<1>2. c.doing \in {"no", "select"} \cup Calls[p] /\ c.wants \in {{}} \cup Wants[p]
  BY <1>1 DEF CallsOK
<1> QED  BY <1>1, <1>2, CallMoves

\* What has to be known of a step for the invariant.
LEMMA Kept ==
    ASSUME IInv, NEW p \in Procs, CallsOK', Ordered',
           chars' \in 0..Cap, closed' \in BOOLEAN, tty' \in BOOLEAN,
           head' \in [Queues -> Procs \cup {None}],
           state' \in [Procs -> {"run", "int", "unint"}],
           table' \in [Procs -> Seq(Rows)], Unique(table'[p]),
           \A r \in Procs : r # p => call'[r] = call[r] /\ table'[r] = table[r],
           current' \in {None, p}, current' = p => state'[p] = "run",
           call'[p].at = "test" => table'[p] = <<>>,
           call'[p].doing = "no" => call'[p].at = "test"
    PROVE  IInv'
<1>1. Types'  BY DEF IInv, Types
<1>2. TablesOK'  BY DEF IInv, TablesOK
<1> QED  BY <1>1, <1>2 DEF IInv

\* A step that wakes processes and changes no queue.
LEMMA KeptWakes ==
    ASSUME IInv, NEW p \in Procs, CallsOK', table' = table, head' = head,
           chars' \in 0..Cap, closed' \in BOOLEAN, tty' \in BOOLEAN,
           state' \in [Procs -> {"run", "int", "unint"}],
           \A r \in Procs : state'[r] \in {state[r], "run"},
           \A r \in Procs : r # p => call'[r] = call[r],
           current' \in {None, p}, current' = p => state'[p] = "run",
           call'[p].at = "test" => table[p] = <<>>,
           call'[p].doing = "no" => call'[p].at = "test"
    PROVE  IInv'
<1>1. Ordered'  BY OrderWakes DEF IInv
<1>2. /\ head' \in [Queues -> Procs \cup {None}] /\ table' \in [Procs -> Seq(Rows)]
      /\ Unique(table'[p])
  BY DEF IInv, Types, TablesOK
<1> QED  BY <1>1, <1>2, Kept

\* A step of p that is the end of its call.
LEMMA KeptReturns ==
    ASSUME IInv, NEW p \in Procs, Return(p), table[p] = <<>>, table' = table, head' = head,
           chars' \in 0..Cap, closed' \in BOOLEAN, tty' \in BOOLEAN,
           state' \in [Procs -> {"run", "int", "unint"}],
           \A r \in Procs : state'[r] \in {state[r], "run"}
    PROVE  IInv'
<1>1. CallsOK' /\ call'[p] = Nowhere /\ \A r \in Procs : r # p => call'[r] = call[r]
  BY Returns DEF IInv, Types
<1>2. current' = None /\ None # p  BY SelectAssumption DEF Return
<1>3. call'[p].doing = "no" /\ call'[p].at = "test"  BY <1>1 DEF Nowhere
<1> QED  BY <1>1, <1>2, <1>3, KeptWakes

\* A step of p that ends with its going to sleep.
LEMMA KeptSleeps ==
    ASSUME IInv, NEW p \in Procs, NEW t, QueuesUp(p, t), call[p].doing # "no",
           call' = [call EXCEPT ![p].at = "free"], current' = None,
           chars' \in 0..Cap, closed' \in BOOLEAN, tty' \in BOOLEAN,
           state' \in [Procs -> {"run", "int", "unint"}]
    PROVE  IInv'
<1>1. Ordered'  BY OrderQueuesUp
<1>2. /\ CallsOK' /\ call'[p] = [call[p] EXCEPT !.at = "free"]
      /\ \A r \in Procs : r # p => call'[r] = call[r]
  BY GoesTo DEF IInv, Types
<1>3. call'[p].at = "free" /\ call'[p].doing # "no"
  <2>1. call[p] \in Places  BY DEF IInv, Types, CallsOK
  <2>2. ASSUME NEW c \in Places
        PROVE  [c EXCEPT !.at = "free"].at = "free" /\ [c EXCEPT !.at = "free"].doing = c.doing
    BY DEF Places
  <2> QED  BY <1>2, <2>1, <2>2
<1>4. head' \in [Queues -> Procs \cup {None}]  BY DEF IInv, Types, QueuesUp
<1>5. table' \in [Procs -> Seq(Rows)] /\ Unique(table'[p])
  BY DEF IInv, Types, QueuesUp
<1>6. \A r \in Procs : r # p => table'[r] = table[r]  BY DEF IInv, Types, QueuesUp
<1>7. None # p  BY SelectAssumption
<1> QED  BY <1>1, <1>2, <1>3, <1>4, <1>5, <1>6, <1>7, Kept

\* __sleep_on() queues up at one place.
LEMMA SleepOnQueues ==
    ASSUME IInv, NEW p \in Procs, table[p] = <<>>, NEW q \in Queues, NEW st, NEW how,
           st \in [Procs -> {"run", "int", "unint"}], \A r \in Procs : st[r] \in {state[r], "run"},
           <<how, q>> \in {<<"int", q>>, <<"unint", "i_wait2">>}, SleepOn(p, q, st, how)
    PROVE  /\ QueuesUp(p, <<[queue |-> q, old |-> head[q]]>>)
           /\ state' \in [Procs -> {"run", "int", "unint"}]
<1> DEFINE t == <<[queue |-> q, old |-> head[q]]>>
<1>1. head[q] \in Procs \cup {None}  BY DEF IInv, Types
<1>2. t \in Seq(Rows) /\ DOMAIN t = {1} /\ t[1].queue = q /\ t[1].old = head[q]
  BY <1>1 DEF Rows
<1> HIDE DEF t
<1>3. Unique(t) /\ \A i \in DOMAIN t : t[i].old = head[t[i].queue]  BY <1>2 DEF Unique
<1>4. \A k : InTable(t, k) <=> k = q  BY <1>2 DEF InTable
<1>5. head' = [k \in Queues |-> IF InTable(t, k) THEN p ELSE head[k]]
  BY <1>4 DEF SleepOn, IInv, Types
<1>6. table' = [table EXCEPT ![p] = t]  BY DEF SleepOn, t
<1>7. state'[p] = how /\ NoneToSleep(p)  BY DEF SleepOn, NoneToSleep
<1>8. state'[p] = "int" \/ ~\E i \in DOMAIN t : t[i].queue # "i_wait2"  BY <1>2, <1>7
<1>9. state' \in [Procs -> {"run", "int", "unint"}]  BY DEF SleepOn
<1>10. QueuesUp(p, t)  BY <1>2, <1>3, <1>5, <1>6, <1>7, <1>8 DEF QueuesUp
<1> QED  BY <1>9, <1>10 DEF t

LEMMA KeptSleepsOn ==
    ASSUME IInv, NEW p \in Procs, table[p] = <<>>, NEW q \in Queues, NEW st, NEW how,
           st \in [Procs -> {"run", "int", "unint"}], \A r \in Procs : st[r] \in {state[r], "run"},
           <<how, q>> \in {<<"int", q>>, <<"unint", "i_wait2">>}, SleepOn(p, q, st, how),
           call[p].doing # "no", chars' \in 0..Cap, closed' \in BOOLEAN, tty' \in BOOLEAN
    PROVE  IInv'
<1>1. /\ QueuesUp(p, <<[queue |-> q, old |-> head[q]]>>)
      /\ state' \in [Procs -> {"run", "int", "unint"}]
  BY SleepOnQueues
<1>2. call' = [call EXCEPT ![p].at = "free"] /\ current' = None  BY DEF SleepOn
<1> QED  BY <1>1, <1>2, KeptSleeps

\* What add_wait() has queued up for when do_select() has looked at everything.
LEMMA TablesAre ==
    ASSUME IInv, NEW p \in Procs, NEW t \in Tables(p)
    PROVE  /\ t \in Seq(Rows) /\ Unique(t)
           /\ \A i \in DOMAIN t : t[i].old = head[t[i].queue] /\ t[i].queue # "i_wait2"
           /\ \A w \in call[p].wants : ~Ready(w) => InTable(t, Queue(w))
<1> DEFINE Q == {Queue(w) : w \in {v \in call[p].wants : ~Ready(v)}}
<1>1. PICK s \in SetToSeqs(Q) : t = [i \in DOMAIN s |-> [queue |-> s[i], old |-> head[s[i]]]]
  BY DEF Tables
<1>2. Q \subseteq {"i_wait", "proc_list"}  BY DEF Queue
<1>3. IsFiniteSet({"i_wait", "proc_list"})
  <2>1. {"i_wait", "proc_list"} = {"i_wait"} \cup {"proc_list"}  OBVIOUS
  <2>2. IsFiniteSet({"i_wait"})  BY FS_Singleton
  <2>3. IsFiniteSet({"i_wait"} \cup {"proc_list"})  BY <2>2, FS_AddElement
  <2> QED  BY <2>1, <2>3
<1>4. IsFiniteSet(Q)  BY <1>2, <1>3, FS_Subset
<1> HIDE DEF Q
<1>5. PICK n \in Nat : n = Cardinality(Q)  BY <1>4, FS_CardinalityType
<1>6. s \in [1..n -> Q] /\ \A i, j \in 1..n : i # j => s[i] # s[j]
  BY <1>1, <1>5 DEF SetToSeqs
<1>7. \A q \in Q : \E i \in 1..n : s[i] = q
  <2>1. s \in Injection(1..n, Q)  BY <1>6, Fun_IsInj
  <2>2. IsFiniteSet(1..n) /\ Cardinality(1..n) = n  BY FS_Interval
  <2>3. s \in Surjection(1..n, Q)  BY <1>4, <1>5, <2>1, <2>2, FS_Injection
  <2> QED  BY <2>3, Fun_SurjectionProperties
<1>8. \A i \in 1..n : s[i] \in Queues /\ s[i] # "i_wait2" /\ head[s[i]] \in Procs \cup {None}
  BY <1>2, <1>6 DEF Queues, IInv, Types
<1>9. t = [i \in 1..n |-> [queue |-> s[i], old |-> head[s[i]]]]  BY <1>1, <1>6
<1>10. \A i \in 1..n : t[i] \in Rows /\ t[i].queue = s[i] /\ t[i].old = head[s[i]]
  BY <1>8, <1>9 DEF Rows
<1>11. t \in Seq(Rows) /\ DOMAIN t = 1..n  BY <1>9, <1>10
<1>12. Unique(t)  BY <1>6, <1>10, <1>11 DEF Unique
<1>13. ASSUME NEW w \in call[p].wants, ~Ready(w) PROVE InTable(t, Queue(w))
  <2>1. Queue(w) \in Q  BY <1>13 DEF Q
  <2> QED  BY <1>7, <1>10, <1>11, <2>1 DEF InTable
<1> QED  BY <1>8, <1>10, <1>11, <1>12, <1>13

----------------------------------------------------------------------------
(* The actions                                                             *)

\* What a process that runs on in the loop of its call can rely on.
LEMMA InTest ==
    ASSUME IInv, NEW p \in Procs, NEW doing \in {"select", "read", "write", "tty"},
           At(p, doing, "test")
    PROVE  table[p] = <<>> /\ call[p].doing # "no" /\ state[p] = "run"
BY DEF IInv, TablesOK, At, Runs

LEMMA DevicesSame ==
    ASSUME IInv
    PROVE  /\ UNCHANGED chars => chars' \in 0..Cap
           /\ UNCHANGED closed => closed' \in BOOLEAN
           /\ UNCHANGED tty => tty' \in BOOLEAN
           /\ state \in [Procs -> {"run", "int", "unint"}]
           /\ \A q \in Queues : head[q] \in Procs \cup {None}
BY DEF IInv, Types

LEMMA KeptSelectStart ==
    ASSUME IInv, NEW p \in Procs, NEW w \in Wants[p], NEW time \in {"never", "set"},
           SelectStart(p, w, time)
    PROVE  IInv'
<1> DEFINE c == [Nowhere EXCEPT !.doing = "select", !.wants = w, !.time = time]
<1>1. w \in SUBSET {"in pipe", "out pipe", "ex pipe", "in tty"}
  <2>1. Wants[p] \subseteq SUBSET {"in pipe", "out pipe", "ex pipe", "in tty"}
    BY SelectAssumption
  <2> QED  BY <2>1
<1>2. c \in Places /\ c.doing = "select" /\ c.wants = w /\ c.at = "test"
  BY <1>1 DEF Nowhere, Places
<1>3. call' = [call EXCEPT ![p] = c]  BY DEF SelectStart
<1> HIDE DEF c
<1>4. CallsOK  BY DEF IInv, Types
<1>5. CallsOK' /\ call'[p] = c /\ \A r \in Procs : r # p => call'[r] = call[r]
  BY <1>2, <1>3, <1>4, CallMoves
<1>6. table[p] = <<>>  BY DEF IInv, TablesOK, SelectStart
<1>7. current' = None /\ None # p  BY SelectAssumption DEF SelectStart
<1>8. chars' \in 0..Cap /\ closed' \in BOOLEAN /\ tty' \in BOOLEAN
  BY DevicesSame DEF SelectStart, devices
<1>9. /\ UNCHANGED <<head, state, table>> /\ state' \in [Procs -> {"run", "int", "unint"}]
      /\ \A r \in Procs : state'[r] \in {state[r], "run"}
  BY DevicesSame DEF SelectStart
<1> QED  BY <1>2, <1>5, <1>6, <1>7, <1>8, <1>9, KeptWakes

LEMMA KeptCallStart ==
    ASSUME IInv, NEW p \in Procs, NEW k \in Calls[p], CallStart(p, k) PROVE IInv'
<1> DEFINE c == [Nowhere EXCEPT !.doing = k]
<1>1. k \in {"read", "write", "tty"}
  <2>1. Calls[p] \subseteq {"read", "write", "tty"}  BY SelectAssumption
  <2> QED  BY <2>1
<1>2. c \in Places /\ c.doing = k /\ c.wants = {} /\ c.at = "test"
  BY <1>1 DEF Nowhere, Places
<1>3. call' = [call EXCEPT ![p] = c]  BY DEF CallStart
<1> HIDE DEF c
<1>4. CallsOK  BY DEF IInv, Types
<1>5. CallsOK' /\ call'[p] = c /\ \A r \in Procs : r # p => call'[r] = call[r]
  BY <1>2, <1>3, <1>4, CallMoves
<1>6. table[p] = <<>>  BY DEF IInv, TablesOK, CallStart
<1>7. current' = None /\ None # p  BY SelectAssumption DEF CallStart
<1>8. chars' \in 0..Cap /\ closed' \in BOOLEAN /\ tty' \in BOOLEAN
  BY DevicesSame DEF CallStart, devices
<1>9. /\ UNCHANGED <<head, state, table>> /\ state' \in [Procs -> {"run", "int", "unint"}]
      /\ \A r \in Procs : state'[r] \in {state[r], "run"}
  BY DevicesSame DEF CallStart
<1> QED  BY <1>2, <1>5, <1>6, <1>7, <1>8, <1>9, KeptWakes

\* Signals and times.
LEMMA InterruptedWakes ==
    ASSUME IInv, NEW p \in Procs, Interrupted(p)
    PROVE  /\ state' \in [Procs -> {"run", "int", "unint"}]
           /\ \A r \in Procs : state'[r] \in {state[r], "run"}
BY DEF IInv, Types, Interrupted

LEMMA KeptInterrupted ==
    ASSUME IInv, NEW p \in Procs, Signal(p) \/ Expire(p) PROVE IInv'
<1>1. PICK c \in Places :
        /\ call' = [call EXCEPT ![p] = c] /\ c.doing = call[p].doing
        /\ c.at = call[p].at /\ c.wants = call[p].wants
  <2>1. call[p] \in Places  BY DEF IInv, Types, CallsOK
  <2>2. CASE Signal(p)
    <3> DEFINE c == [call[p] EXCEPT !.sig = TRUE]
    <3>1. c \in Places /\ c.doing = call[p].doing /\ c.at = call[p].at /\ c.wants = call[p].wants
      BY <2>1 DEF Places
    <3>2. call' = [call EXCEPT ![p] = c]  BY <2>2 DEF Signal
    <3> QED  BY <3>1, <3>2
  <2>3. CASE Expire(p)
    <3> DEFINE c == [call[p] EXCEPT !.time = "over"]
    <3>1. c \in Places /\ c.doing = call[p].doing /\ c.at = call[p].at /\ c.wants = call[p].wants
      BY <2>1 DEF Places
    <3>2. call' = [call EXCEPT ![p] = c]  BY <2>3 DEF Expire
    <3> QED  BY <3>1, <3>2
  <2> QED  BY <2>2, <2>3
<1>2. CallsOK' /\ call'[p] = c /\ \A r \in Procs : r # p => call'[r] = call[r]
  <2>1. CallsOK  BY DEF IInv, Types
  <2>2. c.doing \in {"no", "select"} \cup Calls[p] /\ c.wants \in {{}} \cup Wants[p]
    BY <1>1, <2>1 DEF CallsOK
  <2> QED  BY <1>1, <2>1, <2>2, CallMoves
<1>3. /\ c.at = "test" => table[p] = <<>>
      /\ c.doing = "no" => c.at = "test"
  BY <1>1 DEF IInv, TablesOK
<1>4. current' = None /\ None # p  BY SelectAssumption DEF Signal, Expire
<1>5. chars' \in 0..Cap /\ closed' \in BOOLEAN /\ tty' \in BOOLEAN
  BY DevicesSame DEF Signal, Expire, devices
<1>6. /\ state' \in [Procs -> {"run", "int", "unint"}]
      /\ \A r \in Procs : state'[r] \in {state[r], "run"}
  BY InterruptedWakes DEF Signal, Expire
<1>7. UNCHANGED <<head, table>>  BY DEF Signal, Expire
<1> QED  BY <1>2, <1>3, <1>4, <1>5, <1>6, <1>7, KeptWakes

\* Interrupts, and the other end of the pipe.
LEMMA KeptOutside ==
    ASSUME IInv, NEW p \in Procs, Key \/ Iput PROVE IInv'
<1>1. /\ UNCHANGED <<head, table, call, current>> /\ current' = None /\ None # p
      /\ chars' \in 0..Cap /\ closed' \in BOOLEAN /\ tty' \in BOOLEAN
  BY DevicesSame, SelectAssumption DEF Key, Iput
<1>2. /\ state' \in [Procs -> {"run", "int", "unint"}]
      /\ \A r \in Procs : state'[r] \in {state[r], "run"}
  <2>1. head["i_wait"] \in Procs \cup {None} /\ head["i_wait2"] \in Procs \cup {None} /\ head["proc_list"] \in Procs \cup {None}
    BY DevicesSame DEF Queues
  <2>2. PICK st : st = Woken(state, head["i_wait"])  OBVIOUS
  <2>3. st \in [Procs -> {"run", "int", "unint"}] /\ \A r \in Procs : st[r] \in {state[r], "run"}
    BY <2>1, <2>2, DevicesSame, WokenIs
  <2>4. CASE Key
    <3>1. state' = Woken(state, head["proc_list"])  BY <2>4 DEF Key
    <3> QED  BY <2>1, <3>1, DevicesSame, WokenIs
  <2>5. CASE Iput
    <3>1. state' = Woken(st, head["i_wait2"])  BY <2>2, <2>5 DEF Iput
    <3>2. \A r \in Procs : Woken(st, head["i_wait2"])[r] \in {st[r], "run"}
      BY <2>1, <2>3, WokenIs
    <3> QED  BY <2>1, <2>3, <3>1, <3>2, WokenIs
  <2> QED  BY <2>4, <2>5
<1>3. CallsOK' /\ \A r \in Procs : call'[r] = call[r]  BY <1>1 DEF IInv, Types, CallsOK
<1>4. /\ call'[p].at = "test" => table[p] = <<>>
      /\ call'[p].doing = "no" => call'[p].at = "test"
  BY <1>3 DEF IInv, TablesOK
<1> QED  BY <1>1, <1>2, <1>3, <1>4, KeptWakes

LEMMA KeptCheck ==
    ASSUME IInv, NEW p \in Procs, Check(p) PROVE IInv'
<1>1. At(p, "select", "test") /\ UNCHANGED devices  BY DEF Check
<1>2. table[p] = <<>> /\ call[p].doing # "no" /\ state[p] = "run"  BY <1>1, InTest
<1>3. chars' \in 0..Cap /\ closed' \in BOOLEAN /\ tty' \in BOOLEAN
  BY <1>1, DevicesSame DEF devices
<1>4. PICK t \in Tables(p) :
        \/ /\ head' = [q \in Queues |-> IF \E i \in DOMAIN t : t[i].queue = q THEN p ELSE head[q]]
           /\ state' = [state EXCEPT ![p] = "int"] /\ call' = [call EXCEPT ![p].at = "free"]
           /\ table' = [table EXCEPT ![p] = t] /\ current' = None
        \/ /\ state' = [r \in Procs |-> IF \E i \in DOMAIN t : t[i].old = r THEN "run" ELSE state[r]]
           /\ Return(p) /\ UNCHANGED <<head, table>>
  BY DEF Check
<1>5. CASE /\ head' = [q \in Queues |-> IF \E i \in DOMAIN t : t[i].queue = q THEN p ELSE head[q]]
           /\ state' = [state EXCEPT ![p] = "int"] /\ call' = [call EXCEPT ![p].at = "free"]
           /\ table' = [table EXCEPT ![p] = t] /\ current' = None
  <2>1. state' \in [Procs -> {"run", "int", "unint"}] /\ state'[p] = "int" /\ NoneToSleep(p)
    BY <1>5, DevicesSame DEF NoneToSleep
  <2>2. t \in Seq(Rows) /\ Unique(t) /\ \A i \in DOMAIN t : t[i].old = head[t[i].queue]
    BY TablesAre
  <2>3. QueuesUp(p, t)  BY <1>2, <1>5, <2>1, <2>2 DEF QueuesUp, InTable
  <2> QED  BY <1>2, <1>3, <1>5, <2>1, <2>3, KeptSleeps
<1>6. CASE /\ state' = [r \in Procs |-> IF \E i \in DOMAIN t : t[i].old = r THEN "run" ELSE state[r]]
           /\ Return(p) /\ UNCHANGED <<head, table>>
  <2>1. /\ state' \in [Procs -> {"run", "int", "unint"}]
        /\ \A r \in Procs : state'[r] \in {state[r], "run"}
    BY <1>6, DevicesSame
  <2> QED  BY <1>2, <1>3, <1>6, <2>1, KeptReturns
<1> QED  BY <1>4, <1>5, <1>6

LEMMA KeptFreeWait ==
    ASSUME IInv, NEW p \in Procs, FreeWait(p) PROVE IInv'
<1>1. state[p] = "run" /\ current \in {None, p} /\ call[p].at = "free" /\ UNCHANGED devices
  BY DEF FreeWait, Runs
<1>2. chars' \in 0..Cap /\ closed' \in BOOLEAN /\ tty' \in BOOLEAN
  BY <1>1, DevicesSame DEF devices
<1>3. p # None /\ CallsOK /\ call[p].doing # "no"
  BY <1>1, SelectAssumption DEF IInv, Types, TablesOK
<1>4. CASE table[p] = <<>>
  <2>1. call' = [call EXCEPT ![p].at = "test"] /\ current' = p /\ UNCHANGED <<head, state, table>>
    BY <1>4 DEF FreeWait
  <2>2. /\ CallsOK' /\ call'[p] = [call[p] EXCEPT !.at = "test"]
        /\ \A r \in Procs : r # p => call'[r] = call[r]
    BY <1>3, <2>1, GoesTo
  <2>3. call'[p].at = "test"
    <3>1. call[p] \in Places  BY <1>3 DEF CallsOK
    <3> QED  BY <2>2, <3>1 DEF Places
  <2>4. /\ state' \in [Procs -> {"run", "int", "unint"}]
        /\ \A r \in Procs : state'[r] \in {state[r], "run"}
    BY <2>1, DevicesSame
  <2> QED  BY <1>1, <1>2, <1>4, <2>1, <2>2, <2>3, <2>4, KeptWakes
<1>5. CASE table[p] # <<>>
  <2>0. PICK e : e = table[p][1]  OBVIOUS
  <2>1. /\ Head(table[p]) = e /\ e \in Rows /\ e.queue \in Queues /\ e.old \in Procs \cup {None}
        /\ Tail(table[p]) \in Seq(Rows) /\ Unique(Tail(table[p]))
    BY <1>5, <2>0, NextEntry DEF IInv, Types, TablesOK, Rows
  <2>2. head[e.queue] \in Procs \cup {None}  BY <2>1, DevicesSame
  <2>3. UNCHANGED call  BY <1>5, <2>1 DEF FreeWait
  <2>4. CallsOK' /\ \A r \in Procs : call'[r] = call[r]  BY <1>3, <2>3 DEF CallsOK
  <2>5. call'[p].at # "test" /\ call'[p].doing # "no"  BY <1>1, <1>3, <2>4
  <2>6. CASE head[e.queue] \notin {None, p}
    <3>1. /\ state' = [Woken(state, head[e.queue]) EXCEPT ![p] = "unint"]
          /\ current' = None /\ UNCHANGED <<head, table>>
      BY <1>5, <2>1, <2>6 DEF FreeWait
    <3>2. PICK st : st = Woken(state, head[e.queue])  OBVIOUS
    <3>3. /\ st \in [Procs -> {"run", "int", "unint"}]
          /\ \A r \in Procs : st[r] \in {state[r], "run"}
          /\ st[head[e.queue]] = "run"
      BY <2>2, <2>6, <3>2, DevicesSame, WokenIs
    <3>4. /\ state' \in [Procs -> {"run", "int", "unint"}] /\ state'[p] = "unint"
          /\ state'[head[e.queue]] = "run" /\ NoneToSleep(p)
      BY <2>2, <2>6, <3>1, <3>2, <3>3 DEF NoneToSleep
    <3>5. Ordered'  BY <1>5, <2>0, <2>6, <3>1, <3>4, OrderPassedOver
    <3>6. /\ head' \in [Queues -> Procs \cup {None}] /\ table' \in [Procs -> Seq(Rows)]
          /\ Unique(table'[p])
      BY <3>1 DEF IInv, Types, TablesOK
    <3> QED  BY <1>2, <1>3, <2>4, <2>5, <3>1, <3>4, <3>5, <3>6, Kept
  <2>7. CASE head[e.queue] \in {None, p}
    <3>1. /\ head' = [head EXCEPT ![e.queue] = e.old] /\ state' = Woken(state, e.old)
          /\ table' = [table EXCEPT ![p] = Tail(@)] /\ current' = p
      BY <1>5, <2>1, <2>7 DEF FreeWait
    <3>2. Leaves(p)  BY <1>1, <1>5, <2>0, <2>7, <3>1 DEF Leaves
    <3>3. Ordered'  BY <3>2, OrderLeaves
    <3>4. /\ state' \in [Procs -> {"run", "int", "unint"}]
          /\ \A r \in Procs : state'[r] \in {state[r], "run"}
      BY <2>1, <3>1, DevicesSame, WokenIs
    <3>5. state'[p] = "run"  BY <1>1, <3>4
    <3>6. /\ head' \in [Queues -> Procs \cup {None}] /\ table' \in [Procs -> Seq(Rows)]
          /\ table'[p] = Tail(table[p]) /\ \A r \in Procs : r # p => table'[r] = table[r]
      BY <2>1, <3>1 DEF IInv, Types
    <3> QED  BY <1>2, <2>1, <2>4, <2>5, <3>1, <3>3, <3>4, <3>5, <3>6, Kept
  <2> QED  BY <2>6, <2>7
<1> QED  BY <1>4, <1>5

LEMMA KeptReadPipe ==
    ASSUME IInv, NEW p \in Procs, ReadPipe(p) PROVE IInv'
<1>1. At(p, "read", "test") /\ UNCHANGED <<closed, tty>>  BY DEF ReadPipe
<1>2. table[p] = <<>> /\ call[p].doing # "no"  BY <1>1, InTest
<1>3. closed' \in BOOLEAN /\ tty' \in BOOLEAN  BY <1>1, DevicesSame
<1>4. chars' \in 0..Cap
  <2>1. Cap \in Nat  BY SelectAssumption
  <2>2. chars' = IF chars > 0 THEN chars - 1 ELSE chars  BY DEF ReadPipe
  <2> QED  BY <2>1, <2>2 DEF IInv, Types
<1>5. PICK st : st = Woken(state, head["i_wait2"])  OBVIOUS
<1>6. st \in [Procs -> {"run", "int", "unint"}] /\ \A r \in Procs : st[r] \in {state[r], "run"}
  BY <1>5, DevicesSame, WokenIs DEF Queues
<1>7. CASE state' = st /\ Return(p) /\ UNCHANGED <<head, table>>
  BY <1>2, <1>3, <1>4, <1>6, <1>7, KeptReturns
<1>8. CASE SleepOn(p, "i_wait", st, "int")
  <2>1. "i_wait" \in Queues  BY DEF Queues
  <2> QED  BY <1>2, <1>3, <1>4, <1>6, <1>8, <2>1, KeptSleepsOn
<1> QED  BY <1>5, <1>7, <1>8 DEF ReadPipe

LEMMA KeptWritePipe ==
    ASSUME IInv, NEW p \in Procs, WritePipe(p) PROVE IInv'
<1>1. At(p, "write", "test") /\ UNCHANGED <<closed, tty>>  BY DEF WritePipe
<1>2. table[p] = <<>> /\ call[p].doing # "no"  BY <1>1, InTest
<1>3. closed' \in BOOLEAN /\ tty' \in BOOLEAN  BY <1>1, DevicesSame
<1>4. chars' \in 0..Cap
  <2>1. Cap \in Nat  BY SelectAssumption
  <2>2. chars' = IF chars < Cap THEN chars + 1 ELSE chars  BY DEF WritePipe
  <2> QED  BY <2>1, <2>2 DEF IInv, Types
<1>5. PICK st : st = Woken(state, head["i_wait"])  OBVIOUS
<1>6. st \in [Procs -> {"run", "int", "unint"}] /\ \A r \in Procs : st[r] \in {state[r], "run"}
  BY <1>5, DevicesSame, WokenIs DEF Queues
<1>7. CASE state' = st /\ Return(p) /\ UNCHANGED <<head, table>>
  BY <1>2, <1>3, <1>4, <1>6, <1>7, KeptReturns
<1>8. CASE SleepOn(p, "i_wait2", st, "unint")
  <2>1. "i_wait2" \in Queues  BY DEF Queues
  <2> QED  BY <1>2, <1>3, <1>4, <1>6, <1>8, <2>1, KeptSleepsOn
<1> QED  BY <1>5, <1>7, <1>8 DEF WritePipe

LEMMA KeptTtyRead ==
    ASSUME IInv, NEW p \in Procs, TtyRead(p) PROVE IInv'
<1>1. At(p, "tty", "test") /\ UNCHANGED <<chars, closed>>  BY DEF TtyRead
<1>2. table[p] = <<>> /\ call[p].doing # "no"  BY <1>1, InTest
<1>3. chars' \in 0..Cap /\ closed' \in BOOLEAN  BY <1>1, DevicesSame
<1>4. tty' \in BOOLEAN
  <2>1. tty' = FALSE \/ tty' = tty  BY DEF TtyRead
  <2>2. tty \in BOOLEAN  BY DEF IInv, Types
  <2> QED  BY <2>1, <2>2
<1>5. state \in [Procs -> {"run", "int", "unint"}] /\ \A r \in Procs : state[r] \in {state[r], "run"}
  BY DevicesSame
<1>6. CASE Return(p) /\ UNCHANGED <<head, state, table>>
  BY <1>2, <1>3, <1>4, <1>5, <1>6, KeptReturns
<1>7. CASE SleepOn(p, "proc_list", state, "int")
  <2>1. "proc_list" \in Queues  BY DEF Queues
  <2> QED  BY <1>2, <1>3, <1>4, <1>5, <1>7, <2>1, KeptSleepsOn
<1> QED  BY <1>6, <1>7 DEF TtyRead

LEMMA NextIInv == IInv /\ [Next]_vars => IInv'
<1> SUFFICES ASSUME IInv, [Next]_vars PROVE IInv'  OBVIOUS
<1>1. CASE UNCHANGED vars
  <2>1. UNCHANGED <<chars, closed, tty, head, state, call, table, current>>
    BY <1>1 DEF vars, devices
  <2>2. Ordered'
    <3>1. \A r \in Procs : state'[r] \in {state[r], "run"}  BY <2>1
    <3> QED  BY <2>1, <3>1, OrderWakes DEF IInv
  <2>3. Types'  BY <2>1 DEF IInv, Types, CallsOK
  <2>4. TablesOK'  BY <2>1 DEF IInv, TablesOK
  <2> QED  BY <2>2, <2>3, <2>4 DEF IInv
<1>2. CASE Key \/ Iput
  <2>1. CASE Procs = {}
    <3>1. Types'  BY <1>2, <2>1, DevicesSame DEF IInv, Types, CallsOK, Key, Iput, Woken
    <3>2. TablesOK'  BY <2>1 DEF TablesOK
    <3>3. Ordered'
      <4>1. table' = table /\ head' = head  BY <1>2 DEF Key, Iput
      <4> QED  BY <2>1, <4>1, OrderWakes DEF IInv
    <3> QED  BY <3>1, <3>2, <3>3 DEF IInv
  <2>2. CASE Procs # {}  BY <1>2, <2>2, KeptOutside
  <2> QED  BY <2>1, <2>2
<1>3. ASSUME NEW p \in Procs, Step(p) PROVE IInv'
  BY <1>3, KeptCheck, KeptFreeWait, KeptReadPipe, KeptWritePipe, KeptTtyRead DEF Step
<1>4. ASSUME NEW p \in Procs, Signal(p) \/ Expire(p) PROVE IInv'  BY <1>4, KeptInterrupted
<1>5. ASSUME NEW p \in Procs, NEW w \in Wants[p], SelectStart(p, w, "never") \/ SelectStart(p, w, "set")
      PROVE  IInv'
  BY <1>5, KeptSelectStart
<1>6. ASSUME NEW p \in Procs, NEW c \in Calls[p], CallStart(p, c) PROVE IInv'
  BY <1>6, KeptCallStart
<1> QED  BY <1>1, <1>2, <1>3, <1>4, <1>5, <1>6 DEF Next

\* The chain of ranks is the one TLC looks for.
LEMMA InOrderChain == ASSUME IInv PROVE ChainOK
<1> SUFFICES ASSUME NEW q \in Queues
             PROVE  \E s \in SetToSeqs(Waiting(q)) :
                       /\ head[q] = (IF s = <<>> THEN None ELSE s[1])
                       /\ \A i \in DOMAIN s : Old(q, s[i]) = (IF i = Len(s) THEN None ELSE s[i + 1])
  BY DEF ChainOK
<1>1. PICK n \in Nat : \E rank \in [Procs -> 0..n] : InOrder(rank)  BY DEF IInv, Ordered
<1>2. PICK rank \in [Procs -> 0..n] : InOrder(rank)  BY <1>1
<1>3. PICK S \in SUBSET Procs : S = Waiting(q)  BY DEF Waiting
<1>4. Linked(S, head[q], Olds(q), rank)  BY <1>2, <1>3 DEF InOrder
<1>5. PICK m \in Nat : \E s \in [1..m -> S] : Lists(s, m, S, head[q], Olds(q), rank)
  BY <1>4 DEF Linked
<1>6. PICK s \in [1..m -> S] : Lists(s, m, S, head[q], Olds(q), rank)  BY <1>5
<1>7. \A i, j \in 1..m : i # j => s[i] # s[j]
  <2> SUFFICES ASSUME NEW i \in 1..m, NEW j \in 1..m, i < j PROVE s[i] # s[j]  OBVIOUS
  <2>1. rank[s[i]] > rank[s[j]]  BY <1>6 DEF Lists
  <2>2. rank[s[i]] \in Nat  OBVIOUS
  <2> QED  BY <2>1, <2>2
<1>8. Cardinality(S) = m
  <2>1. s \in Injection(1..m, S)  BY <1>7, Fun_IsInj
  <2>2. s \in Surjection(1..m, S)  BY <1>6, Fun_IsSurj DEF Lists
  <2>3. IsFiniteSet(S)  BY SelectAssumption, FS_Subset
  <2>4. IsFiniteSet(1..m) /\ Cardinality(1..m) = m  BY FS_Interval
  <2> QED  BY <2>1, <2>2, <2>3, <2>4, FS_Injection
<1>9. s \in SetToSeqs(S)  BY <1>7, <1>8 DEF SetToSeqs
<1>10. Len(s) = m /\ DOMAIN s = 1..m /\ (s = <<>> <=> m = 0)
  <2>1. s \in Seq(S)  OBVIOUS
  <2> QED  BY <2>1
<1>11. head[q] = (IF s = <<>> THEN None ELSE s[1])  BY <1>6, <1>10 DEF Lists
<1>12. \A i \in DOMAIN s : Old(q, s[i]) = (IF i = Len(s) THEN None ELSE s[i + 1])
  <2>1. \A i \in 1..m : Olds(q)[s[i]] = Old(q, s[i])  BY DEF Olds
  <2> QED  BY <1>6, <1>10, <2>1 DEF Lists
<1> QED  BY <1>3, <1>9, <1>11, <1>12

LEMMA TypesGiveTypeOK == Types => TypeOK
<1> SUFFICES ASSUME Types PROVE TypeOK  OBVIOUS
<1>1. {closed, tty} \subseteq BOOLEAN  BY DEF Types
<1>2. ASSUME NEW p \in Procs
      PROVE  /\ call[p].doing \in {"no", "select"} \cup Calls[p] /\ call[p].at \in {"test", "free"}
             /\ call[p].wants \in {{}} \cup Wants[p]
             /\ call[p].time \in {"never", "set", "over"} /\ call[p].sig \in BOOLEAN
  <2>1. call[p] \in Places  BY DEF Types, CallsOK
  <2>2. call[p].sig \in BOOLEAN  BY <2>1, Zenon DEF Places
  <2>3. call[p].at \in {"test", "free"} /\ call[p].time \in {"never", "set", "over"}
    BY <2>1 DEF Places
  <2> QED  BY <2>2, <2>3 DEF Types, CallsOK
<1>3. \A p \in Procs : table[p] \in Seq([queue : Queues, old : Procs \cup {None}])
  BY DEF Types, Rows
<1> QED  BY <1>1, <1>2, <1>3 DEF Types, TypeOK

\* The variables have their types, and what the sleepers of each queue remember is one
\* chain from its head to its end, however many queues each of them is in and in whatever
\* order they are woken (select.c:57-102, sched.c:242-273).  Holds whatever is in Risks.
THEOREM QueuesIntact == Spec => []QueuesOK
<1>1. IInv => QueuesOK
  BY InOrderChain, TypesGiveTypeOK DEF IInv, QueuesOK
<1> QED  BY <1>1, InitIInv, NextIInv, PTL DEF Spec

----------------------------------------------------------------------------
(* Wake-ups                                                                *)

Writer(p) == call[p].doing = "write"
\* Where p waits for w.
Place(p, w) == IF Writer(p) THEN "i_wait2" ELSE Queue(w)
\* Everybody in a queue of readers was put there to be woken by a signal, too, so he who
\* is not has been woken before.
Awake(q, d) == state[d] = "run" \/ (state[d] = "unint" /\ q # "i_wait2")
AwakeIn(q) == \E d \in Waiting(q) : Awake(q, d)

NoOut == "out" \notin Risks
WantsOK == \A p \in Procs : call[p].doing = "select" => "out pipe" \notin call[p].wants
\* Writers wait in a queue of their own.
UsersOK == \A p \in Procs : \A q : p \in Waiting(q) => (q = "i_wait2" <=> Writer(p))
\* Who has not been woken is still in all his queues.
Full == \A p \in Procs : table[p] # <<>> /\ state[p] = "int" =>
            \A w \in Awaits(p) : p \in Waiting(Place(p, w))
\* Where somebody waits for what is there, somebody in that queue has been woken.
Passed == \A p \in Procs : \A w \in Awaits(p) :
              Ready(w) /\ p \in Waiting(Place(p, w)) => AwakeIn(Place(p, w))
WInv == WantsOK /\ UsersOK /\ Full /\ Passed

LEMMA AwaitsIs ==
    ASSUME IInv, WInv, NEW p \in Procs, NEW w \in Awaits(p)
    PROVE  /\ w \in {"in pipe", "out pipe", "ex pipe", "in tty"}
           /\ w = "out pipe" <=> Writer(p)
           /\ Place(p, w) \in Queues
<1>1. CASE call[p].doing = "select"
  <2>1. call[p].wants \subseteq {"in pipe", "out pipe", "ex pipe", "in tty"}
    BY DEF IInv, Types, CallsOK, Places
  <2>2. w \in call[p].wants  BY <1>1 DEF Awaits
  <2>3. w # "out pipe"  BY <1>1, <2>2 DEF WInv, WantsOK
  <2> QED  BY <1>1, <2>1, <2>2, <2>3 DEF Writer, Place, Queue, Queues
<1>2. CASE call[p].doing # "select"
  BY <1>2 DEF Awaits, Writer, Place, Queue, Queues
<1> QED  BY <1>1, <1>2

LEMMA InitWInv == Init => WInv
<1> SUFFICES ASSUME Init PROVE WInv  OBVIOUS
<1>1. \A q : Waiting(q) = {}  BY DEF Init, Waiting, Entries
<1>2. \A p \in Procs : call[p].doing = "no" /\ table[p] = <<>>  BY DEF Init, Nowhere
<1> QED  BY <1>1, <1>2 DEF WInv, WantsOK, UsersOK, Full, Passed

\* Who waits as before, and who does not wait for what is there.
Same(r) == /\ Awaits(r)' = Awaits(r) /\ (Writer(r)' <=> Writer(r))
           /\ \A q : r \in Waiting(q)' => r \in Waiting(q)
Idle(r) == \A w \in Awaits(r)' : Ready(w)' => r \notin Waiting(Place(r, w))'
\* The one who has been woken stays, or has woken the next.
StillAwake == \A q \in Queues : AwakeIn(q) => Waiting(q)' = {} \/ AwakeIn(q)'
\* What gets ready wakes somebody.
Announced(r) == \A w \in Awaits(r) : \A q \in Queues :
                    Ready(w)' /\ ~Ready(w) /\ q = Place(r, w) /\ r \in Waiting(q) => AwakeIn(q)'

LEMMA PassedKept ==
    ASSUME IInv, WInv, StillAwake, \A r \in Procs : Idle(r) \/ (Same(r) /\ Announced(r))
    PROVE  Passed'
<1> SUFFICES ASSUME NEW r \in Procs, NEW w \in Awaits(r)', Ready(w)',
                    r \in Waiting(Place(r, w))'
             PROVE  AwakeIn(Place(r, w))'
  BY DEF Passed
<1>1. Same(r) /\ Announced(r)  BY DEF Idle
<1>2. w \in Awaits(r)  BY <1>1 DEF Same
<1>3. PICK q \in Queues : q = Place(r, w)  BY <1>2, AwaitsIs
<1>4. Place(r, w)' = q  BY <1>1, <1>3 DEF Same, Place
<1>5. r \in Waiting(q)' /\ r \in Waiting(q)  BY <1>1, <1>4 DEF Same
<1>6. CASE Ready(w)
  <2>1. AwakeIn(q)  BY <1>2, <1>3, <1>5, <1>6 DEF WInv, Passed
  <2>2. Waiting(q)' # {}  BY <1>5
  <2> QED  BY <1>4, <2>1, <2>2 DEF StillAwake
<1>7. CASE ~Ready(w)
  <2>1. AwakeIn(q)'  BY <1>1, <1>2, <1>3, <1>5, <1>7 DEF Announced
  <2> QED  BY <1>4, <2>1
<1> QED  BY <1>6, <1>7

\* The head of a queue is in it.
LEMMA HeadWaits ==
    ASSUME IInv, NEW q \in Queues
    PROVE  /\ head[q] = None <=> Waiting(q) = {}
           /\ head[q] # None => head[q] \in Waiting(q) /\ head[q] \in Procs
<1>1. PICK n \in Nat : \E rank \in [Procs -> 0..n] : InOrder(rank)  BY DEF IInv, Ordered
<1>2. PICK rank \in [Procs -> 0..n] : InOrder(rank)  BY <1>1
<1>3. rank \in [Procs -> Nat]  OBVIOUS
<1>4. Waiting(q) \in SUBSET Procs  BY DEF Waiting
<1>5. Linked(Waiting(q), head[q], Olds(q), rank)  BY <1>2 DEF InOrder
<1> QED  BY <1>3, <1>4, <1>5, LinkedHead

\* Every interrupt and call that makes something ready wakes the head of its queue.
Woke(q) == head[q] = None \/ state'[head[q]] = "run"
Opens ==
    /\ chars' > 0 /\ ~(chars > 0) => Woke("i_wait")
    /\ closed' /\ ~closed => Woke("i_wait")
    /\ tty' /\ ~tty => Woke("proc_list")
    /\ chars' < Cap /\ ~(chars < Cap) => Woke("i_wait2")

LEMMA OpensAnnounces ==
    ASSUME IInv, WInv, Opens, \A q \in Queues : Waiting(q) \subseteq Waiting(q)', NEW r \in Procs
    PROVE  Announced(r)
<1> SUFFICES ASSUME NEW w \in Awaits(r), NEW q \in Queues,
                    Ready(w)', ~Ready(w), q = Place(r, w), r \in Waiting(q)
             PROVE  AwakeIn(q)'
  BY DEF Announced
<1>1. q = Place(r, w)  OBVIOUS
<1>2. Woke(q)
  <2>1. CASE w = "in pipe"
    <3>1. q = "i_wait"  BY <1>1, <2>1, AwaitsIs DEF Place, Queue
    <3>2. chars' > 0 /\ ~(chars > 0)  BY <2>1 DEF Ready
    <3> QED  BY <3>1, <3>2 DEF Opens
  <2>2. CASE w = "ex pipe"
    <3>1. q = "i_wait"  BY <1>1, <2>2, AwaitsIs DEF Place, Queue
    <3>2. closed' /\ ~closed  BY <2>2 DEF Ready
    <3> QED  BY <3>1, <3>2 DEF Opens
  <2>3. CASE w = "in tty"
    <3>1. q = "proc_list"  BY <1>1, <2>3, AwaitsIs DEF Place, Queue
    <3>2. tty' /\ ~tty  BY <2>3 DEF Ready
    <3> QED  BY <3>1, <3>2 DEF Opens
  <2>4. CASE w = "out pipe"
    <3>1. q = "i_wait2"  BY <1>1, <2>4, AwaitsIs DEF Place
    <3>2. chars' < Cap /\ ~(chars < Cap)  BY <2>4 DEF Ready
    <3> QED  BY <3>1, <3>2 DEF Opens
  <2> QED  BY <2>1, <2>2, <2>3, <2>4, AwaitsIs
<1>3. head[q] \in Waiting(q) /\ head[q] # None  BY <1>1, HeadWaits
<1>4. PICK d : d = head[q]  OBVIOUS
<1>5. d \in Waiting(q)' /\ state'[d] = "run"  BY <1>2, <1>3, <1>4 DEF Woke
<1>6. AwakeIn(q)'  BY <1>5 DEF AwakeIn, Awake
<1> QED  BY <1>6

\* A step that wakes processes and changes no queue.
LEMMA WakeWakes ==
    ASSUME IInv, WInv, Opens, WantsOK', table' = table, head' = head,
           \A r \in Procs : state'[r] \in {state[r], "run"},
           \A r \in Procs : table[r] # <<>> =>
               call'[r].doing = call[r].doing /\ call'[r].wants = call[r].wants
    PROVE  WInv'
<1>1. \A q : Waiting(q)' = Waiting(q)  BY WaitingSame
<1>2. ASSUME NEW r \in Procs, table[r] # <<>>
      PROVE  Awaits(r)' = Awaits(r) /\ (Writer(r)' <=> Writer(r))
  BY <1>2 DEF Awaits, Writer
<1>3. \A r \in Procs : table[r] = <<>> => \A q : r \notin Waiting(q)
  BY WaitingIs DEF InTable
<1>4. StillAwake
  <2> SUFFICES ASSUME NEW q \in Queues, NEW d \in Waiting(q), Awake(q, d)
               PROVE  AwakeIn(q)'
    BY DEF StillAwake, AwakeIn
  <2>1. d \in Procs  BY DEF Waiting
  <2>2. Awake(q, d)'  BY <2>1 DEF Awake
  <2> QED  BY <1>1, <2>2 DEF AwakeIn
<1>5. ASSUME NEW r \in Procs PROVE Idle(r) \/ (Same(r) /\ Announced(r))
  <2>1. CASE table[r] = <<>>  BY <1>1, <1>3, <2>1 DEF Idle
  <2>2. CASE table[r] # <<>>
    <3>1. Same(r)  BY <1>1, <1>2, <2>2 DEF Same
    <3>2. Announced(r)  BY <1>1, OpensAnnounces
    <3> QED  BY <3>1, <3>2
  <2> QED  BY <2>1, <2>2
<1>6. Passed'  BY <1>4, <1>5, PassedKept
<1>7. UsersOK'
  <2> SUFFICES ASSUME NEW r \in Procs, NEW q, r \in Waiting(q)'
               PROVE  q = "i_wait2" <=> Writer(r)'
    BY DEF UsersOK
  <2>1. r \in Waiting(q) /\ table[r] # <<>>  BY <1>1, <1>3
  <2>2. q = "i_wait2" <=> Writer(r)  BY <2>1 DEF WInv, UsersOK
  <2> QED  BY <1>2, <2>1, <2>2
<1>8. Full'
  <2> SUFFICES ASSUME NEW r \in Procs, table'[r] # <<>>, state'[r] = "int", NEW w \in Awaits(r)'
               PROVE  r \in Waiting(Place(r, w))'
    BY DEF Full
  <2>1. table[r] # <<>> /\ state[r] = "int"  OBVIOUS
  <2>2. w \in Awaits(r) /\ Place(r, w)' = Place(r, w)  BY <1>2, <2>1 DEF Place
  <2>3. r \in Waiting(Place(r, w))  BY <2>1, <2>2 DEF WInv, Full
  <2> QED  BY <1>1, <2>2, <2>3
<1> QED  BY <1>6, <1>7, <1>8 DEF WInv

\* Somebody queues up for what is not there.
LEMMA WakeQueuesUp ==
    ASSUME IInv, WInv, Opens, NEW p \in Procs, NEW t, QueuesUp(p, t), CallsOK',
           \A r \in Procs : call'[r].doing = call[r].doing /\ call'[r].wants = call[r].wants,
           \A i \in DOMAIN t : t[i].queue = "i_wait2" <=> Writer(p),
           \A w \in Awaits(p) : ~Ready(w)',
           \A w \in Awaits(p) : InTable(t, Place(p, w))
    PROVE  WInv'
<1>1. /\ table'[p] = t
      /\ \A r \in Procs : r # p => table'[r] = table[r]
  BY DEF QueuesUp, IInv, Types
<1>2. ASSUME NEW q PROVE /\ Waiting(q) \subseteq Procs \ {p}
                         /\ Waiting(q)' = Waiting(q) \cup {r \in {p} : InTable(t, q)}
  <2>1. ~InTable(table[p], q)  BY DEF QueuesUp, InTable
  <2> QED  BY <1>1, <2>1, WaitingIs, WaitingWillBe
<1>3. ASSUME NEW r \in Procs
      PROVE  /\ Awaits(r)' = Awaits(r) /\ (Writer(r)' <=> Writer(r))
             /\ \A w : Place(r, w)' = Place(r, w)
  BY DEF Awaits, Writer, Place
<1>4. WantsOK'  BY DEF WInv, WantsOK
<1>5. StillAwake
  <2> SUFFICES ASSUME NEW q \in Queues, NEW d \in Waiting(q), Awake(q, d)
               PROVE  AwakeIn(q)'
    BY DEF StillAwake, AwakeIn
  <2>1. d \in Procs \ {p} /\ d \in Waiting(q)'  BY <1>2
  <2>2. Awake(q, d)'  BY <2>1 DEF Awake, QueuesUp, NoneToSleep
  <2> QED  BY <2>1, <2>2 DEF AwakeIn
<1>6. ASSUME NEW r \in Procs PROVE Idle(r) \/ (Same(r) /\ Announced(r))
  <2>1. CASE r = p  BY <1>3, <2>1 DEF Idle
  <2>2. CASE r # p
    <3>1. Same(r)  BY <1>2, <1>3, <2>2 DEF Same
    <3>2. \A q \in Queues : Waiting(q) \subseteq Waiting(q)'  BY <1>2
    <3>3. Announced(r)  BY <3>2, OpensAnnounces
    <3> QED  BY <3>1, <3>3
  <2> QED  BY <2>1, <2>2
<1>7. Passed'  BY <1>5, <1>6, PassedKept
<1>8. UsersOK'
  <2> SUFFICES ASSUME NEW r \in Procs, NEW q, r \in Waiting(q)'
               PROVE  q = "i_wait2" <=> Writer(r)'
    BY DEF UsersOK
  <2>1. CASE r # p
    <3>1. r \in Waiting(q)  BY <1>2, <2>1
    <3> QED  BY <1>3, <3>1 DEF WInv, UsersOK
  <2>2. CASE r = p
    <3>1. InTable(t, q)  BY <1>2, <2>2
    <3> QED  BY <1>3, <2>2, <3>1 DEF InTable
  <2> QED  BY <2>1, <2>2
<1>9. Full'
  <2> SUFFICES ASSUME NEW r \in Procs, table'[r] # <<>>, state'[r] = "int", NEW w \in Awaits(r)'
               PROVE  r \in Waiting(Place(r, w))'
    BY DEF Full
  <2>0. PICK q : q = Place(r, w)  OBVIOUS
  <2>1. w \in Awaits(r) /\ Place(r, w)' = q  BY <1>3, <2>0
  <2>2. CASE r # p
    <3>1. table[r] # <<>> /\ state[r] = "int"  BY <1>1, <2>2 DEF QueuesUp, NoneToSleep
    <3>2. r \in Waiting(q)  BY <2>0, <2>1, <3>1 DEF WInv, Full
    <3> QED  BY <1>2, <2>1, <3>2
  <2>3. CASE r = p
    <3>1. InTable(t, q)  BY <2>0, <2>1, <2>3
    <3> QED  BY <1>2, <2>1, <2>3, <3>1
  <2> QED  BY <2>2, <2>3
<1> QED  BY <1>4, <1>7, <1>8, <1>9 DEF WInv

DevicesKept == UNCHANGED <<chars, closed, tty, call>>
LEMMA ReadySame ==
    ASSUME DevicesKept
    PROVE  /\ \A w : Ready(w)' <=> Ready(w)
           /\ \A r : Awaits(r)' = Awaits(r) /\ (Writer(r)' <=> Writer(r))
           /\ \A r, w : Place(r, w)' = Place(r, w)
           /\ WantsOK => WantsOK'
BY DEF DevicesKept, Ready, Awaits, Writer, Place, WantsOK

\* Somebody lets the head of his queue go first.
LEMMA WakePassedOver ==
    ASSUME IInv, WInv, DevicesKept, NEW p \in Procs, table[p] # <<>>, table' = table, head' = head,
           state[p] = "run", head[table[p][1].queue] \notin {None, p},
           state'[head[table[p][1].queue]] = "run", state'[p] = "unint", NoneToSleep(p)
    PROVE  WInv'
<1>1. \A q : Waiting(q)' = Waiting(q)  BY WaitingSame
<1>2. PICK k : k = table[p][1].queue  OBVIOUS
<1>3. k \in Queues /\ p \in Waiting(k)
  <2>1. 1 \in DOMAIN table[p] /\ k \in Queues  BY <1>2, NextEntry DEF IInv, Types, TablesOK, Rows
  <2> QED  BY <1>2, <2>1, WaitingIs DEF InTable
<1>4. StillAwake
  <2> SUFFICES ASSUME NEW q \in Queues, NEW d \in Waiting(q), Awake(q, d)
               PROVE  AwakeIn(q)'
    BY DEF StillAwake, AwakeIn
  <2>1. d \in Procs  BY DEF Waiting
  <2>2. CASE d # p
    <3>1. Awake(q, d)'  BY <2>1, <2>2 DEF Awake, NoneToSleep
    <3> QED  BY <1>1, <3>1 DEF AwakeIn
  <2>3. CASE d = p /\ q # "i_wait2"
    <3>1. Awake(q, d)'  BY <2>3 DEF Awake
    <3> QED  BY <1>1, <3>1 DEF AwakeIn
  <2>4. CASE d = p /\ q = "i_wait2"
    <3>1. Writer(p)  BY <2>4 DEF WInv, UsersOK
    <3>2. k = "i_wait2"  BY <1>3, <3>1 DEF WInv, UsersOK
    <3>3. head[q] \in Waiting(q) /\ state'[head[q]] = "run"  BY <1>2, <2>4, <3>2, HeadWaits
    <3>4. PICK h : h = head[q]  OBVIOUS
    <3>5. h \in Waiting(q)' /\ Awake(q, h)'  BY <1>1, <3>3, <3>4 DEF Awake
    <3> QED  BY <3>5 DEF AwakeIn
  <2> QED  BY <2>2, <2>3, <2>4
<1>5. \A r \in Procs : Same(r) /\ Announced(r)  BY <1>1, ReadySame DEF Same, Announced
<1>6. Passed'  BY <1>4, <1>5, PassedKept
<1>7. UsersOK'  BY <1>1, ReadySame DEF WInv, UsersOK
<1>8. Full'
  <2> SUFFICES ASSUME NEW r \in Procs, table'[r] # <<>>, state'[r] = "int", NEW w \in Awaits(r)'
               PROVE  r \in Waiting(Place(r, w))'
    BY DEF Full
  <2>0. PICK q : q = Place(r, w)  OBVIOUS
  <2>1. w \in Awaits(r) /\ Place(r, w)' = q  BY <2>0, ReadySame
  <2>2. table[r] # <<>> /\ state[r] = "int"  BY DEF NoneToSleep
  <2>3. r \in Waiting(q)  BY <2>0, <2>1, <2>2 DEF WInv, Full
  <2> QED  BY <1>1, <2>1, <2>3
<1> QED  BY <1>6, <1>7, <1>8, ReadySame DEF WInv

\* Somebody leaves a queue and wakes the next.
LEMMA WakeLeaves ==
    ASSUME IInv, WInv, DevicesKept, NEW p \in Procs, Leaves(p) PROVE WInv'
<1>1. PICK k, o : k = table[p][1].queue /\ o = table[p][1].old  OBVIOUS
<1>2. Left(p, k, o)  BY <1>1, Leaving
<1>3. /\ k \in Queues /\ Waiting(k)' = Waiting(k) \ {p}
      /\ \A q : q # k => Waiting(q)' = Waiting(q)
      /\ o = None => Waiting(k)' = {}
      /\ o # None => o \in Waiting(k)' /\ state'[o] = "run"
      /\ \A r \in Procs : state'[r] \in {state[r], "run"}
      /\ \A r \in Procs : r # p => table'[r] = table[r]
      /\ state'[p] = "run"
  BY <1>2 DEF Left
<1>4. StillAwake
  <2> SUFFICES ASSUME NEW q \in Queues, AwakeIn(q) PROVE Waiting(q)' = {} \/ AwakeIn(q)'
    BY DEF StillAwake
  <2>1. CASE q = k
    <3>1. o # None => AwakeIn(q)'  BY <1>3, <2>1 DEF AwakeIn, Awake
    <3> QED  BY <1>3, <2>1, <3>1
  <2>2. CASE q # k
    <3>1. PICK d \in Waiting(q) : Awake(q, d)  BY DEF AwakeIn
    <3>2. d \in Procs  BY DEF Waiting
    <3>3. d \in Waiting(q)' /\ Awake(q, d)'  BY <1>3, <2>2, <3>1, <3>2 DEF Awake
    <3> QED  BY <3>3 DEF AwakeIn
  <2> QED  BY <2>1, <2>2
<1>5. \A q : Waiting(q)' \subseteq Waiting(q)  BY <1>3
<1>6. \A r \in Procs : Same(r) /\ Announced(r)  BY <1>5, ReadySame DEF Same, Announced
<1>7. Passed'  BY <1>4, <1>6, PassedKept
<1>8. UsersOK'  BY <1>5, ReadySame DEF WInv, UsersOK
<1>9. Full'
  <2> SUFFICES ASSUME NEW r \in Procs, table'[r] # <<>>, state'[r] = "int", NEW w \in Awaits(r)'
               PROVE  r \in Waiting(Place(r, w))'
    BY DEF Full
  <2>0. PICK q : q = Place(r, w)  OBVIOUS
  <2>1. w \in Awaits(r) /\ Place(r, w)' = q  BY <2>0, ReadySame
  <2>2. r # p /\ table[r] # <<>> /\ state[r] = "int"  BY <1>3
  <2>3. r \in Waiting(q)  BY <2>0, <2>1, <2>2 DEF WInv, Full
  <2> QED  BY <1>3, <2>1, <2>2, <2>3
<1> QED  BY <1>7, <1>8, <1>9, ReadySame DEF WInv

----------------------------------------------------------------------------
(* The actions once more                                                   *)

LEMMA WokenWokes ==
    ASSUME IInv, NEW q \in Queues
    PROVE  /\ head[q] # None => Woken(state, head[q])[head[q]] = "run"
           /\ Woken(state, head[q]) \in [Procs -> {"run", "int", "unint"}]
           /\ \A r \in Procs : Woken(state, head[q])[r] \in {state[r], "run"}
BY DevicesSame, WokenIs

LEMMA WakeStart ==
    ASSUME IInv, WInv, NoOut, NEW p \in Procs,
           \/ \E w \in Wants[p] : SelectStart(p, w, "never") \/ SelectStart(p, w, "set")
           \/ \E c \in Calls[p] : CallStart(p, c)
    PROVE  WInv'
<1>1. /\ call[p].doing = "no" /\ UNCHANGED <<chars, closed, tty, head, state, table>>
      /\ \A r \in Procs : r # p => call'[r] = call[r]
      /\ call'[p].doing = "select" => "out pipe" \notin call'[p].wants
  <2>1. CallsOK  BY DEF IInv, Types
  <2>2. ASSUME NEW w \in Wants[p], NEW time, SelectStart(p, w, time)
        PROVE  /\ call[p].doing = "no" /\ UNCHANGED <<chars, closed, tty, head, state, table>>
               /\ \A r \in Procs : r # p => call'[r] = call[r]
               /\ call'[p].wants = w /\ "out pipe" \notin w
    BY <2>1, <2>2 DEF SelectStart, CallsOK, NoOut, devices, Nowhere
  <2>3. ASSUME NEW c \in Calls[p], CallStart(p, c)
        PROVE  /\ call[p].doing = "no" /\ UNCHANGED <<chars, closed, tty, head, state, table>>
               /\ \A r \in Procs : r # p => call'[r] = call[r]
               /\ call'[p].wants = {}
    BY <2>1, <2>3 DEF CallStart, CallsOK, devices, Nowhere
  <2> QED  BY <2>2, <2>3
<1>2. table[p] = <<>>  BY <1>1 DEF IInv, TablesOK
<1>3. WantsOK'  BY <1>1 DEF WInv, WantsOK
<1>4. Opens  BY <1>1 DEF Opens
<1>5. \A r \in Procs : table[r] # <<>> =>
          call'[r].doing = call[r].doing /\ call'[r].wants = call[r].wants
  BY <1>1, <1>2
<1> QED  BY <1>1, <1>3, <1>4, <1>5, WakeWakes

\* The end of a call.
LEMMA WakeReturns ==
    ASSUME IInv, WInv, NEW p \in Procs, Return(p), table[p] = <<>>, table' = table, head' = head,
           \A r \in Procs : state'[r] \in {state[r], "run"}, Opens
    PROVE  WInv'
<1>1. call'[p] = Nowhere /\ \A r \in Procs : r # p => call'[r] = call[r]
  BY Returns DEF IInv, Types
<1>2. WantsOK'
  <2>1. call'[p].doing # "select"  BY <1>1 DEF Nowhere
  <2> QED  BY <1>1, <2>1 DEF WInv, WantsOK
<1>3. \A r \in Procs : table[r] # <<>> =>
          call'[r].doing = call[r].doing /\ call'[r].wants = call[r].wants
  BY <1>1
<1> QED  BY <1>2, <1>3, WakeWakes

LEMMA CallSame ==
    ASSUME IInv, NEW p \in Procs, NEW a \in {"test", "free"}, call' = [call EXCEPT ![p].at = a]
    PROVE  /\ CallsOK'
           /\ \A r \in Procs : call'[r].doing = call[r].doing /\ call'[r].wants = call[r].wants
<1>1. /\ CallsOK' /\ call'[p] = [call[p] EXCEPT !.at = a]
      /\ \A r \in Procs : r # p => call'[r] = call[r]
  BY GoesTo DEF IInv, Types
<1>2. ASSUME NEW c \in Places
      PROVE  [c EXCEPT !.at = a].doing = c.doing /\ [c EXCEPT !.at = a].wants = c.wants
  BY DEF Places
<1>3. call[p] \in Places  BY DEF IInv, Types, CallsOK
<1>4. call'[p].doing = call[p].doing /\ call'[p].wants = call[p].wants  BY <1>1, <1>2, <1>3
<1> QED  BY <1>1, <1>4

LEMMA WakeInterrupted ==
    ASSUME IInv, WInv, NEW p \in Procs, Signal(p) \/ Expire(p) PROVE WInv'
<1>1. UNCHANGED <<chars, closed, tty, head, table>>  BY DEF Signal, Expire, devices
<1>2. \A r \in Procs : state'[r] \in {state[r], "run"}
  BY InterruptedWakes DEF Signal, Expire
<1>3. ASSUME NEW r \in Procs
      PROVE  call'[r].doing = call[r].doing /\ call'[r].wants = call[r].wants
  <2>1. CallsOK  BY DEF IInv, Types
  <2>2. CASE Signal(p)  BY <2>1, <2>2 DEF Signal, CallsOK, Places
  <2>3. CASE Expire(p)  BY <2>1, <2>3 DEF Expire, CallsOK, Places
  <2> QED  BY <2>2, <2>3
<1>4. WantsOK'  BY <1>3 DEF WInv, WantsOK
<1>5. Opens  BY <1>1 DEF Opens
<1> QED  BY <1>1, <1>2, <1>3, <1>4, <1>5, WakeWakes

LEMMA WakeOutside ==
    ASSUME IInv, WInv, Key \/ Iput PROVE WInv'
<1>1. UNCHANGED <<head, table, call>>  BY DEF Key, Iput
<1>2. WantsOK'  BY <1>1 DEF WInv, WantsOK
<1>3. {"i_wait", "i_wait2", "proc_list"} \subseteq Queues  BY DEF Queues
<1>4. CASE Key
  <2>1. state' = Woken(state, head["proc_list"]) /\ UNCHANGED <<chars, closed>>  BY <1>4 DEF Key
  <2>2. Opens  BY <1>3, <2>1, WokenWokes DEF Opens, Woke
  <2>3. \A r \in Procs : state'[r] \in {state[r], "run"}  BY <1>3, <2>1, WokenWokes
  <2> QED  BY <1>1, <1>2, <2>2, <2>3, WakeWakes
<1>5. CASE Iput
  <2>1. PICK st : st = Woken(state, head["i_wait"])  OBVIOUS
  <2>2. /\ st \in [Procs -> {"run", "int", "unint"}] /\ \A r \in Procs : st[r] \in {state[r], "run"}
        /\ head["i_wait"] # None => st[head["i_wait"]] = "run"
    BY <1>3, <2>1, WokenWokes
  <2>3. state' = Woken(st, head["i_wait2"]) /\ UNCHANGED <<chars, tty>>  BY <1>5, <2>1 DEF Iput
  <2>4. head["i_wait"] \in Procs \cup {None} /\ head["i_wait2"] \in Procs \cup {None}
    BY <1>3, DevicesSame
  <2>5. \A r \in Procs : state'[r] \in {st[r], "run"}  BY <2>2, <2>3, <2>4, WokenIs
  <2>6. Woke("i_wait")  BY <2>2, <2>4, <2>5 DEF Woke
  <2>7. Opens  BY <2>3, <2>6 DEF Opens
  <2>8. \A r \in Procs : state'[r] \in {state[r], "run"}  BY <2>2, <2>5
  <2> QED  BY <1>1, <1>2, <2>7, <2>8, WakeWakes
<1> QED  BY <1>4, <1>5

LEMMA WakeCheck ==
    ASSUME IInv, WInv, NEW p \in Procs, Check(p) PROVE WInv'
<1>1. At(p, "select", "test") /\ UNCHANGED devices  BY DEF Check
<1>2. table[p] = <<>> /\ state[p] = "run" /\ call[p].doing = "select"
  BY <1>1, InTest DEF At
<1>3. Opens  BY <1>1 DEF Opens, devices
<1>4. PICK t \in Tables(p) :
        \/ /\ head' = [q \in Queues |-> IF \E i \in DOMAIN t : t[i].queue = q THEN p ELSE head[q]]
           /\ state' = [state EXCEPT ![p] = "int"] /\ call' = [call EXCEPT ![p].at = "free"]
           /\ table' = [table EXCEPT ![p] = t] /\ \A w \in call[p].wants : ~Ready(w)
        \/ /\ state' = [r \in Procs |-> IF \E i \in DOMAIN t : t[i].old = r THEN "run" ELSE state[r]]
           /\ Return(p) /\ UNCHANGED <<head, table>>
  BY DEF Check
<1>5. CASE /\ head' = [q \in Queues |-> IF \E i \in DOMAIN t : t[i].queue = q THEN p ELSE head[q]]
           /\ state' = [state EXCEPT ![p] = "int"] /\ call' = [call EXCEPT ![p].at = "free"]
           /\ table' = [table EXCEPT ![p] = t] /\ \A w \in call[p].wants : ~Ready(w)
  <2>1. state'[p] = "int" /\ NoneToSleep(p)
    BY <1>5, DevicesSame DEF NoneToSleep
  <2>2. /\ t \in Seq(Rows) /\ Unique(t)
        /\ \A i \in DOMAIN t : t[i].old = head[t[i].queue] /\ t[i].queue # "i_wait2"
        /\ \A w \in call[p].wants : ~Ready(w) => InTable(t, Queue(w))
    BY TablesAre
  <2>3. QueuesUp(p, t)  BY <1>2, <1>5, <2>1, <2>2 DEF QueuesUp, InTable
  <2>4. Awaits(p) = call[p].wants /\ ~Writer(p)  BY <1>2 DEF Awaits, Writer
  <2>5. \A w : Ready(w)' <=> Ready(w)  BY <1>1 DEF devices, Ready
  <2>6. \A w \in Awaits(p) : ~Ready(w)'  BY <1>5, <2>4, <2>5
  <2>7. \A w \in Awaits(p) : InTable(t, Place(p, w))  BY <1>5, <2>2, <2>4 DEF Place
  <2>8. \A i \in DOMAIN t : t[i].queue = "i_wait2" <=> Writer(p)  BY <2>2, <2>4
  <2>9. /\ CallsOK'
        /\ \A r \in Procs : call'[r].doing = call[r].doing /\ call'[r].wants = call[r].wants
    BY <1>5, CallSame
  <2> QED  BY <1>3, <2>3, <2>6, <2>7, <2>8, <2>9, WakeQueuesUp
<1>6. CASE /\ state' = [r \in Procs |-> IF \E i \in DOMAIN t : t[i].old = r THEN "run" ELSE state[r]]
           /\ Return(p) /\ UNCHANGED <<head, table>>
  <2>1. \A r \in Procs : state'[r] \in {state[r], "run"}  BY <1>6, DevicesSame
  <2> QED  BY <1>2, <1>3, <1>6, <2>1, WakeReturns
<1> QED  BY <1>4, <1>5, <1>6

LEMMA WakeFreeWait ==
    ASSUME IInv, WInv, NEW p \in Procs, FreeWait(p) PROVE WInv'
<1>1. state[p] = "run" /\ UNCHANGED devices  BY DEF FreeWait, Runs
<1>2. CASE table[p] = <<>>
  <2>1. call' = [call EXCEPT ![p].at = "test"] /\ UNCHANGED <<head, state, table>>
    BY <1>2 DEF FreeWait
  <2>2. \A r \in Procs : call'[r].doing = call[r].doing /\ call'[r].wants = call[r].wants
    BY <2>1, CallSame
  <2>3. WantsOK'  BY <2>2 DEF WInv, WantsOK
  <2>4. Opens  BY <1>1 DEF Opens, devices
  <2>5. \A r \in Procs : state'[r] \in {state[r], "run"}  BY <2>1
  <2> QED  BY <2>1, <2>2, <2>3, <2>4, <2>5, WakeWakes
<1>3. CASE table[p] # <<>>
  <2>0. PICK e : e = table[p][1]  OBVIOUS
  <2>1. Head(table[p]) = e /\ e.queue \in Queues
    BY <1>3, <2>0, NextEntry DEF IInv, Types, TablesOK, Rows
  <2>2. DevicesKept  BY <1>1, <1>3, <2>1 DEF FreeWait, DevicesKept, devices
  <2>3. CASE head[e.queue] \notin {None, p}
    <3>1. state' = [Woken(state, head[e.queue]) EXCEPT ![p] = "unint"] /\ UNCHANGED <<head, table>>
      BY <1>3, <2>1, <2>3 DEF FreeWait
    <3>2. PICK st : st = Woken(state, head[e.queue])  OBVIOUS
    <3>3. /\ st \in [Procs -> {"run", "int", "unint"}] /\ st[head[e.queue]] = "run"
          /\ \A r \in Procs : st[r] \in {state[r], "run"}
      BY <2>1, <2>3, <3>2, WokenWokes
    <3>4. head[e.queue] \in Procs  BY <2>1, <2>3, DevicesSame
    <3>5. state'[p] = "unint" /\ state'[head[e.queue]] = "run" /\ NoneToSleep(p)
      BY <2>3, <3>1, <3>2, <3>3, <3>4 DEF NoneToSleep
    <3> QED  BY <1>1, <1>3, <2>0, <2>2, <2>3, <3>1, <3>5, WakePassedOver
  <2>4. CASE head[e.queue] \in {None, p}
    <3>1. /\ head' = [head EXCEPT ![e.queue] = e.old] /\ state' = Woken(state, e.old)
          /\ table' = [table EXCEPT ![p] = Tail(@)]
      BY <1>3, <2>1, <2>4 DEF FreeWait
    <3>2. Leaves(p)  BY <1>1, <1>3, <2>0, <2>4, <3>1 DEF Leaves
    <3> QED  BY <2>2, <3>2, WakeLeaves
  <2> QED  BY <2>3, <2>4
<1> QED  BY <1>2, <1>3

\* A call that waits at one place.
LEMMA WakeSleepsOn ==
    ASSUME IInv, WInv, NEW p \in Procs, table[p] = <<>>, NEW q \in Queues, NEW st, NEW how,
           st \in [Procs -> {"run", "int", "unint"}], \A r \in Procs : st[r] \in {state[r], "run"},
           <<how, q>> \in {<<"int", q>>, <<"unint", "i_wait2">>}, SleepOn(p, q, st, how), Opens,
           q = "i_wait2" <=> Writer(p), \A w \in Awaits(p) : ~Ready(w)' /\ Place(p, w) = q
    PROVE  WInv'
<1> DEFINE t == <<[queue |-> q, old |-> head[q]]>>
<1>1. QueuesUp(p, t)  BY SleepOnQueues
<1>2. DOMAIN t = {1} /\ t[1].queue = q  OBVIOUS
<1> HIDE DEF t
<1>3. \A i \in DOMAIN t : t[i].queue = "i_wait2" <=> Writer(p)  BY <1>2
<1>4. \A w \in Awaits(p) : ~Ready(w)'  OBVIOUS
<1>5. \A w \in Awaits(p) : InTable(t, Place(p, w))  BY <1>2 DEF InTable
<1>6. /\ CallsOK'
      /\ \A r \in Procs : call'[r].doing = call[r].doing /\ call'[r].wants = call[r].wants
  BY CallSame DEF SleepOn
<1> QED  BY <1>1, <1>3, <1>4, <1>5, <1>6, WakeQueuesUp

\* Who sleeps on its head does not undo the wake-up of another queue.
LEMMA WokeFirst ==
    ASSUME IInv, NEW p \in Procs, table[p] = <<>>, NEW q \in Queues, NEW k, NEW how,
           SleepOn(p, k, Woken(state, head[q]), how)
    PROVE  Woke(q)
<1>1. CASE head[q] = None  BY <1>1 DEF Woke
<1>2. CASE head[q] # None
  <2>1. head[q] \in Waiting(q) /\ head[q] \in Procs  BY <1>2, HeadWaits
  <2>2. head[q] # p  BY <2>1, WaitingIs DEF InTable
  <2>3. PICK st : st = Woken(state, head[q])  OBVIOUS
  <2>4. st[head[q]] = "run"  BY <1>2, <2>3, WokenWokes
  <2>5. state' = [st EXCEPT ![p] = how]  BY <2>3 DEF SleepOn
  <2>6. state'[head[q]] = st[head[q]]
    <3>1. st \in [Procs -> {"run", "int", "unint"}]  BY <2>3, WokenWokes
    <3> QED  BY <2>1, <2>2, <2>5, <3>1
  <2> QED  BY <2>4, <2>6 DEF Woke
<1> QED  BY <1>1, <1>2

LEMMA WakeReadPipe ==
    ASSUME IInv, WInv, NEW p \in Procs, ReadPipe(p) PROVE WInv'
<1>1. At(p, "read", "test") /\ UNCHANGED <<closed, tty>>  BY DEF ReadPipe
<1>2. table[p] = <<>> /\ call[p].doing = "read"  BY <1>1, InTest DEF At
<1>3. "i_wait" \in Queues /\ "i_wait2" \in Queues  BY DEF Queues
<1>4. Cap \in Nat /\ chars \in 0..Cap  BY SelectAssumption DEF IInv, Types
<1>5. ~(chars' > 0) \/ chars > 0  BY <1>4 DEF ReadPipe
<1>6. PICK st : st = Woken(state, head["i_wait2"])  OBVIOUS
<1>7. st \in [Procs -> {"run", "int", "unint"}] /\ \A r \in Procs : st[r] \in {state[r], "run"}
  BY <1>3, <1>6, WokenWokes
<1>8. CASE state' = st /\ Return(p) /\ UNCHANGED <<head, table>>
  <2>1. Woke("i_wait2")  BY <1>3, <1>6, <1>8, WokenWokes DEF Woke
  <2>2. Opens  BY <1>1, <1>5, <2>1 DEF Opens
  <2> QED  BY <1>2, <1>7, <1>8, <2>2, WakeReturns
<1>9. CASE SleepOn(p, "i_wait", st, "int") /\ ~(chars > 0) /\ UNCHANGED chars
  <2>1. Opens  BY <1>1, <1>9 DEF Opens
  <2>2. Awaits(p) = {"in pipe"} /\ ~Writer(p)  BY <1>2 DEF Awaits, Writer
  <2>3. \A w \in Awaits(p) : ~Ready(w)' /\ Place(p, w) = "i_wait"
    BY <1>9, <2>2 DEF Ready, Place, Queue
  <2>4. "i_wait" = "i_wait2" <=> Writer(p)  BY <2>2
  <2> QED  BY <1>2, <1>3, <1>7, <1>9, <2>1, <2>3, <2>4, WakeSleepsOn
<1> QED  BY <1>6, <1>8, <1>9 DEF ReadPipe

LEMMA WakeWritePipe ==
    ASSUME IInv, WInv, NEW p \in Procs, WritePipe(p) PROVE WInv'
<1>1. At(p, "write", "test") /\ UNCHANGED <<closed, tty>>  BY DEF WritePipe
<1>2. table[p] = <<>> /\ call[p].doing = "write"  BY <1>1, InTest DEF At
<1>3. "i_wait" \in Queues /\ "i_wait2" \in Queues  BY DEF Queues
<1>4. Cap \in Nat /\ chars \in 0..Cap  BY SelectAssumption DEF IInv, Types
<1>5. ~(chars' < Cap) \/ chars < Cap  BY <1>4 DEF WritePipe
<1>6. PICK st : st = Woken(state, head["i_wait"])  OBVIOUS
<1>7. st \in [Procs -> {"run", "int", "unint"}] /\ \A r \in Procs : st[r] \in {state[r], "run"}
  BY <1>3, <1>6, WokenWokes
<1>8. CASE state' = st /\ Return(p) /\ UNCHANGED <<head, table>>
  <2>1. Woke("i_wait")  BY <1>3, <1>6, <1>8, WokenWokes DEF Woke
  <2>2. Opens  BY <1>1, <1>5, <2>1 DEF Opens
  <2> QED  BY <1>2, <1>7, <1>8, <2>2, WakeReturns
<1>9. CASE SleepOn(p, "i_wait2", st, "unint") /\ ~(chars < Cap) /\ UNCHANGED chars
  <2>1. Opens  BY <1>1, <1>9 DEF Opens
  <2>2. Awaits(p) = {"out pipe"} /\ Writer(p)  BY <1>2 DEF Awaits, Writer
  <2>3. \A w \in Awaits(p) : ~Ready(w)' /\ Place(p, w) = "i_wait2"
    BY <1>9, <2>2 DEF Ready, Place
  <2> QED  BY <1>2, <1>3, <1>7, <1>9, <2>1, <2>2, <2>3, WakeSleepsOn
<1> QED  BY <1>6, <1>8, <1>9 DEF WritePipe

LEMMA WakeTtyRead ==
    ASSUME IInv, WInv, NEW p \in Procs, TtyRead(p) PROVE WInv'
<1>1. At(p, "tty", "test") /\ UNCHANGED <<chars, closed>>  BY DEF TtyRead
<1>2. table[p] = <<>> /\ call[p].doing = "tty"  BY <1>1, InTest DEF At
<1>3. "proc_list" \in Queues  BY DEF Queues
<1>4. tty' => tty  BY DEF TtyRead
<1>5. Opens  BY <1>1, <1>4 DEF Opens
<1>6. state \in [Procs -> {"run", "int", "unint"}] /\ \A r \in Procs : state[r] \in {state[r], "run"}
  BY DevicesSame
<1>7. CASE Return(p) /\ UNCHANGED <<head, state, table>>
  BY <1>2, <1>5, <1>6, <1>7, WakeReturns
<1>8. CASE SleepOn(p, "proc_list", state, "int") /\ ~tty /\ UNCHANGED tty
  <2>1. Awaits(p) = {"in tty"} /\ ~Writer(p)  BY <1>2 DEF Awaits, Writer
  <2>2. \A w \in Awaits(p) : ~Ready(w)' /\ Place(p, w) = "proc_list"
    BY <1>8, <2>1 DEF Ready, Place, Queue
  <2>3. "proc_list" = "i_wait2" <=> Writer(p)  BY <2>1
  <2> QED  BY <1>2, <1>3, <1>5, <1>6, <1>8, <2>2, <2>3, WakeSleepsOn
<1> QED  BY <1>7, <1>8 DEF TtyRead

LEMMA NextWInv == NoOut /\ IInv /\ WInv /\ [Next]_vars => WInv'
<1> SUFFICES ASSUME NoOut, IInv, WInv, [Next]_vars PROVE WInv'  OBVIOUS
<1>1. CASE UNCHANGED vars
  <2>1. UNCHANGED <<chars, closed, tty, head, state, call, table, current>>
    BY <1>1 DEF vars, devices
  <2>2. WantsOK' /\ Opens  BY <2>1 DEF WInv, WantsOK, Opens
  <2>3. \A r \in Procs : state'[r] \in {state[r], "run"}  BY <2>1
  <2> QED  BY <2>1, <2>2, <2>3, WakeWakes
<1>2. CASE Key \/ Iput  BY <1>2, WakeOutside
<1>3. ASSUME NEW p \in Procs, Step(p) PROVE WInv'
  BY <1>3, WakeCheck, WakeFreeWait, WakeReadPipe, WakeWritePipe, WakeTtyRead DEF Step
<1>4. ASSUME NEW p \in Procs, Signal(p) \/ Expire(p) PROVE WInv'  BY <1>4, WakeInterrupted
<1>5. ASSUME NEW p \in Procs,
             \/ \E w \in Wants[p] : SelectStart(p, w, "never") \/ SelectStart(p, w, "set")
             \/ \E c \in Calls[p] : CallStart(p, c)
      PROVE  WInv'
  BY <1>5, WakeStart
<1> QED  BY <1>1, <1>2, <1>3, <1>4, <1>5 DEF Next

\* Of those who have been woken the one that queued up last runs.
LEMMA LastRuns ==
    ASSUME IInv, WInv, NEW p \in Procs, table[p] # <<>>, ~Writer(p), state[p] # "int"
    PROVE  \E d \in Procs : table[d] # <<>> /\ state[d] = "run"
<1>1. PICK n \in Nat : \E rank \in [Procs -> 0..n] : InOrder(rank)  BY DEF IInv, Ordered
<1>2. PICK rank \in [Procs -> 0..n] : InOrder(rank)  BY <1>1
<1>3. PICK W : W = {d \in Procs : table[d] # <<>> /\ ~Writer(d) /\ state[d] # "int"}  OBVIOUS
<1> DEFINE T == {n - rank[d] : d \in W}
<1>4. T \subseteq Nat /\ T # {}  BY <1>3
<1>5. PICK x \in T : \A y \in T : ~(y < x)
  <2> HIDE DEF T
  <2>1. PICK x \in T : \A y \in T : ~(<<y, x>> \in OpToRel(<, Nat))
    BY <1>4, NatLessThanWellFounded, WFMin
  <2>2. \A y \in T : y < x => <<y, x>> \in OpToRel(<, Nat)
    BY <1>4, <2>1 DEF OpToRel
  <2> QED  BY <2>1, <2>2
<1>6. PICK d \in W : x = n - rank[d]  OBVIOUS
<1>7. \A e \in W : ~(rank[e] > rank[d])
  <2> SUFFICES ASSUME NEW e \in W, rank[e] > rank[d] PROVE FALSE  OBVIOUS
  <2>1. n - rank[e] \in T  OBVIOUS
  <2>2. rank[e] \in 0..n /\ rank[d] \in 0..n  BY <1>3
  <2>3. n - rank[e] < n - rank[d]  BY <2>2
  <2> QED  BY <1>5, <1>6, <2>1, <2>3
<1>8. d \in Procs /\ table[d] # <<>> /\ ~Writer(d) /\ state[d] # "int"  BY <1>3
<1>9. state[d] # "unint"
  <2> SUFFICES ASSUME state[d] = "unint" PROVE FALSE  OBVIOUS
  <2>1. PICK k : k = table[d][1].queue  OBVIOUS
  <2>2. 1 \in DOMAIN table[d]  BY <1>8, NextEntry DEF IInv, Types, TablesOK
  <2>3. d \in Waiting(k)  BY <1>8, <2>1, <2>2, WaitingIs DEF InTable
  <2>4. k # "i_wait2"  BY <1>8, <2>3 DEF WInv, UsersOK
  <2>5. PICK e \in Waiting(k) : state[e] # "int" /\ rank[e] > rank[d]
    BY <1>2, <1>8, <2>1, <2>4 DEF InOrder, Behind
  <2>6. e \in Procs /\ table[e] # <<>>  BY WaitingIs DEF InTable
  <2>7. ~Writer(e)  BY <2>4, <2>5, <2>6 DEF WInv, UsersOK
  <2> QED  BY <1>3, <1>7, <2>5, <2>6, <2>7
<1>10. state[d] \in {"run", "int", "unint"}  BY <1>8 DEF IInv, Types
<1> QED  BY <1>8, <1>9, <1>10

LEMMA PassedOn == IInv /\ WInv => NoLostWakeup
<1> SUFFICES ASSUME IInv, WInv, NEW p \in Procs, Asleep(p), NEW w \in Awaits(p), Ready(w)
             PROVE  \E d \in Procs : table[d] # <<>> /\ state[d] = "run"
  BY DEF NoLostWakeup
<1>1. table[p] # <<>> /\ state[p] \in {"int", "unint"}  BY DEF Asleep, IInv, Types
<1>2. PICK q \in Queues : q = Place(p, w)  BY AwaitsIs
<1>3. CASE p \in Waiting(q)
  <2>1. AwakeIn(q)  BY <1>2, <1>3 DEF WInv, Passed
  <2>2. PICK d \in Waiting(q) : Awake(q, d)  BY <2>1 DEF AwakeIn
  <2>3. d \in Procs /\ table[d] # <<>>  BY WaitingIs DEF InTable
  <2>4. CASE state[d] = "run"  BY <2>3, <2>4
  <2>5. CASE state[d] = "unint" /\ q # "i_wait2"
    <3>1. ~Writer(d)  BY <2>2, <2>3, <2>5 DEF WInv, UsersOK
    <3> QED  BY <2>3, <2>5, <3>1, LastRuns
  <2> QED  BY <2>2, <2>4, <2>5 DEF Awake
<1>4. CASE p \notin Waiting(q)
  <2>1. state[p] = "unint"  BY <1>1, <1>2, <1>4 DEF WInv, Full
  <2>2. ~Writer(p)
    <3>1. PICK k : k = table[p][1].queue  OBVIOUS
    <3>2. 1 \in DOMAIN table[p]  BY <1>1, NextEntry DEF IInv, Types, TablesOK
    <3>3. p \in Waiting(k)  BY <3>1, <3>2, WaitingIs DEF InTable
    <3> QED  BY <1>2, <1>4, <3>3 DEF WInv, UsersOK, Place
  <2> QED  BY <1>1, <2>1, <2>2, LastRuns
<1> QED  BY <1>3, <1>4

\* While somebody sleeps although there is what he waits for, a process in a queue runs
\* (select.c:88-99, pipe.c:29, 57): no wake-up is lost as long as nobody selects a pipe
\* for writing, where select.c:173 uses the queue of the readers.
THEOREM WakeupsPassedOn == NoOut /\ Spec => []NoLostWakeup
<1>1. Init => IInv /\ WInv  BY InitIInv, InitWInv
<1>2. NoOut /\ IInv /\ WInv /\ [Next]_vars => (IInv /\ WInv)'  BY NextIInv, NextWInv
<1>3. CASE NoOut  BY <1>1, <1>2, <1>3, PassedOn, PTL DEF Spec
<1>4. CASE ~NoOut  BY <1>4
<1> QED  BY <1>3, <1>4
=============================================================================
