-------------------------- MODULE ProcessesProofs --------------------------
(***************************************************************************)
(* For any number of processes: the four links of the task_structs tie     *)
(* them into one tree; and, as long as get_free_page() does not sleep      *)
(* between the choice of an entry of task[] and its use, nothing brings    *)
(* the kernel down, no two tasks have the same pid, the terminal of a      *)
(* session has a living leader in it, nobody sleeps through SIGKILL, and   *)
(* waitpid() is told of every death it waits for.                          *)
(*                                                                         *)
(* What makes unique pids inductive is that task[] points to a page once   *)
(* at most, never to a free one, and that a fork asleep in copy_mem()      *)
(* keeps its entry: nobody takes it, and nobody frees the page, because    *)
(* the child in the making is no zombie.  The terminal and SIGKILL add to  *)
(* it that leaders lead the session of their own pid, so that no session   *)
(* has two, and that a process in user mode which has been killed is never *)
(* stopped.  For these three the functions on task_structs only have to    *)
(* leave pids and sessions alone and to put nobody to sleep.               *)
(*                                                                         *)
(* The rest needs the tree.  Every process has a place on the list of its  *)
(* father, one behind that of its younger sibling, and Kids is shown to    *)
(* give the children at their places; every process is younger than its    *)
(* father, and the father of none is a zombie (Rooted).  One lemma each    *)
(* says what fork, exit with adoption, and release() do to the links, and  *)
(* that they keep Rooted; everything else leaves the links alone (Tied).   *)
(* Safe, for the panics, says that the page tables of an address range are *)
(* those of a process in task[] that has not begun to exit; Heard, for     *)
(* waitpid(), that who sleeps has been told of the zombies it asked for.   *)
(***************************************************************************)
EXTENDS Processes, FiniteSetTheorems, SequenceTheorems, WellFoundedInduction, TLAPS

Fields == {"state", "exit_code", "signal", "pid", "pgrp", "session", "leader",
           "tty", "p_pptr", "p_cptr", "p_ysptr", "p_osptr"}
Rec(r) == r = [f \in Fields |-> r[f]]
All == Tasks \cup {Zero}
Good(T) == T = [x \in All |-> T[x]] /\ \A x \in All : Rec(T[x])

\* U has the pids of T, and no zombie T has not but perhaps p.
Keeps(T, U, p) ==
    /\ Good(U)
    /\ \A x \in All : /\ U[x].pid = T[x].pid
                      /\ x # p /\ U[x].state = "zombie" => T[x].state = "zombie"

----------------------------------------------------------------------------
LEMMA SentKeeps ==
    ASSUME NEW r, Rec(r), NEW sig
    PROVE  /\ Rec(Sent(r, sig))
           /\ Sent(r, sig).pid = r.pid
           /\ Sent(r, sig).state = "zombie" => r.state = "zombie"
<1> DEFINE w == IF sig \notin {SIGKILL, SIGCONT} THEN r
                ELSE [r EXCEPT !.state = IF @ = "stopped" THEN "running" ELSE @,
                               !.exit_code = 0, !.signal = @ \ {SIGSTOP}]
           v == (IF sig = SIGSTOP THEN w.signal \ {SIGCONT} ELSE w.signal) \cup {sig}
<1>1. Rec(w) /\ w.pid = r.pid /\ (w.state = "zombie" => r.state = "zombie")
  BY DEF Rec, Fields
<1> HIDE DEF w
<1>2. Rec([w EXCEPT !.signal = v]) /\ [w EXCEPT !.signal = v].pid = w.pid
      /\ [w EXCEPT !.signal = v].state = w.state
  <2> HIDE DEF v
  <2> QED  BY <1>1 DEF Rec, Fields
<1>3. Sent(r, sig) = [w EXCEPT !.signal = v]
  BY DEF Sent, w
<1> QED  BY <1>1, <1>2, <1>3

LEMMA KeepsSame == ASSUME NEW T, Good(T), NEW p PROVE Keeps(T, T, p)
  BY DEF Keeps

LEMMA KeepsGood == ASSUME NEW T, NEW U, NEW p, Keeps(T, U, p) PROVE Good(U)
  BY DEF Keeps

LEMMA FieldKeeps ==
    ASSUME NEW T, Good(T), NEW x, NEW v, NEW p
    PROVE  /\ Keeps(T, [T EXCEPT ![x].p_pptr = v], p)
           /\ Keeps(T, [T EXCEPT ![x].p_cptr = v], p)
           /\ Keeps(T, [T EXCEPT ![x].p_ysptr = v], p)
           /\ Keeps(T, [T EXCEPT ![x].p_osptr = v], p)
           /\ Keeps(T, [T EXCEPT ![x].exit_code = v], p)
           /\ Keeps(T, [T EXCEPT ![x].signal = v], p)
           /\ Keeps(T, [T EXCEPT ![x].pgrp = v], p)
           /\ Keeps(T, [T EXCEPT ![x].session = v], p)
           /\ Keeps(T, [T EXCEPT ![x].leader = v], p)
           /\ Keeps(T, [T EXCEPT ![x].tty = v], p)
<1>1. Keeps(T, [T EXCEPT ![x].p_pptr = v], p)
  BY DEF Keeps, Good, Rec, Fields
<1>2. Keeps(T, [T EXCEPT ![x].p_cptr = v], p)
  BY DEF Keeps, Good, Rec, Fields
<1>3. Keeps(T, [T EXCEPT ![x].p_ysptr = v], p)
  BY DEF Keeps, Good, Rec, Fields
<1>4. Keeps(T, [T EXCEPT ![x].p_osptr = v], p)
  BY DEF Keeps, Good, Rec, Fields
<1>5. Keeps(T, [T EXCEPT ![x].exit_code = v], p)
  BY DEF Keeps, Good, Rec, Fields
<1>6. Keeps(T, [T EXCEPT ![x].signal = v], p)
  BY DEF Keeps, Good, Rec, Fields
<1>7. Keeps(T, [T EXCEPT ![x].pgrp = v], p)
  BY DEF Keeps, Good, Rec, Fields
<1>8. Keeps(T, [T EXCEPT ![x].session = v], p)
  BY DEF Keeps, Good, Rec, Fields
<1>9. Keeps(T, [T EXCEPT ![x].leader = v], p)
  BY DEF Keeps, Good, Rec, Fields
<1>10. Keeps(T, [T EXCEPT ![x].tty = v], p)
  BY DEF Keeps, Good, Rec, Fields
<1> QED  BY <1>1, <1>2, <1>3, <1>4, <1>5, <1>6, <1>7, <1>8, <1>9, <1>10

LEMMA StateKeeps ==
    ASSUME NEW T, Good(T), NEW x, NEW v, v # "zombie", NEW p
    PROVE  Keeps(T, [T EXCEPT ![x].state = v], p)
  BY DEF Keeps, Good, Rec, Fields

LEMMA KeepsChain ==
    ASSUME NEW T, NEW U, NEW V, NEW p, Keeps(T, U, p), Keeps(U, V, p)
    PROVE  Keeps(T, V, p)
  BY DEF Keeps

LEMMA KillPgKeeps ==
    ASSUME NEW T, Good(T), NEW pgrp, NEW sig, NEW p
    PROVE  Keeps(T, kill_pg(T, pgrp, sig), p)
  BY SentKeeps DEF Keeps, Good, kill_pg

LEMMA HangUpKeeps ==
    ASSUME NEW T, Good(T), NEW pgrps, NEW p
    PROVE  Keeps(T, HangUpAll(T, pgrps), p)
  BY SentKeeps DEF Keeps, Good, HangUpAll, HangUp

LEMMA ToldKeeps ==
    ASSUME NEW T, Good(T), NEW father, NEW p
    PROVE  Keeps(T, Told(T, father), p)
  BY DEF Keeps, Good, Told, Rec, Fields

LEMMA AdoptedKeeps ==
    ASSUME NEW T, Good(T), NEW some, NEW p
    PROVE  Keeps(T, Adopted(T, some), p)
  BY DEF Keeps, Good, Adopted, Rec, Fields
LEMMA OrphansKeeps ==
    ASSUME NEW T, Good(T), NEW p
    PROVE  Keeps(T, Orphans(T, p), p)
<1> DEFINE kids == Kids(T, p)
           after(i) == Adopted(T, {kids[j] : j \in 1..i})
           all == after(Len(kids))
           cut == {T[kids[i]].pgrp : i \in {j \in 1..Len(kids) :
                       CutOff(after(j), p, kids[j], T[kids[j]].pgrp)}}
           hung == HangUpAll(all, cut)
<1>1. Keeps(T, all, p)
  BY AdoptedKeeps
<1>2. Keeps(all, hung, p)
  <2> HIDE DEF all, cut
  <2>1. Good(all)
    BY <1>1, KeepsGood
  <2> QED  BY <2>1, HangUpKeeps
<1>3. Keeps(hung, Told(hung, InitTask), p)
  <2> HIDE DEF hung
  <2>1. Good(hung)
    BY <1>2, KeepsGood
  <2> QED  BY <2>1, ToldKeeps
<1>4. Orphans(T, p) \in {hung, Told(hung, InitTask)}
  BY DEF Orphans
<1> HIDE DEF hung, all
<1> QED  BY <1>1, <1>2, <1>3, <1>4, KeepsChain

LEMMA ZombieKeeps ==
    ASSUME Good(ts), NEW p \in Tasks
    PROVE  Keeps(ts, Zombie(p), p)
<1> DEFINE father == ts[p].p_pptr
           T == [ts EXCEPT ![p].state = "zombie", ![p].exit_code = local[p].n]
           U == IF CutOff(T, p, father, T[p].pgrp) THEN HangUpAll(T, {T[p].pgrp}) ELSE T
<1>1. Keeps(ts, T, p)
  <2> DEFINE A == [ts EXCEPT ![p].state = "zombie"]
  <2>1. Keeps(ts, A, p)
    BY DEF Keeps, Good, Rec, Fields
  <2> HIDE DEF A
  <2>2. Keeps(A, [A EXCEPT ![p].exit_code = local[p].n], p)
    BY <2>1, KeepsGood, FieldKeeps
  <2>3. T = [A EXCEPT ![p].exit_code = local[p].n]
    BY DEF A
  <2> QED  BY <2>1, <2>2, <2>3, KeepsChain
<1> HIDE DEF T
<1>2. Keeps(T, U, p)
  <2>1. Good(T)
    BY <1>1, KeepsGood
  <2> QED  BY <2>1, HangUpKeeps, KeepsSame
<1> HIDE DEF U
<1>3. Keeps(U, Told(U, father), p)
  <2>1. Good(U)
    BY <1>2, KeepsGood
  <2> QED  BY <2>1, ToldKeeps
<1>4. Zombie(p) = Told(U, father)
  BY DEF Zombie, U, T
<1> QED  BY <1>1, <1>2, <1>3, <1>4, KeepsChain

LEMMA SplicedKeeps ==
    ASSUME NEW T, Good(T), NEW p
    PROVE  Keeps(T, Spliced(T, p), p)
<1> DEFINE kids == Kids(T, p)
           oldest == kids[Len(kids)]
           first == T[InitTask].p_cptr
           U == [T EXCEPT ![oldest].p_osptr = first, ![first].p_ysptr = oldest,
                          ![InitTask].p_cptr = T[p].p_cptr, ![p].p_cptr = Null]
<1>1. Keeps(T, U, p)
  <2> HIDE DEF oldest, first
  <2> DEFINE A == [T EXCEPT ![oldest].p_osptr = first]
             B == [A EXCEPT ![first].p_ysptr = oldest]
             C == [B EXCEPT ![InitTask].p_cptr = T[p].p_cptr]
  <2>1. Keeps(T, A, p) /\ Good(A)
    BY FieldKeeps, KeepsGood
  <2> HIDE DEF A
  <2>2. Keeps(A, B, p) /\ Good(B)
    BY <2>1, FieldKeeps, KeepsGood
  <2> HIDE DEF B
  <2>3. Keeps(B, C, p) /\ Good(C)
    BY <2>2, FieldKeeps, KeepsGood
  <2> HIDE DEF C
  <2>4. Keeps(C, [C EXCEPT ![p].p_cptr = Null], p)
    BY <2>3, FieldKeeps
  <2>5. U = [C EXCEPT ![p].p_cptr = Null]
    BY DEF A, B, C
  <2> QED  BY <2>1, <2>2, <2>3, <2>4, <2>5, KeepsChain
<1>2. Spliced(T, p) \in {T, U}
  BY DEF Spliced
<1> QED  BY <1>1, <1>2, KeepsSame

LEMMA LeaderGoneKeeps ==
    ASSUME NEW T, Good(T), NEW p
    PROVE  Keeps(T, LeaderGone(T, p), p)
<1> DEFINE U == IF T[p].tty THEN kill_pg(T, tty.pgrp, SIGHUP) ELSE T
<1>1. Keeps(T, U, p)
  BY KillPgKeeps, KeepsSame
<1> HIDE DEF U
<1>2. Keeps(U, Disconnected(U, p), p)
  <2> DEFINE D == Disconnected(U, p)
  <2>1. Good(U) /\ D = [x \in All |-> D[x]]
    BY <1>1 DEF Keeps, Good, Disconnected
  <2>2. ASSUME NEW x \in All
        PROVE  Rec(D[x]) /\ D[x].pid = U[x].pid /\ D[x].state = U[x].state
    <3>1. Rec(U[x]) /\ x \in DOMAIN U
      BY <2>1 DEF Good
    <3>2. D[x] \in {U[x], [U[x] EXCEPT !.tty = FALSE]}
      BY <3>1 DEF Disconnected
    <3> HIDE DEF D
    <3> QED  BY <3>1, <3>2 DEF Rec, Fields
  <2> HIDE DEF D
  <2>3. Keeps(U, D, p)
    BY <2>1, <2>2 DEF Keeps, Good
  <2> QED  BY <2>3 DEF D
<1>3. LeaderGone(T, p) \in {T, Disconnected(U, p)}
  BY DEF LeaderGone, U
<1> QED  BY <1>1, <1>2, <1>3, KeepsChain, KeepsSame

LEMMA LinkedKeeps ==
    ASSUME NEW T, Good(T), NEW p, NEW q, NEW z
    PROVE  Keeps(T, Linked(T, p, q), z)
<1> DEFINE older == T[p].p_cptr
           new == [T EXCEPT ![q].p_pptr = p, ![q].p_cptr = Null, ![q].p_ysptr = Null,
                            ![q].p_osptr = older, ![q].state = "running", ![p].p_cptr = q]
           linked == [new EXCEPT ![older].p_ysptr = q]
<1>1. Keeps(T, new, z)
  <2> HIDE DEF older
  <2> DEFINE A == [T EXCEPT ![q].p_pptr = p]
             B == [A EXCEPT ![q].p_cptr = Null]
             C == [B EXCEPT ![q].p_ysptr = Null]
             D == [C EXCEPT ![q].p_osptr = older]
             E == [D EXCEPT ![q].state = "running"]
  <2>1. Keeps(T, A, z) /\ Good(A)
    BY FieldKeeps, KeepsGood
  <2> HIDE DEF A
  <2>2. Keeps(A, B, z) /\ Good(B)
    BY <2>1, FieldKeeps, KeepsGood
  <2> HIDE DEF B
  <2>3. Keeps(B, C, z) /\ Good(C)
    BY <2>2, FieldKeeps, KeepsGood
  <2> HIDE DEF C
  <2>4. Keeps(C, D, z) /\ Good(D)
    BY <2>3, FieldKeeps, KeepsGood
  <2> HIDE DEF D
  <2>5. Keeps(D, E, z)
    BY <2>4, StateKeeps
  <2>6. Good(E)
    BY <2>5, KeepsGood
  <2> HIDE DEF E
  <2>7. Keeps(E, [E EXCEPT ![p].p_cptr = q], z)
    BY <2>6, FieldKeeps
  <2>8. new = [E EXCEPT ![p].p_cptr = q]
    BY DEF A, B, C, D, E
  <2> QED  BY <2>1, <2>2, <2>3, <2>4, <2>5, <2>7, <2>8, KeepsChain
<1>2. Keeps(new, linked, z)
  <2> HIDE DEF older, new
  <2>1. Good(new)
    BY <1>1, KeepsGood
  <2> QED  BY <2>1, FieldKeeps
<1>3. Linked(T, p, q) \in {new, linked}
  BY DEF Linked
<1> HIDE DEF new, linked
<1> QED  BY <1>1, <1>2, <1>3, KeepsChain

LEMMA UnlinkedKeeps ==
    ASSUME NEW T, Good(T), NEW q, NEW p
    PROVE  Keeps(T, Unlinked(T, q), p)
<1> DEFINE older == T[q].p_osptr
           younger == T[q].p_ysptr
           U == IF older = Null THEN T ELSE [T EXCEPT ![older].p_ysptr = younger]
           V == IF younger = Null THEN [U EXCEPT ![T[q].p_pptr].p_cptr = older]
                ELSE [U EXCEPT ![younger].p_osptr = older]
<1>1. Keeps(T, U, p)
  <2> HIDE DEF older, younger
  <2> QED  BY FieldKeeps, KeepsSame
<1>2. Keeps(U, V, p)
  <2> HIDE DEF older, younger, U
  <2>1. Good(U)
    BY <1>1, KeepsGood
  <2> QED  BY <2>1, FieldKeeps
<1>3. Unlinked(T, q) = V
  BY DEF Unlinked
<1> HIDE DEF U, V
<1> QED  BY <1>1, <1>2, <1>3, KeepsChain

\* A freed page may lose its pid, every other task keeps it.
LEMMA FreedGood ==
    ASSUME NEW T, Good(T), NEW q
    PROVE  /\ Good(Freed(T, q))
           /\ \A x \in All \ {q} : Freed(T, q)[x] = T[x]
<1>1. Good([T EXCEPT ![q] = Blank]) /\ \A x \in All \ {q} : [T EXCEPT ![q] = Blank][x] = T[x]
  BY DEF Good, Rec, Fields, Blank
<1>2. Freed(T, q) \in {T, [T EXCEPT ![q] = Blank]}
  BY DEF Freed
<1> QED  BY <1>1, <1>2

LEMMA LeastIn ==
    ASSUME NEW S, S \subseteq Nat, S # {}
    PROVE  \E m \in S : \A y \in S : m <= y
<1> DEFINE R == {x \in Nat \X Nat : x[1] < x[2]}
<1>1. IsWellFoundedOn(R, Nat)
  BY NatLessThanWellFounded DEF OpToRel
<1> HIDE DEF R
<1>2. PICK m \in S : \A y \in S : <<y, m>> \notin R
  BY <1>1, WFMin
<1>3. ASSUME NEW y \in S PROVE m <= y
  <2>1. <<y, m>> \in Nat \X Nat /\ <<y, m>> \notin R
    BY <1>2
  <2>2. ~(y < m)
    BY <2>1 DEF R
  <2> QED  BY <2>2
<1> QED  BY <1>3

LEMMA LowestIn ==
    ASSUME NEW S, S \subseteq Nat, S # {}
    PROVE  Lowest(S) \in S
BY LeastIn DEF Lowest

----------------------------------------------------------------------------
(* The invariant.                                                          *)

PCs == {"free", "new", "user", "page", "copy", "wait", "exit", "dead"}
Shape ==
    /\ task \in [Slots \cup {1} -> Tasks \cup {Null}]
    /\ pc \in [Tasks -> PCs]
    /\ local = [x \in Tasks |-> local[x]]
    /\ Good(ts)

\* Nobody sleeps in get_free_page() of copy_process().
NoPage == \A p \in Tasks : pc[p] # "page"

FreeUnlisted == \A p \in Tasks : pc[p] = "free" => p \notin Listed

OneEntry == \A m, n \in Slots \cup {1} : task[m] = task[n] /\ task[n] # Null => m = n

\* A fork asleep in copy_mem() owns its entry and its child.
Copying ==
    /\ \A p \in Tasks : pc[p] = "copy" =>
        /\ local[p].q \in Tasks /\ pc[local[p].q] = "new"
        /\ local[p].n \in Slots \cup {1} /\ task[local[p].n] = local[p].q
    /\ \A p, r \in Tasks :
        pc[p] = "copy" /\ pc[r] = "copy" /\ local[p].q = local[r].q => p = r

\* A zombie has gone through do_exit(); a page that is free again may
\* still look like one.
ZombieDead == \A p \in Tasks : ts[p].state = "zombie" => pc[p] \in {"dead", "free"}

OnePid == \A p, q \in Listed : ts[p].pid = ts[q].pid => p = q

Core == Shape /\ NoPage /\ FreeUnlisted /\ OneEntry /\ Copying /\ ZombieDead /\ OnePid

IInv == "page" \notin use.sleeps => Core

LEMMA ListedTasks == ASSUME Shape PROVE Listed \subseteq Tasks /\ Tasks \subseteq All
  BY DEF Shape, Listed, All

\* A step of p changes neither the place nor the local variables of others.
Moves(p) ==
    \/ pc' = pc \/ pc' = [pc EXCEPT ![p] = "user"] \/ pc' = [pc EXCEPT ![p] = "exit"]
    \/ pc' = [pc EXCEPT ![p] = "wait"] \/ pc' = [pc EXCEPT ![p] = "dead"]
LocalStill(p) == local' = [x \in Tasks |-> IF x = p THEN local'[p] ELSE local[x]]

\* A step of a process that neither makes nor frees a task.
LEMMA Still ==
    ASSUME Core, NEW p \in Tasks, pc[p] \in {"user", "wait", "exit"},
           task' = task,
           Keeps(ts, ts', Null) \/ (Keeps(ts, ts', p) /\ pc' = [pc EXCEPT ![p] = "dead"]),
           Moves(p), LocalStill(p)
    PROVE  Core'
<1> USE DEF Core
<1>1. pc' \in [Tasks -> PCs]
  BY DEF Shape, PCs, Moves
<1>2. \A x \in Tasks : x # p => pc'[x] = pc[x] /\ local'[x] = local[x]
  BY DEF Shape, Moves, LocalStill
<1>3. pc'[p] \notin {"free", "new", "copy", "page"}
  BY DEF Shape, NoPage, Moves
<1>4. local' = [x \in Tasks |-> local'[x]]
  BY DEF Shape, LocalStill
<1>5. Shape'
  BY <1>1, <1>4 DEF Shape, Keeps
<1>6. NoPage'
  BY <1>2, <1>3 DEF NoPage
<1>7. Listed' = Listed
  BY DEF Listed
<1>8. FreeUnlisted'
  BY <1>2, <1>3, <1>7 DEF FreeUnlisted
<1>9. OneEntry'
  BY DEF OneEntry
<1>10. Copying'
  <2>1. ASSUME NEW x \in Tasks, pc'[x] = "copy"
        PROVE  x # p /\ pc[x] = "copy" /\ local'[x] = local[x]
    BY <2>1, <1>2, <1>3
  <2>2. ASSUME NEW x \in Tasks, pc[x] = "new" PROVE pc'[x] = "new"
    BY <2>2, <1>2
  <2> QED  BY <2>1, <2>2 DEF Copying
<1>11. ZombieDead'
  <2> SUFFICES ASSUME NEW x \in Tasks, ts'[x].state = "zombie"
               PROVE  pc'[x] \in {"dead", "free"}
    BY DEF ZombieDead
  <2>1. x \in All /\ x # Null
    BY TasksAssumption DEF All, Tasks
  <2>2. CASE x # p
    BY <1>2, <2>1, <2>2 DEF ZombieDead, Keeps
  <2>3. CASE x = p /\ Keeps(ts, ts', Null)
    BY <2>1, <2>3 DEF ZombieDead, Keeps, Shape
  <2>4. CASE x = p /\ pc' = [pc EXCEPT ![p] = "dead"]
    BY <2>4 DEF Shape
  <2> QED  BY <2>2, <2>3, <2>4
<1>12. OnePid'
  <2>1. \A x \in Listed : ts'[x].pid = ts[x].pid
    BY ListedTasks DEF Keeps
  <2> QED  BY <1>7, <2>1 DEF OnePid
<1> QED  BY <1>5, <1>6, <1>8, <1>9, <1>10, <1>11, <1>12

\* A page that leaves task[] is free, as the zombie of release() or the
\* child of a fork that fails.
LEMMA Gone ==
    ASSUME Core, NEW p \in Tasks, pc[p] \notin {"free", "new"},
           pc[p] # "dead", NEW q \in Tasks, q # p,
           pc' = [pc EXCEPT ![p] = "user", ![q] = "free"],
           task' = [n \in DOMAIN task |-> IF task[n] = q THEN Null ELSE task[n]],
           local' = [local EXCEPT ![p] = NoLocals],
           NEW T, Keeps(ts, T, Null), ts' = Freed(T, q),
           pc[q] = "new" => pc[p] = "copy" /\ local[p].q = q
    PROVE  Core'
<1> USE DEF Core
<1>1. pc' \in [Tasks -> PCs] /\ local' = [x \in Tasks |-> local'[x]]
  BY DEF Shape, PCs
<1>2. \A x \in Tasks \ {p, q} : pc'[x] = pc[x] /\ local'[x] = local[x]
  BY DEF Shape
<1>3. pc'[p] = "user" /\ pc'[q] = "free"
  BY DEF Shape
<1>4. Good(ts') /\ \A x \in All \ {q} : ts'[x] = T[x]
  BY FreedGood DEF Keeps
<1>5. Null \notin Tasks
  BY TasksAssumption DEF Tasks
<1>6. task' \in [Slots \cup {1} -> Tasks \cup {Null}]
  BY DEF Shape
<1>7. Listed' = Listed \ {q}
  BY <1>5 DEF Listed, Shape
<1>8. Shape'
  BY <1>1, <1>4, <1>6 DEF Shape
<1>9. NoPage'
  BY <1>2, <1>3 DEF NoPage
<1>10. FreeUnlisted'
  BY <1>2, <1>3, <1>7 DEF FreeUnlisted
<1>11. OneEntry'
  BY DEF OneEntry, Shape
<1>12. Copying'
  <2>1. ASSUME NEW x \in Tasks, pc'[x] = "copy"
        PROVE  x \notin {p, q} /\ pc[x] = "copy" /\ local'[x] = local[x]
    BY <2>1, <1>2, <1>3
  <2>2. ASSUME NEW x \in Tasks, pc'[x] = "copy"
        PROVE  local[x].q \notin {p, q}
    <3>1. x # p /\ pc[x] = "copy" /\ pc[local[x].q] = "new"
      BY <2>1, <2>2 DEF Copying
    <3>2. CASE local[x].q = q
      <4>1. pc[p] = "copy" /\ local[p].q = local[x].q
        BY <3>1, <3>2
      <4> QED  BY <3>1, <4>1 DEF Copying
    <3> QED  BY <3>1, <3>2
  <2>3. ASSUME NEW x \in Tasks, pc'[x] = "copy"
        PROVE  /\ local[x].q \in Tasks /\ pc'[local[x].q] = "new"
               /\ local[x].n \in Slots \cup {1} /\ task'[local[x].n] = local[x].q
    BY <2>1, <2>2, <2>3, <1>2 DEF Copying, Shape
  <2>4. ASSUME NEW x \in Tasks, NEW r \in Tasks, pc'[x] = "copy", pc'[r] = "copy",
               local'[x].q = local'[r].q
        PROVE  x = r
    BY <2>1, <2>4 DEF Copying
  <2>5. ASSUME NEW x \in Tasks, pc'[x] = "copy"
        PROVE  /\ local'[x].q \in Tasks /\ pc'[local'[x].q] = "new"
               /\ local'[x].n \in Slots \cup {1} /\ task'[local'[x].n] = local'[x].q
    <3>1. local'[x] = local[x]
      BY <2>1, <2>5
    <3>2. /\ local[x].q \in Tasks /\ pc'[local[x].q] = "new"
          /\ local[x].n \in Slots \cup {1} /\ task'[local[x].n] = local[x].q
      BY <2>3, <2>5
    <3> QED  BY <3>1, <3>2
  <2> HIDE DEF Core
  <2> QED  BY <2>4, <2>5 DEF Copying
<1>13. ZombieDead'
  <2> SUFFICES ASSUME NEW x \in Tasks, ts'[x].state = "zombie"
               PROVE  pc'[x] \in {"dead", "free"}
    BY DEF ZombieDead
  <2>1. x \in All /\ x # Null
    BY <1>5 DEF All
  <2>2. CASE x = q
    BY <1>3, <2>2
  <2>3. CASE x # q
    <3>1. ts[x].state = "zombie"
      BY <1>4, <2>1, <2>3 DEF Keeps
    <3>2. pc[x] \in {"dead", "free"}
      BY <3>1 DEF ZombieDead
    <3> QED  BY <1>2, <3>2, <2>3
  <2> QED  BY <2>2, <2>3
<1>14. OnePid'
  <2>1. \A x \in Listed' : x \in Listed /\ ts'[x].pid = ts[x].pid
    BY <1>4, <1>7, ListedTasks DEF Keeps
  <2> QED  BY <2>1 DEF OnePid
<1> QED  BY <1>8, <1>9, <1>10, <1>11, <1>12, <1>13, <1>14

\* What copy_process() does with a page that was free: it lists it in an
\* empty entry of task[], with a pid no task has.
LEMMA Added ==
    ASSUME Core, NEW p \in Tasks, pc[p] = "user", p \in Listed,
           NEW n \in Slots, task[n] = Null, NEW q \in Pages, pc[q] = "free",
           NEW pid, ~PidInUse(pid), task' = [task EXCEPT ![n] = q],
           Keeps([ts EXCEPT ![q] = Embryo(p, pid)], ts', Null),
           \/ /\ pc' = [pc EXCEPT ![q] = "new"] /\ local' = local
           \/ /\ pc' = [pc EXCEPT ![p] = "user", ![q] = "user"]
              /\ local' = [local EXCEPT ![p] = NoLocals]
           \/ /\ pc' = [pc EXCEPT ![p] = "copy", ![q] = "new"]
              /\ local' = [local EXCEPT ![p] = [NoLocals EXCEPT !.n = n, !.q = q]]
    PROVE  Core'
<1> USE DEF Core
<1> DEFINE T == [ts EXCEPT ![q] = Embryo(p, pid)]
<1>1. p # q /\ q \in Tasks /\ q \in All /\ p \in All /\ q \notin Listed
  BY DEF FreeUnlisted, Tasks, All
<1>2. /\ T[q].pid = pid /\ T[q].state = "uninterruptible"
      /\ \A x \in All \ {q} : T[x] = ts[x]
  <2>1. T[q] = Embryo(p, pid) /\ \A x \in All \ {q} : T[x] = ts[x]
    BY <1>1 DEF Shape, Good
  <2>2. Rec(ts[p])
    BY <1>1 DEF Shape, Good
  <2>3. Embryo(p, pid).pid = pid /\ Embryo(p, pid).state = "uninterruptible"
    BY <2>2 DEF Embryo, Rec, Fields
  <2> QED  BY <2>1, <2>3
<1> HIDE DEF T
<1>3. /\ ts'[q].pid = pid
      /\ ts'[q].state # "zombie"
      /\ \A x \in All \ {q} : /\ ts'[x].pid = ts[x].pid
                              /\ ts'[x].state = "zombie" => ts[x].state = "zombie"
  <2>1. Null \notin All
    BY TasksAssumption DEF All, Tasks
  <2> QED  BY <1>1, <1>2, <2>1 DEF Keeps, T
<1>4. pc' \in [Tasks -> PCs] /\ local' = [x \in Tasks |-> local'[x]]
  BY <1>1 DEF Shape, PCs
<1>5. \A x \in Tasks \ {p, q} : pc'[x] = pc[x] /\ local'[x] = local[x]
  BY <1>1 DEF Shape
<1>6. /\ pc'[p] \in {"user", "copy"} /\ pc'[q] \in {"user", "new"}
      /\ pc'[p] = "copy" => pc'[q] = "new" /\ local'[p].n = n /\ local'[p].q = q
  BY <1>1, <1>2 DEF Shape, T, NoLocals
<1>7. task' \in [Slots \cup {1} -> Tasks \cup {Null}] /\ task'[n] = q
  BY <1>1 DEF Shape
<1>8. Null \notin Tasks
  BY TasksAssumption DEF Tasks
<1>9. Listed' = Listed \cup {q}
  BY <1>1, <1>8 DEF Listed, Shape
<1>10. Shape'
  BY <1>4, <1>7 DEF Shape, Keeps
<1>11. NoPage'
  BY <1>5, <1>6 DEF NoPage
<1>12. FreeUnlisted'
  BY <1>1, <1>5, <1>6, <1>9 DEF FreeUnlisted
<1>13. OneEntry'
  BY <1>1 DEF OneEntry, Shape, Listed
<1>14. Copying'
  <2>1. ASSUME NEW x \in Tasks, x # p, pc'[x] = "copy"
        PROVE  pc[x] = "copy" /\ local'[x] = local[x] /\ x # q
    BY <2>1, <1>5, <1>6
  <2>2. ASSUME NEW x \in Tasks, x # p, pc'[x] = "copy"
        PROVE  /\ local[x].q \in Tasks \ {p, q}
               /\ pc'[local[x].q] = "new"
               /\ local[x].n \in Slots \cup {1} /\ task'[local[x].n] = local[x].q
    <3>1. pc[x] = "copy"
      BY <2>1, <2>2
    <3>2. /\ local[x].q \in Tasks /\ pc[local[x].q] = "new"
          /\ local[x].n \in Slots \cup {1} /\ task[local[x].n] = local[x].q
      BY <3>1, <2>2 DEF Copying
    <3>3. local[x].q \notin {p, q} /\ local[x].n # n
      BY <3>2, <1>8
    <3> QED  BY <3>2, <3>3, <1>5 DEF Shape
  <2>3. \A x \in Tasks : pc'[x] = "copy" =>
            /\ local'[x].q \in Tasks /\ pc'[local'[x].q] = "new"
            /\ local'[x].n \in Slots \cup {1} /\ task'[local'[x].n] = local'[x].q
    <3> SUFFICES ASSUME NEW x \in Tasks, pc'[x] = "copy"
                 PROVE  /\ local'[x].q \in Tasks /\ pc'[local'[x].q] = "new"
                        /\ local'[x].n \in Slots \cup {1} /\ task'[local'[x].n] = local'[x].q
      OBVIOUS
    <3>1. CASE x = p
      BY <3>1, <1>1, <1>6, <1>7
    <3>2. CASE x # p
      BY <3>2, <2>1, <2>2
    <3> QED  BY <3>1, <3>2
  <2>4. ASSUME NEW x \in Tasks, NEW r \in Tasks, pc'[x] = "copy", pc'[r] = "copy",
               local'[x].q = local'[r].q
        PROVE  x = r
    <3>1. CASE x # p /\ r # p
      BY <3>1, <2>1, <2>4 DEF Copying
    <3>2. CASE x = p /\ r # p
      BY <3>2, <2>1, <2>2, <2>4, <1>6
    <3>3. CASE x # p /\ r = p
      BY <3>3, <2>1, <2>2, <2>4, <1>6
    <3> QED  BY <3>1, <3>2, <3>3
  <2> QED  BY <2>3, <2>4 DEF Copying
<1>15. ZombieDead'
  <2> SUFFICES ASSUME NEW x \in Tasks, ts'[x].state = "zombie"
               PROVE  pc'[x] \in {"dead", "free"}
    BY DEF ZombieDead
  <2>1. x # q /\ x \in All
    BY <1>3 DEF All
  <2>2. pc[x] \in {"dead", "free"}
    BY <1>3, <2>1 DEF ZombieDead
  <2> QED  BY <1>5, <2>1, <2>2
<1>16. OnePid'
  <2>1. \A x \in Listed : x # q /\ ts'[x].pid = ts[x].pid /\ ts[x].pid # pid
    BY <1>1, <1>3, ListedTasks DEF PidInUse
  <2> QED  BY <1>3, <1>9, <2>1 DEF OnePid
<1> QED  BY <1>10, <1>11, <1>12, <1>13, <1>14, <1>15, <1>16

----------------------------------------------------------------------------
(* The actions.                                                            *)

LEMMA KillCore ==
    ASSUME Core, NEW p \in Tasks, NEW w, NEW sig, Kill(p, w, sig)
    PROVE  Core'
<1>1. Good(ts)
  BY DEF Core, Shape
<1>2. Keeps(ts, ts', Null)
  BY <1>1, SentKeeps DEF Kill, Keeps, Good
<1>3. pc[p] = "user" /\ task' = task /\ Moves(p) /\ LocalStill(p)
  BY DEF Kill, Enters, Moves, LocalStill, Core, Shape
<1> QED  BY <1>2, <1>3, Still

LEMMA DeliverCore ==
    ASSUME Core, NEW p \in Tasks, Deliver(p)
    PROVE  Core'
<1> DEFINE sig == Lowest(ts[p].signal)
           taken == [ts EXCEPT ![p].signal = @ \ {sig}]
           stopped == [taken EXCEPT ![p].state = "stopped"]
           coded == [stopped EXCEPT ![p].exit_code = SIGSTOP]
<1>1. Good(ts)
  BY DEF Core, Shape
<1>2. Keeps(ts, taken, Null) /\ Good(taken)
  BY <1>1, FieldKeeps, KeepsGood
<1>3. CASE ts' = taken
  <2>1. Keeps(ts, ts', Null)
    BY <1>2, <1>3
  <2>2. pc[p] = "user" /\ task' = task /\ Moves(p) /\ LocalStill(p)
    BY <1>3 DEF Deliver, Moves, LocalStill, Core, Shape
  <2> QED  BY <2>1, <2>2, Still
<1>4. CASE ts' = Told(coded, ts[p].p_pptr) /\ UNCHANGED <<spaces, pc, local>>
  <2> HIDE DEF taken
  <2>1. Keeps(taken, stopped, Null) /\ Good(stopped)
    BY <1>2, StateKeeps, KeepsGood
  <2> HIDE DEF stopped
  <2>2. Keeps(stopped, coded, Null) /\ Good(coded)
    BY <2>1, FieldKeeps, KeepsGood
  <2> HIDE DEF coded
  <2>3. Keeps(coded, ts', Null)
    BY <2>2, <1>4, ToldKeeps
  <2>4. Keeps(ts, ts', Null)
    BY <1>2, <2>1, <2>2, <2>3, KeepsChain
  <2>5. pc[p] = "user" /\ task' = task /\ Moves(p) /\ LocalStill(p)
    BY <1>4 DEF Deliver, Moves, LocalStill, Core, Shape
  <2> QED  BY <2>4, <2>5, Still
<1> QED  BY <1>3, <1>4 DEF Deliver

LEMMA ForkCore ==
    ASSUME Core, "page" \notin use.sleeps, NEW p \in Tasks, Fork(p)
    PROVE  Core'
<1> DEFINE empty == {n \in Slots : task[n] = Null}
<1>1. pc[p] = "user" /\ p \in Listed /\ Good(ts)
  BY DEF Fork, Enters, Core, Shape
<1>2. ~PidInUse(NextPid)
  <2>1. NextPid # 0
    BY DEF Fork
  <2> DEFINE tried[i \in 1..MaxPid] == IF i = 1 THEN After(last_pid) ELSE After(tried[i - 1])
             fits == {i \in 1..MaxPid : ~PidInUse(tried[i])}
  <2>2. NextPid = IF fits = {} THEN 0 ELSE tried[Lowest(fits)]
    BY DEF NextPid
  <2> HIDE DEF tried
  <2>3. fits # {} /\ fits \subseteq Nat
    BY <2>1, <2>2
  <2>4. Lowest(fits) \in fits
    BY <2>3, LowestIn
  <2> QED  BY <2>2, <2>3, <2>4
<1>3. CASE Failed(p)
  <2>1. Keeps(ts, ts', Null) /\ task' = task
    BY <1>1, <1>3, KeepsSame DEF Failed
  <2>2. Moves(p) /\ LocalStill(p)
    BY <1>3 DEF Failed, Moves, LocalStill, Core, Shape
  <2> QED  BY <1>1, <2>1, <2>2, Still
<1>4. CASE empty # {} /\ CopyProcess(p, Lowest(empty), NextPid)
  <2>1. Lowest(empty) \in empty
    BY <1>4, LowestIn, SlotsAssumption
  <2> DEFINE n == Lowest(empty)
  <2>2. n \in Slots /\ task[n] = Null
    BY <2>1
  <2> HIDE DEF n
  <2>3. PICK q \in Pages :
          /\ pc[q] = "free" /\ task' = [task EXCEPT ![n] = q]
          /\ LET T == [ts EXCEPT ![q] = Embryo(p, NextPid)] IN
             \/ /\ ts' = T /\ pc' = [pc EXCEPT ![q] = "new"] /\ local' = local
             \/ /\ ts' = Linked(T, p, q)
                /\ pc' = [pc EXCEPT ![p] = "user", ![q] = "user"]
                /\ local' = [local EXCEPT ![p] = NoLocals]
             \/ /\ ts' = T
                /\ pc' = [pc EXCEPT ![p] = "copy", ![q] = "new"]
                /\ local' = [local EXCEPT ![p] = [NoLocals EXCEPT !.n = n, !.q = q]]
    BY <1>4 DEF CopyProcess, n
  <2> DEFINE T == [ts EXCEPT ![q] = Embryo(p, NextPid)]
  <2>4. Good(T)
    <3>1. Rec(ts[p])
      BY <1>1, ListedTasks DEF Good, Core, All
    <3>2. Rec(Embryo(p, NextPid))
      BY <3>1 DEF Embryo, Rec, Fields
    <3> QED  BY <1>1, <3>2 DEF Good
  <2> HIDE DEF T
  <2>5. Keeps(T, ts', Null)
    BY <2>3, <2>4, LinkedKeeps, KeepsSame DEF T
  <2> HIDE DEF Core, Keeps
  <2> QED  BY <1>1, <1>2, <2>2, <2>3, <2>5, Added DEF T
<1> QED  BY <1>3, <1>4 DEF Fork

LEMMA CopyDoneCore ==
    ASSUME Core, NEW p \in Tasks, CopyDone(p)
    PROVE  Core'
<1> DEFINE q == local[p].q
<1>1. /\ pc[p] = "copy" /\ q \in Tasks /\ pc[q] = "new" /\ q # p
      /\ local[p].n \in Slots \cup {1} /\ task[local[p].n] = q /\ Good(ts)
  BY DEF CopyDone, Core, Copying, Shape
<1> HIDE DEF q
<1>2. CASE /\ ts' = Linked(ts, p, q)
           /\ pc' = [pc EXCEPT ![p] = "user", ![q] = "user"]
           /\ task' = task
           /\ local' = [local EXCEPT ![p] = NoLocals]
  <2>1. Keeps(ts, ts', Null)
    BY <1>1, <1>2, LinkedKeeps
  <2>2. /\ pc' \in [Tasks -> PCs] /\ local' = [x \in Tasks |-> local'[x]]
        /\ pc'[p] = "user" /\ pc'[q] = "user"
        /\ \A x \in Tasks \ {p, q} : pc'[x] = pc[x] /\ local'[x] = local[x]
    BY <1>1, <1>2 DEF Core, Shape, PCs
  <2>3. Shape' /\ Listed' = Listed
    BY <1>2, <2>1, <2>2 DEF Core, Shape, Keeps, Listed
  <2>4. NoPage' /\ FreeUnlisted' /\ OneEntry'
    BY <1>2, <2>2, <2>3 DEF Core, NoPage, FreeUnlisted, OneEntry
  <2>5. Copying'
    <3>1. \A x \in Tasks : pc'[x] = "copy" =>
              x \notin {p, q} /\ pc[x] = "copy" /\ local'[x] = local[x]
      BY <2>2
    <3>2. ASSUME NEW x \in Tasks, pc'[x] = "copy"
          PROVE  local[x].q \in Tasks \ {p, q} /\ pc[local[x].q] = "new"
      BY <1>1, <3>1, <3>2 DEF Core, Copying, q
    <3>3. ASSUME NEW x \in Tasks, pc'[x] = "copy"
          PROVE  pc'[local'[x].q] = "new"
      BY <2>2, <3>1, <3>2, <3>3
    <3>4. ASSUME NEW x \in Tasks, NEW r \in Tasks, pc'[x] = "copy", pc'[r] = "copy",
                 local'[x].q = local'[r].q
          PROVE  x = r
      BY <3>1, <3>4 DEF Core, Copying
    <3>5. ASSUME NEW x \in Tasks, pc'[x] = "copy"
          PROVE  /\ local'[x].q \in Tasks
                 /\ local'[x].n \in Slots \cup {1} /\ task'[local'[x].n] = local'[x].q
      BY <1>2, <3>1, <3>5 DEF Core, Copying
    <3> QED  BY <3>3, <3>4, <3>5 DEF Copying
  <2>6. ZombieDead'
    <3> SUFFICES ASSUME NEW x \in Tasks, ts'[x].state = "zombie"
                 PROVE  pc'[x] \in {"dead", "free"}
      BY DEF ZombieDead
    <3>1. x \in All /\ x # Null
      BY TasksAssumption DEF All, Tasks
    <3>2. pc[x] \in {"dead", "free"}
      BY <2>1, <3>1 DEF Core, ZombieDead, Keeps
    <3> QED  BY <1>1, <2>2, <3>2
  <2>7. OnePid'
    <3>1. \A x \in Listed : ts'[x].pid = ts[x].pid
      BY <2>1, ListedTasks DEF Core, Keeps
    <3> QED  BY <2>3, <3>1 DEF Core, OnePid
  <2> QED  BY <2>3, <2>4, <2>5, <2>6, <2>7 DEF Core
<1>3. CASE /\ ts' = Freed(ts, q)
           /\ pc' = [pc EXCEPT ![p] = "user", ![q] = "free"]
           /\ task' = [task EXCEPT ![local[p].n] = Null]
           /\ local' = [local EXCEPT ![p] = NoLocals]
  <2>1. Keeps(ts, ts, Null)
    BY <1>1, KeepsSame
  <2>2. q # Null
    BY <1>1, TasksAssumption DEF Tasks
  <2>3. task' = [n \in DOMAIN task |-> IF task[n] = q THEN Null ELSE task[n]]
    BY <1>1, <1>3, <2>2 DEF Core, Shape, OneEntry
  <2> HIDE DEF Core
  <2> QED  BY <1>1, <1>3, <2>1, <2>3, Gone DEF q
<1> QED  BY <1>2, <1>3 DEF CopyDone, q

LEMMA DieCore ==
    ASSUME Core, NEW p \in Tasks, Die(p)
    PROVE  Core'
<1> DEFINE T == Orphans(Zombie(p), p)
<1>1. Good(ts) /\ pc[p] = "exit"
  BY DEF Die, Core, Shape
<1>2. Keeps(ts, Zombie(p), p) /\ Good(Zombie(p))
  BY <1>1, ZombieKeeps, KeepsGood
<1>3. Keeps(Zombie(p), T, p) /\ Good(T)
  BY <1>2, OrphansKeeps, KeepsGood
<1> HIDE DEF T
<1>4. Keeps(T, Spliced(T, p), p) /\ Good(Spliced(T, p))
  BY <1>3, SplicedKeeps, KeepsGood
<1>5. Keeps(Spliced(T, p), LeaderGone(Spliced(T, p), p), p)
  BY <1>4, LeaderGoneKeeps
<1>6. Keeps(ts, LeaderGone(Spliced(T, p), p), p)
  BY <1>2, <1>3, <1>4, <1>5, KeepsChain
<1>7. Keeps(ts, ts, Null)
  BY <1>1, KeepsSame
<1>8. task' = task /\ Moves(p) /\ LocalStill(p)
  BY DEF Die, Moves, LocalStill, Core, Shape
<1>9. ts' = ts \/ (Keeps(ts, ts', p) /\ pc' = [pc EXCEPT ![p] = "dead"])
  BY <1>6 DEF Die, T
<1>10. Keeps(ts, ts', Null) \/ (Keeps(ts, ts', p) /\ pc' = [pc EXCEPT ![p] = "dead"])
  BY <1>7, <1>9
<1> QED  BY <1>1, <1>8, <1>10, Still

\* A report of waitpid(), whether it has slept or not.
LEMMA CollectCore ==
    ASSUME Core, NEW p \in Tasks, pc[p] \in {"user", "wait"}, p \in Listed,
           NEW q, NEW awake, Keeps(ts, awake, Null),
           Collect(p, q, awake)
    PROVE  Core'
<1>1. CASE /\ ts' = [awake EXCEPT ![q].exit_code = 0]
           /\ WaitReturns(p, ts[q].pid) /\ task' = task
  <2>1. Good(awake)
    BY KeepsGood
  <2>2. Keeps(awake, ts', Null)
    BY <1>1, <2>1, FieldKeeps
  <2>3. Keeps(ts, ts', Null)
    BY <2>2, KeepsChain
  <2>4. Moves(p) /\ LocalStill(p)
    BY <1>1 DEF WaitReturns, Moves, LocalStill, Core, Shape
  <2> QED  BY <1>1, <2>3, <2>4, Still
<1>2. CASE /\ ts[q].state = "zombie" /\ q \in Listed
           /\ ts' = Freed(Unlinked(awake, q), q)
           /\ task' = [n \in DOMAIN task |-> IF task[n] = q THEN Null ELSE task[n]]
           /\ pc' = [pc EXCEPT ![p] = "user", ![q] = "free"]
           /\ local' = [local EXCEPT ![p] = NoLocals]
  <2>1. Good(awake)
    BY KeepsGood
  <2>2. Keeps(awake, Unlinked(awake, q), Null)
    BY <2>1, UnlinkedKeeps
  <2>3. Keeps(ts, Unlinked(awake, q), Null)
    BY <2>2, KeepsChain
  <2>4. q \in Tasks /\ q # p
    BY <1>2, ListedTasks DEF Core, ZombieDead
  <2>5. pc[q] # "new"
    BY <1>2, <2>4 DEF Core, ZombieDead
  <2> HIDE DEF Core
  <2> QED  BY <1>2, <2>3, <2>4, <2>5, Gone
<1>3. CASE panicked' = TRUE /\ UNCHANGED <<task, ts, pc, local, shell>>
  <2>1. Keeps(ts, ts', Null)
    BY <1>3, KeepsSame DEF Core, Shape
  <2>2. task' = task /\ Moves(p) /\ LocalStill(p)
    BY <1>3 DEF Moves, LocalStill, Core, Shape
  <2> QED  BY <2>1, <2>2, Still
<1> QED  BY <1>1, <1>2, <1>3 DEF Collect

LEMMA WaitCore ==
    ASSUME Core, NEW p \in Tasks, NEW w, NEW opts, Wait(p, w, opts)
    PROVE  Core'
<1>1. pc[p] = "user" /\ p \in Listed /\ Good(ts)
  BY DEF Wait, Enters, Core, Shape
<1>2. CASE Collect(p, First(p, Found(p, w, opts)), ts)
  <2>1. Keeps(ts, ts, Null)
    BY <1>1, KeepsSame
  <2> HIDE DEF Core
  <2> QED  BY <1>1, <1>2, <2>1, CollectCore
<1>3. CASE /\ ts' = [ts EXCEPT ![p].state = "interruptible"]
           /\ pc' = [pc EXCEPT ![p] = "wait"]
           /\ local' = [local EXCEPT ![p].w = w, ![p].opts = opts]
           /\ UNCHANGED <<task, shell, panicked>>
  <2>1. Keeps(ts, ts', Null)
    BY <1>1, <1>3, StateKeeps
  <2>2. task' = task /\ Moves(p) /\ LocalStill(p)
    BY <1>3 DEF Moves, LocalStill, Core, Shape
  <2> QED  BY <1>1, <2>1, <2>2, Still
<1> QED  BY <1>2, <1>3 DEF Wait

LEMMA WaitAgainCore ==
    ASSUME Core, NEW p \in Tasks, WaitAgain(p)
    PROVE  Core'
<1> DEFINE awake == [ts EXCEPT ![p].state = "running"]
           found == Found(p, local[p].w, local[p].opts)
<1>1. pc[p] = "wait" /\ p \in Listed /\ Good(ts)
  BY DEF WaitAgain, Core, Shape
<1>2. Keeps(ts, awake, Null)
  BY <1>1, StateKeeps
<1>3. CASE ts' = awake /\ WaitReturns(p, -1) /\ UNCHANGED <<task, panicked>>
  <2>1. Keeps(ts, ts', Null)
    BY <1>2, <1>3
  <2>2. task' = task /\ Moves(p) /\ LocalStill(p)
    BY <1>3 DEF WaitReturns, Moves, LocalStill, Core, Shape
  <2> QED  BY <1>1, <2>1, <2>2, Still
<1>4. CASE Collect(p, First(p, found), awake)
  <2> HIDE DEF awake, found
  <2> QED  BY <1>1, <1>2, <1>4, CollectCore
<1> QED  BY <1>3, <1>4 DEF WaitAgain

LEMMA OthersCore ==
    ASSUME Core, NEW p \in Tasks,
           \/ \E c \in Codes : Exit(p, c)
           \/ \E q \in Tasks, pgid \in 1..MaxPid : Setpgid(p, q, pgid)
           \/ Setsid(p) \/ OpenTty(p)
           \/ \E pgrp \in 1..MaxPid : SetForeground(p, pgrp)
    PROVE  Core'
<1>1. Good(ts)
  BY DEF Core, Shape
<1>2. /\ pc[p] = "user" /\ task' = task /\ Moves(p) /\ LocalStill(p)
      /\ \/ ts' = ts
         \/ \E q, pgid : ts' = [ts EXCEPT ![q].pgrp = pgid]
         \/ ts' = [ts EXCEPT ![p].tty = TRUE]
         \/ Setsid(p)
  <2>1. CASE \E c \in Codes : Exit(p, c)
    <3>1. PICK c \in Codes : Exit(p, c)
      BY <2>1
    <3>2. /\ pc[p] = "user" /\ task' = task /\ ts' = ts
          /\ pc' = [pc EXCEPT ![p] = "exit"] /\ local' = [local EXCEPT ![p].n = 256 * c]
      BY <3>1 DEF Exit, Enters
    <3>3. local = [x \in Tasks |-> local[x]]
      BY DEF Core, Shape
    <3>4. LocalStill(p)
      BY <3>2, <3>3 DEF LocalStill
    <3> QED  BY <3>2, <3>4 DEF Moves
  <2>2. CASE \E q \in Tasks, pgid \in 1..MaxPid : Setpgid(p, q, pgid)
    <3>1. PICK q \in Tasks, pgid \in 1..MaxPid : Setpgid(p, q, pgid)
      BY <2>2
    <3>2. /\ pc[p] = "user" /\ UNCHANGED <<task, pc, local>>
          /\ ts' = [ts EXCEPT ![q].pgrp = pgid]
      BY <3>1 DEF Setpgid, Enters
    <3>3. LocalStill(p)
      BY <3>2 DEF LocalStill, Core, Shape
    <3> QED  BY <3>2, <3>3 DEF Moves
  <2>3. CASE Setsid(p)
    BY <2>3 DEF Setsid, Enters, Moves, LocalStill, Core, Shape
  <2>4. CASE OpenTty(p)
    BY <2>4 DEF OpenTty, Enters, Moves, LocalStill, Core, Shape
  <2>5. CASE \E pgrp \in 1..MaxPid : SetForeground(p, pgrp)
    BY <2>5 DEF SetForeground, Enters, Moves, LocalStill, Core, Shape
  <2> QED  BY <2>1, <2>2, <2>3, <2>4, <2>5
<1>3. CASE Setsid(p)
  <2> DEFINE A == [ts EXCEPT ![p].leader = TRUE]
             B == [A EXCEPT ![p].session = ts[p].pid]
             C == [B EXCEPT ![p].pgrp = ts[p].pid]
  <2>1. Keeps(ts, A, Null) /\ Good(A)
    BY <1>1, FieldKeeps, KeepsGood
  <2> HIDE DEF A
  <2>2. Keeps(A, B, Null) /\ Good(B)
    BY <2>1, FieldKeeps, KeepsGood
  <2> HIDE DEF B
  <2>3. Keeps(B, C, Null) /\ Good(C)
    BY <2>2, FieldKeeps, KeepsGood
  <2> HIDE DEF C
  <2>4. Keeps(C, [C EXCEPT ![p].tty = FALSE], Null)
    BY <2>3, FieldKeeps
  <2>5. ts' = [C EXCEPT ![p].tty = FALSE]
    BY <1>3 DEF Setsid, A, B, C
  <2>6. Keeps(ts, ts', Null)
    BY <2>1, <2>2, <2>3, <2>4, <2>5, KeepsChain
  <2> QED  BY <1>2, <2>6, Still
<1>4. ASSUME ts' = ts \/ (\E q, pgid : ts' = [ts EXCEPT ![q].pgrp = pgid])
             \/ ts' = [ts EXCEPT ![p].tty = TRUE]
      PROVE  Keeps(ts, ts', Null)
  <2>1. CASE ts' = ts
    BY <1>1, <2>1, KeepsSame
  <2>2. CASE \E q, pgid : ts' = [ts EXCEPT ![q].pgrp = pgid]
    <3>1. PICK q, pgid : ts' = [ts EXCEPT ![q].pgrp = pgid]
      BY <2>2
    <3>2. Keeps(ts, [ts EXCEPT ![q].pgrp = pgid], Null)
      BY <1>1, FieldKeeps
    <3> QED  BY <3>1, <3>2
  <2>3. CASE ts' = [ts EXCEPT ![p].tty = TRUE]
    <3>1. Keeps(ts, [ts EXCEPT ![p].tty = TRUE], Null)
      BY <1>1, FieldKeeps
    <3> QED  BY <2>3, <3>1
  <2> QED  BY <1>4, <2>1, <2>2, <2>3
<1>5. CASE Keeps(ts, ts', Null)
  BY <1>2, <1>5, Still
<1> QED  BY <1>2, <1>3, <1>4, <1>5

----------------------------------------------------------------------------
LEMMA InitInv == ASSUME Init PROVE IInv
<1>1. Null \notin Tasks /\ InitTask \in Tasks /\ 1 \notin Slots
  BY TasksAssumption, SlotsAssumption DEF Tasks
<1>2. Listed = {InitTask}
  BY <1>1 DEF Init, Listed
<1>3. Rec(Blank) /\ Rec([Blank EXCEPT !.pid = 1, !.p_pptr = Zero])
      /\ Rec([Blank EXCEPT !.p_pptr = Zero, !.p_cptr = InitTask])
  BY DEF Rec, Fields, Blank
<1>4. Good(ts) /\ \A p \in Tasks : ts[p].state = "running"
  <2>1. /\ [Blank EXCEPT !.pid = 1, !.p_pptr = Zero].state = "running"
        /\ Blank.state = "running"
    BY DEF Blank
  <2>2. Zero \notin Tasks
    BY TasksAssumption DEF Tasks
  <2> HIDE DEF Blank
  <2> QED  BY <1>3, <2>1, <2>2 DEF Init, Good, All
<1>5. Shape
  BY <1>1, <1>4 DEF Init, Shape, PCs
<1>6. NoPage /\ FreeUnlisted /\ ZombieDead
  BY <1>1, <1>2, <1>4 DEF Init, NoPage, FreeUnlisted, ZombieDead
<1>7. OneEntry
  BY DEF Init, OneEntry
<1>8. Copying
  BY DEF Init, Copying
<1>9. OnePid
  BY <1>2 DEF OnePid
<1> QED  BY <1>5, <1>6, <1>7, <1>8, <1>9 DEF IInv, Core

LEMMA StepInv == ASSUME IInv, [Next]_vars PROVE IInv'
<1>1. use' = use
  <2>1. ASSUME NEW p \in Tasks, Continue(p) PROVE use' = use
    BY <2>1 DEF Continue, Deliver, PageCame, CopyDone, Die, WaitAgain
  <2>2. ASSUME NEW p \in Tasks, Step(p) PROVE use' = use
    BY <2>1, <2>2 DEF Step, Fork, Setsid, OpenTty, Exit, Wait, Kill, Setpgid, SetForeground
  <2> QED  BY <2>2 DEF Next, vars
<1> SUFFICES ASSUME "page" \notin use.sleeps, Core PROVE Core'
  <2>1. IInv' <=> ("page" \notin use'.sleeps => Core')
    BY DEF IInv, Core
  <2>2. "page" \notin use.sleeps => Core
    BY DEF IInv, Core
  <2> QED  BY <1>1, <2>1, <2>2
<1>2. CASE UNCHANGED vars
  <2>1. task' = task /\ ts' = ts /\ pc' = pc /\ local' = local
    BY <1>2 DEF vars
  <2>2. Shape' /\ Listed' = Listed
    BY <2>1 DEF Core, Shape, Good, Listed
  <2>3. NoPage' /\ FreeUnlisted' /\ OneEntry'
    BY <2>1, <2>2 DEF Core, NoPage, FreeUnlisted, OneEntry
  <2>4. Copying'
    BY <2>1 DEF Core, Copying
  <2>5. ZombieDead' /\ OnePid'
    BY <2>1, <2>2 DEF Core, ZombieDead, OnePid
  <2> QED  BY <2>2, <2>3, <2>4, <2>5 DEF Core
<1>3. ASSUME NEW p \in Tasks, Step(p) PROVE Core'
  <2>1. CASE Deliver(p)
    BY <2>1, DeliverCore
  <2>2. CASE PageCame(p)
    BY <2>2 DEF PageCame, Core, NoPage
  <2>3. CASE CopyDone(p)
    BY <2>3, CopyDoneCore
  <2>4. CASE Die(p)
    BY <2>4, DieCore
  <2>5. CASE WaitAgain(p)
    BY <2>5, WaitAgainCore
  <2>6. CASE Fork(p)
    BY <2>6, ForkCore
  <2>7. CASE \E w \in Waits, opts \in Options : Wait(p, w, opts)
    BY <2>7, WaitCore
  <2>8. CASE \E w \in -MaxPid..MaxPid, sig \in use.sends : Kill(p, w, sig)
    BY <2>8, KillCore
  <2>9. CASE \/ \E c \in Codes : Exit(p, c)
             \/ \E q \in Tasks, pgid \in 1..MaxPid : Setpgid(p, q, pgid)
             \/ Setsid(p) \/ OpenTty(p)
             \/ \E pgrp \in 1..MaxPid : SetForeground(p, pgrp)
    BY <2>9, OthersCore
  <2> QED
    BY <1>3, <2>1, <2>2, <2>3, <2>4, <2>5, <2>6, <2>7, <2>8, <2>9 DEF Step, Continue
<1> QED  BY <1>2, <1>3 DEF Next

(* No two processes have one pid, for any number of pages, entries and     *)
(* pids and any wrap of last_pid, when get_free_page() in copy_process()   *)
(* never sleeps (find_empty_process(), copy_process(), release()).         *)
THEOREM UniquePids == Spec => []UniquePid
<1>1. Init => IInv
  BY InitInv
<1>2. IInv /\ [Next]_vars => IInv'
  BY StepInv
<1>3. IInv => UniquePid
  BY DEF IInv, Core, OnePid, UniquePid
<1> QED  BY <1>1, <1>2, <1>3, PTL DEF Spec

----------------------------------------------------------------------------
(* Sessions, the terminal and who can be killed.                           *)

\* A process in user mode runs or is stopped, and is not stopped if killed.
Alert(r) == /\ r.state \in {"running", "stopped"}
            /\ SIGKILL \in r.signal => r.state = "running"

\* U has the sessions of T and nobody falls asleep, but perhaps p.
Calm(T, U, p) ==
    \A x \in All : /\ U[x].session = T[x].session /\ U[x].leader = T[x].leader
                   /\ U[x].tty = T[x].tty
                   /\ T[x].signal \subseteq Nat => U[x].signal \subseteq Nat
                   /\ x # p /\ Alert(T[x]) => Alert(U[x])

LEMMA SentCalm ==
    ASSUME NEW r, Rec(r), NEW sig \in Nat
    PROVE  /\ Sent(r, sig).session = r.session /\ Sent(r, sig).leader = r.leader
           /\ Sent(r, sig).tty = r.tty
           /\ r.signal \subseteq Nat => Sent(r, sig).signal \subseteq Nat
           /\ Alert(r) => Alert(Sent(r, sig))
<1> DEFINE w == IF sig \notin {SIGKILL, SIGCONT} THEN r
                ELSE [r EXCEPT !.state = IF @ = "stopped" THEN "running" ELSE @,
                               !.exit_code = 0, !.signal = @ \ {SIGSTOP}]
           v == (IF sig = SIGSTOP THEN w.signal \ {SIGCONT} ELSE w.signal) \cup {sig}
<1>1. /\ Rec(w) /\ w.session = r.session /\ w.leader = r.leader /\ w.tty = r.tty
      /\ SIGKILL \in w.signal <=> SIGKILL \in r.signal
      /\ w.signal \subseteq r.signal
      /\ Alert(r) => w.state \in {"running", "stopped"}
      /\ Alert(r) /\ w.state = "stopped" => r.state = "stopped" /\ sig # SIGKILL
  <2>1. CASE sig \notin {SIGKILL, SIGCONT}
    BY <2>1 DEF Alert
  <2>2. CASE sig \in {SIGKILL, SIGCONT}
    <3> DEFINE st == IF r.state = "stopped" THEN "running" ELSE r.state
               left == r.signal \ {SIGSTOP}
    <3>1. w = [r EXCEPT !.state = st, !.exit_code = 0, !.signal = left]
      BY <2>2
    <3>2. /\ left \subseteq r.signal /\ (SIGKILL \in left <=> SIGKILL \in r.signal)
          /\ st # "stopped" /\ (r.state \in {"running", "stopped"} => st = "running")
      BY DEF SIGKILL, SIGSTOP
    <3> HIDE DEF w, st, left
    <3>3. /\ Rec(w) /\ w.session = r.session /\ w.leader = r.leader /\ w.tty = r.tty
          /\ w.state = st /\ w.signal = left
      BY <3>1 DEF Rec, Fields
    <3> QED  BY <3>2, <3>3 DEF Alert
  <2> QED  BY <2>1, <2>2
<1>2. /\ SIGKILL \in v <=> SIGKILL \in w.signal \/ sig = SIGKILL
      /\ v \subseteq w.signal \cup {sig}
  BY DEF SIGKILL, SIGCONT
<1> HIDE DEF w
<1>3. /\ [w EXCEPT !.signal = v].session = w.session /\ [w EXCEPT !.signal = v].leader = w.leader
      /\ [w EXCEPT !.signal = v].tty = w.tty /\ [w EXCEPT !.signal = v].state = w.state
      /\ [w EXCEPT !.signal = v].signal = v
  <2> HIDE DEF v
  <2> QED  BY <1>1 DEF Rec, Fields
<1>4. Sent(r, sig) = [w EXCEPT !.signal = v]
  BY DEF Sent, w
<1> QED  BY <1>1, <1>2, <1>3, <1>4 DEF Alert

LEMMA CalmSame == ASSUME NEW T, NEW p PROVE Calm(T, T, p)
  BY DEF Calm

LEMMA CalmChain ==
    ASSUME NEW T, NEW U, NEW V, NEW p, Calm(T, U, p), Calm(U, V, p)
    PROVE  Calm(T, V, p)
  BY DEF Calm

LEMMA FieldCalm ==
    ASSUME NEW T, Good(T), NEW x, NEW v, NEW p
    PROVE  /\ Calm(T, [T EXCEPT ![x].p_pptr = v], p)
           /\ Calm(T, [T EXCEPT ![x].p_cptr = v], p)
           /\ Calm(T, [T EXCEPT ![x].p_ysptr = v], p)
           /\ Calm(T, [T EXCEPT ![x].p_osptr = v], p)
           /\ Calm(T, [T EXCEPT ![x].exit_code = v], p)
           /\ Calm(T, [T EXCEPT ![x].pgrp = v], p)
           /\ Calm(T, [T EXCEPT ![x].state = "running"], p)
           /\ Calm(T, [T EXCEPT ![p].state = v], p)
<1>1. Calm(T, [T EXCEPT ![x].p_pptr = v], p)
  BY DEF Calm, Alert, Good, Rec, Fields
<1>2. Calm(T, [T EXCEPT ![x].p_cptr = v], p)
  BY DEF Calm, Alert, Good, Rec, Fields
<1>3. Calm(T, [T EXCEPT ![x].p_ysptr = v], p)
  BY DEF Calm, Alert, Good, Rec, Fields
<1>4. Calm(T, [T EXCEPT ![x].p_osptr = v], p)
  BY DEF Calm, Alert, Good, Rec, Fields
<1>5. Calm(T, [T EXCEPT ![x].exit_code = v], p)
  BY DEF Calm, Alert, Good, Rec, Fields
<1>6. Calm(T, [T EXCEPT ![x].pgrp = v], p)
  BY DEF Calm, Alert, Good, Rec, Fields
<1>7. Calm(T, [T EXCEPT ![x].state = "running"], p)
  BY DEF Calm, Alert, Good, Rec, Fields
<1>8. Calm(T, [T EXCEPT ![p].state = v], p)
  BY DEF Calm, Alert, Good, Rec, Fields
<1> QED  BY <1>1, <1>2, <1>3, <1>4, <1>5, <1>6, <1>7, <1>8

LEMMA KillPgCalm ==
    ASSUME NEW T, Good(T), NEW pgrp, NEW sig \in Nat, NEW p
    PROVE  Calm(T, kill_pg(T, pgrp, sig), p)
  BY SentCalm DEF Calm, Good, kill_pg

LEMMA HangUpCalm ==
    ASSUME NEW T, Good(T), NEW pgrps, NEW p
    PROVE  Calm(T, HangUpAll(T, pgrps), p)
<1> SUFFICES ASSUME NEW x \in All PROVE
        LET V == HangUpAll(T, pgrps) IN
        /\ V[x].session = T[x].session /\ V[x].leader = T[x].leader /\ V[x].tty = T[x].tty
        /\ T[x].signal \subseteq Nat => V[x].signal \subseteq Nat
        /\ x # p /\ Alert(T[x]) => Alert(V[x])
  BY DEF Calm
<1>1. Rec(T[x]) /\ x \in DOMAIN T
  BY DEF Good
<1>2. Rec(Sent(T[x], SIGHUP))
  BY <1>1, SentKeeps
<1>3. HangUpAll(T, pgrps)[x] \in {T[x], HangUp(T[x])}
  BY <1>1 DEF HangUpAll
<1>4. SIGHUP \in Nat /\ SIGCONT \in Nat
  BY DEF SIGHUP, SIGCONT
<1> QED  BY <1>1, <1>2, <1>3, <1>4, SentCalm DEF HangUp

LEMMA ToldCalm ==
    ASSUME NEW T, Good(T), NEW father, NEW p
    PROVE  Calm(T, Told(T, father), p)
  BY DEF Calm, Alert, Good, Told, Rec, Fields, SIGCHLD, SIGKILL

LEMMA AdoptedCalm ==
    ASSUME NEW T, Good(T), NEW some, NEW p
    PROVE  Calm(T, Adopted(T, some), p)
  BY DEF Calm, Alert, Good, Adopted, Rec, Fields

LEMMA OrphansCalm ==
    ASSUME NEW T, Good(T), NEW p
    PROVE  Calm(T, Orphans(T, p), p)
<1> DEFINE kids == Kids(T, p)
           after(i) == Adopted(T, {kids[j] : j \in 1..i})
           all == after(Len(kids))
           cut == {T[kids[i]].pgrp : i \in {j \in 1..Len(kids) :
                       CutOff(after(j), p, kids[j], T[kids[j]].pgrp)}}
           hung == HangUpAll(all, cut)
<1>1. Calm(T, all, p) /\ Good(all)
  BY AdoptedCalm, AdoptedKeeps, KeepsGood
<1>2. Calm(all, hung, p) /\ Good(hung)
  <2> HIDE DEF all, cut
  <2> QED  BY <1>1, HangUpCalm, HangUpKeeps, KeepsGood
<1>3. Calm(hung, Told(hung, InitTask), p)
  <2> HIDE DEF hung
  <2> QED  BY <1>2, ToldCalm
<1>4. Orphans(T, p) \in {hung, Told(hung, InitTask)}
  BY DEF Orphans
<1> HIDE DEF hung, all
<1> QED  BY <1>1, <1>2, <1>3, <1>4, CalmChain

LEMMA ZombieCalm ==
    ASSUME Good(ts), NEW p \in Tasks
    PROVE  Calm(ts, Zombie(p), p)
<1> DEFINE father == ts[p].p_pptr
           A == [ts EXCEPT ![p].state = "zombie"]
           T == [A EXCEPT ![p].exit_code = local[p].n]
           U == IF CutOff(T, p, father, T[p].pgrp) THEN HangUpAll(T, {T[p].pgrp}) ELSE T
<1>1. Calm(ts, A, p) /\ Good(A)
  <2>1. Calm(ts, A, p)
    BY FieldCalm
  <2>2. Good(A)
    BY DEF Good, Rec, Fields, All
  <2> QED  BY <2>1, <2>2
<1> HIDE DEF A
<1>2. Calm(A, T, p) /\ Good(T)
  BY <1>1, FieldCalm, FieldKeeps, KeepsGood
<1> HIDE DEF T
<1>3. Calm(T, U, p) /\ Good(U)
  BY <1>2, HangUpCalm, CalmSame, HangUpKeeps, KeepsGood
<1> HIDE DEF U
<1>4. Calm(U, Told(U, father), p)
  BY <1>3, ToldCalm
<1>5. Zombie(p) = Told(U, father)
  BY DEF Zombie, U, T, A
<1> QED  BY <1>1, <1>2, <1>3, <1>4, <1>5, CalmChain

LEMMA SplicedCalm ==
    ASSUME NEW T, Good(T), NEW p, NEW q
    PROVE  Calm(T, Spliced(T, p), q)
<1> DEFINE kids == Kids(T, p)
           oldest == kids[Len(kids)]
           first == T[InitTask].p_cptr
           U == [T EXCEPT ![oldest].p_osptr = first, ![first].p_ysptr = oldest,
                          ![InitTask].p_cptr = T[p].p_cptr, ![p].p_cptr = Null]
<1>1. Calm(T, U, q)
  <2> HIDE DEF oldest, first
  <2> DEFINE A == [T EXCEPT ![oldest].p_osptr = first]
             B == [A EXCEPT ![first].p_ysptr = oldest]
             C == [B EXCEPT ![InitTask].p_cptr = T[p].p_cptr]
  <2>1. Calm(T, A, q) /\ Good(A)
    BY FieldCalm, FieldKeeps, KeepsGood
  <2> HIDE DEF A
  <2>2. Calm(A, B, q) /\ Good(B)
    BY <2>1, FieldCalm, FieldKeeps, KeepsGood
  <2> HIDE DEF B
  <2>3. Calm(B, C, q) /\ Good(C)
    BY <2>2, FieldCalm, FieldKeeps, KeepsGood
  <2> HIDE DEF C
  <2>4. Calm(C, [C EXCEPT ![p].p_cptr = Null], q)
    BY <2>3, FieldCalm
  <2>5. U = [C EXCEPT ![p].p_cptr = Null]
    BY DEF A, B, C
  <2> QED  BY <2>1, <2>2, <2>3, <2>4, <2>5, CalmChain
<1>2. Spliced(T, p) \in {T, U}
  BY DEF Spliced
<1> QED  BY <1>1, <1>2, CalmSame

\* The new child is a running process, its links are set.
LEMMA LinkedCalm ==
    ASSUME NEW T, Good(T), NEW p, NEW q, NEW z
    PROVE  Calm(T, Linked(T, p, q), z)
<1> DEFINE older == T[p].p_cptr
           new == [T EXCEPT ![q].p_pptr = p, ![q].p_cptr = Null, ![q].p_ysptr = Null,
                            ![q].p_osptr = older, ![q].state = "running", ![p].p_cptr = q]
           linked == [new EXCEPT ![older].p_ysptr = q]
<1>1. Calm(T, new, z) /\ Good(new)
  <2> HIDE DEF older
  <2> DEFINE A == [T EXCEPT ![q].p_pptr = p]
             B == [A EXCEPT ![q].p_cptr = Null]
             C == [B EXCEPT ![q].p_ysptr = Null]
             D == [C EXCEPT ![q].p_osptr = older]
             E == [D EXCEPT ![q].state = "running"]
  <2>1. Calm(T, A, z) /\ Good(A)
    BY FieldCalm, FieldKeeps, KeepsGood
  <2> HIDE DEF A
  <2>2. Calm(A, B, z) /\ Good(B)
    BY <2>1, FieldCalm, FieldKeeps, KeepsGood
  <2> HIDE DEF B
  <2>3. Calm(B, C, z) /\ Good(C)
    BY <2>2, FieldCalm, FieldKeeps, KeepsGood
  <2> HIDE DEF C
  <2>4. Calm(C, D, z) /\ Good(D)
    BY <2>3, FieldCalm, FieldKeeps, KeepsGood
  <2> HIDE DEF D
  <2>5. Calm(D, E, z) /\ Good(E)
    BY <2>4, FieldCalm, StateKeeps, KeepsGood
  <2> HIDE DEF E
  <2>6. Calm(E, [E EXCEPT ![p].p_cptr = q], z) /\ Good([E EXCEPT ![p].p_cptr = q])
    BY <2>5, FieldCalm, FieldKeeps, KeepsGood
  <2>7. new = [E EXCEPT ![p].p_cptr = q]
    BY DEF A, B, C, D, E
  <2> QED  BY <2>1, <2>2, <2>3, <2>4, <2>5, <2>6, <2>7, CalmChain
<1>2. Calm(new, linked, z)
  <2> HIDE DEF older, new
  <2> QED  BY <1>1, FieldCalm
<1>3. Linked(T, p, q) \in {new, linked}
  BY DEF Linked
<1> HIDE DEF new, linked
<1> QED  BY <1>1, <1>2, <1>3, CalmChain

LEMMA UnlinkedCalm ==
    ASSUME NEW T, Good(T), NEW q, NEW p
    PROVE  Calm(T, Unlinked(T, q), p)
<1> DEFINE older == T[q].p_osptr
           younger == T[q].p_ysptr
           U == IF older = Null THEN T ELSE [T EXCEPT ![older].p_ysptr = younger]
           V == IF younger = Null THEN [U EXCEPT ![T[q].p_pptr].p_cptr = older]
                ELSE [U EXCEPT ![younger].p_osptr = older]
<1>1. Calm(T, U, p) /\ Good(U)
  <2> HIDE DEF older, younger
  <2> QED  BY FieldCalm, CalmSame, FieldKeeps, KeepsGood
<1>2. Calm(U, V, p)
  <2> HIDE DEF older, younger, U
  <2> QED  BY <1>1, FieldCalm
<1>3. Unlinked(T, q) = V
  BY DEF Unlinked
<1> HIDE DEF U, V
<1> QED  BY <1>1, <1>2, <1>3, CalmChain

\* The exit of a leader takes the terminal from its session.
LEMMA LeaderGoneCalm ==
    ASSUME NEW T, Good(T), NEW p \in Tasks, NEW x \in All
    PROVE  LET V == LeaderGone(T, p) IN
           /\ V[x].session = T[x].session /\ V[x].leader = T[x].leader
           /\ V[x].tty = T[x].tty \/ (T[p].leader /\ T[x].session = T[p].session /\ ~V[x].tty)
           /\ T[p].leader /\ x \in Listed /\ T[x].session = T[p].session => ~V[x].tty
           /\ T[x].signal \subseteq Nat => V[x].signal \subseteq Nat
           /\ x # p /\ Alert(T[x]) => Alert(V[x])
<1> DEFINE U == IF T[p].tty THEN kill_pg(T, tty.pgrp, SIGHUP) ELSE T
           V == Disconnected(U, p)
<1>1. Calm(T, U, p) /\ Good(U) /\ p \in All
  BY KillPgCalm, CalmSame, KillPgKeeps, KeepsGood DEF All, SIGHUP
<1>2. LeaderGone(T, p) = IF T[p].leader THEN V ELSE T
  BY DEF LeaderGone
<1> HIDE DEF U
<1>3. /\ V[x].session = U[x].session /\ V[x].leader = U[x].leader
      /\ V[x].state = U[x].state /\ V[x].signal = U[x].signal
      /\ V[x].tty = IF x \in Listed /\ U[x].session = U[p].session THEN FALSE ELSE U[x].tty
  <2>1. Rec(U[x]) /\ x \in DOMAIN U
    BY <1>1 DEF Good
  <2>2. V[x] = IF x \in Listed /\ U[x].session = U[p].session
               THEN [U[x] EXCEPT !.tty = FALSE] ELSE U[x]
    BY <2>1 DEF Disconnected
  <2> QED  BY <2>1, <2>2 DEF Rec, Fields
<1> HIDE DEF V
<1> QED  BY <1>1, <1>2, <1>3 DEF Calm, Alert

\* Leaders lead the session of their own pid, and only they get the
\* terminal for it; unless it may be a superuser's, they keep it.
SessionsOK ==
    /\ tty = [f \in {"session", "pgrp"} |-> tty[f]]
    /\ \A x \in Listed : ts[x].pid # 0 /\ (ts[x].leader => ts[x].session = ts[x].pid)
    /\ \A x \in Listed : ts[x].tty => tty.session # 0 /\ ts[x].session = tty.session
    /\ tty.session # 0 /\ "suser" \notin use.calls => \E x \in Listed :
           ts[x].leader /\ ts[x].tty /\ ts[x].state # "zombie" /\ ts[x].session = tty.session
    /\ \A x \in Tasks : pc[x] = "new" => ~ts[x].leader

\* Whoever has a terminal has a living leader.
LedOK ==
    \A x \in Listed : ts[x].tty => \E y \in Listed :
        ts[y].leader /\ ts[y].state # "zombie" /\ ts[y].session = ts[x].session

AlertOK == \A x \in Listed : pc[x] \in {"user", "copy"} => Alert(ts[x])

\* Signals are numbers, also those still to be sent.
SignalsOK == use.sends \subseteq Nat /\ \A x \in Listed : ts[x].signal \subseteq Nat

TInv == SessionsOK /\ LedOK /\ AlertOK /\ SignalsOK

\* A step of a process that neither makes nor frees a task, nor changes a
\* session.
LEMMA StillSessions ==
    ASSUME Core, TInv, NEW p \in Tasks, pc[p] \in {"user", "wait", "exit"},
           task' = task, use' = use, tty' = tty \/ tty' = [tty EXCEPT !.pgrp = tty'.pgrp],
           Keeps(ts, ts', Null), Calm(ts, ts', p),
           Moves(p), pc'[p] = "user" => Alert(ts'[p])
    PROVE  TInv'
<1>1. Listed' = Listed /\ Listed \subseteq Tasks /\ Tasks \subseteq All /\ Null \notin Tasks
  BY ListedTasks, TasksAssumption DEF Listed, Core, Tasks
<1>2. /\ \A x \in Tasks : x # p => pc'[x] = pc[x]
      /\ pc'[p] \notin {"new", "copy"}
  BY DEF Core, Shape, Moves
<1>3. tty'.session = tty.session /\ tty' = [f \in {"session", "pgrp"} |-> tty'[f]]
  BY DEF TInv, SessionsOK
<1>4. \A x \in Listed : /\ ts'[x].pid = ts[x].pid /\ ts'[x].session = ts[x].session
                        /\ ts'[x].leader = ts[x].leader /\ ts'[x].tty = ts[x].tty
                        /\ ts'[x].state = "zombie" => ts[x].state = "zombie"
                        /\ x # p /\ Alert(ts[x]) => Alert(ts'[x])
  BY <1>1 DEF Keeps, Calm
<1>5. SessionsOK'
  <2>1. \A x \in Tasks : pc'[x] = "new" => ~ts'[x].leader
    BY <1>1, <1>2 DEF TInv, SessionsOK, Calm
  <2>2. tty.session # 0 /\ "suser" \notin use.calls => \E x \in Listed :
           ts'[x].leader /\ ts'[x].tty /\ ts'[x].state # "zombie" /\ ts'[x].session = tty.session
    BY <1>4 DEF TInv, SessionsOK
  <2> QED  BY <1>1, <1>3, <1>4, <2>1, <2>2 DEF TInv, SessionsOK
<1>6. AlertOK'
  <2> SUFFICES ASSUME NEW x \in Listed, pc'[x] \in {"user", "copy"} PROVE Alert(ts'[x])
    BY <1>1 DEF AlertOK, Alert
  <2> QED  BY <1>1, <1>2, <1>4 DEF TInv, AlertOK
<1>7. SignalsOK'
  BY <1>1 DEF TInv, SignalsOK, Calm
<1>8. LedOK'
  BY <1>1, <1>4 DEF TInv, LedOK
<1> QED  BY <1>5, <1>6, <1>7, <1>8 DEF TInv

\* A zombie or a child in the making leaves task[].
LEMMA GoneSessions ==
    ASSUME Core, TInv, NEW p \in Tasks, pc[p] \notin {"free", "new"},
           NEW q \in Tasks, q # p,
           pc' = [pc EXCEPT ![p] = "user", ![q] = "free"],
           task' = [n \in DOMAIN task |-> IF task[n] = q THEN Null ELSE task[n]],
           tty' = tty, use' = use,
           NEW T, Keeps(ts, T, Null), Calm(ts, T, p), Alert(T[p]), ts' = Freed(T, q),
           pc[q] = "new" \/ ts[q].state = "zombie"
    PROVE  TInv'
<1>1. Null \notin Tasks /\ Listed \subseteq Tasks /\ Tasks \subseteq All
  BY ListedTasks, TasksAssumption DEF Core, Tasks
<1>2. Listed' = Listed \ {q}
  BY <1>1 DEF Listed, Core, Shape
<1>3. \A x \in Tasks \ {p, q} : pc'[x] = pc[x]
  BY DEF Core, Shape
<1>4. pc'[p] = "user" /\ pc'[q] = "free"
  BY DEF Core, Shape
<1>5. \A x \in All \ {q} : ts'[x] = T[x]
  BY FreedGood DEF Keeps
<1>6. \A x \in Tasks \ {q} :
          /\ ts'[x].pid = ts[x].pid /\ ts'[x].session = ts[x].session
          /\ ts'[x].leader = ts[x].leader /\ ts'[x].tty = ts[x].tty
          /\ ts'[x].state = "zombie" => ts[x].state = "zombie"
          /\ x # p /\ Alert(ts[x]) => Alert(ts'[x])
  BY <1>1, <1>5 DEF Keeps, Calm
<1>7. SessionsOK'
  <2>1. \A x \in Tasks : pc'[x] = "new" => ~ts'[x].leader
    BY <1>3, <1>4, <1>6 DEF TInv, SessionsOK
  <2>2. tty.session # 0 /\ "suser" \notin use.calls => \E x \in Listed \ {q} :
           ts'[x].leader /\ ts'[x].tty /\ ts'[x].state # "zombie" /\ ts'[x].session = tty.session
    <3> SUFFICES ASSUME tty.session # 0, "suser" \notin use.calls
                 PROVE  \E x \in Listed \ {q} : ts'[x].leader /\ ts'[x].tty
                            /\ ts'[x].state # "zombie" /\ ts'[x].session = tty.session
      OBVIOUS
    <3>1. PICK x \in Listed : ts[x].leader /\ ts[x].tty /\ ts[x].state # "zombie"
                              /\ ts[x].session = tty.session
      BY DEF TInv, SessionsOK
    <3>2. x # q
      BY <1>1, <3>1 DEF TInv, SessionsOK
    <3> QED  BY <1>1, <1>6, <3>1, <3>2
  <2>3. \A x \in Listed \ {q} :
           /\ ts'[x].pid # 0 /\ (ts'[x].leader => ts'[x].session = ts'[x].pid)
           /\ ts'[x].tty => tty.session # 0 /\ ts'[x].session = tty.session
    BY <1>1, <1>6 DEF TInv, SessionsOK
  <2> QED  BY <1>2, <2>1, <2>2, <2>3 DEF TInv, SessionsOK
<1>8. AlertOK'
  <2> SUFFICES ASSUME NEW x \in Listed \ {q}, pc'[x] \in {"user", "copy"} PROVE Alert(ts'[x])
    BY <1>2 DEF AlertOK, Alert
  <2>1. x \in Tasks \ {q} /\ x \in All
    BY <1>1
  <2>2. CASE x = p
    BY <1>5, <2>1, <2>2
  <2>3. CASE x # p
    BY <1>3, <1>6, <2>1, <2>3 DEF TInv, AlertOK
  <2> QED  BY <2>2, <2>3
<1>9. SignalsOK'
  BY <1>1, <1>2, <1>5 DEF TInv, SignalsOK, Calm
<1>10. LedOK'
  <2> SUFFICES ASSUME NEW x \in Listed \ {q}, ts'[x].tty
               PROVE  \E y \in Listed \ {q} : ts'[y].leader /\ ts'[y].state # "zombie"
                          /\ ts'[y].session = ts'[x].session
    BY <1>2 DEF LedOK
  <2>1. x \in Tasks \ {q} /\ ts[x].tty
    BY <1>1, <1>6
  <2>2. PICK y \in Listed : ts[y].leader /\ ts[y].state # "zombie" /\ ts[y].session = ts[x].session
    BY <2>1 DEF TInv, LedOK
  <2>3. y # q
    BY <1>1, <2>2 DEF TInv, SessionsOK
  <2> QED  BY <1>1, <1>6, <2>1, <2>2, <2>3
<1> QED  BY <1>7, <1>8, <1>9, <1>10 DEF TInv

\* What copy_process() adds.
LEMMA AddedSessions ==
    ASSUME Core, TInv, NEW p \in Tasks, pc[p] = "user", p \in Listed,
           NEW n \in Slots, task[n] = Null, NEW q \in Pages, pc[q] = "free",
           NEW pid, pid # 0, task' = [task EXCEPT ![n] = q],
           tty' = tty, use' = use,
           Keeps([ts EXCEPT ![q] = Embryo(p, pid)], ts', Null),
           Calm([ts EXCEPT ![q] = Embryo(p, pid)], ts', Null),
           \/ pc' = [pc EXCEPT ![q] = "new"]
           \/ pc' = [pc EXCEPT ![p] = "user", ![q] = "user"] /\ Alert(ts'[q])
           \/ pc' = [pc EXCEPT ![p] = "copy", ![q] = "new"]
    PROVE  TInv'
<1> DEFINE T == [ts EXCEPT ![q] = Embryo(p, pid)]
<1>1. /\ p # q /\ q \in Tasks /\ q \in All /\ p \in All /\ q \notin Listed
      /\ Listed \subseteq Tasks /\ Tasks \subseteq All /\ Null \notin All
  BY ListedTasks, TasksAssumption DEF Core, FreeUnlisted, Tasks, All
<1>2. /\ T[q].pid = pid /\ T[q].leader = FALSE
      /\ T[q].session = ts[p].session /\ T[q].tty = ts[p].tty /\ T[q].signal = {}
      /\ \A x \in All \ {q} : T[x] = ts[x]
  <2>1. T[q] = Embryo(p, pid) /\ \A x \in All \ {q} : T[x] = ts[x]
    BY <1>1 DEF Core, Shape, Good
  <2>2. Rec(ts[p])
    BY <1>1 DEF Core, Shape, Good
  <2>3. /\ Embryo(p, pid).pid = pid /\ Embryo(p, pid).leader = FALSE
        /\ Embryo(p, pid).session = ts[p].session /\ Embryo(p, pid).tty = ts[p].tty
        /\ Embryo(p, pid).signal = {}
    BY <2>2 DEF Embryo, Rec, Fields
  <2> QED  BY <2>1, <2>3
<1> HIDE DEF T
<1>3. /\ ts'[q].pid = pid /\ ~ts'[q].leader
      /\ ts'[q].session = ts[p].session /\ ts'[q].tty = ts[p].tty
      /\ \A x \in All \ {q} : /\ ts'[x].pid = ts[x].pid /\ ts'[x].session = ts[x].session
                              /\ ts'[x].leader = ts[x].leader /\ ts'[x].tty = ts[x].tty
                              /\ ts'[x].state = "zombie" => ts[x].state = "zombie"
                              /\ Alert(ts[x]) => Alert(ts'[x])
  BY <1>1, <1>2 DEF Keeps, Calm, T
<1>4. /\ \A x \in Tasks \ {p, q} : pc'[x] = pc[x]
      /\ pc'[p] \in {"user", "copy"}
      /\ pc'[q] = "new" \/ (pc'[q] = "user" /\ Alert(ts'[q]))
  BY <1>1 DEF Core, Shape
<1>5. Listed' = Listed \cup {q}
  BY <1>1 DEF Listed, Core, Shape
<1>6. SessionsOK'
  <2>1. \A x \in Tasks : pc'[x] = "new" => ~ts'[x].leader
    BY <1>1, <1>3, <1>4 DEF TInv, SessionsOK
  <2>2. tty.session # 0 /\ "suser" \notin use.calls => \E x \in Listed :
           ts'[x].leader /\ ts'[x].tty /\ ts'[x].state # "zombie" /\ ts'[x].session = tty.session
    BY <1>1, <1>3 DEF TInv, SessionsOK
  <2>3. \A x \in Listed \cup {q} :
           /\ ts'[x].pid # 0 /\ (ts'[x].leader => ts'[x].session = ts'[x].pid)
           /\ ts'[x].tty => tty.session # 0 /\ ts'[x].session = tty.session
    BY <1>1, <1>3 DEF TInv, SessionsOK
  <2> QED  BY <1>5, <2>1, <2>2, <2>3 DEF TInv, SessionsOK
<1>7. AlertOK'
  <2> SUFFICES ASSUME NEW x \in Listed \cup {q}, pc'[x] \in {"user", "copy"}
               PROVE Alert(ts'[x])
    BY <1>5 DEF AlertOK, Alert
  <2> QED  BY <1>1, <1>3, <1>4 DEF TInv, AlertOK
<1>8. SignalsOK'
  <2>1. ts'[q].signal \subseteq Nat
    BY <1>1, <1>2 DEF Calm, T
  <2>2. \A x \in Listed : ts'[x].signal \subseteq Nat
    BY <1>1, <1>2 DEF TInv, SignalsOK, Calm, T
  <2> QED  BY <1>5, <2>1, <2>2 DEF TInv, SignalsOK
<1>9. LedOK'
  <2> SUFFICES ASSUME NEW x \in Listed \cup {q}, ts'[x].tty
               PROVE  \E y \in Listed : ts'[y].leader /\ ts'[y].state # "zombie"
                          /\ ts'[y].session = ts'[x].session
    BY <1>5 DEF LedOK
  <2>1. \A z \in Listed : ts[z].tty => \E y \in Listed :
            ts[y].leader /\ ts[y].state # "zombie" /\ ts[y].session = ts[z].session
    BY DEF TInv, LedOK
  <2>2. PICK z \in Listed : ts[z].tty /\ ts[z].session = ts'[x].session
    BY <1>1, <1>3
  <2>3. PICK y \in Listed : ts[y].leader /\ ts[y].state # "zombie" /\ ts[y].session = ts[z].session
    BY <2>1, <2>2
  <2>4. y \in All /\ y # q
    BY <1>1
  <2> QED  BY <1>3, <2>2, <2>3, <2>4
<1> QED  BY <1>6, <1>7, <1>8, <1>9 DEF TInv

\* Whoever is in user mode can be killed.
LEMMA UserAlert ==
    ASSUME Core, TInv, NEW p \in Tasks, pc[p] = "user", p \in Listed
    PROVE  Alert(ts[p]) /\ Good(ts) /\ p \in All /\ p # Null /\ ts[p].signal \subseteq Nat
BY TasksAssumption DEF Core, Shape, TInv, AlertOK, SignalsOK, All, Tasks

LEMMA CalmAll ==
    ASSUME NEW T, NEW U, Calm(T, U, Null), NEW p
    PROVE  Calm(T, U, p) /\ \A x \in All : Alert(T[x]) => Alert(U[x])
BY TasksAssumption DEF Calm, All, Tasks

LEMMA KillSessions ==
    ASSUME Core, TInv, NEW p \in Tasks, NEW w, NEW sig \in use.sends, Kill(p, w, sig)
    PROVE  TInv'
<1>1. /\ pc[p] = "user" /\ p \in Listed /\ task' = task /\ Moves(p) /\ UNCHANGED <<pc, tty, use>>
      /\ sig \in Nat
  BY DEF Kill, Enters, Moves, TInv, SignalsOK
<1>2. Good(ts) /\ Alert(ts[p]) /\ p \in All /\ p # Null
  BY <1>1, UserAlert
<1>3. Keeps(ts, ts', Null)
  BY <1>2, SentKeeps DEF Kill, Keeps, Good
<1>4. Calm(ts, ts', Null)
  <2> SUFFICES ASSUME NEW x \in All PROVE
        /\ ts'[x].session = ts[x].session /\ ts'[x].leader = ts[x].leader
        /\ ts'[x].tty = ts[x].tty
        /\ ts[x].signal \subseteq Nat => ts'[x].signal \subseteq Nat
        /\ Alert(ts[x]) => Alert(ts'[x])
    BY DEF Calm
  <2>1. Rec(ts[x]) /\ ts'[x] \in {ts[x], Sent(ts[x], sig)}
    BY <1>2 DEF Kill, Good
  <2> QED  BY <1>1, <2>1, SentCalm
<1>5. Calm(ts, ts', p) /\ Alert(ts'[p])
  BY <1>2, <1>4, CalmAll
<1> QED  BY <1>1, <1>3, <1>5, StillSessions

LEMMA DeliverSessions ==
    ASSUME Core, TInv, NEW p \in Tasks, Deliver(p)
    PROVE  TInv'
<1> DEFINE sig == Lowest(ts[p].signal)
           left == ts[p].signal \ {sig}
           taken == [ts EXCEPT ![p].signal = left]
           stopped == [taken EXCEPT ![p].state = "stopped"]
           coded == [stopped EXCEPT ![p].exit_code = SIGSTOP]
<1>1. /\ pc[p] = "user" /\ p \in Listed /\ ts[p].state = "running" /\ ts[p].signal # {}
      /\ UNCHANGED <<task, tty, use>> /\ Moves(p)
  BY DEF Deliver, Moves
<1>2. Good(ts) /\ Alert(ts[p]) /\ p \in All /\ p # Null /\ ts[p].signal \subseteq Nat
  BY <1>1, UserAlert
<1>3. Keeps(ts, taken, Null) /\ Good(taken)
  BY <1>2, FieldKeeps, KeepsGood
<1>4. Calm(ts, taken, p) /\ taken[p].state = "running" /\ taken[p].signal = left
  <2>1. left \subseteq ts[p].signal
    OBVIOUS
  <2> HIDE DEF left
  <2> QED  BY <1>1, <1>2, <2>1 DEF Calm, Alert, Good, Rec, Fields
<1>5. CASE ts' = taken
  BY <1>1, <1>3, <1>4, <1>5, StillSessions DEF Alert
<1>6. CASE /\ sig = SIGSTOP /\ ts' = Told(coded, ts[p].p_pptr)
           /\ UNCHANGED <<spaces, pc, local>>
  <2>1. SIGKILL \notin ts[p].signal
    <3>1. \A s \in ts[p].signal : SIGSTOP <= s
      <4>1. PICK m \in ts[p].signal : \A s \in ts[p].signal : m <= s
        BY <1>1, <1>2, LeastIn
      <4> QED  BY <1>6, <4>1 DEF Lowest
    <3> QED  BY <3>1 DEF SIGKILL, SIGSTOP
  <2>2. SIGKILL \notin left
    BY <2>1
  <2> HIDE DEF taken, left
  <2>3. Keeps(taken, stopped, Null) /\ Calm(taken, stopped, p) /\ Good(stopped)
        /\ stopped[p].state = "stopped" /\ stopped[p].signal = left
    <3>1. Keeps(taken, stopped, Null) /\ Calm(taken, stopped, p) /\ Good(stopped)
      BY <1>3, StateKeeps, FieldCalm, KeepsGood
    <3>2. Rec(taken[p]) /\ p \in DOMAIN taken
      BY <1>2, <1>3 DEF Good
    <3>3. stopped[p] = [taken[p] EXCEPT !.state = "stopped"]
      BY <3>2
    <3> HIDE DEF stopped
    <3>4. stopped[p].state = "stopped" /\ stopped[p].signal = taken[p].signal
      BY <3>2, <3>3 DEF Rec, Fields
    <3> QED  BY <1>4, <3>1, <3>4
  <2> HIDE DEF stopped
  <2>4. Keeps(stopped, coded, Null) /\ Calm(stopped, coded, p) /\ Good(coded)
        /\ coded[p].state = "stopped" /\ coded[p].signal = left
    <3>1. Keeps(stopped, coded, Null) /\ Calm(stopped, coded, p) /\ Good(coded)
      BY <2>3, FieldKeeps, FieldCalm, KeepsGood
    <3>2. Rec(stopped[p]) /\ p \in DOMAIN stopped
      BY <1>2, <2>3 DEF Good
    <3>3. coded[p] = [stopped[p] EXCEPT !.exit_code = SIGSTOP]
      BY <3>2
    <3> HIDE DEF coded
    <3>4. coded[p].state = stopped[p].state /\ coded[p].signal = stopped[p].signal
      BY <3>2, <3>3 DEF Rec, Fields
    <3> QED  BY <2>3, <3>1, <3>4
  <2> HIDE DEF coded
  <2>5. Keeps(coded, ts', Null) /\ Calm(coded, ts', Null)
    BY <1>6, <2>4, ToldKeeps, ToldCalm
  <2>6. Keeps(ts, ts', Null)
    BY <1>3, <2>3, <2>4, <2>5, KeepsChain
  <2>7. Alert(coded[p]) /\ Alert(ts'[p])
    BY <1>2, <2>2, <2>4, <2>5, CalmAll DEF Alert
  <2>8. Calm(coded, ts', p)
    BY <2>5, CalmAll
  <2>9. Calm(ts, ts', p)
    BY <1>4, <2>3, <2>4, <2>8, CalmChain
  <2> QED  BY <1>1, <2>6, <2>7, <2>9, StillSessions
<1>7. ts' = taken \/ (/\ sig = SIGSTOP /\ ts' = Told(coded, ts[p].p_pptr)
                      /\ UNCHANGED <<spaces, pc, local>>)
  BY DEF Deliver
<1> QED  BY <1>5, <1>6, <1>7

LEMMA LinkState ==
    ASSUME NEW T, Good(T), NEW x, NEW v, NEW q \in All
    PROVE  /\ [T EXCEPT ![x].p_cptr = v][q].state = T[q].state
           /\ [T EXCEPT ![x].p_ysptr = v][q].state = T[q].state
<1>1. Rec(T[q]) /\ q \in DOMAIN T
  BY DEF Good
<1>2. [T EXCEPT ![x].p_cptr = v][q] \in {T[q], [T[q] EXCEPT !.p_cptr = v]}
  BY <1>1
<1>3. [T EXCEPT ![x].p_ysptr = v][q] \in {T[q], [T[q] EXCEPT !.p_ysptr = v]}
  BY <1>1
<1>4. [T[q] EXCEPT !.p_cptr = v].state = T[q].state
  BY <1>1 DEF Rec, Fields
<1>5. [T[q] EXCEPT !.p_ysptr = v].state = T[q].state
  BY <1>1 DEF Rec, Fields
<1> QED  BY <1>2, <1>3, <1>4, <1>5

\* The child of a fork runs once it is in the tree.
LEMMA LinkedAlert ==
    ASSUME NEW T, Good(T), NEW p, NEW q \in All
    PROVE  Alert(Linked(T, p, q)[q])
<1> DEFINE older == T[p].p_cptr
           A == [T EXCEPT ![q].p_pptr = p, ![q].p_cptr = Null, ![q].p_ysptr = Null,
                          ![q].p_osptr = older]
           B == [A EXCEPT ![q].state = "running"]
           C == [B EXCEPT ![p].p_cptr = q]
           D == [C EXCEPT ![older].p_ysptr = q]
<1>1. Good(A)
  <2> DEFINE E == [T EXCEPT ![q].p_pptr = p]
             F == [E EXCEPT ![q].p_cptr = Null]
             G == [F EXCEPT ![q].p_ysptr = Null]
  <2>1. Good(E)
    BY FieldKeeps, KeepsGood
  <2>2. A = [G EXCEPT ![q].p_osptr = older]
    OBVIOUS
  <2> HIDE DEF E, older
  <2>3. Good(F)
    BY <2>1, FieldKeeps, KeepsGood
  <2> HIDE DEF F
  <2>4. Good(G)
    BY <2>3, FieldKeeps, KeepsGood
  <2> HIDE DEF G, A
  <2> QED  BY <2>2, <2>4, FieldKeeps, KeepsGood
<1> HIDE DEF A, older
<1>2. Good(B) /\ B[q].state = "running"
  <2>1. Good(B)
    BY <1>1, StateKeeps, KeepsGood
  <2>2. Rec(A[q]) /\ q \in DOMAIN A
    BY <1>1 DEF Good
  <2>3. B[q] = [A[q] EXCEPT !.state = "running"]
    BY <2>2
  <2> HIDE DEF B
  <2> QED  BY <2>1, <2>2, <2>3 DEF Rec, Fields
<1> HIDE DEF B
<1>3. Good(C) /\ C[q].state = "running"
  <2>1. Good(C)
    BY <1>2, FieldKeeps, KeepsGood
  <2> QED  BY <1>2, <2>1, LinkState
<1> HIDE DEF C
<1>4. D[q].state = "running"
  BY <1>3, LinkState
<1> HIDE DEF D
<1>5. Linked(T, p, q) \in {C, D}
  BY DEF Linked, A, B, C, D, older
<1> QED  BY <1>3, <1>4, <1>5 DEF Alert

LEMMA ForkSessions ==
    ASSUME Core, TInv, "page" \notin use.sleeps, NEW p \in Tasks, Fork(p)
    PROVE  TInv'
<1> DEFINE empty == {n \in Slots : task[n] = Null}
<1>1. /\ pc[p] = "user" /\ p \in Listed /\ UNCHANGED <<use, tty>> /\ NextPid # 0
      /\ Failed(p) \/ (empty # {} /\ CopyProcess(p, Lowest(empty), NextPid))
  BY DEF Fork, Enters
<1>2. Alert(ts[p]) /\ Good(ts) /\ p \in All
  BY <1>1, UserAlert
<1>3. CASE Failed(p)
  <2>1. Keeps(ts, ts', Null) /\ Calm(ts, ts', p) /\ ts' = ts /\ task' = task
    BY <1>2, <1>3, KeepsSame, CalmSame DEF Failed
  <2>2. Moves(p)
    BY <1>3 DEF Failed, Moves
  <2> QED  BY <1>1, <1>2, <2>1, <2>2, StillSessions
<1>4. CASE empty # {} /\ CopyProcess(p, Lowest(empty), NextPid)
  <2>1. Lowest(empty) \in empty
    BY <1>4, LowestIn, SlotsAssumption
  <2> DEFINE n == Lowest(empty)
  <2>2. n \in Slots /\ task[n] = Null
    BY <2>1
  <2> HIDE DEF n
  <2>3. PICK q \in Pages :
          /\ pc[q] = "free" /\ task' = [task EXCEPT ![n] = q]
          /\ LET T == [ts EXCEPT ![q] = Embryo(p, NextPid)] IN
             \/ /\ ts' = T /\ pc' = [pc EXCEPT ![q] = "new"]
             \/ /\ ts' = Linked(T, p, q)
                /\ pc' = [pc EXCEPT ![p] = "user", ![q] = "user"]
             \/ /\ ts' = T
                /\ pc' = [pc EXCEPT ![p] = "copy", ![q] = "new"]
    BY <1>4 DEF CopyProcess, n
  <2> DEFINE T == [ts EXCEPT ![q] = Embryo(p, NextPid)]
  <2>4. Good(T) /\ T[q].signal = {} /\ q \in All
    <3>1. Rec(ts[p]) /\ q \in All
      BY <1>2 DEF Good, All, Tasks
    <3>2. Rec(Embryo(p, NextPid)) /\ Embryo(p, NextPid).signal = {}
      BY <3>1 DEF Embryo, Rec, Fields
    <3> QED  BY <1>2, <3>1, <3>2 DEF Good
  <2> HIDE DEF T
  <2>5. Keeps(T, ts', Null) /\ Calm(T, ts', Null)
    BY <2>3, <2>4, LinkedKeeps, KeepsSame, LinkedCalm, CalmSame DEF T
  <2>6. ts' = Linked(T, p, q) => Alert(ts'[q])
    BY <2>4, LinkedAlert
  <2>7. \/ pc' = [pc EXCEPT ![q] = "new"]
        \/ pc' = [pc EXCEPT ![p] = "user", ![q] = "user"] /\ Alert(ts'[q])
        \/ pc' = [pc EXCEPT ![p] = "copy", ![q] = "new"]
    BY <2>3, <2>6 DEF T
  <2> HIDE DEF Core, TInv, Keeps, Calm
  <2> QED  BY <1>1, <2>2, <2>3, <2>5, <2>7, AddedSessions DEF T
<1> QED  BY <1>1, <1>3, <1>4

LEMMA CopyDoneSessions ==
    ASSUME Core, TInv, NEW p \in Tasks, CopyDone(p)
    PROVE  TInv'
<1> DEFINE q == local[p].q
<1>1. /\ pc[p] = "copy" /\ q \in Tasks /\ pc[q] = "new" /\ q # p /\ p \in Listed
      /\ local[p].n \in Slots \cup {1} /\ task[local[p].n] = q /\ Good(ts)
      /\ UNCHANGED <<use, tty>>
  BY DEF CopyDone, Core, Copying, Shape
<1> HIDE DEF q
<1>2. Listed \subseteq Tasks /\ Tasks \subseteq All /\ Null \notin Tasks
  BY ListedTasks, TasksAssumption DEF Core, Tasks
<1>3. Alert(ts[p])
  BY <1>1 DEF TInv, AlertOK
<1>4. CASE /\ ts' = Linked(ts, p, q)
           /\ pc' = [pc EXCEPT ![p] = "user", ![q] = "user"]
           /\ task' = task
  <2>1. Keeps(ts, ts', Null) /\ Calm(ts, ts', Null)
    BY <1>1, <1>4, LinkedKeeps, LinkedCalm
  <2>2. Alert(ts'[q])
    BY <1>1, <1>2, <1>4, LinkedAlert DEF Core
  <2>3. /\ pc'[p] = "user" /\ pc'[q] = "user" /\ \A x \in Tasks \ {p, q} : pc'[x] = pc[x]
    BY <1>1, <1>4 DEF Core, Shape
  <2>4. Listed' = Listed
    BY <1>4 DEF Listed
  <2>5. \A x \in Tasks :
          /\ ts'[x].pid = ts[x].pid /\ ts'[x].session = ts[x].session
          /\ ts'[x].leader = ts[x].leader /\ ts'[x].tty = ts[x].tty
          /\ ts'[x].state = "zombie" => ts[x].state = "zombie"
          /\ ts[x].signal \subseteq Nat => ts'[x].signal \subseteq Nat
          /\ Alert(ts[x]) => Alert(ts'[x])
    BY <1>2, <2>1 DEF Keeps, Calm
  <2>6. SessionsOK'
    <3>1. \A x \in Tasks : pc'[x] = "new" => ~ts'[x].leader
      BY <2>3, <2>5 DEF TInv, SessionsOK
    <3>2. tty.session # 0 /\ "suser" \notin use.calls => \E x \in Listed :
           ts'[x].leader /\ ts'[x].tty /\ ts'[x].state # "zombie" /\ ts'[x].session = tty.session
      BY <1>2, <2>5 DEF TInv, SessionsOK
    <3>3. \A x \in Listed :
           /\ ts'[x].pid # 0 /\ (ts'[x].leader => ts'[x].session = ts'[x].pid)
           /\ ts'[x].tty => tty.session # 0 /\ ts'[x].session = tty.session
      BY <1>2, <2>5 DEF TInv, SessionsOK
    <3> QED  BY <1>1, <2>4, <3>1, <3>2, <3>3 DEF TInv, SessionsOK
  <2>7. AlertOK'
    <3> SUFFICES ASSUME NEW x \in Listed, pc'[x] \in {"user", "copy"} PROVE Alert(ts'[x])
      BY <2>4 DEF AlertOK, Alert
    <3> QED  BY <1>1, <1>2, <2>2, <2>3, <2>5 DEF TInv, AlertOK
  <2>8. SignalsOK'
    BY <1>1, <1>2, <2>4, <2>5 DEF TInv, SignalsOK
  <2>9. LedOK'
    BY <1>2, <2>4, <2>5 DEF TInv, LedOK
  <2> QED  BY <2>6, <2>7, <2>8, <2>9 DEF TInv
<1>5. CASE /\ ts' = Freed(ts, q)
           /\ pc' = [pc EXCEPT ![p] = "user", ![q] = "free"]
           /\ task' = [task EXCEPT ![local[p].n] = Null]
  <2>1. Keeps(ts, ts, Null) /\ Calm(ts, ts, p)
    BY <1>1, KeepsSame, CalmSame
  <2>2. task' = [n \in DOMAIN task |-> IF task[n] = q THEN Null ELSE task[n]]
    BY <1>1, <1>2, <1>5 DEF Core, Shape, OneEntry
  <2> HIDE DEF Core, TInv
  <2> QED  BY <1>1, <1>3, <1>5, <2>1, <2>2, GoneSessions
<1> QED  BY <1>4, <1>5 DEF CopyDone, q

LEMMA DieSessions ==
    ASSUME Core, TInv, NEW p \in Tasks, Die(p)
    PROVE  TInv'
<1> DEFINE Z == Zombie(p)
           T == Orphans(Z, p)
           U == Spliced(T, p)
           V == LeaderGone(U, p)
<1>1. /\ Good(ts) /\ pc[p] = "exit" /\ p \in Listed
      /\ Listed \subseteq Tasks /\ Tasks \subseteq All /\ Null \notin Tasks
      /\ UNCHANGED <<task, use>>
  BY ListedTasks, TasksAssumption DEF Die, Core, Shape, Tasks
<1>2. Keeps(ts, Z, p) /\ Calm(ts, Z, p) /\ Good(Z)
  BY <1>1, ZombieKeeps, ZombieCalm, KeepsGood
<1> HIDE DEF Z
<1>3. Keeps(Z, T, p) /\ Calm(Z, T, p) /\ Good(T)
  BY <1>2, OrphansKeeps, OrphansCalm, KeepsGood
<1> HIDE DEF T
<1>4. Keeps(T, U, p) /\ Calm(T, U, p) /\ Good(U)
  BY <1>3, SplicedKeeps, SplicedCalm, KeepsGood
<1> HIDE DEF U
<1>5. Keeps(ts, U, p) /\ Calm(ts, U, p) /\ Keeps(U, V, p)
  BY <1>2, <1>3, <1>4, LeaderGoneKeeps, KeepsChain, CalmChain
<1>6. CASE ts' = ts /\ tty' = tty /\ pc' = pc
  <2>1. Keeps(ts, ts', Null) /\ Calm(ts, ts', p) /\ Moves(p)
    BY <1>1, <1>6, KeepsSame, CalmSame DEF Moves
  <2> QED  BY <1>1, <1>6, <2>1, StillSessions
<1>7. CASE /\ ts' = V /\ pc' = [pc EXCEPT ![p] = "dead"]
           /\ tty' = IF ts[p].leader /\ ts[p].tty THEN [session |-> 0, pgrp |-> 0] ELSE tty
  <2>1. \A x \in All :
          /\ U[x].session = ts[x].session /\ U[x].leader = ts[x].leader
          /\ U[x].tty = ts[x].tty
          /\ ts[x].signal \subseteq Nat => U[x].signal \subseteq Nat
          /\ x # p /\ Alert(ts[x]) => Alert(U[x])
    BY <1>5 DEF Calm
  <2>2. ASSUME NEW x \in All
        PROVE  /\ V[x].session = ts[x].session /\ V[x].leader = ts[x].leader
               /\ \/ V[x].tty = ts[x].tty
                  \/ ts[p].leader /\ ts[x].session = ts[p].session /\ ~V[x].tty
               /\ ts[p].leader /\ x \in Listed /\ ts[x].session = ts[p].session => ~V[x].tty
               /\ ts[x].signal \subseteq Nat => V[x].signal \subseteq Nat
               /\ x # p /\ Alert(ts[x]) => Alert(V[x])
    <3>1. /\ V[x].session = U[x].session /\ V[x].leader = U[x].leader
          /\ \/ V[x].tty = U[x].tty
             \/ U[p].leader /\ U[x].session = U[p].session /\ ~V[x].tty
          /\ U[p].leader /\ x \in Listed /\ U[x].session = U[p].session => ~V[x].tty
          /\ U[x].signal \subseteq Nat => V[x].signal \subseteq Nat
          /\ x # p /\ Alert(U[x]) => Alert(V[x])
      BY <1>4, LeaderGoneCalm
    <3>2. p \in All
      BY <1>1
    <3> HIDE DEF V
    <3> QED  BY <2>1, <3>1, <3>2
  <2>3. \A x \in All : /\ V[x].pid = ts[x].pid
                       /\ x # p /\ V[x].state = "zombie" => ts[x].state = "zombie"
    BY <1>5 DEF Keeps
  <2> HIDE DEF V
  <2>4. Listed' = Listed /\ \A x \in Tasks : pc'[x] = IF x = p THEN "dead" ELSE pc[x]
    BY <1>1, <1>7 DEF Listed, Core, Shape
  <2>5. SessionsOK'
    <3>1. tty' = [f \in {"session", "pgrp"} |-> tty'[f]]
      BY <1>7 DEF TInv, SessionsOK
    <3>2. \A x \in Listed : ts'[x].pid # 0 /\ (ts'[x].leader => ts'[x].session = ts'[x].pid)
      BY <1>1, <1>7, <2>2, <2>3 DEF TInv, SessionsOK
    <3>3. \A x \in Tasks : pc'[x] = "new" => ~ts'[x].leader
      BY <1>1, <1>7, <2>2, <2>4 DEF TInv, SessionsOK
    <3>4. CASE ts[p].leader /\ ts[p].tty
      <4>1. tty'.session = 0
        BY <1>7, <3>4
      <4>2. ASSUME NEW x \in Listed PROVE ~ts'[x].tty
        <5>1. ts[p].session = tty.session
          BY <1>1, <3>4 DEF TInv, SessionsOK
        <5>2. ts[x].tty => ts[x].session = tty.session
          BY DEF TInv, SessionsOK
        <5>3. x \in All
          BY <1>1
        <5> QED  BY <1>7, <2>2, <3>4, <5>1, <5>2, <5>3
      <4> QED  BY <2>4, <3>1, <3>2, <3>3, <4>1, <4>2 DEF SessionsOK
    <3>5. CASE ~(ts[p].leader /\ ts[p].tty)
      <4>1. tty' = tty
        BY <1>7, <3>5
      <4>2. \A x \in Listed : ts'[x].tty => tty.session # 0 /\ ts'[x].session = tty.session
        BY <1>1, <1>7, <2>2 DEF TInv, SessionsOK
      <4>3. ASSUME tty.session # 0, "suser" \notin use.calls
            PROVE  \E x \in Listed : ts'[x].leader /\ ts'[x].tty
                       /\ ts'[x].state # "zombie" /\ ts'[x].session = tty.session
        <5>1. PICK x \in Listed : ts[x].leader /\ ts[x].tty /\ ts[x].state # "zombie"
                                  /\ ts[x].session = tty.session
          BY <4>3 DEF TInv, SessionsOK
        <5>2. x # p /\ x \in All
          BY <1>1, <3>5, <5>1
        <5>3. ts[p].leader => ts[p].session # ts[x].session
          <6>1. ts[x].session = ts[x].pid /\ (ts[p].leader => ts[p].session = ts[p].pid)
            BY <1>1, <5>1 DEF TInv, SessionsOK
          <6>2. ts[p].pid # ts[x].pid
            BY <1>1, <5>2 DEF Core, OnePid
          <6> QED  BY <6>1, <6>2
        <5>4. ts'[x].leader /\ ts'[x].tty /\ ts'[x].state # "zombie"
              /\ ts'[x].session = tty.session
          BY <1>7, <2>2, <2>3, <5>1, <5>2, <5>3
        <5> QED  BY <5>4
      <4> QED  BY <1>1, <2>4, <3>1, <3>2, <3>3, <4>1, <4>2, <4>3 DEF SessionsOK
    <3> QED  BY <3>4, <3>5
  <2>6. AlertOK'
    <3> SUFFICES ASSUME NEW x \in Listed, pc'[x] \in {"user", "copy"} PROVE Alert(ts'[x])
      BY <2>4 DEF AlertOK, Alert
    <3>1. x # p /\ pc[x] \in {"user", "copy"} /\ x \in All
      BY <1>1, <2>4
    <3> QED  BY <1>7, <2>2, <3>1 DEF TInv, AlertOK
  <2>7. SignalsOK'
    BY <1>1, <1>7, <2>2, <2>4 DEF TInv, SignalsOK
  <2>8. LedOK'
    <3> SUFFICES ASSUME NEW x \in Listed, ts'[x].tty
                 PROVE  \E y \in Listed : ts'[y].leader /\ ts'[y].state # "zombie"
                            /\ ts'[y].session = ts'[x].session
      BY <2>4 DEF LedOK
    <3>1. x \in All /\ ts[x].tty /\ ~(ts[p].leader /\ ts[x].session = ts[p].session)
          /\ ts'[x].session = ts[x].session
      BY <1>1, <1>7, <2>2
    <3>2. PICK y \in Listed : ts[y].leader /\ ts[y].state # "zombie" /\ ts[y].session = ts[x].session
      BY <3>1 DEF TInv, LedOK
    <3>3. y \in All /\ y # p
      BY <1>1, <3>1, <3>2
    <3>4. ts'[y].leader /\ ts'[y].state # "zombie" /\ ts'[y].session = ts[y].session
      BY <1>7, <2>2, <2>3, <3>2, <3>3
    <3> QED  BY <3>1, <3>2, <3>4
  <2> QED  BY <2>5, <2>6, <2>7, <2>8 DEF TInv
<1> QED  BY <1>6, <1>7 DEF Die, V, U, T, Z

LEMMA CollectSessions ==
    ASSUME Core, TInv, NEW p \in Tasks, pc[p] \in {"user", "wait"}, p \in Listed,
           NEW q, NEW awake, Keeps(ts, awake, Null), Calm(ts, awake, p),
           Alert(awake[p]), UNCHANGED <<use, tty>>, Collect(p, q, awake)
    PROVE  TInv'
<1>1. Good(awake) /\ Good(ts) /\ p \in All /\ p # Null
  BY KeepsGood, TasksAssumption DEF Core, Shape, All, Tasks
<1>2. CASE /\ ts' = [awake EXCEPT ![q].exit_code = 0]
           /\ WaitReturns(p, ts[q].pid) /\ task' = task
  <2>1. Keeps(awake, ts', Null) /\ Calm(awake, ts', p) /\ Calm(awake, ts', Null)
    BY <1>1, <1>2, FieldKeeps, FieldCalm
  <2>2. Keeps(ts, ts', Null) /\ Calm(ts, ts', p) /\ Alert(ts'[p])
    BY <1>1, <2>1, KeepsChain, CalmChain, CalmAll
  <2>3. Moves(p)
    BY <1>2 DEF WaitReturns, Moves
  <2> QED  BY <1>2, <2>2, <2>3, StillSessions
<1>3. CASE /\ ts[q].state = "zombie" /\ q \in Listed
           /\ ts' = Freed(Unlinked(awake, q), q)
           /\ task' = [n \in DOMAIN task |-> IF task[n] = q THEN Null ELSE task[n]]
           /\ pc' = [pc EXCEPT ![p] = "user", ![q] = "free"]
  <2> DEFINE T == Unlinked(awake, q)
  <2>1. Keeps(awake, T, Null) /\ Calm(awake, T, p) /\ Calm(awake, T, Null)
    BY <1>1, UnlinkedKeeps, UnlinkedCalm
  <2> HIDE DEF T
  <2>2. Keeps(ts, T, Null) /\ Calm(ts, T, p) /\ Alert(T[p])
    BY <1>1, <2>1, KeepsChain, CalmChain, CalmAll
  <2>3. q \in Tasks /\ q # p
    BY <1>3, ListedTasks DEF Core, ZombieDead
  <2> HIDE DEF Core, TInv
  <2> QED  BY <1>3, <2>2, <2>3, GoneSessions DEF T
<1>4. CASE UNCHANGED <<task, ts, pc, local, shell>>
  <2>1. Keeps(ts, ts', Null) /\ Calm(ts, ts', p) /\ task' = task /\ Moves(p)
    BY <1>1, <1>4, KeepsSame, CalmSame DEF Moves
  <2>2. pc'[p] = "user" => Alert(ts'[p])
    BY <1>4 DEF TInv, AlertOK
  <2> QED  BY <2>1, <2>2, StillSessions
<1> QED  BY <1>2, <1>3, <1>4 DEF Collect

LEMMA WaitSessions ==
    ASSUME Core, TInv, NEW p \in Tasks, NEW w, NEW opts, Wait(p, w, opts)
    PROVE  TInv'
<1>1. pc[p] = "user" /\ p \in Listed /\ UNCHANGED <<use, tty>>
  BY DEF Wait, Enters
<1>2. Good(ts) /\ Alert(ts[p])
  BY <1>1, UserAlert
<1>3. CASE Collect(p, First(p, Found(p, w, opts)), ts)
  <2>1. Keeps(ts, ts, Null) /\ Calm(ts, ts, p)
    BY <1>2, KeepsSame, CalmSame
  <2> HIDE DEF Core, TInv
  <2> QED  BY <1>1, <1>2, <1>3, <2>1, CollectSessions
<1>4. CASE /\ ts' = [ts EXCEPT ![p].state = "interruptible"]
           /\ pc' = [pc EXCEPT ![p] = "wait"]
           /\ UNCHANGED <<task, shell, panicked>>
  <2>1. Keeps(ts, ts', Null) /\ Calm(ts, ts', p)
    BY <1>2, <1>4, StateKeeps, FieldCalm
  <2>2. task' = task /\ Moves(p) /\ pc'[p] # "user"
    BY <1>4 DEF Moves, Core, Shape
  <2> QED  BY <1>1, <2>1, <2>2, StillSessions
<1> QED  BY <1>3, <1>4 DEF Wait

LEMMA WaitAgainSessions ==
    ASSUME Core, TInv, NEW p \in Tasks, WaitAgain(p)
    PROVE  TInv'
<1> DEFINE awake == [ts EXCEPT ![p].state = "running"]
           found == Found(p, local[p].w, local[p].opts)
<1>1. pc[p] = "wait" /\ p \in Listed /\ Good(ts) /\ p \in All /\ UNCHANGED <<use, tty>>
  BY DEF WaitAgain, Core, Shape, All
<1>2. Keeps(ts, awake, Null) /\ Calm(ts, awake, p)
  BY <1>1, StateKeeps, FieldCalm
<1>3. Alert(awake[p])
  <2>1. Rec(ts[p]) /\ awake[p] = [ts[p] EXCEPT !.state = "running"]
    BY <1>1 DEF Good
  <2> HIDE DEF awake
  <2> QED  BY <2>1 DEF Alert, Rec, Fields
<1>4. CASE ts' = awake /\ WaitReturns(p, -1) /\ UNCHANGED <<task, panicked>>
  <2>1. task' = task /\ Moves(p)
    BY <1>4 DEF WaitReturns, Moves
  <2> HIDE DEF awake
  <2> QED  BY <1>1, <1>2, <1>3, <1>4, <2>1, StillSessions
<1>5. CASE Collect(p, First(p, found), awake)
  <2> HIDE DEF awake, found
  <2> QED  BY <1>1, <1>2, <1>3, <1>5, CollectSessions
<1> QED  BY <1>4, <1>5 DEF WaitAgain

LEMMA OthersSessions ==
    ASSUME Core, TInv, NEW p \in Tasks,
           \/ \E c \in Codes : Exit(p, c)
           \/ \E q \in Tasks, pgid \in 1..MaxPid : Setpgid(p, q, pgid)
           \/ \E pgrp \in 1..MaxPid : SetForeground(p, pgrp)
    PROVE  TInv'
<1>1. /\ pc[p] = "user" /\ p \in Listed /\ task' = task /\ use' = use /\ Moves(p)
      /\ ts' = ts \/ \E q, pgid : ts' = [ts EXCEPT ![q].pgrp = pgid]
      /\ tty' = tty \/ \E pgrp : tty' = [tty EXCEPT !.pgrp = pgrp]
  <2>1. CASE \E c \in Codes : Exit(p, c)
    <3>1. PICK c \in Codes : Exit(p, c)
      BY <2>1
    <3> QED  BY <3>1 DEF Exit, Enters, Moves
  <2>2. CASE \E q \in Tasks, pgid \in 1..MaxPid : Setpgid(p, q, pgid)
    <3>1. PICK q \in Tasks, pgid \in 1..MaxPid : Setpgid(p, q, pgid)
      BY <2>2
    <3>2. /\ pc[p] = "user" /\ p \in Listed /\ UNCHANGED <<task, use, pc, tty>>
          /\ ts' = [ts EXCEPT ![q].pgrp = pgid]
      BY <3>1 DEF Setpgid, Enters
    <3> QED  BY <3>2 DEF Moves
  <2>3. CASE \E pgrp \in 1..MaxPid : SetForeground(p, pgrp)
    BY <2>3 DEF SetForeground, Enters, Moves
  <2> QED  BY <2>1, <2>2, <2>3
<1>2. Good(ts) /\ Alert(ts[p]) /\ p \in All /\ p # Null
  BY <1>1, UserAlert
<1>3. Keeps(ts, ts', Null) /\ Calm(ts, ts', Null)
  <2>1. CASE ts' = ts
    BY <1>2, <2>1, KeepsSame, CalmSame
  <2>2. CASE \E q, pgid : ts' = [ts EXCEPT ![q].pgrp = pgid]
    <3>1. PICK q, pgid : ts' = [ts EXCEPT ![q].pgrp = pgid]
      BY <2>2
    <3>2. Keeps(ts, [ts EXCEPT ![q].pgrp = pgid], Null)
      BY <1>2, FieldKeeps
    <3>3. Calm(ts, [ts EXCEPT ![q].pgrp = pgid], Null)
      BY <1>2, FieldCalm
    <3> QED  BY <3>1, <3>2, <3>3
  <2> QED  BY <1>1, <2>1, <2>2
<1>4. Calm(ts, ts', p) /\ Alert(ts'[p])
  BY <1>2, <1>3, CalmAll
<1>5. tty' = tty \/ tty' = [tty EXCEPT !.pgrp = tty'.pgrp]
  BY <1>1 DEF TInv, SessionsOK
<1> QED  BY <1>1, <1>3, <1>4, <1>5, StillSessions

LEMMA SetsidSessions ==
    ASSUME Core, TInv, NEW p \in Tasks, Setsid(p)
    PROVE  TInv'
<1>1. /\ pc[p] = "user" /\ p \in Listed /\ UNCHANGED <<task, pc, use, tty>>
      /\ ts[p].leader => "suser" \in use.calls
  BY DEF Setsid, Enters
<1>2. Good(ts) /\ Alert(ts[p]) /\ p \in All
  BY <1>1, UserAlert
<1>3. Listed' = Listed /\ Listed \subseteq All /\ Tasks \subseteq All
  BY <1>1, ListedTasks DEF Listed, Core
<1>4. \A x \in All \ {p} : ts'[x] = ts[x]
  BY <1>2 DEF Setsid, Good
<1>5. /\ ts'[p].leader = TRUE /\ ts'[p].session = ts[p].pid /\ ts'[p].pid = ts[p].pid
      /\ ts'[p].tty = FALSE /\ ts'[p].signal = ts[p].signal /\ ts'[p].state = ts[p].state
  <2>1. Rec(ts[p]) /\ p \in DOMAIN ts
    BY <1>2 DEF Good
  <2>2. ts'[p] = [ts[p] EXCEPT !.leader = TRUE, !.session = ts[p].pid,
                               !.pgrp = ts[p].pid, !.tty = FALSE]
    BY <2>1 DEF Setsid
  <2> QED  BY <2>1, <2>2 DEF Rec, Fields
<1>6. SessionsOK'
  <2>1. \A x \in Tasks : pc'[x] = "new" => ~ts'[x].leader
    BY <1>1, <1>3, <1>4 DEF TInv, SessionsOK
  <2>2. \A x \in Listed :
           /\ ts'[x].pid # 0 /\ (ts'[x].leader => ts'[x].session = ts'[x].pid)
           /\ ts'[x].tty => tty.session # 0 /\ ts'[x].session = tty.session
    BY <1>1, <1>3, <1>4, <1>5 DEF TInv, SessionsOK
  <2>3. tty.session # 0 /\ "suser" \notin use.calls => \E x \in Listed :
           ts'[x].leader /\ ts'[x].tty /\ ts'[x].state # "zombie" /\ ts'[x].session = tty.session
    BY <1>1, <1>3, <1>4 DEF TInv, SessionsOK
  <2> QED  BY <1>1, <1>3, <2>1, <2>2, <2>3 DEF TInv, SessionsOK
<1>7. AlertOK'
  <2> SUFFICES ASSUME NEW x \in Listed, pc[x] \in {"user", "copy"} PROVE Alert(ts'[x])
    BY <1>1, <1>3 DEF AlertOK, Alert
  <2> QED  BY <1>2, <1>3, <1>4, <1>5 DEF TInv, AlertOK, Alert
<1>8. SignalsOK'
  BY <1>1, <1>3, <1>4, <1>5 DEF TInv, SignalsOK
<1>9. LedOK'
  <2> SUFFICES ASSUME NEW x \in Listed, ts'[x].tty
               PROVE  \E y \in Listed : ts'[y].leader /\ ts'[y].state # "zombie"
                          /\ ts'[y].session = ts'[x].session
    BY <1>3 DEF LedOK
  <2>1. x # p /\ ts'[x] = ts[x]
    BY <1>3, <1>4, <1>5
  <2>2. PICK y \in Listed : ts[y].leader /\ ts[y].state # "zombie" /\ ts[y].session = ts[x].session
    BY <2>1 DEF TInv, LedOK
  <2>3. CASE y = p
    <3>1. ts[p].session = ts[p].pid
      BY <1>1, <2>2, <2>3 DEF TInv, SessionsOK
    <3> QED  BY <1>1, <1>5, <2>1, <2>2, <2>3, <3>1
  <2>4. CASE y # p
    BY <1>3, <1>4, <2>1, <2>2, <2>4
  <2> QED  BY <2>3, <2>4
<1> QED  BY <1>6, <1>7, <1>8, <1>9 DEF TInv

LEMMA OpenTtySessions ==
    ASSUME Core, TInv, NEW p \in Tasks, OpenTty(p)
    PROVE  TInv'
<1>1. /\ pc[p] = "user" /\ p \in Listed /\ UNCHANGED <<task, pc, use>>
      /\ ts[p].leader /\ tty.session = 0 /\ ts[p].state = "running"
      /\ tty' = [session |-> ts[p].session, pgrp |-> ts[p].pgrp]
  BY DEF OpenTty, Enters
<1>2. Good(ts) /\ Alert(ts[p]) /\ p \in All
  BY <1>1, UserAlert
<1>3. Listed' = Listed /\ Listed \subseteq All /\ Tasks \subseteq All
  BY <1>1, ListedTasks DEF Listed, Core
<1>4. \A x \in All \ {p} : ts'[x] = ts[x]
  BY <1>2 DEF OpenTty, Good
<1>5. /\ ts'[p].leader = ts[p].leader /\ ts'[p].session = ts[p].session
      /\ ts'[p].pid = ts[p].pid /\ ts'[p].tty = TRUE
      /\ ts'[p].signal = ts[p].signal /\ ts'[p].state = ts[p].state
  <2>1. Rec(ts[p]) /\ p \in DOMAIN ts
    BY <1>2 DEF Good
  <2>2. ts'[p] = [ts[p] EXCEPT !.tty = TRUE]
    BY <2>1 DEF OpenTty
  <2> QED  BY <2>1, <2>2 DEF Rec, Fields
<1>6. SessionsOK'
  <2>1. \A x \in Tasks : pc'[x] = "new" => ~ts'[x].leader
    BY <1>1, <1>3, <1>4 DEF TInv, SessionsOK
  <2>2. tty' = [f \in {"session", "pgrp"} |-> tty'[f]] /\ tty'.session = ts[p].session
    BY <1>1
  <2>3. \A x \in Listed :
           ts'[x].pid # 0 /\ (ts'[x].leader => ts'[x].session = ts'[x].pid)
    BY <1>1, <1>3, <1>4, <1>5 DEF TInv, SessionsOK
  <2>4. \A x \in Listed : ts'[x].tty => x = p
    BY <1>1, <1>3, <1>4 DEF TInv, SessionsOK
  <2>5. ts[p].session # 0
    BY <1>1 DEF TInv, SessionsOK
  <2>6. \A x \in Listed : ts'[x].tty => tty'.session # 0 /\ ts'[x].session = tty'.session
    BY <1>5, <2>2, <2>4, <2>5
  <2>7. \E x \in Listed :
           ts'[x].leader /\ ts'[x].tty /\ ts'[x].state # "zombie" /\ ts'[x].session = tty'.session
    BY <1>1, <1>5, <2>2
  <2> QED  BY <1>3, <2>1, <2>2, <2>3, <2>6, <2>7 DEF SessionsOK
<1>7. AlertOK'
  <2> SUFFICES ASSUME NEW x \in Listed, pc[x] \in {"user", "copy"} PROVE Alert(ts'[x])
    BY <1>1, <1>3 DEF AlertOK, Alert
  <2> QED  BY <1>2, <1>3, <1>4, <1>5 DEF TInv, AlertOK, Alert
<1>8. SignalsOK'
  BY <1>1, <1>3, <1>4, <1>5 DEF TInv, SignalsOK
<1>9. LedOK'
  <2>1. \A x \in Listed : ts'[x].tty => x = p
    BY <1>1, <1>3, <1>4 DEF TInv, SessionsOK
  <2> QED  BY <1>1, <1>3, <1>5, <2>1 DEF LedOK
<1> QED  BY <1>6, <1>7, <1>8, <1>9 DEF TInv

Led == "page" \notin use.sleeps => Core /\ TInv

LEMMA InitLed == ASSUME Init PROVE Led
<1>1. Null \notin Tasks /\ InitTask \in Tasks /\ 1 \notin Slots
  BY TasksAssumption, SlotsAssumption DEF Tasks
<1>2. Listed = {InitTask}
  BY <1>1 DEF Init, Listed
<1>3. ts[InitTask] = [Blank EXCEPT !.pid = 1, !.p_pptr = Zero]
  <2>1. InitTask # Zero /\ InitTask \in Tasks \cup {Zero}
    BY <1>1, TasksAssumption
  <2> HIDE DEF Blank
  <2> QED  BY <2>1 DEF Init
<1>4. /\ ts[InitTask].pid = 1 /\ ts[InitTask].leader = FALSE /\ ts[InitTask].tty = FALSE
      /\ ts[InitTask].signal = {} /\ ts[InitTask].state = "running"
  BY <1>3 DEF Blank
<1>5. SessionsOK
  <2>1. \A x \in Tasks : pc[x] # "new"
    BY DEF Init
  <2>2. tty = [session |-> 0, pgrp |-> 0]
    BY DEF Init
  <2> QED  BY <1>2, <1>4, <2>1, <2>2 DEF SessionsOK
<1>6. AlertOK
  BY <1>2, <1>4 DEF AlertOK, Alert
<1>7. SignalsOK
  <2>1. use \in [calls : SUBSET Calls, sends : SUBSET {1, 9, 18, 19},
                 sleeps : SUBSET {"page", "copy"}]
    BY UsesAssumption DEF Init
  <2>2. use.sends \subseteq {1, 9, 18, 19}
    BY <2>1
  <2> QED  BY <1>2, <1>4, <2>2 DEF SignalsOK
<1>8. LedOK
  BY <1>2, <1>4 DEF LedOK
<1> QED  BY <1>5, <1>6, <1>7, <1>8, InitInv DEF Led, TInv, IInv

LEMMA StepLed == ASSUME Led, [Next]_vars PROVE Led'
<1>1. use' = use
  <2>1. ASSUME NEW p \in Tasks, Continue(p) PROVE use' = use
    BY <2>1 DEF Continue, Deliver, PageCame, CopyDone, Die, WaitAgain
  <2>2. ASSUME NEW p \in Tasks, Step(p) PROVE use' = use
    BY <2>1, <2>2 DEF Step, Fork, Setsid, OpenTty, Exit, Wait, Kill, Setpgid, SetForeground
  <2> QED  BY <2>2 DEF Next, vars
<1> SUFFICES ASSUME "page" \notin use.sleeps, Core, TInv PROVE Core' /\ TInv'
  <2>1. Led' <=> ("page" \notin use'.sleeps => (Core' /\ TInv'))
    BY DEF Led, Core, TInv
  <2>2. "page" \notin use.sleeps => Core /\ TInv
    BY DEF Led, Core, TInv
  <2> QED  BY <1>1, <2>1, <2>2
<1>2. Core'
  <2>1. IInv'
    BY StepInv DEF IInv
  <2>2. IInv' <=> ("page" \notin use'.sleeps => Core')
    BY DEF IInv, Core
  <2> QED  BY <1>1, <2>1, <2>2
<1>3. CASE UNCHANGED vars
  <2>1. /\ task' = task /\ ts' = ts /\ pc' = pc /\ use' = use /\ tty' = tty
        /\ Listed' = Listed
    BY <1>3 DEF vars, Listed
  <2>2. TInv'
    BY <2>1 DEF TInv, SessionsOK, LedOK, AlertOK, Alert, SignalsOK
  <2> QED  BY <1>2, <2>2
<1>4. ASSUME NEW p \in Tasks, Step(p) PROVE TInv'
  <2>1. CASE Deliver(p)
    BY <2>1, DeliverSessions
  <2>2. CASE PageCame(p)
    BY <2>2 DEF PageCame, Core, NoPage
  <2>3. CASE CopyDone(p)
    BY <2>3, CopyDoneSessions
  <2>4. CASE Die(p)
    BY <2>4, DieSessions
  <2>5. CASE WaitAgain(p)
    BY <2>5, WaitAgainSessions
  <2>6. CASE Fork(p)
    BY <2>6, ForkSessions
  <2>7. CASE \E w \in Waits, opts \in Options : Wait(p, w, opts)
    BY <2>7, WaitSessions
  <2>8. CASE \E w \in -MaxPid..MaxPid, sig \in use.sends : Kill(p, w, sig)
    BY <2>8, KillSessions
  <2>9. CASE \/ \E c \in Codes : Exit(p, c)
             \/ \E q \in Tasks, pgid \in 1..MaxPid : Setpgid(p, q, pgid)
             \/ \E pgrp \in 1..MaxPid : SetForeground(p, pgrp)
    BY <2>9, OthersSessions
  <2>10. CASE Setsid(p)
    BY <2>10, SetsidSessions
  <2>11. CASE OpenTty(p)
    BY <2>11, OpenTtySessions
  <2> QED
    BY <1>4, <2>1, <2>2, <2>3, <2>4, <2>5, <2>6, <2>7, <2>8, <2>9, <2>10, <2>11
       DEF Step, Continue
<1> QED  BY <1>2, <1>3, <1>4 DEF Next

(* Whoever has the terminal is of the session it belongs to, which has a   *)
(* living leader, for any number of processes and sessions, also when a    *)
(* superuser leaves its terminal by a second setsid(): exit.c:491-505      *)
(* takes it from all of them when the leader exits, sys_setsid() from the  *)
(* new leader.  With two processes of one pid two of them could lead one   *)
(* session.                                                                *)
THEOREM TtyLed == Spec => []("page" \notin use.sleeps => TtyHasLeader)
<1>1. Init => Led
  BY InitLed
<1>2. Led /\ [Next]_vars => Led'
  BY StepLed
<1>3. Led => ("page" \notin use.sleeps => TtyHasLeader)
  <2> SUFFICES ASSUME Core, TInv PROVE TtyHasLeader
    BY DEF Led
  <2>1. Listed \subseteq Tasks
    BY ListedTasks DEF Core
  <2>2. \A x \in Listed : ts[x].tty => tty.session # 0 /\ ts[x].session = tty.session
    BY DEF TInv, SessionsOK
  <2>3. ASSUME NEW x \in Listed, ts[x].tty PROVE \E y \in Tasks : Leads(y)
    BY <2>1, <2>2, <2>3 DEF TInv, LedOK, Leads
  <2>4. tty.session # 0 /\ "suser" \notin use.calls => \E y \in Tasks : Leads(y) /\ ts[y].tty
    BY <2>1 DEF TInv, SessionsOK, Leads
  <2> QED  BY <2>2, <2>3, <2>4 DEF TtyHasLeader
<1> QED  BY <1>1, <1>2, <1>3, PTL DEF Spec

(* Nobody sleeps through SIGKILL, for any number of processes and signals: *)
(* send_sig() has put whoever was stopped on the run queue, waitpid()      *)
(* sleeps interruptibly, and no stop signal is delivered before a SIGKILL. *)
THEOREM KillAlwaysHeard == Spec => []("page" \notin use.sleeps => KillHeard)
<1>1. Init => Led
  BY InitLed
<1>2. Led /\ [Next]_vars => Led'
  BY StepLed
<1>3. Led => ("page" \notin use.sleeps => KillHeard)
  <2> SUFFICES ASSUME Core, TInv, NEW p \in Listed, ~panicked, pc[p] \notin {"new", "dead"},
                      SIGKILL \in ts[p].signal
               PROVE  Ready(p)
    BY DEF Led, KillHeard
  <2>1. p \in Tasks /\ pc[p] \in {"user", "copy", "wait", "exit"}
    BY ListedTasks DEF Core, Shape, PCs, FreeUnlisted, NoPage
  <2>2. CASE pc[p] \in {"copy", "exit"}
    BY <2>2 DEF Ready
  <2>3. CASE pc[p] = "user"
    <3>1. ts[p].state = "running"
      BY <2>3 DEF TInv, AlertOK, Alert
    <3> QED  BY <2>3, <3>1 DEF Ready
  <2>4. CASE pc[p] = "wait"
    <3>1. ts[p].signal # {SIGCHLD} /\ ts[p].signal # {}
      BY DEF SIGKILL, SIGCHLD
    <3> QED  BY <2>4, <3>1 DEF Ready
  <2> QED  BY <2>1, <2>2, <2>3, <2>4
<1> QED  BY <1>1, <1>2, <1>3, PTL DEF Spec

----------------------------------------------------------------------------
(* The tree.  In T the pages of L are linked into it, and pos is where on  *)
(* the list of its father each of them is.                                 *)

Lined(T, L, pos) ==
    /\ pos \in [Pages -> Nat \ {0}]
    /\ \A p \in L :
        /\ T[p].p_pptr \in L \cup {InitTask}
        /\ IF T[p].p_ysptr = Null
           THEN pos[p] = 1 /\ T[T[p].p_pptr].p_cptr = p
           ELSE /\ T[p].p_ysptr \in L /\ T[T[p].p_ysptr].p_osptr = p
                /\ T[T[p].p_ysptr].p_pptr = T[p].p_pptr
                /\ pos[p] = pos[T[p].p_ysptr] + 1
        /\ T[p].p_osptr # Null => T[p].p_osptr \in L /\ T[T[p].p_osptr].p_ysptr = p
    /\ \A q \in L \cup {InitTask} : T[q].p_cptr # Null =>
        /\ T[q].p_cptr \in L /\ T[T[q].p_cptr].p_pptr = q
        /\ T[T[q].p_cptr].p_ysptr = Null

\* Two children of one father have two places.
LEMMA PlacesDiffer ==
    ASSUME NEW T, NEW L, L \subseteq Pages, NEW pos, Lined(T, L, pos),
           NEW p \in L, NEW r \in L, T[p].p_pptr = T[r].p_pptr, pos[p] = pos[r]
    PROVE  p = r
<1> DEFINE Twice == {n \in Nat : \E x, y \in L :
                        T[x].p_pptr = T[y].p_pptr /\ pos[x] = n /\ pos[y] = n /\ x # y}
<1>1. \A x \in L : pos[x] \in Nat \ {0}
  BY DEF Lined
<1>2. Twice = {}
  <2> SUFFICES ASSUME Twice # {} PROVE FALSE
    OBVIOUS
  <2>1. PICK n \in Twice : \A m \in Twice : n <= m
    <3>1. Twice \subseteq Nat
      OBVIOUS
    <3> HIDE DEF Twice
    <3> QED  BY <3>1, LeastIn
  <2>2. PICK x \in L, y \in L :
            T[x].p_pptr = T[y].p_pptr /\ pos[x] = n /\ pos[y] = n /\ x # y
    BY <2>1
  <2>3. CASE n = 1
    <3>1. T[x].p_ysptr = Null /\ T[y].p_ysptr = Null
      <4>1. ASSUME NEW z \in L, pos[z] = 1 PROVE T[z].p_ysptr = Null
        <5>1. T[z].p_ysptr # Null => T[z].p_ysptr \in L /\ pos[z] = pos[T[z].p_ysptr] + 1
          BY DEF Lined
        <5>2. ASSUME NEW b \in L PROVE pos[b] + 1 # 1
          BY <1>1
        <5> QED  BY <4>1, <5>1, <5>2
      <4> QED  BY <2>2, <2>3, <4>1
    <3>2. T[T[x].p_pptr].p_cptr = x /\ T[T[y].p_pptr].p_cptr = y
      BY <3>1 DEF Lined
    <3> QED  BY <2>2, <3>2
  <2>4. CASE n # 1
    <3>1. /\ T[x].p_ysptr # Null /\ T[y].p_ysptr # Null
      BY <2>2, <2>4 DEF Lined
    <3> DEFINE a == T[x].p_ysptr
               b == T[y].p_ysptr
    <3>2. /\ a \in L /\ T[a].p_osptr = x /\ T[a].p_pptr = T[x].p_pptr /\ n = pos[a] + 1
          /\ b \in L /\ T[b].p_osptr = y /\ T[b].p_pptr = T[y].p_pptr /\ n = pos[b] + 1
      BY <2>2, <3>1 DEF Lined
    <3> HIDE DEF a, b
    <3>3. pos[a] \in Nat /\ pos[b] \in Nat /\ pos[a] = pos[b] /\ pos[a] < n
      BY <1>1, <3>2
    <3>4. a # b
      BY <2>2, <3>2
    <3>5. pos[a] \in Twice
      BY <2>2, <3>2, <3>3, <3>4
    <3>6. n \in Nat
      BY <1>1, <2>2
    <3> HIDE DEF Twice
    <3> QED  BY <2>1, <3>3, <3>5, <3>6
  <2> QED  BY <2>3, <2>4
<1>3. p # r => pos[p] \in Twice
  BY <1>1
<1> QED  BY <1>2, <1>3

\* No place of a list is left out.
LEMMA PlacesBefore ==
    ASSUME NEW T, NEW L, L \subseteq Pages, NEW pos, Lined(T, L, pos),
           NEW p \in L, NEW i \in 1..pos[p]
    PROVE  \E r \in L : T[r].p_pptr = T[p].p_pptr /\ pos[r] = i
<1> DEFINE Gaps == {n \in Nat : \E x \in L : pos[x] = n /\ i <= n /\ T[x].p_pptr = T[p].p_pptr
                        /\ ~\E r \in L : T[r].p_pptr = T[x].p_pptr /\ pos[r] = i}
<1>1. \A x \in L : pos[x] \in Nat \ {0}
  BY DEF Lined
<1>2. Gaps = {}
  <2> SUFFICES ASSUME Gaps # {} PROVE FALSE
    OBVIOUS
  <2>1. PICK n \in Gaps : \A m \in Gaps : n <= m
    <3>1. Gaps \subseteq Nat
      OBVIOUS
    <3> HIDE DEF Gaps
    <3> QED  BY <3>1, LeastIn
  <2>2. PICK x \in L : /\ pos[x] = n /\ i <= n /\ T[x].p_pptr = T[p].p_pptr
                       /\ ~\E r \in L : T[r].p_pptr = T[x].p_pptr /\ pos[r] = i
    BY <2>1
  <2>3. n # i /\ n \in Nat /\ i \in Nat \ {0}
    BY <1>1, <2>2
  <2>4. T[x].p_ysptr # Null
    BY <2>2, <2>3 DEF Lined
  <2> DEFINE a == T[x].p_ysptr
  <2>5. a \in L /\ T[a].p_pptr = T[x].p_pptr /\ n = pos[a] + 1
    BY <2>2, <2>4 DEF Lined
  <2> HIDE DEF a
  <2>6. pos[a] \in Nat /\ pos[a] < n /\ i <= pos[a]
    BY <1>1, <2>2, <2>3, <2>5
  <2>7. pos[a] \in Gaps
    BY <2>2, <2>5, <2>6
  <2> HIDE DEF Gaps
  <2> QED  BY <2>1, <2>3, <2>6, <2>7
<1>3. (~\E r \in L : T[r].p_pptr = T[p].p_pptr /\ pos[r] = i) => pos[p] \in Gaps
  BY <1>1
<1> QED  BY <1>2, <1>3

\* There are no more places than pages.
LEMMA PlacesBounded ==
    ASSUME NEW T, NEW L, L \subseteq Pages, NEW pos, Lined(T, L, pos), NEW p \in L
    PROVE  pos[p] \in 1..Cardinality(Pages)
<1> DEFINE at == [i \in 1..pos[p] |-> CHOOSE r \in L : T[r].p_pptr = T[p].p_pptr /\ pos[r] = i]
<1>1. pos[p] \in Nat \ {0}
  BY DEF Lined
<1>2. \A i \in 1..pos[p] : at[i] \in L /\ pos[at[i]] = i
  BY PlacesBefore
<1>3. at \in [1..pos[p] -> Pages]
  BY <1>2
<1>4. at \in Injection(1..pos[p], Pages)
  <2> HIDE DEF at
  <2> QED  BY <1>2, <1>3 DEF Injection, IsInjective
<1>5. Cardinality(1..pos[p]) <= Cardinality(Pages)
  <2> HIDE DEF at
  <2> QED  BY <1>4, TasksAssumption, FS_Injection
<1>6. Cardinality(1..pos[p]) = pos[p]
  BY <1>1, FS_Interval
<1>7. Cardinality(Pages) \in Nat
  BY TasksAssumption, FS_CardinalityType
<1> QED  BY <1>1, <1>5, <1>6, <1>7

LEMMA Segment ==
    ASSUME NEW N \in Nat, NEW S, S \subseteq 1..N, \A i \in S : \A j \in 1..i : j \in S
    PROVE  S = 1..Cardinality(S) /\ Cardinality(S) \in Nat
<1> DEFINE D == (1..(N + 1)) \ S
<1>1. PICK m \in D : \A y \in D : m <= y
  <2>1. D \subseteq Nat /\ N + 1 \in D
    OBVIOUS
  <2> HIDE DEF D
  <2> QED  BY <2>1, LeastIn
<1>2. S = 1..(m - 1)
  <2>1. m \in 1..(N + 1) /\ m \notin S
    BY <1>1
  <2>2. ASSUME NEW j \in S PROVE j \in 1..(m - 1)
    <3>1. ~(m \in 1..j)
      BY <2>1
    <3> QED  BY <2>1, <3>1
  <2>3. ASSUME NEW j \in 1..(m - 1) PROVE j \in S
    <3>1. j \in 1..(N + 1) /\ ~(m <= j)
      BY <2>1
    <3>2. j \notin D
      <4> HIDE DEF D
      <4> QED  BY <1>1, <3>1
    <3> QED  BY <3>1, <3>2
  <2> HIDE DEF D
  <2> QED  BY <2>2, <2>3
<1>3. Cardinality(1..(m - 1)) = m - 1
  <2>1. m \in Int /\ m >= 1
    OBVIOUS
  <2> QED  BY <2>1, FS_Interval
<1> QED  BY <1>2, <1>3

\* The sequence K of the children of q, each at its place.
Listing(K, T, L, pos, q) ==
    /\ K \in Seq(Pages) /\ Len(K) \in Nat /\ DOMAIN K = 1..Len(K)
    /\ \A i \in DOMAIN K : K[i] \in L /\ T[K[i]].p_pptr = q /\ pos[K[i]] = i
    /\ \A p \in L : T[p].p_pptr = q => pos[p] \in DOMAIN K /\ K[pos[p]] = p

\* Kids(U, q) are the children q has in T, each at its place, when the
\* links that Kids follows are the same.
LEMMA KidsLike ==
    ASSUME NEW T, NEW L, L \subseteq Pages, NEW pos, Lined(T, L, pos),
           NEW q \in L \cup {InitTask}, NEW U, U[q].p_cptr = T[q].p_cptr,
           \A x \in L : U[x].p_osptr = T[x].p_osptr
    PROVE  Listing(Kids(U, q), T, L, pos, q)
<1> DEFINE N == Cardinality(Pages)
           Is(i, p) == p \in L /\ T[p].p_pptr = q /\ pos[p] = i
           g == [i \in 1..N |-> IF \E p \in L : Is(i, p) THEN CHOOSE p \in L : Is(i, p) ELSE Null]
           kid == CHOOSE f : f = [i \in 1..N |->
                      IF i = 1 THEN U[q].p_cptr
                      ELSE IF f[i - 1] = Null THEN Null ELSE U[f[i - 1]].p_osptr]
           S == {j \in DOMAIN kid : kid[j] # Null}
<1>1. N \in Nat
  BY TasksAssumption, FS_CardinalityType
<1>2. Null \notin L /\ \A p \in L : pos[p] \in 1..N
  BY TasksAssumption, PlacesBounded
<1> HIDE DEF N
<1>3. Kids(U, q) = [i \in 1..Cardinality(S) |-> kid[i]]
  BY DEF Kids, N
<1>4. ASSUME NEW i \in 1..N
      PROVE  /\ g[i] # Null => Is(i, g[i])
             /\ \A p \in L : Is(i, p) => g[i] = p
  <2>1. \A x, y \in L : Is(i, x) /\ Is(i, y) => x = y
    BY PlacesDiffer
  <2> QED  BY <2>1
<1>5. ASSUME NEW i \in 1..N
      PROVE  g[i] = IF i = 1 THEN T[q].p_cptr
                    ELSE IF g[i - 1] = Null THEN Null ELSE T[g[i - 1]].p_osptr
  <2>1. CASE i = 1
    <3> DEFINE c == T[q].p_cptr
    <3>1. c # Null => c \in L /\ T[c].p_pptr = q /\ T[c].p_ysptr = Null
      BY DEF Lined
    <3>2. c # Null => Is(1, c)
      <4> HIDE DEF c
      <4> QED  BY <3>1 DEF Lined
    <3>3. ASSUME NEW p \in L, Is(1, p) PROVE c = p
      <4>1. T[p].p_ysptr = Null
        <5>1. T[p].p_ysptr # Null => T[p].p_ysptr \in L /\ 1 = pos[T[p].p_ysptr] + 1
          BY <3>3 DEF Lined
        <5>2. \A b \in L : pos[b] + 1 # 1
          <6> SUFFICES ASSUME NEW b \in L PROVE pos[b] + 1 # 1
            OBVIOUS
          <6>1. pos[b] \in 1..N
            BY <1>2
          <6> QED  BY <1>1, <6>1
        <5> QED  BY <5>1, <5>2
      <4> QED  BY <3>3, <4>1 DEF Lined
    <3>4. g[1] = c
      <4>1. CASE c # Null
        BY <1>4, <2>1, <3>1, <3>2, <4>1
      <4>2. CASE c = Null
        <5>1. g[1] # Null => Is(1, g[1]) /\ g[1] \in L
          BY <1>4, <2>1
        <5> HIDE DEF g, c
        <5> QED  BY <1>2, <3>3, <4>2, <5>1
      <4> QED  BY <4>1, <4>2
    <3> QED  BY <2>1, <3>4
  <2>2. CASE i # 1
    <3>1. i - 1 \in 1..N /\ i \in Nat
      BY <1>1, <2>2
    <3> DEFINE a == g[i - 1]
    <3>2. ASSUME NEW p \in L, Is(i, p)
          PROVE  a # Null /\ T[a].p_osptr = p
      <4> DEFINE b == T[p].p_ysptr
      <4>1. b # Null
        BY <2>2, <3>2 DEF Lined
      <4>2. b \in L /\ T[b].p_osptr = p /\ T[b].p_pptr = q /\ i = pos[b] + 1
        BY <3>2, <4>1 DEF Lined
      <4> HIDE DEF b
      <4>3. pos[b] \in 1..N
        BY <1>2, <4>2
      <4>4. Is(i - 1, b)
        BY <1>1, <3>1, <4>2, <4>3
      <4> HIDE DEF g
      <4>5. g[i - 1] = b
        BY <1>4, <3>1, <4>2, <4>4
      <4> QED  BY <4>1, <4>2, <4>5
    <3>3. ASSUME a # Null, T[a].p_osptr # Null
          PROVE  T[a].p_osptr \in L /\ Is(i, T[a].p_osptr)
      <4>1. Is(i - 1, a)
        BY <1>4, <3>1, <3>3
      <4> HIDE DEF g
      <4> DEFINE o == T[a].p_osptr
      <4>2. o \in L /\ T[o].p_ysptr = a /\ a # Null
        BY <3>3, <4>1 DEF Lined
      <4>3. T[a].p_pptr = T[o].p_pptr /\ pos[o] = pos[a] + 1
        <5> HIDE DEF a, o
        <5> QED  BY <4>2 DEF Lined
      <4> QED  BY <3>1, <4>1, <4>2, <4>3
    <3>4. g[i] # Null => g[i] \in L /\ Is(i, g[i])
      BY <1>4
    <3>5. a # Null /\ T[a].p_osptr # Null => g[i] = T[a].p_osptr
      <4> HIDE DEF g, a
      <4> USE DEF a
      <4>1. \A p \in L : Is(i, p) => g[i] = p
        BY <1>4
      <4> QED  BY <3>3, <4>1
    <3> HIDE DEF g
    <3> QED  BY <2>2, <3>2, <3>4, <3>5
  <2> QED  BY <2>1, <2>2
<1>6. g = [i \in 1..N |-> g[i]]
  OBVIOUS
<1> HIDE DEF g
<1>7. ASSUME NEW i \in 1..N
      PROVE  g[i] = IF i = 1 THEN U[q].p_cptr
                    ELSE IF g[i - 1] = Null THEN Null ELSE U[g[i - 1]].p_osptr
  <2>1. CASE i = 1
    BY <1>5, <2>1
  <2>2. CASE i # 1
    <3>1. i - 1 \in 1..N
      BY <1>1, <2>2
    <3>2. g[i - 1] # Null => g[i - 1] \in L
      BY <1>4, <3>1
    <3> QED  BY <1>5, <2>2, <3>2
  <2> QED  BY <2>1, <2>2
<1>8. g = [i \in 1..N |-> IF i = 1 THEN U[q].p_cptr
                          ELSE IF g[i - 1] = Null THEN Null ELSE U[g[i - 1]].p_osptr]
  BY <1>6, <1>7
<1>9. kid = [i \in 1..N |-> IF i = 1 THEN U[q].p_cptr
                          ELSE IF kid[i - 1] = Null THEN Null ELSE U[kid[i - 1]].p_osptr]
  BY <1>8
<1> HIDE DEF kid
<1>10. DOMAIN kid = 1..N
  BY <1>9
<1>11. ASSUME NEW i \in 1..N
      PROVE  kid[i] = IF i = 1 THEN U[q].p_cptr
                      ELSE IF kid[i - 1] = Null THEN Null ELSE U[kid[i - 1]].p_osptr
  BY <1>9
<1>12. ASSUME NEW i \in 1..N PROVE kid[i] = g[i]
  <2> DEFINE Differ == {n \in 1..N : kid[n] # g[n]}
  <2> SUFFICES ASSUME Differ # {} PROVE FALSE
    OBVIOUS
  <2>1. PICK n \in Differ : \A m \in Differ : n <= m
    <3>1. Differ \subseteq Nat
      BY <1>1
    <3> HIDE DEF Differ
    <3> QED  BY <3>1, LeastIn
  <2>2. n \in 1..N /\ kid[n] # g[n]
    BY <2>1
  <2>3. n # 1
    BY <1>7, <1>11, <2>2
  <2>4. n - 1 \in 1..N /\ n - 1 \notin Differ
    <3>1. n - 1 \in 1..N /\ ~(n <= n - 1)
      BY <1>1, <2>2, <2>3
    <3> HIDE DEF Differ
    <3> QED  BY <2>1, <3>1
  <2>5. kid[n - 1] = g[n - 1]
    BY <2>4
  <2> QED  BY <1>7, <1>11, <2>2, <2>3, <2>5
<1>13. \A i \in S : \A j \in 1..i : j \in S
  <2> SUFFICES ASSUME NEW i \in S, NEW j \in 1..i PROVE j \in S
    OBVIOUS
  <2>1. i \in 1..N /\ kid[i] # Null /\ j \in 1..N
    BY <1>1, <1>10
  <2>2. Is(i, g[i])
    BY <1>4, <1>12, <2>1
  <2>3. PICK r \in L : Is(j, r)
    <3> DEFINE b == g[i]
    <3>1. b \in L /\ j \in 1..pos[b] /\ T[b].p_pptr = q
      BY <2>2
    <3> HIDE DEF b
    <3>2. \E r \in L : T[r].p_pptr = T[b].p_pptr /\ pos[r] = j
      BY <3>1, PlacesBefore
    <3> QED  BY <3>1, <3>2
  <2>4. g[j] = r
    BY <1>4, <2>1, <2>3
  <2> QED  BY <1>2, <1>12, <1>10, <2>1, <2>4
<1>14. S = 1..Cardinality(S) /\ Cardinality(S) \in Nat
  <2>1. S \subseteq 1..N
    BY <1>10
  <2> HIDE DEF S
  <2> QED  BY <1>1, <1>13, <2>1, Segment
<1> DEFINE k == Cardinality(S)
<1>15. \A i \in 1..k : i \in 1..N /\ kid[i] # Null
  <2> HIDE DEF k
  <2>1. 1..k = S
    BY <1>14 DEF k
  <2> QED  BY <1>10, <2>1
<1>16. \A i \in 1..k : kid[i] \in L /\ Is(i, kid[i])
  BY <1>4, <1>12, <1>15
<1>17. \A p \in L : T[p].p_pptr = q => pos[p] \in 1..k /\ kid[pos[p]] = p
  <2> SUFFICES ASSUME NEW p \in L, T[p].p_pptr = q PROVE pos[p] \in 1..k /\ kid[pos[p]] = p
    OBVIOUS
  <2>1. pos[p] \in 1..N /\ g[pos[p]] = p
    BY <1>2, <1>4
  <2>2. kid[pos[p]] = p /\ pos[p] \in S
    BY <1>2, <1>12, <1>10, <2>1
  <2> QED  BY <1>14, <2>2
<1>18. k \in Nat
  BY <1>14
<1> HIDE DEF k, S
<1>19. Kids(U, q) = [i \in 1..k |-> kid[i]]
  BY <1>3 DEF k
<1>20. Kids(U, q) \in Seq(Pages) /\ Len(Kids(U, q)) = k
  <2>1. \A i \in 1..k : kid[i] \in Pages
    BY <1>16
  <2>2. [i \in 1..k |-> kid[i]] \in Seq(Pages)
    BY <1>18, <2>1, IsASeq
  <2>3. DOMAIN Kids(U, q) = 1..k /\ DOMAIN Kids(U, q) = 1..Len(Kids(U, q))
        /\ Len(Kids(U, q)) \in Nat
    BY <1>19, <2>2, LenProperties
  <2> QED  BY <1>18, <1>19, <2>2, <2>3
<1> QED  BY <1>16, <1>17, <1>18, <1>19, <1>20 DEF Listing

LEMMA KidsAre ==
    ASSUME NEW T, NEW L, L \subseteq Pages, NEW pos, Lined(T, L, pos),
           NEW q \in L \cup {InitTask}
    PROVE  Listing(Kids(T, q), T, L, pos, q)
<1>1. T[q].p_cptr = T[q].p_cptr /\ \A x \in L : T[x].p_osptr = T[x].p_osptr
  OBVIOUS
<1> QED  BY <1>1, KidsLike

\* A father is older than its children.
Aged(T, L, age) ==
    /\ age \in [Tasks -> Nat]
    /\ \A p \in L : T[p].p_pptr # InitTask => age[T[p].p_pptr] < age[p]

Living(T, L) ==
    \A p \in L : T[p].p_pptr # InitTask => T[T[p].p_pptr].state # "zombie"

Rooted(T, L) == \E pos, age : Lined(T, L, pos) /\ Aged(T, L, age) /\ Living(T, L)

\* U has the links of T, and no zombie that T has not.
Alike(T, U, S) ==
    \A x \in S : /\ U[x].p_pptr = T[x].p_pptr /\ U[x].p_cptr = T[x].p_cptr
                 /\ U[x].p_ysptr = T[x].p_ysptr /\ U[x].p_osptr = T[x].p_osptr
                 /\ U[x].state = "zombie" => T[x].state = "zombie"

LEMMA RootedAlike ==
    ASSUME NEW T, NEW U, NEW L, Rooted(T, L), Alike(T, U, L \cup {InitTask})
    PROVE  Rooted(U, L)
<1>1. PICK pos, age : Lined(T, L, pos) /\ Aged(T, L, age) /\ Living(T, L)
  BY DEF Rooted
<1>2. \A p \in L : T[p].p_pptr \in L \cup {InitTask}
  BY <1>1 DEF Lined
<1>3. Lined(U, L, pos)
  <2>1. ASSUME NEW p \in L
        PROVE  /\ U[p].p_pptr \in L \cup {InitTask}
               /\ IF U[p].p_ysptr = Null
                  THEN pos[p] = 1 /\ U[U[p].p_pptr].p_cptr = p
                  ELSE /\ U[p].p_ysptr \in L /\ U[U[p].p_ysptr].p_osptr = p
                       /\ U[U[p].p_ysptr].p_pptr = U[p].p_pptr
                       /\ pos[p] = pos[U[p].p_ysptr] + 1
               /\ U[p].p_osptr # Null => U[p].p_osptr \in L /\ U[U[p].p_osptr].p_ysptr = p
    BY <1>1, <1>2 DEF Lined, Alike
  <2>2. ASSUME NEW q \in L \cup {InitTask}, U[q].p_cptr # Null
        PROVE  /\ U[q].p_cptr \in L /\ U[U[q].p_cptr].p_pptr = q
               /\ U[U[q].p_cptr].p_ysptr = Null
    BY <1>1, <2>2 DEF Lined, Alike
  <2> QED  BY <1>1, <2>1, <2>2 DEF Lined
<1>4. Aged(U, L, age)
  BY <1>1 DEF Aged, Alike
<1>5. Living(U, L)
  BY <1>1, <1>2 DEF Living, Alike
<1> QED  BY <1>3, <1>4, <1>5 DEF Rooted

\* The order of the list is that of the links.
LEMMA RootedTree == ASSUME Rooted(ts, Linkable) PROVE TreeOK
<1>1. PICK pos, age : Lined(ts, Linkable, pos) /\ Living(ts, Linkable)
  BY DEF Rooted
<1>2. Linkable \subseteq Pages /\ \A x \in Linkable : pos[x] \in Nat \ {0}
  BY <1>1 DEF Linkable, Lined
<1>3. ASSUME NEW q \in Linkable \cup {InitTask}
      PROVE  Listing(Kids(ts, q), ts, Linkable, pos, q)
  BY <1>1, <1>2, <1>3, KidsAre
<1>4. ASSUME NEW p \in Linkable
      PROVE  LET father == ts[p].p_pptr
                 kids == Kids(ts, father)
             IN  /\ father \in {InitTask} \cup {q \in Linkable : ts[q].state # "zombie"}
                 /\ \E i \in 1..Len(kids) :
                     /\ kids[i] = p
                     /\ ts[p].p_ysptr = IF i = 1 THEN Null ELSE kids[i - 1]
                     /\ ts[p].p_osptr = IF i = Len(kids) THEN Null ELSE kids[i + 1]
  <2> DEFINE father == ts[p].p_pptr
             kids == Kids(ts, father)
             i == pos[p]
  <2>1. father \in Linkable \cup {InitTask}
    BY <1>1 DEF Lined
  <2>2. father \in {InitTask} \cup {q \in Linkable : ts[q].state # "zombie"}
    BY <1>1, <2>1 DEF Living
  <2>3. Listing(kids, ts, Linkable, pos, father)
    BY <1>3, <2>1
  <2> DEFINE place(x) == pos[x] \in 1..Len(kids) /\ kids[pos[x]] = x
  <2>4. \A x \in Linkable : ts[x].p_pptr = father => place(x)
    BY <2>3 DEF Listing
  <2>5. \A j \in 1..Len(kids) : kids[j] \in Linkable /\ ts[kids[j]].p_pptr = father /\ pos[kids[j]] = j
    BY <2>3 DEF Listing
  <2>6. Len(kids) \in Nat
    BY <2>3 DEF Listing
  <2> HIDE DEF kids
  <2>7. i \in 1..Len(kids) /\ kids[i] = p
    BY <2>4
  <2>8. ts[p].p_ysptr = IF i = 1 THEN Null ELSE kids[i - 1]
    <3> DEFINE y == ts[p].p_ysptr
    <3>1. CASE y = Null
      BY <1>1, <3>1 DEF Lined
    <3>2. CASE y # Null
      <4>1. y \in Linkable /\ ts[y].p_pptr = father /\ i = pos[y] + 1
        BY <1>1, <3>2 DEF Lined
      <4> HIDE DEF y
      <4>2. pos[y] \in Nat \ {0} /\ kids[pos[y]] = y
        BY <1>2, <2>4, <4>1
      <4>3. i # 1 /\ i - 1 = pos[y]
        BY <4>1, <4>2
      <4> QED  BY <4>2, <4>3 DEF y
    <3> QED  BY <3>1, <3>2
  <2>9. ts[p].p_osptr = IF i = Len(kids) THEN Null ELSE kids[i + 1]
    <3> DEFINE o == ts[p].p_osptr
    <3>1. ASSUME o # Null
          PROVE  i # Len(kids) /\ kids[i + 1] = o
      <4>1. o \in Linkable /\ ts[o].p_ysptr = p /\ p # Null
        BY <1>1, <3>1, TasksAssumption DEF Lined, Linkable
      <4> HIDE DEF o
      <4>2. ts[o].p_pptr = father /\ pos[o] = i + 1
        BY <1>1, <4>1 DEF Lined
      <4>3. i + 1 \in 1..Len(kids) /\ kids[i + 1] = o
        BY <2>4, <4>1, <4>2
      <4> QED  BY <2>6, <2>7, <4>3
    <3>2. ASSUME i # Len(kids) PROVE o # Null
      <4>1. i + 1 \in 1..Len(kids)
        BY <2>6, <2>7, <3>2
      <4> DEFINE n == kids[i + 1]
      <4>2. n \in Linkable /\ ts[n].p_pptr = father /\ pos[n] = i + 1
        BY <2>5, <4>1
      <4> HIDE DEF n
      <4>3. ts[n].p_ysptr # Null
        <5>1. pos[n] # 1
          BY <2>6, <2>7, <4>2
        <5> QED  BY <1>1, <4>2, <5>1 DEF Lined
      <4> DEFINE y == ts[n].p_ysptr
      <4>4. y \in Linkable /\ ts[y].p_osptr = n /\ ts[y].p_pptr = father /\ i + 1 = pos[y] + 1
        BY <1>1, <4>2, <4>3 DEF Lined
      <4> HIDE DEF y
      <4>5. pos[y] = i
        BY <1>2, <4>4
      <4>6. y = p
        BY <2>4, <2>7, <4>4, <4>5
      <4>7. n # Null
        BY <1>2, <4>2, TasksAssumption
      <4> QED  BY <4>4, <4>6, <4>7
    <3> QED  BY <3>1, <3>2
  <2> QED  BY <2>2, <2>7, <2>8, <2>9 DEF kids
<1>5. ASSUME NEW p \in Tasks \ {q \in Pages : pc[q] \in {"free", "new"}}
      PROVE  LET kids == Kids(ts, p) IN \A i \in DOMAIN kids : ts[kids[i]].p_pptr = p
  <2>1. p \in Linkable \cup {InitTask}
    BY DEF Linkable, Tasks
  <2> QED  BY <1>3, <2>1 DEF Listing
<1> QED  BY <1>4, <1>5 DEF TreeOK

\* When there is a process besides init, init has a child.
LEMMA InitHasChild ==
    ASSUME NEW T, NEW L, L \subseteq Pages, L # {}, Rooted(T, L)
    PROVE  T[InitTask].p_cptr # Null
<1>1. PICK pos, age : Lined(T, L, pos) /\ Aged(T, L, age)
  BY DEF Rooted
<1>2. \A x \in L : age[x] \in Nat /\ pos[x] \in Nat \ {0}
  BY <1>1 DEF Aged, Lined, Tasks
<1>3. PICK p \in L : T[p].p_pptr = InitTask
  <2> DEFINE A == {age[x] : x \in L}
  <2>1. PICK m \in A : \A n \in A : m <= n
    <3>1. A \subseteq Nat /\ A # {}
      BY <1>2
    <3> HIDE DEF A
    <3> QED  BY <3>1, LeastIn
  <2>2. PICK p \in L : age[p] = m
    BY <2>1
  <2>3. T[p].p_pptr \in L => age[T[p].p_pptr] \in A /\ age[T[p].p_pptr] \in Nat
    BY <1>2
  <2>4. ASSUME T[p].p_pptr # InitTask PROVE FALSE
    <3>1. T[p].p_pptr \in L /\ age[T[p].p_pptr] < m
      BY <1>1, <2>2, <2>4 DEF Lined, Aged
    <3>2. m <= age[T[p].p_pptr] /\ m \in Nat
      <4> HIDE DEF A
      <4> QED  BY <1>2, <2>1, <2>2, <2>3, <3>1
    <3> QED  BY <2>3, <3>1, <3>2
  <2> QED  BY <2>4
<1>4. PICK r \in L : T[r].p_pptr = InitTask /\ pos[r] = 1
  <2>1. 1 \in 1..pos[p]
    BY <1>2
  <2> QED  BY <1>1, <1>3, <2>1, PlacesBefore
<1>5. T[r].p_ysptr = Null
  <2>1. T[r].p_ysptr # Null => T[r].p_ysptr \in L /\ 1 = pos[T[r].p_ysptr] + 1
    BY <1>1, <1>4 DEF Lined
  <2>2. ASSUME NEW b \in L PROVE pos[b] + 1 # 1
    BY <1>2
  <2> QED  BY <2>1, <2>2
<1>6. T[InitTask].p_cptr = r
  BY <1>1, <1>4, <1>5 DEF Lined
<1> QED  BY <1>6, TasksAssumption

Typed(T) == T \in [All -> TaskStruct]
\* All but the links and the state.
SameRest(r, s) ==
    /\ r.exit_code = s.exit_code /\ r.signal = s.signal /\ r.pid = s.pid
    /\ r.pgrp = s.pgrp /\ r.session = s.session /\ r.leader = s.leader /\ r.tty = s.tty

LEMMA AllThere == Tasks \subseteq All /\ Null \notin All /\ Pages \subseteq Tasks
                  /\ InitTask \in Tasks /\ Zero \in All /\ Zero \notin Tasks /\ Null \notin Tasks
  BY TasksAssumption DEF All, Tasks

\* What Linked changes: q becomes the youngest child of p.
LEMMA LinkedIs ==
    ASSUME NEW T, Typed(T), NEW p \in Tasks, NEW q \in Pages, p # q, T[p].p_cptr # q
    PROVE  LET U == Linked(T, p, q) IN
           /\ Typed(U)
           /\ \A x \in All :
              /\ U[x].p_pptr = IF x = q THEN p ELSE T[x].p_pptr
              /\ U[x].p_cptr = IF x = q THEN Null ELSE IF x = p THEN q ELSE T[x].p_cptr
              /\ U[x].p_ysptr = IF x = q THEN Null
                                ELSE IF x = T[p].p_cptr THEN q ELSE T[x].p_ysptr
              /\ U[x].p_osptr = IF x = q THEN T[p].p_cptr ELSE T[x].p_osptr
              /\ U[x].state = IF x = q THEN "running" ELSE T[x].state
              /\ SameRest(U[x], T[x])
<1> DEFINE older == T[p].p_cptr
           child == [T[q] EXCEPT !.p_pptr = p, !.p_cptr = Null, !.p_ysptr = Null,
                                 !.p_osptr = older, !.state = "running"]
           father == [T[p] EXCEPT !.p_cptr = q]
           new == [T EXCEPT ![q].p_pptr = p, ![q].p_cptr = Null, ![q].p_ysptr = Null,
                            ![q].p_osptr = older, ![q].state = "running", ![p].p_cptr = q]
           linked == [new EXCEPT ![older].p_ysptr = q]
<1>1. p \in All /\ q \in All /\ older \in Tasks \cup {Null} /\ T[p] \in TaskStruct /\ T[q] \in TaskStruct
  BY AllThere DEF Typed, TaskStruct
<1>2. new = [x \in All |-> IF x = q THEN child ELSE IF x = p THEN father ELSE T[x]]
  BY <1>1 DEF Typed
<1>3. /\ child \in TaskStruct
      /\ child.p_pptr = p /\ child.p_cptr = Null /\ child.p_ysptr = Null
      /\ child.p_osptr = older /\ child.state = "running"
      /\ SameRest(child, T[q])
  <2> HIDE DEF older
  <2> QED  BY <1>1 DEF TaskStruct, States, SameRest
<1>4. /\ father \in TaskStruct
      /\ father.p_pptr = T[p].p_pptr /\ father.p_cptr = q /\ father.p_ysptr = T[p].p_ysptr
      /\ father.p_osptr = T[p].p_osptr /\ father.state = T[p].state
      /\ SameRest(father, T[p])
  BY <1>1, AllThere DEF TaskStruct, SameRest
<1> HIDE DEF child, father
<1>5. Typed(new)
  <2> HIDE DEF new
  <2>1. \A x \in All : (IF x = q THEN child ELSE IF x = p THEN father ELSE T[x]) \in TaskStruct
    BY <1>3, <1>4 DEF Typed
  <2> QED  BY <1>2, <2>1 DEF Typed
<1>6. \A x \in All :
         /\ new[x].p_pptr = IF x = q THEN p ELSE T[x].p_pptr
         /\ new[x].p_cptr = IF x = q THEN Null ELSE IF x = p THEN q ELSE T[x].p_cptr
         /\ new[x].p_ysptr = IF x = q THEN Null ELSE T[x].p_ysptr
         /\ new[x].p_osptr = IF x = q THEN older ELSE T[x].p_osptr
         /\ new[x].state = IF x = q THEN "running" ELSE T[x].state
         /\ SameRest(new[x], T[x])
  <2> SUFFICES ASSUME NEW x \in All
               PROVE  /\ new[x].p_pptr = IF x = q THEN p ELSE T[x].p_pptr
                      /\ new[x].p_cptr = IF x = q THEN Null ELSE IF x = p THEN q ELSE T[x].p_cptr
                      /\ new[x].p_ysptr = IF x = q THEN Null ELSE T[x].p_ysptr
                      /\ new[x].p_osptr = IF x = q THEN older ELSE T[x].p_osptr
                      /\ new[x].state = IF x = q THEN "running" ELSE T[x].state
                      /\ SameRest(new[x], T[x])
    OBVIOUS
  <2>1. CASE x = q
    <3>1. new[x] = child
      BY <1>2, <2>1
    <3> HIDE DEF new, older
    <3> QED  BY <1>3, <2>1, <3>1
  <2>2. CASE x # q /\ x = p
    <3>1. new[x] = father
      BY <1>2, <2>2
    <3> HIDE DEF new, older
    <3> QED  BY <1>4, <2>2, <3>1
  <2>3. CASE x # q /\ x # p
    <3>1. new[x] = T[x]
      BY <1>2, <2>3
    <3> HIDE DEF new, older
    <3> QED  BY <2>3, <3>1 DEF SameRest
  <2> QED  BY <2>1, <2>2, <2>3
<1> HIDE DEF new
<1>7. CASE older = Null
  <2>1. Linked(T, p, q) = new
    BY <1>7 DEF Linked, new
  <2>2. \A x \in All : x # older
    BY <1>7, AllThere
  <2> HIDE DEF older
  <2>3. \A x \in All : x # T[p].p_cptr
    BY <2>2 DEF older
  <2> QED  BY <1>5, <1>6, <1>7, <2>1, <2>3 DEF older
<1>8. CASE older # Null
  <2>1. Linked(T, p, q) = linked
    BY <1>8 DEF Linked, new
  <2> DEFINE brother == [new[older] EXCEPT !.p_ysptr = q]
  <2>2. older \in All /\ new[older] \in TaskStruct
    BY <1>1, <1>5, <1>8, AllThere DEF Typed
  <2> HIDE DEF older
  <2>3. linked = [x \in All |-> IF x = older THEN brother ELSE new[x]]
    BY <1>5, <2>2 DEF Typed
  <2>4. /\ brother \in TaskStruct
        /\ brother.p_pptr = new[older].p_pptr /\ brother.p_cptr = new[older].p_cptr
        /\ brother.p_ysptr = q
        /\ brother.p_osptr = new[older].p_osptr /\ brother.state = new[older].state
        /\ SameRest(brother, new[older])
    BY <2>2, AllThere DEF TaskStruct, SameRest
  <2> HIDE DEF brother, linked
  <2>5. Typed(linked)
    BY <1>5, <2>3, <2>4 DEF Typed
  <2>6. older # q
    BY DEF older
  <2>7. \A x \in All :
         /\ linked[x].p_pptr = new[x].p_pptr /\ linked[x].p_cptr = new[x].p_cptr
         /\ linked[x].p_ysptr = IF x = older THEN q ELSE new[x].p_ysptr
         /\ linked[x].p_osptr = new[x].p_osptr
         /\ linked[x].state = new[x].state
         /\ SameRest(linked[x], new[x])
    BY <2>3, <2>4 DEF SameRest
  <2> QED  BY <1>6, <2>1, <2>5, <2>6, <2>7 DEF older, SameRest
<1> QED  BY <1>7, <1>8

\* A fork adds a leaf.
LEMMA LinkedRooted ==
    ASSUME NEW T, Typed(T), NEW L, L \subseteq Pages, Rooted(T, L),
           NEW p \in L \cup {InitTask}, NEW q \in Pages \ L,
           p # InitTask => T[p].state # "zombie"
    PROVE  Rooted(Linked(T, p, q), L \cup {q})
<1> DEFINE U == Linked(T, p, q)
           M == L \cup {q}
<1>1. PICK pos, age : Lined(T, L, pos) /\ Aged(T, L, age) /\ Living(T, L)
  BY DEF Rooted
<1> DEFINE older == T[p].p_cptr
           newpos == [x \in Pages |-> IF x = q THEN 1
                         ELSE IF x \in L /\ T[x].p_pptr = p THEN pos[x] + 1 ELSE pos[x]]
           newage == [age EXCEPT ![q] = age[p] + 1]
<1>2. /\ L \subseteq All /\ L \subseteq Tasks /\ p \in Tasks /\ q \in All /\ q \in Tasks /\ p # q
      /\ InitTask \in All /\ InitTask \in Tasks /\ InitTask \notin M /\ Null \notin M
  BY AllThere, TasksAssumption
<1>3. older # Null => older \in L /\ T[older].p_pptr = p /\ T[older].p_ysptr = Null
  BY <1>1 DEF Lined
<1>4. T[p].p_cptr # q
  BY <1>2, <1>3
<1>5. \A x \in All :
         /\ U[x].p_pptr = IF x = q THEN p ELSE T[x].p_pptr
         /\ U[x].p_cptr = IF x = q THEN Null ELSE IF x = p THEN q ELSE T[x].p_cptr
         /\ U[x].p_ysptr = IF x = q THEN Null ELSE IF x = older THEN q ELSE T[x].p_ysptr
         /\ U[x].p_osptr = IF x = q THEN older ELSE T[x].p_osptr
         /\ U[x].state = IF x = q THEN "running" ELSE T[x].state
  BY <1>2, <1>4, LinkedIs
<1> HIDE DEF U, older
<1>6. \A x \in L : /\ T[x].p_pptr \in L \cup {InitTask}
                   /\ x # q /\ x # Null /\ T[x].p_pptr # q /\ x \in All
  BY <1>1, <1>2 DEF Lined
<1>7. \A x \in L : pos[x] \in Nat \ {0} /\ newpos[x] = IF T[x].p_pptr = p THEN pos[x] + 1 ELSE pos[x]
  BY <1>1, <1>6 DEF Lined
<1>8. newpos \in [Pages -> Nat \ {0}] /\ newpos[q] = 1
  BY <1>1 DEF Lined
<1> HIDE DEF newpos
<1>9. ASSUME NEW x \in M
      PROVE  /\ U[x].p_pptr \in M \cup {InitTask}
             /\ IF U[x].p_ysptr = Null
                THEN newpos[x] = 1 /\ U[U[x].p_pptr].p_cptr = x
                ELSE /\ U[x].p_ysptr \in M /\ U[U[x].p_ysptr].p_osptr = x
                     /\ U[U[x].p_ysptr].p_pptr = U[x].p_pptr
                     /\ newpos[x] = newpos[U[x].p_ysptr] + 1
             /\ U[x].p_osptr # Null => U[x].p_osptr \in M /\ U[U[x].p_osptr].p_ysptr = x
  <2>1. CASE x = q
    <3>1. U[x].p_pptr = p /\ U[x].p_ysptr = Null /\ U[x].p_osptr = older
      BY <1>2, <1>5, <2>1
    <3>2. U[p].p_cptr = q
      BY <1>2, <1>5 DEF Tasks, All
    <3>3. older # Null => U[older].p_ysptr = q
      BY <1>3, <1>5, <1>6
    <3> QED  BY <1>3, <1>8, <2>1, <3>1, <3>2, <3>3
  <2>2. CASE x = older
    <3>1. x \in L /\ x # q /\ T[x].p_pptr = p /\ T[x].p_ysptr = Null
      BY <1>2, <1>3, <1>6, <2>2
    <3>2. U[x].p_pptr = p /\ U[x].p_ysptr = q /\ U[x].p_osptr = T[x].p_osptr
      BY <1>5, <1>6, <2>2, <3>1
    <3>3. U[q].p_osptr = x /\ U[q].p_pptr = p /\ q # Null
      BY <1>2, <1>5, <2>2
    <3>4. newpos[x] = 1 + 1
      BY <1>1, <1>7, <3>1 DEF Lined
    <3>5. T[x].p_osptr # Null => T[x].p_osptr \in L /\ T[T[x].p_osptr].p_ysptr = x
      BY <1>1, <3>1 DEF Lined
    <3>6. T[x].p_osptr # Null => U[T[x].p_osptr].p_ysptr = x
      <4>1. x # Null
        BY <1>2
      <4>2. T[x].p_osptr # Null => T[x].p_osptr # older /\ T[x].p_osptr # q
        BY <1>6, <2>2, <3>1, <3>5, <4>1
      <4> QED  BY <1>5, <1>6, <3>5, <4>2
    <3> QED  BY <1>8, <3>1, <3>2, <3>3, <3>4, <3>5, <3>6
  <2>3. CASE x # q /\ x # older
    <3>1. x \in L
      BY <2>3
    <3>2. U[x].p_pptr = T[x].p_pptr /\ U[x].p_ysptr = T[x].p_ysptr /\ U[x].p_osptr = T[x].p_osptr
      BY <1>5, <1>6, <2>3, <3>1
    <3>3. T[x].p_pptr \in L \cup {InitTask}
      BY <1>6, <3>1
    <3>4. CASE T[x].p_ysptr = Null
      <4>1. pos[x] = 1 /\ T[T[x].p_pptr].p_cptr = x
        BY <1>1, <3>1, <3>4 DEF Lined
      <4>2. T[x].p_pptr # p /\ T[x].p_pptr # q /\ T[x].p_pptr \in All
        BY <1>2, <1>6, <2>3, <3>1, <3>3, <4>1 DEF older
      <4>3. U[T[x].p_pptr].p_cptr = x /\ newpos[x] = 1
        BY <1>5, <1>7, <3>1, <4>1, <4>2
      <4>4. T[x].p_osptr # Null => T[x].p_osptr \in L /\ U[T[x].p_osptr].p_ysptr = x
        <5>1. T[x].p_osptr # Null => T[x].p_osptr \in L /\ T[T[x].p_osptr].p_ysptr = x
          BY <1>1, <3>1 DEF Lined
        <5>2. T[x].p_osptr # Null => T[x].p_osptr # older
          BY <1>2, <1>3, <3>1, <5>1
        <5> QED  BY <1>5, <1>6, <5>1, <5>2
      <4> QED  BY <3>2, <3>3, <3>4, <4>3, <4>4
    <3>5. CASE T[x].p_ysptr # Null
      <4> DEFINE y == T[x].p_ysptr
      <4>1. y \in L /\ T[y].p_osptr = x /\ T[y].p_pptr = T[x].p_pptr /\ pos[x] = pos[y] + 1
        BY <1>1, <3>1, <3>5 DEF Lined
      <4>2. U[y].p_osptr = x /\ U[y].p_pptr = T[x].p_pptr /\ newpos[x] = newpos[y] + 1
        <5> HIDE DEF y
        <5>1. U[y].p_osptr = x /\ U[y].p_pptr = T[x].p_pptr
          BY <1>5, <1>6, <4>1
        <5>2. newpos[x] = newpos[y] + 1
          BY <1>7, <3>1, <4>1
        <5> QED  BY <5>1, <5>2
      <4>3. T[x].p_osptr # Null => T[x].p_osptr \in L /\ U[T[x].p_osptr].p_ysptr = x
        <5>1. T[x].p_osptr # Null => T[x].p_osptr \in L /\ T[T[x].p_osptr].p_ysptr = x
          BY <1>1, <3>1 DEF Lined
        <5>2. T[x].p_osptr # Null => T[x].p_osptr # older
          BY <1>2, <1>3, <3>1, <5>1
        <5> QED  BY <1>5, <1>6, <5>1, <5>2
      <4> QED  BY <3>2, <3>3, <3>5, <4>1, <4>2, <4>3
    <3> QED  BY <3>4, <3>5
  <2> QED  BY <2>1, <2>2, <2>3
<1>10. ASSUME NEW z \in M \cup {InitTask}, U[z].p_cptr # Null
       PROVE  /\ U[z].p_cptr \in M /\ U[U[z].p_cptr].p_pptr = z
              /\ U[U[z].p_cptr].p_ysptr = Null
  <2>1. z \in All /\ z # q
    BY <1>2, <1>5, <1>10
  <2>2. CASE z = p
    <3>1. U[z].p_cptr = q /\ q \in M
      BY <1>5, <2>1, <2>2
    <3>2. U[q].p_pptr = z /\ U[q].p_ysptr = Null
      BY <1>2, <1>5, <2>2
    <3> HIDE DEF M
    <3> QED  BY <3>1, <3>2
  <2>3. CASE z # p
    <3> DEFINE c == T[z].p_cptr
    <3>1. U[z].p_cptr = c /\ c # Null
      BY <1>5, <1>10, <2>1, <2>3
    <3>2. c \in L /\ T[c].p_pptr = z /\ T[c].p_ysptr = Null
      BY <1>1, <2>1, <3>1 DEF Lined
    <3> HIDE DEF c
    <3>3. c # older /\ c # q /\ c \in All
      BY <1>2, <1>3, <1>6, <2>3, <3>2
    <3> QED  BY <1>5, <3>1, <3>2, <3>3
  <2> QED  BY <2>2, <2>3
<1>11. Lined(U, M, newpos)
  BY <1>8, <1>9, <1>10 DEF Lined
<1>12. Aged(U, M, newage)
  <2>1. age \in [Tasks -> Nat]
    BY <1>1 DEF Aged
  <2>2. newage \in [Tasks -> Nat]
    <3> DEFINE n == age[p] + 1
    <3>1. n \in Nat
      BY <1>2, <2>1
    <3> HIDE DEF n
    <3>2. [age EXCEPT ![q] = n] \in [Tasks -> Nat]
      BY <2>1, <3>1
    <3> QED  BY <3>2 DEF n
  <2>3. \A x \in L : U[x].p_pptr = T[x].p_pptr /\ T[x].p_pptr \in Tasks /\ T[x].p_pptr # q
    BY <1>2, <1>5, <1>6
  <2>4. U[q].p_pptr = p
    BY <1>2, <1>5
  <2>5. ASSUME NEW x \in M, U[x].p_pptr # InitTask
        PROVE  newage[U[x].p_pptr] < newage[x]
    <3>1. CASE x = q
      BY <1>2, <2>1, <2>4, <3>1
    <3>2. CASE x # q
      BY <1>1, <1>2, <2>1, <2>3, <2>5, <3>2 DEF Aged
    <3> QED  BY <3>1, <3>2
  <2> QED  BY <2>2, <2>5 DEF Aged
<1>13. Living(U, M)
  <2>1. ASSUME NEW x \in M, U[x].p_pptr # InitTask PROVE U[U[x].p_pptr].state # "zombie"
    <3>1. CASE x = q
      <4>1. U[x].p_pptr = p /\ p \in All
        BY <1>2, <1>5, <3>1 DEF All
      <4> QED  BY <1>2, <1>5, <2>1, <4>1
    <3>2. CASE x # q
      <4>1. U[x].p_pptr = T[x].p_pptr /\ T[x].p_pptr \in L /\ T[x].p_pptr # q
        BY <1>5, <1>6, <2>1, <3>2
      <4> QED  BY <1>1, <1>5, <1>6, <2>1, <3>2, <4>1 DEF Living
    <3> QED  BY <3>1, <3>2
  <2> QED  BY <2>1 DEF Living
<1> QED  BY <1>11, <1>12, <1>13 DEF Rooted, U

LEMMA CptrIs ==
    ASSUME NEW T, Typed(T), NEW a \in All, NEW v \in Tasks \cup {Null}
    PROVE  LET U == [T EXCEPT ![a].p_cptr = v] IN
           /\ Typed(U)
           /\ \A x \in All :
              /\ U[x].p_cptr = IF x = a THEN v ELSE T[x].p_cptr
              /\ U[x].p_pptr = T[x].p_pptr /\ U[x].p_ysptr = T[x].p_ysptr
              /\ U[x].p_osptr = T[x].p_osptr /\ U[x].state = T[x].state
              /\ SameRest(U[x], T[x])
<1> DEFINE U == [T EXCEPT ![a].p_cptr = v]
           r == [T[a] EXCEPT !.p_cptr = v]
<1>1. U = [x \in All |-> IF x = a THEN r ELSE T[x]] /\ T[a] \in TaskStruct
  BY DEF Typed
<1>2. /\ r \in TaskStruct /\ r.p_cptr = v /\ SameRest(r, T[a])
      /\ r.p_pptr = T[a].p_pptr /\ r.p_ysptr = T[a].p_ysptr
      /\ r.p_osptr = T[a].p_osptr /\ r.state = T[a].state
  BY <1>1 DEF TaskStruct, SameRest
<1> HIDE DEF r, U
<1>3. Typed(U)
  BY <1>1, <1>2 DEF Typed
<1>4. \A x \in All : SameRest(T[x], T[x])
  BY DEF SameRest
<1> QED  BY <1>1, <1>2, <1>3, <1>4 DEF U

LEMMA YsptrIs ==
    ASSUME NEW T, Typed(T), NEW a \in All, NEW v \in Tasks \cup {Null}
    PROVE  LET U == [T EXCEPT ![a].p_ysptr = v] IN
           /\ Typed(U)
           /\ \A x \in All :
              /\ U[x].p_ysptr = IF x = a THEN v ELSE T[x].p_ysptr
              /\ U[x].p_pptr = T[x].p_pptr /\ U[x].p_cptr = T[x].p_cptr
              /\ U[x].p_osptr = T[x].p_osptr /\ U[x].state = T[x].state
              /\ SameRest(U[x], T[x])
<1> DEFINE U == [T EXCEPT ![a].p_ysptr = v]
           r == [T[a] EXCEPT !.p_ysptr = v]
<1>1. U = [x \in All |-> IF x = a THEN r ELSE T[x]] /\ T[a] \in TaskStruct
  BY DEF Typed
<1>2. /\ r \in TaskStruct /\ r.p_ysptr = v /\ SameRest(r, T[a])
      /\ r.p_pptr = T[a].p_pptr /\ r.p_cptr = T[a].p_cptr
      /\ r.p_osptr = T[a].p_osptr /\ r.state = T[a].state
  BY <1>1 DEF TaskStruct, SameRest
<1> HIDE DEF r, U
<1>3. Typed(U)
  BY <1>1, <1>2 DEF Typed
<1>4. \A x \in All : SameRest(T[x], T[x])
  BY DEF SameRest
<1> QED  BY <1>1, <1>2, <1>3, <1>4 DEF U

LEMMA OsptrIs ==
    ASSUME NEW T, Typed(T), NEW a \in All, NEW v \in Tasks \cup {Null}
    PROVE  LET U == [T EXCEPT ![a].p_osptr = v] IN
           /\ Typed(U)
           /\ \A x \in All :
              /\ U[x].p_osptr = IF x = a THEN v ELSE T[x].p_osptr
              /\ U[x].p_pptr = T[x].p_pptr /\ U[x].p_cptr = T[x].p_cptr
              /\ U[x].p_ysptr = T[x].p_ysptr /\ U[x].state = T[x].state
              /\ SameRest(U[x], T[x])
<1> DEFINE U == [T EXCEPT ![a].p_osptr = v]
           r == [T[a] EXCEPT !.p_osptr = v]
<1>1. U = [x \in All |-> IF x = a THEN r ELSE T[x]] /\ T[a] \in TaskStruct
  BY DEF Typed
<1>2. /\ r \in TaskStruct /\ r.p_osptr = v /\ SameRest(r, T[a])
      /\ r.p_pptr = T[a].p_pptr /\ r.p_cptr = T[a].p_cptr
      /\ r.p_ysptr = T[a].p_ysptr /\ r.state = T[a].state
  BY <1>1 DEF TaskStruct, SameRest
<1> HIDE DEF r, U
<1>3. Typed(U)
  BY <1>1, <1>2 DEF Typed
<1>4. \A x \in All : SameRest(T[x], T[x])
  BY DEF SameRest
<1> QED  BY <1>1, <1>2, <1>3, <1>4 DEF U

LEMMA RestChain ==
    ASSUME NEW a, NEW b, NEW c, SameRest(a, b), SameRest(b, c)
    PROVE  SameRest(a, c)
  BY DEF SameRest

\* What Spliced changes when p has children.
LEMMA SplicedIs ==
    ASSUME NEW T, Typed(T), NEW p \in Tasks, p # InitTask, Kids(T, p) # <<>>,
           NEW oldest \in Tasks, oldest = Kids(T, p)[Len(Kids(T, p))],
           NEW first \in Tasks, first = T[InitTask].p_cptr
    PROVE  LET U == Spliced(T, p) IN
           /\ Typed(U)
           /\ \A x \in All :
              /\ U[x].p_pptr = T[x].p_pptr
              /\ U[x].p_cptr = IF x = p THEN Null
                               ELSE IF x = InitTask THEN T[p].p_cptr ELSE T[x].p_cptr
              /\ U[x].p_ysptr = IF x = first THEN oldest ELSE T[x].p_ysptr
              /\ U[x].p_osptr = IF x = oldest THEN first ELSE T[x].p_osptr
              /\ U[x].state = T[x].state /\ SameRest(U[x], T[x])
<1> DEFINE c == T[p].p_cptr
           A == [T EXCEPT ![oldest].p_osptr = first]
           B == [A EXCEPT ![first].p_ysptr = oldest]
           C == [B EXCEPT ![InitTask].p_cptr = c]
           D == [C EXCEPT ![p].p_cptr = Null]
<1>1. /\ oldest \in All /\ first \in All /\ p \in All /\ InitTask \in All
      /\ c \in Tasks \cup {Null}
  BY AllThere DEF Typed, TaskStruct
<1>2. Spliced(T, p) = D
  BY DEF Spliced, c
<1> HIDE DEF c
<1>3. /\ Typed(A)
      /\ \A x \in All :
         /\ A[x].p_osptr = IF x = oldest THEN first ELSE T[x].p_osptr
         /\ A[x].p_pptr = T[x].p_pptr /\ A[x].p_cptr = T[x].p_cptr
         /\ A[x].p_ysptr = T[x].p_ysptr /\ A[x].state = T[x].state
         /\ SameRest(A[x], T[x])
  BY <1>1, OsptrIs
<1> HIDE DEF A
<1>4. /\ Typed(B)
      /\ \A x \in All :
         /\ B[x].p_ysptr = IF x = first THEN oldest ELSE A[x].p_ysptr
         /\ B[x].p_pptr = A[x].p_pptr /\ B[x].p_cptr = A[x].p_cptr
         /\ B[x].p_osptr = A[x].p_osptr /\ B[x].state = A[x].state
         /\ SameRest(B[x], A[x])
  <2>1. oldest \in Tasks \cup {Null} /\ first \in All /\ Typed(A)
    BY <1>1, <1>3
  <2> QED  BY ONLY <2>1, YsptrIs DEF B
<1> HIDE DEF B
<1>5. /\ Typed(C)
      /\ \A x \in All :
         /\ C[x].p_cptr = IF x = InitTask THEN c ELSE B[x].p_cptr
         /\ C[x].p_pptr = B[x].p_pptr /\ C[x].p_ysptr = B[x].p_ysptr
         /\ C[x].p_osptr = B[x].p_osptr /\ C[x].state = B[x].state
         /\ SameRest(C[x], B[x])
  BY <1>1, <1>4, CptrIs
<1> HIDE DEF C
<1>6. /\ Typed(D)
      /\ \A x \in All :
         /\ D[x].p_cptr = IF x = p THEN Null ELSE C[x].p_cptr
         /\ D[x].p_pptr = C[x].p_pptr /\ D[x].p_ysptr = C[x].p_ysptr
         /\ D[x].p_osptr = C[x].p_osptr /\ D[x].state = C[x].state
         /\ SameRest(D[x], C[x])
  BY <1>1, <1>5, CptrIs
<1> HIDE DEF D
<1>7. \A x \in All : SameRest(D[x], T[x])
  BY <1>3, <1>4, <1>5, <1>6, RestChain
<1> QED  BY <1>2, <1>3, <1>4, <1>5, <1>6, <1>7 DEF c

\* do_exit() gives the list of the children of p to init.  In V the
\* children already say that init is their father.
LEMMA SplicedRooted ==
    ASSUME NEW T, NEW L, L \subseteq Pages, Rooted(T, L), NEW p \in L,
           NEW V, Typed(V), Kids(V, p) # <<>> => V[InitTask].p_cptr # Null,
           \A x \in L \cup {InitTask} :
               /\ V[x].p_cptr = T[x].p_cptr /\ V[x].p_ysptr = T[x].p_ysptr
               /\ V[x].p_osptr = T[x].p_osptr
               /\ V[x].p_pptr = IF x \in L /\ T[x].p_pptr = p THEN InitTask ELSE T[x].p_pptr
               /\ x # p /\ V[x].state = "zombie" => T[x].state = "zombie"
    PROVE  Rooted(Spliced(V, p), L)
<1> DEFINE W == Spliced(V, p)
           K == Kids(V, p)
           k == Len(K)
           oldest == K[k]
           first == T[InitTask].p_cptr
<1>1. PICK pos, age : Lined(T, L, pos) /\ Aged(T, L, age) /\ Living(T, L)
  BY DEF Rooted
<1>2. /\ L \subseteq All /\ L \subseteq Tasks /\ InitTask \in All /\ InitTask \notin L
      /\ Null \notin L /\ Null # InitTask /\ p # InitTask /\ p \in Tasks
  BY AllThere, TasksAssumption
<1>3. Listing(K, T, L, pos, p)
  BY <1>1, KidsLike
<1> HIDE DEF K
<1>4. /\ k \in Nat /\ K \in Seq(Pages)
      /\ \A i \in 1..k : K[i] \in L /\ T[K[i]].p_pptr = p /\ pos[K[i]] = i
      /\ \A x \in L : T[x].p_pptr = p => pos[x] \in 1..k /\ K[pos[x]] = x
  BY <1>3 DEF Listing
<1>5. \A x \in L : T[x].p_pptr \in L \cup {InitTask} /\ pos[x] \in Nat \ {0}
  BY <1>1 DEF Lined
<1>6. \A x \in L : T[x].p_pptr \in L \ {p} =>
          T[T[x].p_pptr].state # "zombie" /\ V[T[x].p_pptr].state # "zombie"
  BY <1>1, <1>2 DEF Living
<1>7. CASE K = <<>>
  <2>1. k = 0
    BY <1>7
  <2>2. \A x \in L : T[x].p_pptr # p
    BY <1>4, <2>1
  <2>3. W = V
    BY <1>7 DEF Spliced, K
  <2>4. \A x \in L \cup {InitTask} :
            /\ V[x].p_cptr = T[x].p_cptr /\ V[x].p_ysptr = T[x].p_ysptr
            /\ V[x].p_osptr = T[x].p_osptr /\ V[x].p_pptr = T[x].p_pptr
    BY <2>2
  <2> HIDE DEF W, first
  <2>5. Lined(V, L, pos)
    <3>1. ASSUME NEW x \in L
          PROVE  /\ V[x].p_pptr \in L \cup {InitTask}
                 /\ IF V[x].p_ysptr = Null
                    THEN pos[x] = 1 /\ V[V[x].p_pptr].p_cptr = x
                    ELSE /\ V[x].p_ysptr \in L /\ V[V[x].p_ysptr].p_osptr = x
                         /\ V[V[x].p_ysptr].p_pptr = V[x].p_pptr
                         /\ pos[x] = pos[V[x].p_ysptr] + 1
                 /\ V[x].p_osptr # Null => V[x].p_osptr \in L /\ V[V[x].p_osptr].p_ysptr = x
      BY <1>1, <1>5, <2>4 DEF Lined
    <3>2. ASSUME NEW q \in L \cup {InitTask}, V[q].p_cptr # Null
          PROVE  /\ V[q].p_cptr \in L /\ V[V[q].p_cptr].p_pptr = q
                 /\ V[V[q].p_cptr].p_ysptr = Null
      BY <1>1, <2>4, <3>2 DEF Lined
    <3> QED  BY <1>1, <3>1, <3>2 DEF Lined
  <2>6. Aged(V, L, age)
    BY <1>1, <2>4 DEF Aged
  <2>7. Living(V, L)
    BY <1>5, <1>6, <2>2, <2>4 DEF Living
  <2> QED  BY <2>3, <2>5, <2>6, <2>7 DEF Rooted, W
<1>8. CASE K # <<>>
  <2>1. k \in Nat \ {0}
    BY <1>4, <1>8, EmptySeq
  <2>2. oldest \in L /\ T[oldest].p_pptr = p /\ pos[oldest] = k
    BY <1>4, <2>1
  <2>3. /\ first \in L /\ T[first].p_pptr = InitTask /\ T[first].p_ysptr = Null
        /\ first = V[InitTask].p_cptr
    BY <1>1, <1>8 DEF Lined, K
  <2>4. \A x \in All :
           /\ W[x].p_pptr = V[x].p_pptr
           /\ W[x].p_cptr = IF x = p THEN Null
                            ELSE IF x = InitTask THEN V[p].p_cptr ELSE V[x].p_cptr
           /\ W[x].p_ysptr = IF x = first THEN oldest ELSE V[x].p_ysptr
           /\ W[x].p_osptr = IF x = oldest THEN first ELSE V[x].p_osptr
           /\ W[x].state = V[x].state /\ SameRest(W[x], V[x])
    <3>1. oldest \in Tasks /\ first \in Tasks /\ oldest = Kids(V, p)[Len(Kids(V, p))]
          /\ Kids(V, p) # <<>>
      BY <1>2, <1>8, <2>2, <2>3 DEF K
    <3> HIDE DEF W, oldest, first
    <3> QED  BY <1>2, <2>3, <3>1, SplicedIs DEF W
  <2> DEFINE newpos == [x \in Pages |-> IF x \in L /\ T[x].p_pptr = InitTask
                                        THEN pos[x] + k ELSE pos[x]]
  <2>5. newpos \in [Pages -> Nat \ {0}]
    BY <1>1, <2>1 DEF Lined
  <2>6. \A x \in L : newpos[x] = IF T[x].p_pptr = InitTask THEN pos[x] + k ELSE pos[x]
    OBVIOUS
  <2> HIDE DEF W, oldest, first, k, newpos
  <2>7. \A x \in L :
           /\ W[x].p_pptr = IF T[x].p_pptr = p THEN InitTask ELSE T[x].p_pptr
           /\ W[x].p_cptr = IF x = p THEN Null ELSE T[x].p_cptr
           /\ W[x].p_ysptr = IF x = first THEN oldest ELSE T[x].p_ysptr
           /\ W[x].p_osptr = IF x = oldest THEN first ELSE T[x].p_osptr
    BY <1>2, <2>4
  <2>8. W[InitTask].p_cptr = T[p].p_cptr
    BY <1>2, <2>4
  <2>9. T[oldest].p_osptr = Null
    <3> DEFINE o == T[oldest].p_osptr
    <3> SUFFICES ASSUME o # Null PROVE FALSE
      OBVIOUS
    <3>1. o \in L /\ T[o].p_ysptr = oldest
      BY <1>1, <2>2 DEF Lined
    <3> HIDE DEF o
    <3>2. T[o].p_pptr = p /\ pos[o] = k + 1
      BY <1>1, <1>2, <2>2, <3>1 DEF Lined
    <3>3. pos[o] \in 1..k
      BY <1>4, <3>1, <3>2
    <3> QED  BY <2>1, <3>2, <3>3
  <2>10. ASSUME NEW x \in L
         PROVE  W[x].p_osptr # Null => W[x].p_osptr \in L /\ W[W[x].p_osptr].p_ysptr = x
    <3>1. CASE x = oldest
      BY <2>3, <2>7, <3>1
    <3>2. CASE x # oldest
      <4>1. T[x].p_osptr # Null => T[x].p_osptr \in L /\ T[T[x].p_osptr].p_ysptr = x
        BY <1>1 DEF Lined
      <4>2. T[x].p_osptr # first
        BY <1>2, <2>3, <4>1
      <4> QED  BY <2>7, <3>2, <4>1, <4>2
    <3> QED  BY <3>1, <3>2
  <2>11. ASSUME NEW x \in L
         PROVE  IF W[x].p_ysptr = Null
                THEN newpos[x] = 1 /\ W[W[x].p_pptr].p_cptr = x
                ELSE /\ W[x].p_ysptr \in L /\ W[W[x].p_ysptr].p_osptr = x
                     /\ W[W[x].p_ysptr].p_pptr = W[x].p_pptr
                     /\ newpos[x] = newpos[W[x].p_ysptr] + 1
    <3>1. CASE x = first
      <4>1. W[x].p_ysptr = oldest /\ oldest # Null
        BY <1>2, <2>2, <2>7, <3>1
      <4>2. W[oldest].p_osptr = x /\ W[oldest].p_pptr = InitTask /\ W[x].p_pptr = InitTask
        BY <1>2, <2>2, <2>3, <2>7, <3>1
      <4>3. newpos[oldest] = k
        BY <1>2, <2>2, <2>6
      <4>4. newpos[x] = 1 + k
        BY <1>1, <2>3, <2>6, <3>1 DEF Lined
      <4> QED  BY <2>1, <2>2, <4>1, <4>2, <4>3, <4>4
    <3>2. CASE x # first /\ T[x].p_ysptr = Null
      <4>1. pos[x] = 1 /\ T[T[x].p_pptr].p_cptr = x
        BY <1>1, <3>2 DEF Lined
      <4>2. T[x].p_pptr # InitTask
        BY <3>2, <4>1 DEF first
      <4>3. newpos[x] = 1 /\ W[x].p_ysptr = Null
        BY <2>6, <2>7, <3>2, <4>1, <4>2
      <4>4. W[W[x].p_pptr].p_cptr = x
        <5>1. CASE T[x].p_pptr = p
          BY <2>7, <2>8, <4>1, <5>1
        <5>2. CASE T[x].p_pptr # p
          <6>1. T[x].p_pptr \in L
            BY <1>5, <4>2
          <6> QED  BY <2>7, <4>1, <5>2, <6>1
        <5> QED  BY <5>1, <5>2
      <4> QED  BY <4>3, <4>4
    <3>3. CASE x # first /\ T[x].p_ysptr # Null
      <4> DEFINE y == T[x].p_ysptr
      <4>1. y \in L /\ T[y].p_osptr = x /\ T[y].p_pptr = T[x].p_pptr /\ pos[x] = pos[y] + 1
        BY <1>1, <3>3 DEF Lined
      <4>2. W[x].p_ysptr = y /\ y # Null
        BY <2>7, <3>3
      <4> HIDE DEF y
      <4>3. y # oldest
        BY <1>2, <2>9, <4>1
      <4>4. W[y].p_osptr = x /\ W[y].p_pptr = W[x].p_pptr
        BY <2>7, <4>1, <4>3
      <4>5. newpos[x] = newpos[y] + 1
        <5>1. pos[y] \in Nat /\ k \in Nat
          BY <1>5, <2>1, <4>1
        <5> QED  BY <2>6, <4>1, <5>1
      <4> QED  BY <4>1, <4>2, <4>4, <4>5
    <3> QED  BY <3>1, <3>2, <3>3
  <2>12. ASSUME NEW z \in L \cup {InitTask}, W[z].p_cptr # Null
         PROVE  /\ W[z].p_cptr \in L /\ W[W[z].p_cptr].p_pptr = z
                /\ W[W[z].p_cptr].p_ysptr = Null
    <3>1. CASE z = InitTask
      <4> DEFINE c == T[p].p_cptr
      <4>1. W[z].p_cptr = c /\ c # Null
        BY <2>8, <2>12, <3>1
      <4>2. c \in L /\ T[c].p_pptr = p /\ T[c].p_ysptr = Null
        BY <1>1, <4>1 DEF Lined
      <4> HIDE DEF c
      <4>3. c # first
        BY <1>2, <2>3, <4>2
      <4> QED  BY <2>7, <3>1, <4>1, <4>2, <4>3
    <3>2. CASE z # InitTask
      <4> DEFINE c == T[z].p_cptr
      <4>1. z \in L /\ z # p /\ W[z].p_cptr = c /\ c # Null
        BY <2>7, <2>12, <3>2
      <4>2. c \in L /\ T[c].p_pptr = z /\ T[c].p_ysptr = Null
        BY <1>1, <4>1 DEF Lined
      <4> HIDE DEF c
      <4>3. c # first
        BY <2>3, <3>2, <4>2
      <4> QED  BY <2>7, <4>1, <4>2, <4>3
    <3> QED  BY <3>1, <3>2
  <2>13. Lined(W, L, newpos)
    <3>1. \A x \in L : W[x].p_pptr \in L \cup {InitTask}
      BY <1>5, <2>7
    <3> QED  BY <2>5, <2>10, <2>11, <2>12, <3>1 DEF Lined
  <2>14. Aged(W, L, age)
    BY <1>1, <2>7 DEF Aged
  <2>15. Living(W, L)
    <3>1. ASSUME NEW x \in L, W[x].p_pptr # InitTask PROVE W[W[x].p_pptr].state # "zombie"
      <4>1. T[x].p_pptr # p /\ W[x].p_pptr = T[x].p_pptr
        BY <2>7, <3>1
      <4>2. T[x].p_pptr \in L \ {p}
        BY <1>5, <3>1, <4>1
      <4>3. V[T[x].p_pptr].state # "zombie"
        BY <1>6, <4>2
      <4> QED  BY <1>2, <2>4, <4>1, <4>2, <4>3
    <3> QED  BY <3>1 DEF Living
  <2> QED  BY <2>13, <2>14, <2>15 DEF Rooted, W
<1> QED  BY <1>7, <1>8

\* What Unlinked changes.
LEMMA UnlinkedIs ==
    ASSUME NEW T, Typed(T), NEW q \in Tasks
    PROVE  LET U == Unlinked(T, q) IN
           /\ Typed(U)
           /\ \A x \in All :
              /\ U[x].p_pptr = T[x].p_pptr
              /\ U[x].p_cptr = IF T[q].p_ysptr = Null /\ x = T[q].p_pptr
                               THEN T[q].p_osptr ELSE T[x].p_cptr
              /\ U[x].p_ysptr = IF x = T[q].p_osptr THEN T[q].p_ysptr ELSE T[x].p_ysptr
              /\ U[x].p_osptr = IF x = T[q].p_ysptr THEN T[q].p_osptr ELSE T[x].p_osptr
              /\ U[x].state = T[x].state /\ SameRest(U[x], T[x])
<1> DEFINE older == T[q].p_osptr
           younger == T[q].p_ysptr
           father == T[q].p_pptr
           A == IF older = Null THEN T ELSE [T EXCEPT ![older].p_ysptr = younger]
           B == IF younger = Null THEN [A EXCEPT ![father].p_cptr = older]
                ELSE [A EXCEPT ![younger].p_osptr = older]
<1>1. /\ older \in Tasks \cup {Null} /\ younger \in Tasks \cup {Null}
      /\ father \in Tasks \cup {Zero, Null} /\ Null \notin All /\ Tasks \subseteq All /\ Zero \in All
  BY AllThere DEF Typed, TaskStruct
<1>2. Unlinked(T, q) = B
  BY DEF Unlinked
<1> HIDE DEF older, younger, father
<1>3. \A x \in All : SameRest(T[x], T[x])
  BY DEF SameRest
<1>4. /\ Typed(A)
      /\ \A x \in All :
         /\ A[x].p_ysptr = IF x = older THEN younger ELSE T[x].p_ysptr
         /\ A[x].p_pptr = T[x].p_pptr /\ A[x].p_cptr = T[x].p_cptr
         /\ A[x].p_osptr = T[x].p_osptr /\ A[x].state = T[x].state
         /\ SameRest(A[x], T[x])
  <2>1. CASE older = Null
    <3>1. A = T /\ \A x \in All : x # older
      BY <1>1, <2>1
    <3> HIDE DEF A
    <3> QED  BY <1>3, <3>1
  <2>2. CASE older # Null
    <3> DEFINE E == [T EXCEPT ![older].p_ysptr = younger]
    <3>1. older \in All /\ younger \in Tasks \cup {Null} /\ Typed(T) /\ A = E
      BY <1>1, <2>2
    <3> HIDE DEF A
    <3>2. /\ Typed(E)
          /\ \A x \in All :
             /\ E[x].p_ysptr = IF x = older THEN younger ELSE T[x].p_ysptr
             /\ E[x].p_pptr = T[x].p_pptr /\ E[x].p_cptr = T[x].p_cptr
             /\ E[x].p_osptr = T[x].p_osptr /\ E[x].state = T[x].state
             /\ SameRest(E[x], T[x])
      BY ONLY <3>1, YsptrIs DEF E
    <3> HIDE DEF E
    <3> QED  BY <3>1, <3>2
  <2> QED  BY <2>1, <2>2
<1> HIDE DEF A
<1>5. /\ Typed(B)
      /\ \A x \in All :
         /\ B[x].p_cptr = IF younger = Null /\ x = father THEN older ELSE A[x].p_cptr
         /\ B[x].p_osptr = IF x = younger THEN older ELSE A[x].p_osptr
         /\ B[x].p_pptr = A[x].p_pptr /\ B[x].p_ysptr = A[x].p_ysptr
         /\ B[x].state = A[x].state /\ SameRest(B[x], A[x])
  <2>1. CASE younger = Null /\ father \in All
    <3> DEFINE E == [A EXCEPT ![father].p_cptr = older]
    <3>1. /\ father \in All /\ older \in Tasks \cup {Null} /\ Typed(A)
          /\ B = E /\ \A x \in All : x # younger
      BY <1>1, <1>4, <2>1
    <3>2. /\ Typed(E)
          /\ \A x \in All :
             /\ E[x].p_cptr = IF x = father THEN older ELSE A[x].p_cptr
             /\ E[x].p_pptr = A[x].p_pptr /\ E[x].p_ysptr = A[x].p_ysptr
             /\ E[x].p_osptr = A[x].p_osptr /\ E[x].state = A[x].state
             /\ SameRest(E[x], A[x])
      BY ONLY <3>1, CptrIs DEF E
    <3> HIDE DEF B, E
    <3> QED  BY <2>1, <3>1, <3>2
  <2>2. CASE younger = Null /\ father \notin All
    <3>1. B = A /\ \A x \in All : x # younger /\ x # father
      BY <1>1, <1>4, <2>2 DEF Typed
    <3>2. \A x \in All : SameRest(A[x], A[x])
      BY DEF SameRest
    <3> HIDE DEF B
    <3> QED  BY <1>4, <3>1, <3>2
  <2>3. CASE younger # Null
    <3> DEFINE E == [A EXCEPT ![younger].p_osptr = older]
    <3>1. younger \in All /\ older \in Tasks \cup {Null} /\ Typed(A) /\ B = E
      BY <1>1, <1>4, <2>3
    <3>2. /\ Typed(E)
          /\ \A x \in All :
             /\ E[x].p_osptr = IF x = younger THEN older ELSE A[x].p_osptr
             /\ E[x].p_pptr = A[x].p_pptr /\ E[x].p_cptr = A[x].p_cptr
             /\ E[x].p_ysptr = A[x].p_ysptr /\ E[x].state = A[x].state
             /\ SameRest(E[x], A[x])
      BY ONLY <3>1, OsptrIs DEF E
    <3> HIDE DEF B, E
    <3> QED  BY <2>3, <3>1, <3>2
  <2> QED  BY <2>1, <2>2, <2>3
<1> HIDE DEF B
<1>6. \A x \in All : SameRest(B[x], T[x])
  BY <1>4, <1>5, RestChain
<1> QED  BY <1>2, <1>4, <1>5, <1>6 DEF older, younger, father

\* release() takes a leaf away.
LEMMA UnlinkedRooted ==
    ASSUME NEW T, Typed(T), NEW L, L \subseteq Pages, Rooted(T, L), NEW q \in L,
           \A x \in L : T[x].p_pptr # q
    PROVE  Rooted(Unlinked(T, q), L \ {q})
<1> DEFINE U == Unlinked(T, q)
           M == L \ {q}
           older == T[q].p_osptr
           younger == T[q].p_ysptr
           father == T[q].p_pptr
<1>1. PICK pos, age : Lined(T, L, pos) /\ Aged(T, L, age) /\ Living(T, L)
  BY DEF Rooted
<1> DEFINE newpos == [x \in Pages |-> IF x \in L /\ T[x].p_pptr = father /\ pos[x] > pos[q]
                                      THEN pos[x] - 1 ELSE pos[x]]
<1>2. /\ L \subseteq All /\ L \subseteq Tasks /\ InitTask \in All /\ InitTask \notin L
      /\ Null \notin L /\ Null # InitTask
  BY AllThere, TasksAssumption
<1>3. \A x \in All :
         /\ U[x].p_pptr = T[x].p_pptr
         /\ U[x].p_cptr = IF younger = Null /\ x = father THEN older ELSE T[x].p_cptr
         /\ U[x].p_ysptr = IF x = older THEN younger ELSE T[x].p_ysptr
         /\ U[x].p_osptr = IF x = younger THEN older ELSE T[x].p_osptr
         /\ U[x].state = T[x].state
  BY <1>2, UnlinkedIs
<1>4. \A x \in L : T[x].p_pptr \in M \cup {InitTask} /\ pos[x] \in Nat \ {0}
  BY <1>1 DEF Lined
<1>5. /\ older # Null => older \in L /\ T[older].p_ysptr = q
      /\ younger = Null => pos[q] = 1 /\ T[father].p_cptr = q
      /\ younger # Null => /\ younger \in L /\ T[younger].p_osptr = q
                           /\ T[younger].p_pptr = father /\ pos[q] = pos[younger] + 1
  BY <1>1 DEF Lined
<1>6. father \in M \cup {InitTask}
  BY <1>4
<1>7. older # Null => T[older].p_pptr = father /\ pos[older] = pos[q] + 1 /\ older # q
  <2>1. older # Null => T[q].p_pptr = T[older].p_pptr /\ pos[older] = pos[q] + 1
    <3> HIDE DEF older
    <3> QED  BY <1>1, <1>2, <1>5 DEF Lined
  <2>2. pos[q] \in Nat
    BY <1>4
  <2> HIDE DEF older
  <2> QED  BY <2>1, <2>2
<1>8. younger # Null => younger # q
  <2>1. younger # Null => pos[younger] \in Nat
    BY <1>4, <1>5
  <2> HIDE DEF younger
  <2> QED  BY <1>5, <2>1
<1>9. newpos \in [Pages -> Nat \ {0}]
  <2>1. ASSUME NEW x \in Pages PROVE newpos[x] \in Nat \ {0}
    <3>1. pos[x] \in Nat \ {0} /\ pos[q] \in Nat \ {0}
      BY <1>1 DEF Lined
    <3> HIDE DEF father
    <3> QED  BY <3>1
  <2> QED  BY <2>1
<1>10. \A x \in L : newpos[x] = IF T[x].p_pptr = father /\ pos[x] > pos[q]
                                THEN pos[x] - 1 ELSE pos[x]
  OBVIOUS
<1> HIDE DEF U, older, younger, father, newpos
<1>11. ASSUME NEW x \in M
       PROVE  IF U[x].p_ysptr = Null
              THEN newpos[x] = 1 /\ U[U[x].p_pptr].p_cptr = x
              ELSE /\ U[x].p_ysptr \in M /\ U[U[x].p_ysptr].p_osptr = x
                   /\ U[U[x].p_ysptr].p_pptr = U[x].p_pptr
                   /\ newpos[x] = newpos[U[x].p_ysptr] + 1
  <2>1. x \in L /\ x # q /\ x \in All /\ U[x].p_pptr = T[x].p_pptr
    BY <1>2, <1>3
  <2>2. pos[x] \in Nat \ {0} /\ pos[q] \in Nat \ {0}
    BY <1>4, <2>1
  <2>3. CASE x = older
    <3>1. /\ U[x].p_ysptr = younger /\ T[x].p_pptr = father /\ pos[x] = pos[q] + 1
      BY <1>2, <1>3, <1>7, <2>1, <2>3
    <3>2. newpos[x] = pos[q]
      BY <1>10, <2>1, <2>2, <3>1
    <3>3. CASE younger = Null
      <4>1. U[father].p_cptr = x
        BY <1>2, <1>3, <1>6, <2>3, <3>3
      <4> QED  BY <1>5, <2>1, <3>1, <3>2, <3>3, <4>1
    <3>4. CASE younger # Null
      <4>1. younger \in M /\ U[younger].p_osptr = x /\ U[younger].p_pptr = father
        BY <1>2, <1>3, <1>5, <1>8, <2>3, <3>4
      <4>2. pos[younger] \in Nat /\ pos[q] = pos[younger] + 1
        BY <1>4, <1>5, <3>4
      <4>3. newpos[younger] = pos[younger]
        BY <1>5, <1>10, <3>4, <4>2
      <4> QED  BY <2>1, <3>1, <3>2, <3>4, <4>1, <4>2, <4>3
    <3> QED  BY <3>3, <3>4
  <2>4. CASE x # older /\ T[x].p_ysptr = Null
    <3>1. pos[x] = 1 /\ T[T[x].p_pptr].p_cptr = x
      BY <1>1, <2>1, <2>4 DEF Lined
    <3>2. ~(younger = Null /\ T[x].p_pptr = father)
      BY <1>5, <2>1, <3>1
    <3>3. T[x].p_pptr \in All
      BY <1>2, <1>4, <2>1
    <3>4. U[T[x].p_pptr].p_cptr = x /\ U[x].p_ysptr = Null
      BY <1>3, <2>1, <2>4, <3>1, <3>2, <3>3
    <3>5. newpos[x] = 1
      BY <1>10, <2>1, <2>2, <3>1
    <3> QED  BY <2>1, <3>4, <3>5
  <2>5. CASE x # older /\ T[x].p_ysptr # Null
    <3> DEFINE y == T[x].p_ysptr
    <3>1. y \in L /\ T[y].p_osptr = x /\ T[y].p_pptr = T[x].p_pptr /\ pos[x] = pos[y] + 1
      BY <1>1, <2>1, <2>5 DEF Lined
    <3>2. U[x].p_ysptr = y /\ y # Null
      BY <1>3, <2>1, <2>5
    <3> HIDE DEF y
    <3>3. y # q
      BY <2>5, <3>1 DEF older
    <3>4. y # younger
      BY <1>5, <2>1, <3>1, <3>2
    <3>5. U[y].p_osptr = x /\ U[y].p_pptr = T[x].p_pptr
      BY <1>2, <1>3, <3>1, <3>4
    <3>6. newpos[x] = newpos[y] + 1
      <4>1. pos[y] \in Nat
        BY <1>4, <3>1
      <4>2. CASE T[x].p_pptr = father
        <5>1. pos[y] # pos[q]
          BY <1>1, <3>1, <3>3, <4>2, PlacesDiffer DEF father
        <5>2. newpos[x] = IF pos[x] > pos[q] THEN pos[x] - 1 ELSE pos[x]
          BY <1>10, <2>1, <4>2
        <5>3. newpos[y] = IF pos[y] > pos[q] THEN pos[y] - 1 ELSE pos[y]
          BY <1>10, <3>1, <4>2
        <5> QED  BY <2>2, <3>1, <4>1, <5>1, <5>2, <5>3
      <4>3. CASE T[x].p_pptr # father
        BY <1>10, <2>1, <3>1, <4>3
      <4> QED  BY <4>2, <4>3
    <3> QED  BY <2>1, <3>1, <3>2, <3>3, <3>5, <3>6
  <2> QED  BY <2>3, <2>4, <2>5
<1>12. ASSUME NEW x \in M
       PROVE  /\ U[x].p_pptr \in M \cup {InitTask}
              /\ U[x].p_osptr # Null => U[x].p_osptr \in M /\ U[U[x].p_osptr].p_ysptr = x
  <2>1. x \in L /\ x # q /\ x \in All /\ U[x].p_pptr = T[x].p_pptr
    BY <1>2, <1>3
  <2>2. CASE x = younger
    <3>1. U[x].p_osptr = older
      BY <1>3, <2>1, <2>2
    <3>2. older # Null => older \in M /\ U[older].p_ysptr = x
      BY <1>2, <1>3, <1>5, <1>7, <2>2
    <3> QED  BY <1>4, <2>1, <3>1, <3>2
  <2>3. CASE x # younger
    <3> DEFINE o == T[x].p_osptr
    <3>1. U[x].p_osptr = o
      BY <1>3, <2>1, <2>3
    <3>2. o # Null => o \in L /\ T[o].p_ysptr = x
      BY <1>1, <2>1 DEF Lined
    <3> HIDE DEF o
    <3>3. o # Null => o # q /\ o # older
      BY <1>5, <2>1, <2>3, <3>2 DEF younger
    <3>4. o # Null => U[o].p_ysptr = x
      BY <1>2, <1>3, <3>2, <3>3
    <3> QED  BY <1>4, <2>1, <3>1, <3>2, <3>3, <3>4
  <2> QED  BY <2>2, <2>3
<1>13. ASSUME NEW z \in M \cup {InitTask}, U[z].p_cptr # Null
       PROVE  /\ U[z].p_cptr \in M /\ U[U[z].p_cptr].p_pptr = z
              /\ U[U[z].p_cptr].p_ysptr = Null
  <2>1. z \in All /\ z \in L \cup {InitTask} /\ z # q
    BY <1>2
  <2>2. CASE younger = Null /\ z = father
    <3>1. U[z].p_cptr = older
      BY <1>3, <2>1, <2>2
    <3>2. older \in M /\ older \in All
      BY <1>2, <1>5, <1>7, <1>13, <3>1
    <3>3. U[older].p_pptr = father /\ U[older].p_ysptr = Null
      BY <1>3, <1>7, <1>13, <2>2, <3>1, <3>2
    <3> QED  BY <2>2, <3>1, <3>2, <3>3
  <2>3. CASE ~(younger = Null /\ z = father)
    <3> DEFINE c == T[z].p_cptr
    <3>1. U[z].p_cptr = c /\ c # Null
      BY <1>3, <1>13, <2>1, <2>3
    <3>2. c \in L /\ T[c].p_pptr = z /\ T[c].p_ysptr = Null
      BY <1>1, <2>1, <3>1 DEF Lined
    <3> HIDE DEF c
    <3>3. c # q /\ c # older
      BY <1>2, <1>5, <2>3, <3>1, <3>2 DEF younger, father
    <3>4. U[c].p_pptr = z /\ U[c].p_ysptr = Null
      BY <1>2, <1>3, <3>2, <3>3
    <3> QED  BY <3>1, <3>2, <3>3, <3>4
  <2> QED  BY <2>2, <2>3
<1>14. Lined(U, M, newpos)
  <2> HIDE DEF M
  <2> QED  BY <1>9, <1>11, <1>12, <1>13 DEF Lined
<1>15. Aged(U, M, age)
  BY <1>1, <1>2, <1>3 DEF Aged
<1>16. Living(U, M)
  <2>1. ASSUME NEW x \in M, U[x].p_pptr # InitTask PROVE U[U[x].p_pptr].state # "zombie"
    <3>1. x \in L /\ U[x].p_pptr = T[x].p_pptr
      BY <1>2, <1>3
    <3>2. T[x].p_pptr \in All /\ T[T[x].p_pptr].state # "zombie"
      BY <1>1, <1>2, <1>4, <2>1, <3>1 DEF Living
    <3> QED  BY <1>3, <3>1, <3>2
  <2> QED  BY <2>1 DEF Living
<1> QED  BY <1>14, <1>15, <1>16 DEF Rooted, U

----------------------------------------------------------------------------
(* What leaves the links alone.                                            *)

\* s is what may become of r, the task_struct of x, when nothing happens
\* to it but that it is sent signals, or put to sleep; more may happen
\* to p.
Fit(r, s, x, p) ==
    /\ s.p_pptr = r.p_pptr /\ s.p_cptr = r.p_cptr
    /\ s.p_ysptr = r.p_ysptr /\ s.p_osptr = r.p_osptr /\ s.pid = r.pid
    /\ x # p => /\ s.state = "zombie" => r.state = "zombie"
                /\ s.pgrp = r.pgrp
                /\ SIGCHLD \in r.signal => SIGCHLD \in s.signal
    /\ x = InitTask => /\ s.pgrp = r.pgrp
                       /\ r.pgrp = 0 => s.signal \subseteq r.signal \cup {SIGCHLD}
Tied(T, U, p) == Typed(U) /\ \A x \in All : Fit(T[x], U[x], x, p)

LEMMA FitSame == ASSUME NEW r, NEW x, NEW p PROVE Fit(r, r, x, p)
  BY DEF Fit

LEMMA FitChain ==
    ASSUME NEW r, NEW s, NEW t, NEW x, NEW p, Fit(r, s, x, p), Fit(s, t, x, p)
    PROVE  Fit(r, t, x, p)
  BY DEF Fit

LEMMA TiedSame == ASSUME NEW T, Typed(T), NEW p PROVE Tied(T, T, p)
  BY FitSame DEF Tied

LEMMA TiedChain ==
    ASSUME NEW T, NEW U, NEW V, NEW p, Tied(T, U, p), Tied(U, V, p)
    PROVE  Tied(T, V, p)
  BY FitChain DEF Tied

LEMMA FieldFit ==
    ASSUME NEW r \in TaskStruct, NEW x, NEW p
    PROVE  /\ \A v \in Nat : LET s == [r EXCEPT !.exit_code = v] IN
                s \in TaskStruct /\ Fit(r, s, x, p)
           /\ \A v \in States \ {"zombie"} : LET s == [r EXCEPT !.state = v] IN
                s \in TaskStruct /\ Fit(r, s, x, p)
           /\ \A v \in BOOLEAN :
                /\ [r EXCEPT !.leader = v] \in TaskStruct /\ Fit(r, [r EXCEPT !.leader = v], x, p)
                /\ [r EXCEPT !.tty = v] \in TaskStruct /\ Fit(r, [r EXCEPT !.tty = v], x, p)
           /\ \A v \in Pids : LET s == [r EXCEPT !.session = v] IN
                s \in TaskStruct /\ Fit(r, s, x, p)
           /\ \A v \in SUBSET Signals : LET s == [r EXCEPT !.signal = v] IN
                /\ s \in TaskStruct
                /\ /\ x # p /\ SIGCHLD \in r.signal => SIGCHLD \in v
                   /\ x = InitTask /\ r.pgrp = 0 => v \subseteq r.signal \cup {SIGCHLD}
                   => Fit(r, s, x, p)
           /\ \A v \in Pids : LET s == [r EXCEPT !.pgrp = v] IN
                s \in TaskStruct /\ (x = p /\ x # InitTask => Fit(r, s, x, p))
<1>1. ASSUME NEW v \in Nat
      PROVE  [r EXCEPT !.exit_code = v] \in TaskStruct /\ Fit(r, [r EXCEPT !.exit_code = v], x, p)
  BY DEF TaskStruct, Fit
<1>2. ASSUME NEW v \in States \ {"zombie"}
      PROVE  [r EXCEPT !.state = v] \in TaskStruct /\ Fit(r, [r EXCEPT !.state = v], x, p)
  BY DEF TaskStruct, Fit
<1>3. ASSUME NEW v \in BOOLEAN
      PROVE  [r EXCEPT !.leader = v] \in TaskStruct /\ Fit(r, [r EXCEPT !.leader = v], x, p)
  BY DEF TaskStruct, Fit
<1>4. ASSUME NEW v \in BOOLEAN
      PROVE  [r EXCEPT !.tty = v] \in TaskStruct /\ Fit(r, [r EXCEPT !.tty = v], x, p)
  BY DEF TaskStruct, Fit
<1>5. ASSUME NEW v \in Pids
      PROVE  [r EXCEPT !.session = v] \in TaskStruct /\ Fit(r, [r EXCEPT !.session = v], x, p)
  BY DEF TaskStruct, Fit
<1>6. ASSUME NEW v \in SUBSET Signals
      PROVE  /\ [r EXCEPT !.signal = v] \in TaskStruct
             /\ /\ x # p /\ SIGCHLD \in r.signal => SIGCHLD \in v
                /\ x = InitTask /\ r.pgrp = 0 => v \subseteq r.signal \cup {SIGCHLD}
                => Fit(r, [r EXCEPT !.signal = v], x, p)
  BY DEF TaskStruct, Fit
<1>7. ASSUME NEW v \in Pids
      PROVE  /\ [r EXCEPT !.pgrp = v] \in TaskStruct
             /\ x = p /\ x # InitTask => Fit(r, [r EXCEPT !.pgrp = v], x, p)
  BY DEF TaskStruct, Fit
<1> QED  BY <1>1, <1>2, <1>3, <1>4, <1>5, <1>6, <1>7

LEMMA SentFit ==
    ASSUME NEW r \in TaskStruct, NEW sig \in Signals, NEW x, NEW p,
           x # InitTask \/ r.pgrp # 0
    PROVE  Sent(r, sig) \in TaskStruct /\ Fit(r, Sent(r, sig), x, p)
<1> DEFINE up == IF r.state = "stopped" THEN "running" ELSE r.state
           a == [r EXCEPT !.state = up]
           b == [a EXCEPT !.exit_code = 0]
           c == [b EXCEPT !.signal = b.signal \ {SIGSTOP}]
           woken == IF sig \notin {SIGKILL, SIGCONT} THEN r ELSE c
           v == (IF sig = SIGSTOP THEN woken.signal \ {SIGCONT} ELSE woken.signal) \cup {sig}
<1>1. a \in TaskStruct /\ Fit(r, a, x, p) /\ a.pgrp = r.pgrp
  BY DEF TaskStruct, States, Fit
<1> HIDE DEF a
<1>2. b \in TaskStruct /\ Fit(a, b, x, p) /\ b.pgrp = a.pgrp
  BY <1>1 DEF TaskStruct, Fit
<1> HIDE DEF b
<1>3. c \in TaskStruct /\ Fit(b, c, x, p) /\ c.pgrp = b.pgrp
  BY <1>2 DEF TaskStruct, Fit, SIGSTOP, SIGCHLD
<1> HIDE DEF c
<1>4. woken \in TaskStruct /\ Fit(r, woken, x, p) /\ woken.pgrp = r.pgrp
  <2>1. Fit(r, c, x, p)
    BY <1>1, <1>2, <1>3, FitChain
  <2> QED  BY <1>1, <1>2, <1>3, <2>1, FitSame
<1> HIDE DEF woken
<1>5. v \in SUBSET Signals /\ (SIGCHLD \in woken.signal => SIGCHLD \in v)
  BY <1>4 DEF TaskStruct, SIGCONT, SIGCHLD
<1> HIDE DEF v
<1>6. [woken EXCEPT !.signal = v] \in TaskStruct /\ Fit(woken, [woken EXCEPT !.signal = v], x, p)
  BY <1>4, <1>5 DEF TaskStruct, Fit
<1>7. Sent(r, sig) = [woken EXCEPT !.signal = v]
  BY DEF Sent, v, woken, a, b, c, up
<1> QED  BY <1>4, <1>6, <1>7, FitChain

\* A change to one task_struct.
LEMMA OneTied ==
    ASSUME NEW T, Typed(T), NEW a \in All, NEW s \in TaskStruct, NEW p, Fit(T[a], s, a, p),
           NEW U, U = [x \in All |-> IF x = a THEN s ELSE T[x]]
    PROVE  Tied(T, U, p)
  BY FitSame DEF Tied, Typed

LEMMA ToldTied ==
    ASSUME NEW T, Typed(T), NEW father \in All, NEW p
    PROVE  Tied(T, Told(T, father), p)
<1> DEFINE v == T[father].signal \cup {SIGCHLD}
           s == [T[father] EXCEPT !.signal = v]
<1>1. T[father] \in TaskStruct
  BY DEF Typed
<1>2. v \in SUBSET Signals /\ SIGCHLD \in v
  BY <1>1 DEF TaskStruct, Signals
<1> HIDE DEF v
<1>3. s \in TaskStruct /\ Fit(T[father], s, father, p)
  <2>1. v \subseteq T[father].signal \cup {SIGCHLD}
    BY DEF v
  <2> QED  BY <1>1, <1>2, <2>1, FieldFit
<1>4. Told(T, father) = [x \in All |-> IF x = father THEN s ELSE T[x]]
  BY DEF Told, s, v, Typed
<1> HIDE DEF s
<1> QED  BY <1>3, <1>4, OneTied

LEMMA KillPgTied ==
    ASSUME NEW T, Typed(T), NEW pgrp, NEW sig \in Signals, NEW p
    PROVE  Tied(T, kill_pg(T, pgrp, sig), p)
<1> DEFINE U == kill_pg(T, pgrp, sig)
<1>1. U = [x \in All |-> IF pgrp > 0 /\ x \in Listed /\ T[x].pgrp = pgrp
                         THEN Sent(T[x], sig) ELSE T[x]]
  BY DEF kill_pg, Typed
<1>2. ASSUME NEW x \in All PROVE U[x] \in TaskStruct /\ Fit(T[x], U[x], x, p)
  <2>1. T[x] \in TaskStruct
    BY DEF Typed
  <2>2. CASE pgrp > 0 /\ x \in Listed /\ T[x].pgrp = pgrp
    <3>1. U[x] = Sent(T[x], sig) /\ T[x].pgrp # 0
      BY <1>1, <2>2
    <3> QED  BY <2>1, <3>1, SentFit
  <2>3. CASE ~(pgrp > 0 /\ x \in Listed /\ T[x].pgrp = pgrp)
    <3>1. U[x] = T[x]
      BY <1>1, <2>3
    <3> QED  BY <2>1, <3>1, FitSame
  <2> QED  BY <2>2, <2>3
<1> HIDE DEF U
<1> QED  BY <1>1, <1>2 DEF Tied, Typed, U

LEMMA HangUpTied ==
    ASSUME NEW T, Typed(T), NEW pgrps, NEW p
    PROVE  Tied(T, HangUpAll(T, pgrps), p)
<1> DEFINE U == HangUpAll(T, pgrps)
<1>1. U = [x \in All |-> IF x \in Listed /\ T[x].pgrp \in pgrps \ {0} THEN HangUp(T[x]) ELSE T[x]]
  BY DEF HangUpAll, Typed
<1>2. ASSUME NEW x \in All PROVE U[x] \in TaskStruct /\ Fit(T[x], U[x], x, p)
  <2>1. T[x] \in TaskStruct
    BY DEF Typed
  <2>2. CASE x \in Listed /\ T[x].pgrp \in pgrps \ {0}
    <3> DEFINE s == Sent(T[x], SIGHUP)
    <3>1. s \in TaskStruct /\ Fit(T[x], s, x, p)
      <4>1. T[x].pgrp # 0 /\ SIGHUP \in Signals
        BY <2>2 DEF Signals
      <4> QED  BY <2>1, <4>1, SentFit
    <3>2. x # InitTask \/ s.pgrp # 0
      BY <2>2, <3>1 DEF Fit
    <3> HIDE DEF s
    <3>3. Sent(s, SIGCONT) \in TaskStruct /\ Fit(s, Sent(s, SIGCONT), x, p)
      BY <3>1, <3>2, SentFit DEF Signals
    <3>4. U[x] = Sent(s, SIGCONT)
      BY <1>1, <2>2 DEF HangUp, s
    <3> QED  BY <3>1, <3>3, <3>4, FitChain
  <2>3. CASE ~(x \in Listed /\ T[x].pgrp \in pgrps \ {0})
    <3>1. U[x] = T[x]
      BY <1>1, <2>3
    <3> QED  BY <2>1, <3>1, FitSame
  <2> QED  BY <2>2, <2>3
<1> HIDE DEF U
<1> QED  BY <1>1, <1>2 DEF Tied, Typed, U

LEMMA LeaderGoneTied ==
    ASSUME NEW T, Typed(T), NEW q, NEW p
    PROVE  Tied(T, LeaderGone(T, q), p)
<1> DEFINE U == IF T[q].tty THEN kill_pg(T, tty.pgrp, SIGHUP) ELSE T
           D == Disconnected(U, q)
<1>1. Tied(T, U, p)
  BY KillPgTied, TiedSame DEF Signals
<1>2. LeaderGone(T, q) \in {T, D}
  BY DEF LeaderGone
<1>3. Typed(U)
  BY <1>1 DEF Tied
<1> HIDE DEF U
<1>4. D = [x \in All |-> IF x \in Listed /\ U[x].session = U[q].session
                         THEN [U[x] EXCEPT !.tty = FALSE] ELSE U[x]]
  BY <1>3 DEF Disconnected, Typed
<1>5. ASSUME NEW x \in All PROVE D[x] \in TaskStruct /\ Fit(U[x], D[x], x, p)
  <2> HIDE DEF D
  <2>1. U[x] \in TaskStruct
    BY <1>3 DEF Typed
  <2>2. D[x] \in {U[x], [U[x] EXCEPT !.tty = FALSE]}
    BY <1>4
  <2>3. [U[x] EXCEPT !.tty = FALSE] \in TaskStruct /\ Fit(U[x], [U[x] EXCEPT !.tty = FALSE], x, p)
    BY <2>1, FieldFit
  <2> QED  BY <2>1, <2>2, <2>3, FitSame
<1> HIDE DEF D
<1>6. Tied(U, D, p)
  BY <1>4, <1>5 DEF Tied, Typed
<1> QED  BY <1>1, <1>2, <1>6, TiedChain, TiedSame

----------------------------------------------------------------------------
(* exit().                                                                 *)

LEMMA ToldHears ==
    ASSUME NEW T, Typed(T), NEW father \in All
    PROVE  SIGCHLD \in Told(T, father)[father].signal
<1>1. T[father] \in TaskStruct
  BY DEF Typed
<1>2. Told(T, father)[father] = [T[father] EXCEPT !.signal = @ \cup {SIGCHLD}]
  BY DEF Told, Typed
<1> QED  BY <1>1, <1>2 DEF TaskStruct

LEMMA ZombieTied ==
    ASSUME Typed(ts), NEW p \in Tasks, ts[p].p_pptr \in All, local[p].n \in Nat
    PROVE  Tied(ts, Zombie(p), p) /\ SIGCHLD \in Zombie(p)[ts[p].p_pptr].signal
<1> DEFINE father == ts[p].p_pptr
           n == local[p].n
           a == [ts[p] EXCEPT !.state = "zombie"]
           s == [a EXCEPT !.exit_code = n]
           T == [ts EXCEPT ![p].state = "zombie", ![p].exit_code = n]
           U == IF CutOff(T, p, father, T[p].pgrp) THEN HangUpAll(T, {T[p].pgrp}) ELSE T
<1>1. ts[p] \in TaskStruct /\ p \in All
  BY AllThere DEF Typed
<1> HIDE DEF father, n
<1>2. a \in TaskStruct /\ Fit(ts[p], a, p, p)
  BY <1>1 DEF TaskStruct, States, Fit
<1> HIDE DEF a
<1>3. s \in TaskStruct /\ Fit(a, s, p, p)
  BY <1>2, FieldFit DEF n
<1>4. s \in TaskStruct /\ Fit(ts[p], s, p, p)
  BY <1>2, <1>3, FitChain
<1>5. T = [x \in All |-> IF x = p THEN s ELSE ts[x]]
  BY DEF Typed, a
<1> HIDE DEF s, T
<1>6. Tied(ts, T, p)
  BY <1>1, <1>4, <1>5, OneTied
<1>7. Typed(T)
  BY <1>6 DEF Tied
<1>8. Tied(T, U, p)
  BY <1>7, HangUpTied, TiedSame
<1>9. Typed(U)
  BY <1>8 DEF Tied
<1> HIDE DEF U
<1>10. Tied(U, Told(U, father), p)
  BY <1>9, ToldTied DEF father
<1>12. SIGCHLD \in Told(U, father)[father].signal
  BY <1>9, ToldHears DEF father
<1>11. Zombie(p) = Told(U, father)
  BY DEF Zombie, U, T, father, n
<1> QED  BY <1>6, <1>8, <1>10, <1>11, <1>12, TiedChain DEF father

\* The children of p are init's, and whom it concerns is sent signals.
LEMMA OrphansTied ==
    ASSUME NEW T, Typed(T), NEW p \in Tasks,
           NEW S, S = {Kids(T, p)[j] : j \in 1..Len(Kids(T, p))}
    PROVE  /\ Typed(Adopted(T, S)) /\ Tied(Adopted(T, S), Orphans(T, p), p)
           /\ \A x \in S : T[x].state = "zombie" => SIGCHLD \in Orphans(T, p)[InitTask].signal
<1> DEFINE kids == Kids(T, p)
           after(i) == Adopted(T, {kids[j] : j \in 1..i})
           all == after(Len(kids))
           cut == {T[kids[i]].pgrp : i \in {j \in 1..Len(kids) :
                       CutOff(after(j), p, kids[j], T[kids[j]].pgrp)}}
           hung == HangUpAll(all, cut)
<1>1. Typed(all)
  <2>1. all = [x \in All |-> IF x \in S THEN [T[x] EXCEPT !.p_pptr = InitTask] ELSE T[x]]
    BY DEF Adopted, Typed
  <2>2. ASSUME NEW x \in All PROVE [T[x] EXCEPT !.p_pptr = InitTask] \in TaskStruct
    <3> DEFINE r == T[x]
    <3>1. r \in TaskStruct /\ InitTask \in Tasks
      BY AllThere DEF Typed
    <3> HIDE DEF r
    <3>2. [r EXCEPT !.p_pptr = InitTask] \in TaskStruct
      BY ONLY <3>1 DEF TaskStruct
    <3> QED  BY <3>2 DEF r
  <2> HIDE DEF all
  <2> QED  BY <2>1, <2>2 DEF Typed
<1>2. all = Adopted(T, S)
  OBVIOUS
<1>3. Orphans(T, p) = IF \E i \in 1..Len(kids) : T[kids[i]].state = "zombie"
                     THEN Told(hung, InitTask) ELSE hung
  BY DEF Orphans
<1>7. (\E x \in S : T[x].state = "zombie") => Orphans(T, p) = Told(hung, InitTask)
  BY <1>3
<1> HIDE DEF all, cut
<1>4. Tied(all, hung, p)
  BY <1>1, HangUpTied
<1>5. Typed(hung)
  BY <1>4 DEF Tied
<1> HIDE DEF hung
<1>6. Tied(hung, Told(hung, InitTask), p)
  BY <1>5, AllThere, ToldTied
<1>8. SIGCHLD \in Told(hung, InitTask)[InitTask].signal
  BY <1>5, AllThere, ToldHears
<1> QED  BY <1>1, <1>2, <1>3, <1>4, <1>6, <1>7, <1>8, TiedChain

\* U is T after steps on links and states that leave init in its place.
Kin(T, U, p) ==
    /\ Typed(U)
    /\ \A x \in All : x # p /\ U[x].state = "zombie" => T[x].state = "zombie"
    /\ U[InitTask].p_pptr = T[InitTask].p_pptr /\ U[InitTask].pgrp = T[InitTask].pgrp
    /\ T[InitTask].pgrp = 0 => U[InitTask].signal \subseteq T[InitTask].signal \cup {SIGCHLD}
    /\ \A x \in All :
        /\ U[x].pid = T[x].pid
        /\ x # p => U[x].pgrp = T[x].pgrp
        /\ x # p /\ SIGCHLD \in T[x].signal => SIGCHLD \in U[x].signal

LEMMA KinSame == ASSUME NEW T, Typed(T), NEW p PROVE Kin(T, T, p)
  BY DEF Kin

LEMMA TiedKin == ASSUME NEW T, NEW U, NEW p, Tied(T, U, p), p # InitTask PROVE Kin(T, U, p)
  BY AllThere DEF Tied, Fit, Kin

LEMMA KinChain ==
    ASSUME NEW T, NEW U, NEW V, NEW p, Kin(T, U, p), Kin(U, V, p)
    PROVE  Kin(T, V, p)
<1>1. InitTask \in All
  BY AllThere
<1>2. Typed(V) /\ \A x \in All : x # p /\ V[x].state = "zombie" => T[x].state = "zombie"
  BY DEF Kin
<1>3. /\ V[InitTask].p_pptr = T[InitTask].p_pptr /\ V[InitTask].pgrp = T[InitTask].pgrp
      /\ T[InitTask].pgrp = 0 => V[InitTask].signal \subseteq T[InitTask].signal \cup {SIGCHLD}
  BY DEF Kin
<1>4. ASSUME NEW x \in All
      PROVE  /\ V[x].pid = T[x].pid
             /\ x # p => V[x].pgrp = T[x].pgrp
             /\ x # p /\ SIGCHLD \in T[x].signal => SIGCHLD \in V[x].signal
  BY DEF Kin
<1> QED  BY <1>2, <1>3, <1>4 DEF Kin

\* What the exit of p does to the task_structs.
Dead(p) == Spliced(Orphans(Zombie(p), p), p)
LEMMA DeadIs ==
    ASSUME Typed(ts), NEW L, L \subseteq Pages, Rooted(ts, L), NEW p \in L, local[p].n \in Nat,
           NEW V, V = Orphans(Zombie(p), p)
    PROVE  /\ Kids(V, p) # <<>> => V[InitTask].p_cptr # Null
           /\ Typed(V) /\ Kin(ts, Spliced(V, p), p) /\ Rooted(Spliced(V, p), L)
           /\ ts[p].p_pptr # p /\ SIGCHLD \in Spliced(V, p)[ts[p].p_pptr].signal
           /\ \A x \in L : ts[x].p_pptr = p /\ Spliced(V, p)[x].state = "zombie"
                            => SIGCHLD \in Spliced(V, p)[InitTask].signal
           /\ \A x \in L : ts[x].p_pptr # p => Spliced(V, p)[x].p_pptr = ts[x].p_pptr
           /\ \A x \in L : ts[x].p_pptr = p => Spliced(V, p)[x].p_pptr = InitTask
           /\ \A x \in All : /\ Spliced(V, p)[x].state = V[x].state
                             /\ SameRest(Spliced(V, p)[x], V[x])
<1> DEFINE Z == Zombie(p)
           K == Kids(Z, p)
           S == {K[j] : j \in 1..Len(K)}
           A == Adopted(Z, S)
           KV == Kids(V, p)
<1>1. PICK pos, age : Lined(ts, L, pos) /\ Aged(ts, L, age) /\ Living(ts, L)
  BY DEF Rooted
<1>2. /\ L \subseteq All /\ L \subseteq Tasks /\ InitTask \in All /\ InitTask \notin L
      /\ Null \notin L /\ p \in Tasks /\ p \in All /\ p # InitTask /\ Null # InitTask
  BY AllThere, TasksAssumption
<1>3. Tied(ts, Z, p) /\ SIGCHLD \in Z[ts[p].p_pptr].signal /\ ts[p].p_pptr \in All
  <2>1. ts[p].p_pptr \in All
    BY <1>1, <1>2 DEF Lined
  <2> QED  BY <1>2, <2>1, ZombieTied
<1>4. Typed(Z) /\ \A x \in All : Fit(ts[x], Z[x], x, p)
  BY <1>3 DEF Tied
<1>5. Listing(K, ts, L, pos, p)
  <2> HIDE DEF Z
  <2>1. Z[p].p_cptr = ts[p].p_cptr /\ \A x \in L : Z[x].p_osptr = ts[x].p_osptr
    BY <1>2, <1>4 DEF Fit
  <2> QED  BY <1>1, <2>1, KidsLike
<1> HIDE DEF Z, K
<1>6. S = {x \in L : ts[x].p_pptr = p}
  BY <1>5 DEF Listing
<1>7. /\ Typed(A) /\ Tied(A, V, p)
      /\ \A x \in S : Z[x].state = "zombie" => SIGCHLD \in V[InitTask].signal
  BY <1>2, <1>4, OrphansTied DEF Z, K
<1>8. \A x \in All :
        /\ A[x] = IF x \in S THEN [Z[x] EXCEPT !.p_pptr = InitTask] ELSE Z[x]
        /\ Z[x] \in TaskStruct
  BY <1>4 DEF Adopted, Typed
<1>9. \A x \in All :
        /\ A[x].p_pptr = IF x \in S THEN InitTask ELSE Z[x].p_pptr
        /\ A[x].p_cptr = Z[x].p_cptr /\ A[x].p_ysptr = Z[x].p_ysptr
        /\ A[x].p_osptr = Z[x].p_osptr /\ A[x].state = Z[x].state
        /\ A[x].pgrp = Z[x].pgrp /\ A[x].signal = Z[x].signal
        /\ A[x].pid = Z[x].pid
  BY <1>8 DEF TaskStruct
<1> HIDE DEF A, S
<1>10. \A x \in L \cup {InitTask} :
        /\ V[x].p_cptr = ts[x].p_cptr /\ V[x].p_ysptr = ts[x].p_ysptr
        /\ V[x].p_osptr = ts[x].p_osptr
        /\ V[x].p_pptr = IF x \in L /\ ts[x].p_pptr = p THEN InitTask ELSE ts[x].p_pptr
        /\ x # p /\ V[x].state = "zombie" => ts[x].state = "zombie"
  <2>1. \A x \in L \cup {InitTask} : x \in All /\ (x \in S <=> x \in L /\ ts[x].p_pptr = p)
    BY <1>2, <1>6
  <2>2. \A x \in All : Fit(A[x], V[x], x, p)
    BY <1>7 DEF Tied
  <2> QED  BY <1>4, <1>9, <2>1, <2>2 DEF Fit
<1>11. Typed(V)
  BY <1>7 DEF Tied
<1>12. Kin(ts, V, p)
  <2>1. Kin(ts, Z, p) /\ Kin(A, V, p)
    BY <1>2, <1>3, <1>7, TiedKin
  <2>2. Kin(Z, A, p)
    <3>1. InitTask \notin S
      BY <1>2, <1>6
    <3> QED  BY <1>2, <1>7, <1>9, <3>1 DEF Kin
  <2> QED  BY <2>1, <2>2, KinChain
<1>13. Listing(KV, ts, L, pos, p)
  <2>1. V[p].p_cptr = ts[p].p_cptr /\ \A x \in L : V[x].p_osptr = ts[x].p_osptr
    BY <1>10
  <2> QED  BY <1>1, <2>1, KidsLike
<1>14. V[InitTask].p_cptr # Null
  BY <1>10, InitHasChild
<1>15. Rooted(Spliced(V, p), L)
  BY <1>10, <1>11, <1>14, SplicedRooted
<1>16. /\ Kin(V, Spliced(V, p), p)
       /\ \A x \in All :
           /\ Spliced(V, p)[x].p_pptr = V[x].p_pptr
           /\ Spliced(V, p)[x].state = V[x].state
           /\ Spliced(V, p)[x].signal = V[x].signal
           /\ SameRest(Spliced(V, p)[x], V[x])
  <2> HIDE DEF KV
  <2>1. CASE KV = <<>>
    <3>1. Spliced(V, p) = V
      BY <2>1 DEF Spliced, KV
    <3> QED  BY <1>11, <3>1, KinSame DEF SameRest
  <2>2. CASE KV # <<>>
    <3> DEFINE oldest == KV[Len(KV)]
               first == ts[InitTask].p_cptr
    <3>1. oldest \in L
      <4>1. KV \in Seq(Pages) /\ Len(KV) \in Nat /\ \A i \in 1..Len(KV) : KV[i] \in L
        BY <1>13 DEF Listing
      <4>2. Len(KV) # 0
        BY <2>2, <4>1, EmptySeq
      <4> QED  BY <4>1, <4>2
    <3>2. first \in L /\ first = V[InitTask].p_cptr
      BY <1>1, <1>10, <1>14 DEF Lined
    <3>3. oldest = Kids(V, p)[Len(Kids(V, p))] /\ Kids(V, p) # <<>>
      BY <2>2 DEF KV
    <3> HIDE DEF oldest, first
    <3>4. /\ Typed(Spliced(V, p))
          /\ \A x \in All : /\ Spliced(V, p)[x].p_pptr = V[x].p_pptr
                            /\ Spliced(V, p)[x].state = V[x].state
                            /\ SameRest(Spliced(V, p)[x], V[x])
      BY <1>2, <1>11, <3>1, <3>2, <3>3, SplicedIs
    <3> QED  BY <1>2, <3>4 DEF Kin, SameRest
  <2> QED  BY <2>1, <2>2
<1>17. \A x \in All :
           /\ Spliced(V, p)[x].p_pptr = V[x].p_pptr
           /\ Spliced(V, p)[x].state = V[x].state
           /\ Spliced(V, p)[x].signal = V[x].signal
           /\ SameRest(Spliced(V, p)[x], V[x])
  BY <1>16
<1>18. \A x \in All : SIGCHLD \in Z[x].signal => SIGCHLD \in A[x].signal
  BY <1>9
<1>19. ts[p].p_pptr # p /\ SIGCHLD \in V[ts[p].p_pptr].signal
  <2>1. ts[p].p_pptr # p
    BY <1>1, <1>2 DEF Aged
  <2> QED  BY <1>3, <1>7, <1>18, <2>1 DEF Tied, Fit
<1>20. ASSUME NEW x \in L, ts[x].p_pptr = p, V[x].state = "zombie"
       PROVE  SIGCHLD \in V[InitTask].signal
  <2>1. x # p /\ x \in All /\ x \in S
    BY <1>2, <1>6, <1>19, <1>20
  <2>2. Z[x].state = "zombie"
    BY <1>7, <1>9, <1>20, <2>1 DEF Tied, Fit
  <2> QED  BY <1>7, <2>1, <2>2
<1>21. ts[p].p_pptr \in All
  BY <1>3
<1> HIDE DEF KV
<1>22. Kin(ts, Spliced(V, p), p)
  BY <1>12, <1>16, KinChain
<1> QED  BY <1>2, <1>10, <1>11, <1>14, <1>15, <1>17, <1>19, <1>20, <1>21, <1>22

\* find_empty_process() tries the numbers from last_pid on, each of them once.
LEMMA NextPidIn == ASSUME last_pid \in Pids PROVE NextPid \in Pids
<1> DEFINE tried == CHOOSE f : f = [i \in 1..MaxPid |->
                        IF i = 1 THEN After(last_pid) ELSE After(f[i - 1])]
           g == [i \in 1..MaxPid |-> IF last_pid + i <= MaxPid THEN last_pid + i
                                     ELSE last_pid + i - MaxPid]
           fits == {i \in 1..MaxPid : ~PidInUse(tried[i])}
<1>1. MaxPid \in Nat \ {0} /\ last_pid \in Nat /\ last_pid <= MaxPid
  BY NumbersAssumption DEF Pids
<1>2. ASSUME NEW i \in 1..MaxPid
      PROVE  g[i] = IF i = 1 THEN After(last_pid) ELSE After(g[i - 1])
  <2>1. CASE i = 1
    BY <1>1, <2>1 DEF After
  <2>2. CASE i # 1
    <3>1. i - 1 \in 1..MaxPid /\ i \in Nat
      BY <1>1, <2>2
    <3>2. g[i - 1] = IF last_pid + i - 1 <= MaxPid THEN last_pid + i - 1
                     ELSE last_pid + i - 1 - MaxPid
      BY <1>1, <3>1
    <3> QED  BY <1>1, <2>2, <3>1, <3>2 DEF After
  <2> QED  BY <2>1, <2>2
<1>3. g = [i \in 1..MaxPid |-> IF i = 1 THEN After(last_pid) ELSE After(g[i - 1])]
  BY <1>2
<1> HIDE DEF g
<1>4. tried = [i \in 1..MaxPid |-> IF i = 1 THEN After(last_pid) ELSE After(tried[i - 1])]
  BY <1>3
<1>5. NextPid = IF fits = {} THEN 0 ELSE tried[Lowest(fits)]
  BY DEF NextPid
<1> HIDE DEF tried
<1>6. \A i \in 1..MaxPid : tried[i] = IF i = 1 THEN After(last_pid) ELSE After(tried[i - 1])
  BY <1>4
<1>7. ASSUME NEW i \in 1..MaxPid PROVE tried[i] \in Pids
  <2> DEFINE Bad == {j \in 1..MaxPid : tried[j] \notin Pids}
  <2>1. Bad = {}
    <3> SUFFICES ASSUME Bad # {} PROVE FALSE
      OBVIOUS
    <3>1. PICK j \in Bad : \A k \in Bad : j <= k
      <4>1. Bad \subseteq Nat
        OBVIOUS
      <4> HIDE DEF Bad
      <4> QED  BY <4>1, LeastIn
    <3>2. j \in 1..MaxPid /\ tried[j] \notin Pids
      BY <3>1
    <3>3. \A n \in Pids : After(n) \in Pids
      BY <1>1 DEF After, Pids
    <3>4. j # 1
      BY <1>6, <3>2, <3>3
    <3>5. j - 1 \in 1..MaxPid /\ ~(j <= j - 1)
      BY <1>1, <3>2, <3>4
    <3>6. tried[j - 1] \in Pids
      <4>1. j - 1 \notin Bad
        <5> HIDE DEF Bad
        <5> QED  BY <3>1, <3>5
      <4> QED  BY <3>5, <4>1
    <3> QED  BY <1>6, <3>2, <3>3, <3>4, <3>6
  <2> QED  BY <2>1
<1>8. CASE fits = {}
  BY <1>1, <1>5, <1>8 DEF Pids
<1>9. CASE fits # {}
  <2>1. fits \subseteq Nat /\ fits \subseteq 1..MaxPid
    OBVIOUS
  <2> HIDE DEF fits
  <2>2. Lowest(fits) \in 1..MaxPid
    BY <1>9, <2>1, LowestIn
  <2> QED  BY <1>5, <1>7, <1>9, <2>2
<1> QED  BY <1>8, <1>9

\* release(), and a fork that fails, on a page that is not in the tree.
LEMMA FreedIs ==
    ASSUME NEW T, Typed(T), NEW q
    PROVE  Typed(Freed(T, q)) /\ \A x \in All \ {q} : Freed(T, q)[x] = T[x]
<1>1. Blank \in TaskStruct
  BY NumbersAssumption DEF Blank, TaskStruct, States, Pids
<1>2. Freed(T, q) \in {T, [T EXCEPT ![q] = Blank]}
  BY DEF Freed
<1>3. Typed([T EXCEPT ![q] = Blank]) /\ \A x \in All \ {q} : [T EXCEPT ![q] = Blank][x] = T[x]
  <2> HIDE DEF Blank
  <2> QED  BY <1>1 DEF Typed
<1> QED  BY <1>2, <1>3

----------------------------------------------------------------------------
(* The invariant.                                                          *)

Crew ==
    /\ ts[InitTask].p_pptr = Zero /\ ts[InitTask].pgrp = 0 /\ ts[InitTask].pid = 1
    /\ ts[InitTask].signal \subseteq {SIGCHLD}
    /\ pc[InitTask] \in {"user", "page", "copy", "wait"}
    /\ \A x \in Linkable \cup {InitTask} : ts[x].state = "zombie" => pc[x] = "dead"
    /\ \A x \in Tasks : pc[x] \in {"page", "copy"} => local[x].n \in Slots
    /\ \A x \in Tasks : pc[x] = "copy" => local[x].q \in Pages /\ pc[local[x].q] = "new"
    /\ \A x, y \in Tasks : pc[x] = "copy" /\ pc[y] = "copy" /\ local[x].q = local[y].q => x = y

Family == TypeOK /\ Crew /\ Rooted(ts, Linkable)

\* Whoever sleeps in waitpid() has been told of the zombies it asked for.
Heard ==
    \A x \in Linkable \cup {InitTask} : pc[x] = "wait" =>
        /\ local[x].w \in Waits
        /\ \A q \in Linkable :
            ts[q].p_pptr = x /\ ts[q].state = "zombie" /\ Asked(x, local[x].w, q)
                => SIGCHLD \in ts[x].signal

\* x sleeps on and the zombies are the same, or it has been told, or it
\* has just gone to sleep and nobody it asked for is a zombie.
LEMMA HeardStep ==
    ASSUME Heard,
           \A x \in Linkable' \cup {InitTask} : pc'[x] = "wait" =>
               \/ /\ x \in Linkable \cup {InitTask} /\ pc[x] = "wait" /\ local'[x] = local[x]
                  /\ SIGCHLD \in ts[x].signal => SIGCHLD \in ts'[x].signal
                  /\ local[x].w = 0 => ts'[x].pgrp = ts[x].pgrp
                  /\ \A q \in Linkable' : ts'[q].p_pptr = x /\ ts'[q].state = "zombie" =>
                      \/ SIGCHLD \in ts'[x].signal
                      \/ /\ q \in Linkable /\ ts[q].p_pptr = x /\ ts[q].state = "zombie"
                         /\ ts'[q].pgrp = ts[q].pgrp /\ ts'[q].pid = ts[q].pid
               \/ /\ local'[x].w \in Waits
                  /\ \A q \in Linkable' : ts'[q].p_pptr = x /\ ts'[q].state = "zombie"
                                            => ~Asked(x, local[x].w, q)'
    PROVE  Heard'
<1> SUFFICES ASSUME NEW x \in Linkable' \cup {InitTask}, pc'[x] = "wait"
             PROVE  /\ local'[x].w \in Waits
                    /\ \A q \in Linkable' :
                        ts'[q].p_pptr = x /\ ts'[q].state = "zombie" /\ Asked(x, local[x].w, q)'
                            => SIGCHLD \in ts'[x].signal
  BY DEF Heard
<1>1. CASE local'[x].w \in Waits /\ \A q \in Linkable' :
               ts'[q].p_pptr = x /\ ts'[q].state = "zombie" => ~Asked(x, local[x].w, q)'
  BY <1>1
<1>2. CASE /\ x \in Linkable \cup {InitTask} /\ pc[x] = "wait" /\ local'[x] = local[x]
           /\ SIGCHLD \in ts[x].signal => SIGCHLD \in ts'[x].signal
           /\ local[x].w = 0 => ts'[x].pgrp = ts[x].pgrp
           /\ \A q \in Linkable' : ts'[q].p_pptr = x /\ ts'[q].state = "zombie" =>
               \/ SIGCHLD \in ts'[x].signal
               \/ /\ q \in Linkable /\ ts[q].p_pptr = x /\ ts[q].state = "zombie"
                  /\ ts'[q].pgrp = ts[q].pgrp /\ ts'[q].pid = ts[q].pid
  <2>1. local'[x].w \in Waits
    BY <1>2 DEF Heard
  <2>2. ASSUME NEW q \in Linkable', ts'[q].p_pptr = x, ts'[q].state = "zombie",
               Asked(x, local[x].w, q)', SIGCHLD \notin ts'[x].signal
        PROVE  FALSE
    <3>1. /\ q \in Linkable /\ ts[q].p_pptr = x /\ ts[q].state = "zombie"
          /\ ts'[q].pgrp = ts[q].pgrp /\ ts'[q].pid = ts[q].pid
      BY <1>2, <2>2
    <3>2. Asked(x, local[x].w, q)
      BY <1>2, <2>2, <3>1 DEF Asked
    <3> QED  BY <1>2, <2>2, <3>1, <3>2 DEF Heard
  <2> QED  BY <2>1, <2>2
<1> QED  BY <1>1, <1>2

LEMMA TypedTs == TypeOK <=> TypeOK /\ Typed(ts)
  BY DEF TypeOK, Typed, All

\* A step of p that leaves the links alone and makes no zombie.
LEMMA Quiet ==
    ASSUME Family, NEW p \in Tasks, pc[p] \in {"user", "page", "wait", "exit"},
           NEW who \in Tasks, Tied(ts, ts', who),
           ts'[who].state = "zombie" => ts[who].state = "zombie",
           \A x \in Tasks \ {p} : pc'[x] = pc[x] /\ local'[x] = local[x],
           pc'[p] \in {"user", "page", "wait", "exit"}, p = InitTask => pc'[p] # "exit",
           pc'[p] = "page" => local'[p].n \in Slots
    PROVE  /\ Crew' /\ Rooted(ts, Linkable)' /\ Typed(ts')
           /\ who = p /\ pc'[p] # "wait" /\ Heard => Heard'
<1>1. /\ Linkable \subseteq All /\ InitTask \in All /\ Linkable \subseteq Tasks
      /\ InitTask \in Tasks /\ Pages \subseteq Tasks
  BY AllThere DEF Linkable
<1>2. Linkable' = Linkable
  BY <1>1 DEF Linkable
<1>3. \A x \in All : Fit(ts[x], ts'[x], x, who)
  BY DEF Tied
<1>4. \A x \in All : ts'[x].state = "zombie" => ts[x].state = "zombie"
  BY <1>3 DEF Fit
<1>5. Alike(ts, ts', Linkable \cup {InitTask})
  BY <1>1, <1>3, <1>4 DEF Fit, Alike
<1>6. Rooted(ts', Linkable')
  BY <1>2, <1>5, RootedAlike DEF Family
<1>7. Crew'
  <2>1. /\ ts'[InitTask].p_pptr = Zero /\ ts'[InitTask].pgrp = 0 /\ ts'[InitTask].pid = 1
        /\ ts'[InitTask].signal \subseteq {SIGCHLD}
    BY <1>1, <1>3 DEF Fit, Family, Crew
  <2>2. pc'[InitTask] \in {"user", "page", "copy", "wait"}
    BY <1>1 DEF Family, Crew
  <2>3. \A x \in Linkable' \cup {InitTask} : ts'[x].state = "zombie" => pc'[x] = "dead"
    BY <1>1, <1>2, <1>4 DEF Family, Crew
  <2>4. \A x \in Tasks : pc'[x] \in {"page", "copy"} => local'[x].n \in Slots
    BY DEF Family, Crew
  <2>5. ASSUME NEW x \in Tasks, pc'[x] = "copy"
        PROVE  pc[x] = "copy" /\ local'[x] = local[x] /\ local[x].q \in Pages
               /\ pc'[local[x].q] = "new"
    BY <1>1, <2>5 DEF Family, Crew
  <2>6. \A x, y \in Tasks : pc'[x] = "copy" /\ pc'[y] = "copy" /\ local'[x].q = local'[y].q => x = y
    BY <2>5 DEF Family, Crew
  <2> QED  BY <2>1, <2>2, <2>3, <2>4, <2>5, <2>6 DEF Crew
<1>8. ASSUME who = p, pc'[p] # "wait", Heard PROVE Heard'
  <2>1. ASSUME NEW q \in Linkable', ts'[q].state = "zombie"
        PROVE  /\ q \in Linkable /\ ts'[q].p_pptr = ts[q].p_pptr /\ ts[q].state = "zombie"
               /\ ts'[q].pgrp = ts[q].pgrp /\ ts'[q].pid = ts[q].pid
    <3>1. q \in Linkable /\ q \in All /\ ts[q].state = "zombie"
      BY <1>1, <1>2, <1>4, <2>1
    <3>2. q # p
      BY <3>1 DEF Family, Crew
    <3> QED  BY <1>3, <1>8, <3>1, <3>2 DEF Fit
  <2>2. ASSUME NEW x \in Linkable' \cup {InitTask}, pc'[x] = "wait"
        PROVE  /\ x \in Linkable \cup {InitTask} /\ pc[x] = "wait" /\ local'[x] = local[x]
               /\ SIGCHLD \in ts[x].signal => SIGCHLD \in ts'[x].signal
               /\ ts'[x].pgrp = ts[x].pgrp
    <3>1. x # p /\ x \in Tasks /\ x \in All
      BY <1>1, <1>2, <1>8, <2>2
    <3> QED  BY <1>2, <1>3, <1>8, <2>2, <3>1 DEF Fit
  <2> QED  BY <1>8, <2>1, <2>2, HeardStep
<1> QED  BY <1>6, <1>7, <1>8 DEF Tied

LEMMA UseIs == ASSUME Family PROVE use.sends \subseteq Signals
  BY UsesAssumption DEF Family, TypeOK, Signals, SIGHUP, SIGKILL, SIGCONT, SIGSTOP

LEMMA KillFamily ==
    ASSUME Family, NEW p \in Tasks, NEW w, NEW sig \in use.sends, Kill(p, w, sig)
    PROVE  Family' /\ (Heard => Heard')
<1>1. Typed(ts)
  BY DEF Family, TypeOK, Typed, All
<1>2. /\ pc[p] = "user" /\ InitTask \notin Reached(p, w)
      /\ UNCHANGED <<task, last_pid, spaces, nr, pc, local, use, shell, tty, panicked>>
  BY DEF Kill, Enters, Reached
<1>3. ts' = [x \in All |-> IF x \in Reached(p, w) THEN Sent(ts[x], sig) ELSE ts[x]]
  BY <1>1 DEF Kill, Typed
<1>4. ASSUME NEW x \in All PROVE ts'[x] \in TaskStruct /\ Fit(ts[x], ts'[x], x, p)
  <2>1. ts[x] \in TaskStruct /\ sig \in Signals
    BY <1>1, UseIs DEF Typed
  <2>2. CASE x \in Reached(p, w)
    <3>1. ts'[x] = Sent(ts[x], sig) /\ x # InitTask
      BY <1>2, <1>3, <2>2
    <3> QED  BY <2>1, <3>1, SentFit
  <2>3. CASE x \notin Reached(p, w)
    BY <1>3, <2>1, <2>3, FitSame
  <2> QED  BY <2>2, <2>3
<1>5. Tied(ts, ts', p)
  BY <1>3, <1>4 DEF Tied, Typed
<1>6. ts'[p].state = "zombie" => ts[p].state = "zombie"
  <2>1. Rec(ts[p])
    BY <1>1, AllThere DEF Typed, TaskStruct, Rec, Fields
  <2>2. ts'[p] \in {ts[p], Sent(ts[p], sig)}
    BY <1>3, AllThere
  <2> QED  BY <2>1, <2>2, SentKeeps
<1>7. Crew' /\ Rooted(ts, Linkable)' /\ Typed(ts') /\ (Heard => Heard')
  BY <1>2, <1>5, <1>6, Quiet
<1> QED  BY <1>2, <1>7 DEF Family, TypeOK, Typed, All

LEMMA ExitFamily ==
    ASSUME Family, NEW p \in Tasks, NEW c \in Codes, Exit(p, c)
    PROVE  Family' /\ (Heard => Heard')
<1>1. /\ Typed(ts) /\ spaces \subseteq Slots /\ local \in [Tasks -> Locals]
      /\ pc \in [Tasks -> PCs] /\ c \in Nat
  BY NumbersAssumption DEF Family, TypeOK, Typed, All, PCs
<1>2. /\ pc[p] = "user" /\ p # InitTask /\ spaces' \subseteq Slots
      /\ UNCHANGED <<task, ts, last_pid, nr, use, shell, tty, panicked>>
      /\ pc' = [pc EXCEPT ![p] = "exit"] /\ local' = [local EXCEPT ![p].n = 256 * c]
  BY <1>1 DEF Exit, Enters, FreedTables
<1>3. local' \in [Tasks -> Locals] /\ pc' \in [Tasks -> PCs]
  BY <1>1, <1>2 DEF Locals, PCs
<1>4. Tied(ts, ts', p)
  BY <1>1, <1>2, TiedSame
<1>5. Crew' /\ Rooted(ts, Linkable)' /\ Typed(ts') /\ (Heard => Heard')
  <2>1. pc'[p] = "exit" /\ \A x \in Tasks \ {p} : pc'[x] = pc[x] /\ local'[x] = local[x]
    BY <1>1, <1>2
  <2> QED  BY <1>2, <1>4, <2>1, Quiet
<1> QED  BY <1>2, <1>3, <1>5 DEF Family, TypeOK, Typed, All, PCs

\* A task_struct of which one field has changed.
LEMMA OneField ==
    ASSUME Typed(ts), NEW q \in All, NEW s \in TaskStruct, NEW p, Fit(ts[q], s, q, p),
           ts' = [ts EXCEPT ![q] = s]
    PROVE  Tied(ts, ts', p)
<1>1. ts' = [x \in All |-> IF x = q THEN s ELSE ts[x]]
  BY DEF Typed
<1> QED  BY <1>1, OneTied

LEMMA DeliverFamily ==
    ASSUME Family, NEW p \in Tasks, Deliver(p)
    PROVE  Family' /\ (Heard => Heard')
<1> DEFINE sig == Lowest(ts[p].signal)
           v == ts[p].signal \ {sig}
           s == [ts[p] EXCEPT !.signal = v]
           taken == [ts EXCEPT ![p].signal = v]
           a == [s EXCEPT !.state = "stopped"]
           b == [a EXCEPT !.exit_code = SIGSTOP]
           halted == [taken EXCEPT ![p].state = "stopped", ![p].exit_code = SIGSTOP]
<1>1. /\ Typed(ts) /\ spaces \subseteq Slots /\ local \in [Tasks -> Locals]
      /\ pc \in [Tasks -> PCs] /\ p \in All /\ ts[p] \in TaskStruct
  BY AllThere DEF Family, TypeOK, Typed, All, PCs
<1>2. /\ pc[p] = "user" /\ ts[p].signal # {} /\ ts[p].signal \subseteq Signals
      /\ ts[p].state # "zombie"
      /\ UNCHANGED <<task, last_pid, nr, use, shell, tty, panicked>>
  BY <1>1 DEF Deliver, TaskStruct
<1>3. sig \in ts[p].signal /\ sig \in Signals /\ sig \in Nat
  <2>1. ts[p].signal \subseteq Nat
    BY <1>2 DEF Signals, SIGHUP, SIGKILL, SIGCHLD, SIGCONT, SIGSTOP
  <2>2. sig \in ts[p].signal
    BY <1>2, <2>1, LowestIn
  <2> QED  BY <1>2, <2>1, <2>2
<1>4. p = InitTask => sig = SIGCHLD
  BY <1>3 DEF Family, Crew
<1> HIDE DEF sig
<1>5. s \in TaskStruct /\ Fit(ts[p], s, p, p)
  <2>1. v \subseteq ts[p].signal /\ v \in SUBSET Signals
    BY <1>2
  <2> HIDE DEF v
  <2> QED  BY <1>1, <2>1, FieldFit
<1>6. s.state = ts[p].state
  BY <1>1 DEF TaskStruct
<1>7. taken = [x \in All |-> IF x = p THEN s ELSE ts[x]] /\ taken = [ts EXCEPT ![p] = s]
  BY <1>1 DEF Typed
<1>8. Deliver(p) =>
      \/ /\ sig \in {SIGCHLD, SIGCONT} /\ ts' = taken
         /\ UNCHANGED <<spaces, pc, local>>
      \/ /\ sig = SIGSTOP /\ ts' = Told(halted, ts[p].p_pptr)
         /\ UNCHANGED <<spaces, pc, local>>
      \/ /\ sig \in {SIGHUP, SIGKILL} /\ ts' = taken
         /\ spaces' = FreedTables(p)
         /\ pc' = [pc EXCEPT ![p] = "exit"] /\ local' = [local EXCEPT ![p].n = sig]
  BY DEF Deliver, sig
<1> HIDE DEF s, taken
<1>9. Tied(ts, taken, p)
  BY <1>1, <1>5, <1>7, OneTied
<1>10. CASE sig \in {SIGCHLD, SIGCONT} /\ ts' = taken /\ UNCHANGED <<spaces, pc, local>>
  <2>1. ts'[p].state # "zombie"
    BY <1>1, <1>2, <1>6, <1>7, <1>10
  <2>2. Crew' /\ Rooted(ts, Linkable)' /\ Typed(ts') /\ (Heard => Heard')
    BY <1>2, <1>9, <1>10, <2>1, Quiet
  <2> QED  BY <1>2, <1>10, <2>2 DEF Family, TypeOK, Typed, All
<1>11. CASE sig = SIGSTOP /\ ts' = Told(halted, ts[p].p_pptr) /\ UNCHANGED <<spaces, pc, local>>
  <2>1. p # InitTask /\ ts[p].p_pptr \in All
    <3>1. p # InitTask
      BY <1>4, <1>11 DEF SIGSTOP, SIGCHLD
    <3>2. p \in Linkable
      BY <1>2, <3>1 DEF Linkable, Tasks
    <3>3. ts[p].p_pptr \in Linkable \cup {InitTask}
      BY <3>2 DEF Family, Rooted, Lined
    <3> QED  BY <3>1, <3>3, AllThere DEF Linkable
  <2>2. a \in TaskStruct /\ Fit(s, a, p, p)
    BY <1>5, FieldFit DEF States
  <2> HIDE DEF a
  <2>3. b \in TaskStruct /\ Fit(a, b, p, p)
    BY <2>2, FieldFit DEF SIGSTOP
  <2>4. b.state = "stopped"
    BY <1>5, <2>2 DEF TaskStruct, a
  <2>5. Fit(ts[p], b, p, p)
    BY <1>5, <2>2, <2>3, FitChain
  <2>6. halted = [x \in All |-> IF x = p THEN b ELSE ts[x]]
    <3>1. taken \in [All -> TaskStruct] /\ taken[p] = s /\ \A x \in All \ {p} : taken[x] = ts[x]
      BY <1>1, <1>7, <1>9 DEF Tied, Typed
    <3> QED  BY <3>1 DEF a, b
  <2> HIDE DEF b, halted
  <2>7. Tied(ts, halted, p)
    BY <1>1, <2>3, <2>5, <2>6, OneTied
  <2>8. Typed(halted) /\ halted[p].state = "stopped" /\ halted[p] \in TaskStruct
    BY <1>1, <2>3, <2>4, <2>6, <2>7 DEF Tied
  <2>9. Tied(halted, ts', p)
    BY <1>11, <2>1, <2>8, ToldTied
  <2>10. ts'[p].state # "zombie"
    BY <1>1, <1>11, <2>8 DEF Told, Typed, TaskStruct
  <2>11. Tied(ts, ts', p)
    BY <2>7, <2>9, TiedChain
  <2>12. Crew' /\ Rooted(ts, Linkable)' /\ Typed(ts') /\ (Heard => Heard')
    BY <1>2, <1>11, <2>10, <2>11, Quiet
  <2> QED  BY <1>2, <1>11, <2>12 DEF Family, TypeOK, Typed, All
<1>12. CASE /\ sig \in {SIGHUP, SIGKILL} /\ ts' = taken /\ spaces' = FreedTables(p)
            /\ pc' = [pc EXCEPT ![p] = "exit"] /\ local' = [local EXCEPT ![p].n = sig]
  <2>1. ts'[p].state # "zombie"
    BY <1>1, <1>2, <1>6, <1>7, <1>12
  <2>2. p # InitTask
    BY <1>4, <1>12 DEF SIGHUP, SIGKILL, SIGCHLD
  <2>3. pc'[p] = "exit" /\ \A x \in Tasks \ {p} : pc'[x] = pc[x] /\ local'[x] = local[x]
    BY <1>1, <1>12
  <2>4. Crew' /\ Rooted(ts, Linkable)' /\ Typed(ts') /\ (Heard => Heard')
    BY <1>2, <1>9, <1>12, <2>1, <2>2, <2>3, Quiet
  <2>5. /\ local' \in [Tasks -> Locals] /\ pc' \in [Tasks -> PCs] /\ spaces' \subseteq Slots
    BY <1>1, <1>3, <1>12 DEF Locals, PCs, FreedTables
  <2> QED  BY <1>2, <2>4, <2>5 DEF Family, TypeOK, Typed, All, PCs
<1> QED  BY <1>8, <1>10, <1>11, <1>12

LEMMA SetpgidFamily ==
    ASSUME Family, NEW p \in Tasks, NEW q \in Tasks, NEW pgid \in 1..MaxPid, Setpgid(p, q, pgid)
    PROVE  Family' /\ (Heard /\ 0 \notin Waits => Heard')
<1> DEFINE s == [ts[q] EXCEPT !.pgrp = pgid]
<1>1. Typed(ts) /\ q \in All /\ ts[q] \in TaskStruct /\ pgid \in Pids
  BY AllThere, NumbersAssumption DEF Family, TypeOK, Typed, All, Pids
<1>2. q # InitTask
  BY AllThere DEF Setpgid, Family, Crew
<1>3. /\ pc[p] = "user" /\ UNCHANGED <<task, last_pid, spaces, nr, pc, local, use, shell, tty>>
      /\ ts' = [ts EXCEPT ![q] = s]
  BY DEF Setpgid, Enters
<1>4. s \in TaskStruct /\ Fit(ts[q], s, q, q)
  BY <1>1, <1>2, FieldFit
<1>5. Tied(ts, ts', q) /\ ts'[q].state = ts[q].state
  <2>1. s.state = ts[q].state
    BY <1>1 DEF TaskStruct
  <2> HIDE DEF s
  <2>2. ts'[q] = s
    BY <1>1, <1>3 DEF Typed
  <2> QED  BY <1>1, <1>3, <1>4, <2>1, <2>2, OneField
<1>6. Crew' /\ Rooted(ts, Linkable)' /\ Typed(ts')
  BY <1>3, <1>5, Quiet
<1>7. panicked' = panicked
  BY DEF Setpgid
<1>8. ASSUME Heard, 0 \notin Waits PROVE Heard'
  <2>1. /\ Linkable' = Linkable /\ Linkable \subseteq All /\ Linkable \subseteq Tasks
        /\ InitTask \in All /\ InitTask \in Tasks
    BY <1>3, AllThere DEF Linkable
  <2>2. \A x \in All : /\ ts'[x].p_pptr = ts[x].p_pptr /\ ts'[x].pid = ts[x].pid
                       /\ ts'[x].signal = ts[x].signal /\ ts'[x].state = ts[x].state
                       /\ x # q => ts'[x].pgrp = ts[x].pgrp
    <3>1. /\ s.p_pptr = ts[q].p_pptr /\ s.pid = ts[q].pid /\ s.signal = ts[q].signal
          /\ s.state = ts[q].state
      BY <1>1 DEF TaskStruct
    <3> HIDE DEF s
    <3>2. ts' = [x \in All |-> IF x = q THEN s ELSE ts[x]]
      BY <1>1, <1>3 DEF Typed
    <3> QED  BY <3>1, <3>2
  <2>3. ts[p].state # "zombie" /\ (q = p \/ ts[q].p_pptr = p)
    BY DEF Setpgid, Enters
  <2>4. ASSUME NEW x \in Linkable \cup {InitTask}, pc[x] = "wait"
        PROVE  /\ local[x].w # 0
               /\ ts[q].state = "zombie" => ts[q].p_pptr # x
    BY <1>3, <1>8, <2>3, <2>4 DEF Heard
  <2>5. ASSUME NEW x \in Linkable' \cup {InitTask}, pc'[x] = "wait"
        PROVE  /\ x \in Linkable \cup {InitTask} /\ pc[x] = "wait" /\ local'[x] = local[x]
               /\ SIGCHLD \in ts[x].signal => SIGCHLD \in ts'[x].signal
               /\ local[x].w = 0 => ts'[x].pgrp = ts[x].pgrp
               /\ \A r \in Linkable' : ts'[r].p_pptr = x /\ ts'[r].state = "zombie" =>
                   /\ r \in Linkable /\ ts[r].p_pptr = x /\ ts[r].state = "zombie"
                   /\ ts'[r].pgrp = ts[r].pgrp /\ ts'[r].pid = ts[r].pid
    BY <1>3, <2>1, <2>2, <2>4, <2>5
  <2> QED  BY <1>8, <2>5, HeardStep
<1> QED  BY <1>3, <1>6, <1>7, <1>8 DEF Family, TypeOK, Typed, All

LEMMA SetsidFamily ==
    ASSUME Family, NEW p \in Tasks, Setsid(p)
    PROVE  Family' /\ (Heard => Heard')
<1> DEFINE pid == ts[p].pid
           a == [ts[p] EXCEPT !.leader = TRUE]
           b == [a EXCEPT !.session = pid]
           c == [b EXCEPT !.pgrp = pid]
           d == [c EXCEPT !.tty = FALSE]
<1>1. Typed(ts) /\ p \in All /\ ts[p] \in TaskStruct /\ pid \in Pids
  BY AllThere DEF Family, TypeOK, Typed, All, TaskStruct
<1>2. /\ pc[p] = "user" /\ p # InitTask
      /\ UNCHANGED <<task, last_pid, spaces, nr, pc, local, use, shell, tty, panicked>>
      /\ ts' = [ts EXCEPT ![p] = d]
  <2>1. ts' = [ts EXCEPT ![p].leader = TRUE, ![p].session = ts[p].pid,
                         ![p].pgrp = ts[p].pid, ![p].tty = FALSE]
    BY DEF Setsid
  <2>2. ts' = [ts EXCEPT ![p] = d]
    BY <1>1, <2>1 DEF Typed
  <2> QED  BY <2>2 DEF Setsid, Enters
<1> HIDE DEF pid
<1>3. a \in TaskStruct /\ Fit(ts[p], a, p, p) /\ a.state = ts[p].state
  <2>1. a.state = ts[p].state
    BY <1>1 DEF TaskStruct
  <2> QED  BY <1>1, <2>1, FieldFit
<1> HIDE DEF a
<1>4. b \in TaskStruct /\ Fit(a, b, p, p) /\ b.state = a.state
  <2>1. b.state = a.state
    BY <1>3 DEF TaskStruct
  <2> QED  BY <1>1, <1>3, <2>1, FieldFit
<1> HIDE DEF b
<1>5. c \in TaskStruct /\ Fit(b, c, p, p) /\ c.state = b.state
  <2>1. c.state = b.state
    BY <1>4 DEF TaskStruct
  <2> QED  BY <1>1, <1>2, <1>4, <2>1, FieldFit
<1> HIDE DEF c
<1>6. d \in TaskStruct /\ Fit(c, d, p, p) /\ d.state = c.state
  <2>1. d.state = c.state
    BY <1>5 DEF TaskStruct
  <2> QED  BY <1>5, <2>1, FieldFit
<1> HIDE DEF d
<1>7. Tied(ts, ts', p) /\ ts'[p].state = ts[p].state
  <2>1. Fit(ts[p], d, p, p)
    BY <1>3, <1>4, <1>5, <1>6, FitChain
  <2>2. ts'[p] = d
    BY <1>1, <1>2 DEF Typed
  <2> QED  BY <1>1, <1>2, <1>3, <1>4, <1>5, <1>6, <2>1, <2>2, OneField
<1>8. Crew' /\ Rooted(ts, Linkable)' /\ Typed(ts') /\ (Heard => Heard')
  BY <1>2, <1>7, Quiet
<1> QED  BY <1>2, <1>8 DEF Family, TypeOK, Typed, All

LEMMA OpenTtyFamily ==
    ASSUME Family, NEW p \in Tasks, OpenTty(p)
    PROVE  Family' /\ (Heard => Heard')
<1> DEFINE s == [ts[p] EXCEPT !.tty = TRUE]
<1>1. Typed(ts) /\ p \in All /\ ts[p] \in TaskStruct
  BY AllThere DEF Family, TypeOK, Typed, All
<1>2. /\ pc[p] = "user" /\ UNCHANGED <<task, last_pid, spaces, nr, pc, local, use, shell, panicked>>
      /\ ts' = [ts EXCEPT ![p] = s] /\ tty' \in [session : Pids, pgrp : Pids]
  <2>1. ts[p].session \in Pids /\ ts[p].pgrp \in Pids
    BY <1>1 DEF TaskStruct
  <2> QED  BY <2>1 DEF OpenTty, Enters
<1>3. s \in TaskStruct /\ Fit(ts[p], s, p, p)
  BY <1>1, FieldFit
<1>4. Tied(ts, ts', p) /\ ts'[p].state = ts[p].state
  <2>1. s.state = ts[p].state
    BY <1>1 DEF TaskStruct
  <2> HIDE DEF s
  <2>2. ts'[p] = s
    BY <1>1, <1>2 DEF Typed
  <2> QED  BY <1>1, <1>2, <1>3, <2>1, <2>2, OneField
<1>5. Crew' /\ Rooted(ts, Linkable)' /\ Typed(ts') /\ (Heard => Heard')
  BY <1>2, <1>4, Quiet
<1> QED  BY <1>2, <1>5 DEF Family, TypeOK, Typed, All

LEMMA ForegroundFamily ==
    ASSUME Family, NEW p \in Tasks, NEW pgrp \in 1..MaxPid, SetForeground(p, pgrp)
    PROVE  Family' /\ (Heard => Heard')
<1>1. Typed(ts)
  BY DEF Family, TypeOK, Typed, All
<1>2. /\ pc[p] = "user"
      /\ UNCHANGED <<task, ts, last_pid, spaces, nr, pc, local, use, shell, panicked>>
      /\ tty' \in [session : Pids, pgrp : Pids]
  BY NumbersAssumption DEF SetForeground, Enters, Family, TypeOK, Pids
<1>3. Tied(ts, ts', p)
  BY <1>1, <1>2, TiedSame
<1>4. Crew' /\ Rooted(ts, Linkable)' /\ Typed(ts') /\ (Heard => Heard')
  BY <1>2, <1>3, Quiet
<1> QED  BY <1>2, <1>4 DEF Family, TypeOK, Typed, All

LEMMA NoLocalsIn == NoLocals \in Locals
  BY DEF NoLocals, Locals

\* fork() without a child, or that sleeps in get_free_page().
LEMMA ChildlessFamily ==
    ASSUME Family, NEW p \in Tasks, pc[p] \in {"user", "page"}, last_pid' \in Pids,
           UNCHANGED <<use, tty>>,
           \/ Failed(p)
           \/ /\ pc' = [pc EXCEPT ![p] = "page"]
              /\ \E n \in Slots : local' = [local EXCEPT ![p].n = n]
              /\ UNCHANGED <<task, ts, spaces, nr, shell, panicked>>
    PROVE  Family' /\ (Heard => Heard')
<1>1. Typed(ts) /\ local \in [Tasks -> Locals] /\ pc \in [Tasks -> PCs]
  BY DEF Family, TypeOK, Typed, All, PCs
<1>2. UNCHANGED <<task, ts, spaces, nr, shell, panicked, use, tty>>
  BY DEF Failed
<1>3. Tied(ts, ts', p)
  BY <1>1, <1>2, TiedSame
<1>4. /\ local' \in [Tasks -> Locals] /\ pc' \in [Tasks -> PCs]
      /\ \A x \in Tasks \ {p} : pc'[x] = pc[x] /\ local'[x] = local[x]
      /\ pc'[p] \in {"user", "page"} /\ (pc'[p] = "page" => local'[p].n \in Slots)
  <2>1. CASE Failed(p)
    BY <1>1, <2>1, NoLocalsIn DEF Failed, PCs
  <2>2. CASE pc' = [pc EXCEPT ![p] = "page"] /\ \E n \in Slots : local' = [local EXCEPT ![p].n = n]
    BY <1>1, <2>2, SlotsAssumption DEF PCs, Locals
  <2> QED  BY <2>1, <2>2
<1>5. Crew' /\ Rooted(ts, Linkable)' /\ Typed(ts') /\ (Heard => Heard')
  BY <1>2, <1>3, <1>4, Quiet
<1> QED  BY <1>2, <1>4, <1>5 DEF Family, TypeOK, Typed, All, PCs

----------------------------------------------------------------------------
(* Steps of p that make or free the page q.                                *)

LEMMA CrewMoves ==
    ASSUME Family, NEW p \in Tasks, pc[p] \in {"user", "page", "copy", "wait"},
           NEW q \in Pages, q # p,
           pc'[p] \in {"user", "page", "copy"}, pc'[q] \in {"user", "new", "free"},
           \A x \in Tasks : /\ x \notin {p, q} => pc'[x] = pc[x]
                            /\ x # p => local'[x] = local[x],
           pc'[p] \in {"page", "copy"} => local'[p].n \in Slots,
           pc'[p] = "copy" => local'[p].q = q /\ pc'[q] = "new" /\ pc[q] # "new",
           pc[q] = "new" => pc[p] = "copy" /\ local[p].q = q,
           ts'[InitTask].p_pptr = ts[InitTask].p_pptr,
           ts'[InitTask].pgrp = ts[InitTask].pgrp, ts'[InitTask].signal \subseteq {SIGCHLD},
           ts'[InitTask].pid = ts[InitTask].pid,
           \A x \in Linkable \cup {InitTask} :
               x # q /\ ts'[x].state = "zombie" => ts[x].state = "zombie",
           pc'[q] = "user" => ts'[q].state # "zombie"
    PROVE  Crew' /\ Linkable' = IF pc'[q] = "user" THEN Linkable \cup {q} ELSE Linkable \ {q}
<1>1. /\ q \in Tasks
      /\ InitTask \in Tasks /\ q # InitTask /\ Linkable \subseteq Tasks /\ Pages \subseteq Tasks
  BY AllThere, TasksAssumption DEF Linkable
<1>3. Linkable' = IF pc'[q] = "user" THEN Linkable \cup {q} ELSE Linkable \ {q}
  BY <1>1 DEF Linkable
<1>4. Crew'
  <2>1. pc'[InitTask] \in {"user", "page", "copy", "wait"}
    BY <1>1 DEF Family, Crew
  <2>2. ASSUME NEW x \in Linkable' \cup {InitTask}, ts'[x].state = "zombie" PROVE pc'[x] = "dead"
    <3>1. x # q
      BY <1>1, <1>3, <2>2
    <3>2. x \in Linkable \cup {InitTask}
      BY <1>3, <3>1
    <3>3. pc[x] = "dead"
      BY <2>2, <3>1, <3>2 DEF Family, Crew
    <3> QED  BY <1>1, <3>1, <3>2, <3>3
  <2>3. \A x \in Tasks : pc'[x] \in {"page", "copy"} => local'[x].n \in Slots
    BY <1>1 DEF Family, Crew
  <2>4. ASSUME NEW x \in Tasks, x # p, pc'[x] = "copy"
        PROVE  /\ pc[x] = "copy" /\ local'[x] = local[x] /\ local[x].q \in Pages
               /\ local[x].q # q /\ pc'[local[x].q] = "new"
    <3>1. pc[x] = "copy" /\ local'[x] = local[x]
      BY <2>4
    <3>2. local[x].q \in Pages /\ pc[local[x].q] = "new"
      BY <3>1 DEF Family, Crew
    <3>3. local[x].q # q
      BY <2>4, <3>1, <3>2 DEF Family, Crew
    <3> QED  BY <1>1, <3>1, <3>2, <3>3
  <2>5. \A x \in Tasks : pc'[x] = "copy" => local'[x].q \in Pages /\ pc'[local'[x].q] = "new"
    BY <2>4
  <2>6. ASSUME NEW x \in Tasks, NEW y \in Tasks, pc'[x] = "copy", pc'[y] = "copy",
               local'[x].q = local'[y].q
        PROVE  x = y
    BY <2>4, <2>6 DEF Family, Crew
  <2> QED  BY <2>1, <2>2, <2>3, <2>5, <2>6 DEF Family, Crew
<1> QED  BY <1>3, <1>4

LEMMA HeardMoves ==
    ASSUME Heard, NEW p \in Tasks, NEW q \in Pages,
           Linkable' \subseteq Linkable \cup {q}, pc'[p] # "wait", pc'[q] # "wait",
           \A x \in Tasks : /\ x \notin {p, q} => pc'[x] = pc[x]
                            /\ x # p => local'[x] = local[x],
           q \in Linkable' => ts'[q].state # "zombie",
           \A x \in Linkable \cup {InitTask} : x # q =>
               /\ ts'[x].p_pptr = ts[x].p_pptr /\ ts'[x].pid = ts[x].pid
               /\ ts'[x].state = "zombie" => ts[x].state = "zombie"
               /\ x # p => ts'[x].pgrp = ts[x].pgrp
               /\ x # p /\ SIGCHLD \in ts[x].signal => SIGCHLD \in ts'[x].signal,
           ts'[p].state = "zombie" => ts'[p].pgrp = ts[p].pgrp
    PROVE  Heard'
<1>1. Linkable \subseteq Tasks /\ InitTask \in Tasks /\ q \in Tasks
  BY AllThere DEF Linkable
<1>2. ASSUME NEW y \in Linkable', ts'[y].state = "zombie"
      PROVE  /\ y \in Linkable /\ ts'[y].p_pptr = ts[y].p_pptr /\ ts[y].state = "zombie"
             /\ ts'[y].pgrp = ts[y].pgrp /\ ts'[y].pid = ts[y].pid
  BY <1>2
<1>3. ASSUME NEW x \in Linkable' \cup {InitTask}, pc'[x] = "wait"
      PROVE  /\ x \in Linkable \cup {InitTask} /\ pc[x] = "wait" /\ local'[x] = local[x]
             /\ SIGCHLD \in ts[x].signal => SIGCHLD \in ts'[x].signal
             /\ ts'[x].pgrp = ts[x].pgrp
  BY <1>1, <1>3
<1> QED  BY <1>2, <1>3, HeardStep

LEMMA CopyFamily ==
    ASSUME Family, NEW p \in Tasks, pc[p] \in {"user", "page"}, NEW n \in Slots,
           NEW pid \in Pids, CopyProcess(p, n, pid),
           pc[p] = "page" => local[p].n \in Slots,
           last_pid' \in Pids, UNCHANGED <<use, tty>>
    PROVE  Family' /\ (Heard => Heard')
<1>1. PICK q \in Pages :
        /\ pc[q] = "free" /\ task' = [task EXCEPT ![n] = q] /\ nr' = [nr EXCEPT ![q] = n]
        /\ LET T == [ts EXCEPT ![q] = Embryo(p, pid)] IN
           \/ /\ panicked' = TRUE /\ ts' = T /\ pc' = [pc EXCEPT ![q] = "new"]
              /\ UNCHANGED <<spaces, local, shell>>
           \/ /\ ts' = Linked(T, p, q) /\ spaces' = spaces \cup {n}
              /\ pc' = [pc EXCEPT ![p] = "user", ![q] = "user"]
              /\ local' = [local EXCEPT ![p] = NoLocals]
              /\ Returns(p, pid) /\ UNCHANGED panicked
           \/ /\ ts' = T /\ spaces' = spaces \cup {n}
              /\ pc' = [pc EXCEPT ![p] = "copy", ![q] = "new"]
              /\ local' = [local EXCEPT ![p] = [NoLocals EXCEPT !.n = n, !.q = q]]
              /\ UNCHANGED <<shell, panicked>>
  BY DEF CopyProcess
<1> DEFINE e == Embryo(p, pid)
           T == [ts EXCEPT ![q] = e]
           L == Linkable
<1>2. /\ Typed(ts) /\ task \in [Slots \cup {1} -> Tasks \cup {Null}] /\ nr \in [Tasks -> Slots \cup {1}]
      /\ local \in [Tasks -> Locals] /\ pc \in [Tasks -> PCs] /\ spaces \subseteq Slots
      /\ shell \in Pids /\ panicked \in BOOLEAN /\ 0 \in Pids
  BY NumbersAssumption DEF Family, TypeOK, Typed, All, PCs, Pids
<1>3. /\ p \in All /\ q \in All /\ q \in Tasks /\ InitTask \in All /\ q # InitTask /\ q # p
      /\ L \subseteq All /\ q \notin L /\ L \subseteq Pages /\ p \in L \cup {InitTask}
      /\ InitTask \notin L
  BY <1>1, AllThere, TasksAssumption DEF Linkable, Tasks
<1>4. Rooted(ts, L) /\ ts[InitTask].signal \subseteq {SIGCHLD}
      /\ (p # InitTask => ts[p].state # "zombie")
  BY <1>3 DEF Family, Crew
<1>5. e \in TaskStruct /\ e.state # "zombie"
  <2>1. ts[p] \in TaskStruct
    BY <1>2, <1>3 DEF Typed
  <2> QED  BY ONLY <2>1, pid \in Pids DEF Embryo, TaskStruct, States
<1> HIDE DEF e
<1>6. Typed(T) /\ T[q] = e /\ \A x \in All \ {q} : T[x] = ts[x]
  BY <1>2, <1>3, <1>5 DEF Typed
<1>7. task' \in [Slots \cup {1} -> Tasks \cup {Null}] /\ nr' \in [Tasks -> Slots \cup {1}]
      /\ spaces \cup {n} \subseteq Slots
  BY <1>1, <1>2, <1>3
<1>8. \/ /\ panicked' = TRUE /\ ts' = T /\ pc' = [pc EXCEPT ![q] = "new"]
         /\ UNCHANGED <<spaces, local, shell>>
      \/ /\ ts' = Linked(T, p, q) /\ spaces' = spaces \cup {n}
         /\ pc' = [pc EXCEPT ![p] = "user", ![q] = "user"]
         /\ local' = [local EXCEPT ![p] = NoLocals]
         /\ Returns(p, pid) /\ UNCHANGED panicked
      \/ /\ ts' = T /\ spaces' = spaces \cup {n}
         /\ pc' = [pc EXCEPT ![p] = "copy", ![q] = "new"]
         /\ local' = [local EXCEPT ![p] = [NoLocals EXCEPT !.n = n, !.q = q]]
         /\ UNCHANGED <<shell, panicked>>
  BY <1>1 DEF e
<1> HIDE DEF T
<1>9. Rooted(T, L)
  <2>1. Alike(ts, T, L \cup {InitTask})
    BY <1>3, <1>6 DEF Alike
  <2> QED  BY <1>4, <2>1, RootedAlike
<1>10. CASE /\ panicked' = TRUE /\ ts' = T /\ pc' = [pc EXCEPT ![q] = "new"]
            /\ UNCHANGED <<spaces, local, shell>>
  <2>1. /\ pc' \in [Tasks -> PCs] /\ pc'[p] = pc[p] /\ pc'[q] = "new" /\ local' = local
        /\ \A x \in Tasks \ {p, q} : pc'[x] = pc[x]
    BY <1>2, <1>3, <1>10 DEF PCs
  <2>2. \A x \in All \ {q} : ts'[x] = ts[x]
    BY <1>6, <1>10
  <2>3. Crew' /\ Linkable' = L \ {q}
    BY <1>1, <1>3, <1>4, <2>1, <2>2, CrewMoves
  <2>4. Rooted(ts', Linkable')
    BY <1>3, <1>9, <1>10, <2>3
  <2>5. Heard => Heard'
    <3>1. /\ pc'[p] # "wait" /\ Linkable' \subseteq L \cup {q} /\ q \notin Linkable'
          /\ \A x \in L \cup {InitTask} : x # q => ts'[x] = ts[x]
      BY <1>1, <1>3, <2>1, <2>2, <2>3
    <3>2. \A x \in Tasks : /\ x \notin {p, q} => pc'[x] = pc[x]
                           /\ x # p => local'[x] = local[x]
      BY <2>1
    <3>3. ts'[p].pgrp = ts[p].pgrp
      BY <1>3, <2>2
    <3> QED  BY <2>1, <3>1, <3>2, <3>3, HeardMoves
  <2> QED  BY <1>2, <1>6, <1>7, <1>10, <2>1, <2>3, <2>4, <2>5 DEF Family, TypeOK, Typed, All, PCs
<1>11. CASE /\ ts' = Linked(T, p, q) /\ spaces' = spaces \cup {n}
            /\ pc' = [pc EXCEPT ![p] = "user", ![q] = "user"]
            /\ local' = [local EXCEPT ![p] = NoLocals]
            /\ Returns(p, pid) /\ UNCHANGED panicked
  <2>1. T[p].p_cptr # q
    BY <1>3, <1>9, AllThere DEF Rooted, Lined
  <2>2. /\ Typed(ts')
        /\ \A x \in All : /\ ts'[x].p_pptr = IF x = q THEN p ELSE T[x].p_pptr
                          /\ ts'[x].state = IF x = q THEN "running" ELSE T[x].state
                          /\ SameRest(ts'[x], T[x])
    BY <1>3, <1>6, <1>11, <2>1, LinkedIs
  <2>3. /\ \A x \in All \ {q} : /\ ts'[x].p_pptr = ts[x].p_pptr /\ ts'[x].state = ts[x].state
                                /\ ts'[x].pgrp = ts[x].pgrp /\ ts'[x].signal = ts[x].signal
                                /\ ts'[x].pid = ts[x].pid
        /\ ts'[q].state = "running"
    BY <1>3, <1>6, <2>2 DEF SameRest
  <2>7. /\ pc' \in [Tasks -> PCs] /\ pc'[p] = "user" /\ pc'[q] = "user"
        /\ local' \in [Tasks -> Locals]
        /\ \A x \in Tasks : /\ x \notin {p, q} => pc'[x] = pc[x]
                            /\ x # p => local'[x] = local[x]
    BY <1>2, <1>3, <1>11, NoLocalsIn DEF PCs
  <2>8. /\ ts'[InitTask].p_pptr = ts[InitTask].p_pptr /\ ts'[InitTask].pgrp = ts[InitTask].pgrp
        /\ ts'[InitTask].signal \subseteq {SIGCHLD} /\ ts'[InitTask].pid = ts[InitTask].pid
        /\ \A x \in L \cup {InitTask} :
               x # q /\ ts'[x].state = "zombie" => ts[x].state = "zombie"
    BY <1>3, <1>4, <2>3
  <2>4. Crew' /\ Linkable' = L \cup {q}
    BY <1>1, <2>3, <2>7, <2>8, <1>3, CrewMoves
  <2>5. Rooted(ts', Linkable')
    <3>1. p # InitTask => T[p].state # "zombie"
      BY <1>3, <1>4, <1>6
    <3> HIDE DEF L
    <3> QED  BY <1>3, <1>6, <1>9, <1>11, <2>4, <3>1, LinkedRooted
  <2>6. shell' \in Pids
    BY <1>2, <1>11 DEF Returns
  <2>9. Heard => Heard'
    <3>1. \A x \in L \cup {InitTask} : x # q =>
              /\ ts'[x].p_pptr = ts[x].p_pptr /\ ts'[x].pid = ts[x].pid
              /\ ts'[x].state = ts[x].state /\ ts'[x].pgrp = ts[x].pgrp
              /\ ts'[x].signal = ts[x].signal
      BY <1>3, <1>6, <2>2 DEF SameRest
    <3>2. ts'[p].pgrp = ts[p].pgrp
      BY <1>3, <2>3
    <3>3. Linkable' \subseteq L \cup {q} /\ ts'[q].state # "zombie"
      BY <2>3, <2>4
    <3> QED  BY <2>7, <3>1, <3>2, <3>3, HeardMoves
  <2> QED  BY <1>2, <1>7, <1>11, <2>2, <2>4, <2>5, <2>6, <2>7, <2>9 DEF Family, TypeOK, Typed, All, PCs
<1>12. CASE /\ ts' = T /\ spaces' = spaces \cup {n}
            /\ pc' = [pc EXCEPT ![p] = "copy", ![q] = "new"]
            /\ local' = [local EXCEPT ![p] = [NoLocals EXCEPT !.n = n, !.q = q]]
            /\ UNCHANGED <<shell, panicked>>
  <2> DEFINE l == [NoLocals EXCEPT !.n = n, !.q = q]
  <2>1. l \in Locals /\ l.n = n /\ l.q = q
    <3> DEFINE z == NoLocals
               m == [z EXCEPT !.n = n]
               k == [m EXCEPT !.q = q]
    <3>1. z \in Locals /\ n \in Nat
      BY NoLocalsIn, SlotsAssumption
    <3>2. l = k
      BY DEF NoLocals
    <3> HIDE DEF z, l
    <3>3. m \in Locals /\ m.n = n
      BY <3>1 DEF Locals
    <3> HIDE DEF m
    <3>4. k \in Locals /\ k.n = n /\ k.q = q
      BY <3>3 DEF Locals
    <3> QED  BY <3>2, <3>4
  <2>2. local' = [local EXCEPT ![p] = l]
    BY <1>12 DEF l
  <2> HIDE DEF l
  <2>3. /\ pc' \in [Tasks -> PCs] /\ pc'[p] = "copy" /\ pc'[q] = "new"
        /\ local' \in [Tasks -> Locals] /\ local'[p].n = n /\ local'[p].q = q
        /\ \A x \in Tasks : /\ x \notin {p, q} => pc'[x] = pc[x]
                            /\ x # p => local'[x] = local[x]
    BY <1>2, <1>3, <1>12, <2>1, <2>2 DEF PCs
  <2>6. \A x \in All \ {q} : ts'[x] = ts[x]
    BY <1>6, <1>12
  <2>4. Crew' /\ Linkable' = L \ {q}
    BY <1>1, <1>3, <1>4, <2>3, <2>6, CrewMoves
  <2>5. Rooted(ts', Linkable')
    BY <1>3, <1>9, <1>12, <2>4
  <2>7. Heard => Heard'
    <3>1. /\ Linkable' \subseteq L \cup {q} /\ q \notin Linkable'
          /\ \A x \in L \cup {InitTask} : x # q => ts'[x] = ts[x]
      BY <1>3, <2>4, <2>6
    <3>2. ts'[p].pgrp = ts[p].pgrp
      BY <1>3, <2>6
    <3> QED  BY <2>3, <3>1, <3>2, HeardMoves
  <2> QED  BY <1>2, <1>6, <1>7, <1>12, <2>3, <2>4, <2>5, <2>7 DEF Family, TypeOK, Typed, All, PCs
<1> QED  BY <1>8, <1>10, <1>11, <1>12

LEMMA PageCameFamily ==
    ASSUME Family, NEW p \in Tasks, PageCame(p)
    PROVE  Family' /\ (Heard => Heard')
<1>1. pc[p] = "page" /\ UNCHANGED <<last_pid, use, tty>> /\ last_pid \in Pids
  BY DEF PageCame, Family, TypeOK
<1>2. local[p].n \in Slots
  BY <1>1 DEF Family, Crew
<1>3. CASE CopyProcess(p, local[p].n, last_pid)
  BY <1>1, <1>2, <1>3, CopyFamily
<1>4. CASE Failed(p)
  BY <1>1, <1>4, ChildlessFamily
<1> QED  BY <1>3, <1>4 DEF PageCame

LEMMA ForkFamily ==
    ASSUME Family, NEW p \in Tasks, Fork(p)
    PROVE  Family' /\ (Heard => Heard')
<1> DEFINE empty == {n \in Slots : task[n] = Null}
           n == Lowest(empty)
<1>1. /\ pc[p] = "user" /\ UNCHANGED <<use, tty>> /\ last_pid' = NextPid
      /\ \/ Failed(p)
         \/ empty # {} /\ CopyProcess(p, n, NextPid)
         \/ /\ empty # {} /\ pc' = [pc EXCEPT ![p] = "page"]
            /\ local' = [local EXCEPT ![p].n = n]
            /\ UNCHANGED <<task, ts, spaces, nr, shell, panicked>>
  BY DEF Fork, Enters
<1>2. NextPid \in Pids
  BY NextPidIn DEF Family, TypeOK
<1>3. empty # {} => n \in Slots
  <2>1. empty \subseteq Nat /\ empty \subseteq Slots
    BY SlotsAssumption
  <2> HIDE DEF empty
  <2> QED  BY <2>1, LowestIn
<1> HIDE DEF n
<1>4. CASE Failed(p)
  BY <1>1, <1>2, <1>4, ChildlessFamily
<1>5. CASE empty # {} /\ CopyProcess(p, n, NextPid)
  <2> HIDE DEF empty
  <2> QED  BY <1>1, <1>2, <1>3, <1>5, CopyFamily
<1>6. CASE /\ empty # {} /\ pc' = [pc EXCEPT ![p] = "page"]
           /\ local' = [local EXCEPT ![p].n = n]
           /\ UNCHANGED <<task, ts, spaces, nr, shell, panicked>>
  <2> HIDE DEF empty
  <2> QED  BY <1>1, <1>2, <1>3, <1>6, ChildlessFamily
<1> QED  BY <1>1, <1>4, <1>5, <1>6

LEMMA CopyDoneFamily ==
    ASSUME Family, NEW p \in Tasks, CopyDone(p)
    PROVE  Family' /\ (Heard => Heard')
<1> DEFINE q == local[p].q
           n == local[p].n
           L == Linkable
<1>1. /\ pc[p] = "copy" /\ UNCHANGED <<last_pid, nr, use, tty, panicked>>
      /\ \/ /\ ts' = Linked(ts, p, q) /\ pc' = [pc EXCEPT ![p] = "user", ![q] = "user"]
            /\ Returns(p, last_pid) /\ UNCHANGED <<task, spaces>>
         \/ /\ ts' = Freed(ts, q) /\ pc' = [pc EXCEPT ![p] = "user", ![q] = "free"]
            /\ task' = [task EXCEPT ![n] = Null] /\ spaces' = spaces \ {n}
            /\ UNCHANGED shell
      /\ local' = [local EXCEPT ![p] = NoLocals]
  BY DEF CopyDone
<1>2. q \in Pages /\ pc[q] = "new" /\ n \in Slots
  BY <1>1 DEF Family, Crew
<1> HIDE DEF n
<1>3. /\ Typed(ts) /\ task \in [Slots \cup {1} -> Tasks \cup {Null}]
      /\ local \in [Tasks -> Locals] /\ pc \in [Tasks -> PCs] /\ spaces \subseteq Slots
      /\ shell \in Pids /\ last_pid \in Pids
  BY DEF Family, TypeOK, Typed, All, PCs
<1>4. /\ p \in All /\ q \in All /\ q \in Tasks /\ InitTask \in All /\ q # InitTask /\ q # p
      /\ L \subseteq All /\ q \notin L /\ L \subseteq Pages /\ p \in L \cup {InitTask}
      /\ InitTask \notin L
  BY <1>1, <1>2, AllThere, TasksAssumption DEF Linkable, Tasks
<1>5. Rooted(ts, L) /\ ts[InitTask].signal \subseteq {SIGCHLD}
      /\ (p # InitTask => ts[p].state # "zombie")
  BY <1>1, <1>4 DEF Family, Crew
<1>6. /\ pc' \in [Tasks -> PCs] /\ pc'[p] = "user" /\ pc'[q] \in {"user", "free"}
      /\ local' \in [Tasks -> Locals]
      /\ \A x \in Tasks : /\ x \notin {p, q} => pc'[x] = pc[x]
                          /\ x # p => local'[x] = local[x]
  BY <1>1, <1>3, <1>4, NoLocalsIn DEF PCs
<1>7. pc[q] = "new" => pc[p] = "copy" /\ local[p].q = q
  BY <1>1
<1> HIDE DEF q
<1>8. CASE /\ ts' = Linked(ts, p, q) /\ pc' = [pc EXCEPT ![p] = "user", ![q] = "user"]
           /\ Returns(p, last_pid) /\ UNCHANGED <<task, spaces>>
  <2>1. ts[p].p_cptr # q
    BY <1>4, <1>5, AllThere DEF Rooted, Lined
  <2>2. /\ Typed(ts')
        /\ \A x \in All : /\ ts'[x].p_pptr = IF x = q THEN p ELSE ts[x].p_pptr
                          /\ ts'[x].state = IF x = q THEN "running" ELSE ts[x].state
                          /\ SameRest(ts'[x], ts[x])
    BY <1>2, <1>3, <1>4, <1>8, <2>1, LinkedIs
  <2>3. /\ ts'[InitTask].p_pptr = ts[InitTask].p_pptr /\ ts'[InitTask].pgrp = ts[InitTask].pgrp
        /\ ts'[InitTask].signal \subseteq {SIGCHLD} /\ ts'[InitTask].pid = ts[InitTask].pid
        /\ \A x \in L \cup {InitTask} :
               x # q /\ ts'[x].state = "zombie" => ts[x].state = "zombie"
        /\ ts'[q].state # "zombie"
    BY <1>4, <1>5, <2>2 DEF SameRest
  <2>4. pc'[q] = "user"
    BY <1>3, <1>4, <1>8
  <2>5. Crew' /\ Linkable' = L \cup {q}
    BY <1>1, <1>2, <1>4, <1>6, <1>7, <2>3, <2>4, CrewMoves
  <2>6. Rooted(ts', Linkable')
    <3> HIDE DEF L
    <3> QED  BY <1>2, <1>3, <1>4, <1>5, <1>8, <2>5, LinkedRooted
  <2>7. shell' \in Pids
    BY <1>3, <1>8 DEF Returns
  <2>8. Heard => Heard'
    <3>1. \A x \in L \cup {InitTask} : x # q =>
              /\ ts'[x].p_pptr = ts[x].p_pptr /\ ts'[x].pid = ts[x].pid
              /\ ts'[x].state = ts[x].state /\ ts'[x].pgrp = ts[x].pgrp
              /\ ts'[x].signal = ts[x].signal
      BY <1>4, <2>2 DEF SameRest
    <3>2. ts'[p].pgrp = ts[p].pgrp
      BY <1>4, <2>2 DEF SameRest
    <3>3. Linkable' \subseteq L \cup {q} /\ pc'[q] # "wait"
      BY <1>6, <2>5
    <3> QED  BY <1>2, <1>6, <2>3, <3>1, <3>2, <3>3, HeardMoves
  <2> QED  BY <1>1, <1>3, <1>6, <1>8, <2>2, <2>5, <2>6, <2>7, <2>8 DEF Family, TypeOK, Typed, All, PCs
<1>9. CASE /\ ts' = Freed(ts, q) /\ pc' = [pc EXCEPT ![p] = "user", ![q] = "free"]
           /\ task' = [task EXCEPT ![n] = Null] /\ spaces' = spaces \ {n}
           /\ UNCHANGED shell
  <2>1. Typed(ts') /\ \A x \in All \ {q} : ts'[x] = ts[x]
    BY <1>3, <1>9, FreedIs
  <2>2. pc'[q] = "free"
    BY <1>3, <1>4, <1>9
  <2>3. Crew' /\ Linkable' = L \ {q}
    BY <1>1, <1>2, <1>4, <1>5, <1>6, <1>7, <2>1, <2>2, CrewMoves
  <2>4. Rooted(ts', Linkable')
    <3>1. Alike(ts, ts', L \cup {InitTask}) /\ Linkable' = L
      BY <1>4, <2>1, <2>3 DEF Alike
    <3> QED  BY <1>5, <3>1, RootedAlike
  <2>5. task' \in [Slots \cup {1} -> Tasks \cup {Null}] /\ spaces' \subseteq Slots
    BY <1>3, <1>9
  <2>6. Heard => Heard'
    <3>1. /\ Linkable' \subseteq L \cup {q} /\ q \notin Linkable' /\ pc'[q] # "wait"
          /\ \A x \in L \cup {InitTask} : x # q => ts'[x] = ts[x]
      BY <1>4, <1>6, <2>1, <2>3
    <3>2. ts'[p].pgrp = ts[p].pgrp
      BY <1>4, <2>1
    <3> QED  BY <1>2, <1>6, <3>1, <3>2, HeardMoves
  <2> QED  BY <1>1, <1>3, <1>6, <1>9, <2>1, <2>3, <2>4, <2>5, <2>6 DEF Family, TypeOK, Typed, All, PCs
<1> QED  BY <1>1, <1>8, <1>9

LEMMA DieFamily ==
    ASSUME Family, NEW p \in Tasks, Die(p)
    PROVE  Family' /\ panicked' = panicked /\ (Heard => Heard')
<1> DEFINE V == Orphans(Zombie(p), p)
           W == Spliced(V, p)
           L == Linkable
<1>1. /\ pc[p] = "exit" /\ UNCHANGED <<task, last_pid, spaces, nr, use, shell>>
      /\ IF Kids(V, p) # <<>> /\ V[InitTask].p_cptr = Null
         THEN panicked' = TRUE /\ UNCHANGED <<ts, tty, pc, local>>
         ELSE /\ ts' = LeaderGone(W, p)
              /\ tty' = IF ts[p].leader /\ ts[p].tty THEN [session |-> 0, pgrp |-> 0] ELSE tty
              /\ pc' = [pc EXCEPT ![p] = "dead"]
              /\ local' = [local EXCEPT ![p] = NoLocals]
              /\ UNCHANGED panicked
  BY DEF Die
<1>2. /\ Typed(ts) /\ local \in [Tasks -> Locals] /\ pc \in [Tasks -> PCs] /\ 0 \in Pids
      /\ tty \in [session : Pids, pgrp : Pids]
  BY NumbersAssumption DEF Family, TypeOK, Typed, All, PCs, Pids
<1>3. /\ p \in L /\ p # InitTask /\ L \subseteq Pages /\ L \subseteq All /\ InitTask \in All
      /\ local[p].n \in Nat /\ InitTask \notin L /\ L \subseteq Tasks /\ InitTask \in Tasks
  <2>1. p # InitTask
    BY <1>1 DEF Family, Crew
  <2>2. p \in Pages
    BY <2>1 DEF Tasks
  <2> QED  BY <1>1, <1>2, <2>1, <2>2, AllThere, TasksAssumption DEF Linkable, Locals
<1>4. /\ Kids(V, p) # <<>> => V[InitTask].p_cptr # Null
      /\ Typed(V) /\ Kin(ts, W, p) /\ Rooted(W, L)
      /\ ts[p].p_pptr # p /\ SIGCHLD \in W[ts[p].p_pptr].signal
      /\ \A x \in L : ts[x].p_pptr = p /\ W[x].state = "zombie" => SIGCHLD \in W[InitTask].signal
      /\ \A x \in L : ts[x].p_pptr # p => W[x].p_pptr = ts[x].p_pptr
      /\ \A x \in L : ts[x].p_pptr = p => W[x].p_pptr = InitTask
  <2>1. Rooted(ts, L)
    BY DEF Family
  <2> HIDE DEF L
  <2> QED  BY <1>2, <1>3, <2>1, DeadIs
<1> HIDE DEF V, W
<1>5. /\ ts' = LeaderGone(W, p) /\ pc' = [pc EXCEPT ![p] = "dead"]
      /\ tty' = IF ts[p].leader /\ ts[p].tty THEN [session |-> 0, pgrp |-> 0] ELSE tty
      /\ local' = [local EXCEPT ![p] = NoLocals] /\ UNCHANGED panicked
  BY <1>1, <1>4
<1>6. Typed(W)
  BY <1>4 DEF Kin
<1>7. Tied(W, ts', InitTask)
  BY <1>5, <1>6, LeaderGoneTied
<1>8. Tied(W, ts', p)
  BY <1>5, <1>6, LeaderGoneTied
<1>9. Kin(ts, ts', p)
  BY <1>3, <1>4, <1>8, TiedKin, KinChain
<1>10. Linkable' = L
  BY <1>2, <1>3, <1>5 DEF Linkable, PCs
<1>11. Rooted(ts', Linkable')
  <2>1. Alike(W, ts', L \cup {InitTask})
    <3>1. \A x \in All : Fit(W[x], ts'[x], x, p) /\ Fit(W[x], ts'[x], x, InitTask)
      BY <1>7, <1>8 DEF Tied
    <3> QED  BY <1>3, <3>1 DEF Fit, Alike
  <2> QED  BY <1>4, <1>10, <2>1, RootedAlike
<1>12. /\ local' \in [Tasks -> Locals] /\ pc' \in [Tasks -> PCs]
       /\ pc'[p] = "dead" /\ \A x \in Tasks \ {p} : pc'[x] = pc[x] /\ local'[x] = local[x]
       /\ tty' \in [session : Pids, pgrp : Pids]
  BY <1>2, <1>3, <1>5, NoLocalsIn DEF PCs
<1>13. Crew'
  <2>1. /\ ts'[InitTask].p_pptr = Zero /\ ts'[InitTask].pgrp = 0 /\ ts'[InitTask].pid = 1
        /\ ts'[InitTask].signal \subseteq {SIGCHLD}
    BY <1>3, <1>9 DEF Kin, Family, Crew
  <2>2. pc'[InitTask] \in {"user", "page", "copy", "wait"}
    BY <1>3, <1>12 DEF Family, Crew
  <2>3. \A x \in Linkable' \cup {InitTask} : ts'[x].state = "zombie" => pc'[x] = "dead"
    <3>1. \A x \in All : x # p /\ ts'[x].state = "zombie" => ts[x].state = "zombie"
      BY <1>9 DEF Kin
    <3> QED  BY <1>3, <1>10, <1>12, <3>1 DEF Family, Crew
  <2>4. \A x \in Tasks : pc'[x] \in {"page", "copy"} => local'[x].n \in Slots
    BY <1>12 DEF Family, Crew
  <2>5. ASSUME NEW x \in Tasks, pc'[x] = "copy"
        PROVE  pc[x] = "copy" /\ local'[x] = local[x] /\ local[x].q \in Pages
               /\ pc'[local[x].q] = "new"
    <3>1. x # p /\ pc[x] = "copy" /\ local'[x] = local[x]
      BY <1>12, <2>5
    <3>2. local[x].q \in Pages /\ pc[local[x].q] = "new"
      BY <3>1 DEF Family, Crew
    <3> QED  BY <1>1, <1>12, <3>1, <3>2, AllThere
  <2>6. \A x, y \in Tasks : pc'[x] = "copy" /\ pc'[y] = "copy" /\ local'[x].q = local'[y].q => x = y
    BY <2>5 DEF Family, Crew
  <2> QED  BY <2>1, <2>2, <2>3, <2>4, <2>5, <2>6 DEF Crew
<1>14. Typed(ts')
  BY <1>9 DEF Kin
<1>15. ASSUME Heard PROVE Heard'
  <2>1. ASSUME NEW y \in L, ts'[y].state = "zombie"
        PROVE  \/ SIGCHLD \in ts'[ts'[y].p_pptr].signal
               \/ /\ ts'[y].p_pptr = ts[y].p_pptr /\ ts[y].state = "zombie"
                  /\ ts'[y].pgrp = ts[y].pgrp /\ ts'[y].pid = ts[y].pid
    <3>1. y \in All /\ ts'[y].p_pptr = W[y].p_pptr /\ ts[p].p_pptr \in All
      <4>1. ts[p].p_pptr \in L \cup {InitTask}
        BY <1>3 DEF Family, Rooted, Lined
      <4> QED  BY <1>3, <1>7, <4>1 DEF Tied, Fit
    <3>2. CASE y = p
      <4>1. ts'[y].p_pptr = ts[p].p_pptr
        BY <1>3, <1>4, <3>1, <3>2
      <4> QED  BY <1>4, <1>8, <3>1, <4>1 DEF Tied, Fit
    <3>3. CASE y # p /\ ts[y].p_pptr = p
      <4>1. ts'[y].p_pptr = InitTask
        BY <1>4, <3>1, <3>3
      <4>2. W[y].state = "zombie"
        BY <1>8, <2>1, <3>1, <3>3 DEF Tied, Fit
      <4>3. SIGCHLD \in W[InitTask].signal
        BY <1>4, <3>3, <4>2
      <4> QED  BY <1>3, <1>8, <4>1, <4>3 DEF Tied, Fit
    <3>4. CASE y # p /\ ts[y].p_pptr # p
      BY <1>4, <1>9, <2>1, <3>1, <3>4 DEF Kin
    <3> QED  BY <3>2, <3>3, <3>4
  <2>2. ASSUME NEW x \in L \cup {InitTask}, pc'[x] = "wait"
        PROVE  /\ pc[x] = "wait" /\ local'[x] = local[x]
               /\ SIGCHLD \in ts[x].signal => SIGCHLD \in ts'[x].signal
               /\ ts'[x].pgrp = ts[x].pgrp
    <3>1. x # p /\ x \in Tasks /\ x \in All
      BY <1>3, <1>12, <2>2
    <3> QED  BY <1>9, <1>12, <2>2, <3>1 DEF Kin
  <2> QED  BY <1>10, <1>15, <2>1, <2>2, HeardStep
<1> QED  BY <1>1, <1>5, <1>11, <1>12, <1>13, <1>14, <1>15 DEF Family, TypeOK, Typed, All, PCs

\* The child waitpid() ends at is one of those found.
LEMMA FirstFound ==
    ASSUME NEW p, NEW w, NEW opts, Found(p, w, opts) # {}
    PROVE  First(p, Found(p, w, opts)) \in Found(p, w, opts)
<1> DEFINE kids == Kids(ts, p)
           found == Found(p, w, opts)
           S == {i \in DOMAIN kids : kids[i] \in found}
<1>1. DOMAIN kids \subseteq Nat
  BY DEF Kids
<1>2. found \subseteq {kids[i] : i \in DOMAIN kids}
  BY DEF Found, Asks
<1>3. First(p, found) = kids[Lowest(S)]
  BY DEF First
<1> HIDE DEF kids, found
<1>4. S # {} /\ S \subseteq Nat
  BY <1>1, <1>2 DEF found
<1> HIDE DEF S
<1>5. Lowest(S) \in S
  BY <1>4, LowestIn
<1> QED  BY <1>3, <1>5 DEF S, found

\* Whoever is asked for is a child of the process that waits, and the
\* scan passes over none of them.
LEMMA AskedKids ==
    ASSUME Family, NEW p \in Linkable \cup {InitTask}, NEW w
    PROVE  /\ \A q \in Asks(p, w) : q \in Linkable /\ ts[q].p_pptr = p
           /\ \A q \in Linkable : ts[q].p_pptr = p /\ Asked(p, w, q) => q \in Asks(p, w)
<1>1. PICK pos : Lined(ts, Linkable, pos)
  BY DEF Family, Rooted
<1>2. Listing(Kids(ts, p), ts, Linkable, pos, p)
  BY <1>1, KidsLike DEF Linkable
<1> DEFINE kids == Kids(ts, p)
<1>3. {kids[i] : i \in DOMAIN kids} = {q \in Linkable : ts[q].p_pptr = p}
  <2> HIDE DEF kids
  <2> QED  BY <1>2 DEF Listing, kids
<1>4. Asks(p, w) = {q \in {kids[i] : i \in DOMAIN kids} : Asked(p, w, q)}
  BY DEF Asks
<1> HIDE DEF kids
<1> QED  BY <1>3, <1>4

LEMMA CollectFamily ==
    ASSUME Family, NEW p \in Tasks, pc[p] \in {"user", "wait"}, NEW q \in Linkable,
           NEW awake, Tied(ts, awake, p),
           awake[p].state = "zombie" => ts[p].state = "zombie",
           Collect(p, q, awake), UNCHANGED <<last_pid, spaces, nr, use, tty>>
    PROVE  Family' /\ (Heard => Heard')
<1> DEFINE L == Linkable
<1>1. /\ Typed(ts) /\ task \in [Slots \cup {1} -> Tasks \cup {Null}]
      /\ local \in [Tasks -> Locals] /\ pc \in [Tasks -> PCs] /\ shell \in Pids /\ 0 \in Pids
  BY NumbersAssumption DEF Family, TypeOK, Typed, All, PCs, Pids
<1>2. /\ p \in All /\ q \in All /\ q \in Tasks /\ q \in Pages /\ InitTask \in All /\ q # InitTask
      /\ L \subseteq All /\ L \subseteq Pages /\ InitTask \notin L /\ L \subseteq Tasks
      /\ InitTask \in Tasks
  BY AllThere, TasksAssumption DEF Linkable
<1>3. Rooted(ts, L) /\ ts[InitTask].signal \subseteq {SIGCHLD}
      /\ ts[InitTask].pgrp = 0
  BY DEF Family, Crew
<1>4. Typed(awake) /\ \A x \in All : Fit(ts[x], awake[x], x, p)
  BY DEF Tied
<1>5. \A x \in All : awake[x].state = "zombie" => ts[x].state = "zombie"
  BY <1>4 DEF Fit
<1>6. CASE /\ ts' = [awake EXCEPT ![q].exit_code = 0]
           /\ WaitReturns(p, ts[q].pid) /\ UNCHANGED <<task, panicked>>
  <2> DEFINE s == [awake[q] EXCEPT !.exit_code = 0]
  <2>1. awake[q] \in TaskStruct /\ awake[p] \in TaskStruct
    BY <1>2, <1>4 DEF Typed
  <2>2. s \in TaskStruct /\ Fit(awake[q], s, q, p) /\ s.state = awake[q].state
    <3>1. s.state = awake[q].state
      BY <2>1 DEF TaskStruct
    <3> QED  BY <2>1, <3>1, FieldFit
  <2>3. ts' = [x \in All |-> IF x = q THEN s ELSE awake[x]]
    BY <1>4, <1>6 DEF Typed
  <2> HIDE DEF s
  <2>4. Tied(awake, ts', p)
    BY <1>2, <1>4, <2>2, <2>3, OneTied
  <2>5. ts'[p].state = "zombie" => ts[p].state = "zombie"
    BY <1>2, <1>5, <2>2, <2>3
  <2>6. /\ pc' \in [Tasks -> PCs] /\ pc'[p] = "user" /\ local' \in [Tasks -> Locals]
        /\ \A x \in Tasks \ {p} : pc'[x] = pc[x] /\ local'[x] = local[x]
        /\ shell' \in Pids
    BY <1>1, <1>6, NoLocalsIn DEF WaitReturns, PCs
  <2>7. Crew' /\ Rooted(ts, Linkable)' /\ Typed(ts') /\ (Heard => Heard')
    BY <2>4, <2>5, <2>6, TiedChain, Quiet
  <2> QED  BY <1>6, <2>6, <2>7 DEF Family, TypeOK, Typed, All, PCs
<1>7. CASE /\ ts[q].state = "zombie"
           /\ ts' = Freed(Unlinked(awake, q), q)
           /\ task' = [n \in DOMAIN task |-> IF task[n] = q THEN Null ELSE task[n]]
           /\ pc' = [pc EXCEPT ![p] = "user", ![q] = "free"]
           /\ local' = [local EXCEPT ![p] = NoLocals]
           /\ shell' = IF p = InitTask /\ ts[q].pid = shell THEN 0 ELSE shell
           /\ UNCHANGED panicked
  <2> DEFINE U == Unlinked(awake, q)
  <2>1. pc[q] = "dead" /\ p # q
    BY <1>2, <1>7 DEF Family, Crew
  <2>2. /\ Typed(U)
        /\ \A x \in All : /\ U[x].p_pptr = awake[x].p_pptr /\ U[x].state = awake[x].state
                          /\ SameRest(U[x], awake[x])
    BY <1>2, <1>4, UnlinkedIs
  <2>3. Rooted(awake, L)
    <3>1. Alike(ts, awake, L \cup {InitTask})
      BY <1>2, <1>4, <1>5 DEF Alike, Fit
    <3> QED  BY <1>3, <3>1, RootedAlike
  <2>4. Rooted(U, L \ {q})
    <3>1. \A x \in L : awake[x].p_pptr # q
      <4>1. \A x \in L : ts[x].p_pptr # q
        BY <1>2, <1>3, <1>7 DEF Rooted, Living
      <4> QED  BY <1>2, <1>4, <4>1 DEF Fit
    <3> HIDE DEF L
    <3>2. q \in L
      BY DEF L
    <3> QED  BY <1>2, <1>4, <2>3, <3>1, <3>2, UnlinkedRooted
  <2> HIDE DEF U
  <2>5. Typed(ts') /\ \A x \in All \ {q} : ts'[x] = U[x]
    BY <1>7, <2>2, FreedIs DEF U
  <2>6. /\ pc' \in [Tasks -> PCs] /\ pc'[p] = "user" /\ pc'[q] = "free"
        /\ local' \in [Tasks -> Locals] /\ shell' \in Pids
        /\ \A x \in Tasks : /\ x \notin {p, q} => pc'[x] = pc[x]
                            /\ x # p => local'[x] = local[x]
        /\ task' \in [Slots \cup {1} -> Tasks \cup {Null}]
    BY <1>1, <1>2, <1>7, <2>1, NoLocalsIn DEF PCs
  <2>7. /\ ts'[InitTask].p_pptr = ts[InitTask].p_pptr /\ ts'[InitTask].pgrp = ts[InitTask].pgrp
        /\ ts'[InitTask].signal \subseteq {SIGCHLD} /\ ts'[InitTask].pid = ts[InitTask].pid
    <3>1. /\ awake[InitTask].p_pptr = ts[InitTask].p_pptr
          /\ awake[InitTask].pgrp = ts[InitTask].pgrp
          /\ awake[InitTask].signal \subseteq {SIGCHLD}
          /\ awake[InitTask].pid = ts[InitTask].pid
      BY <1>2, <1>3, <1>4 DEF Fit
    <3> QED  BY <1>2, <2>2, <2>5, <3>1 DEF SameRest
  <2>8. \A x \in L \cup {InitTask} :
            x # q /\ ts'[x].state = "zombie" => ts[x].state = "zombie"
    BY <1>2, <1>5, <2>2, <2>5
  <2>9. Crew' /\ Linkable' = L \ {q}
    BY <1>2, <2>1, <2>6, <2>7, <2>8, CrewMoves
  <2>10. Rooted(ts', Linkable')
    <3>1. Alike(U, ts', (L \ {q}) \cup {InitTask})
      BY <1>2, <2>5 DEF Alike
    <3> QED  BY <2>4, <2>9, <3>1, RootedAlike
  <2>11. Heard => Heard'
    <3>1. \A x \in L \cup {InitTask} : x # q =>
              /\ ts'[x].p_pptr = ts[x].p_pptr /\ ts'[x].pid = ts[x].pid
              /\ ts'[x].state = "zombie" => ts[x].state = "zombie"
              /\ x # p => ts'[x].pgrp = ts[x].pgrp
              /\ x # p /\ SIGCHLD \in ts[x].signal => SIGCHLD \in ts'[x].signal
      BY <1>2, <1>4, <1>5, <2>2, <2>5 DEF SameRest, Fit
    <3>2. ts'[p].state # "zombie"
      <4>1. p \in L \cup {InitTask} /\ pc[p] # "dead"
        BY <2>1, <1>2 DEF Linkable, Tasks
      <4>2. ts[p].state # "zombie"
        BY <4>1 DEF Family, Crew
      <4> QED  BY <1>2, <1>5, <2>1, <2>2, <2>5, <4>2
    <3>3. Linkable' \subseteq L \cup {q} /\ q \notin Linkable'
      BY <2>9
    <3> QED  BY <1>2, <2>6, <3>1, <3>2, <3>3, HeardMoves
  <2> QED  BY <1>7, <2>5, <2>6, <2>9, <2>10, <2>11 DEF Family, TypeOK, Typed, All, PCs
<1>8. CASE panicked' = TRUE /\ UNCHANGED <<task, ts, pc, local, shell>>
  <2>1. Linkable' = Linkable
    BY <1>8 DEF Linkable
  <2>2. Crew'
    BY <1>8, <2>1 DEF Family, Crew
  <2>3. Rooted(ts', Linkable')
    BY <1>3, <1>8, <2>1
  <2>4. Heard => Heard'
    BY <1>8, <2>1 DEF Heard, Asked
  <2> QED  BY <1>8, <2>2, <2>3, <2>4 DEF Family, TypeOK
<1> QED  BY <1>6, <1>7, <1>8 DEF Collect

LEMMA WaitFamily ==
    ASSUME Family, NEW p \in Tasks, NEW w \in Waits, NEW opts \in Options, Wait(p, w, opts)
    PROVE  Family' /\ (Heard => Heard')
<1>1. /\ pc[p] = "user" /\ UNCHANGED <<last_pid, spaces, nr, use, tty>>
      /\ Typed(ts) /\ local \in [Tasks -> Locals] /\ pc \in [Tasks -> PCs] /\ p \in All
      /\ p \in Linkable \cup {InitTask} /\ ts[p] \in TaskStruct /\ w \in Int
      /\ opts \in SUBSET {"WNOHANG", "WUNTRACED"}
  BY AllThere, NumbersAssumption DEF Wait, Enters, Family, TypeOK, Typed, All, PCs, Linkable, Tasks
<1>2. CASE Found(p, w, opts) # {} /\ Collect(p, First(p, Found(p, w, opts)), ts)
  <2> DEFINE q == First(p, Found(p, w, opts))
  <2>1. q \in Linkable
    <3>1. q \in Asks(p, w)
      BY <1>2, FirstFound DEF Found
    <3> HIDE DEF q
    <3> QED  BY <1>1, <3>1, AskedKids
  <2> HIDE DEF q
  <2>2. Tied(ts, ts, p)
    BY <1>1, TiedSame
  <2> QED  BY <1>1, <1>2, <2>1, <2>2, CollectFamily DEF q
<1>3. CASE /\ Found(p, w, opts) = {}
           /\ ts' = [ts EXCEPT ![p].state = "interruptible"]
           /\ pc' = [pc EXCEPT ![p] = "wait"]
           /\ local' = [local EXCEPT ![p].w = w, ![p].opts = opts]
           /\ UNCHANGED <<task, shell, panicked>>
  <2> DEFINE s == [ts[p] EXCEPT !.state = "interruptible"]
  <2>1. s \in TaskStruct /\ Fit(ts[p], s, p, p) /\ s.state = "interruptible"
    <3>1. s.state = "interruptible"
      BY <1>1 DEF TaskStruct
    <3> QED  BY <1>1, <3>1, FieldFit DEF States
  <2>2. ts' = [ts EXCEPT ![p] = s]
    BY <1>3
  <2> HIDE DEF s
  <2>3. Tied(ts, ts', p) /\ ts'[p].state # "zombie"
    <3>1. ts'[p] = s
      BY <1>1, <2>2 DEF Typed
    <3> QED  BY <1>1, <2>1, <2>2, <3>1, OneField
  <2>4. /\ pc' \in [Tasks -> PCs] /\ pc'[p] = "wait" /\ local' \in [Tasks -> Locals]
        /\ \A x \in Tasks \ {p} : pc'[x] = pc[x] /\ local'[x] = local[x]
    BY <1>1, <1>3 DEF PCs, Locals
  <2>5. Crew' /\ Rooted(ts, Linkable)' /\ Typed(ts')
    BY <1>1, <2>3, <2>4, Quiet
  <2>6. Heard => Heard'
    <3>1. /\ \A x \in All \ {p} : ts'[x] = ts[x]
          /\ \A x \in All : /\ ts'[x].p_pptr = ts[x].p_pptr /\ ts'[x].pid = ts[x].pid
                            /\ ts'[x].pgrp = ts[x].pgrp
          /\ ts'[p].state # "zombie"
      BY <1>1, <1>3, <2>3 DEF Typed, TaskStruct
    <3>2. Linkable' = Linkable /\ Linkable \subseteq All /\ InitTask \in All
          /\ Linkable \subseteq Tasks /\ InitTask \in Tasks
      <4>1. Linkable \subseteq All /\ Linkable \subseteq Tasks /\ InitTask \in All
            /\ InitTask \in Tasks /\ Pages \subseteq Tasks
        BY AllThere DEF Linkable
      <4> QED  BY <1>1, <2>4, <4>1 DEF Linkable
    <3>3. local'[p].w = w
      BY <1>1, <1>3 DEF Locals
    <3>4. ASSUME NEW y \in Linkable', ts'[y].state = "zombie", ts'[y].p_pptr = p
          PROVE  ~Asked(p, local[p].w, y)'
      <4>1. /\ y \in Linkable /\ y # p /\ ts[y].state = "zombie" /\ ts[y].p_pptr = p
            /\ ts'[y].pid = ts[y].pid /\ ts'[y].pgrp = ts[y].pgrp /\ ts'[p].pgrp = ts[p].pgrp
        BY <1>1, <3>1, <3>2, <3>4
      <4>2. ~Asked(p, w, y)
        <5>1. y \notin Asks(p, w)
          BY <1>3, <4>1 DEF Found, Reports
        <5> QED  BY <1>1, <4>1, <5>1, AskedKids
      <4> QED  BY <3>3, <4>1, <4>2 DEF Asked
    <3>5. ASSUME NEW y \in Linkable', ts'[y].state = "zombie"
          PROVE  /\ y \in Linkable /\ ts'[y].p_pptr = ts[y].p_pptr /\ ts[y].state = "zombie"
                 /\ ts'[y].pgrp = ts[y].pgrp /\ ts'[y].pid = ts[y].pid
      BY <3>1, <3>2, <3>5
    <3>6. ASSUME NEW x \in Linkable' \cup {InitTask}, pc'[x] = "wait", x # p
          PROVE  /\ x \in Linkable \cup {InitTask} /\ pc[x] = "wait" /\ local'[x] = local[x]
                 /\ ts'[x] = ts[x]
      BY <2>4, <3>1, <3>2, <3>6
    <3> QED  BY <3>3, <3>4, <3>5, <3>6, HeardStep
  <2> QED  BY <1>1, <1>3, <2>4, <2>5, <2>6 DEF Family, TypeOK, Typed, All, PCs
<1> QED  BY <1>2, <1>3 DEF Wait

LEMMA WaitAgainFamily ==
    ASSUME Family, NEW p \in Tasks, WaitAgain(p)
    PROVE  Family' /\ (Heard => Heard')
<1> DEFINE awake == [ts EXCEPT ![p].state = "running"]
           found == Found(p, local[p].w, local[p].opts)
           q == First(p, found)
           s == [ts[p] EXCEPT !.state = "running"]
<1>1. /\ pc[p] = "wait" /\ UNCHANGED <<last_pid, spaces, nr, use, tty>>
      /\ \/ ts' = awake /\ WaitReturns(p, -1) /\ UNCHANGED <<task, panicked>>
         \/ found # {} /\ Collect(p, q, awake)
  BY DEF WaitAgain
<1>2. /\ Typed(ts) /\ local \in [Tasks -> Locals] /\ pc \in [Tasks -> PCs] /\ p \in All
      /\ p \in Linkable \cup {InitTask} /\ ts[p] \in TaskStruct /\ shell \in Pids /\ 0 \in Pids
  BY <1>1, AllThere, NumbersAssumption DEF Family, TypeOK, Typed, All, PCs, Linkable, Tasks, Pids
<1>3. s \in TaskStruct /\ Fit(ts[p], s, p, p) /\ s.state = "running"
  <2>1. s.state = "running"
    BY <1>2 DEF TaskStruct
  <2> QED  BY <1>2, <2>1, FieldFit DEF States
<1>4. awake = [x \in All |-> IF x = p THEN s ELSE ts[x]]
  BY <1>2 DEF Typed
<1> HIDE DEF s, awake
<1>5. Tied(ts, awake, p) /\ awake[p].state # "zombie"
  BY <1>2, <1>3, <1>4, OneTied
<1>6. CASE ts' = awake /\ WaitReturns(p, -1) /\ UNCHANGED <<task, panicked>>
  <2>1. /\ pc' \in [Tasks -> PCs] /\ pc'[p] = "user" /\ local' \in [Tasks -> Locals]
        /\ \A x \in Tasks \ {p} : pc'[x] = pc[x] /\ local'[x] = local[x]
        /\ shell' \in Pids
    BY <1>2, <1>6, NoLocalsIn DEF WaitReturns, PCs
  <2>2. Crew' /\ Rooted(ts, Linkable)' /\ Typed(ts') /\ (Heard => Heard')
    BY <1>1, <1>5, <1>6, <2>1, Quiet
  <2> QED  BY <1>1, <1>6, <2>1, <2>2 DEF Family, TypeOK, Typed, All, PCs
<1>7. CASE found # {} /\ Collect(p, q, awake)
  <2>1. q \in Linkable
    <3>1. q \in Asks(p, local[p].w)
      BY <1>7, FirstFound DEF Found
    <3> HIDE DEF q
    <3> QED  BY <1>2, <3>1, AskedKids
  <2> HIDE DEF q
  <2> QED  BY <1>1, <1>5, <1>7, <2>1, CollectFamily
<1> QED  BY <1>1, <1>6, <1>7

LEMMA InitFamily == ASSUME Init PROVE Family /\ Heard
<1>1. /\ Blank \in TaskStruct /\ Blank.signal = {} /\ Blank.pgrp = 0 /\ Blank.p_cptr = Null
      /\ Blank.state = "running" /\ 0 \in Pids /\ 1 \in Pids
  BY NumbersAssumption DEF Blank, TaskStruct, States, Pids
<1> DEFINE b == Blank
           i == [b EXCEPT !.pid = 1, !.p_pptr = Zero]
           z == [b EXCEPT !.p_pptr = Zero, !.p_cptr = InitTask]
<1>2. /\ Null \notin Pages /\ Zero \notin Pages \cup {Null, InitTask} /\ InitTask \notin Pages \cup {Null}
      /\ 1 \notin Slots /\ Slots \subseteq Nat
  BY TasksAssumption, SlotsAssumption
<1>3. ts = [p \in All |-> IF p = InitTask THEN i ELSE IF p = Zero THEN z ELSE b]
  BY <1>2 DEF Init, All, Tasks
<1> HIDE DEF b
<1>4. i \in TaskStruct /\ z \in TaskStruct /\ b \in TaskStruct
  BY <1>1, AllThere DEF TaskStruct, b
<1>5. i.p_pptr = Zero /\ i.pgrp = 0 /\ i.pid = 1 /\ i.signal = {} /\ i.p_cptr = Null /\ i.state = "running"
  BY <1>1 DEF TaskStruct, b
<1> HIDE DEF i, z
<1>6. Typed(ts) /\ ts[InitTask] = i
  BY <1>3, <1>4, AllThere DEF Typed
<1>7. Linkable = {} /\ \A x \in Tasks : pc[x] = IF x = InitTask THEN "user" ELSE "free"
  BY <1>2 DEF Init, Linkable, Tasks
<1>8. Crew
  BY <1>5, <1>6, <1>7, AllThere DEF Crew
<1>9. Rooted(ts, Linkable)
  <2> DEFINE pos == [x \in Pages |-> 1]
             age == [x \in Tasks |-> 0]
  <2>1. Lined(ts, {}, pos)
    BY <1>5, <1>6 DEF Lined
  <2>2. Aged(ts, {}, age) /\ Living(ts, {})
    BY DEF Aged, Living
  <2> HIDE DEF pos, age
  <2> QED  BY <1>7, <2>1, <2>2 DEF Rooted
<1>10. TypeOK
  <2>1. NoLocals \in Locals
    BY NoLocalsIn
  <2> QED  BY <1>1, <1>2, <1>6, <2>1 DEF Init, TypeOK, Typed, All, Tasks
<1>11. Heard
  BY <1>7, AllThere DEF Heard
<1> QED  BY <1>8, <1>9, <1>10, <1>11 DEF Family

\* Nobody's group changes under a waitpid() for its own group.
Settled == 0 \in Waits => "setpgid" \notin use.calls

LEMMA StepFamily == ASSUME Family, [Next]_vars PROVE Family' /\ (Heard /\ Settled => Heard')
<1> DEFINE Kept == Family' /\ (Heard /\ Settled => Heard')
<1>1. ASSUME NEW p \in Tasks, Step(p) PROVE Kept
  <2>1. CASE Continue(p)
    BY <2>1, DeliverFamily, PageCameFamily, CopyDoneFamily, DieFamily, WaitAgainFamily DEF Continue
  <2>2. CASE Fork(p) \/ Setsid(p) \/ OpenTty(p)
    BY <2>2, ForkFamily, SetsidFamily, OpenTtyFamily
  <2>3. ASSUME NEW c \in Codes, Exit(p, c) PROVE Kept
    BY <2>3, ExitFamily
  <2>4. ASSUME NEW w \in Waits, NEW opts \in Options, Wait(p, w, opts) PROVE Kept
    BY <2>4, WaitFamily
  <2>5. ASSUME NEW w \in -MaxPid..MaxPid, NEW sig \in use.sends, Kill(p, w, sig) PROVE Kept
    BY <2>5, KillFamily
  <2>6. ASSUME NEW q \in Tasks, NEW pgid \in 1..MaxPid, Setpgid(p, q, pgid) PROVE Kept
    <3>1. "setpgid" \in use.calls
      BY <2>6 DEF Setpgid, Enters
    <3> QED  BY <2>6, <3>1, SetpgidFamily DEF Settled
  <2>7. ASSUME NEW pgrp \in 1..MaxPid, SetForeground(p, pgrp) PROVE Kept
    BY <2>7, ForegroundFamily
  <2> HIDE DEF Kept
  <2> QED  BY <1>1, <2>1, <2>2, <2>3, <2>4, <2>5, <2>6, <2>7 DEF Step
<1>2. CASE UNCHANGED vars
  <2>1. Linkable' = Linkable
    BY <1>2 DEF vars, Linkable
  <2>2. Family'
    BY <1>2, <2>1 DEF vars, Family, TypeOK, Crew
  <2>3. Heard => Heard'
    BY <1>2, <2>1 DEF vars, Heard, Asked
  <2> QED  BY <2>2, <2>3
<1> QED  BY <1>1, <1>2 DEF Next

----------------------------------------------------------------------------
(* Nothing brings the kernel down.                                         *)

\* The tables of the addresses are those of a process in task[] that has
\* not yet begun to exit, and every process of the tree is in task[].
Safe ==
    /\ ~panicked /\ task[1] = InitTask
    /\ \A n \in Slots : n \in spaces => task[n] # Null
    /\ \A n \in Slots : task[n] # Null =>
        /\ task[n] \in Pages /\ nr[task[n]] = n
        /\ pc[task[n]] \in {"exit", "dead"} => n \notin spaces
    /\ Linkable \cup {InitTask} \subseteq Listed

LEMMA SafeQuiet ==
    ASSUME Safe, TypeOK, NEW p \in Tasks, pc[p] \in {"user", "page", "wait", "exit"},
           UNCHANGED <<task, nr, panicked>>, \A x \in Tasks \ {p} : pc'[x] = pc[x],
           pc'[p] \notin {"free", "new"},
           \/ spaces' = spaces /\ (pc'[p] \notin {"exit", "dead"} \/ pc[p] = "exit")
           \/ spaces' = spaces \ {nr[p]}
    PROVE  Safe'
<1>1. Pages \subseteq Tasks /\ Linkable \subseteq Tasks
  BY AllThere DEF Linkable
<1>2. Linkable' = Linkable /\ Listed' = Listed
  BY <1>1 DEF Linkable, Listed
<1>3. \A n \in Slots : task[n] # Null /\ pc'[task[n]] \in {"exit", "dead"} => n \notin spaces'
  BY <1>1 DEF Safe
<1> QED  BY <1>2, <1>3 DEF Safe

LEMMA SafeCopy ==
    ASSUME Safe, Core, Family, NEW p \in Tasks, pc[p] = "user", NEW n \in Slots, task[n] = Null,
           NEW pid, CopyProcess(p, n, pid)
    PROVE  Safe'
<1>1. n \notin spaces
  BY DEF Safe
<1>2. PICK q \in Pages :
        /\ pc[q] = "free" /\ task' = [task EXCEPT ![n] = q] /\ nr' = [nr EXCEPT ![q] = n]
        /\ spaces' = spaces \cup {n} /\ UNCHANGED panicked
        /\ \/ pc' = [pc EXCEPT ![p] = "user", ![q] = "user"]
           \/ pc' = [pc EXCEPT ![p] = "copy", ![q] = "new"]
  BY <1>1 DEF CopyProcess
<1>3. /\ task \in [Slots \cup {1} -> Tasks \cup {Null}] /\ nr \in [Tasks -> Slots \cup {1}]
      /\ pc \in [Tasks -> PCs] /\ q \in Tasks /\ q # p /\ q \notin Listed /\ q # Null
      /\ Pages \subseteq Tasks /\ 1 \notin Slots /\ q # InitTask /\ Null \notin Tasks
  BY <1>2, AllThere, TasksAssumption, SlotsAssumption DEF Family, TypeOK, PCs, Core, FreeUnlisted
<1>4. /\ task'[n] = q /\ nr'[q] = n /\ \A m \in (Slots \cup {1}) \ {n} : task'[m] = task[m] /\ task[m] # q
      /\ \A x \in Tasks \ {q} : nr'[x] = nr[x]
      /\ \A x \in Tasks \ {p, q} : pc'[x] = pc[x]
      /\ pc'[p] \in {"user", "copy"} /\ pc'[q] \in {"user", "new"}
  <2>1. \A m \in Slots \cup {1} : task[m] # q
    BY <1>3 DEF Listed
  <2> QED  BY <1>2, <1>3, <2>1
<1>5. Linkable' \subseteq Linkable \cup {q}
  <2> SUFFICES ASSUME NEW x \in Linkable', x # q PROVE x \in Linkable
    OBVIOUS
  <2>1. x \in Pages /\ x \in Tasks /\ pc'[x] \notin {"free", "new"}
    BY <1>3 DEF Linkable
  <2>2. CASE x = p
    BY <2>1, <2>2 DEF Linkable
  <2>3. CASE x # p
    BY <1>4, <2>1, <2>3 DEF Linkable
  <2> QED  BY <2>2, <2>3
<1>6. Listed \cup {q} \subseteq Listed'
  <2>1. DOMAIN task = Slots \cup {1} /\ DOMAIN task' = Slots \cup {1}
    BY <1>2, <1>3
  <2> QED  BY <1>3, <1>4, <2>1 DEF Listed
<1>7. \A m \in Slots : m \in spaces' => task'[m] # Null
  BY <1>2, <1>3, <1>4 DEF Safe
<1>8. ASSUME NEW m \in Slots, task'[m] # Null
      PROVE  /\ task'[m] \in Pages /\ nr'[task'[m]] = m
             /\ pc'[task'[m]] \in {"exit", "dead"} => m \notin spaces'
  <2>1. CASE m = n
    BY <1>4, <2>1
  <2>2. CASE m # n
    <3>1. task'[m] = task[m] /\ task[m] # q /\ task[m] \in Pages /\ task[m] \in Tasks
          /\ nr'[task[m]] = m
      BY <1>3, <1>4, <1>8, <2>2 DEF Safe
    <3> QED  BY <1>2, <1>4, <2>2, <3>1 DEF Safe
  <2> QED  BY <2>1, <2>2
<1>9. task'[1] = InitTask
  BY <1>3, <1>4 DEF Safe
<1>10. Linkable' \cup {InitTask} \subseteq Listed'
  BY <1>5, <1>6 DEF Safe
<1> QED  BY <1>2, <1>7, <1>8, <1>9, <1>10 DEF Safe

LEMMA SafeCopyDone ==
    ASSUME Safe, Core, Family, NEW p \in Tasks, CopyDone(p)
    PROVE  Safe'
<1> DEFINE q == local[p].q
           n == local[p].n
<1>1. /\ pc[p] = "copy" /\ UNCHANGED <<nr, panicked>>
      /\ \/ /\ pc' = [pc EXCEPT ![p] = "user", ![q] = "user"]
            /\ UNCHANGED <<task, spaces>>
         \/ /\ pc' = [pc EXCEPT ![p] = "user", ![q] = "free"]
            /\ task' = [task EXCEPT ![n] = Null] /\ spaces' = spaces \ {n}
  BY DEF CopyDone
<1>2. q \in Pages /\ pc[q] = "new" /\ n \in Slots /\ task[n] = q
  BY <1>1 DEF Family, Crew, Core, Copying
<1> HIDE DEF q, n
<1>3. /\ task \in [Slots \cup {1} -> Tasks \cup {Null}]
      /\ pc \in [Tasks -> PCs] /\ q \in Tasks /\ q # p /\ q # Null /\ q # InitTask
      /\ Pages \subseteq Tasks /\ 1 \notin Slots /\ Null \notin Tasks
  BY <1>1, <1>2, AllThere, TasksAssumption, SlotsAssumption DEF Family, TypeOK, PCs
<1>4. /\ \A x \in Tasks \ {p, q} : pc'[x] = pc[x]
      /\ pc'[p] = "user" /\ pc'[q] \in {"user", "free"}
  BY <1>1, <1>3
<1>5. ASSUME NEW x \in Linkable', x # q PROVE x \in Linkable
  <2>1. x \in Pages /\ x \in Tasks /\ pc'[x] \notin {"free", "new"}
    BY <1>3 DEF Linkable
  <2>2. CASE x = p
    BY <1>1, <2>1, <2>2 DEF Linkable
  <2>3. CASE x # p
    BY <1>4, <1>5, <2>1, <2>3 DEF Linkable
  <2> QED  BY <2>2, <2>3
<1>6. \A m \in Slots : task[m] # Null /\ pc'[task[m]] \in {"exit", "dead"} => m \notin spaces
  BY <1>3, <1>4 DEF Safe
<1>7. CASE pc' = [pc EXCEPT ![p] = "user", ![q] = "user"] /\ UNCHANGED <<task, spaces>>
  <2>1. q \in Listed /\ Listed' = Listed
    BY <1>2, <1>3, <1>7 DEF Listed
  <2>2. Linkable' \cup {InitTask} \subseteq Listed'
    BY <1>5, <2>1 DEF Safe
  <2> QED  BY <1>1, <1>6, <1>7, <2>2 DEF Safe
<1>8. CASE /\ pc' = [pc EXCEPT ![p] = "user", ![q] = "free"]
           /\ task' = [task EXCEPT ![n] = Null] /\ spaces' = spaces \ {n}
  <2>1. task'[n] = Null /\ \A m \in (Slots \cup {1}) \ {n} : task'[m] = task[m]
    BY <1>2, <1>3, <1>8
  <2>2. ASSUME NEW x \in Listed, x # q PROVE x \in Listed'
    <3>1. PICK m \in Slots \cup {1} : task[m] = x /\ x # Null
      BY <1>3 DEF Listed
    <3>2. m # n
      BY <1>2, <2>2, <3>1
    <3>3. DOMAIN task' = Slots \cup {1} /\ task'[m] = x
      BY <1>3, <1>8, <2>1, <3>1, <3>2
    <3> QED  BY <3>1, <3>3 DEF Listed
  <2>3. q \notin Linkable'
    BY <1>3, <1>8 DEF Linkable
  <2>4. Linkable' \cup {InitTask} \subseteq Listed'
    BY <1>3, <1>5, <2>2, <2>3 DEF Safe
  <2>5. \A m \in Slots : task'[m] # Null =>
            /\ task'[m] \in Pages /\ nr'[task'[m]] = m
            /\ pc'[task'[m]] \in {"exit", "dead"} => m \notin spaces'
    BY <1>1, <1>6, <1>8, <2>1 DEF Safe
  <2>6. \A m \in Slots : m \in spaces' => task'[m] # Null
    BY <1>8, <2>1 DEF Safe
  <2>7. task'[1] = InitTask
    BY <1>2, <1>3, <2>1 DEF Safe
  <2> QED  BY <1>1, <2>4, <2>5, <2>6, <2>7 DEF Safe
<1> QED  BY <1>1, <1>7, <1>8

LEMMA SafeCollect ==
    ASSUME Safe, Family, NEW p \in Tasks, pc[p] \in {"user", "wait"}, NEW q \in Linkable,
           NEW awake, Collect(p, q, awake), UNCHANGED <<spaces, nr>>
    PROVE  Safe'
<1>1. /\ task \in [Slots \cup {1} -> Tasks \cup {Null}]
      /\ pc \in [Tasks -> PCs] /\ q \in Tasks /\ q \in Pages /\ q # Null /\ q # InitTask
      /\ Pages \subseteq Tasks /\ Null \notin Tasks /\ TypeOK
  BY AllThere, TasksAssumption DEF Family, TypeOK, PCs, Linkable
<1>2. CASE WaitReturns(p, ts[q].pid) /\ UNCHANGED <<task, panicked>>
  <2>1. pc'[p] = "user" /\ \A x \in Tasks \ {p} : pc'[x] = pc[x]
    BY <1>1, <1>2 DEF WaitReturns
  <2> QED  BY <1>1, <1>2, <2>1, SafeQuiet
<1>3. CASE /\ ts[q].state = "zombie"
           /\ task' = [n \in DOMAIN task |-> IF task[n] = q THEN Null ELSE task[n]]
           /\ pc' = [pc EXCEPT ![p] = "user", ![q] = "free"]
           /\ UNCHANGED panicked
  <2>1. pc[q] = "dead" /\ p # q
    BY <1>3 DEF Family, Crew
  <2>2. /\ \A x \in Tasks \ {p, q} : pc'[x] = pc[x]
        /\ pc'[p] = "user" /\ pc'[q] = "free"
    BY <1>1, <1>3, <2>1
  <2>3. DOMAIN task' = Slots \cup {1} /\ \A m \in Slots \cup {1} :
            task'[m] = IF task[m] = q THEN Null ELSE task[m]
    BY <1>1, <1>3
  <2>4. ASSUME NEW x \in Linkable' PROVE x \in Linkable /\ x # q
    <3>1. x \in Pages /\ x \in Tasks /\ pc'[x] \notin {"free", "new"}
      BY <1>1 DEF Linkable
    <3>2. x # q
      BY <2>2, <3>1
    <3>3. CASE x = p
      BY <3>1, <3>2, <3>3 DEF Linkable
    <3>4. CASE x # p
      BY <2>2, <3>1, <3>2, <3>4 DEF Linkable
    <3> QED  BY <3>2, <3>3, <3>4
  <2>5. \A x \in Listed : x # q => x \in Listed'
    BY <1>1, <2>3 DEF Listed
  <2>6. Linkable' \cup {InitTask} \subseteq Listed'
    BY <1>1, <2>4, <2>5 DEF Safe
  <2>7. \A n \in Slots : n \in spaces => task[n] # Null /\ task[n] # q
    BY <2>1 DEF Safe
  <2>8. ASSUME NEW n \in Slots, task'[n] # Null
        PROVE  /\ task'[n] \in Pages /\ nr'[task'[n]] = n
               /\ pc'[task'[n]] \in {"exit", "dead"} => n \notin spaces'
    <3>1. task'[n] = task[n] /\ task[n] # q /\ task[n] # Null /\ task[n] \in Pages
      BY <2>3, <2>8 DEF Safe
    <3> QED  BY <1>1, <2>2, <3>1 DEF Safe
  <2> QED  BY <1>1, <1>3, <2>3, <2>6, <2>7, <2>8 DEF Safe
<1>4. q \in Listed
  BY DEF Safe
<1> QED  BY <1>2, <1>3, <1>4 DEF Collect

LEMMA SafeStep ==
    ASSUME Safe, Core, Family, "page" \notin use.sleeps, NEW p \in Tasks, Step(p)
    PROVE  Safe'
<1>1. /\ TypeOK /\ pc \in [Tasks -> PCs] /\ spaces \subseteq Slots
  BY DEF Family, TypeOK, PCs
<1>2. pc[p] \notin {"free", "new", "dead"} => p \in Linkable \cup {InitTask}
  BY DEF Linkable, Tasks
<1>3. CASE /\ pc[p] = "user" /\ UNCHANGED <<task, spaces, nr, panicked>>
           /\ \/ pc' = pc
              \/ pc' = [pc EXCEPT ![p] = "wait"]
  <2>1. pc'[p] \in {"user", "wait"} /\ \A x \in Tasks \ {p} : pc'[x] = pc[x]
    BY <1>1, <1>3
  <2> QED  BY <1>1, <1>3, <2>1, SafeQuiet
<1>4. CASE /\ pc[p] = "user" /\ UNCHANGED <<task, nr, panicked>>
           /\ spaces' = FreedTables(p) /\ pc' = [pc EXCEPT ![p] = "exit"]
  <2>1. pc'[p] = "exit" /\ \A x \in Tasks \ {p} : pc'[x] = pc[x]
    BY <1>1, <1>4
  <2> QED  BY <1>1, <1>4, <2>1, SafeQuiet DEF FreedTables
<1>5. CASE Deliver(p)
  BY <1>3, <1>4, <1>5 DEF Deliver
<1>6. CASE PageCame(p)
  BY <1>6 DEF PageCame, Core, NoPage
<1>7. CASE CopyDone(p)
  BY <1>7, SafeCopyDone
<1>8. CASE Die(p)
  <2>1. /\ pc[p] = "exit" /\ UNCHANGED <<task, spaces, nr>>
        /\ \/ pc' = pc
           \/ pc' = [pc EXCEPT ![p] = "dead"]
    BY <1>8 DEF Die
  <2>2. panicked' = panicked
    BY <1>8, DieFamily
  <2>3. pc'[p] \in {"exit", "dead"} /\ \A x \in Tasks \ {p} : pc'[x] = pc[x]
    BY <1>1, <2>1
  <2> QED  BY <1>1, <2>1, <2>2, <2>3, SafeQuiet
<1>9. CASE WaitAgain(p)
  <2> DEFINE found == Found(p, local[p].w, local[p].opts)
             awake == [ts EXCEPT ![p].state = "running"]
             q == First(p, found)
  <2>1. /\ pc[p] = "wait" /\ UNCHANGED <<spaces, nr>>
        /\ \/ WaitReturns(p, -1) /\ UNCHANGED <<task, panicked>>
           \/ found # {} /\ Collect(p, q, awake)
    BY <1>9 DEF WaitAgain
  <2>2. CASE WaitReturns(p, -1) /\ UNCHANGED <<task, panicked>>
    <3>1. pc'[p] = "user" /\ \A x \in Tasks \ {p} : pc'[x] = pc[x]
      BY <1>1, <2>2 DEF WaitReturns
    <3> QED  BY <1>1, <2>1, <2>2, <3>1, SafeQuiet
  <2>3. CASE found # {} /\ Collect(p, q, awake)
    <3>1. q \in Linkable
      <4>1. q \in Asks(p, local[p].w)
        BY <2>3, FirstFound DEF Found
      <4> HIDE DEF q
      <4> QED  BY <1>2, <2>1, <4>1, AskedKids
    <3> HIDE DEF q, awake
    <3> QED  BY <2>1, <2>3, <3>1, SafeCollect
  <2> QED  BY <2>1, <2>2, <2>3
<1>10. CASE Fork(p)
  <2> DEFINE empty == {n \in Slots : task[n] = Null}
             n == Lowest(empty)
  <2>1. /\ pc[p] = "user"
        /\ Failed(p) \/ (empty # {} /\ CopyProcess(p, n, NextPid))
    BY <1>10 DEF Fork, Enters
  <2>2. CASE Failed(p)
    <3>1. pc' = pc /\ UNCHANGED <<task, spaces, nr, panicked>>
      BY <1>1, <2>1, <2>2 DEF Failed
    <3> QED  BY <1>3, <2>1, <3>1
  <2>3. CASE empty # {} /\ CopyProcess(p, n, NextPid)
    <3>1. empty \subseteq Nat /\ empty \subseteq Slots /\ \A m \in empty : task[m] = Null
      BY SlotsAssumption
    <3> HIDE DEF empty
    <3>2. n \in Slots /\ task[n] = Null
      BY <2>3, <3>1, LowestIn
    <3> HIDE DEF n
    <3> QED  BY <2>1, <2>3, <3>2, SafeCopy
  <2> QED  BY <2>1, <2>2, <2>3
<1>11. CASE Setsid(p) \/ OpenTty(p)
  BY <1>3, <1>11 DEF Setsid, OpenTty, Enters
<1>12. ASSUME NEW c \in Codes, Exit(p, c) PROVE Safe'
  BY <1>4, <1>12 DEF Exit, Enters
<1>13. ASSUME NEW w \in Waits, NEW opts \in Options, Wait(p, w, opts) PROVE Safe'
  <2> DEFINE q == First(p, Found(p, w, opts))
  <2>1. /\ pc[p] = "user" /\ UNCHANGED <<spaces, nr>>
        /\ \/ Found(p, w, opts) # {} /\ Collect(p, q, ts)
           \/ pc' = [pc EXCEPT ![p] = "wait"] /\ UNCHANGED <<task, panicked>>
    BY <1>13 DEF Wait, Enters
  <2>2. CASE Found(p, w, opts) # {} /\ Collect(p, q, ts)
    <3>1. q \in Linkable
      <4>1. q \in Asks(p, w)
        BY <2>2, FirstFound DEF Found
      <4> HIDE DEF q
      <4> QED  BY <1>2, <2>1, <4>1, AskedKids
    <3> HIDE DEF q
    <3> QED  BY <2>1, <2>2, <3>1, SafeCollect
  <2> QED  BY <1>3, <2>1, <2>2
<1>14. ASSUME NEW w \in -MaxPid..MaxPid, NEW sig \in use.sends, Kill(p, w, sig) PROVE Safe'
  BY <1>3, <1>14 DEF Kill, Enters
<1>15. ASSUME NEW q \in Tasks, NEW pgid \in 1..MaxPid, Setpgid(p, q, pgid) PROVE Safe'
  BY <1>3, <1>15 DEF Setpgid, Enters
<1>16. ASSUME NEW pgrp \in 1..MaxPid, SetForeground(p, pgrp) PROVE Safe'
  BY <1>3, <1>16 DEF SetForeground, Enters
<1> QED  BY <1>5, <1>6, <1>7, <1>8, <1>9, <1>10, <1>11, <1>12, <1>13, <1>14, <1>15, <1>16
         DEF Step, Continue

FInv == Family /\ IInv /\ ("page" \notin use.sleeps => Safe) /\ (Settled => Heard)

LEMMA InitFInv == ASSUME Init PROVE FInv
<1>1. Family /\ IInv /\ Heard
  BY InitFamily, InitInv
<1>2. Linkable = {} /\ 1 \in DOMAIN task /\ task[1] = InitTask /\ InitTask # Null
      /\ \A n \in Slots : task[n] = Null
  BY TasksAssumption, SlotsAssumption DEF Init, Linkable, Tasks
<1>3. Safe
  BY <1>2 DEF Init, Safe, Listed
<1> QED  BY <1>1, <1>3 DEF FInv

LEMMA StepFInv == ASSUME FInv, [Next]_vars PROVE FInv'
<1>1. Family' /\ IInv' /\ (Heard /\ Settled => Heard')
  BY StepFamily, StepInv DEF FInv
<1>2. use' = use
  <2>1. ASSUME NEW p \in Tasks, Continue(p) PROVE use' = use
    BY <2>1 DEF Continue, Deliver, PageCame, CopyDone, Die, WaitAgain
  <2>2. ASSUME NEW p \in Tasks, Step(p) PROVE use' = use
    BY <2>1, <2>2 DEF Step, Fork, Setsid, OpenTty, Exit, Wait, Kill, Setpgid, SetForeground
  <2> QED  BY <2>2 DEF Next, vars
<1>3. ASSUME "page" \notin use.sleeps PROVE Safe'
  <2>1. Safe /\ Core /\ Family
    BY <1>3 DEF FInv, IInv
  <2>2. CASE Next
    BY <1>3, <2>1, <2>2, SafeStep DEF Next
  <2>3. CASE UNCHANGED vars
    BY <2>1, <2>3 DEF vars, Safe, Linkable, Listed
  <2> QED  BY <2>2, <2>3
<1>4. Settled' <=> Settled
  BY <1>2 DEF Settled
<1> QED  BY <1>1, <1>2, <1>3, <1>4 DEF FInv

\* The links of the task_structs always tie the processes into one tree,
\* whatever the order of fork, exit, adoption and release(); the tables have
\* their types; and as long as get_free_page() does not sleep in
\* copy_process(), nothing brings the kernel down.
THEOREM FamilyKept == Spec => []FamilyOK
<1>1. Init => FInv
  BY InitFInv
<1>2. FInv /\ [Next]_vars => FInv'
  BY StepFInv
<1>3. FInv => FamilyOK
  <2>1. ASSUME FInv PROVE TypeOK /\ TreeOK
    BY <2>1, RootedTree DEF FInv, Family
  <2>2. ASSUME FInv PROVE NoPanic
    BY <2>2 DEF FInv, Safe, NoPanic
  <2> QED  BY <2>1, <2>2 DEF FamilyOK
<1> QED  BY <1>1, <1>2, <1>3, PTL DEF Spec

\* Whom a death or a signal concerns is told, and awake: a process asleep in
\* waitpid() has SIGCHLD pending as soon as a child it asked for is a zombie,
\* whoever was its father when it died, and nobody sleeps through that or
\* through SIGKILL.  The exception is waitpid(0): setpgid() on the sleeper may
\* move it into the group of a child whose death did not concern it before.
THEOREM NothingIsMissed ==
    Spec => []("page" \notin use.sleeps /\ (0 \in Waits => "setpgid" \notin use.calls)
                    => NothingMissed)
<1> DEFINE Held == "page" \notin use.sleeps /\ (0 \in Waits => "setpgid" \notin use.calls)
<1>1. Init => FInv
  BY InitFInv
<1>2. FInv /\ [Next]_vars => FInv'
  BY StepFInv
<1>3. FInv /\ ("page" \notin use.sleeps => KillHeard) => (Held => NothingMissed)
  <2> SUFFICES ASSUME FInv, Held, KillHeard PROVE NothingMissed
    OBVIOUS
  <2>1. ASSUME NEW p \in Listed, pc[p] = "wait", NEW q \in Asks(p, local[p].w),
               ts[q].state = "zombie"
        PROVE  SIGCHLD \in ts[p].signal /\ q \in Found(p, local[p].w, local[p].opts)
    <3>1. p \in Linkable \cup {InitTask}
      <4>1. p \in Tasks
        BY DEF FInv, Family, TypeOK, Listed
      <4> QED  BY <2>1, <4>1 DEF Linkable, Tasks
    <3>2. q \in Linkable /\ ts[q].p_pptr = p
      BY <3>1, AskedKids DEF FInv
    <3>3. Asked(p, local[p].w, q)
      BY DEF Asks
    <3>4. SIGCHLD \in ts[p].signal
      BY <2>1, <3>1, <3>2, <3>3 DEF FInv, Settled, Heard
    <3> QED  BY <2>1, <3>4 DEF Found, Reports
  <2>2. ZombieReported
    BY <2>1 DEF ZombieReported
  <2>3. DeathHeard
    BY <2>1 DEF DeathHeard, Ready
  <2> QED  BY <2>2, <2>3 DEF NothingMissed
<1>4. Spec => []("page" \notin use.sleeps => KillHeard)
  BY KillAlwaysHeard
<1> HIDE DEF Held
<1>5. Spec => [](Held => NothingMissed)
  BY <1>1, <1>2, <1>3, <1>4, PTL DEF Spec
<1> QED  BY <1>5 DEF Held

----------------------------------------------------------------------------
(* Stopped groups: what an exit leaves as it is.                           *)

\* r, with signals: it may have been continued.
Heir(r, s) ==
    /\ s.pid = r.pid /\ s.pgrp = r.pgrp /\ s.session = r.session /\ s.p_pptr = r.p_pptr
    /\ s.state = "zombie" <=> r.state = "zombie"
    /\ s.state = "stopped" => r.state = "stopped"
Onward(T, U) == Typed(U) /\ \A x \in All : Heir(T[x], U[x])

LEMMA OnwardSame == ASSUME NEW T, Typed(T) PROVE Onward(T, T)
  BY DEF Onward, Heir

LEMMA OnwardChain ==
    ASSUME NEW T, NEW U, NEW V, Onward(T, U), Onward(U, V)
    PROVE  Onward(T, V)
  BY DEF Onward, Heir

LEMMA SentHeir ==
    ASSUME NEW r \in TaskStruct, NEW sig \in Signals
    PROVE  /\ Sent(r, sig) \in TaskStruct /\ Heir(r, Sent(r, sig))
           /\ sig = SIGCONT => Sent(r, sig).state # "stopped"
<1> DEFINE up == IF r.state = "stopped" THEN "running" ELSE r.state
           a == [r EXCEPT !.state = up]
           b == [a EXCEPT !.exit_code = 0]
           c == [b EXCEPT !.signal = b.signal \ {SIGSTOP}]
           woken == IF sig \notin {SIGKILL, SIGCONT} THEN r ELSE c
           v == (IF sig = SIGSTOP THEN woken.signal \ {SIGCONT} ELSE woken.signal) \cup {sig}
<1>1. a \in TaskStruct /\ Heir(r, a) /\ a.state # "stopped"
  BY DEF TaskStruct, States, Heir
<1> HIDE DEF a
<1>2. b \in TaskStruct /\ Heir(a, b) /\ b.state = a.state
  BY <1>1 DEF TaskStruct, Heir
<1> HIDE DEF b
<1>3. c \in TaskStruct /\ Heir(b, c) /\ c.state = b.state
  BY <1>2 DEF TaskStruct, Heir
<1> HIDE DEF c
<1>4. /\ woken \in TaskStruct /\ Heir(r, woken)
      /\ sig = SIGCONT => woken.state # "stopped"
  BY <1>1, <1>2, <1>3 DEF Heir
<1> HIDE DEF woken
<1>5. v \in SUBSET Signals
  BY <1>4 DEF TaskStruct
<1> HIDE DEF v
<1>6. /\ [woken EXCEPT !.signal = v] \in TaskStruct /\ Heir(woken, [woken EXCEPT !.signal = v])
      /\ [woken EXCEPT !.signal = v].state = woken.state
  BY <1>4, <1>5 DEF TaskStruct, Heir
<1>7. Sent(r, sig) = [woken EXCEPT !.signal = v]
  BY DEF Sent, v, woken, a, b, c, up
<1> QED  BY <1>4, <1>6, <1>7 DEF Heir

LEMMA HeirSame == ASSUME NEW r PROVE Heir(r, r)
  BY DEF Heir

LEMMA ToldOnward ==
    ASSUME NEW T, Typed(T), NEW father \in All
    PROVE  Onward(T, Told(T, father))
<1> DEFINE v == T[father].signal \cup {SIGCHLD}
           s == [T[father] EXCEPT !.signal = v]
<1>1. T[father] \in TaskStruct
  BY DEF Typed
<1>2. v \in SUBSET Signals
  BY <1>1 DEF TaskStruct, Signals
<1> HIDE DEF v
<1>3. s \in TaskStruct /\ Heir(T[father], s)
  BY <1>1, <1>2 DEF TaskStruct, Heir
<1>4. Told(T, father) = [x \in All |-> IF x = father THEN s ELSE T[x]]
  BY DEF Told, s, v, Typed
<1> HIDE DEF s
<1> QED  BY <1>3, <1>4, HeirSame DEF Onward, Typed

LEMMA KillPgOnward ==
    ASSUME NEW T, Typed(T), NEW pgrp, NEW sig \in Signals
    PROVE  Onward(T, kill_pg(T, pgrp, sig))
<1> DEFINE U == kill_pg(T, pgrp, sig)
<1>1. U = [x \in All |-> IF pgrp > 0 /\ x \in Listed /\ T[x].pgrp = pgrp
                         THEN Sent(T[x], sig) ELSE T[x]]
  BY DEF kill_pg, Typed
<1>2. ASSUME NEW x \in All PROVE U[x] \in TaskStruct /\ Heir(T[x], U[x])
  <2>1. T[x] \in TaskStruct
    BY DEF Typed
  <2>2. Sent(T[x], sig) \in TaskStruct /\ Heir(T[x], Sent(T[x], sig))
    BY <2>1, SentHeir
  <2>3. U[x] \in {T[x], Sent(T[x], sig)}
    BY <1>1
  <2> QED  BY <2>1, <2>2, <2>3, HeirSame
<1> HIDE DEF U
<1> QED  BY <1>1, <1>2 DEF Onward, Typed, U

\* And the groups that are hung up are continued.
LEMMA HangUpOnward ==
    ASSUME NEW T, Typed(T), NEW pgrps
    PROVE  /\ Onward(T, HangUpAll(T, pgrps))
           /\ \A x \in All : x \in Listed /\ T[x].pgrp \in pgrps \ {0}
                                => HangUpAll(T, pgrps)[x].state # "stopped"
<1> DEFINE U == HangUpAll(T, pgrps)
<1>1. U = [x \in All |-> IF x \in Listed /\ T[x].pgrp \in pgrps \ {0} THEN HangUp(T[x]) ELSE T[x]]
  BY DEF HangUpAll, Typed
<1>2. ASSUME NEW x \in All
      PROVE  /\ U[x] \in TaskStruct /\ Heir(T[x], U[x])
             /\ x \in Listed /\ T[x].pgrp \in pgrps \ {0} => U[x].state # "stopped"
  <2> DEFINE s == Sent(T[x], SIGHUP)
  <2>1. T[x] \in TaskStruct
    BY DEF Typed
  <2>2. s \in TaskStruct /\ Heir(T[x], s)
    BY <2>1, SentHeir DEF Signals
  <2> HIDE DEF s
  <2>3. /\ Sent(s, SIGCONT) \in TaskStruct /\ Heir(s, Sent(s, SIGCONT))
        /\ Sent(s, SIGCONT).state # "stopped"
    BY <2>2, SentHeir DEF Signals
  <2>4. Heir(T[x], Sent(s, SIGCONT))
    BY <2>2, <2>3 DEF Heir
  <2>5. U[x] = IF x \in Listed /\ T[x].pgrp \in pgrps \ {0} THEN Sent(s, SIGCONT) ELSE T[x]
    BY <1>1 DEF HangUp, s
  <2> HIDE DEF U
  <2> QED  BY <2>1, <2>3, <2>4, <2>5, HeirSame
<1> HIDE DEF U
<1> QED  BY <1>1, <1>2 DEF Onward, Typed, U

LEMMA LeaderGoneOnward ==
    ASSUME NEW T, Typed(T), NEW q
    PROVE  Onward(T, LeaderGone(T, q))
<1> DEFINE U == IF T[q].tty THEN kill_pg(T, tty.pgrp, SIGHUP) ELSE T
           D == Disconnected(U, q)
<1>1. Onward(T, U)
  BY KillPgOnward, OnwardSame DEF Signals
<1>2. LeaderGone(T, q) \in {T, D}
  BY DEF LeaderGone
<1>3. Typed(U)
  BY <1>1 DEF Onward
<1> HIDE DEF U
<1>4. D = [x \in All |-> IF x \in Listed /\ U[x].session = U[q].session
                         THEN [U[x] EXCEPT !.tty = FALSE] ELSE U[x]]
  BY <1>3 DEF Disconnected, Typed
<1>5. ASSUME NEW x \in All PROVE D[x] \in TaskStruct /\ Heir(U[x], D[x])
  <2> HIDE DEF D
  <2>1. U[x] \in TaskStruct
    BY <1>3 DEF Typed
  <2>2. D[x] \in {U[x], [U[x] EXCEPT !.tty = FALSE]}
    BY <1>4
  <2>3. [U[x] EXCEPT !.tty = FALSE] \in TaskStruct /\ Heir(U[x], [U[x] EXCEPT !.tty = FALSE])
    BY <2>1 DEF TaskStruct, Heir
  <2> QED  BY <2>1, <2>2, <2>3, HeirSame
<1> HIDE DEF D
<1>6. Onward(U, D)
  BY <1>4, <1>5 DEF Onward, Typed
<1> QED  BY <1>1, <1>2, <1>6, OnwardChain, OnwardSame

\* p is a zombie, and if this cuts off its group nobody in it is stopped.
LEMMA ZombieOnward ==
    ASSUME Typed(ts), NEW p \in Tasks, NEW father \in All, NEW T, Typed(T),
           T[p].state = "zombie",
           \A x \in All : /\ T[x].pid = ts[x].pid /\ T[x].pgrp = ts[x].pgrp
                          /\ T[x].session = ts[x].session /\ T[x].p_pptr = ts[x].p_pptr
                          /\ x # p => T[x] = ts[x],
           NEW Z, Z = Told(IF CutOff(T, p, father, T[p].pgrp) THEN HangUpAll(T, {T[p].pgrp})
                           ELSE T, father)
    PROVE  /\ Typed(Z) /\ Z[p].state = "zombie"
           /\ \A x \in All :
               /\ Z[x].pid = ts[x].pid /\ Z[x].pgrp = ts[x].pgrp
               /\ Z[x].session = ts[x].session /\ Z[x].p_pptr = ts[x].p_pptr
               /\ x # p => Heir(ts[x], Z[x])
               /\ Z[x].state = "stopped" => T[x].state = "stopped"
               /\ /\ CutOff(T, p, father, ts[p].pgrp) /\ ts[p].pgrp # 0
                  /\ x \in Listed /\ ts[x].pgrp = ts[p].pgrp
                  => Z[x].state # "stopped"
<1> DEFINE U == IF CutOff(T, p, father, T[p].pgrp) THEN HangUpAll(T, {T[p].pgrp}) ELSE T
<1>1. p \in All
  BY AllThere
<1>8. /\ Onward(T, U)
      /\ \A x \in All : CutOff(T, p, father, T[p].pgrp) /\ T[p].pgrp # 0 /\ x \in Listed
                            /\ T[x].pgrp = T[p].pgrp
                         => U[x].state # "stopped"
  BY HangUpOnward, OnwardSame
<1>9. Typed(U)
  BY <1>8 DEF Onward
<1>11. Z = Told(U, father)
  OBVIOUS
<1> HIDE DEF U
<1>12. Onward(U, Z) /\ Onward(T, Z)
  BY <1>8, <1>9, <1>11, ToldOnward, OnwardChain
<1>13. /\ Typed(Z) /\ Z[p].state = "zombie"
       /\ \A x \in All :
               /\ Z[x].pid = ts[x].pid /\ Z[x].pgrp = ts[x].pgrp
               /\ Z[x].session = ts[x].session /\ Z[x].p_pptr = ts[x].p_pptr
               /\ x # p => Heir(ts[x], Z[x])
               /\ Z[x].state = "stopped" => T[x].state = "stopped"
  <2>1. Typed(Z) /\ \A x \in All : Heir(T[x], Z[x])
    BY <1>12 DEF Onward
  <2>2. Z[p].state = "zombie"
    BY <1>1, <2>1 DEF Heir
  <2>3. ASSUME NEW x \in All
        PROVE  /\ Z[x].pid = ts[x].pid /\ Z[x].pgrp = ts[x].pgrp
               /\ Z[x].session = ts[x].session /\ Z[x].p_pptr = ts[x].p_pptr
               /\ Z[x].state = "stopped" => T[x].state = "stopped"
    <3>1. Heir(T[x], Z[x])
      BY <2>1
    <3> QED  BY <3>1 DEF Heir
  <2>4. ASSUME NEW x \in All, x # p PROVE Heir(ts[x], Z[x])
    BY <2>1, <2>4
  <2> QED  BY <2>1, <2>2, <2>3, <2>4
<1>14. ASSUME NEW x \in All, CutOff(T, p, father, ts[p].pgrp), ts[p].pgrp # 0,
              x \in Listed, ts[x].pgrp = ts[p].pgrp
       PROVE  Z[x].state # "stopped"
  <2>1. U[x].state # "stopped"
    BY <1>1, <1>8, <1>14
  <2> QED  BY <1>12, <2>1 DEF Onward, Heir
<1> QED  BY <1>13, <1>14

LEMMA ZombieIs ==
    ASSUME Typed(ts), NEW p \in Tasks, local[p].n \in Nat,
           NEW T, T = [ts EXCEPT ![p].state = "zombie", ![p].exit_code = local[p].n]
    PROVE  /\ Typed(T) /\ T[p].state = "zombie"
           /\ \A x \in All : /\ T[x].pid = ts[x].pid /\ T[x].pgrp = ts[x].pgrp
                             /\ T[x].session = ts[x].session /\ T[x].p_pptr = ts[x].p_pptr
                             /\ x # p => T[x] = ts[x]
           /\ Zombie(p) = Told(IF CutOff(T, p, ts[p].p_pptr, T[p].pgrp)
                               THEN HangUpAll(T, {T[p].pgrp}) ELSE T, ts[p].p_pptr)
<1> DEFINE n == local[p].n
           a == [ts[p] EXCEPT !.state = "zombie"]
           s == [a EXCEPT !.exit_code = n]
<1>1. ts[p] \in TaskStruct /\ p \in All
  BY AllThere DEF Typed
<1>2. /\ s \in TaskStruct /\ s.state = "zombie" /\ s.pid = ts[p].pid /\ s.pgrp = ts[p].pgrp
      /\ s.session = ts[p].session /\ s.p_pptr = ts[p].p_pptr
  <2>1. n \in Nat
    OBVIOUS
  <2> HIDE DEF n
  <2> QED  BY <1>1, <2>1 DEF TaskStruct, States
<1>5. T = [x \in All |-> IF x = p THEN s ELSE ts[x]]
  BY DEF Typed, a, s, n
<1>6. Zombie(p) = Told(IF CutOff(T, p, ts[p].p_pptr, T[p].pgrp)
                       THEN HangUpAll(T, {T[p].pgrp}) ELSE T, ts[p].p_pptr)
  BY DEF Zombie
<1> HIDE DEF s
<1>7. Typed(T)
  BY <1>2, <1>5 DEF Typed
<1> QED  BY <1>1, <1>2, <1>5, <1>6, <1>7

\* The children of p are init's, and whose group is cut off when child number i
\* has been handed over is continued.
LEMMA OrphansOnward ==
    ASSUME NEW T, Typed(T), NEW p \in Tasks, NEW kids, kids = Kids(T, p),
           NEW V, V = Orphans(T, p)
    PROVE  \A x \in All :
            /\ V[x].pid = T[x].pid /\ V[x].pgrp = T[x].pgrp /\ V[x].session = T[x].session
            /\ V[x].state = "zombie" <=> T[x].state = "zombie"
            /\ V[x].state = "stopped" => T[x].state = "stopped"
            /\ \A i \in 1..Len(kids) :
                 /\ CutOff(Adopted(T, {kids[j] : j \in 1..i}), p, kids[i], T[kids[i]].pgrp)
                 /\ x \in Listed /\ T[x].pgrp = T[kids[i]].pgrp /\ T[x].pgrp # 0
                 => V[x].state # "stopped"
<1> DEFINE after(i) == Adopted(T, {kids[j] : j \in 1..i})
           all == after(Len(kids))
           cut == {T[kids[i]].pgrp : i \in {j \in 1..Len(kids) :
                       CutOff(after(j), p, kids[j], T[kids[j]].pgrp)}}
           hung == HangUpAll(all, cut)
           S == {kids[j] : j \in 1..Len(kids)}
<1>1. \A x \in All : all[x] = IF x \in S THEN [T[x] EXCEPT !.p_pptr = InitTask] ELSE T[x]
  BY DEF Adopted, Typed
<1>2. V = IF \E i \in 1..Len(kids) : T[kids[i]].state = "zombie"
          THEN Told(hung, InitTask) ELSE hung
  BY DEF Orphans
<1>3. V \in {hung, Told(hung, InitTask)}
  BY <1>2
<1>4. Typed(all)
  BY OrphansTied
<1>5. \A i \in 1..Len(kids) : CutOff(after(i), p, kids[i], T[kids[i]].pgrp)
                               => T[kids[i]].pgrp \in cut
  OBVIOUS
<1> HIDE DEF all, cut
<1>6. /\ Onward(all, hung)
      /\ \A x \in All : x \in Listed /\ all[x].pgrp \in cut \ {0} => hung[x].state # "stopped"
  BY <1>4, HangUpOnward
<1> HIDE DEF hung
<1>7. Onward(hung, V)
  <2>1. Typed(hung)
    BY <1>6 DEF Onward
  <2> QED  BY <1>3, <2>1, AllThere, ToldOnward, OnwardSame
<1>8. ASSUME NEW x \in All
      PROVE  /\ all[x].pid = T[x].pid /\ all[x].pgrp = T[x].pgrp
             /\ all[x].session = T[x].session /\ all[x].state = T[x].state
  <2>1. T[x] \in TaskStruct
    BY DEF Typed
  <2>2. all[x] \in {T[x], [T[x] EXCEPT !.p_pptr = InitTask]}
    BY <1>1
  <2> QED  BY <2>1, <2>2 DEF TaskStruct
<1>9. ASSUME NEW x \in All
      PROVE  /\ V[x].pid = T[x].pid /\ V[x].pgrp = T[x].pgrp /\ V[x].session = T[x].session
             /\ V[x].state = "zombie" <=> T[x].state = "zombie"
             /\ V[x].state = "stopped" => T[x].state = "stopped" /\ hung[x].state = "stopped"
  <2>1. Heir(all[x], hung[x]) /\ Heir(hung[x], V[x])
    BY <1>6, <1>7 DEF Onward
  <2> QED  BY <1>8, <2>1 DEF Heir
<1>10. ASSUME NEW x \in All, NEW i \in 1..Len(kids),
              CutOff(after(i), p, kids[i], T[kids[i]].pgrp),
              x \in Listed, T[x].pgrp = T[kids[i]].pgrp, T[x].pgrp # 0
       PROVE  V[x].state # "stopped"
  <2>1. all[x].pgrp \in cut \ {0}
    BY <1>5, <1>8, <1>10
  <2>2. hung[x].state # "stopped"
    BY <1>6, <1>10, <2>1
  <2> QED  BY <1>9, <2>2
<1> QED  BY <1>9, <1>10

\* The greatest of the numbers from 1 to n of which P holds.
LEMMA GreatestIn ==
    ASSUME NEW n \in Nat, NEW S, S \subseteq 1..n, S # {}
    PROVE  \E m \in S : \A i \in S : i <= m
<1> DEFINE D == {n - i : i \in S}
<1>1. D \subseteq Nat /\ D # {}
  <2>1. \A i \in S : n - i \in Nat
    OBVIOUS
  <2>2. PICK i \in S : TRUE
    OBVIOUS
  <2>3. n - i \in D
    BY <2>2
  <2> QED  BY <2>1, <2>3
<1> HIDE DEF D
<1>2. PICK d \in D : \A c \in D : d <= c
  BY <1>1, LeastIn
<1>3. PICK m \in S : d = n - m
  BY <1>2 DEF D
<1>4. \A i \in S : n - m <= n - i
  BY <1>2, <1>3 DEF D
<1> QED  BY <1>3, <1>4

\* Nobody is in the table before copy_process() is done with it.
NoHalf == \A x \in Tasks : pc[x] # "new"

LEMMA NobodyHalf ==
    ASSUME Core, Safe, NoHalf
    PROVE  Listed \subseteq Linkable \cup {InitTask} /\ Linkable \cup {InitTask} \subseteq Listed
<1>1. \A x \in Listed : x \in Tasks /\ pc[x] # "free"
  BY ListedTasks DEF Core, FreeUnlisted
<1> QED  BY <1>1 DEF Linkable, Tasks, NoHalf, Safe

\* What is_orphaned_pgrp() and has_stopped_jobs() need to find the group g cut off,
\* for T that is ts but for p and for the children that have been handed over.
LEMMA CutOffFound ==
    ASSUME NEW T, NEW p, NEW a, NEW g, NEW y \in Listed,
           T[a].pgrp # T[p].pgrp, T[a].session = T[p].session,
           T[y].pgrp = g, T[y].state = "stopped",
           \A x \in Listed : T[x].pgrp = g /\ T[x].state # "zombie" =>
              \/ T[T[x].p_pptr].pid = 1 \/ T[T[x].p_pptr].pgrp = g
              \/ T[T[x].p_pptr].session # T[x].session
    PROVE  CutOff(T, p, a, g)
  BY DEF CutOff, is_orphaned_pgrp, has_stopped_jobs

\* Who is in a group that is detached after the exit of p has its father in the
\* group, in another session, or it is p or init.
LEMMA Loose ==
    ASSUME Family, Core, Safe, NoHalf, NEW p \in Linkable, NEW g, g # 0,
           \A x \in All :
              /\ ts'[x].pgrp = ts[x].pgrp /\ ts'[x].session = ts[x].session
              /\ ts'[x].state = "zombie" <=> x = p \/ ts[x].state = "zombie",
           \A x \in Linkable : ts[x].p_pptr # p => ts'[x].p_pptr = ts[x].p_pptr,
           Listed' = Listed, Detached(g)',
           NEW x \in Listed, ts[x].pgrp = g, ts[x].state # "zombie", x # p,
           ts[x].p_pptr # p, ts[x].p_pptr # InitTask
    PROVE  /\ ts[x].p_pptr \in Linkable \ {p}
           /\ ts[ts[x].p_pptr].pgrp = g \/ ts[ts[x].p_pptr].session # ts[x].session
<1> DEFINE h == ts[x].p_pptr
<1>1. x \in Linkable /\ x \in All
  <2>1. x # InitTask
    BY DEF Family, Crew
  <2> QED  BY <2>1, NobodyHalf, AllThere DEF Linkable
<1>2. h \in Linkable /\ h \in All /\ ts[h].state # "zombie"
  <2>1. h \in Linkable
    BY <1>1 DEF Family, Rooted, Lined
  <2>2. ts[h].state # "zombie"
    BY <1>1 DEF Family, Rooted, Living
  <2> QED  BY <2>1, <2>2, AllThere DEF Linkable
<1>3. ts'[x].p_pptr = h
  BY <1>1
<1> HIDE DEF h
<1>4. ts'[x].pgrp = g /\ ts'[x].state # "zombie" /\ ts'[h].state # "zombie"
      /\ ts'[h].pgrp = ts[h].pgrp /\ ts'[h].session = ts[h].session /\ ts'[x].session = ts[x].session
  BY <1>1, <1>2, h # p DEF h
<1>5. ts'[h].pgrp = g \/ ts'[h].session # ts'[x].session
  <2>1. h # InitTask
    BY DEF h
  <2> QED  BY <1>3, <1>4, <2>1 DEF Detached
<1> QED  BY <1>2, <1>4, <1>5 DEF h

LEMMA DieContinues ==
    ASSUME Family, Core, Safe, NoHalf, NEW p \in Tasks, Die(p), NEW g,
           ~Detached(g), Detached(g)', Suspended(g)'
    PROVE  FALSE
<1> DEFINE Z == Zombie(p)
           V == Orphans(Z, p)
           W == Spliced(V, p)
           L == Linkable
           T == [ts EXCEPT ![p].state = "zombie", ![p].exit_code = local[p].n]
           kids == Kids(Z, p)
<1>1. /\ pc[p] = "exit" /\ UNCHANGED <<task, last_pid, spaces, nr, use, shell>>
      /\ IF Kids(V, p) # <<>> /\ V[InitTask].p_cptr = Null
         THEN panicked' = TRUE /\ UNCHANGED <<ts, tty, pc, local>>
         ELSE ts' = LeaderGone(W, p)
  BY DEF Die
<1>2. Typed(ts) /\ local \in [Tasks -> Locals]
  BY DEF Family, TypeOK, Typed, All
<1>3. /\ p \in L /\ p # InitTask /\ L \subseteq Pages /\ L \subseteq All /\ InitTask \in All
      /\ local[p].n \in Nat /\ InitTask \notin L /\ p \in All
  <2>1. p # InitTask
    BY <1>1 DEF Family, Crew
  <2>2. p \in Pages
    BY <2>1 DEF Tasks
  <2> QED  BY <1>1, <1>2, <2>1, <2>2, AllThere, TasksAssumption DEF Linkable, Locals
<1>4. PICK pos, age : Lined(ts, L, pos) /\ Aged(ts, L, age) /\ Living(ts, L)
  BY DEF Family, Rooted
<1>5. \A x \in L : ts[x].p_pptr \in L \cup {InitTask} /\ ts[x].p_pptr \in All
  BY <1>3, <1>4 DEF Lined
<1>6. /\ Kids(V, p) # <<>> => V[InitTask].p_cptr # Null
      /\ Typed(V) /\ Kin(ts, W, p)
      /\ \A x \in L : ts[x].p_pptr # p => W[x].p_pptr = ts[x].p_pptr
      /\ \A x \in All : W[x].state = V[x].state /\ SameRest(W[x], V[x])
  <2>1. Rooted(ts, L)
    BY DEF Family
  <2> HIDE DEF L
  <2> QED  BY <1>2, <1>3, <2>1, DeadIs
<1>7. /\ Typed(T) /\ T[p].state = "zombie"
      /\ \A x \in All : /\ T[x].pid = ts[x].pid /\ T[x].pgrp = ts[x].pgrp
                        /\ T[x].session = ts[x].session /\ T[x].p_pptr = ts[x].p_pptr
                        /\ x # p => T[x] = ts[x]
      /\ Z = Told(IF CutOff(T, p, ts[p].p_pptr, T[p].pgrp)
                  THEN HangUpAll(T, {T[p].pgrp}) ELSE T, ts[p].p_pptr)
  <2> HIDE DEF T
  <2> QED  BY <1>2, <1>3, ZombieIs DEF T
<1> HIDE DEF Z, V, W, T, kids
<1>8. /\ Typed(Z) /\ Z[p].state = "zombie"
      /\ \A x \in All :
          /\ Z[x].pid = ts[x].pid /\ Z[x].pgrp = ts[x].pgrp
          /\ Z[x].session = ts[x].session /\ Z[x].p_pptr = ts[x].p_pptr
          /\ x # p => Heir(ts[x], Z[x])
          /\ Z[x].state = "stopped" => T[x].state = "stopped"
          /\ /\ CutOff(T, p, ts[p].p_pptr, ts[p].pgrp) /\ ts[p].pgrp # 0
             /\ x \in Listed /\ ts[x].pgrp = ts[p].pgrp
             => Z[x].state # "stopped"
  BY <1>2, <1>3, <1>5, <1>7, ZombieOnward
<1>9. \A x \in All :
         /\ V[x].pid = Z[x].pid /\ V[x].pgrp = Z[x].pgrp /\ V[x].session = Z[x].session
         /\ V[x].state = "zombie" <=> Z[x].state = "zombie"
         /\ V[x].state = "stopped" => Z[x].state = "stopped"
         /\ \A i \in 1..Len(kids) :
              /\ CutOff(Adopted(Z, {kids[j] : j \in 1..i}), p, kids[i], Z[kids[i]].pgrp)
              /\ x \in Listed /\ Z[x].pgrp = Z[kids[i]].pgrp /\ Z[x].pgrp # 0
              => V[x].state # "stopped"
  <2>1. kids = Kids(Z, p) /\ V = Orphans(Z, p)
    BY DEF kids, V
  <2> QED  BY <1>8, <2>1, OrphansOnward
<1>10. ts' = LeaderGone(W, p)
  BY <1>1, <1>6
<1>11. Typed(W)
  BY <1>6 DEF Kin
<1>12. \A x \in All : Heir(W[x], ts'[x])
  BY <1>10, <1>11, LeaderGoneOnward DEF Onward
<1>13. ASSUME NEW x \in All
       PROVE  /\ ts'[x].pgrp = ts[x].pgrp /\ ts'[x].session = ts[x].session
              /\ ts'[x].state = "zombie" <=> x = p \/ ts[x].state = "zombie"
              /\ Z[x].state = "zombie" <=> x = p \/ ts[x].state = "zombie"
              /\ ts'[x].state = "stopped" => V[x].state = "stopped" /\ Z[x].state = "stopped"
                                             /\ T[x].state = "stopped"
              /\ ts'[x].p_pptr = W[x].p_pptr
  <2>1. Heir(W[x], ts'[x])
    BY <1>12
  <2>2. W[x].state = V[x].state /\ W[x].pgrp = V[x].pgrp /\ W[x].session = V[x].session
    BY <1>6 DEF SameRest
  <2>3. x # p => Heir(ts[x], Z[x])
    BY <1>8
  <2> QED  BY <1>8, <1>9, <2>1, <2>2, <2>3 DEF Heir
<1>14. Listed' = Listed
  BY <1>1 DEF Listed
<1>15. Listed \subseteq L \cup {InitTask} /\ L \cup {InitTask} \subseteq Listed
  BY NobodyHalf
<1>16. ts[InitTask].pgrp = 0 /\ ts[InitTask].pid = 1
  BY DEF Family, Crew
<1>17. PICK y \in Listed : g # 0 /\ ts'[y].pgrp = g /\ ts'[y].state = "stopped"
  BY <1>14 DEF Suspended
<1>18. PICK q \in Listed :
        /\ ts[q].pgrp = g /\ ts[q].state # "zombie"
        /\ ts[q].p_pptr # InitTask /\ ts[ts[q].p_pptr].state # "zombie"
        /\ ts[ts[q].p_pptr].pgrp # g /\ ts[ts[q].p_pptr].session = ts[q].session
  BY DEF Detached
<1>19. y \in All /\ q \in L /\ q \in All /\ ts[q].p_pptr \in L
  BY <1>3, <1>5, <1>15, <1>16, <1>17, <1>18
<1>20. \A x \in L : ts[x].p_pptr # p => ts'[x].p_pptr = ts[x].p_pptr
  BY <1>3, <1>6, <1>13
<1>21. ASSUME NEW x \in Listed, ts[x].pgrp = g, ts[x].state # "zombie", x # p,
              ts[x].p_pptr # p, ts[x].p_pptr # InitTask
       PROVE  /\ ts[x].p_pptr \in L \ {p}
              /\ ts[ts[x].p_pptr].pgrp = g \/ ts[ts[x].p_pptr].session # ts[x].session
  BY <1>3, <1>13, <1>14, <1>17, <1>20, <1>21, Loose
<1>22. q = p \/ ts[q].p_pptr = p
  BY <1>18, <1>21
<1>23. CASE q = p
  <2>1. ts[p].p_pptr \in All /\ ts[p].pgrp = g
    BY <1>18, <1>19, <1>23, <1>3
  <2>2. ASSUME NEW x \in Listed, T[x].pgrp = g, T[x].state # "zombie"
        PROVE  \/ T[T[x].p_pptr].pid = 1 \/ T[T[x].p_pptr].pgrp = g
               \/ T[T[x].p_pptr].session # T[x].session
    <3>1. x \in L /\ x \in All /\ x # p /\ ts[x].pgrp = g /\ ts[x].state # "zombie"
      BY <1>3, <1>7, <1>15, <1>16, <1>17, <2>2
    <3>2. T[x].p_pptr = ts[x].p_pptr /\ ts[x].p_pptr \in All
      BY <1>5, <1>7, <3>1
    <3>3. CASE ts[x].p_pptr = p
      BY <1>3, <1>7, <2>1, <3>2, <3>3
    <3>4. CASE ts[x].p_pptr = InitTask
      BY <1>3, <1>7, <1>16, <3>2, <3>4
    <3>5. CASE ts[x].p_pptr \notin {p, InitTask}
      BY <1>7, <1>21, <3>1, <3>2, <3>5
    <3> QED  BY <3>3, <3>4, <3>5
  <2>3. T[ts[p].p_pptr].pgrp # T[p].pgrp /\ T[ts[p].p_pptr].session = T[p].session
    BY <1>3, <1>7, <1>18, <1>23, <2>1
  <2>4. T[y].pgrp = g /\ T[y].state = "stopped"
    BY <1>7, <1>13, <1>17, <1>19
  <2>5. CutOff(T, p, ts[p].p_pptr, g)
    BY <2>2, <2>3, <2>4, CutOffFound
  <2> QED  BY <1>8, <1>13, <1>17, <1>19, <2>1, <2>5
<1>24. CASE q # p /\ ts[q].p_pptr = p
  <2>1. Listing(kids, ts, L, pos, p)
    <3>1. Z[p].p_cptr = ts[p].p_cptr /\ \A x \in L : Z[x].p_osptr = ts[x].p_osptr
      <4>1. Tied(ts, Z, p)
        BY <1>2, <1>3, <1>5, ZombieTied DEF Z
      <4> QED  BY <1>3, <4>1 DEF Tied, Fit
    <3> QED  BY <1>3, <1>4, <3>1, KidsLike DEF kids
  <2>2. /\ Len(kids) \in Nat /\ pos \in [Pages -> Nat \ {0}]
        /\ \A i \in 1..Len(kids) : kids[i] \in L /\ ts[kids[i]].p_pptr = p
        /\ \A x \in L : ts[x].p_pptr = p => pos[x] \in 1..Len(kids) /\ kids[pos[x]] = x
    BY <1>4, <2>1 DEF Listing, Lined
  <2> DEFINE J == {i \in 1..Len(kids) : /\ ts[kids[i]].pgrp = g
                                        /\ ts[kids[i]].session = ts[p].session}
  <2>3. pos[q] \in J
    BY <1>18, <1>19, <1>24, <2>2
  <2>4. PICK j \in J : \A i \in J : i <= j
    BY <2>2, <2>3, GreatestIn
  <2> DEFINE S == {kids[i] : i \in 1..j}
             A == Adopted(Z, S)
             a == kids[j]
  <2>5. \A x \in All :
          /\ A[x].p_pptr = IF x \in S THEN InitTask ELSE ts[x].p_pptr
          /\ A[x].state = Z[x].state /\ A[x].pid = ts[x].pid
          /\ A[x].pgrp = ts[x].pgrp /\ A[x].session = ts[x].session
    <3> HIDE DEF S
    <3>1. \A x \in All : /\ A[x] = IF x \in S THEN [Z[x] EXCEPT !.p_pptr = InitTask] ELSE Z[x]
                         /\ Z[x] \in TaskStruct
      <4>1. Z \in [All -> TaskStruct]
        <5>1. Typed(Z)
          BY <1>8
        <5> QED  BY <5>1 DEF Typed
      <4> QED  BY <4>1 DEF Adopted
    <3> HIDE DEF A
    <3>2. ASSUME NEW x \in All
          PROVE  /\ A[x].p_pptr = IF x \in S THEN InitTask ELSE Z[x].p_pptr
                 /\ A[x].state = Z[x].state /\ A[x].pid = Z[x].pid
                 /\ A[x].pgrp = Z[x].pgrp /\ A[x].session = Z[x].session
      <4>1. /\ A[x] = IF x \in S THEN [Z[x] EXCEPT !.p_pptr = InitTask] ELSE Z[x]
            /\ Z[x] \in TaskStruct
        BY <3>1
      <4> QED  BY <4>1 DEF TaskStruct
    <3>3. \A x \in All : /\ Z[x].pid = ts[x].pid /\ Z[x].pgrp = ts[x].pgrp
                         /\ Z[x].session = ts[x].session /\ Z[x].p_pptr = ts[x].p_pptr
      BY <1>8
    <3> QED  BY <3>2, <3>3
  <2>6. \A x \in L : ts[x].p_pptr = p /\ x \notin S => pos[x] \in 1..Len(kids) /\ ~(pos[x] <= j)
    BY <2>2
  <2>7. a \in L /\ a \in All /\ ts[a].pgrp = g /\ ts[a].session = ts[p].session /\ j \in 1..Len(kids)
    BY <1>3, <2>2, <2>4
  <2>8. A = Adopted(Z, {kids[i] : i \in 1..j}) /\ a = kids[j]
    OBVIOUS
  <2> HIDE DEF A, S, a
  <2>9. ts[p].pgrp # g
    BY <1>18, <1>24
  <2>10. ASSUME NEW x \in Listed, A[x].pgrp = g, A[x].state # "zombie"
         PROVE  \/ A[A[x].p_pptr].pid = 1 \/ A[A[x].p_pptr].pgrp = g
                \/ A[A[x].p_pptr].session # A[x].session
    <3>0. x \in All
      BY <1>3, <1>15
    <3>1. x \in L /\ x # p /\ ts[x].pgrp = g /\ ts[x].state # "zombie"
      BY <1>3, <1>13, <1>15, <1>16, <1>17, <2>5, <2>10, <3>0
    <3>2. CASE A[x].p_pptr = InitTask
      BY <1>3, <1>16, <2>5, <3>2
    <3>3. CASE A[x].p_pptr # InitTask
      <4>1. x \notin S /\ A[x].p_pptr = ts[x].p_pptr /\ ts[x].p_pptr \in All
        BY <1>5, <2>5, <3>0, <3>1, <3>3
      <4>2. CASE ts[x].p_pptr = p
        <5>1. pos[x] \in 1..Len(kids) /\ ~(pos[x] <= j) /\ kids[pos[x]] = x
          BY <2>2, <2>6, <3>1, <4>1, <4>2
        <5>2. ts[x].session # ts[p].session
          BY <2>4, <3>1, <5>1
        <5> QED  BY <1>3, <2>5, <3>0, <4>1, <4>2, <5>2
      <4>3. CASE ts[x].p_pptr # p
        BY <1>21, <2>5, <3>0, <3>1, <3>3, <4>1, <4>3
      <4> QED  BY <4>2, <4>3
    <3> QED  BY <3>2, <3>3
  <2>11. A[y].pgrp = g /\ A[y].state = "stopped"
    BY <1>13, <1>17, <1>19, <2>5
  <2>12. A[a].pgrp # A[p].pgrp /\ A[a].session = A[p].session
    BY <1>3, <2>5, <2>7, <2>9
  <2>13. CutOff(A, p, a, g)
    BY <2>10, <2>11, <2>12, CutOffFound
  <2>14. Z[a].pgrp = g /\ Z[y].pgrp = g
    BY <1>8, <1>13, <1>17, <1>19, <2>7
  <2>15. V[y].state # "stopped"
    BY <1>9, <1>17, <1>19, <2>7, <2>8, <2>13, <2>14
  <2> QED  BY <1>13, <1>17, <1>19, <2>15
<1> QED  BY <1>22, <1>23, <1>24

\* Where a step leads: no task is left half made, and only an exit makes one dead.
Onwards == \A x \in Tasks : /\ pc'[x] = "new" => pc[x] = "new"
                            /\ pc'[x] = "dead" /\ pc[x] # "dead" => Die(x)

LEMMA PlacesNext ==
    ASSUME FInv, use.sleeps = {}, NEW p \in Tasks, Step(p)
    PROVE  Onwards
<1>1. pc \in [Tasks -> PCs] /\ Safe
  BY DEF FInv, Family, TypeOK, PCs
<1>2. ASSUME pc' = pc PROVE Onwards
  BY <1>2 DEF Onwards
<1>3. ASSUME NEW a, NEW v, v \notin {"new", "dead"}, pc' = [pc EXCEPT ![a] = v] PROVE Onwards
  BY <1>1, <1>3 DEF Onwards
<1>4. ASSUME NEW a, NEW v, v \notin {"new", "dead"}, NEW b, NEW w, w \notin {"new", "dead"},
             pc' = [pc EXCEPT ![a] = v, ![b] = w]
      PROVE  Onwards
  BY <1>1, <1>4 DEF Onwards
<1>5. CASE Deliver(p)
  BY <1>2, <1>3, <1>5 DEF Deliver
<1>6. CASE PageCame(p)
  BY <1>6 DEF PageCame, FInv, IInv, Core, NoPage
<1>7. CASE CopyDone(p)
  <2>1. \/ pc' = [pc EXCEPT ![p] = "user", ![local[p].q] = "user"]
        \/ pc' = [pc EXCEPT ![p] = "user", ![local[p].q] = "free"]
    BY <1>7 DEF CopyDone
  <2> QED  BY <1>4, <2>1
<1>8. CASE Die(p)
  <2>1. pc' = pc \/ pc' = [pc EXCEPT ![p] = "dead"]
    BY <1>8 DEF Die
  <2> QED  BY <1>1, <1>8, <2>1 DEF Onwards
<1>9. ASSUME NEW q, NEW awake, Collect(p, q, awake), ts[q].state = "zombie" => q \in Listed
      PROVE  Onwards
  <2>1. \/ pc' = [pc EXCEPT ![p] = "user"]
        \/ pc' = [pc EXCEPT ![p] = "user", ![q] = "free"]
    BY <1>9 DEF Collect, WaitReturns
  <2> QED  BY <1>3, <1>4, <2>1
<1>10. ASSUME NEW q, NEW awake, Collect(p, q, awake) PROVE Onwards
  <2>1. CASE pc' = pc
    BY <1>2, <2>1
  <2>2. CASE pc' # pc
    BY <1>9, <1>10, <2>2 DEF Collect
  <2> QED  BY <2>1, <2>2
<1>11. CASE WaitAgain(p)
  <2>1. WaitReturns(p, -1) \/ \E q, awake : Collect(p, q, awake)
    BY <1>11 DEF WaitAgain
  <2> QED  BY <1>3, <1>10, <2>1 DEF WaitReturns
<1>12. CASE Fork(p)
  <2> DEFINE free == {n \in Slots : task[n] = Null}
  <2>1. CASE Failed(p)
    BY <1>3, <2>1 DEF Failed
  <2>2. CASE free # {} /\ CopyProcess(p, Lowest(free), NextPid)
    <3>1. Lowest(free) \in free
      BY <2>2, LowestIn, SlotsAssumption
    <3>2. Lowest(free) \notin spaces
      BY <1>1, <3>1 DEF Safe
    <3> HIDE DEF free
    <3> DEFINE n == Lowest(free)
    <3>3. CopyProcess(p, n, NextPid) /\ n \notin spaces /\ "copy" \notin use.sleeps
      BY <2>2, <3>2
    <3> HIDE DEF n
    <3>4. PICK q \in Pages : pc' = [pc EXCEPT ![p] = "user", ![q] = "user"]
      BY <3>3 DEF CopyProcess
    <3> QED  BY <1>1, <3>4 DEF Onwards
  <2> HIDE DEF Onwards
  <2> QED  BY <1>12, <2>1, <2>2 DEF Fork
<1>13. ASSUME NEW w \in Waits, NEW opts \in Options, Wait(p, w, opts) PROVE Onwards
  <2>1. pc' = [pc EXCEPT ![p] = "wait"] \/ \E q, awake : Collect(p, q, awake)
    BY <1>13 DEF Wait
  <2> QED  BY <1>3, <1>10, <2>1
<1>14. ASSUME NEW c \in Codes, Exit(p, c) PROVE Onwards
  BY <1>3, <1>14 DEF Exit
<1>15. CASE Setsid(p) \/ OpenTty(p)
  BY <1>2, <1>15 DEF Setsid, OpenTty
<1>16. ASSUME NEW w \in -MaxPid..MaxPid, NEW sig \in use.sends, Kill(p, w, sig) PROVE Onwards
  BY <1>2, <1>16 DEF Kill
<1>17. ASSUME NEW q \in Tasks, NEW pgid \in 1..MaxPid, Setpgid(p, q, pgid) PROVE Onwards
  BY <1>2, <1>17 DEF Setpgid
<1>18. ASSUME NEW pgrp \in 1..MaxPid, SetForeground(p, pgrp) PROVE Onwards
  BY <1>2, <1>18 DEF SetForeground
<1> HIDE DEF Onwards
<1> QED  BY <1>5, <1>6, <1>7, <1>8, <1>11, <1>12, <1>13, <1>14, <1>15, <1>16, <1>17, <1>18
         DEF Step, Continue

OInv == FInv /\ (use.sleeps = {} => NoHalf)

LEMMA StepOInv ==
    ASSUME OInv, [Next]_vars
    PROVE  OInv' /\ (use.sleeps = {} => Onwards)
<1>1. FInv'
  BY StepFInv DEF OInv
<1>2. use.sleeps = {} => Onwards
  <2>1. CASE Next
    BY <2>1, PlacesNext DEF Next, OInv
  <2>2. CASE UNCHANGED vars
    BY <2>2 DEF vars, Onwards
  <2> QED  BY <2>1, <2>2
<1>3. use' = use
  <2>1. ASSUME NEW p \in Tasks, Continue(p) PROVE use' = use
    BY <2>1 DEF Continue, Deliver, PageCame, CopyDone, Die, WaitAgain
  <2>2. ASSUME NEW p \in Tasks, Step(p) PROVE use' = use
    BY <2>1, <2>2 DEF Step, Fork, Setsid, OpenTty, Exit, Wait, Kill, Setpgid, SetForeground
  <2> QED  BY <2>2 DEF Next, vars
<1> QED  BY <1>1, <1>2, <1>3 DEF OInv, NoHalf, Onwards

\* "Newly orphaned process groups are to receive a SIGHUP and a SIGCONT"
\* (exit.c:306): when the exit of a process, or the adoption of its children,
\* cuts off a group from its session, nobody in it stays stopped.  It takes that
\* fork() does not sleep half way.
THEOREM OrphansAlwaysContinued == Spec => OrphansContinued
<1>1. Init => OInv
  <2>1. Init => NoHalf
    BY DEF Init, NoHalf
  <2> QED  BY <2>1, InitFInv DEF OInv
<1>2. OInv /\ [Next]_vars => OInv'
  BY StepOInv
<1>3. OInv /\ [Next]_vars =>
        [\A p \in Tasks : pc[p] = "exit" /\ pc'[p] = "dead" /\ use.sleeps = {} =>
            \A g \in Pids : ~Detached(g) /\ Detached(g)' => ~Suspended(g)']_vars
  <2> SUFFICES ASSUME OInv, [Next]_vars, NEW p \in Tasks, pc[p] = "exit", pc'[p] = "dead",
                      use.sleeps = {}, NEW g \in Pids, ~Detached(g), Detached(g)', Suspended(g)'
               PROVE  FALSE
    OBVIOUS
  <2>1. Die(p)
    BY StepOInv DEF Onwards
  <2>2. Family /\ Core /\ Safe /\ NoHalf
    BY DEF OInv, FInv, IInv
  <2> QED  BY <2>1, <2>2, DieContinues
<1> QED  BY <1>1, <1>2, <1>3, PTL DEF Spec, OrphansContinued
=============================================================================
