---------------------------- MODULE MemoryProofs ----------------------------
(***************************************************************************)
(* The counts of mem_map[] and the owners of the pages of the swap device, *)
(* for any number of processes, pages and addresses, as long as            *)
(* get_free_page() does not have to swap in un_wp_page() and in            *)
(* try_to_share().                                                         *)
(*                                                                         *)
(* What a process refers to is one function, Refs, and a page is counted   *)
(* right when as many of its values are that page.  Every step changes a   *)
(* few of them, or frees all of one process.  PlaceOK says what each place *)
(* in the code knows of the tables: the entry that is being filled is still*)
(* empty, the one that is read in still on the swap device, the child that *)
(* is being made has nothing beyond the loop.  Sole is copy on write: what *)
(* an entry may write, and what a process has in a variable, has one user. *)
(*                                                                         *)
(* ValuesOK is what the memory of a process needs beside them: a request   *)
(* is for the page of the process that waits for it, what is to be read    *)
(* has been written before; a clean page holds what the executable does,   *)
(* so that it may be dropped or shared; the page that is filled for an     *)
(* entry holds what the entry stands for; the child has what its parent    *)
(* has, as far as the loop of copy_page_tables() has come.  With them each *)
(* step is one of Spaces, or none that a process could see.  Good is that, *)
(* and there is one lemma of it for each action.  Apart, that a page is in *)
(* all tables at the same address, keeps what happens to the pages of the  *)
(* executable away from those beyond, where other races may happen.        *)
(***************************************************************************)
EXTENDS Memory, FiniteSetTheorems, SequenceTheorems, WellFoundedInduction, TLAPS

D == Procs \X (-3..NAddrs)
Refs == [u \in D |-> Ref(u[1], u[2])]
Count(f, n) == Cardinality({u \in D : f[u] = n})

Locs == [addr : 0..NAddrs + 1, page : Maybe(Pages), got : Maybe(Pages), out : Maybe(Pages),
         other : Maybe(Pages), who : Procs \cup {NoProc}, why : Callers \cup {"none"},
         ret : {"user", "store", "verified"}]
Requests == [cmd : {"read", "write"}, nr : SwapNrs, page : Pages, by : Procs]

\* The type invariant, but for the counts, which may not be negative.
Types ==
    /\ cpu \in Procs \cup {NoProc}
    /\ mem_map \in [Pages -> Int]
    /\ data \in [Pages -> Content]
    /\ dir \in [Procs -> Maybe(Pages)]
    /\ pte \in [Procs -> [Addrs -> Entries]]
    /\ spare \subseteq SwapNrs
    /\ swapped \in [SwapNrs -> Content]
    /\ queue \in Seq(Requests)
    /\ exe \in [Procs -> Exes \cup {NoExe}]
    /\ pc \in [Procs -> PCs]
    /\ loc \in [Procs -> Locs]

Safe == "wp" \notin Risks /\ "share" \notin Risks

\* The place a process is at, where in get_free_page() it is at the caller's.
StageOf(l, r) == IF l \in {"free", "swapout"} THEN r.why ELSE l
Stage(p) == StageOf(pc[p], loc[p])
Forking == {"forktable", "loop", "forkpage", "forkread"}
Filling == {"empty", "bread", "filling", "put", "table"}

\* The pages a process holds in variables.
Holding(p) ==
    /\ loc[p].out # 0 <=> pc[p] = "swapout"
    /\ pc[p] \notin Callers => loc[p].got = 0
    /\ loc[p].page # 0 <=> Stage(p) \in {"reading", "filling", "put", "table", "forkread"}
    /\ pc[p] \in {"user", "unused", "making", "exec"} => loc[p] = NoLoc
    /\ pc[p] \in {"free", "swapout"} => loc[p].why \in Callers
    /\ pc[p] # "unused" => exe[p] \in Exes
    /\ pc[p] = "unused" => dir[p] = 0 /\ \A a \in Addrs : pte[p][a].at = "none"

\* What it knows of the entry it works on.
Serving(p) ==
    LET s == Stage(p)  a == loc[p].addr IN
    /\ s \in {"swapin", "reading", "forkpage", "forkread"} =>
          a \in Addrs /\ pte[p][a].at = "swap"
    /\ s \in Filling => a \in Addrs /\ pte[p][a].at = "none"
    /\ s = "table" => dir[p] = 0
    /\ s \in {"store", "verified"} => a \in Addrs

\* The child has nothing beyond the entry its parent is at.
Making(p) ==
    LET s == Stage(p)  c == loc[p].who IN
    /\ s \in Forking => c \in Procs /\ pc[c] = "making"
    /\ s = "forktable" => dir[c] = 0 /\ \A a \in Addrs : pte[c][a].at = "none"
    /\ s \in Forking \ {"forktable"} =>
          loc[p].addr > 0 /\ \A a \in Addrs : a >= loc[p].addr => pte[c][a].at = "none"

\* Where get_free_page() has a page at once nobody comes in between.
Alone(p) ==
    LET s == Stage(p)  a == loc[p].addr IN
    s \in {"wp", "share"} =>
        /\ cpu = p /\ a \in Addrs /\ pc[p] # "swapout"
        /\ pc[p] = "free" => \E n \in Pages : mem_map[n] = 0
        /\ pc[p] # "free" => loc[p].got # 0
        /\ s = "wp" => /\ pte[p][a].at = "page" /\ pte[p][a].n = loc[p].other
                       /\ loc[p].ret # "user"
        /\ s = "share" => /\ dir[p] = 0 /\ pte[p][a].at = "none"
                          /\ loc[p].who \in Procs \ {p}
                          /\ pte[loc[p].who][a].at = "page"
                          /\ pte[loc[p].who][a].n = loc[p].other

Place(p) == Holding(p) /\ Serving(p) /\ Making(p) /\ Alone(p)
PlaceOK == \A p \in Procs : Place(p)
ChildOK ==
    \A p, q \in Procs :
        Stage(p) \in Forking /\ Stage(q) \in Forking /\ loc[p].who = loc[q].who => p = q

SwapOK ==
    /\ \A p \in Procs, a \in Addrs : pte[p][a].at = "swap" => pte[p][a].n \notin spare
    /\ \A p, q \in Procs : \A a, b \in Addrs :
          pte[p][a].at = "swap" /\ pte[q][b] = pte[p][a] => p = q /\ a = b
    /\ \A s \in SwapNrs \ spare : \E p \in Procs, a \in Addrs : pte[p][a] = OnSwap(s)

CountOK == \A n \in Pages : mem_map[n] - Count(Refs, n) \in {0, USED}

IInv == Safe /\ Types /\ PlaceOK /\ ChildOK /\ SwapOK /\ CountOK

----------------------------------------------------------------------------
(* Counting                                                                *)

LEMMA DFinite == IsFiniteSet(D) /\ NAddrs \in Nat
<1>1. NAddrs \in Nat  BY SizesAssumption
<1>2. IsFiniteSet(-3..NAddrs)  BY <1>1, FS_Interval
<1> QED  BY <1>1, <1>2, ProcsAssumption, FS_Product DEF D

LEMMA PageCount ==
    ASSUME Types, NEW k \in Pages
    PROVE  mem_map[k] \in Int /\ k # 0
  BY DEF Types, Pages

LEMMA CountType ==
    ASSUME NEW f, NEW n
    PROVE  Count(f, n) \in Nat /\ IsFiniteSet({u \in D : f[u] = n})
<1>1. IsFiniteSet({u \in D : f[u] = n})  BY DFinite, FS_Subset
<1> QED  BY <1>1, FS_CardinalityType DEF Count

\* f with another value at u.
Put(f, u, x) == [w \in D |-> IF w = u THEN x ELSE f[w]]

LEMMA PutAt ==
    ASSUME NEW f, NEW u \in D, NEW x
    PROVE  /\ DOMAIN Put(f, u, x) = D /\ Put(f, u, x) = [w \in D |-> Put(f, u, x)[w]]
           /\ Put(f, u, x)[u] = x
           /\ \A w \in D : w # u => Put(f, u, x)[w] = f[w]
  BY DEF Put

LEMMA CountPut ==
    ASSUME NEW f, NEW u \in D, NEW x, NEW n
    PROVE  Count(Put(f, u, x), n) =
               Count(f, n) - (IF f[u] = n THEN 1 ELSE 0) + (IF x = n THEN 1 ELSE 0)
<1> DEFINE g == Put(f, u, x)
           S == {v \in D : f[v] = n}
           R == {v \in D : g[v] = n}
<1>1. Cardinality(S) \in Nat /\ IsFiniteSet(S) /\ IsFiniteSet(R)
  BY CountType DEF Count
<1>2. g[u] = x /\ \A v \in D : v # u => g[v] = f[v]
  BY DEF Put
<1> HIDE DEF g
<1>3. Cardinality(S \ {u}) = Cardinality(S) - (IF f[u] = n THEN 1 ELSE 0) /\ IsFiniteSet(S \ {u})
  BY <1>1, FS_RemoveElement
<1>4. CASE x = n
  <2>1. R = (S \ {u}) \cup {u}  BY <1>2, <1>4
  <2>2. Cardinality(R) = Cardinality(S \ {u}) + 1
    <3> DEFINE Z == S \ {u}
    <3>1. u \notin Z /\ IsFiniteSet(Z)  BY <1>3
    <3> HIDE DEF Z
    <3>2. Cardinality(Z \cup {u}) = Cardinality(Z) + 1  BY <3>1, FS_AddElement
    <3> QED  BY <2>1, <3>2 DEF Z
  <2> QED  BY <1>1, <1>3, <1>4, <2>2 DEF Count, g
<1>5. CASE x # n
  <2>1. R = S \ {u}  BY <1>2, <1>5
  <2> QED  BY <1>1, <1>3, <1>5, <2>1 DEF Count, g
<1> QED  BY <1>4, <1>5

LEMMA CountZero ==
    ASSUME NEW f, NEW n, Count(f, n) = 0, NEW u \in D
    PROVE  f[u] # n
<1>1. {v \in D : f[v] = n} = {}  BY CountType, FS_EmptySet DEF Count
<1> QED  BY <1>1

----------------------------------------------------------------------------
(* References                                                              *)

Held(e) == IF e.at = "page" THEN e.n ELSE 0

LEMMA Cells ==
    \A q \in Procs :
        /\ <<q, 0>> \in D /\ <<q, -1>> \in D /\ <<q, -2>> \in D /\ <<q, -3>> \in D
        /\ \A a \in Addrs : <<q, a>> \in D
  BY SizesAssumption DEF D, Addrs

LEMMA RefsAre ==
    /\ DOMAIN Refs = D
    /\ \A q \in Procs :
          /\ Refs[<<q, 0>>] = dir[q] /\ Refs[<<q, -1>>] = loc[q].page
          /\ Refs[<<q, -2>>] = loc[q].out /\ Refs[<<q, -3>>] = loc[q].got
          /\ \A a \in Addrs : Refs[<<q, a>>] = Held(pte[q][a])
<1> SUFFICES ASSUME NEW q \in Procs
    PROVE /\ Refs[<<q, 0>>] = dir[q] /\ Refs[<<q, -1>>] = loc[q].page
          /\ Refs[<<q, -2>>] = loc[q].out /\ Refs[<<q, -3>>] = loc[q].got
          /\ \A a \in Addrs : Refs[<<q, a>>] = Held(pte[q][a])
  BY DEF Refs
<1>1. \A k : <<q, k>> \in D => Refs[<<q, k>>] = Ref(q, k)
  BY DEF Refs
<1>2. Ref(q, 0) = dir[q] /\ Ref(q, -1) = loc[q].page /\ Ref(q, -2) = loc[q].out /\ Ref(q, -3) = loc[q].got
  BY DEF Ref
<1>3. \A a \in Addrs : Ref(q, a) = Held(pte[q][a])
  BY SizesAssumption DEF Ref, Held, Addrs
<1> QED  BY <1>1, <1>2, <1>3, Cells

LEMMA RefsWillBe ==
    /\ DOMAIN Refs' = D
    /\ \A q \in Procs :
          /\ Refs'[<<q, 0>>] = dir'[q] /\ Refs'[<<q, -1>>] = loc'[q].page
          /\ Refs'[<<q, -2>>] = loc'[q].out /\ Refs'[<<q, -3>>] = loc'[q].got
          /\ \A a \in Addrs : Refs'[<<q, a>>] = Held(pte'[q][a])
<1> SUFFICES ASSUME NEW q \in Procs
    PROVE /\ Refs'[<<q, 0>>] = dir'[q] /\ Refs'[<<q, -1>>] = loc'[q].page
          /\ Refs'[<<q, -2>>] = loc'[q].out /\ Refs'[<<q, -3>>] = loc'[q].got
          /\ \A a \in Addrs : Refs'[<<q, a>>] = Held(pte'[q][a])
  BY DEF Refs, D
<1>1. \A k : <<q, k>> \in D => Refs'[<<q, k>>] = Ref(q, k)'
  BY DEF Refs, D
<1>2. Ref(q, 0)' = dir'[q] /\ Ref(q, -1)' = loc'[q].page /\ Ref(q, -2)' = loc'[q].out /\ Ref(q, -3)' = loc'[q].got
  BY DEF Ref
<1>3. \A a \in Addrs : Ref(q, a)' = Held(pte'[q][a])
  BY SizesAssumption DEF Ref, Held, Addrs
<1> QED  BY <1>1, <1>2, <1>3, Cells

LEMMA SameRefs ==
    ASSUME NEW f, DOMAIN f = D, f = [u \in D |-> f[u]],
           \A q \in Procs :
              /\ f[<<q, 0>>] = dir'[q] /\ f[<<q, -1>>] = loc'[q].page
              /\ f[<<q, -2>>] = loc'[q].out /\ f[<<q, -3>>] = loc'[q].got
              /\ \A a \in Addrs : f[<<q, a>>] = Held(pte'[q][a])
    PROVE  Refs' = f
<1>1. ASSUME NEW u \in D PROVE Refs'[u] = f[u]
  <2>1. PICK q \in Procs, k \in -3..NAddrs : u = <<q, k>>  BY DEF D
  <2>2. k \in {0, -1, -2, -3} \/ k \in Addrs  BY SizesAssumption, <2>1 DEF Addrs
  <2>3. CASE k \in Addrs  BY <2>1, <2>3, RefsWillBe
  <2>4. CASE k = 0  BY <2>1, <2>4, RefsWillBe
  <2>5. CASE k = -1  BY <2>1, <2>5, RefsWillBe
  <2>6. CASE k = -2  BY <2>1, <2>6, RefsWillBe
  <2>7. CASE k = -3  BY <2>1, <2>7, RefsWillBe
  <2> QED  BY <2>2, <2>3, <2>4, <2>5, <2>6, <2>7
<1>2. Refs' = [u \in D |-> Refs'[u]]  BY DEF Refs, D
<1> QED  BY <1>1, <1>2

----------------------------------------------------------------------------
(* What a step leaves alone                                                *)

LEMMA OtherKeeps ==
    ASSUME PlaceOK, NEW p \in Procs, NEW q \in Procs, q # p, cpu \in {p, NoProc},
           pc'[q] = pc[q], loc'[q] = loc[q], dir'[q] = dir[q], exe'[q] = exe[q],
           \A b \in Addrs : pte[q][b].at # "page" => pte'[q][b] = pte[q][b],
           Stage(q) \in Forking =>
               /\ pc'[loc[q].who] = "making" /\ dir'[loc[q].who] = dir[loc[q].who]
               /\ \A b \in Addrs : pte[loc[q].who][b].at # "page" =>
                                       pte'[loc[q].who][b] = pte[loc[q].who][b]
    PROVE  Place(q)'
<1> Place(q)  BY DEF PlaceOK
<1>1. Stage(q)' = Stage(q)  BY DEF Stage, StageOf
<1>2. Stage(q) \notin {"wp", "share"}
  BY ProcsAssumption DEF Place, Alone
<1>3. Holding(q)'  BY <1>1 DEF Place, Holding
<1>4. Serving(q)'  BY <1>1 DEF Place, Serving, Filling
<1>5. Making(q)'  BY <1>1 DEF Place, Making, Forking
<1>6. Alone(q)'  BY <1>1, <1>2 DEF Alone
<1> QED  BY <1>3, <1>4, <1>5, <1>6 DEF Place

\* The rows of the tables that a step of p may change: its own and its child's; in
\* the others entries in memory may be dropped, swapped out or made read-only.
Own(p) == {p} \cup (IF Stage(p) \in Forking THEN {loc[p].who} ELSE {})
OthersKept(p) ==
    \A q \in Procs \ Own(p) :
        /\ dir'[q] = dir[q]
        /\ \A b \in Addrs : pte[q][b].at # "page" => pte'[q][b] = pte[q][b]

LEMMA StepKeeps ==
    ASSUME Types, PlaceOK, ChildOK, NEW p \in Procs, cpu \in {p, NoProc},
           pc[p] \notin {"making", "unused"}, NEW l, NEW r,
           pc' = [pc EXCEPT ![p] = l], loc' = [loc EXCEPT ![p] = r], exe' = exe,
           OthersKept(p), Place(p)',
           l \notin {"making", "unused"},
           StageOf(l, r) \in Forking => Stage(p) \in Forking /\ r.who = loc[p].who
    PROVE  PlaceOK' /\ ChildOK'
<1>0. /\ pc'[p] = l /\ loc'[p] = r
      /\ \A q \in Procs : q # p => pc'[q] = pc[q] /\ loc'[q] = loc[q]
      /\ \A q \in Procs : exe'[q] = exe[q]
  BY DEF Types
<1>1. ASSUME NEW q \in Procs, q # p PROVE Place(q)'
  <2>1. CASE q \in Own(p)
    <3>1. pc[q] = "making"  BY <2>1, <1>1 DEF Own, PlaceOK, Place, Making
    <3>2. Place(q)  BY DEF PlaceOK
    <3>3. pc'[q] = "making" /\ loc'[q] = NoLoc /\ exe'[q] \in Exes
      BY <1>0, <1>1, <3>1, <3>2 DEF Place, Holding
    <3>4. Stage(q)' = "making"  BY <3>3 DEF Stage, StageOf
    <3>5. Holding(q)'  BY <3>3, <3>4 DEF Holding, NoLoc, Callers
    <3>6. Serving(q)' /\ Making(q)' /\ Alone(q)'
      BY <3>4 DEF Serving, Making, Alone, Forking, Filling
    <3> QED  BY <3>5, <3>6 DEF Place
  <2>2. CASE q \notin Own(p)
    <3>1. ASSUME Stage(q) \in Forking
          PROVE  /\ pc'[loc[q].who] = "making" /\ dir'[loc[q].who] = dir[loc[q].who]
                 /\ \A b \in Addrs : pte[loc[q].who][b].at # "page" =>
                                         pte'[loc[q].who][b] = pte[loc[q].who][b]
      <4>1. loc[q].who \in Procs /\ pc[loc[q].who] = "making"
        BY <3>1 DEF PlaceOK, Place, Making
      <4>2. loc[q].who # p  BY <4>1
      <4>3. loc[q].who \notin Own(p)
        BY <1>1, <3>1, <4>2 DEF Own, ChildOK
      <4> QED  BY <1>0, <4>1, <4>2, <4>3 DEF OthersKept
    <3>2. dir'[q] = dir[q] /\ \A b \in Addrs : pte[q][b].at # "page" => pte'[q][b] = pte[q][b]
      BY <2>2 DEF OthersKept
    <3> QED  BY <1>0, <1>1, <3>1, <3>2, OtherKeeps
  <2> QED  BY <2>1, <2>2
<1>2. ASSUME NEW q \in Procs
      PROVE  Stage(q)' \in Forking => Stage(q) \in Forking /\ loc'[q].who = loc[q].who
  BY <1>0 DEF Stage, StageOf
<1>3. ChildOK'
  BY <1>2 DEF ChildOK
<1> QED  BY <1>1, <1>3 DEF PlaceOK

LEMMA SwapSame ==
    ASSUME SwapOK, spare' = spare,
           \A q \in Procs, b \in Addrs :
               \/ pte'[q][b] = pte[q][b]
               \/ pte'[q][b].at # "swap" /\ pte[q][b].at # "swap"
    PROVE  SwapOK'
<1>1. ASSUME NEW s \in SwapNrs \ spare
      PROVE  \E q \in Procs, b \in Addrs : pte'[q][b] = OnSwap(s)
  <2>1. PICK q \in Procs, b \in Addrs : pte[q][b] = OnSwap(s)  BY DEF SwapOK
  <2> QED  BY <2>1 DEF OnSwap
<1> QED  BY <1>1 DEF SwapOK, SwapNrs, OnSwap

\* What a cell adds to the users of n when its value changes from x to y.
Gain(x, y, n) == (IF y = n THEN 1 ELSE 0) - (IF x = n THEN 1 ELSE 0)

LEMMA GainType ==
    \A x, y, n : Gain(x, y, n) \in {-1, 0, 1}
  BY DEF Gain

LEMMA CountCell ==
    ASSUME NEW f, NEW u \in D, NEW x, NEW n
    PROVE  Count(Put(f, u, x), n) = Count(f, n) + Gain(f[u], x, n)
<1>1. Count(f, n) \in Nat  BY CountType
<1> QED  BY <1>1, CountPut DEF Gain

LEMMA CountFive ==
    ASSUME NEW f, NEW g, NEW n,
           NEW u1 \in D, NEW u2 \in D, NEW u3 \in D, NEW u4 \in D, NEW u5 \in D,
           u1 # u2, u1 # u3, u1 # u4, u1 # u5, u2 # u3, u2 # u4, u2 # u5,
           u3 # u4, u3 # u5, u4 # u5,
           \A w \in D : w \notin {u1, u2, u3, u4, u5} => g[w] = f[w]
    PROVE  Count(g, n) = Count(f, n) + Gain(f[u1], g[u1], n) + Gain(f[u2], g[u2], n)
                         + Gain(f[u3], g[u3], n) + Gain(f[u4], g[u4], n) + Gain(f[u5], g[u5], n)
<1> DEFINE f1 == Put(f, u1, g[u1])  f2 == Put(f1, u2, g[u2])
           f3 == Put(f2, u3, g[u3])  f4 == Put(f3, u4, g[u4])
           f5 == Put(f4, u5, g[u5])
<1>1. f1[u1] = g[u1] /\ \A w \in D : w # u1 => f1[w] = f[w]  BY DEF Put
<1> HIDE DEF f1
<1>2. f2[u2] = g[u2] /\ \A w \in D : w # u2 => f2[w] = f1[w]  BY DEF Put
<1> HIDE DEF f2
<1>3. f3[u3] = g[u3] /\ \A w \in D : w # u3 => f3[w] = f2[w]  BY DEF Put
<1> HIDE DEF f3
<1>4. f4[u4] = g[u4] /\ \A w \in D : w # u4 => f4[w] = f3[w]  BY DEF Put
<1> HIDE DEF f4
<1>5. f5[u5] = g[u5] /\ \A w \in D : w # u5 => f5[w] = f4[w]  BY DEF Put
<1> HIDE DEF f5
<1>6. Count(f1, n) = Count(f, n) + Gain(f[u1], g[u1], n)  BY CountCell DEF f1
<1>7. Count(f2, n) = Count(f1, n) + Gain(f1[u2], g[u2], n)  BY CountCell DEF f2
<1>8. Count(f3, n) = Count(f2, n) + Gain(f2[u3], g[u3], n)  BY CountCell DEF f3
<1>9. Count(f4, n) = Count(f3, n) + Gain(f3[u4], g[u4], n)  BY CountCell DEF f4
<1>10. Count(f5, n) = Count(f4, n) + Gain(f4[u5], g[u5], n)  BY CountCell DEF f5
<1>11. \A w \in D : f5[w] = g[w]  BY <1>1, <1>2, <1>3, <1>4, <1>5
<1>12. Count(f5, n) = Count(g, n)
  <2>1. {w \in D : f5[w] = n} = {w \in D : g[w] = n}  BY <1>11
  <2> QED  BY <2>1 DEF Count
<1>13. f1[u2] = f[u2] /\ f2[u3] = f[u3] /\ f3[u4] = f[u4] /\ f4[u5] = f[u5]
  BY <1>1, <1>2, <1>3, <1>4
<1>14. Count(f, n) \in Nat  BY CountType
<1> QED  BY <1>6, <1>7, <1>8, <1>9, <1>10, <1>13, <1>14, <1>12, GainType

\* What five cells add, when the others keep their values.
Change(q, a, r, p, n) ==
    Gain(Held(pte[q][a]), Held(pte'[q][a]), n) + Gain(dir[r], dir'[r], n)
    + Gain(loc[p].page, loc'[p].page, n) + Gain(loc[p].out, loc'[p].out, n)
    + Gain(loc[p].got, loc'[p].got, n)

\* Only an entry, a page table and the variables of one process change.
Frame(q, a, r, p) ==
    /\ \A s \in Procs, b \in Addrs : s # q \/ b # a => Held(pte'[s][b]) = Held(pte[s][b])
    /\ \A s \in Procs : s # r => dir'[s] = dir[s]
    /\ \A s \in Procs : s # p => loc'[s] = loc[s]

LEMMA FrameCells ==
    ASSUME NEW p \in Procs, NEW q \in Procs, NEW r \in Procs, NEW a \in Addrs, Frame(q, a, r, p),
           NEW w \in D, w \notin {<<q, a>>, <<r, 0>>, <<p, -1>>, <<p, -2>>, <<p, -3>>}
    PROVE  Refs'[w] = Refs[w]
<1>1. PICK s \in Procs, k \in -3..NAddrs : w = <<s, k>>  BY DEF D
<1>2. k \in {0, -1, -2, -3} \/ k \in Addrs  BY SizesAssumption, <1>1 DEF Addrs
<1>3. CASE k \in Addrs
  <2>1. Held(pte'[s][k]) = Held(pte[s][k])  BY <1>1, <1>3 DEF Frame
  <2>2. Refs[<<s, k>>] = Held(pte[s][k])  BY <1>3, RefsAre, Zenon
  <2>3. Refs'[<<s, k>>] = Held(pte'[s][k])  BY <1>3, RefsWillBe, Zenon
  <2> QED  BY <1>1, <2>1, <2>2, <2>3
<1>4. CASE k = 0
  <2>1. dir'[s] = dir[s]  BY <1>1, <1>4 DEF Frame
  <2> QED  BY <1>1, <1>4, <2>1, RefsAre, RefsWillBe
<1>5. CASE k \in {-1, -2, -3}
  <2>1. loc'[s] = loc[s]  BY <1>1, <1>5 DEF Frame
  <2>2. /\ Refs[<<s, -1>>] = loc[s].page /\ Refs[<<s, -2>>] = loc[s].out
        /\ Refs[<<s, -3>>] = loc[s].got
    BY RefsAre, Zenon
  <2>3. /\ Refs'[<<s, -1>>] = loc'[s].page /\ Refs'[<<s, -2>>] = loc'[s].out
        /\ Refs'[<<s, -3>>] = loc'[s].got
    BY RefsWillBe, Zenon
  <2> QED  BY <1>1, <1>5, <2>1, <2>2, <2>3
<1> QED  BY <1>2, <1>3, <1>4, <1>5

LEMMA CountStep ==
    ASSUME CountOK, Types, NEW p \in Procs, NEW q \in Procs, NEW r \in Procs, NEW a \in Addrs,
           Frame(q, a, r, p), \A n \in Pages : mem_map'[n] = mem_map[n] + Change(q, a, r, p, n)
    PROVE  CountOK'
<1> DEFINE f == Refs  g == Refs'
<1>1. ASSUME NEW n \in Pages PROVE Count(g, n) = Count(f, n) + Change(q, a, r, p, n)
  <2>0. a > 0  BY DEF Addrs
  <2>1. /\ <<q, a>> \in D /\ <<r, 0>> \in D
        /\ <<p, -1>> \in D /\ <<p, -2>> \in D /\ <<p, -3>> \in D
    BY Cells
  <2>2. \A w \in D : w \notin {<<q, a>>, <<r, 0>>, <<p, -1>>, <<p, -2>>, <<p, -3>>} => g[w] = f[w]
    BY FrameCells
  <2>3. Count(g, n) = Count(f, n) + Gain(f[<<q, a>>], g[<<q, a>>], n) + Gain(f[<<r, 0>>], g[<<r, 0>>], n)
                      + Gain(f[<<p, -1>>], g[<<p, -1>>], n) + Gain(f[<<p, -2>>], g[<<p, -2>>], n)
                      + Gain(f[<<p, -3>>], g[<<p, -3>>], n)
    <3> DEFINE u1 == <<q, a>>  u2 == <<r, 0>>  u3 == <<p, -1>>  u4 == <<p, -2>>  u5 == <<p, -3>>
    <3>1. /\ u1 # u2 /\ u1 # u3 /\ u1 # u4 /\ u1 # u5 /\ u2 # u3 /\ u2 # u4 /\ u2 # u5
          /\ u3 # u4 /\ u3 # u5 /\ u4 # u5
      BY <2>0
    <3>2. /\ u1 \in D /\ u2 \in D /\ u3 \in D /\ u4 \in D /\ u5 \in D
          /\ \A w \in D : w \notin {u1, u2, u3, u4, u5} => g[w] = f[w]
      BY <2>1, <2>2
    <3> HIDE DEF f, g, u1, u2, u3, u4, u5
    <3>3. ASSUME NEW x, NEW y, \A w \in D : w \notin {u1, u2, u3, u4, u5} => y[w] = x[w]
          PROVE  Count(y, n) = Count(x, n) + Gain(x[u1], y[u1], n) + Gain(x[u2], y[u2], n)
                        + Gain(x[u3], y[u3], n) + Gain(x[u4], y[u4], n) + Gain(x[u5], y[u5], n)
      BY <3>1, <3>2, <3>3, CountFive
    <3>4. Count(g, n) = Count(f, n) + Gain(f[u1], g[u1], n) + Gain(f[u2], g[u2], n)
                        + Gain(f[u3], g[u3], n) + Gain(f[u4], g[u4], n) + Gain(f[u5], g[u5], n)
      BY <3>2, <3>3
    <3> QED  BY <3>4 DEF u1, u2, u3, u4, u5
  <2>4. /\ f[<<q, a>>] = Held(pte[q][a]) /\ f[<<r, 0>>] = dir[r]
        /\ f[<<p, -1>>] = loc[p].page /\ f[<<p, -2>>] = loc[p].out /\ f[<<p, -3>>] = loc[p].got
    BY RefsAre
  <2>5. /\ g[<<q, a>>] = Held(pte'[q][a]) /\ g[<<r, 0>>] = dir'[r]
        /\ g[<<p, -1>>] = loc'[p].page /\ g[<<p, -2>>] = loc'[p].out /\ g[<<p, -3>>] = loc'[p].got
    BY RefsWillBe
  <2>6. Count(f, n) \in Nat  BY CountType
  <2> HIDE DEF f, g
  <2> QED  BY <2>3, <2>4, <2>5, <2>6, GainType DEF Change
<1>2. \A n \in Pages : Count(Refs, n)' = Count(Refs', n)  BY DEF Count, D
<1>3. ASSUME NEW n \in Pages PROVE mem_map'[n] - Count(Refs', n) = mem_map[n] - Count(Refs, n)
  <2>1. Count(Refs, n) \in Nat /\ mem_map[n] \in Int  BY CountType DEF Types
  <2>2. Change(q, a, r, p, n) \in Int  BY GainType DEF Change
  <2> QED  BY <1>1, <2>1, <2>2
<1> QED  BY <1>2, <1>3 DEF CountOK

\* Nothing changes that is counted.
LEMMA CountSame ==
    ASSUME CountOK, mem_map' = mem_map, NEW p \in Procs,
           \A s \in Procs, b \in Addrs : Held(pte'[s][b]) = Held(pte[s][b]),
           \A s \in Procs : dir'[s] = dir[s],
           \A s \in Procs : s # p => loc'[s] = loc[s],
           loc'[p].page = loc[p].page, loc'[p].out = loc[p].out, loc'[p].got = loc[p].got
    PROVE  CountOK' /\ Refs' = Refs
<1>1. \A s \in Procs : /\ loc'[s].page = loc[s].page /\ loc'[s].out = loc[s].out
                        /\ loc'[s].got = loc[s].got
  OBVIOUS
<1>2. Refs = [u \in D |-> Refs[u]]  BY DEF Refs
<1>3. Refs' = Refs  BY <1>1, <1>2, RefsAre, SameRefs
<1>4. \A n \in Pages : Count(Refs, n)' = Count(Refs', n)  BY DEF Count, D
<1> QED  BY <1>3, <1>4 DEF CountOK

----------------------------------------------------------------------------
(* Steps                                                                   *)

\* What the steps of one process have in common.
Moves(p, l, r) ==
    /\ cpu \in {p, NoProc} /\ pc[p] \notin {"making", "unused"}
    /\ l \in PCs \ {"making", "unused"} /\ r \in Locs
    /\ pc' = [pc EXCEPT ![p] = l] /\ loc' = [loc EXCEPT ![p] = r]
    /\ exe' = exe /\ cpu' \in {p, NoProc}
    /\ StageOf(l, r) \in Forking => Stage(p) \in Forking /\ r.who = loc[p].who
Typed ==
    /\ mem_map' \in [Pages -> Int] /\ data' \in [Pages -> Content]
    /\ dir' \in [Procs -> Maybe(Pages)] /\ pte' \in [Procs -> [Addrs -> Entries]]
    /\ spare' \subseteq SwapNrs /\ swapped' \in [SwapNrs -> Content] /\ queue' \in Seq(Requests)

LEMMA Step ==
    ASSUME IInv, NEW p \in Procs, NEW l, NEW r, Moves(p, l, r), Typed,
           NEW q \in Procs, NEW d \in Procs, NEW a \in Addrs, Frame(q, a, d, p),
           \A n \in Pages : mem_map'[n] = mem_map[n] + Change(q, a, d, p, n),
           OthersKept(p), SwapOK', Place(p)'
    PROVE  IInv'
<1>1. Types'
  <2>1. pc' \in [Procs -> PCs] /\ loc' \in [Procs -> Locs]  BY DEF IInv, Types, Moves
  <2> QED  BY <2>1 DEF IInv, Types, Moves, Typed
<1>2. PlaceOK' /\ ChildOK'  BY StepKeeps DEF IInv, Moves
<1>3. CountOK'  BY CountStep DEF IInv
<1> QED  BY <1>1, <1>2, <1>3 DEF IInv, Safe

\* A step that changes no reference and no entry of the swap device.
LEMMA StepStill ==
    ASSUME IInv, NEW p \in Procs, NEW l, NEW r, Moves(p, l, r),
           data' \in [Pages -> Content], UNCHANGED <<mem_map, dir, swap>>,
           pte' \in [Procs -> [Addrs -> Entries]],
           \A s \in Procs, b \in Addrs :
               pte'[s][b] = pte[s][b] \/ (pte[s][b].at = "page" /\ pte'[s][b].at = "page"
                                          /\ pte'[s][b].n = pte[s][b].n),
           r.page = loc[p].page, r.out = loc[p].out, r.got = loc[p].got, Place(p)'
    PROVE  IInv'
<1> Types /\ SwapOK  BY DEF IInv
<1>1. UNCHANGED <<mem_map, dir, spare, swapped, queue>>  BY DEF swap
<1>2. SwapOK'  BY <1>1, SwapSame
<1>3. OthersKept(p)  BY <1>1 DEF OthersKept
<1>4. 1 \in Addrs  BY SizesAssumption DEF Addrs
<1>5. /\ loc'[p] = r /\ \A s \in Procs : s # p => loc'[s] = loc[s]
      /\ \A s \in Procs, b \in Addrs : Held(pte'[s][b]) = Held(pte[s][b])
  BY DEF Types, Held, Moves
<1>6. Frame(p, 1, p, p)  BY <1>1, <1>5 DEF Frame
<1>7. \A n \in Pages : mem_map'[n] = mem_map[n] + Change(p, 1, p, p, n)
  <2>1. ASSUME NEW n \in Pages PROVE Change(p, 1, p, p, n) = 0
    BY <1>1, <1>4, <1>5 DEF Change, Gain
  <2>2. \A n \in Pages : mem_map[n] \in Int  BY DEF Types
  <2> QED  BY <1>1, <2>1, <2>2
<1>8. Typed  BY <1>1 DEF Types, Typed
<1> QED  BY <1>2, <1>3, <1>4, <1>6, <1>7, <1>8, Step

\* A process that goes back to the user.
LEMMA AtUser ==
    ASSUME NEW p \in Procs, pc'[p] = "user", loc'[p] = NoLoc, exe'[p] \in Exes
    PROVE  Place(p)'
<1>1. Stage(p)' = "user"  BY DEF Stage, StageOf
<1>2. Holding(p)'  BY <1>1 DEF Holding, NoLoc, Callers
<1>3. Serving(p)' /\ Making(p)' /\ Alone(p)'  BY <1>1 DEF Serving, Making, Alone, Filling, Forking
<1> QED  BY <1>2, <1>3 DEF Place

LEMMA NoLocType == NoLoc \in Locs
  BY SizesAssumption DEF NoLoc, Locs, Maybe

LEMMA EntryFacts ==
    ASSUME NEW e \in Entries
    PROVE  /\ e.at \in {"none", "swap", "page"}
           /\ e.at = "page" => /\ e.n \in Pages /\ e.rw \in BOOLEAN /\ e.dirty \in BOOLEAN
                               /\ e = InMemory(e.n, e.rw, e.dirty)
           /\ e.at = "swap" => e.n \in SwapNrs /\ e = OnSwap(e.n)
           /\ e.at = "none" => e = NoEntry
  BY DEF Entries, NoEntry, OnSwap, InMemory

LEMMA EntryMade ==
    /\ NoEntry \in Entries /\ NoEntry.at = "none"
    /\ \A s \in SwapNrs : OnSwap(s) \in Entries /\ OnSwap(s).at = "swap" /\ OnSwap(s).n = s
    /\ \A n \in Pages, x \in BOOLEAN, y \in BOOLEAN :
          InMemory(n, x, y) \in Entries /\ InMemory(n, x, y).at = "page" /\ InMemory(n, x, y).n = n
<1>1. \A s \in SwapNrs : OnSwap(s).at = "swap" /\ OnSwap(s).n = s  BY DEF OnSwap
<1>2. \A n, x, y : InMemory(n, x, y).at = "page" /\ InMemory(n, x, y).n = n  BY DEF InMemory
<1>3. \A s \in SwapNrs : OnSwap(s) \in Entries  BY DEF Entries
<1>4. \A n \in Pages, x \in BOOLEAN, y \in BOOLEAN : InMemory(n, x, y) \in Entries  BY DEF Entries
<1> QED  BY <1>1, <1>2, <1>3, <1>4 DEF Entries, NoEntry

LEMMA EntryChanged ==
    ASSUME NEW e \in Entries, e.at = "page", NEW x \in BOOLEAN
    PROVE  /\ [e EXCEPT !.rw = x] \in Entries /\ [e EXCEPT !.rw = x].at = "page"
           /\ [e EXCEPT !.rw = x].n = e.n
           /\ [e EXCEPT !.dirty = x] \in Entries /\ [e EXCEPT !.dirty = x].at = "page"
           /\ [e EXCEPT !.dirty = x].n = e.n
<1>1. e = InMemory(e.n, e.rw, e.dirty) /\ e.n \in Pages /\ e.rw \in BOOLEAN /\ e.dirty \in BOOLEAN
  BY EntryFacts
<1>2. [e EXCEPT !.rw = x] = InMemory(e.n, x, e.dirty)  BY <1>1 DEF InMemory
<1>3. [e EXCEPT !.dirty = x] = InMemory(e.n, e.rw, x)  BY <1>1 DEF InMemory
<1>4. \A n \in Pages, y \in BOOLEAN, z \in BOOLEAN :
          InMemory(n, y, z) \in Entries /\ InMemory(n, y, z).at = "page" /\ InMemory(n, y, z).n = n
  BY DEF Entries, InMemory
<1> QED  BY <1>1, <1>2, <1>3, <1>4

\* Where a process holds no page.
LEMMA Idle ==
    ASSUME IInv, NEW p \in Procs, pc[p] \in {"user", "exec", "store", "verified", "loop"}
    PROVE  /\ loc[p].page = 0 /\ loc[p].out = 0 /\ loc[p].got = 0
           /\ Stage(p) = pc[p] /\ exe[p] \in Exes
<1>1. Stage(p) = pc[p]  BY DEF Stage, StageOf
<1>2. Holding(p)  BY DEF IInv, PlaceOK, Place
<1> QED  BY <1>1, <1>2 DEF Holding, Callers

LEMMA StoredKeeps ==
    ASSUME IInv, NEW p \in Procs, cpu \in {p, NoProc}, pc[p] \in {"user", "store", "verified"},
           NEW a \in Addrs, NEW v \in Vals, pte[p][a].at = "page", Stored(p, a, v)
    PROVE  IInv'
<1> Types  BY DEF IInv
<1>1. /\ data' = [data EXCEPT ![pte[p][a].n] = v]
      /\ pte' = [pte EXCEPT ![p][a].dirty = TRUE]
      /\ UNCHANGED <<mem_map, dir, swap, exe>> /\ cpu' = NoProc
      /\ pc' = [pc EXCEPT ![p] = "user"] /\ loc' = [loc EXCEPT ![p] = NoLoc]
  BY DEF Stored, Sleep, Moved
<1>2. pc'[p] = "user" /\ loc'[p] = NoLoc  BY <1>1 DEF Types
<1>3. Moves(p, "user", NoLoc)
  BY <1>1, NoLocType DEF Moves, PCs, StageOf, Forking
<1>4. Place(p)'  BY <1>1, <1>2, Idle, AtUser
<1>5. data' \in [Pages -> Content]  BY <1>1 DEF Types, Content
<1>6. DEFINE e == pte[p][a]
<1>7. e \in Entries  BY DEF Types
<1>8. pte' = [pte EXCEPT ![p] = [pte[p] EXCEPT ![a] = [e EXCEPT !.dirty = TRUE]]]  BY <1>1
<1>9. pte' \in [Procs -> [Addrs -> Entries]]  BY <1>7, <1>8, EntryChanged DEF Types
<1>10. \A s \in Procs, b \in Addrs :
           pte'[s][b] = pte[s][b] \/ (pte[s][b].at = "page" /\ pte'[s][b].at = "page"
                                      /\ pte'[s][b].n = pte[s][b].n)
  BY <1>7, <1>8, EntryChanged DEF Types
<1>11. NoLoc.page = loc[p].page /\ NoLoc.out = loc[p].out /\ NoLoc.got = loc[p].got
  BY Idle DEF NoLoc
<1> QED  BY <1>1, <1>3, <1>4, <1>5, <1>9, <1>10, <1>11, StepStill

LEMMA UserKeeps ==
    ASSUME IInv, NEW p \in Procs, cpu \in {p, NoProc}, pc[p] \in {"user", "store", "verified"},
           Sleep(p, "user", NoLoc), UNCHANGED <<mem_map, data, tables, swap>>
    PROVE  IInv'
<1> Types  BY DEF IInv
<1>1. /\ UNCHANGED <<mem_map, data, dir, pte, swap, exe>> /\ cpu' = NoProc
      /\ pc' = [pc EXCEPT ![p] = "user"] /\ loc' = [loc EXCEPT ![p] = NoLoc]
  BY DEF Sleep, Moved, tables
<1>2. pc'[p] = "user" /\ loc'[p] = NoLoc  BY <1>1 DEF Types
<1>3. Moves(p, "user", NoLoc)
  BY <1>1, NoLocType DEF Moves, PCs, StageOf, Forking
<1>4. Place(p)'  BY <1>1, <1>2, Idle, AtUser
<1>5. data' \in [Pages -> Content] /\ pte' \in [Procs -> [Addrs -> Entries]]  BY <1>1 DEF Types
<1>6. NoLoc.page = loc[p].page /\ NoLoc.out = loc[p].out /\ NoLoc.got = loc[p].got
  BY Idle DEF NoLoc
<1> QED  BY <1>1, <1>3, <1>4, <1>5, <1>6, StepStill

LEMMA WriteKeeps ==
    ASSUME IInv, NEW p \in Procs, NEW a \in Addrs, NEW v \in Vals, Write(p, a, v)
    PROVE  IInv'
  BY StoredKeeps DEF Write, At, Allowed

LEMMA RestartKeeps ==
    ASSUME IInv, NEW p \in Procs, NEW v \in Vals, Restart(p, v)
    PROVE  IInv'
<1>1. cpu \in {p, NoProc} /\ pc[p] = "store"  BY DEF Restart, At
<1>2. loc[p].addr \in Addrs
  <2>1. Serving(p)  BY DEF IInv, PlaceOK, Place
  <2>2. Stage(p) = "store"  BY <1>1, Idle
  <2> QED  BY <2>1, <2>2 DEF Serving
<1>3. CASE Allowed(pte[p][loc[p].addr])
  <2>1. Stored(p, loc[p].addr, v)  BY <1>3 DEF Restart
  <2> QED  BY <1>1, <1>2, <1>3, <2>1, StoredKeeps DEF Allowed
<1>4. CASE ~Allowed(pte[p][loc[p].addr])
  BY <1>1, <1>4, UserKeeps DEF Restart
<1> QED  BY <1>3, <1>4

\* Where a store will be repeated or has been verified.
LEMMA AtStore ==
    ASSUME NEW p \in Procs, NEW l \in {"store", "verified"}, NEW a \in Addrs, pc'[p] = l,
           loc'[p] = [NoLoc EXCEPT !.addr = a], exe'[p] \in Exes
    PROVE  Place(p)'
<1>0. loc'[p].addr = a /\ loc'[p].page = 0 /\ loc'[p].out = 0 /\ loc'[p].got = 0
  BY DEF NoLoc
<1>1. Stage(p)' = l  BY DEF Stage, StageOf
<1>2. Holding(p)'  BY <1>0, <1>1 DEF Holding, Callers
<1>3. Serving(p)' /\ Making(p)' /\ Alone(p)'  BY <1>0, <1>1 DEF Serving, Making, Alone, Filling, Forking
<1> QED  BY <1>2, <1>3 DEF Place

LEMMA LocWith ==
    ASSUME NEW r \in Locs, NEW a \in Addrs
    PROVE  /\ [r EXCEPT !.addr = a] \in Locs
           /\ [r EXCEPT !.addr = a].addr = a /\ [r EXCEPT !.addr = a].page = r.page
           /\ [r EXCEPT !.addr = a].out = r.out /\ [r EXCEPT !.addr = a].got = r.got
           /\ [r EXCEPT !.addr = a].who = r.who /\ [r EXCEPT !.addr = a].why = r.why
  BY SizesAssumption DEF Locs, Addrs

\* The page is there already and may be written now, or it is read for the kernel.
LEMMA StoreKeeps ==
    ASSUME IInv, NEW p \in Procs, cpu \in {p, NoProc}, pc[p] = "user", NEW a \in Addrs,
           NEW l \in {"store", "verified"},
           Moved(p, l, [NoLoc EXCEPT !.addr = a]), exe' = exe, cpu' \in {p, NoProc},
           UNCHANGED <<mem_map, data, dir, swap>>,
           pte' = pte \/ (pte[p][a].at = "page" /\ pte' = [pte EXCEPT ![p][a].rw = TRUE])
    PROVE  IInv'
<1> Types  BY DEF IInv
<1> DEFINE r == [NoLoc EXCEPT !.addr = a]  e == pte[p][a]
<1>1. pc' = [pc EXCEPT ![p] = l] /\ loc' = [loc EXCEPT ![p] = r]  BY DEF Moved
<1>2. pc'[p] = l /\ loc'[p] = r  BY <1>1 DEF Types
<1>3. Place(p)'  BY <1>2, Idle, AtStore
<1>4. r \in Locs /\ r.page = 0 /\ r.out = 0 /\ r.got = 0  BY NoLocType, LocWith DEF NoLoc
<1>5. Moves(p, l, r)  BY <1>1, <1>4 DEF Moves, PCs, StageOf, Forking
<1>6. e \in Entries  BY DEF Types
<1>7. /\ pte' \in [Procs -> [Addrs -> Entries]]
      /\ \A s \in Procs, b \in Addrs :
           pte'[s][b] = pte[s][b] \/ (pte[s][b].at = "page" /\ pte'[s][b].at = "page"
                                      /\ pte'[s][b].n = pte[s][b].n)
  <2>1. CASE pte' = pte  BY <2>1 DEF Types
  <2>2. CASE pte[p][a].at = "page" /\ pte' = [pte EXCEPT ![p][a].rw = TRUE]
    <3> DEFINE f == [e EXCEPT !.rw = TRUE]
    <3>1. pte' = [pte EXCEPT ![p] = [pte[p] EXCEPT ![a] = f]]  BY <2>2
    <3>2. f \in Entries /\ f.at = "page" /\ f.n = e.n  BY <1>6, <2>2, EntryChanged
    <3> HIDE DEF f
    <3>3. pte' \in [Procs -> [Addrs -> Entries]]  BY <3>1, <3>2 DEF Types
    <3>4. ASSUME NEW s \in Procs, NEW b \in Addrs
          PROVE  pte'[s][b] = pte[s][b] \/ (pte[s][b].at = "page" /\ pte'[s][b].at = "page"
                                            /\ pte'[s][b].n = pte[s][b].n)
      BY <2>2, <3>1, <3>2 DEF Types
    <3> QED  BY <3>3, <3>4
  <2> QED  BY <2>1, <2>2
<1>8. data' \in [Pages -> Content]  BY DEF Types
<1>9. r.page = loc[p].page /\ r.out = loc[p].out /\ r.got = loc[p].got  BY <1>4, Idle
<1> HIDE DEF r
<1> QED  BY <1>3, <1>5, <1>7, <1>8, <1>9, StepStill

LEMMA LocCalling ==
    ASSUME NEW r \in Locs, NEW y \in Callers
    PROVE  /\ [r EXCEPT !.why = y, !.got = 0] \in Locs
           /\ [r EXCEPT !.why = y, !.got = 0].why = y /\ [r EXCEPT !.why = y, !.got = 0].got = 0
           /\ [r EXCEPT !.why = y, !.got = 0].addr = r.addr
           /\ [r EXCEPT !.why = y, !.got = 0].page = r.page
           /\ [r EXCEPT !.why = y, !.got = 0].out = r.out
           /\ [r EXCEPT !.why = y, !.got = 0].other = r.other
           /\ [r EXCEPT !.why = y, !.got = 0].who = r.who
           /\ [r EXCEPT !.why = y, !.got = 0].ret = r.ret
  BY DEF Locs, Maybe

\* get_free_page() is called: what its caller knows still holds.
LEMMA CallKeeps ==
    ASSUME IInv, NEW p \in Procs, cpu \in {p, NoProc}, pc[p] \in {"user", "verified", "put", "loop"},
           NEW y \in Callers, NEW r \in Locs, Call(p, y, r), UNCHANGED <<mem_map, data, tables, swap>>,
           r.page = loc[p].page, r.out = 0, r.page # 0 <=> y = "table",
           y \in Forking => y = "forkpage" /\ pc[p] = "loop" /\ r = loc[p]
                           /\ r.addr \in Addrs /\ pte[p][r.addr].at = "swap",
           y = "swapin" => r.addr \in Addrs /\ pte[p][r.addr].at = "swap",
           y \in Filling => r.addr \in Addrs /\ pte[p][r.addr].at = "none",
           y = "table" => dir[p] = 0,
           y \in {"wp", "share"} => r.addr \in Addrs,
           y = "wp" => /\ pte[p][r.addr].at = "page" /\ pte[p][r.addr].n = r.other
                       /\ r.ret # "user",
           y = "share" => /\ dir[p] = 0 /\ pte[p][r.addr].at = "none" /\ r.who \in Procs \ {p}
                          /\ pte[r.who][r.addr].at = "page" /\ pte[r.who][r.addr].n = r.other
    PROVE  IInv'
<1> Types /\ Safe /\ Place(p)  BY DEF IInv, PlaceOK
<1> DEFINE c == [r EXCEPT !.why = y, !.got = 0]
<1>1. /\ pc' = [pc EXCEPT ![p] = "free"] /\ loc' = [loc EXCEPT ![p] = c]
      /\ exe' = exe /\ cpu' = p
  BY DEF Call, Goto, Moved
<1>2. /\ c \in Locs /\ c.why = y /\ c.got = 0 /\ c.addr = r.addr /\ c.page = r.page
      /\ c.out = r.out /\ c.other = r.other /\ c.who = r.who /\ c.ret = r.ret
  BY LocCalling
<1> HIDE DEF c
<1>3. pc'[p] = "free" /\ loc'[p] = c /\ Stage(p)' = y /\ StageOf("free", c) = y
  BY <1>1, <1>2 DEF Types, Stage, StageOf
<1>4. UNCHANGED <<mem_map, data, dir, pte, swap>>  BY DEF tables
<1>5. loc[p].out = 0 /\ loc[p].got = 0 /\ exe[p] \in Exes /\ Stage(p) = pc[p]
  BY DEF Place, Holding, Callers, Stage, StageOf
<1>6. Place(p)'
  <2>1. Holding(p)'
    BY <1>1, <1>2, <1>3, <1>5 DEF Holding, Callers, Forking, Filling
  <2>2. Serving(p)'
    BY <1>2, <1>3, <1>4 DEF Serving, Callers, Forking, Filling
  <2>3. Making(p)'
    <3>1. CASE y = "forkpage"
      <4>1. Making(p) /\ c.who = loc[p].who /\ c.addr = loc[p].addr /\ Stage(p) = "loop"
        BY <1>2, <1>5, <3>1 DEF Place, Forking
      <4>2. pc'[loc[p].who] = "making"
        BY <1>1, <1>5, <4>1 DEF Making, Forking, Types
      <4> QED  BY <1>3, <1>4, <3>1, <4>1, <4>2 DEF Making, Forking
    <3>2. CASE y # "forkpage"  BY <1>3, <3>2 DEF Making, Forking
    <3> QED  BY <3>1, <3>2
  <2>4. Alone(p)'
    <3>1. CASE y \in {"wp", "share"}
      <4>1. \E n \in Pages : mem_map[n] = 0  BY <3>1 DEF Call, Safe
      <4> QED  BY <1>1, <1>2, <1>3, <1>4, <3>1, <4>1 DEF Alone
    <3>2. CASE y \notin {"wp", "share"}  BY <1>3, <3>2 DEF Alone
    <3> QED  BY <3>1, <3>2
  <2> QED  BY <2>1, <2>2, <2>3, <2>4 DEF Place
<1>7. Moves(p, "free", c)
  BY <1>1, <1>2, <1>3, <1>5 DEF Moves, PCs, Forking
<1>8. data' \in [Pages -> Content] /\ pte' \in [Procs -> [Addrs -> Entries]]  BY <1>4 DEF Types
<1> QED  BY <1>2, <1>4, <1>5, <1>6, <1>7, <1>8, StepStill

\* The variables of a process that serves a fault.
CopyLoc(a, o, t) == [NoLoc EXCEPT !.addr = a, !.other = o, !.ret = t]
FaultLoc(a, t) == [NoLoc EXCEPT !.addr = a, !.ret = t]
ShareLoc(r, o, w) == [r EXCEPT !.other = o, !.who = w]

LEMMA LocFault ==
    ASSUME NEW a \in Addrs, NEW o \in Maybe(Pages), NEW t \in {"user", "store", "verified"}
    PROVE  /\ CopyLoc(a, o, t) \in Locs /\ CopyLoc(a, o, t).addr = a /\ CopyLoc(a, o, t).page = 0
           /\ CopyLoc(a, o, t).got = 0 /\ CopyLoc(a, o, t).out = 0
           /\ CopyLoc(a, o, t).other = o /\ CopyLoc(a, o, t).ret = t
<1>1. a \in 0..NAddrs + 1  BY SizesAssumption DEF Addrs
<1> QED  BY <1>1, NoLocType DEF Locs, CopyLoc, NoLoc

LEMMA LocNoPage ==
    ASSUME NEW a \in Addrs, NEW t \in {"user", "store", "verified"}
    PROVE  /\ FaultLoc(a, t) \in Locs /\ FaultLoc(a, t).addr = a /\ FaultLoc(a, t).page = 0
           /\ FaultLoc(a, t).got = 0 /\ FaultLoc(a, t).out = 0 /\ FaultLoc(a, t).ret = t
<1>1. a \in 0..NAddrs + 1  BY SizesAssumption DEF Addrs
<1> QED  BY <1>1, NoLocType DEF Locs, FaultLoc, NoLoc

LEMMA LocShare ==
    ASSUME NEW r \in Locs, NEW o \in Maybe(Pages), NEW w \in Procs
    PROVE  /\ ShareLoc(r, o, w) \in Locs /\ ShareLoc(r, o, w).addr = r.addr
           /\ ShareLoc(r, o, w).page = r.page /\ ShareLoc(r, o, w).got = r.got
           /\ ShareLoc(r, o, w).out = r.out /\ ShareLoc(r, o, w).other = o
           /\ ShareLoc(r, o, w).who = w
  BY DEF Locs, ShareLoc

\* try_to_share() adds a reference to a page of q.
LEMMA SharedKeeps ==
    ASSUME IInv, NEW p \in Procs, NEW q \in Procs \ {p}, NEW a \in Addrs, NEW n,
           pte[q][a].at = "page", pte[q][a].n = n, pte[p][a].at = "none", Shared(p, a, q, n),
           NEW l, NEW r, Moves(p, l, r), Place(p)', UNCHANGED <<data, swap>>,
           r.page = loc[p].page, r.out = loc[p].out,
           \/ dir' = dir /\ r.got = loc[p].got
           \/ dir[p] = 0 /\ dir' = [dir EXCEPT ![p] = loc[p].got] /\ r.got = 0
    PROVE  IInv'
<1> Types /\ SwapOK /\ PlaceOK  BY DEF IInv
<1> DEFINE e == pte[q][a]  f == [e EXCEPT !.rw = FALSE]
<1>1. e \in Entries /\ n \in Pages /\ f \in Entries /\ f.at = "page" /\ f.n = n
  <2>1. e \in Entries  BY DEF Types
  <2> QED  BY <2>1, EntryFacts, EntryChanged
<1>2. pte' = [pte EXCEPT ![q] = [pte[q] EXCEPT ![a] = f], ![p] = [pte[p] EXCEPT ![a] = f]]
  BY DEF Shared, Types
<1>3. mem_map' = [mem_map EXCEPT ![n] = @ + 1]  BY DEF Shared
<1> HIDE DEF f
<1>4. /\ pte'[p][a] = f /\ pte'[q][a] = f /\ pte' \in [Procs -> [Addrs -> Entries]]
      /\ \A s \in Procs, b \in Addrs : (s # p /\ s # q) \/ b # a => pte'[s][b] = pte[s][b]
  BY <1>1, <1>2 DEF Types
<1>5. UNCHANGED <<data, spare, swapped, queue>>  BY DEF swap
<1>6. loc[p].got \in Maybe(Pages)  BY DEF Types, Locs
<1>7. Typed
  <2>1. mem_map' \in [Pages -> Int]  BY <1>1, <1>3 DEF Types
  <2>2. dir' \in [Procs -> Maybe(Pages)]  BY <1>6 DEF Types
  <2> QED  BY <1>4, <1>5, <2>1, <2>2 DEF Typed, Types
<1>8. /\ loc'[p] = r /\ \A s \in Procs : s # p => loc'[s] = loc[s] /\ dir'[s] = dir[s]
  BY DEF Moves, Types
<1>9. Frame(p, a, p, p)
  BY <1>1, <1>4, <1>8 DEF Frame, Held
<1>10. SwapOK'
  BY <1>1, <1>4, <1>5, SwapSame
<1>11. OthersKept(p)
  BY <1>4, <1>8 DEF OthersKept, Own
<1>12. ASSUME NEW k \in Pages PROVE mem_map'[k] = mem_map[k] + Change(p, a, p, p, k)
  <2>1. mem_map[k] \in Int /\ k # 0  BY PageCount
  <2>2. Held(pte[p][a]) = 0 /\ Held(pte'[p][a]) = n  BY <1>1, <1>4 DEF Held
  <2>3. Gain(loc[p].page, loc'[p].page, k) = 0 /\ Gain(loc[p].out, loc'[p].out, k) = 0
    BY <1>8 DEF Gain
  <2>4. Gain(dir[p], dir'[p], k) + Gain(loc[p].got, loc'[p].got, k) = 0
    BY <1>8, <2>1 DEF Gain, Types
  <2>5. mem_map'[k] = mem_map[k] + Gain(0, n, k)  BY <1>1, <1>3, <2>1 DEF Gain, Types
  <2> QED  BY <2>1, <2>2, <2>3, <2>4, <2>5, GainType DEF Change
<1> QED  BY <1>7, <1>9, <1>10, <1>11, <1>12, Step

LEMMA CopyCalled ==
    ASSUME IInv, NEW p \in Procs, cpu \in {p, NoProc}, pc[p] = "user", NEW a \in Addrs,
           NEW l \in {"store", "verified"}, pte[p][a].at = "page", un_wp_page(p, a, l)
    PROVE  IInv'
<1> DEFINE n == pte[p][a].n
           r == [NoLoc EXCEPT !.addr = a, !.other = n, !.ret = l]
<1>1. CASE /\ pte' = [pte EXCEPT ![p][a].rw = TRUE]
           /\ Proceed(p, l, a, FALSE) /\ UNCHANGED <<mem_map, data, dir, swap>>
  <2>1. Moved(p, l, [NoLoc EXCEPT !.addr = a]) /\ exe' = exe /\ cpu' \in {p, NoProc}
    BY <1>1 DEF Proceed, Sleep, Goto
  <2> QED  BY <1>1, <2>1, StoreKeeps
<1>2. CASE Call(p, "wp", r) /\ UNCHANGED <<mem_map, data, tables, swap>>
  <2>1. n \in Pages  BY EntryFacts DEF IInv, Types
  <2>2. /\ r \in Locs /\ r.page = 0 /\ r.out = 0 /\ r.addr = a /\ r.other = n /\ r.ret = l
    <3>1. r = CopyLoc(a, n, l) /\ n \in Maybe(Pages)  BY <2>1 DEF CopyLoc, Maybe
    <3> HIDE DEF n, r
    <3> QED  BY <3>1, LocFault
  <2>3. loc[p].page = 0  BY Idle
  <2> HIDE DEF r, n
  <2>4. "wp" \in Callers \ (Forking \cup Filling)  BY DEF Callers, Forking, Filling
  <2> QED  BY <1>2, <2>2, <2>3, <2>4, CallKeeps DEF n
<1> QED  BY <1>1, <1>2 DEF un_wp_page

LEMMA FaultKeeps ==
    ASSUME IInv, NEW p \in Procs, cpu \in {p, NoProc}, pc[p] \in {"user", "verified"}, NEW a \in Addrs,
           NEW t \in {"user", "verified"}, pc[p] = t, do_no_page(p, a, t)
    PROVE  IInv'
<1> Types  BY DEF IInv
<1> DEFINE r == [NoLoc EXCEPT !.addr = a, !.ret = t]
<1>1. /\ r \in Locs /\ r.page = 0 /\ r.out = 0 /\ r.got = 0
      /\ r.addr = a /\ r.ret = t
  <2>1. r = FaultLoc(a, t)  BY DEF FaultLoc
  <2> HIDE DEF r
  <2> QED  BY <2>1, LocNoPage
<1>2. loc[p].page = 0 /\ loc[p].out = 0 /\ loc[p].got = 0 /\ exe[p] \in Exes  BY Idle
<1>3. ASSUME NEW y \in {"swapin", "bread", "empty"}, Call(p, y, r),
             UNCHANGED <<mem_map, data, tables, swap>>,
             y = "swapin" => pte[p][a].at = "swap", y # "swapin" => pte[p][a].at = "none"
      PROVE  IInv'
  <2> HIDE DEF r
  <2>1. y \in Callers /\ y \notin Forking /\ y \notin {"table", "wp", "share"}  BY DEF Callers, Forking
  <2>2. y = "swapin" => y \notin Filling  BY DEF Filling
  <2> QED  BY <1>1, <1>2, <1>3, <2>1, <2>2, CallKeeps
<1>4. CASE pte[p][a].at = "none" /\ a <= NFile /\ share_page(p, a, r)
  <2>1. PICK q \in Sharers(p, a) :
          \/ /\ dir[p] # 0
             /\ Shared(p, a, q, pte[q][a].n)
             /\ IF r.ret = "user" THEN Sleep(p, "user", NoLoc) ELSE Goto(p, "verified", r)
             /\ UNCHANGED <<data, dir, swap>>
          \/ /\ dir[p] = 0
             /\ Call(p, "share", [r EXCEPT !.other = pte[q][a].n, !.who = q])
             /\ UNCHANGED <<mem_map, data, tables, swap>>
    BY <1>4 DEF share_page
  <2>2. q \in Procs \ {p} /\ pte[q][a].at = "page"  BY DEF Sharers, Droppable
  <2>3. CASE /\ Shared(p, a, q, pte[q][a].n)
             /\ IF r.ret = "user" THEN Sleep(p, "user", NoLoc) ELSE Goto(p, "verified", r)
             /\ UNCHANGED <<data, dir, swap>>
    <3> DEFINE v == IF t = "user" THEN NoLoc ELSE r
    <3>1. v \in Locs /\ v.page = 0 /\ v.out = 0 /\ v.got = 0 /\ (t # "user" => v.addr = a)
      BY <1>1, NoLocType DEF NoLoc
    <3>2. pc' = [pc EXCEPT ![p] = t] /\ loc' = [loc EXCEPT ![p] = v] /\ exe' = exe /\ cpu' \in {p, NoProc}
      BY <1>1, <2>3 DEF Sleep, Goto, Moved
    <3>3. t = "user" => v = NoLoc  OBVIOUS
    <3> HIDE DEF v, r
    <3>4. pc'[p] = t /\ loc'[p] = v /\ exe'[p] \in Exes  BY <1>2, <3>2 DEF Types
    <3>5. Moves(p, t, v)  BY <3>1, <3>2 DEF Moves, PCs, StageOf, Forking
    <3>6. Place(p)'
      <4>1. CASE t = "user"  BY <3>3, <3>4, <4>1, AtUser
      <4>2. CASE t = "verified"
        <5>1. Stage(p)' = t  BY <3>4, <4>2 DEF Stage, StageOf
        <5>2. Holding(p)'  BY <3>1, <3>4, <4>2, <5>1 DEF Holding, Callers
        <5>3. Serving(p)' /\ Making(p)' /\ Alone(p)'
          BY <3>1, <3>4, <4>2, <5>1 DEF Serving, Making, Alone, Filling, Forking
        <5> QED  BY <5>2, <5>3 DEF Place
      <4> QED  BY <4>1, <4>2
    <3> QED  BY <1>2, <1>4, <2>2, <2>3, <3>1, <3>5, <3>6, SharedKeeps
  <2>4. CASE /\ dir[p] = 0
             /\ Call(p, "share", [r EXCEPT !.other = pte[q][a].n, !.who = q])
             /\ UNCHANGED <<mem_map, data, tables, swap>>
    <3> DEFINE n == pte[q][a].n
               v == [r EXCEPT !.other = n, !.who = q]
    <3>1. n \in Pages  BY <2>2, EntryFacts DEF Types
    <3> HIDE DEF n, r
    <3>3. /\ v \in Locs /\ v.page = 0 /\ v.out = 0 /\ v.addr = a /\ v.other = n /\ v.who = q
      <4>1. v = ShareLoc(r, n, q) /\ n \in Maybe(Pages)  BY <3>1 DEF Maybe, ShareLoc
      <4> HIDE DEF v
      <4> QED  BY <1>1, <2>2, <4>1, LocShare
    <3> HIDE DEF v
    <3>4. "share" \in Callers \ (Forking \cup Filling)  BY DEF Callers, Forking, Filling
    <3> QED  BY <1>2, <1>4, <2>2, <2>4, <3>3, <3>4, CallKeeps DEF n, v, r
  <2> QED  BY <2>1, <2>3, <2>4
<1>5. CASE \/ pte[p][a].at = "swap" /\ Call(p, "swapin", r) /\ UNCHANGED <<mem_map, data, tables, swap>>
           \/ pte[p][a].at = "none" /\ Call(p, "bread", r) /\ UNCHANGED <<mem_map, data, tables, swap>>
           \/ pte[p][a].at = "none" /\ Call(p, "empty", r) /\ UNCHANGED <<mem_map, data, tables, swap>>
  <2> HIDE DEF r
  <2> QED  BY <1>3, <1>5
<1> QED  BY <1>4, <1>5 DEF do_no_page

LEMMA DoWpPageKeeps ==
    ASSUME IInv, NEW p \in Procs, NEW a \in Addrs, do_wp_page(p, a)
    PROVE  IInv'
  BY CopyCalled DEF do_wp_page, At, ReadOnly

LEMMA UserFaultKeeps ==
    ASSUME IInv, NEW p \in Procs, NEW a \in Addrs, Fault(p, a)
    PROVE  IInv'
  BY FaultKeeps DEF Fault, At

LEMMA WriteVerifyKeeps ==
    ASSUME IInv, NEW p \in Procs, NEW a \in Addrs, write_verify(p, a)
    PROVE  IInv'
<1>1. cpu \in {p, NoProc} /\ pc[p] = "user"  BY DEF write_verify, At
<1>2. CASE ReadOnly(pte[p][a]) /\ un_wp_page(p, a, "verified")
  BY <1>1, <1>2, CopyCalled DEF ReadOnly
<1>3. CASE \/ Sleep(p, "verified", [NoLoc EXCEPT !.addr = a])
                 /\ UNCHANGED <<mem_map, data, tables, swap>>
           \/ Goto(p, "verified", [NoLoc EXCEPT !.addr = a])
                 /\ UNCHANGED <<mem_map, data, tables, swap>>
  <2>1. /\ Moved(p, "verified", [NoLoc EXCEPT !.addr = a]) /\ exe' = exe /\ cpu' \in {p, NoProc}
        /\ UNCHANGED <<mem_map, data, dir, pte, swap>>
    BY <1>3 DEF Sleep, Goto, tables
  <2> QED  BY <1>1, <2>1, StoreKeeps
<1> QED  BY <1>2, <1>3 DEF write_verify

LEMMA KernelWriteKeeps ==
    ASSUME IInv, NEW p \in Procs, NEW v \in Vals, KernelWrite(p, v)
    PROVE  IInv'
<1>1. cpu \in {p, NoProc} /\ pc[p] = "verified"  BY DEF KernelWrite, At
<1>2. loc[p].addr \in Addrs
  <2>1. Serving(p)  BY DEF IInv, PlaceOK, Place
  <2>2. Stage(p) = "verified"  BY <1>1, Idle
  <2> QED  BY <2>1, <2>2 DEF Serving
<1>3. CASE pte[p][loc[p].addr].at = "page" /\ Stored(p, loc[p].addr, v)
  BY <1>1, <1>2, <1>3, StoredKeeps
<1>4. CASE do_no_page(p, loc[p].addr, "verified")
  BY <1>1, <1>2, <1>4, FaultKeeps
<1> QED  BY <1>3, <1>4 DEF KernelWrite

----------------------------------------------------------------------------
(* get_free_page() and swap_out()                                          *)

\* A process that is in get_free_page().
LEMMA InGetFree ==
    ASSUME IInv, NEW p \in Procs, pc[p] = "free"
    PROVE  /\ loc[p].got = 0 /\ loc[p].out = 0 /\ loc[p].why \in Callers /\ exe[p] \in Exes
           /\ Stage(p) = loc[p].why
<1>1. Holding(p)  BY DEF IInv, PlaceOK, Place
<1> QED  BY <1>1 DEF Holding, Callers, Stage, StageOf

\* It goes on, with the page it looked for or something else changed, at the same
\* stage: what its caller knows is as it was.
LEMMA SameStage ==
    ASSUME IInv, NEW p \in Procs, pc[p] \in {"free", "swapout"}, NEW l, NEW r \in Locs,
           pc' = [pc EXCEPT ![p] = l], loc' = [loc EXCEPT ![p] = r], exe' = exe,
           l \in {"free", "swapout"} \/ l = loc[p].why,
           r.addr = loc[p].addr, r.page = loc[p].page, r.other = loc[p].other,
           r.who = loc[p].who, r.why = loc[p].why, r.ret = loc[p].ret,
           r.out # 0 <=> l = "swapout", l \in {"free", "swapout"} => r.got = 0,
           dir' = dir, \A s \in Procs, b \in Addrs : pte[s][b].at # "page" => pte'[s][b] = pte[s][b],
           loc[p].why \in {"wp", "share"} =>
               pc[p] = "free" /\ l = loc[p].why /\ r.got # 0 /\ cpu' = p /\ pte' = pte
    PROVE  Place(p)' /\ StageOf(l, r) = Stage(p)
<1> Types /\ Place(p)  BY DEF IInv, PlaceOK
<1>1. loc[p].why \in Callers /\ Stage(p) = loc[p].why /\ exe[p] \in Exes
  BY DEF Place, Holding, Stage, StageOf
<1>2. pc'[p] = l /\ loc'[p] = r  BY DEF Types
<1>3. Stage(p)' = Stage(p) /\ StageOf(l, r) = Stage(p)
  BY <1>1, <1>2 DEF Stage, StageOf, Callers
<1>4. Holding(p)'
  BY <1>1, <1>2, <1>3 DEF Place, Holding, Callers
<1>5. Serving(p)'
  BY <1>2, <1>3 DEF Place, Serving, Filling
<1>6. Making(p)'
  <2>1. CASE Stage(p) \in Forking
    <3>1. loc[p].who \in Procs /\ pc[loc[p].who] = "making" /\ loc[p].who # p
      BY <2>1 DEF Place, Making
    <3>2. pc'[loc[p].who] = "making"  BY <3>1 DEF Types
    <3> QED  BY <1>2, <1>3, <2>1, <3>1, <3>2 DEF Place, Making, Forking
  <2>2. CASE Stage(p) \notin Forking  BY <1>3, <2>2 DEF Making, Forking
  <2> QED  BY <2>1, <2>2
<1>7. Alone(p)'
  BY <1>1, <1>2, <1>3 DEF Place, Alone, Callers
<1> QED  BY <1>3, <1>4, <1>5, <1>6, <1>7 DEF Place

LEMMA LocGot ==
    ASSUME NEW r \in Locs, NEW n \in Maybe(Pages)
    PROVE  /\ [r EXCEPT !.got = n] \in Locs /\ [r EXCEPT !.got = n].got = n
           /\ [r EXCEPT !.got = n].addr = r.addr /\ [r EXCEPT !.got = n].page = r.page
           /\ [r EXCEPT !.got = n].out = r.out /\ [r EXCEPT !.got = n].other = r.other
           /\ [r EXCEPT !.got = n].who = r.who /\ [r EXCEPT !.got = n].why = r.why
           /\ [r EXCEPT !.got = n].ret = r.ret
  BY DEF Locs

LEMMA LocOut ==
    ASSUME NEW r \in Locs, NEW n \in Maybe(Pages)
    PROVE  /\ [r EXCEPT !.out = n] \in Locs /\ [r EXCEPT !.out = n].out = n
           /\ [r EXCEPT !.out = n].addr = r.addr /\ [r EXCEPT !.out = n].page = r.page
           /\ [r EXCEPT !.out = n].got = r.got /\ [r EXCEPT !.out = n].other = r.other
           /\ [r EXCEPT !.out = n].who = r.who /\ [r EXCEPT !.out = n].why = r.why
           /\ [r EXCEPT !.out = n].ret = r.ret
  BY DEF Locs

LEMMA MayWait ==
    ASSUME IInv, NEW p \in Procs, NoneFree(p) \/ pc[p] = "swapout"
    PROVE  loc[p].why \notin {"wp", "share"} /\ loc[p].why \in Callers /\ Stage(p) = loc[p].why
<1>1. Place(p) /\ pc[p] \in {"free", "swapout"}  BY DEF IInv, PlaceOK, NoneFree, At
<1>2. loc[p].why \in Callers /\ Stage(p) = loc[p].why  BY <1>1 DEF Place, Holding, Stage, StageOf
<1>3. ASSUME loc[p].why \in {"wp", "share"} PROVE FALSE
  <2>1. pc[p] # "swapout" /\ \E n \in Pages : mem_map[n] = 0
    BY <1>1, <1>2, <1>3 DEF Place, Alone
  <2> QED  BY <2>1 DEF NoneFree
<1> QED  BY <1>2, <1>3

LEMMA GetFreePageKeeps ==
    ASSUME IInv, NEW p \in Procs, GetFreePage(p)
    PROVE  IInv'
<1> Types /\ SwapOK  BY DEF IInv
<1>1. PICK n \in Pages : /\ mem_map[n] = 0 /\ mem_map' = [mem_map EXCEPT ![n] = 1]
                         /\ data' = [data EXCEPT ![n] = "zero"]
                         /\ Goto(p, loc[p].why, [loc[p] EXCEPT !.got = n])
  BY DEF GetFreePage
<1>2. /\ cpu \in {p, NoProc} /\ pc[p] = "free"
      /\ UNCHANGED <<dir, pte, spare, swapped, queue>>
  BY DEF GetFreePage, At, tables, swap
<1>3. /\ loc[p].got = 0 /\ loc[p].out = 0 /\ loc[p].why \in Callers /\ Stage(p) = loc[p].why
  BY <1>2, InGetFree
<1> DEFINE r == [loc[p] EXCEPT !.got = n]  l == loc[p].why
<1>4. /\ pc' = [pc EXCEPT ![p] = l] /\ loc' = [loc EXCEPT ![p] = r]
      /\ exe' = exe /\ cpu' = p
  BY <1>1 DEF Goto, Moved
<1>5. /\ r \in Locs /\ r.got = n /\ r.addr = loc[p].addr /\ r.page = loc[p].page
      /\ r.out = loc[p].out /\ r.other = loc[p].other /\ r.who = loc[p].who
      /\ r.why = loc[p].why /\ r.ret = loc[p].ret
  <2>1. loc[p] \in Locs /\ n \in Maybe(Pages)  BY DEF Types, Maybe
  <2> QED  BY <2>1, LocGot
<1>0. n # 0 /\ n \in Int  BY DEF Pages
<1> HIDE DEF r
<1>6. Place(p)' /\ StageOf(l, r) = Stage(p)
  <2>1. l \notin {"free", "swapout"}  BY <1>3 DEF Callers
  <2> QED  BY <1>0, <1>2, <1>3, <1>4, <1>5, <2>1, SameStage
<1>7. Moves(p, l, r)
  BY <1>2, <1>3, <1>4, <1>5, <1>6 DEF Moves, PCs, Callers
<1>8. Typed
  <2>1. mem_map' \in [Pages -> Int] /\ data' \in [Pages -> Content]  BY <1>1 DEF Types, Content
  <2> QED  BY <1>2, <2>1 DEF Typed, Types
<1>9. /\ loc'[p] = r /\ \A s \in Procs : s # p => loc'[s] = loc[s]
  BY <1>4 DEF Types
<1>10. 1 \in Addrs  BY SizesAssumption DEF Addrs
<1>11. Frame(p, 1, p, p)  BY <1>2, <1>9 DEF Frame
<1>12. ASSUME NEW k \in Pages PROVE mem_map'[k] = mem_map[k] + Change(p, 1, p, p, k)
  <2>1. mem_map[k] \in Int /\ k # 0  BY PageCount
  <2>2. /\ Gain(Held(pte[p][1]), Held(pte'[p][1]), k) = 0 /\ Gain(dir[p], dir'[p], k) = 0
        /\ Gain(loc[p].page, loc'[p].page, k) = 0 /\ Gain(loc[p].out, loc'[p].out, k) = 0
    BY <1>2, <1>5, <1>9 DEF Gain
  <2>3. Gain(loc[p].got, loc'[p].got, k) = IF k = n THEN 1 ELSE 0
    BY <1>3, <1>5, <1>9, <2>1 DEF Gain
  <2>4. mem_map'[k] = IF k = n THEN 1 ELSE mem_map[k]  BY <1>1 DEF Types
  <2> QED  BY <1>1, <2>1, <2>2, <2>3, <2>4 DEF Change
<1>13. OthersKept(p) /\ SwapOK'  BY <1>2, SwapSame DEF OthersKept
<1> QED  BY <1>6, <1>7, <1>8, <1>10, <1>11, <1>12, <1>13, Step

LEMMA DropKeeps ==
    ASSUME IInv, NEW p \in Procs, NEW q \in Procs, NEW a \in Addrs, Drop(p, q, a)
    PROVE  IInv'
<1> Types /\ SwapOK  BY DEF IInv
<1> DEFINE n == pte[q][a].n  r == loc[p]
<1>1. /\ cpu \in {p, NoProc} /\ pc[p] = "free" /\ pte[q][a].at = "page"
      /\ pte' = [pte EXCEPT ![q][a] = NoEntry] /\ mem_map' = [mem_map EXCEPT ![n] = @ - 1]
      /\ pc' = [pc EXCEPT ![p] = "free"] /\ loc' = [loc EXCEPT ![p] = r]
      /\ exe' = exe /\ cpu' = p
      /\ UNCHANGED <<data, dir, spare, swapped, queue>>
  BY DEF Drop, NoneFree, At, Droppable, Goto, Moved, swap
<1>2. /\ loc[p].why \notin {"wp", "share"} /\ loc[p].why \in Callers /\ Stage(p) = loc[p].why
  BY MayWait DEF Drop
<1>3. loc[p].got = 0 /\ loc[p].out = 0  BY <1>1, InGetFree
<1>4. pte[q][a] \in Entries /\ n \in Pages /\ NoEntry \in Entries /\ NoEntry.at = "none"
  <2>1. pte[q][a] \in Entries  BY DEF Types
  <2> QED  BY <1>1, <2>1, EntryFacts DEF Entries, NoEntry
<1>5. /\ r \in Locs /\ r.got = loc[p].got /\ r.addr = loc[p].addr /\ r.page = loc[p].page
      /\ r.out = loc[p].out /\ r.other = loc[p].other /\ r.who = loc[p].who
      /\ r.why = loc[p].why /\ r.ret = loc[p].ret
  BY DEF Types
<1> HIDE DEF n, r
<1>6. /\ pte' \in [Procs -> [Addrs -> Entries]] /\ pte'[q][a] = NoEntry
      /\ \A s \in Procs, b \in Addrs : s # q \/ b # a => pte'[s][b] = pte[s][b]
  BY <1>1, <1>4 DEF Types
<1>7. Place(p)' /\ StageOf("free", r) = Stage(p)
  <2>1. \A s \in Procs, b \in Addrs : pte[s][b].at # "page" => pte'[s][b] = pte[s][b]
    BY <1>1, <1>6
  <2>2. /\ pc[p] \in {"free", "swapout"} /\ pc' = [pc EXCEPT ![p] = "free"]
        /\ loc' = [loc EXCEPT ![p] = r] /\ exe' = exe /\ dir' = dir
    BY <1>1
  <2>3. r.got = 0 /\ r.out = 0  BY <1>3, <1>5
  <2> QED  BY <1>2, <1>5, <2>1, <2>2, <2>3, SameStage
<1>8. Moves(p, "free", r)
  BY <1>1, <1>2, <1>5, <1>7 DEF Moves, PCs, r
<1>9. Typed
  <2>1. mem_map' \in [Pages -> Int]  BY <1>1, <1>4 DEF Types
  <2> QED  BY <1>1, <1>6, <2>1 DEF Typed, Types
<1>10. \A s \in Procs : loc'[s] = loc[s]  BY <1>1 DEF Types, r
<1>11. Frame(q, a, p, p)  BY <1>1, <1>6, <1>10 DEF Frame
<1>12. ASSUME NEW k \in Pages PROVE mem_map'[k] = mem_map[k] + Change(q, a, p, p, k)
  <2>1. mem_map[k] \in Int /\ k # 0  BY PageCount
  <2>2. /\ Gain(dir[p], dir'[p], k) = 0 /\ Gain(loc[p].page, loc'[p].page, k) = 0
        /\ Gain(loc[p].out, loc'[p].out, k) = 0 /\ Gain(loc[p].got, loc'[p].got, k) = 0
    BY <1>1, <1>10 DEF Gain
  <2>3. Held(pte[q][a]) = n /\ Held(pte'[q][a]) = 0  BY <1>1, <1>4, <1>6 DEF Held, n
  <2>4. mem_map'[k] = mem_map[k] - (IF k = n THEN 1 ELSE 0)  BY <1>1, <2>1 DEF Types
  <2> QED  BY <2>1, <2>2, <2>3, <2>4 DEF Change, Gain
<1>13. OthersKept(p) /\ SwapOK'  BY <1>1, <1>4, <1>6, SwapSame DEF OthersKept
<1> QED  BY <1>7, <1>8, <1>9, <1>11, <1>12, <1>13, Step

LEMMA SwapOutKeeps ==
    ASSUME IInv, NEW p \in Procs, NEW q \in Procs, NEW a \in Addrs, SwapOut(p, q, a)
    PROVE  IInv'
<1> Types /\ SwapOK  BY DEF IInv
<1> DEFINE n == pte[q][a].n  r == [loc[p] EXCEPT !.out = n]
<1>1. PICK nr \in spare :
        /\ spare' = spare \ {nr}
        /\ pte' = [pte EXCEPT ![q][a] = OnSwap(nr)]
        /\ queue' = Append(queue, [cmd |-> "write", nr |-> nr, page |-> n, by |-> p])
  BY DEF SwapOut
<1>2. /\ cpu \in {p, NoProc} /\ pc[p] = "free" /\ pte[q][a].at = "page"
      /\ pc' = [pc EXCEPT ![p] = "swapout"] /\ loc' = [loc EXCEPT ![p] = r]
      /\ exe' = exe /\ cpu' = NoProc
      /\ UNCHANGED <<mem_map, data, dir, swapped>>
  BY DEF SwapOut, NoneFree, At, Writable, Sleep, Moved
<1>3. /\ loc[p].why \notin {"wp", "share"} /\ loc[p].why \in Callers /\ Stage(p) = loc[p].why
  BY MayWait DEF SwapOut
<1>4. loc[p].got = 0 /\ loc[p].out = 0  BY <1>2, InGetFree
<1>5. /\ n \in Pages /\ n # 0 /\ nr \in SwapNrs
      /\ OnSwap(nr) \in Entries /\ OnSwap(nr).at = "swap" /\ OnSwap(nr).n = nr
  <2>1. pte[q][a] \in Entries /\ nr \in SwapNrs  BY DEF Types
  <2>2. n \in Pages  BY <1>2, <2>1, EntryFacts
  <2>3. n # 0  BY <2>2 DEF Pages
  <2> QED  BY <2>1, <2>2, <2>3, EntryMade
<1>6. /\ r \in Locs /\ r.got = 0 /\ r.addr = loc[p].addr /\ r.page = loc[p].page
      /\ r.out = n /\ r.other = loc[p].other /\ r.who = loc[p].who
      /\ r.why = loc[p].why /\ r.ret = loc[p].ret
  <2>1. loc[p] \in Locs /\ n \in Maybe(Pages)  BY <1>5 DEF Types, Maybe
  <2> HIDE DEF n
  <2> QED  BY <1>4, <2>1, LocOut
<1> HIDE DEF n, r
<1>7. /\ pte' \in [Procs -> [Addrs -> Entries]] /\ pte'[q][a] = OnSwap(nr)
      /\ \A s \in Procs, b \in Addrs : s # q \/ b # a => pte'[s][b] = pte[s][b]
  BY <1>1, <1>5 DEF Types
<1>8. Place(p)' /\ StageOf("swapout", r) = Stage(p)
  <2>1. \A s \in Procs, b \in Addrs : pte[s][b].at # "page" => pte'[s][b] = pte[s][b]
    BY <1>2, <1>7
  <2> QED  BY <1>2, <1>3, <1>5, <1>6, <2>1, SameStage
<1>9. Moves(p, "swapout", r)
  BY <1>2, <1>3, <1>6, <1>8 DEF Moves, PCs
<1>10. Typed
  <2>1. [cmd |-> "write", nr |-> nr, page |-> n, by |-> p] \in Requests
    BY <1>5 DEF Requests
  <2>2. queue' \in Seq(Requests)  BY <1>1, <2>1, AppendProperties DEF Types
  <2> QED  BY <1>1, <1>2, <1>7, <2>2 DEF Typed, Types
<1>11. /\ loc'[p] = r /\ \A s \in Procs : s # p => loc'[s] = loc[s]
  BY <1>2 DEF Types
<1>12. Frame(q, a, p, p)  BY <1>2, <1>7, <1>11 DEF Frame
<1>13. ASSUME NEW k \in Pages PROVE mem_map'[k] = mem_map[k] + Change(q, a, p, p, k)
  <2>1. mem_map[k] \in Int /\ k # 0  BY PageCount
  <2>2. /\ Gain(dir[p], dir'[p], k) = 0 /\ Gain(loc[p].page, loc'[p].page, k) = 0
        /\ Gain(loc[p].got, loc'[p].got, k) = 0
    BY <1>2, <1>4, <1>6, <1>11 DEF Gain
  <2>3. Held(pte[q][a]) = n /\ Held(pte'[q][a]) = 0  BY <1>2, <1>5, <1>7 DEF Held, n
  <2> QED  BY <1>2, <1>4, <1>6, <1>11, <2>1, <2>2, <2>3 DEF Change, Gain
<1>14. OthersKept(p)  BY <1>2, <1>7 DEF OthersKept
<1>15. SwapOK'
  <2>1. \A s \in Procs, b \in Addrs : pte[s][b].at = "swap" => pte[s][b].n # nr
    BY DEF SwapOK
  <2>2. \A s \in Procs, b \in Addrs : pte'[s][b].at = "swap" => pte'[s][b].n \notin spare'
    BY <1>1, <1>5, <1>7 DEF SwapOK
  <2>3. ASSUME NEW s \in Procs, NEW t \in Procs, NEW b \in Addrs, NEW c \in Addrs,
               pte'[s][b].at = "swap", pte'[t][c] = pte'[s][b]
        PROVE  s = t /\ b = c
    BY <1>5, <1>7, <2>1, <2>3 DEF SwapOK
  <2>4. ASSUME NEW k \in SwapNrs \ spare' PROVE \E s \in Procs, b \in Addrs : pte'[s][b] = OnSwap(k)
    <3>1. CASE k = nr  BY <1>7, <3>1
    <3>2. CASE k # nr
      <4>1. PICK s \in Procs, b \in Addrs : pte[s][b] = OnSwap(k)  BY <1>1, <3>2 DEF SwapOK
      <4>2. pte'[s][b] = OnSwap(k)  BY <1>2, <1>7, <4>1 DEF OnSwap
      <4> QED  BY <4>2
    <3> QED  BY <3>1, <3>2
  <2> QED  BY <2>2, <2>3, <2>4 DEF SwapOK
<1> QED  BY <1>8, <1>9, <1>10, <1>12, <1>13, <1>14, <1>15, Step

LEMMA SwappedOutKeeps ==
    ASSUME IInv, NEW p \in Procs, SwappedOut(p)
    PROVE  IInv'
<1> Types /\ SwapOK  BY DEF IInv
<1> DEFINE n == loc[p].out  r == [loc[p] EXCEPT !.out = 0]
<1>1. /\ cpu \in {p, NoProc} /\ pc[p] = "swapout"
      /\ mem_map' = [mem_map EXCEPT ![n] = @ - 1]
      /\ pc' = [pc EXCEPT ![p] = "free"] /\ loc' = [loc EXCEPT ![p] = r]
      /\ exe' = exe /\ cpu' = p
      /\ UNCHANGED <<data, dir, pte, spare, swapped, queue>>
  BY DEF SwappedOut, At, Goto, Moved, swap, tables
<1>2. /\ loc[p].why \notin {"wp", "share"} /\ loc[p].why \in Callers /\ Stage(p) = loc[p].why
  BY <1>1, MayWait
<1>3. loc[p].got = 0 /\ n # 0 /\ n \in Pages
  <2>1. Holding(p) /\ loc[p] \in Locs  BY DEF IInv, PlaceOK, Place, Types
  <2> QED  BY <1>1, <2>1 DEF Holding, Locs, Maybe, Callers
<1>4. /\ r \in Locs /\ r.got = loc[p].got /\ r.addr = loc[p].addr /\ r.page = loc[p].page
      /\ r.out = 0 /\ r.other = loc[p].other /\ r.who = loc[p].who
      /\ r.why = loc[p].why /\ r.ret = loc[p].ret
  <2>1. loc[p] \in Locs /\ 0 \in Maybe(Pages)  BY DEF Types, Maybe
  <2> QED  BY <2>1, LocOut
<1> HIDE DEF r
<1>5. Place(p)' /\ StageOf("free", r) = Stage(p)
  BY <1>1, <1>2, <1>3, <1>4, SameStage
<1>6. Moves(p, "free", r)
  BY <1>1, <1>2, <1>4, <1>5 DEF Moves, PCs
<1>7. Typed
  <2>1. mem_map' \in [Pages -> Int]  BY <1>1, <1>3 DEF Types
  <2> QED  BY <1>1, <2>1 DEF Typed, Types
<1>8. /\ loc'[p] = r /\ \A s \in Procs : s # p => loc'[s] = loc[s]
  BY <1>1 DEF Types
<1>9. 1 \in Addrs  BY SizesAssumption DEF Addrs
<1>10. Frame(p, 1, p, p)  BY <1>1, <1>8 DEF Frame
<1>11. ASSUME NEW k \in Pages PROVE mem_map'[k] = mem_map[k] + Change(p, 1, p, p, k)
  <2>1. mem_map[k] \in Int /\ k # 0  BY PageCount
  <2>2. /\ Gain(dir[p], dir'[p], k) = 0 /\ Gain(loc[p].page, loc'[p].page, k) = 0
        /\ Gain(loc[p].got, loc'[p].got, k) = 0 /\ Gain(Held(pte[p][1]), Held(pte'[p][1]), k) = 0
    BY <1>1, <1>4, <1>8 DEF Gain
  <2>4. mem_map'[k] = mem_map[k] - (IF k = n THEN 1 ELSE 0)  BY <1>1, <2>1 DEF Types
  <2> QED  BY <1>4, <1>8, <2>1, <2>2, <2>4 DEF Change, Gain
<1>12. OthersKept(p) /\ SwapOK'  BY <1>1, SwapSame DEF OthersKept
<1> QED  BY <1>5, <1>6, <1>7, <1>9, <1>10, <1>11, <1>12, Step

LEMMA OutOfSwapKeeps ==
    ASSUME IInv, NEW p \in Procs, OutOfSwap(p)
    PROVE  IInv'
<1> Types /\ SwapOK  BY DEF IInv
<1> DEFINE r == loc[p]  l == loc[p].why
<1>1. /\ cpu \in {p, NoProc} /\ pc[p] = "free"
      /\ pc' = [pc EXCEPT ![p] = l] /\ loc' = [loc EXCEPT ![p] = r]
      /\ exe' = exe /\ cpu' = p
      /\ UNCHANGED <<mem_map, data, dir, pte, swap>>
  BY DEF OutOfSwap, NoneFree, At, Goto, Moved, tables
<1>2. /\ l \notin {"wp", "share"} /\ l \in Callers /\ Stage(p) = l
  BY MayWait DEF OutOfSwap
<1>3. loc[p].got = 0 /\ loc[p].out = 0  BY <1>1, InGetFree
<1>4. /\ r \in Locs /\ r.got = loc[p].got /\ r.addr = loc[p].addr /\ r.page = loc[p].page
      /\ r.out = loc[p].out /\ r.other = loc[p].other /\ r.who = loc[p].who
      /\ r.why = l /\ r.ret = loc[p].ret
  BY DEF Types
<1> HIDE DEF r
<1>5. Place(p)' /\ StageOf(l, r) = Stage(p)
  <2>1. l \notin {"free", "swapout"}  BY <1>2 DEF Callers
  <2> QED  BY <1>1, <1>2, <1>3, <1>4, <2>1, SameStage
<1>6. Moves(p, l, r)
  BY <1>1, <1>2, <1>4, <1>5 DEF Moves, PCs, Callers
<1>7. data' \in [Pages -> Content] /\ pte' \in [Procs -> [Addrs -> Entries]]  BY <1>1 DEF Types
<1> QED  BY <1>1, <1>4, <1>5, <1>6, <1>7, StepStill

\* The disk changes only what pages hold.
LEMMA CompleteKeeps ==
    ASSUME IInv, Complete
    PROVE  IInv'
<1> Types  BY DEF IInv
<1>1. UNCHANGED <<cpu, mem_map, dir, pte, spare, exe, pc, loc>> /\ queue # <<>> /\ queue' = Tail(queue)
  BY DEF Complete, tables
<1>2. Head(queue) \in Requests /\ queue' \in Seq(Requests)
  BY <1>1, HeadTailProperties DEF Types
<1>3. data' \in [Pages -> Content] /\ swapped' \in [SwapNrs -> Content]
  BY <1>2 DEF Complete, Types, Requests
<1>4. Types'  BY <1>1, <1>2, <1>3 DEF Types
<1>5. PlaceOK' /\ ChildOK' /\ SwapOK'
  BY <1>1 DEF IInv, PlaceOK, Place, Holding, Serving, Making, Alone, ChildOK, SwapOK, Stage
<1>6. CountOK'
  <2>1. Refs' = Refs
    <3>1. Refs = [u \in D |-> Refs[u]]  BY DEF Refs
    <3>2. \A q \in Procs :
            /\ Refs[<<q, 0>>] = dir'[q] /\ Refs[<<q, -1>>] = loc'[q].page
            /\ Refs[<<q, -2>>] = loc'[q].out /\ Refs[<<q, -3>>] = loc'[q].got
            /\ \A a \in Addrs : Refs[<<q, a>>] = Held(pte'[q][a])
      BY <1>1, RefsAre
    <3>3. DOMAIN Refs = D  BY RefsAre
    <3> DEFINE f == Refs
    <3> HIDE DEF f
    <3> QED  BY <3>1, <3>2, <3>3, SameRefs DEF f
  <2>2. \A n \in Pages : Count(Refs, n)' = Count(Refs', n)  BY DEF Count, D
  <2> QED  BY <1>1, <2>1, <2>2 DEF CountOK, IInv
<1> QED  BY <1>4, <1>5, <1>6 DEF IInv, Safe

----------------------------------------------------------------------------
(* Page faults after get_free_page()                                       *)

\* What a process that is not in get_free_page() holds.
LEMMA Here ==
    ASSUME IInv, NEW p \in Procs, pc[p] \in PCs \ {"free", "swapout", "unused", "making"}
    PROVE  /\ Stage(p) = pc[p] /\ Place(p) /\ exe[p] \in Exes /\ loc[p].out = 0
           /\ pc[p] \notin Callers => loc[p].got = 0
           /\ loc[p] \in Locs /\ loc[p].got \in Maybe(Pages) /\ loc[p].page \in Maybe(Pages)
           /\ loc[p].addr \in 0..NAddrs + 1
<1>1. Place(p) /\ loc[p] \in Locs  BY DEF IInv, PlaceOK, Types
<1>2. Holding(p)  BY <1>1 DEF Place
<1>3. Stage(p) = pc[p]  BY DEF Stage, StageOf
<1>4. exe[p] \in Exes /\ loc[p].out = 0 /\ (pc[p] \notin Callers => loc[p].got = 0)
  BY <1>2 DEF Holding
<1>5. loc[p].got \in Maybe(Pages) /\ loc[p].page \in Maybe(Pages) /\ loc[p].addr \in 0..NAddrs + 1
  BY <1>1 DEF Locs
<1> QED  BY <1>1, <1>3, <1>4, <1>5

\* The process goes on with nothing in its variables but the address.
Resumed(p, l, r) ==
    /\ Moves(p, l, r) /\ Place(p)' /\ StageOf(l, r) \notin Forking
    /\ r.page = 0 /\ r.out = 0 /\ r.got = 0

LEMMA Resumes ==
    ASSUME IInv, NEW p \in Procs, cpu \in {p, NoProc}, NEW a \in Addrs,
           pc[p] \in PCs \ {"free", "swapout", "unused", "making"},
           NEW l, NEW r, Moved(p, l, r), exe' = exe, cpu' \in {p, NoProc},
           \/ l = "user" /\ r = NoLoc
           \/ l \in {"store", "verified"} /\ r = [NoLoc EXCEPT !.addr = a]
    PROVE  Resumed(p, l, r)
<1> Types  BY DEF IInv
<1>1. pc' = [pc EXCEPT ![p] = l] /\ loc' = [loc EXCEPT ![p] = r] /\ exe'[p] \in Exes
  BY Here DEF Moved
<1>2. pc'[p] = l /\ loc'[p] = r  BY <1>1 DEF Types
<1>3. r \in Locs /\ r.page = 0 /\ r.out = 0 /\ r.got = 0
  <2>1. NoLoc.page = 0 /\ NoLoc.out = 0 /\ NoLoc.got = 0  BY DEF NoLoc
  <2>2. CASE r = NoLoc  BY <2>1, <2>2, NoLocType
  <2>3. CASE r = [NoLoc EXCEPT !.addr = a]  BY <2>1, <2>3, NoLocType, LocWith
  <2> QED  BY <2>2, <2>3
<1>4. Place(p)'
  <2>1. CASE l = "user"  BY <1>1, <1>2, <2>1, AtUser
  <2>2. CASE l \in {"store", "verified"}  BY <1>1, <1>2, <2>2, AtStore
  <2> QED  BY <2>1, <2>2
<1>5. l \in {"user", "store", "verified"} /\ StageOf(l, r) \notin Forking
  BY DEF StageOf, Forking
<1>6. Moves(p, l, r)  BY <1>1, <1>3, <1>5 DEF Moves, PCs
<1> QED  BY <1>3, <1>4, <1>5, <1>6 DEF Resumed

LEMMA ReturnResumes ==
    ASSUME IInv, NEW p \in Procs, cpu \in {p, NoProc}, loc[p].addr \in Addrs,
           pc[p] \in PCs \ {"free", "swapout", "unused", "making"}, Return(p)
    PROVE  \E l, r : Resumed(p, l, r)
<1>1. CASE Sleep(p, "user", NoLoc)
  BY <1>1, Resumes DEF Sleep
<1>2. CASE Goto(p, "verified", [NoLoc EXCEPT !.addr = loc[p].addr])
  BY <1>2, Resumes DEF Goto
<1> QED  BY <1>1, <1>2 DEF Return

LEMMA ProceedResumes ==
    ASSUME IInv, NEW p \in Procs, cpu \in {p, NoProc}, NEW a \in Addrs, NEW l \in {"store", "verified"},
           pc[p] \in PCs \ {"free", "swapout", "unused", "making"},
           NEW copied \in BOOLEAN, Proceed(p, l, a, copied)
    PROVE  \E r : Resumed(p, l, r)
<1>1. Moved(p, l, [NoLoc EXCEPT !.addr = a]) /\ exe' = exe /\ cpu' \in {p, NoProc}
  BY DEF Proceed, Sleep, Goto
<1> QED  BY <1>1, Resumes

\* It has put page m into an entry of its own.
LEMMA Filled ==
    ASSUME IInv, NEW p \in Procs, NEW l, NEW r, Resumed(p, l, r),
           NEW a \in Addrs, NEW m \in Pages, NEW e \in Entries, e.at = "page", e.n = m,
           pte' = [pte EXCEPT ![p][a] = e],
           data' \in [Pages -> Content], mem_map' \in [Pages -> Int],
           dir' = dir \/ dir' = [dir EXCEPT ![p] = loc[p].got],
           UNCHANGED <<swapped, queue>>, spare' \subseteq SwapNrs, SwapOK', loc[p].out = 0,
           \A n \in Pages : mem_map'[n] = mem_map[n] + Gain(Held(pte[p][a]), m, n)
               + Gain(dir[p], dir'[p], n) + Gain(loc[p].page, 0, n) + Gain(loc[p].got, 0, n)
    PROVE  IInv'
<1> Types  BY DEF IInv
<1>2. /\ pte' \in [Procs -> [Addrs -> Entries]] /\ pte'[p][a] = e
      /\ \A s \in Procs, b \in Addrs : s # p \/ b # a => pte'[s][b] = pte[s][b]
  BY DEF Types
<1>3. /\ loc'[p] = r /\ \A s \in Procs : s # p => loc'[s] = loc[s] /\ dir'[s] = dir[s]
  BY DEF Types, Resumed, Moves
<1>4. Typed
  <2>1. loc[p].got \in Maybe(Pages)  BY DEF Types, Locs
  <2>2. dir' \in [Procs -> Maybe(Pages)]  BY <2>1 DEF Types
  <2> QED  BY <1>2, <2>2 DEF Typed, Types
<1>5. Frame(p, a, p, p)  BY <1>2, <1>3 DEF Frame
<1>6. OthersKept(p)  BY <1>2, <1>3 DEF OthersKept, Own
<1>7. Held(pte'[p][a]) = m  BY <1>2 DEF Held
<1>8. ASSUME NEW n \in Pages PROVE mem_map'[n] = mem_map[n] + Change(p, a, p, p, n)
  <2>1. loc'[p].page = 0 /\ loc'[p].out = 0 /\ loc'[p].got = 0  BY <1>3 DEF Resumed
  <2>2. Gain(loc[p].out, loc'[p].out, n) = 0  BY <2>1 DEF Gain
  <2>3. mem_map[n] \in Int  BY DEF Types
  <2> QED  BY <1>7, <2>1, <2>2, <2>3, GainType DEF Change
<1> QED  BY <1>4, <1>5, <1>6, <1>8, Step DEF Resumed

LEMMA CopyKeeps ==
    ASSUME IInv, NEW p \in Procs, Copy(p)
    PROVE  IInv'
<1> Types /\ SwapOK  BY DEF IInv
<1> DEFINE n == loc[p].got  old == loc[p].other  a == loc[p].addr
<1>1. /\ cpu \in {p, NoProc} /\ pc[p] = "wp" /\ n # 0
      /\ mem_map' = [mem_map EXCEPT ![old] = @ - 1] /\ data' = [data EXCEPT ![n] = data[old]]
      /\ pte' = [pte EXCEPT ![p][a] = InMemory(n, TRUE, FALSE)]
      /\ Proceed(p, loc[p].ret, a, TRUE) /\ UNCHANGED <<dir, spare, swapped, queue>>
  BY DEF Copy, At, swap
<1>2. Stage(p) = "wp" /\ Place(p) /\ loc[p].out = 0 /\ n \in Pages /\ loc[p] \in Locs
  BY <1>1, Here DEF Callers, PCs, Maybe
<1>3. a \in Addrs /\ pte[p][a].at = "page" /\ pte[p][a].n = old /\ loc[p].ret # "user"
  BY <1>2 DEF Place, Alone
<1>4. loc[p].page = 0  BY <1>2 DEF Place, Holding
<1>5. old \in Pages
  <2>1. pte[p][a] \in Entries  BY <1>3 DEF Types
  <2> QED  BY <1>3, <2>1, EntryFacts
<1>6. loc[p].ret \in {"store", "verified"}  BY <1>2, <1>3 DEF Locs
<1>7. PICK r : Resumed(p, loc[p].ret, r)
  BY <1>1, <1>3, <1>6, ProceedResumes DEF Callers, PCs
<1> DEFINE e == InMemory(n, TRUE, FALSE)
<1>0. e \in Entries /\ e.at = "page" /\ e.n = n  BY <1>2, EntryMade, Zenon
<1> HIDE DEF e
<1>8. /\ pte'[p][a] = e
      /\ \A s \in Procs, b \in Addrs : s # p \/ b # a => pte'[s][b] = pte[s][b]
  BY <1>1, <1>3 DEF Types, e
<1>9. SwapOK'
  <2>1. pte'[p][a].at = "page"  BY <1>0, <1>8
  <2> HIDE DEF a
  <2> QED  BY <1>1, <1>3, <1>8, <2>1, SwapSame
<1>10. data' \in [Pages -> Content] /\ mem_map' \in [Pages -> Int]
  BY <1>1, <1>2, <1>5 DEF Types
<1>11. ASSUME NEW k \in Pages
       PROVE  mem_map'[k] = mem_map[k] + Gain(Held(pte[p][a]), n, k)
                  + Gain(dir[p], dir'[p], k) + Gain(loc[p].page, 0, k) + Gain(n, 0, k)
  <2>1. mem_map[k] \in Int /\ k # 0  BY PageCount
  <2>2. Held(pte[p][a]) = old  BY <1>3 DEF Held
  <2>3. mem_map'[k] = mem_map[k] - (IF k = old THEN 1 ELSE 0)  BY <1>1, <2>1 DEF Types
  <2>4. dir'[p] = dir[p]  BY <1>1
  <2> HIDE DEF n, old, a
  <2> QED  BY <1>4, <2>1, <2>2, <2>3, <2>4 DEF Gain
<1> HIDE DEF n, old, a
<1>12. pte' = [pte EXCEPT ![p][a] = e]  BY <1>1 DEF e
<1>13. n = loc[p].got /\ spare' \subseteq SwapNrs  BY <1>1 DEF n, Types
<1>14. \A k \in Pages : mem_map'[k] = mem_map[k] + Gain(Held(pte[p][a]), n, k)
            + Gain(dir[p], dir'[p], k) + Gain(loc[p].page, 0, k) + Gain(loc[p].got, 0, k)
  BY <1>11, <1>13
<1>15. UNCHANGED <<dir, swapped, queue>> /\ a \in Addrs /\ n \in Pages /\ loc[p].out = 0
  BY <1>1, <1>2, <1>3
<1> QED  BY <1>0, <1>7, <1>9, <1>10, <1>12, <1>13, <1>14, <1>15, Filled

LEMMA ShareTableKeeps ==
    ASSUME IInv, NEW p \in Procs, ShareTable(p)
    PROVE  IInv'
<1> DEFINE a == loc[p].addr  q == loc[p].who  n == loc[p].other
<1>1. /\ cpu \in {p, NoProc} /\ pc[p] = "share" /\ loc[p].got # 0
      /\ dir' = [dir EXCEPT ![p] = loc[p].got] /\ Shared(p, a, q, n) /\ Return(p)
      /\ UNCHANGED <<data, swap>>
  BY DEF ShareTable, At
<1>2. Stage(p) = "share" /\ Place(p) /\ loc[p].out = 0  BY <1>1, Here DEF Callers, PCs
<1>3. /\ a \in Addrs /\ dir[p] = 0 /\ pte[p][a].at = "none" /\ q \in Procs \ {p}
      /\ pte[q][a].at = "page" /\ pte[q][a].n = n
  BY <1>2 DEF Place, Alone
<1>4. loc[p].page = 0  BY <1>2 DEF Place, Holding
<1>5. PICK l, r : Resumed(p, l, r)  BY <1>1, <1>3, ReturnResumes DEF Callers, PCs
<1> HIDE DEF a, q, n
<1> QED  BY <1>1, <1>2, <1>3, <1>4, <1>5, SharedKeeps DEF Resumed

\* The page that get_free_page() returned is kept across the next sleep.
HoldLoc(r) == [r EXCEPT !.page = r.got, !.got = 0]

LEMMA LocHold ==
    ASSUME NEW r \in Locs
    PROVE  /\ HoldLoc(r) \in Locs /\ HoldLoc(r).page = r.got /\ HoldLoc(r).got = 0
           /\ HoldLoc(r).addr = r.addr /\ HoldLoc(r).out = r.out /\ HoldLoc(r).who = r.who
  BY DEF Locs, HoldLoc, Maybe

After(l) == CASE l = "swapin" -> "reading" [] l = "forkpage" -> "forkread"
              [] l = "empty" -> "put" [] l = "bread" -> "filling"

LEMMA HoldKeeps ==
    ASSUME IInv, NEW p \in Procs, cpu \in {p, NoProc}, pc[p] \in {"swapin", "forkpage", "empty", "bread"},
           loc[p].got # 0, Moved(p, After(pc[p]), [loc[p] EXCEPT !.page = loc[p].got, !.got = 0]),
           exe' = exe, cpu' \in {p, NoProc},
           UNCHANGED <<mem_map, data, dir, pte, spare, swapped>>, queue' \in Seq(Requests)
    PROVE  IInv'
<1> Types /\ SwapOK  BY DEF IInv
<1> DEFINE r == HoldLoc(loc[p])  l == After(pc[p])
<1>1. pc' = [pc EXCEPT ![p] = l] /\ loc' = [loc EXCEPT ![p] = r]  BY DEF Moved, HoldLoc
<1>2. /\ r \in Locs /\ r.page = loc[p].got /\ r.got = 0 /\ r.addr = loc[p].addr
      /\ r.out = loc[p].out /\ r.who = loc[p].who
  BY LocHold DEF Types
<1>3. /\ l \in {"reading", "forkread", "put", "filling"}
      /\ l = "reading" <=> pc[p] = "swapin"
      /\ l = "forkread" <=> pc[p] = "forkpage"
      /\ l \in {"put", "filling"} <=> pc[p] \in {"empty", "bread"}
  BY DEF After
<1> HIDE DEF r, l
<1>4. Stage(p) = pc[p] /\ Place(p) /\ exe[p] \in Exes /\ loc[p].out = 0
  BY Here DEF Callers, PCs
<1>5. loc[p].page = 0  BY <1>4 DEF Place, Holding
<1>6. /\ pc'[p] = l /\ loc'[p] = r /\ \A s \in Procs : s # p => loc'[s] = loc[s]
  BY <1>1 DEF Types
<1>7. Stage(p)' = l /\ StageOf(l, r) = l  BY <1>3, <1>6 DEF Stage, StageOf
<1>8. Place(p)'
  <2>1. Holding(p)'  BY <1>2, <1>3, <1>4, <1>6, <1>7 DEF Holding, Callers
  <2>2. Serving(p)'  BY <1>2, <1>3, <1>4, <1>6, <1>7 DEF Place, Serving, Filling
  <2>3. Making(p)'
    <3>1. CASE l = "forkread"
      <4>1. loc[p].who \in Procs /\ pc[loc[p].who] = "making"
        BY <1>3, <1>4, <3>1 DEF Place, Making, Forking
      <4>2. pc'[loc[p].who] = "making"  BY <1>1, <4>1 DEF Types
      <4> QED  BY <1>2, <1>3, <1>4, <1>6, <1>7, <3>1, <4>1, <4>2 DEF Place, Making, Forking
    <3>2. CASE l # "forkread"  BY <1>3, <1>7, <3>2 DEF Making, Forking
    <3> QED  BY <3>1, <3>2
  <2>4. Alone(p)'  BY <1>3, <1>7 DEF Alone
  <2> QED  BY <2>1, <2>2, <2>3, <2>4 DEF Place
<1>9. Moves(p, l, r)
  <2>1. StageOf(l, r) \in Forking => Stage(p) \in Forking  BY <1>3, <1>4, <1>7 DEF Forking
  <2>2. l \in PCs \ {"making", "unused"} /\ pc[p] \notin {"making", "unused"}  BY <1>3 DEF PCs
  <2> QED  BY <1>1, <1>2, <2>1, <2>2 DEF Moves
<1>10. Typed  BY DEF Typed, Types
<1>11. 1 \in Addrs  BY SizesAssumption DEF Addrs
<1>12. Frame(p, 1, p, p)  BY <1>6 DEF Frame
<1>13. ASSUME NEW k \in Pages PROVE mem_map'[k] = mem_map[k] + Change(p, 1, p, p, k)
  <2>1. mem_map[k] \in Int /\ k # 0  BY PageCount
  <2>2. /\ Gain(dir[p], dir'[p], k) = 0 /\ Gain(loc[p].out, loc'[p].out, k) = 0
        /\ Gain(Held(pte[p][1]), Held(pte'[p][1]), k) = 0
    BY <1>2, <1>6 DEF Gain
  <2> QED  BY <1>2, <1>5, <1>6, <2>1, <2>2 DEF Change, Gain
<1>14. OthersKept(p) /\ SwapOK'  BY SwapSame DEF OthersKept
<1> QED  BY <1>8, <1>9, <1>10, <1>11, <1>12, <1>13, <1>14, Step

LEMMA ReadSwapQueued ==
    ASSUME IInv, NEW p \in Procs, NEW l, loc[p].got # 0, loc[p].addr \in Addrs,
           pte[p][loc[p].addr].at = "swap", ReadSwap(p, l, pte[p][loc[p].addr].n)
    PROVE  queue' \in Seq(Requests)
<1> Types  BY DEF IInv
<1> DEFINE nr == pte[p][loc[p].addr].n  m == loc[p].got
           q == [cmd |-> "read", nr |-> nr, page |-> m, by |-> p]
<1>1. m \in Pages  BY DEF Types, Locs, Maybe
<1>2. nr \in SwapNrs
  <2>1. pte[p][loc[p].addr] \in Entries  BY DEF Types
  <2> QED  BY <2>1, EntryFacts
<1>3. q \in Requests  BY <1>1, <1>2 DEF Requests
<1>4. queue' = Append(queue, q)  BY DEF ReadSwap
<1> HIDE DEF q
<1> QED  BY <1>3, <1>4, AppendProperties DEF Types

LEMMA SwapInKeeps ==
    ASSUME IInv, NEW p \in Procs, SwapIn(p)
    PROVE  IInv'
<1>1. /\ cpu \in {p, NoProc} /\ pc[p] = "swapin" /\ loc[p].got # 0
      /\ ReadSwap(p, "reading", pte[p][loc[p].addr].n)
  BY DEF SwapIn, At
<1>2. loc[p].addr \in Addrs /\ pte[p][loc[p].addr].at = "swap"
  <2>1. Stage(p) = "swapin" /\ Place(p)  BY <1>1, Here DEF Callers, PCs
  <2> QED  BY <2>1 DEF Place, Serving
<1>3. queue' \in Seq(Requests)  BY <1>1, <1>2, ReadSwapQueued
<1>4. After(pc[p]) = "reading"  BY <1>1 DEF After
<1> QED  BY <1>1, <1>3, <1>4, HoldKeeps DEF ReadSwap, Sleep, tables

LEMMA ForkReadKeeps ==
    ASSUME IInv, NEW p \in Procs, ForkRead(p)
    PROVE  IInv'
<1>1. /\ cpu \in {p, NoProc} /\ pc[p] = "forkpage" /\ loc[p].got # 0
      /\ ReadSwap(p, "forkread", pte[p][loc[p].addr].n)
  BY DEF ForkRead, At
<1>2. loc[p].addr \in Addrs /\ pte[p][loc[p].addr].at = "swap"
  <2>1. Stage(p) = "forkpage" /\ Place(p)  BY <1>1, Here DEF Callers, PCs
  <2> QED  BY <2>1 DEF Place, Serving
<1>3. queue' \in Seq(Requests)  BY <1>1, <1>2, ReadSwapQueued
<1>4. After(pc[p]) = "forkread"  BY <1>1 DEF After
<1> QED  BY <1>1, <1>3, <1>4, HoldKeeps DEF ReadSwap, Sleep, tables

LEMMA EmptyKeeps ==
    ASSUME IInv, NEW p \in Procs, Empty(p) \/ Bread(p)
    PROVE  IInv'
<1>1. queue' \in Seq(Requests)  BY DEF Empty, Bread, swap, IInv, Types
<1>2. CASE Empty(p)
  <2>1. pc[p] = "empty" /\ After(pc[p]) = "put"  BY <1>2 DEF Empty, At, After
  <2> QED  BY <1>1, <1>2, <2>1, HoldKeeps DEF Empty, At, Goto, tables, swap
<1>3. CASE Bread(p)
  <2>1. pc[p] = "bread" /\ After(pc[p]) = "filling"  BY <1>3 DEF Bread, At, After
  <2> QED  BY <1>1, <1>3, <2>1, HoldKeeps DEF Bread, At, Sleep, tables, swap
<1> QED  BY <1>2, <1>3

LEMMA SwappedInKeeps ==
    ASSUME IInv, NEW p \in Procs, SwappedIn(p)
    PROVE  IInv'
<1> Types /\ SwapOK  BY DEF IInv
<1> DEFINE m == loc[p].page  a == loc[p].addr  nr == pte[p][a].n  e == InMemory(m, TRUE, TRUE)
<1>1. /\ cpu \in {p, NoProc} /\ pc[p] = "reading" /\ Return(p)
      /\ spare' = spare \cup {nr} /\ pte' = [pte EXCEPT ![p][a] = e]
      /\ UNCHANGED <<mem_map, data, dir, swapped, queue>>
  BY DEF SwappedIn, At
<1>2. /\ Stage(p) = "reading" /\ Place(p) /\ loc[p].out = 0 /\ loc[p].got = 0
      /\ m \in Maybe(Pages)
  BY <1>1, Here DEF Callers, PCs
<1>3. a \in Addrs /\ pte[p][a].at = "swap"  BY <1>2 DEF Place, Serving
<1>4. m \in Pages  BY <1>2 DEF Place, Holding, Maybe
<1>5. nr \in SwapNrs /\ pte[p][a] = OnSwap(nr)
  <2>1. pte[p][a] \in Entries  BY <1>3 DEF Types
  <2> QED  BY <1>3, <2>1, EntryFacts
<1>6. e \in Entries /\ e.at = "page" /\ e.n = m  BY <1>4, EntryMade, Zenon
<1>7. PICK l, r : Resumed(p, l, r)  BY <1>1, <1>3, ReturnResumes DEF Callers, PCs
<1> HIDE DEF m, a, nr, e
<1>8. /\ pte'[p][a] = e
      /\ \A s \in Procs, b \in Addrs : s # p \/ b # a => pte'[s][b] = pte[s][b]
  BY <1>1, <1>3 DEF Types
<1>9. SwapOK'
  <2>1. \A s \in Procs, b \in Addrs :
            pte[s][b].at = "swap" /\ (s # p \/ b # a) => pte[s][b].n # nr
    <3> SUFFICES ASSUME NEW s \in Procs, NEW b \in Addrs, pte[s][b].at = "swap", s # p \/ b # a
                 PROVE  pte[s][b].n # nr
      OBVIOUS
    <3>1. pte[s][b] = OnSwap(pte[s][b].n)
      <4>1. pte[s][b] \in Entries  BY DEF Types
      <4> QED  BY <4>1, EntryFacts
    <3>2. pte[s][b] # pte[p][a]  BY <1>3 DEF SwapOK
    <3> QED  BY <1>5, <3>1, <3>2
  <2>2. \A s \in Procs, b \in Addrs : pte'[s][b].at = "swap" => pte'[s][b].n \notin spare'
    BY <1>1, <1>6, <1>8, <2>1 DEF SwapOK
  <2>3. \A s, t \in Procs : \A b, c \in Addrs :
            pte'[s][b].at = "swap" /\ pte'[t][c] = pte'[s][b] => s = t /\ b = c
    BY <1>6, <1>8 DEF SwapOK
  <2>4. ASSUME NEW k \in SwapNrs \ spare' PROVE \E s \in Procs, b \in Addrs : pte'[s][b] = OnSwap(k)
    <3>1. PICK s \in Procs, b \in Addrs : pte[s][b] = OnSwap(k)  BY <1>1 DEF SwapOK
    <3>2. k # nr  BY <1>1
    <3>3. s # p \/ b # a  BY <1>5, <3>1, <3>2 DEF OnSwap
    <3> QED  BY <1>8, <3>1, <3>3
  <2> QED  BY <2>2, <2>3, <2>4 DEF SwapOK
<1>10. data' \in [Pages -> Content] /\ mem_map' \in [Pages -> Int] /\ spare' \subseteq SwapNrs
  BY <1>1, <1>5 DEF Types
<1>11. ASSUME NEW k \in Pages
       PROVE  mem_map'[k] = mem_map[k] + Gain(Held(pte[p][a]), m, k)
                  + Gain(dir[p], dir'[p], k) + Gain(loc[p].page, 0, k) + Gain(loc[p].got, 0, k)
  <2>1. mem_map[k] \in Int /\ k # 0  BY PageCount
  <2>2. Held(pte[p][a]) = 0  BY <1>3 DEF Held
  <2>3. dir'[p] = dir[p] /\ mem_map'[k] = mem_map[k] /\ loc[p].page = m  BY <1>1 DEF m
  <2> QED  BY <1>2, <2>1, <2>2, <2>3 DEF Gain
<1>12. UNCHANGED <<dir, swapped, queue>>  BY <1>1
<1> QED  BY <1>1, <1>2, <1>3, <1>4, <1>6, <1>7, <1>9, <1>10, <1>11, <1>12, Filled

LEMMA BreadPageKeeps ==
    ASSUME IInv, NEW p \in Procs, bread_page(p)
    PROVE  IInv'
<1> Types  BY DEF IInv
<1> DEFINE r == loc[p]
<1>1. /\ cpu \in {p, NoProc} /\ pc[p] = "filling" /\ data' = [data EXCEPT ![loc[p].page] = exe[p]]
      /\ pc' = [pc EXCEPT ![p] = "put"] /\ loc' = [loc EXCEPT ![p] = r]
      /\ exe' = exe /\ cpu' = p /\ UNCHANGED <<mem_map, dir, pte, swap>>
  BY DEF bread_page, At, Goto, Moved, tables
<1>2. /\ Stage(p) = "filling" /\ Place(p) /\ loc[p].out = 0 /\ loc[p].got = 0
      /\ exe[p] \in Exes /\ r \in Locs
  BY <1>1, Here DEF Callers, PCs
<1>3. /\ r.page = loc[p].page /\ r.out = loc[p].out /\ r.got = loc[p].got
      /\ r.addr = loc[p].addr /\ r.page # 0
  BY <1>2 DEF Place, Holding
<1> HIDE DEF r
<1>4. pc'[p] = "put" /\ loc'[p] = r /\ Stage(p)' = "put"  BY <1>1 DEF Types, Stage, StageOf
<1>5. Place(p)'
  <2>1. Holding(p)'  BY <1>1, <1>2, <1>3, <1>4 DEF Holding, Callers
  <2>2. Serving(p)'  BY <1>1, <1>2, <1>3, <1>4 DEF Place, Serving, Filling
  <2>3. Making(p)' /\ Alone(p)'  BY <1>4 DEF Making, Alone, Forking
  <2> QED  BY <2>1, <2>2, <2>3 DEF Place
<1>6. Moves(p, "put", r)  BY <1>1, <1>2 DEF Moves, PCs, StageOf, Forking
<1>7. data' \in [Pages -> Content] /\ pte' \in [Procs -> [Addrs -> Entries]]
  BY <1>1, <1>2 DEF Types, Content
<1> QED  BY <1>1, <1>3, <1>5, <1>6, <1>7, StepStill

LEMMA PutPageKeeps ==
    ASSUME IInv, NEW p \in Procs, put_page(p)
    PROVE  IInv'
<1> Types /\ SwapOK  BY DEF IInv
<1> DEFINE m == loc[p].page  a == loc[p].addr  e == InMemory(m, TRUE, FALSE)
<1>1. cpu \in {p, NoProc} /\ pc[p] = "put"  BY DEF put_page, At
<1>2. /\ Stage(p) = "put" /\ Place(p) /\ loc[p].out = 0 /\ loc[p].got = 0
      /\ m \in Maybe(Pages) /\ loc[p] \in Locs
  BY <1>1, Here DEF Callers, PCs
<1>3. a \in Addrs /\ pte[p][a].at = "none"  BY <1>2 DEF Place, Serving, Filling
<1>4. m \in Pages /\ m # 0  BY <1>2 DEF Place, Holding, Maybe
<1>5. CASE /\ pte' = [pte EXCEPT ![p][a] = e]
           /\ Return(p) /\ UNCHANGED <<mem_map, data, dir, swap>>
  <2>1. e \in Entries /\ e.at = "page" /\ e.n = m  BY <1>4, EntryMade, Zenon
  <2>2. PICK l, r : Resumed(p, l, r)  BY <1>1, <1>3, <1>5, ReturnResumes DEF Callers, PCs
  <2>3. UNCHANGED <<mem_map, data, dir, spare, swapped, queue>>  BY <1>5 DEF swap
  <2>4. loc[p].page = m  OBVIOUS
  <2> HIDE DEF m, a, e
  <2>5. /\ pte'[p][a] = e
        /\ \A s \in Procs, b \in Addrs : s # p \/ b # a => pte'[s][b] = pte[s][b]
    BY <1>3, <1>5 DEF Types
  <2>6. SwapOK'
    <3>1. \A s \in Procs, b \in Addrs :
               \/ pte'[s][b] = pte[s][b]
               \/ pte'[s][b].at # "swap" /\ pte[s][b].at # "swap"
      BY <1>3, <2>1, <2>5
    <3> QED  BY <2>3, <3>1, SwapSame
  <2>7. data' \in [Pages -> Content] /\ mem_map' \in [Pages -> Int] /\ spare' \subseteq SwapNrs
    BY <2>3 DEF Types
  <2>8. ASSUME NEW k \in Pages
        PROVE  mem_map'[k] = mem_map[k] + Gain(Held(pte[p][a]), m, k)
                  + Gain(dir[p], dir'[p], k) + Gain(loc[p].page, 0, k) + Gain(loc[p].got, 0, k)
    <3>1. mem_map[k] \in Int /\ k # 0  BY PageCount
    <3>2. Held(pte[p][a]) = 0  BY <1>3 DEF Held
    <3>3. dir'[p] = dir[p] /\ mem_map'[k] = mem_map[k]  BY <2>3
    <3> QED  BY <1>2, <2>4, <3>1, <3>2, <3>3 DEF Gain
  <2> QED  BY <1>2, <1>3, <1>4, <1>5, <2>1, <2>2, <2>3, <2>6, <2>7, <2>8, Filled
<1>6. CASE dir[p] = 0 /\ Call(p, "table", loc[p]) /\ UNCHANGED <<mem_map, data, tables, swap>>
  <2>1. "table" \in Callers \ Forking  BY DEF Callers, Forking
  <2> QED  BY <1>1, <1>2, <1>3, <1>4, <1>6, <2>1, CallKeeps
<1> QED  BY <1>5, <1>6 DEF put_page

LEMMA PutTableKeeps ==
    ASSUME IInv, NEW p \in Procs, PutTable(p)
    PROVE  IInv'
<1> Types /\ SwapOK  BY DEF IInv
<1> DEFINE m == loc[p].page  a == loc[p].addr  e == InMemory(m, TRUE, FALSE)
<1>1. /\ cpu \in {p, NoProc} /\ pc[p] = "table" /\ loc[p].got # 0
      /\ dir' = [dir EXCEPT ![p] = loc[p].got] /\ pte' = [pte EXCEPT ![p][a] = e]
      /\ Return(p) /\ UNCHANGED <<mem_map, data, spare, swapped, queue>>
  BY DEF PutTable, At, swap
<1>2. /\ Stage(p) = "table" /\ Place(p) /\ loc[p].out = 0
      /\ m \in Maybe(Pages) /\ loc[p] \in Locs
  BY <1>1, Here DEF Callers, PCs
<1>3. a \in Addrs /\ pte[p][a].at = "none" /\ dir[p] = 0  BY <1>2 DEF Place, Serving, Filling
<1>4. m \in Pages /\ m # 0  BY <1>2 DEF Place, Holding, Maybe
<1>5. e \in Entries /\ e.at = "page" /\ e.n = m  BY <1>4, EntryMade, Zenon
<1>6. PICK l, r : Resumed(p, l, r)  BY <1>1, <1>3, ReturnResumes DEF Callers, PCs
<1>7. loc[p].page = m  OBVIOUS
<1> HIDE DEF m, a, e
<1>8. /\ pte'[p][a] = e
      /\ \A s \in Procs, b \in Addrs : s # p \/ b # a => pte'[s][b] = pte[s][b]
  BY <1>1, <1>3 DEF Types
<1>9. SwapOK'
  <2>1. \A s \in Procs, b \in Addrs :
             \/ pte'[s][b] = pte[s][b]
             \/ pte'[s][b].at # "swap" /\ pte[s][b].at # "swap"
    BY <1>3, <1>5, <1>8
  <2> QED  BY <1>1, <2>1, SwapSame
<1>10. data' \in [Pages -> Content] /\ mem_map' \in [Pages -> Int] /\ spare' \subseteq SwapNrs
  BY <1>1 DEF Types
<1>11. ASSUME NEW k \in Pages
       PROVE  mem_map'[k] = mem_map[k] + Gain(Held(pte[p][a]), m, k)
                  + Gain(dir[p], dir'[p], k) + Gain(loc[p].page, 0, k) + Gain(loc[p].got, 0, k)
  <2>1. mem_map[k] \in Int /\ k # 0  BY PageCount
  <2>2. Held(pte[p][a]) = 0  BY <1>3 DEF Held
  <2>3. dir'[p] = loc[p].got /\ mem_map'[k] = mem_map[k]  BY <1>1 DEF Types
  <2> QED  BY <1>3, <1>7, <2>1, <2>2, <2>3 DEF Gain
<1> QED  BY <1>1, <1>2, <1>3, <1>4, <1>5, <1>6, <1>9, <1>10, <1>11, Filled

----------------------------------------------------------------------------
(* fork()                                                                  *)

\* The parent goes on with the next entry.
LEMMA LoopAt ==
    ASSUME IInv, NEW p \in Procs, cpu \in {p, NoProc}, pc[p] \in Forking,
           NEW r \in Locs, r.who = loc[p].who, r.page = 0, r.got = 0, r.out = 0, r.addr > 0,
           Moved(p, "loop", r), exe' = exe, cpu' = p,
           \A b \in Addrs : b >= r.addr => pte'[loc[p].who][b].at = "none"
    PROVE  Moves(p, "loop", r) /\ Place(p)'
<1> Types  BY DEF IInv
<1>1. Stage(p) = pc[p] /\ Place(p) /\ exe[p] \in Exes
  BY Here DEF Callers, PCs, Forking
<1>2. pc' = [pc EXCEPT ![p] = "loop"] /\ loc' = [loc EXCEPT ![p] = r]  BY DEF Moved
<1>3. pc'[p] = "loop" /\ loc'[p] = r  BY <1>2 DEF Types
<1>4. Stage(p)' = "loop" /\ StageOf("loop", r) = "loop"  BY <1>3 DEF Stage, StageOf
<1>5. Holding(p)'  BY <1>1, <1>3, <1>4 DEF Holding, Callers
<1>6. Serving(p)' /\ Alone(p)'  BY <1>4 DEF Serving, Alone, Filling
<1>7. loc[p].who \in Procs /\ pc[loc[p].who] = "making"  BY <1>1 DEF Place, Making
<1>8. pc'[loc[p].who] = "making"  BY <1>2, <1>7 DEF Types, Forking
<1>9. Making(p)'  BY <1>3, <1>4, <1>7, <1>8 DEF Making, Forking
<1>10. Moves(p, "loop", r)
  BY <1>1, <1>2, <1>4 DEF Moves, PCs, Forking
<1> QED  BY <1>5, <1>6, <1>9, <1>10 DEF Place

NextLoc(r, a) == [r EXCEPT !.addr = a + 1]
AfterRead(r, a) == [r EXCEPT !.page = 0, !.addr = a + 1]
FirstLoc(r) == [r EXCEPT !.got = 0, !.addr = 1]

LEMMA LocLoop ==
    ASSUME NEW r \in Locs, NEW a \in Addrs
    PROVE  /\ NextLoc(r, a) \in Locs /\ NextLoc(r, a).addr = a + 1 /\ NextLoc(r, a).who = r.who
           /\ NextLoc(r, a).page = r.page /\ NextLoc(r, a).got = r.got /\ NextLoc(r, a).out = r.out
           /\ AfterRead(r, a) \in Locs /\ AfterRead(r, a).addr = a + 1 /\ AfterRead(r, a).who = r.who
           /\ AfterRead(r, a).page = 0 /\ AfterRead(r, a).got = r.got /\ AfterRead(r, a).out = r.out
           /\ FirstLoc(r) \in Locs /\ FirstLoc(r).addr = 1 /\ FirstLoc(r).who = r.who
           /\ FirstLoc(r).page = r.page /\ FirstLoc(r).got = 0 /\ FirstLoc(r).out = r.out
<1>1. a + 1 \in 0..NAddrs + 1 /\ 1 \in 0..NAddrs + 1  BY SizesAssumption DEF Addrs
<1>2. /\ NextLoc(r, a) \in Locs /\ NextLoc(r, a).addr = a + 1 /\ NextLoc(r, a).who = r.who
      /\ NextLoc(r, a).page = r.page /\ NextLoc(r, a).got = r.got /\ NextLoc(r, a).out = r.out
  BY <1>1 DEF Locs, NextLoc
<1>3. /\ AfterRead(r, a) \in Locs /\ AfterRead(r, a).addr = a + 1 /\ AfterRead(r, a).who = r.who
      /\ AfterRead(r, a).page = 0 /\ AfterRead(r, a).got = r.got /\ AfterRead(r, a).out = r.out
  BY <1>1 DEF Locs, AfterRead, Maybe
<1>4. /\ FirstLoc(r) \in Locs /\ FirstLoc(r).addr = 1 /\ FirstLoc(r).who = r.who
      /\ FirstLoc(r).page = r.page /\ FirstLoc(r).got = 0 /\ FirstLoc(r).out = r.out
  BY <1>1 DEF Locs, FirstLoc, Maybe
<1> QED  BY <1>2, <1>3, <1>4

LEMMA ForkTableKeeps ==
    ASSUME IInv, NEW p \in Procs, ForkTable(p)
    PROVE  IInv'
<1> Types /\ SwapOK  BY DEF IInv
<1> DEFINE c == loc[p].who  r == FirstLoc(loc[p])  m == loc[p].got
<1>1. /\ cpu \in {p, NoProc} /\ pc[p] = "forktable" /\ m # 0
      /\ dir' = [dir EXCEPT ![c] = m] /\ Moved(p, "loop", r) /\ exe' = exe /\ cpu' = p
      /\ UNCHANGED <<mem_map, data, pte, spare, swapped, queue>>
  BY DEF ForkTable, At, Goto, swap, FirstLoc
<1>2. /\ Stage(p) = "forktable" /\ Place(p) /\ loc[p].out = 0 /\ m \in Maybe(Pages) /\ loc[p] \in Locs
  BY <1>1, Here DEF Callers, PCs
<1>3. c \in Procs /\ dir[c] = 0 /\ \A b \in Addrs : pte[c][b].at = "none"
  BY <1>2 DEF Place, Making, Forking
<1>4. loc[p].page = 0  BY <1>2 DEF Place, Holding
<1>5. 1 \in Addrs  BY SizesAssumption DEF Addrs
<1>6. r \in Locs /\ r.addr = 1 /\ r.who = c /\ r.page = 0 /\ r.got = 0 /\ r.out = 0
  BY <1>2, <1>4, <1>5, LocLoop
<1>7. m = loc[p].got /\ c = loc[p].who  OBVIOUS
<1> HIDE DEF r, m, c
<1>8. Moves(p, "loop", r) /\ Place(p)'
  BY <1>1, <1>3, <1>6, <1>7, LoopAt DEF Forking
<1>9. Typed  BY <1>1, <1>2, <1>3 DEF Typed, Types
<1>10. /\ loc'[p] = r /\ \A s \in Procs : s # p => loc'[s] = loc[s]
  BY <1>1 DEF Moved, Types
<1>11. Frame(p, 1, c, p)  BY <1>1, <1>10 DEF Frame, Types
<1>12. ASSUME NEW k \in Pages PROVE mem_map'[k] = mem_map[k] + Change(p, 1, c, p, k)
  <2>1. mem_map[k] \in Int /\ k # 0  BY PageCount
  <2>2. /\ Gain(loc[p].page, loc'[p].page, k) = 0 /\ Gain(loc[p].out, loc'[p].out, k) = 0
        /\ Gain(Held(pte[p][1]), Held(pte'[p][1]), k) = 0
    BY <1>1, <1>2, <1>4, <1>6, <1>10 DEF Gain
  <2>3. dir'[c] = m  BY <1>1, <1>3 DEF Types
  <2> QED  BY <1>1, <1>3, <1>6, <1>7, <1>10, <2>1, <2>2, <2>3 DEF Change, Gain
<1>13. OthersKept(p)
  <2>1. Own(p) = {p, c}  BY <1>2, <1>7 DEF Own, Forking
  <2> QED  BY <1>1, <1>3, <2>1 DEF OthersKept, Types
<1>14. SwapOK'  BY <1>1, SwapSame
<1> QED  BY <1>3, <1>5, <1>8, <1>9, <1>11, <1>12, <1>13, <1>14, Step

LEMMA ForkEntryKeeps ==
    ASSUME IInv, NEW p \in Procs, ForkEntry(p)
    PROVE  IInv'
<1> Types /\ SwapOK  BY DEF IInv
<1> DEFINE a == loc[p].addr  c == loc[p].who  e == pte[p][a]  r == NextLoc(loc[p], a)
           ro == [e EXCEPT !.rw = FALSE]
<1>1. cpu \in {p, NoProc} /\ pc[p] = "loop" /\ a <= NAddrs  BY DEF ForkEntry, At
<1>2. /\ Stage(p) = "loop" /\ Place(p) /\ loc[p].out = 0 /\ loc[p].got = 0 /\ loc[p] \in Locs
      /\ a \in 0..NAddrs + 1
  BY <1>1, Here DEF Callers, PCs
<1>3. /\ c \in Procs /\ pc[c] = "making" /\ a > 0 /\ \A b \in Addrs : b >= a => pte[c][b].at = "none"
  BY <1>2 DEF Place, Making, Forking
<1>4. a \in Addrs  BY <1>1, <1>2, <1>3, SizesAssumption DEF Addrs
<1>5. loc[p].page = 0  BY <1>2 DEF Place, Holding
<1>6. r \in Locs /\ r.addr = a + 1 /\ r.who = c /\ r.page = 0 /\ r.got = 0 /\ r.out = 0
  <2> HIDE DEF a
  <2> QED  BY <1>2, <1>4, <1>5, LocLoop
<1>7. a = loc[p].addr /\ c = loc[p].who /\ c # p  BY <1>1, <1>3
<1>8. e \in Entries  BY <1>4 DEF Types
<1>9. a \in Int /\ \A b \in Addrs : b \in Int  BY <1>4 DEF Addrs
<1>10. CASE /\ e.at = "none" /\ Goto(p, "loop", r) /\ UNCHANGED <<mem_map, data, tables, swap>>
  <2> HIDE DEF a, c, e, r, ro
  <2>1. /\ Moved(p, "loop", r) /\ exe' = exe /\ cpu' = p /\ UNCHANGED <<mem_map, data, dir, pte, swap>>
    BY <1>10 DEF Goto, tables
  <2>2. \A b \in Addrs : b >= r.addr => pte'[loc[p].who][b].at = "none"
    BY <1>3, <1>6, <1>7, <1>9, <2>1
  <2>3. Moves(p, "loop", r) /\ Place(p)'
    <3>1. r.who = loc[p].who /\ r.addr > 0 /\ pc[p] \in Forking
      BY <1>1, <1>3, <1>6, <1>7, <1>9 DEF Forking
    <3> QED  BY <1>1, <1>6, <2>1, <2>2, <3>1, LoopAt
  <2>4. data' \in [Pages -> Content] /\ pte' \in [Procs -> [Addrs -> Entries]]  BY <2>1 DEF Types
  <2> QED  BY <1>2, <1>5, <1>6, <2>1, <2>3, <2>4, StepStill
<1>11. CASE /\ e.at = "page" /\ pte' = [pte EXCEPT ![p][a] = ro, ![c][a] = ro]
            /\ mem_map' = [mem_map EXCEPT ![e.n] = @ + 1]
            /\ Goto(p, "loop", r) /\ UNCHANGED <<data, dir, swap>>
  <2>1. ro \in Entries /\ ro.at = "page" /\ ro.n = e.n /\ e.n \in Pages
    <3> HIDE DEF e
    <3> QED  BY <1>8, <1>11, EntryFacts, EntryChanged
  <2>2. e = pte[p][a]  OBVIOUS
  <2> HIDE DEF a, c, e, r, ro
  <2>3. /\ Moved(p, "loop", r) /\ exe' = exe /\ cpu' = p
        /\ UNCHANGED <<data, dir, spare, swapped, queue>>
    BY <1>11 DEF Goto, swap
  <2>4. /\ pte' \in [Procs -> [Addrs -> Entries]] /\ pte'[p][a] = ro /\ pte'[c][a] = ro
        /\ \A s \in Procs, b \in Addrs : (s # p /\ s # c) \/ b # a => pte'[s][b] = pte[s][b]
    BY <1>3, <1>4, <1>7, <1>11, <2>1 DEF Types
  <2>5. \A b \in Addrs : b >= r.addr => pte'[loc[p].who][b].at = "none"
    BY <1>3, <1>6, <1>7, <1>9, <2>4
  <2>6. Moves(p, "loop", r) /\ Place(p)'
    <3>1. r.who = loc[p].who /\ r.addr > 0 /\ pc[p] \in Forking
      BY <1>1, <1>3, <1>6, <1>7, <1>9 DEF Forking
    <3> QED  BY <1>1, <1>6, <2>3, <2>5, <3>1, LoopAt
  <2>7. Typed
    <3>1. mem_map' \in [Pages -> Int]  BY <1>11, <2>1 DEF Types
    <3> QED  BY <2>3, <2>4, <3>1 DEF Typed, Types
  <2>8. /\ loc'[p] = r /\ \A s \in Procs : s # p => loc'[s] = loc[s]
    BY <2>3 DEF Moved, Types
  <2>9. pte[c][a].at = "none"  BY <1>3, <1>4, <1>9
  <2>10. Frame(c, a, p, p)
    BY <1>3, <1>11, <2>1, <2>2, <2>3, <2>4, <2>8 DEF Frame, Held
  <2>11. ASSUME NEW k \in Pages PROVE mem_map'[k] = mem_map[k] + Change(c, a, p, p, k)
    <3>1. mem_map[k] \in Int /\ k # 0  BY PageCount
    <3>2. /\ Gain(loc[p].page, loc'[p].page, k) = 0 /\ Gain(loc[p].out, loc'[p].out, k) = 0
          /\ Gain(loc[p].got, loc'[p].got, k) = 0 /\ Gain(dir[p], dir'[p], k) = 0
      BY <1>2, <1>5, <1>6, <2>3, <2>8 DEF Gain
    <3>3. Held(pte[c][a]) = 0 /\ Held(pte'[c][a]) = e.n  BY <2>1, <2>4, <2>9 DEF Held
    <3>4. mem_map'[k] = mem_map[k] + (IF k = e.n THEN 1 ELSE 0)  BY <1>11, <3>1 DEF Types
    <3> QED  BY <3>1, <3>2, <3>3, <3>4 DEF Change, Gain
  <2>12. OthersKept(p)
    <3>1. Own(p) = {p, c}  BY <1>2, <1>7 DEF Own, Forking
    <3> QED  BY <2>3, <2>4, <3>1 DEF OthersKept
  <2>13. SwapOK'
    <3>1. \A s \in Procs, b \in Addrs :
               \/ pte'[s][b] = pte[s][b]
               \/ pte'[s][b].at # "swap" /\ pte[s][b].at # "swap"
      BY <1>11, <2>1, <2>2, <2>4, <2>9
    <3> QED  BY <2>3, <3>1, SwapSame
  <2> QED  BY <1>3, <1>4, <2>6, <2>7, <2>10, <2>11, <2>12, <2>13, Step
<1>12. CASE e.at = "swap" /\ Call(p, "forkpage", loc[p]) /\ UNCHANGED <<mem_map, data, tables, swap>>
  <2>1. "forkpage" \in Callers \ (Filling \cup {"wp", "share", "table", "swapin"})
    BY DEF Callers, Filling
  <2> QED  BY <1>1, <1>2, <1>4, <1>5, <1>12, <2>1, CallKeeps
<1> QED  BY <1>10, <1>11, <1>12 DEF ForkEntry, NextLoc

LEMMA ForkSwappedKeeps ==
    ASSUME IInv, NEW p \in Procs, ForkSwapped(p)
    PROVE  IInv'
<1> Types /\ SwapOK  BY DEF IInv
<1> DEFINE a == loc[p].addr  c == loc[p].who  e == pte[p][a]  r == AfterRead(loc[p], a)
           m == loc[p].page  new == InMemory(m, TRUE, TRUE)
<1>1. /\ cpu \in {p, NoProc} /\ pc[p] = "forkread"
      /\ pte' = [pte EXCEPT ![c][a] = e, ![p][a] = new]
      /\ Moved(p, "loop", r) /\ exe' = exe /\ cpu' = p
      /\ UNCHANGED <<mem_map, data, dir, spare, swapped, queue>>
  BY DEF ForkSwapped, At, Goto, AfterRead, swap
<1>2. /\ Stage(p) = "forkread" /\ Place(p) /\ loc[p].out = 0 /\ loc[p].got = 0 /\ loc[p] \in Locs
      /\ m \in Maybe(Pages)
  BY <1>1, Here DEF Callers, PCs
<1>3. /\ c \in Procs /\ pc[c] = "making" /\ a > 0 /\ \A b \in Addrs : b >= a => pte[c][b].at = "none"
  BY <1>2 DEF Place, Making, Forking
<1>4. a \in Addrs /\ e.at = "swap"  BY <1>2 DEF Place, Serving
<1>5. m \in Pages /\ m # 0  BY <1>2 DEF Place, Holding, Maybe
<1>6. r \in Locs /\ r.addr = a + 1 /\ r.who = c /\ r.page = 0 /\ r.got = 0 /\ r.out = 0
  <2> HIDE DEF a
  <2> QED  BY <1>2, <1>4, LocLoop
<1>7. a = loc[p].addr /\ c = loc[p].who /\ m = loc[p].page /\ e = pte[p][a] /\ c # p  BY <1>1, <1>3
<1>8. e \in Entries  BY <1>4 DEF Types
<1>9. a \in Int /\ \A b \in Addrs : b \in Int  BY <1>4 DEF Addrs
<1>10. new \in Entries /\ new.at = "page" /\ new.n = m  BY <1>5, EntryMade, Zenon
<1> HIDE DEF a, c, e, r, m, new
<1>11. /\ pte' \in [Procs -> [Addrs -> Entries]] /\ pte'[p][a] = new /\ pte'[c][a] = e
       /\ \A s \in Procs, b \in Addrs : (s # p /\ s # c) \/ b # a => pte'[s][b] = pte[s][b]
  BY <1>1, <1>3, <1>4, <1>7, <1>8, <1>10 DEF Types
<1>12. \A b \in Addrs : b >= r.addr => pte'[loc[p].who][b].at = "none"
  BY <1>3, <1>6, <1>7, <1>9, <1>11
<1>13. Moves(p, "loop", r) /\ Place(p)'
  <2>1. r.who = loc[p].who /\ r.addr > 0 /\ pc[p] \in Forking
    BY <1>1, <1>3, <1>6, <1>7, <1>9 DEF Forking
  <2> QED  BY <1>1, <1>6, <1>12, <2>1, LoopAt
<1>14. Typed  BY <1>1, <1>11 DEF Typed, Types
<1>15. /\ loc'[p] = r /\ \A s \in Procs : s # p => loc'[s] = loc[s]
  BY <1>1 DEF Moved, Types
<1>16. pte[c][a].at = "none"  BY <1>3, <1>4, <1>9
<1>17. Frame(p, a, p, p)
  <2>1. Held(pte'[c][a]) = 0 /\ Held(pte[c][a]) = 0
    BY <1>4, <1>11, <1>16 DEF Held
  <2>2. \A s \in Procs, b \in Addrs : s # p \/ b # a =>
            pte'[s][b] = pte[s][b] \/ (s = c /\ b = a)
    BY <1>11
  <2>3. \A s \in Procs, b \in Addrs : s # p \/ b # a => Held(pte'[s][b]) = Held(pte[s][b])
    BY <2>1, <2>2
  <2>4. dir' = dir
    BY <1>1
  <2> QED  BY <1>15, <2>3, <2>4 DEF Frame
<1>18. ASSUME NEW k \in Pages PROVE mem_map'[k] = mem_map[k] + Change(p, a, p, p, k)
  <2>1. mem_map[k] \in Int /\ k # 0  BY PageCount
  <2>2. /\ Gain(loc[p].out, loc'[p].out, k) = 0
        /\ Gain(loc[p].got, loc'[p].got, k) = 0 /\ Gain(dir[p], dir'[p], k) = 0
    BY <1>1, <1>2, <1>6, <1>15 DEF Gain
  <2>3. Held(pte[p][a]) = 0 /\ Held(pte'[p][a]) = m  BY <1>4, <1>7, <1>10, <1>11 DEF Held
  <2>4. loc[p].page = m /\ loc'[p].page = 0  BY <1>6, <1>7, <1>15
  <2> QED  BY <1>1, <2>1, <2>2, <2>3, <2>4 DEF Change, Gain
<1>19. OthersKept(p)
  <2>1. Own(p) = {p, c}  BY <1>2, <1>7 DEF Own, Forking
  <2> QED  BY <1>1, <1>11, <2>1 DEF OthersKept
<1>20. SwapOK'
  <2>1. \A s \in Procs, b \in Addrs : pte'[s][b].at = "swap" => pte'[s][b].n \notin spare'
    BY <1>1, <1>4, <1>7, <1>10, <1>11 DEF SwapOK
  <2>2. ASSUME NEW s \in Procs, NEW t \in Procs, NEW b \in Addrs, NEW d \in Addrs,
               pte'[s][b].at = "swap", pte'[t][d] = pte'[s][b]
        PROVE  s = t /\ b = d
    <3>1. \A u \in Procs, f \in Addrs : pte[u][f] = e => u = p /\ f = a
      BY <1>4, <1>7 DEF SwapOK
    <3>2. \A u \in Procs, f \in Addrs : pte'[u][f] = e => u = c /\ f = a
      BY <1>4, <1>7, <1>10, <1>11, <3>1
    <3>3. CASE s = c /\ b = a  BY <1>11, <2>2, <3>2, <3>3
    <3>4. CASE s = p /\ b = a  BY <1>10, <1>11, <2>2, <3>4
    <3>5. CASE (s # c /\ s # p) \/ b # a
      <4>1. pte'[s][b] = pte[s][b] /\ pte[s][b] # e  BY <1>11, <3>1, <3>5, <1>7
      <4>2. (t # c /\ t # p) \/ d # a  BY <1>10, <1>11, <2>2, <4>1
      <4>3. pte'[t][d] = pte[t][d]  BY <1>11, <4>2
      <4> QED  BY <2>2, <4>1, <4>3 DEF SwapOK
    <3> QED  BY <3>3, <3>4, <3>5
  <2>3. ASSUME NEW k \in SwapNrs \ spare' PROVE \E s \in Procs, b \in Addrs : pte'[s][b] = OnSwap(k)
    <3>1. PICK s \in Procs, b \in Addrs : pte[s][b] = OnSwap(k)  BY <1>1 DEF SwapOK
    <3>2. CASE s = p /\ b = a  BY <1>3, <1>4, <1>7, <1>11, <3>1, <3>2
    <3>3. CASE s = c /\ b = a  BY <1>16, <3>1, <3>3 DEF OnSwap
    <3>4. CASE (s # c /\ s # p) \/ b # a  BY <1>11, <3>1, <3>4
    <3> QED  BY <3>2, <3>3, <3>4
  <2> QED  BY <2>1, <2>2, <2>3 DEF SwapOK
<1> QED  BY <1>4, <1>13, <1>14, <1>17, <1>18, <1>19, <1>20, Step

----------------------------------------------------------------------------
(* Processes that come and go                                              *)

\* Only p and its child c, or p alone, change their place.
LEMMA TwoMove ==
    ASSUME IInv, NEW p \in Procs, NEW c \in Procs, cpu \in {p, NoProc}, pc[p] # "making",
           \A q \in Procs \ {p, c} :
               /\ pc'[q] = pc[q] /\ loc'[q] = loc[q] /\ dir'[q] = dir[q] /\ exe'[q] = exe[q]
               /\ \A b \in Addrs : pte'[q][b] = pte[q][b]
               /\ Stage(q) \in Forking => loc[q].who # c,
           Place(p)', Place(c)', c # p => Stage(c)' \notin Forking,
           Stage(p)' \in Forking => loc'[p].who \in {p, c}
    PROVE  PlaceOK' /\ ChildOK'
<1>1. ASSUME NEW q \in Procs PROVE Place(q)'
  <2>1. CASE q \in {p, c}  BY <2>1
  <2>2. CASE q \notin {p, c}
    <3>1. ASSUME Stage(q) \in Forking
          PROVE  /\ pc'[loc[q].who] = "making" /\ dir'[loc[q].who] = dir[loc[q].who]
                 /\ \A b \in Addrs : pte[loc[q].who][b].at # "page" =>
                                         pte'[loc[q].who][b] = pte[loc[q].who][b]
      <4>1. loc[q].who \in Procs /\ pc[loc[q].who] = "making"
        BY <3>1 DEF IInv, PlaceOK, Place, Making
      <4>2. loc[q].who \notin {p, c}  BY <2>2, <3>1, <4>1
      <4> QED  BY <4>1, <4>2
    <3>2. /\ pc'[q] = pc[q] /\ loc'[q] = loc[q] /\ dir'[q] = dir[q] /\ exe'[q] = exe[q]
          /\ \A b \in Addrs : pte[q][b].at # "page" => pte'[q][b] = pte[q][b]
      BY <2>2
    <3> QED  BY <2>2, <3>1, <3>2, OtherKeeps DEF IInv
  <2> QED  BY <2>1, <2>2
<1>2. \A q \in Procs \ {p, c} : Stage(q)' = Stage(q)  BY DEF Stage
<1>3. ASSUME NEW q \in Procs \ {p, c}, Stage(q)' \in Forking
      PROVE  Stage(q) \in Forking /\ loc'[q].who = loc[q].who /\ loc[q].who \notin {p, c}
  <2>1. Stage(q) \in Forking  BY <1>2, <1>3
  <2>2. pc[loc[q].who] = "making"  BY <2>1 DEF IInv, PlaceOK, Place, Making
  <2> QED  BY <2>1, <2>2
<1>4. ChildOK'
  <2> SUFFICES ASSUME NEW q \in Procs, NEW s \in Procs, Stage(q)' \in Forking, Stage(s)' \in Forking,
                      loc'[q].who = loc'[s].who
               PROVE  q = s
    BY DEF ChildOK
  <2>1. CASE q \notin {p, c} /\ s \notin {p, c}  BY <1>3, <2>1 DEF IInv, ChildOK
  <2>2. CASE q \in {p, c} /\ s \notin {p, c}  BY <1>3, <2>2
  <2>3. CASE q \notin {p, c} /\ s \in {p, c}  BY <1>3, <2>3
  <2>4. CASE q \in {p, c} /\ s \in {p, c}  BY <2>4
  <2> QED  BY <2>1, <2>2, <2>3, <2>4
<1> QED  BY <1>1, <1>4 DEF PlaceOK

LEMMA ForkKeeps ==
    ASSUME IInv, NEW p \in Procs, NEW c \in Procs, Fork(p, c)
    PROVE  IInv'
<1> Types /\ SwapOK /\ CountOK  BY DEF IInv
<1>1. /\ cpu \in {p, NoProc} /\ pc[p] = "user" /\ pc[c] = "unused" /\ c # p
      /\ exe' = [exe EXCEPT ![c] = exe[p]]
      /\ UNCHANGED <<mem_map, data, dir, pte, spare, swapped, queue>>
  BY DEF Fork, At, tables, swap
<1>2. /\ exe[p] \in Exes /\ loc[p].page = 0 /\ loc[p].out = 0 /\ loc[p].got = 0
  BY <1>1, Idle
<1>3. Place(p) /\ Place(c)  BY DEF IInv, PlaceOK
<1>4. /\ loc[p] = NoLoc /\ loc[c] = NoLoc /\ dir[c] = 0 /\ \A b \in Addrs : pte[c][b].at = "none"
  BY <1>1, <1>3 DEF Place, Holding
<1>5. exe' \in [Procs -> Exes \cup {NoExe}] /\ exe'[c] \in Exes /\ \A q \in Procs : q # c => exe'[q] = exe[q]
  BY <1>1, <1>2 DEF Types
<1>6. SwapOK'  BY <1>1, SwapSame
<1>7. \A q \in Procs : Stage(q) \in Forking => loc[q].who # c
  BY <1>1 DEF IInv, PlaceOK, Place, Making
<1>8. CASE pc' = [pc EXCEPT ![c] = "user"] /\ UNCHANGED <<cpu, loc>>
  <2>1. pc' \in [Procs -> PCs] /\ pc'[c] = "user" /\ \A q \in Procs : q # c => pc'[q] = pc[q]
    BY <1>8 DEF Types, PCs
  <2>2. Types'  BY <1>1, <1>5, <1>8, <2>1 DEF Types
  <2>3. Place(p)' /\ Place(c)'  BY <1>1, <1>2, <1>4, <1>5, <1>8, <2>1, AtUser
  <2>4. Stage(p)' = "user" /\ Stage(c)' = "user"  BY <1>1, <2>1 DEF Stage, StageOf
  <2>5. PlaceOK' /\ ChildOK'
    BY <1>1, <1>5, <1>7, <1>8, <2>1, <2>3, <2>4, TwoMove DEF Forking
  <2>6. CountOK'  BY <1>1, <1>8, CountSame
  <2> QED  BY <1>6, <2>2, <2>5, <2>6 DEF IInv, Safe
<1>9. CASE /\ pc' = [pc EXCEPT ![c] = "making", ![p] = "free"]
           /\ loc' = [loc EXCEPT ![p] = [NoLoc EXCEPT !.who = c, !.why = "forktable"]]
           /\ cpu' = p
  <2> DEFINE r == [NoLoc EXCEPT !.who = c, !.why = "forktable"]
  <2>1. /\ pc' \in [Procs -> PCs] /\ pc'[c] = "making" /\ pc'[p] = "free"
        /\ \A q \in Procs : q \notin {p, c} => pc'[q] = pc[q]
    BY <1>1, <1>9 DEF Types, PCs
  <2>2. /\ r \in Locs /\ r.who = c /\ r.why = "forktable" /\ r.page = 0 /\ r.out = 0 /\ r.got = 0
    BY NoLocType DEF NoLoc, Locs, Callers
  <2> HIDE DEF r
  <2>3. loc' \in [Procs -> Locs] /\ loc'[p] = r /\ \A q \in Procs : q # p => loc'[q] = loc[q]
    BY <1>9, <2>2 DEF Types, r
  <2>4. Types'  BY <1>1, <1>5, <1>9, <2>1, <2>3 DEF Types
  <2>5. Stage(p)' = "forktable" /\ Stage(c)' = "making"
    BY <1>1, <2>1, <2>2, <2>3 DEF Stage, StageOf
  <2>6. Place(p)'
    <3>1. Holding(p)'  BY <1>1, <1>2, <1>5, <2>1, <2>2, <2>3, <2>5 DEF Holding, Callers
    <3>2. Serving(p)' /\ Alone(p)'  BY <2>5 DEF Serving, Alone, Filling
    <3>3. Making(p)'  BY <1>1, <1>4, <2>1, <2>2, <2>3, <2>5 DEF Making, Forking
    <3> QED  BY <3>1, <3>2, <3>3 DEF Place
  <2>7. Place(c)'
    <3>1. loc'[c] = NoLoc  BY <1>1, <1>4, <2>3
    <3>2. Holding(c)'  BY <1>5, <2>1, <2>5, <3>1 DEF Holding, Callers, NoLoc
    <3>3. Serving(c)' /\ Alone(c)' /\ Making(c)'  BY <2>5 DEF Serving, Alone, Making, Filling, Forking
    <3> QED  BY <3>2, <3>3 DEF Place
  <2>8. PlaceOK' /\ ChildOK'
    BY <1>1, <1>5, <1>7, <2>1, <2>2, <2>3, <2>5, <2>6, <2>7, TwoMove DEF Forking
  <2>9. CountOK'  BY <1>1, <1>2, <2>2, <2>3, CountSame
  <2> QED  BY <1>6, <2>4, <2>8, <2>9 DEF IInv, Safe
<1> QED  BY <1>8, <1>9 DEF Fork

LEMMA ForkDoneKeeps ==
    ASSUME IInv, NEW p \in Procs, ForkDone(p)
    PROVE  IInv'
<1> Types /\ SwapOK /\ CountOK  BY DEF IInv
<1>2. /\ Stage(p) = "loop" /\ exe[p] \in Exes /\ loc[p].page = 0 /\ loc[p].out = 0 /\ loc[p].got = 0
  BY Idle DEF ForkDone, At
<1>3. Place(p)  BY DEF IInv, PlaceOK
<1>0. PICK c \in Procs : c = loc[p].who
  BY <1>2, <1>3 DEF Place, Making, Forking
<1>1. /\ cpu \in {p, NoProc} /\ pc[p] = "loop" /\ pc' = [pc EXCEPT ![p] = "user", ![c] = "user"]
      /\ loc' = [loc EXCEPT ![p] = NoLoc] /\ cpu' = NoProc
      /\ UNCHANGED <<mem_map, data, dir, pte, spare, swapped, queue, exe>>
  BY <1>0 DEF ForkDone, At, tables, swap
<1>4. pc[c] = "making" /\ c # p  BY <1>0, <1>1, <1>2, <1>3 DEF Place, Making, Forking
<1>5. Place(c)  BY <1>4 DEF IInv, PlaceOK
<1>6. loc[c] = NoLoc /\ exe[c] \in Exes  BY <1>4, <1>5 DEF Place, Holding
<1>7. SwapOK'  BY <1>1, SwapSame
<1>8. \A q \in Procs \ {p, c} : Stage(q) \in Forking => loc[q].who # c
  BY <1>0, <1>2 DEF IInv, ChildOK, Forking
<1>9. /\ pc' \in [Procs -> PCs] /\ pc'[c] = "user" /\ pc'[p] = "user"
      /\ \A q \in Procs : q \notin {p, c} => pc'[q] = pc[q]
  BY <1>1, <1>4 DEF Types, PCs
<1>10. loc' \in [Procs -> Locs] /\ loc'[p] = NoLoc /\ \A q \in Procs : q # p => loc'[q] = loc[q]
  BY <1>1, NoLocType DEF Types
<1>11. Types'  BY <1>1, <1>9, <1>10 DEF Types
<1>12. Place(p)' /\ Place(c)'  BY <1>1, <1>2, <1>4, <1>6, <1>9, <1>10, AtUser
<1>13. Stage(p)' = "user" /\ Stage(c)' = "user"  BY <1>4, <1>9 DEF Stage, StageOf
<1>14. PlaceOK' /\ ChildOK'
  BY <1>1, <1>4, <1>8, <1>9, <1>10, <1>12, <1>13, TwoMove DEF Forking
<1>15. CountOK'
  <2>1. NoLoc.page = 0 /\ NoLoc.out = 0 /\ NoLoc.got = 0  BY DEF NoLoc
  <2> QED  BY <1>1, <1>2, <1>10, <2>1, CountSame
<1> QED  BY <1>7, <1>11, <1>14, <1>15 DEF IInv, Safe

LEMMA ExecKeeps ==
    ASSUME IInv, NEW p \in Procs, NEW x \in Exes, Exec(p, x)
    PROVE  IInv'
<1> Types /\ SwapOK /\ CountOK  BY DEF IInv
<1>1. /\ cpu \in {p, NoProc} /\ pc[p] = "user" /\ exe' = [exe EXCEPT ![p] = x]
      /\ pc' = [pc EXCEPT ![p] = "exec"] /\ loc' = [loc EXCEPT ![p] = NoLoc] /\ cpu' \in {p, NoProc}
      /\ UNCHANGED <<mem_map, data, dir, pte, spare, swapped, queue>>
  BY DEF Exec, At, Moved, tables, swap
<1>2. /\ loc[p].page = 0 /\ loc[p].out = 0 /\ loc[p].got = 0  BY <1>1, Idle
<1>3. /\ pc' \in [Procs -> PCs] /\ pc'[p] = "exec" /\ \A q \in Procs : q # p => pc'[q] = pc[q]
      /\ exe' \in [Procs -> Exes \cup {NoExe}] /\ exe'[p] = x /\ \A q \in Procs : q # p => exe'[q] = exe[q]
      /\ loc' \in [Procs -> Locs] /\ loc'[p] = NoLoc /\ \A q \in Procs : q # p => loc'[q] = loc[q]
  BY <1>1, NoLocType DEF Types, PCs
<1>4. Types'  BY <1>1, <1>3 DEF Types
<1>5. Stage(p)' = "exec"  BY <1>3 DEF Stage, StageOf
<1>6. Place(p)'
  <2>1. Holding(p)'  BY <1>3, <1>5 DEF Holding, Callers, NoLoc
  <2>2. Serving(p)' /\ Alone(p)' /\ Making(p)'  BY <1>5 DEF Serving, Alone, Making, Filling, Forking
  <2> QED  BY <2>1, <2>2 DEF Place
<1>7. \A q \in Procs : Stage(q) \in Forking => loc[q].who # p
  BY <1>1 DEF IInv, PlaceOK, Place, Making
<1>8. PlaceOK' /\ ChildOK'
  BY <1>1, <1>3, <1>5, <1>6, <1>7, TwoMove DEF Forking
<1>9. SwapOK'  BY <1>1, SwapSame
<1>10. CountOK'
  <2>1. NoLoc.page = 0 /\ NoLoc.out = 0 /\ NoLoc.got = 0  BY DEF NoLoc
  <2> QED  BY <1>1, <1>2, <1>3, <2>1, CountSame
<1> QED  BY <1>4, <1>8, <1>9, <1>10 DEF IInv, Safe

----------------------------------------------------------------------------
(* free_page_tables()                                                      *)

LEMMA EntriesFinite ==
    ASSUME NEW c \in Procs, NEW n
    PROVE  IsFiniteSet(EntriesTo(c, n)) /\ Cardinality(EntriesTo(c, n)) \in Nat
<1>1. IsFiniteSet(Addrs)  BY SizesAssumption, FS_Interval DEF Addrs
<1>2. IsFiniteSet(EntriesTo(c, n))  BY <1>1, FS_Subset DEF EntriesTo
<1> QED  BY <1>2, FS_CardinalityType

\* The references from the entries of c are gone.
Cleared(c) == [u \in D |-> IF u[1] = c /\ u[2] \in Addrs THEN 0 ELSE Refs[u]]

LEMMA CountCleared ==
    ASSUME NEW c \in Procs, NEW n \in Pages
    PROVE  Count(Cleared(c), n) = Count(Refs, n) - Cardinality(EntriesTo(c, n))
<1> DEFINE S == {u \in D : Refs[u] = n}  T == {c} \X EntriesTo(c, n)
           R == {u \in D : Cleared(c)[u] = n}
<1>1. IsFiniteSet(S) /\ Cardinality(S) \in Nat /\ Count(Refs, n) = Cardinality(S)
  BY CountType DEF Count
<1>2. IsFiniteSet(T) /\ Cardinality(T) = Cardinality(EntriesTo(c, n))
  <2>1. IsFiniteSet({c}) /\ Cardinality({c}) = 1  BY FS_Singleton
  <2>2. IsFiniteSet(T) /\ Cardinality(T) = Cardinality({c}) * Cardinality(EntriesTo(c, n))
    <3> DEFINE A == {c}  B == EntriesTo(c, n)
    <3>1. IsFiniteSet(A) /\ IsFiniteSet(B)  BY <2>1, EntriesFinite
    <3> HIDE DEF A, B
    <3>2. IsFiniteSet(A \X B) /\ Cardinality(A \X B) = Cardinality(A) * Cardinality(B)
      BY <3>1, FS_Product
    <3> QED  BY <3>2 DEF A, B
  <2> QED  BY <2>1, <2>2, EntriesFinite
<1>3. n # 0  BY DEF Pages
<1>4. \A u \in D : u \in S /\ u[1] = c /\ u[2] \in Addrs <=> u \in T
  <2> SUFFICES ASSUME NEW u \in D PROVE u \in S /\ u[1] = c /\ u[2] \in Addrs <=> u \in T
    OBVIOUS
  <2>1. PICK s \in Procs, k \in -3..NAddrs : u = <<s, k>>  BY DEF D
  <2>2. u[1] = s /\ u[2] = k  BY <2>1
  <2>3. k \in Addrs => Refs[<<s, k>>] = Held(pte[s][k])  BY RefsAre
  <2>4. k \in Addrs => (Held(pte[s][k]) = n <=> pte[s][k].at = "page" /\ pte[s][k].n = n)
    BY <1>3 DEF Held
  <2>5. u \in S <=> Refs[<<s, k>>] = n  BY <2>1
  <2>6. u \in T <=> s = c /\ k \in EntriesTo(c, n)  BY <2>1
  <2>7. k \in EntriesTo(c, n) <=> k \in Addrs /\ pte[c][k].at = "page" /\ pte[c][k].n = n
    BY DEF EntriesTo
  <2> HIDE DEF S, T
  <2> QED  BY <2>2, <2>3, <2>4, <2>5, <2>6, <2>7
<1>5. T \subseteq S
  <2>1. T \subseteq D
    <3>1. \A k \in EntriesTo(c, n) : <<c, k>> \in D  BY Cells DEF EntriesTo
    <3>2. \A u \in T : \E k \in EntriesTo(c, n) : u = <<c, k>>  OBVIOUS
    <3> HIDE DEF T
    <3> QED  BY <3>1, <3>2
  <2> HIDE DEF S, T
  <2> QED  BY <1>4, <2>1
<1>6. R = S \ T
  <2>1. ASSUME NEW u \in D PROVE u \in R <=> u \in S /\ u \notin T
    <3>1. Cleared(c)[u] = IF u[1] = c /\ u[2] \in Addrs THEN 0 ELSE Refs[u]  BY DEF Cleared
    <3>2. u \in R <=> Cleared(c)[u] = n  OBVIOUS
    <3>3. u \in S <=> Refs[u] = n  OBVIOUS
    <3> HIDE DEF R, S, T
    <3> QED  BY <1>3, <1>4, <3>1, <3>2, <3>3
  <2>2. R \subseteq D /\ S \subseteq D  OBVIOUS
  <2> HIDE DEF R, S, T
  <2> QED  BY <2>1, <2>2
<1>7. Count(Cleared(c), n) = Cardinality(R)  BY DEF Count
<1> HIDE DEF R, S, T
<1>8. Cardinality(S \ T) = Cardinality(S) - Cardinality(S \cap T)  BY <1>1, FS_Difference
<1>9. S \cap T = T  BY <1>5
<1> QED  BY <1>1, <1>2, <1>6, <1>7, <1>8, <1>9

\* All that c refers to is released; p, whose place changes, held one page or none.
LEMMA FreeKeeps ==
    ASSUME IInv, NEW p \in Procs, NEW c \in Procs, NEW held \in Maybe(Pages),
           free_page_tables(c, held), held = loc[p].page,
           loc[p].out = 0, loc[p].got = 0, loc' = [loc EXCEPT ![p] = NoLoc]
    PROVE  /\ Typed /\ CountOK' /\ SwapOK'
           /\ loc' \in [Procs -> Locs] /\ loc'[p] = NoLoc /\ \A q \in Procs : q # p => loc'[q] = loc[q]
           /\ dir'[c] = 0 /\ \A b \in Addrs : pte'[c][b].at = "none"
           /\ \A q \in Procs : q # c => dir'[q] = dir[q] /\ \A b \in Addrs : pte'[q][b] = pte[q][b]
<1> Types /\ SwapOK /\ CountOK  BY DEF IInv
<1>1. /\ mem_map' = [n \in Pages |-> mem_map[n] - Cardinality(EntriesTo(c, n))
                     - (IF dir[c] = n THEN 1 ELSE 0) - (IF held = n THEN 1 ELSE 0)]
      /\ spare' = spare \cup {pte[c][a].n : a \in {b \in Addrs : pte[c][b].at = "swap"}}
      /\ pte' = [pte EXCEPT ![c] = [a \in Addrs |-> NoEntry]]
      /\ dir' = [dir EXCEPT ![c] = 0]
      /\ UNCHANGED <<data, swapped, queue>>
  BY DEF free_page_tables
<1>2. NoLoc.page = 0 /\ NoLoc.out = 0 /\ NoLoc.got = 0  BY DEF NoLoc
<1>3. loc' \in [Procs -> Locs] /\ loc'[p] = NoLoc /\ \A q \in Procs : q # p => loc'[q] = loc[q]
  BY NoLocType DEF Types
<1>4. /\ pte' \in [Procs -> [Addrs -> Entries]] /\ \A b \in Addrs : pte'[c][b] = NoEntry
      /\ \A q \in Procs : q # c => \A b \in Addrs : pte'[q][b] = pte[q][b]
  <2>1. [a \in Addrs |-> NoEntry] \in [Addrs -> Entries]  BY EntryMade
  <2> QED  BY <1>1, <2>1 DEF Types
<1>5. /\ dir' \in [Procs -> Maybe(Pages)] /\ dir'[c] = 0 /\ \A q \in Procs : q # c => dir'[q] = dir[q]
  BY <1>1 DEF Types, Maybe
<1>6. NoEntry.at = "none"  BY DEF NoEntry
<1>7. Typed
  <2>1. \A n \in Pages : Cardinality(EntriesTo(c, n)) \in Nat  BY EntriesFinite
  <2>2. mem_map' \in [Pages -> Int]  BY <1>1, <2>1 DEF Types
  <2>3. \A b \in Addrs : pte[c][b].at = "swap" => pte[c][b].n \in SwapNrs
    <3>1. \A b \in Addrs : pte[c][b] \in Entries  BY DEF Types
    <3> QED  BY <3>1, EntryFacts
  <2>4. spare' \subseteq SwapNrs  BY <1>1, <2>3 DEF Types
  <2> QED  BY <1>1, <1>4, <1>5, <2>2, <2>4 DEF Typed, Types
<1>8. SwapOK'
  <2>1. ASSUME NEW s \in Procs, NEW b \in Addrs, pte'[s][b].at = "swap"
        PROVE  pte'[s][b].n \notin spare'
    <3>1. s # c /\ pte'[s][b] = pte[s][b]  BY <1>4, <1>6, <2>1
    <3>2. ASSUME NEW d \in Addrs, pte[c][d].at = "swap" PROVE pte[c][d].n # pte[s][b].n
      <4>1. pte[c][d] \in Entries /\ pte[s][b] \in Entries  BY DEF Types
      <4>2. pte[c][d] = OnSwap(pte[c][d].n) /\ pte[s][b] = OnSwap(pte[s][b].n)
        BY <2>1, <3>1, <3>2, <4>1, EntryFacts
      <4>3. pte[c][d] # pte[s][b]  BY <3>1, <3>2 DEF SwapOK
      <4> QED  BY <4>2, <4>3
    <3>3. pte[s][b].n \notin spare  BY <2>1, <3>1 DEF SwapOK
    <3> QED  BY <1>1, <3>1, <3>2, <3>3
  <2>2. \A s, t \in Procs : \A b, d \in Addrs :
            pte'[s][b].at = "swap" /\ pte'[t][d] = pte'[s][b] => s = t /\ b = d
    BY <1>4, <1>6 DEF SwapOK
  <2>3. ASSUME NEW k \in SwapNrs \ spare' PROVE \E s \in Procs, b \in Addrs : pte'[s][b] = OnSwap(k)
    <3>1. PICK s \in Procs, b \in Addrs : pte[s][b] = OnSwap(k)  BY <1>1 DEF SwapOK
    <3>2. s # c
      <4>1. SUFFICES ASSUME s = c PROVE FALSE  OBVIOUS
      <4>2. pte[c][b].at = "swap" /\ pte[c][b].n = k  BY <3>1, <4>1 DEF OnSwap
      <4>3. k \in {pte[c][a].n : a \in {d \in Addrs : pte[c][d].at = "swap"}}  BY <4>2
      <4> QED  BY <1>1, <4>3
    <3> QED  BY <1>4, <3>1, <3>2
  <2> QED  BY <2>1, <2>2, <2>3 DEF SwapOK
<1>9. CountOK'
  <2> DEFINE f == Cleared(c)  g == Put(f, <<c, 0>>, 0)  h == Put(g, <<p, -1>>, 0)
  <2>1. <<c, 0>> \in D /\ <<p, -1>> \in D /\ <<p, -1>> # <<c, 0>>
    <3>1. <<c, 0>> \in D /\ <<p, -1>> \in D  BY Cells
    <3> QED  BY <3>1
  <2>2. f[<<c, 0>>] = dir[c] /\ f[<<p, -1>>] = held
    <3>1. 0 \notin Addrs /\ -1 \notin Addrs  BY DEF Addrs
    <3> QED  BY <2>1, <3>1, RefsAre DEF Cleared
  <2>3. g[<<p, -1>>] = held  BY <2>1, <2>2, PutAt
  <2>4. Refs' = h
    <3>0. \A q \in Procs : /\ <<q, 0>> # <<p, -1>> /\ <<q, -2>> # <<p, -1>> /\ <<q, -3>> # <<p, -1>>
                           /\ <<q, -1>> # <<c, 0>> /\ <<q, -2>> # <<c, 0>> /\ <<q, -3>> # <<c, 0>>
                           /\ \A a \in Addrs : <<q, a>> # <<p, -1>> /\ <<q, a>> # <<c, 0>>
      BY DEF Addrs
    <3>1. 0 \notin Addrs /\ -1 \notin Addrs /\ -2 \notin Addrs /\ -3 \notin Addrs  BY DEF Addrs
    <3>2. \A q \in Procs :
            /\ f[<<q, 0>>] = dir[q] /\ f[<<q, -1>>] = loc[q].page
            /\ f[<<q, -2>>] = loc[q].out /\ f[<<q, -3>>] = loc[q].got
            /\ \A a \in Addrs : f[<<q, a>>] = IF q = c THEN 0 ELSE Held(pte[q][a])
      BY <3>1, Cells, RefsAre DEF Cleared
    <3>3. \A w \in D : h[w] = IF w = <<p, -1>> THEN 0 ELSE IF w = <<c, 0>> THEN 0 ELSE f[w]
      BY DEF Put
    <3>4. DOMAIN h = D /\ h = [w \in D |-> h[w]]  BY DEF Put
    <3> HIDE DEF f, g, h
    <3>5. \A q \in Procs : h[<<q, 0>>] = dir'[q] /\ h[<<q, -1>>] = loc'[q].page
      BY <1>2, <1>3, <1>5, <3>0, <3>2, <3>3, Cells
    <3>6. \A q \in Procs : h[<<q, -2>>] = loc'[q].out /\ h[<<q, -3>>] = loc'[q].got
      BY <1>2, <1>3, <3>0, <3>2, <3>3, Cells
    <3>7. \A q \in Procs : \A a \in Addrs : h[<<q, a>>] = Held(pte'[q][a])
      <4> SUFFICES ASSUME NEW q \in Procs, NEW a \in Addrs PROVE h[<<q, a>>] = Held(pte'[q][a])
        OBVIOUS
      <4>1. h[<<q, a>>] = f[<<q, a>>]  BY <3>0, <3>3, Cells
      <4>2. f[<<q, a>>] = IF q = c THEN 0 ELSE Held(pte[q][a])  BY <3>2
      <4>3. q = c => Held(pte'[q][a]) = 0  BY <1>4, <1>6 DEF Held
      <4>4. q # c => pte'[q][a] = pte[q][a]  BY <1>4
      <4> QED  BY <4>1, <4>2, <4>3, <4>4
    <3> QED  BY <3>4, <3>5, <3>6, <3>7, SameRefs
  <2>5. ASSUME NEW n \in Pages PROVE mem_map'[n] - Count(Refs', n) = mem_map[n] - Count(Refs, n)
    <3>1. n # 0  BY DEF Pages
    <3>2. Count(h, n) = Count(g, n) - (IF g[<<p, -1>>] = n THEN 1 ELSE 0) + (IF 0 = n THEN 1 ELSE 0)
      BY <2>1, CountPut
    <3>3. Count(g, n) = Count(f, n) - (IF f[<<c, 0>>] = n THEN 1 ELSE 0) + (IF 0 = n THEN 1 ELSE 0)
      BY <2>1, CountPut
    <3>4. Count(f, n) = Count(Refs, n) - Cardinality(EntriesTo(c, n))  BY CountCleared
    <3>5. Count(Refs, n) \in Nat /\ Cardinality(EntriesTo(c, n)) \in Nat /\ mem_map[n] \in Int
      BY CountType, EntriesFinite DEF Types
    <3>6. mem_map'[n] = mem_map[n] - Cardinality(EntriesTo(c, n))
                     - (IF dir[c] = n THEN 1 ELSE 0) - (IF held = n THEN 1 ELSE 0)
      BY <1>1
    <3> HIDE DEF f, g, h
    <3> QED  BY <2>2, <2>3, <2>4, <3>1, <3>2, <3>3, <3>4, <3>5, <3>6
  <2>6. \A n \in Pages : Count(Refs, n)' = Count(Refs', n)  BY DEF Count, D
  <2> QED  BY <2>5, <2>6 DEF CountOK
<1> QED  BY <1>3, <1>4, <1>5, <1>6, <1>7, <1>8, <1>9

LEMMA DoExitKeeps ==
    ASSUME IInv, NEW p \in Procs, cpu \in {p, NoProc},
           pc[p] \in PCs \ {"free", "swapout", "unused", "making"}, Stage(p) \notin Forking,
           loc[p].got = 0, do_exit(p)
    PROVE  IInv'
<1> Types  BY DEF IInv
<1>1. /\ free_page_tables(p, loc[p].page) /\ cpu' = NoProc
      /\ pc' = [pc EXCEPT ![p] = "unused"] /\ loc' = [loc EXCEPT ![p] = NoLoc]
      /\ exe' = [exe EXCEPT ![p] = NoExe]
  BY DEF do_exit, Moved
<1>2. loc[p].out = 0 /\ loc[p].page \in Maybe(Pages)  BY Here
<1>3. /\ Typed /\ CountOK' /\ SwapOK'
      /\ loc' \in [Procs -> Locs] /\ loc'[p] = NoLoc /\ \A q \in Procs : q # p => loc'[q] = loc[q]
      /\ dir'[p] = 0 /\ \A b \in Addrs : pte'[p][b].at = "none"
      /\ \A q \in Procs : q # p => dir'[q] = dir[q] /\ \A b \in Addrs : pte'[q][b] = pte[q][b]
  <2> DEFINE held == loc[p].page
  <2>1. held \in Maybe(Pages) /\ free_page_tables(p, held) /\ held = loc[p].page  BY <1>1, <1>2
  <2> HIDE DEF held
  <2> QED  BY <1>1, <1>2, <2>1, FreeKeeps
<1>4. /\ pc' \in [Procs -> PCs] /\ pc'[p] = "unused" /\ \A q \in Procs : q # p => pc'[q] = pc[q]
      /\ exe' \in [Procs -> Exes \cup {NoExe}] /\ \A q \in Procs : q # p => exe'[q] = exe[q]
  BY <1>1 DEF Types, PCs
<1>5. Types'  BY <1>1, <1>3, <1>4 DEF Types, Typed
<1>6. Stage(p)' = "unused"  BY <1>4 DEF Stage, StageOf
<1>7. Place(p)'
  <2>1. Holding(p)'  BY <1>3, <1>4, <1>6 DEF Holding, Callers, NoLoc
  <2>2. Serving(p)' /\ Alone(p)' /\ Making(p)'  BY <1>6 DEF Serving, Alone, Making, Filling, Forking
  <2> QED  BY <2>1, <2>2 DEF Place
<1>8. \A q \in Procs : Stage(q) \in Forking => loc[q].who # p
  BY DEF IInv, PlaceOK, Place, Making
<1>9. PlaceOK' /\ ChildOK'
  BY <1>3, <1>4, <1>6, <1>7, <1>8, TwoMove DEF Forking
<1> QED  BY <1>3, <1>5, <1>9 DEF IInv, Safe

LEMMA ExitKeeps ==
    ASSUME IInv, NEW p \in Procs, Exit(p)
    PROVE  IInv'
<1>1. cpu \in {p, NoProc} /\ pc[p] = "user" /\ do_exit(p)  BY DEF Exit, At
<1>2. loc[p].got = 0 /\ Stage(p) = "user"  BY <1>1, Idle
<1> QED  BY <1>1, <1>2, DoExitKeeps DEF PCs, Forking, Callers

LEMMA OutOfMemoryKeeps ==
    ASSUME IInv, NEW p \in Procs, NEW l \in Callers \ {"forktable", "forkpage"}, OutOfMemory(p, l)
    PROVE  IInv'
<1>1. cpu \in {p, NoProc} /\ pc[p] = l /\ loc[p].got = 0 /\ do_exit(p)  BY DEF OutOfMemory, At
<1>2. Stage(p) = l  BY <1>1 DEF Stage, StageOf, Callers
<1>3. l \in PCs \ {"free", "swapout", "unused", "making"} /\ l \notin Forking
  BY DEF PCs, Callers, Forking
<1> QED  BY <1>1, <1>2, <1>3, DoExitKeeps

LEMMA NewSpaceKeeps ==
    ASSUME IInv, NEW p \in Procs, NewSpace(p)
    PROVE  IInv'
<1> Types  BY DEF IInv
<1>1. /\ cpu \in {p, NoProc} /\ pc[p] = "exec" /\ free_page_tables(p, 0) /\ cpu' = NoProc
      /\ pc' = [pc EXCEPT ![p] = "user"] /\ loc' = [loc EXCEPT ![p] = NoLoc] /\ exe' = exe
  BY DEF NewSpace, At, Sleep, Moved
<1>2. /\ loc[p].page = 0 /\ loc[p].out = 0 /\ loc[p].got = 0 /\ exe[p] \in Exes
  BY <1>1, Idle
<1>3. /\ Typed /\ CountOK' /\ SwapOK'
      /\ loc' \in [Procs -> Locs] /\ loc'[p] = NoLoc /\ \A q \in Procs : q # p => loc'[q] = loc[q]
      /\ dir'[p] = 0 /\ \A b \in Addrs : pte'[p][b].at = "none"
      /\ \A q \in Procs : q # p => dir'[q] = dir[q] /\ \A b \in Addrs : pte'[q][b] = pte[q][b]
  <2>1. 0 \in Maybe(Pages)  BY DEF Maybe
  <2> QED  BY <1>1, <1>2, <2>1, FreeKeeps
<1>4. /\ pc' \in [Procs -> PCs] /\ pc'[p] = "user" /\ \A q \in Procs : q # p => pc'[q] = pc[q]
  BY <1>1 DEF Types, PCs
<1>5. Types'  BY <1>1, <1>3, <1>4 DEF Types, Typed
<1>6. Stage(p)' = "user"  BY <1>4 DEF Stage, StageOf
<1>7. Place(p)'  BY <1>1, <1>2, <1>3, <1>4, AtUser
<1>8. \A q \in Procs : Stage(q) \in Forking => loc[q].who # p
  BY <1>1 DEF IInv, PlaceOK, Place, Making
<1>9. PlaceOK' /\ ChildOK'
  BY <1>1, <1>3, <1>4, <1>6, <1>7, <1>8, TwoMove DEF Forking
<1> QED  BY <1>3, <1>5, <1>9 DEF IInv, Safe

LEMMA ForkFailedKeeps ==
    ASSUME IInv, NEW p \in Procs, ForkFailed(p)
    PROVE  IInv'
<1> Types  BY DEF IInv
<1>1. cpu \in {p, NoProc} /\ pc[p] \in {"forktable", "forkpage"} /\ loc[p].got = 0
  BY DEF ForkFailed, At
<1>2. Stage(p) = pc[p] /\ Place(p) /\ exe[p] \in Exes /\ loc[p].out = 0
  BY <1>1, Here DEF PCs, Callers
<1>3. PICK c \in Procs : c = loc[p].who /\ pc[c] = "making"
  BY <1>1, <1>2 DEF Place, Making, Forking
<1>4. loc[p].page = 0  BY <1>1, <1>2 DEF Place, Holding
<1>5. c # p /\ loc[c] = NoLoc
  <2>1. Holding(c)  BY DEF IInv, PlaceOK, Place
  <2> QED  BY <1>1, <1>3, <2>1 DEF Holding
<1>6. /\ free_page_tables(c, 0) /\ pc' = [pc EXCEPT ![p] = "user", ![c] = "unused"]
      /\ exe' = [exe EXCEPT ![c] = NoExe] /\ loc' = [loc EXCEPT ![p] = NoLoc] /\ cpu' = NoProc
  BY <1>3 DEF ForkFailed
<1>7. /\ Typed /\ CountOK' /\ SwapOK'
      /\ loc' \in [Procs -> Locs] /\ loc'[p] = NoLoc /\ \A q \in Procs : q # p => loc'[q] = loc[q]
      /\ dir'[c] = 0 /\ \A b \in Addrs : pte'[c][b].at = "none"
      /\ \A q \in Procs : q # c => dir'[q] = dir[q] /\ \A b \in Addrs : pte'[q][b] = pte[q][b]
  <2>1. 0 \in Maybe(Pages)  BY DEF Maybe
  <2> QED  BY <1>1, <1>2, <1>4, <1>6, <2>1, FreeKeeps
<1>8. /\ pc' \in [Procs -> PCs] /\ pc'[p] = "user" /\ pc'[c] = "unused"
      /\ \A q \in Procs : q \notin {p, c} => pc'[q] = pc[q]
      /\ exe' \in [Procs -> Exes \cup {NoExe}] /\ \A q \in Procs : q # c => exe'[q] = exe[q]
  BY <1>5, <1>6 DEF Types, PCs
<1>9. Types'  BY <1>6, <1>7, <1>8 DEF Types, Typed
<1>10. Stage(p)' = "user" /\ Stage(c)' = "unused"  BY <1>8 DEF Stage, StageOf
<1>11. Place(p)'  BY <1>2, <1>5, <1>7, <1>8, AtUser
<1>12. Place(c)'
  <2>1. loc'[c] = NoLoc  BY <1>5, <1>7
  <2>2. Holding(c)'  BY <1>7, <1>8, <1>10, <2>1 DEF Holding, Callers, NoLoc
  <2>3. Serving(c)' /\ Alone(c)' /\ Making(c)'  BY <1>10 DEF Serving, Alone, Making, Filling, Forking
  <2> QED  BY <2>2, <2>3 DEF Place
<1>13. \A q \in Procs \ {p, c} : Stage(q) \in Forking => loc[q].who # c
  BY <1>1, <1>2, <1>3 DEF IInv, ChildOK, Forking
<1>14. PlaceOK' /\ ChildOK'
  <2>1. \A q \in Procs \ {p, c} :
             /\ pc'[q] = pc[q] /\ loc'[q] = loc[q] /\ dir'[q] = dir[q] /\ exe'[q] = exe[q]
             /\ \A b \in Addrs : pte'[q][b] = pte[q][b]
    BY <1>7, <1>8
  <2> QED  BY <1>1, <1>10, <1>11, <1>12, <1>13, <2>1, TwoMove DEF Forking
<1> QED  BY <1>7, <1>9, <1>14 DEF IInv, Safe

----------------------------------------------------------------------------
(* The theorem                                                             *)

LEMMA InitIInv ==
    ASSUME Safe, Init PROVE IInv
<1>1. PICK main \in Sizes : mem_map = [n \in Pages |-> IF n > NPages - main THEN 0 ELSE USED]
  BY DEF Init
<1>2. PICK q \in Procs, x \in Exes :
        /\ pc = [s \in Procs |-> IF s = q THEN "user" ELSE "unused"]
        /\ exe = [s \in Procs |-> IF s = q THEN x ELSE NoExe]
  BY DEF Init
<1>3. /\ cpu = NoProc /\ data = [n \in Pages |-> "zero"] /\ dir = [p \in Procs |-> 0]
      /\ pte = [p \in Procs |-> [a \in Addrs |-> NoEntry]] /\ loc = [p \in Procs |-> NoLoc]
      /\ spare = SwapNrs /\ swapped = [s \in SwapNrs |-> "zero"] /\ queue = <<>>
  BY DEF Init
<1>4. Types
  <2>1. mem_map \in [Pages -> Int]  BY <1>1 DEF USED
  <2>2. pc \in [Procs -> PCs] /\ exe \in [Procs -> Exes \cup {NoExe}]  BY <1>2 DEF PCs
  <2>3. pte \in [Procs -> [Addrs -> Entries]] /\ loc \in [Procs -> Locs]
    BY <1>3, EntryMade, NoLocType
  <2>4. queue \in Seq(Requests)  BY <1>3
  <2>5. dir \in [Procs -> Maybe(Pages)]  BY <1>3 DEF Maybe
  <2>6. data \in [Pages -> Content] /\ swapped \in [SwapNrs -> Content]  BY <1>3 DEF Content
  <2> QED  BY <1>3, <2>1, <2>2, <2>3, <2>4, <2>5, <2>6 DEF Types
<1>5. NoEntry.at = "none"  BY DEF NoEntry
<1>6. ASSUME NEW p \in Procs PROVE Place(p) /\ Stage(p) \notin Forking
  <2>1. /\ pc[p] \in {"user", "unused"} /\ loc[p] = NoLoc /\ dir[p] = 0
        /\ \A a \in Addrs : pte[p][a].at = "none"
        /\ pc[p] # "unused" => exe[p] \in Exes
    BY <1>2, <1>3, <1>5
  <2>2. Stage(p) = pc[p]  BY <2>1 DEF Stage, StageOf
  <2>3. NoLoc.page = 0 /\ NoLoc.out = 0 /\ NoLoc.got = 0  BY DEF NoLoc
  <2>4. Holding(p)  BY <2>1, <2>2, <2>3 DEF Holding, Callers
  <2>5. Serving(p) /\ Making(p) /\ Alone(p)
    BY <2>1, <2>2 DEF Serving, Making, Alone, Filling, Forking
  <2> QED  BY <2>1, <2>2, <2>4, <2>5 DEF Place, Forking
<1>7. PlaceOK /\ ChildOK  BY <1>6 DEF PlaceOK, ChildOK
<1>8. SwapOK  BY <1>3, <1>5 DEF SwapOK
<1>9. CountOK
  <2>1. ASSUME NEW u \in D PROVE Refs[u] = 0
    <3>1. PICK s \in Procs, k \in -3..NAddrs : u = <<s, k>>  BY DEF D
    <3>2. k \in {0, -1, -2, -3} \/ k \in Addrs  BY SizesAssumption, <3>1 DEF Addrs
    <3>3. /\ dir[s] = 0 /\ loc[s].page = 0 /\ loc[s].out = 0 /\ loc[s].got = 0
          /\ \A a \in Addrs : Held(pte[s][a]) = 0
      BY <1>3, <1>5 DEF NoLoc, Held
    <3>4. CASE k \in Addrs  BY <3>1, <3>3, <3>4, RefsAre
    <3>5. CASE k \in {0, -1, -2, -3}  BY <3>1, <3>3, <3>5, RefsAre
    <3> QED  BY <3>2, <3>4, <3>5
  <2>2. ASSUME NEW n \in Pages PROVE Count(Refs, n) = 0
    <3>1. n # 0  BY DEF Pages
    <3>2. {u \in D : Refs[u] = n} = {}  BY <2>1, <3>1
    <3> QED  BY <3>2, FS_EmptySet DEF Count
  <2>3. \A n \in Pages : mem_map[n] \in {0, USED} /\ mem_map[n] \in Int  BY <1>1 DEF USED
  <2> QED  BY <2>2, <2>3 DEF CountOK
<1> QED  BY <1>4, <1>7, <1>8, <1>9 DEF IInv

LEMMA NextIInv ==
    ASSUME IInv, [Next]_vars PROVE IInv'
<1>1. CASE UNCHANGED vars
  <2>1. /\ UNCHANGED <<cpu, mem_map, data, dir, pte, spare, swapped, queue, exe, pc, loc>>
    BY <1>1 DEF vars, tables, swap
  <2>2. Types' /\ PlaceOK' /\ ChildOK' /\ SwapOK'
    BY <2>1 DEF IInv, Types, PlaceOK, Place, Holding, Serving, Making, Alone, ChildOK, SwapOK, Stage
  <2>3. CountOK'
    <3>1. Refs' = Refs
      <4>1. Refs = [u \in D |-> Refs[u]]  BY DEF Refs
      <4>2. \A q \in Procs :
              /\ Refs[<<q, 0>>] = dir'[q] /\ Refs[<<q, -1>>] = loc'[q].page
              /\ Refs[<<q, -2>>] = loc'[q].out /\ Refs[<<q, -3>>] = loc'[q].got
              /\ \A a \in Addrs : Refs[<<q, a>>] = Held(pte'[q][a])
        BY <2>1, RefsAre
      <4>3. DOMAIN Refs = D  BY RefsAre
      <4> DEFINE f == Refs
      <4> HIDE DEF f
      <4> QED  BY <4>1, <4>2, <4>3, SameRefs DEF f
    <3>2. \A n \in Pages : Count(Refs, n)' = Count(Refs', n)  BY DEF Count, D
    <3> QED  BY <2>1, <3>1, <3>2 DEF CountOK, IInv
  <2> QED  BY <2>2, <2>3 DEF IInv, Safe
<1>2. CASE Complete  BY <1>2, CompleteKeeps
<1>3. ASSUME NEW p \in Procs, NEW a \in Addrs, do_wp_page(p, a) PROVE IInv'  BY <1>3, DoWpPageKeeps
<1>4. ASSUME NEW p \in Procs, NEW a \in Addrs, Fault(p, a) PROVE IInv'  BY <1>4, UserFaultKeeps
<1>5. ASSUME NEW p \in Procs, NEW a \in Addrs, write_verify(p, a) PROVE IInv'  BY <1>5, WriteVerifyKeeps
<1>6. ASSUME NEW p \in Procs, NEW a \in Addrs, NEW v \in Vals, Write(p, a, v) PROVE IInv'
  BY <1>6, WriteKeeps
<1>7. ASSUME NEW p \in Procs, NEW q \in Procs, NEW a \in Addrs, Drop(p, q, a) \/ SwapOut(p, q, a)
      PROVE  IInv'
  BY <1>7, DropKeeps, SwapOutKeeps
<1>8. ASSUME NEW p \in Procs, NEW v \in Vals, Restart(p, v) \/ KernelWrite(p, v) PROVE IInv'
  BY <1>8, RestartKeeps, KernelWriteKeeps
<1>9. ASSUME NEW p \in Procs, GetFreePage(p) \/ SwappedOut(p) \/ OutOfSwap(p) PROVE IInv'
  BY <1>9, GetFreePageKeeps, SwappedOutKeeps, OutOfSwapKeeps
<1>10. ASSUME NEW p \in Procs, NEW l \in Callers \ {"forktable", "forkpage"}, OutOfMemory(p, l)
       PROVE  IInv'
  BY <1>10, OutOfMemoryKeeps
<1>11. ASSUME NEW p \in Procs, Copy(p) \/ ShareTable(p) \/ SwapIn(p) \/ SwappedIn(p) PROVE IInv'
  BY <1>11, CopyKeeps, ShareTableKeeps, SwapInKeeps, SwappedInKeeps
<1>12. ASSUME NEW p \in Procs, Empty(p) \/ Bread(p) \/ bread_page(p) \/ put_page(p) \/ PutTable(p)
       PROVE  IInv'
  BY <1>12, EmptyKeeps, BreadPageKeeps, PutPageKeeps, PutTableKeeps
<1>13. ASSUME NEW p \in Procs, NEW c \in Procs, Fork(p, c) PROVE IInv'  BY <1>13, ForkKeeps
<1>14. ASSUME NEW p \in Procs, ForkTable(p) \/ ForkEntry(p) \/ ForkRead(p) \/ ForkSwapped(p) PROVE IInv'
  BY <1>14, ForkTableKeeps, ForkEntryKeeps, ForkReadKeeps, ForkSwappedKeeps
<1>15. ASSUME NEW p \in Procs, ForkDone(p) \/ ForkFailed(p) PROVE IInv'
  BY <1>15, ForkDoneKeeps, ForkFailedKeeps
<1>16. ASSUME NEW p \in Procs, NEW x \in Exes, Exec(p, x) PROVE IInv'  BY <1>16, ExecKeeps
<1>17. ASSUME NEW p \in Procs, NewSpace(p) \/ Exit(p) PROVE IInv'  BY <1>17, NewSpaceKeeps, ExitKeeps
<1> QED
  BY <1>1, <1>2, <1>3, <1>4, <1>5, <1>6, <1>7, <1>8, <1>9, <1>10, <1>11, <1>12, <1>13, <1>14,
     <1>15, <1>16, <1>17 DEF Next

LEMMA UsersCounted ==
    ASSUME NEW n PROVE Users(n) = Count(Refs, n)
<1>1. \A u \in D : Refs[u] = Ref(u[1], u[2])  BY DEF Refs
<1>2. {u \in D : Refs[u] = n} = {u \in D : Ref(u[1], u[2]) = n}  BY <1>1
<1> QED  BY <1>2 DEF Users, Count, D

LEMMA IInvAccounted ==
    ASSUME IInv PROVE Accounted
<1> Types /\ SwapOK /\ CountOK  BY DEF IInv
<1>1. CountsExact  BY UsersCounted DEF CountsExact, CountOK
<1>2. TypeOK
  <2>1. ASSUME NEW n \in Pages PROVE mem_map[n] \in Nat
    <3>1. Count(Refs, n) \in Nat /\ mem_map[n] \in Int  BY CountType DEF Types
    <3>2. mem_map[n] - Count(Refs, n) \in {0, 100}  BY DEF CountOK, USED
    <3> QED  BY <3>1, <3>2
  <2>2. mem_map \in [Pages -> Nat]  BY <2>1 DEF Types
  <2> QED  BY <2>2 DEF Types, TypeOK, Locs, Requests
<1>3. ASSUME NEW s \in SwapNrs
      PROVE  Cardinality({u \in Procs \X Addrs : pte[u[1]][u[2]] = OnSwap(s)})
                 = IF s \in spare THEN 0 ELSE 1
  <2> DEFINE S == {u \in Procs \X Addrs : pte[u[1]][u[2]] = OnSwap(s)}
  <2>1. OnSwap(s).at = "swap" /\ OnSwap(s).n = s  BY DEF OnSwap
  <2>2. CASE s \in spare
    <3>1. \A u \in S : FALSE  BY <2>1, <2>2 DEF SwapOK
    <3>2. S = {}  BY <3>1
    <3> QED  BY <2>2, <3>2, FS_EmptySet
  <2>3. CASE s \notin spare
    <3>1. PICK p \in Procs, a \in Addrs : pte[p][a] = OnSwap(s)  BY <2>3 DEF SwapOK
    <3>2. <<p, a>> \in S  BY <3>1
    <3>3. \A u \in S : u = <<p, a>>
      <4> SUFFICES ASSUME NEW q \in Procs, NEW b \in Addrs, pte[q][b] = OnSwap(s)
                   PROVE  <<q, b>> = <<p, a>>
        OBVIOUS
      <4> QED  BY <2>1, <3>1 DEF SwapOK
    <3>4. S = {<<p, a>>}  BY <3>2, <3>3
    <3> QED  BY <2>3, <3>4, FS_Singleton
  <2> QED  BY <2>2, <2>3
<1> QED  BY <1>1, <1>2, <1>3 DEF Accounted, SwapOwned

\* Every page of memory has as many references as its count in mem_map says, and
\* every page of the swap device that is taken is in one entry (mm/memory.c,
\* mm/swap.c), as long as get_free_page() never sleeps in un_wp_page() and in
\* try_to_share(), for any number of processes, pages and addresses.
THEOREM MemoryAccounted == Safe /\ Spec => []Accounted
<1>1. ASSUME Safe, Init PROVE IInv  BY <1>1, InitIInv
<1>2. IInv /\ [Next]_vars => IInv'  BY NextIInv
<1>3. IInv => Accounted  BY IInvAccounted
<1>4. Safe /\ Init => IInv  BY <1>1
<1> QED  BY <1>2, <1>3, <1>4, PTL DEF Spec

----------------------------------------------------------------------------
(* Copy on write                                                           *)

\* The pages in the variables of a process.
Grasp(r) == {r.page, r.out, r.got}

\* Whoever may write a page, or holds one in a variable, is its only user.
Sole ==
    /\ \A q \in Procs, b \in Addrs :
          pte[q][b].at = "page" /\ pte[q][b].rw => mem_map[pte[q][b].n] = 1
    /\ \A q \in Procs : \A n \in Grasp(loc[q]) \ {0} : mem_map[n] = 1

LEMMA OneCell ==
    ASSUME Types, CountOK, NEW n \in Pages, mem_map[n] = 1,
           NEW u \in D, NEW w \in D, Refs[u] = n, Refs[w] = n
    PROVE  u = w
<1> SUFFICES ASSUME u # w PROVE FALSE  OBVIOUS
<1> DEFINE f == Refs  g == Put(f, u, 0)
<1>1. n # 0  BY DEF Pages
<1>2. Count(f, n) \in Nat /\ mem_map[n] - Count(f, n) \in {0, 100}
  BY CountType DEF CountOK, USED
<1>3. f[u] = n /\ f[w] = n  OBVIOUS
<1>4. g[w] = f[w]  BY PutAt
<1> HIDE DEF f
<1>5. Count(g, n) = Count(f, n) - 1  BY <1>1, <1>2, <1>3, CountPut
<1> HIDE DEF g
<1>6. Count(g, n) \in Nat  BY CountType
<1>7. Count(g, n) = 0  BY <1>2, <1>5, <1>6
<1> QED  BY <1>3, <1>4, <1>7, CountZero

\* A page with one user: what is no user of it.
LEMMA OneUser ==
    ASSUME Types, CountOK, NEW n \in Pages, mem_map[n] = 1
    PROVE  /\ \A p, q \in Procs : \A a, b \in Addrs :
                Held(pte[p][a]) = n /\ Held(pte[q][b]) = n => p = q /\ a = b
           /\ \A p, q \in Procs, a \in Addrs :
                Held(pte[p][a]) = n => dir[q] # n /\ n \notin Grasp(loc[q])
           /\ \A p, q \in Procs :
                n \in Grasp(loc[p]) => dir[q] # n /\ (n \in Grasp(loc[q]) => p = q)
           /\ \A p \in Procs : loc[p].out = n => loc[p].page # n /\ loc[p].got # n
           /\ \A p \in Procs : loc[p].got = n => loc[p].page # n
<1> DEFINE f == Refs
<1>1. \A u, w \in D : f[u] = n /\ f[w] = n => u = w  BY OneCell
<1>2. \A q \in Procs :
        /\ <<q, 0>> \in D /\ <<q, -1>> \in D /\ <<q, -2>> \in D /\ <<q, -3>> \in D
        /\ \A a \in Addrs : <<q, a>> \in D
  BY Cells, Zenon
<1>3. \A q \in Procs :
        /\ f[<<q, 0>>] = dir[q] /\ f[<<q, -1>>] = loc[q].page
        /\ f[<<q, -2>>] = loc[q].out /\ f[<<q, -3>>] = loc[q].got
        /\ \A a \in Addrs : f[<<q, a>>] = Held(pte[q][a])
  BY RefsAre, Zenon
<1> HIDE DEF f
<1>4. \A p, q \in Procs : \A a, b \in Addrs :
        Held(pte[p][a]) = n /\ Held(pte[q][b]) = n => p = q /\ a = b
  <2> SUFFICES ASSUME NEW p \in Procs, NEW q \in Procs, NEW a \in Addrs, NEW b \in Addrs,
                      Held(pte[p][a]) = n, Held(pte[q][b]) = n
               PROVE  p = q /\ a = b
    OBVIOUS
  <2>1. f[<<p, a>>] = n /\ f[<<q, b>>] = n /\ <<p, a>> \in D /\ <<q, b>> \in D
    BY <1>2, <1>3, Zenon
  <2>2. <<p, a>> = <<q, b>>  BY <1>1, <2>1, Zenon
  <2> QED  BY <2>2
<1>5. \A p, q \in Procs, a \in Addrs :
        Held(pte[p][a]) = n => dir[q] # n /\ n \notin Grasp(loc[q])
  <2> SUFFICES ASSUME NEW p \in Procs, NEW q \in Procs, NEW a \in Addrs, Held(pte[p][a]) = n
               PROVE  dir[q] # n /\ loc[q].page # n /\ loc[q].out # n /\ loc[q].got # n
    BY DEF Grasp
  <2>0. a > 0 /\ a \in Int  BY DEF Addrs
  <2>1. <<p, a>> # <<q, 0>> /\ <<p, a>> # <<q, -1>> /\ <<p, a>> # <<q, -2>> /\ <<p, a>> # <<q, -3>>
    BY <2>0
  <2>2. f[<<p, a>>] = n /\ <<p, a>> \in D  BY <1>2, <1>3, Zenon
  <2>3. \A w \in D : w # <<p, a>> => f[w] # n  BY <1>1, <2>2
  <2>4. f[<<q, 0>>] # n /\ f[<<q, -1>>] # n /\ f[<<q, -2>>] # n /\ f[<<q, -3>>] # n
    BY <1>2, <2>1, <2>3
  <2> QED  BY <1>3, <2>4
<1>6. ASSUME NEW p \in Procs, NEW q \in Procs, NEW i \in {-1, -2, -3}, f[<<p, i>>] = n
      PROVE  /\ dir[q] # n
             /\ \A j \in {-1, -2, -3} : f[<<q, j>>] = n => p = q /\ i = j
  <2>1. <<p, i>> # <<q, 0>>  OBVIOUS
  <2>2. <<p, i>> \in D /\ <<q, 0>> \in D /\ \A j \in {-1, -2, -3} : <<q, j>> \in D  BY <1>2
  <2>5. f[<<q, 0>>] # n  BY <1>1, <1>6, <2>1, <2>2
  <2>3. dir[q] # n  BY <1>3, <2>5
  <2>4. ASSUME NEW j \in {-1, -2, -3}, f[<<q, j>>] = n PROVE p = q /\ i = j
    <3>1. <<p, i>> = <<q, j>>  BY <1>1, <1>6, <2>2, <2>4, Zenon
    <3> QED  BY <3>1
  <2> QED  BY <2>3, <2>4
<1>7. \A p, q \in Procs :
        n \in Grasp(loc[p]) => dir[q] # n /\ (n \in Grasp(loc[q]) => p = q)
  <2> SUFFICES ASSUME NEW p \in Procs, NEW q \in Procs, n \in Grasp(loc[p])
               PROVE  dir[q] # n /\ (n \in Grasp(loc[q]) => p = q)
    OBVIOUS
  <2>1. PICK i \in {-1, -2, -3} : f[<<p, i>>] = n  BY <1>3 DEF Grasp
  <2>2. n \in Grasp(loc[q]) => \E j \in {-1, -2, -3} : f[<<q, j>>] = n  BY <1>3 DEF Grasp
  <2> QED  BY <1>6, <2>1, <2>2
<1>8. ASSUME NEW p \in Procs
      PROVE  /\ loc[p].out = n => loc[p].page # n /\ loc[p].got # n
             /\ loc[p].got = n => loc[p].page # n
  <2>1. f[<<p, -2>>] = n => f[<<p, -1>>] # n /\ f[<<p, -3>>] # n
    <3> SUFFICES ASSUME f[<<p, -2>>] = n PROVE f[<<p, -1>>] # n /\ f[<<p, -3>>] # n  OBVIOUS
    <3>1. \A j \in {-1, -2, -3} : f[<<p, j>>] = n => j = -2  BY <1>6
    <3> QED  BY <3>1
  <2>2. f[<<p, -3>>] = n => f[<<p, -1>>] # n
    <3> SUFFICES ASSUME f[<<p, -3>>] = n PROVE f[<<p, -1>>] # n  OBVIOUS
    <3>1. \A j \in {-1, -2, -3} : f[<<p, j>>] = n => j = -3  BY <1>6
    <3> QED  BY <3>1
  <2> QED  BY <1>3, <2>1, <2>2
<1> QED  BY <1>4, <1>5, <1>7, <1>8

----------------------------------------------------------------------------
LEMMA SoleKept ==
    ASSUME Sole,
           \A q \in Procs, b \in Addrs :
               pte'[q][b].at = "page" /\ pte'[q][b].rw =>
                   \/ pte'[q][b] = pte[q][b] /\ mem_map'[pte[q][b].n] = mem_map[pte[q][b].n]
                   \/ mem_map'[pte'[q][b].n] = 1,
           \A q \in Procs : \A n \in Grasp(loc'[q]) \ {0} :
               \/ n \in Grasp(loc[q]) /\ mem_map'[n] = mem_map[n]
               \/ mem_map'[n] = 1
    PROVE  Sole'
<1>1. ASSUME NEW q \in Procs, NEW b \in Addrs, pte'[q][b].at = "page", pte'[q][b].rw
      PROVE  mem_map'[pte'[q][b].n] = 1
  BY <1>1 DEF Sole
<1>2. ASSUME NEW q \in Procs, NEW n \in Grasp(loc'[q]) \ {0} PROVE mem_map'[n] = 1
  BY <1>2 DEF Sole
<1>3. \A q \in Procs : Grasp(loc[q])' = Grasp(loc'[q])  BY DEF Grasp
<1> QED  BY <1>1, <1>2, <1>3 DEF Sole

\* The entries and the counts stay; p moves on.
LEMMA SoleMoves ==
    ASSUME Types, Sole, UNCHANGED <<mem_map, pte>>, NEW p \in Procs, NEW r,
           loc' = [loc EXCEPT ![p] = r],
           \A n \in Grasp(r) \ {0} : n \in Grasp(loc[p]) \/ mem_map[n] = 1
    PROVE  Sole'
<1>1. \A q \in Procs : loc'[q] = IF q = p THEN r ELSE loc[q]  BY DEF Types
<1> QED  BY <1>1, SoleKept

\* p fills its entry a with n and moves on.
LEMMA SoleEntry ==
    ASSUME Types, Sole, UNCHANGED mem_map, NEW p \in Procs, NEW a \in Addrs, NEW e, NEW r,
           pte' = [pte EXCEPT ![p][a] = e], loc' = [loc EXCEPT ![p] = r],
           e.at = "page" /\ e.rw => mem_map[e.n] = 1,
           \A n \in Grasp(r) \ {0} : n \in Grasp(loc[p]) \/ mem_map[n] = 1
    PROVE  Sole'
<1>1. \A q \in Procs : loc'[q] = IF q = p THEN r ELSE loc[q]  BY DEF Types
<1>2. \A q \in Procs, b \in Addrs : pte'[q][b] = IF q = p /\ b = a THEN e ELSE pte[q][b]
  BY DEF Types
<1> QED  BY <1>1, <1>2, SoleKept

LEMMA NoGrasp ==
    \A a, n, s, w, x : /\ Grasp(NoLoc) = {0}
          /\ Grasp([NoLoc EXCEPT !.addr = a]) = {0}
          /\ Grasp([NoLoc EXCEPT !.addr = a, !.ret = s]) = {0}
          /\ Grasp([NoLoc EXCEPT !.addr = a, !.other = n, !.ret = s]) = {0}
          /\ Grasp([NoLoc EXCEPT !.who = w, !.why = x]) = {0}
  BY DEF Grasp, NoLoc

LEMMA GraspOf ==
    ASSUME NEW r \in Locs
    PROVE  /\ \A y : Grasp([r EXCEPT !.why = y, !.got = 0]) \subseteq {r.page, r.out, 0}
           /\ \A o, w : Grasp([r EXCEPT !.other = o, !.who = w]) = Grasp(r)
           /\ \A n : Grasp([r EXCEPT !.got = n]) = {r.page, r.out, n}
           /\ \A n : Grasp([r EXCEPT !.out = n]) = {r.page, n, r.got}
           /\ Grasp([r EXCEPT !.page = r.got, !.got = 0]) = {r.got, r.out, 0}
           /\ \A a : Grasp([r EXCEPT !.addr = a]) = Grasp(r)
           /\ \A a : Grasp([r EXCEPT !.page = 0, !.addr = a]) = {0, r.out, r.got}
           /\ \A a : Grasp([r EXCEPT !.got = 0, !.addr = a]) = {r.page, r.out, 0}
  BY DEF Grasp, Locs

\* The pages a process is at, and those of its entries, are pages of memory.
LEMMA GraspPages ==
    ASSUME Types, NEW p \in Procs
    PROVE  /\ loc[p] \in Locs /\ \A n \in Grasp(loc[p]) \ {0} : n \in Pages
           /\ \A a \in Addrs : pte[p][a] \in Entries
                               /\ (pte[p][a].at = "page" => pte[p][a].n \in Pages
                                                           /\ Held(pte[p][a]) = pte[p][a].n)
<1>1. loc[p] \in Locs  BY DEF Types
<1>2. \A n \in Grasp(loc[p]) \ {0} : n \in Pages  BY <1>1 DEF Grasp, Locs, Maybe
<1>3. \A a \in Addrs : pte[p][a] \in Entries  BY DEF Types
<1> QED  BY <1>1, <1>2, <1>3, EntryFacts DEF Held

----------------------------------------------------------------------------
LEMMA SoleStored ==
    ASSUME Types, Sole, NEW p \in Procs, NEW a \in Addrs, NEW v, Stored(p, a, v)
    PROVE  Sole'
<1> DEFINE e == [pte[p][a] EXCEPT !.dirty = TRUE]
<1>1. UNCHANGED mem_map /\ loc' = [loc EXCEPT ![p] = NoLoc] /\ pte' = [pte EXCEPT ![p][a] = e]
  BY DEF Stored, Sleep, Moved
<1>2. e.at = "page" /\ e.rw => mem_map[e.n] = 1
  <2>1. pte[p][a] \in Entries  BY DEF Types
  <2>2. e.at = pte[p][a].at /\ e.n = pte[p][a].n /\ e.rw = pte[p][a].rw
    BY <2>1 DEF Entries, NoEntry, OnSwap, InMemory
  <2> QED  BY <2>2 DEF Sole
<1> HIDE DEF e
<1> QED  BY <1>1, <1>2, NoGrasp, SoleEntry

LEMMA SoleCall ==
    ASSUME Types, Sole, NEW p \in Procs, NEW y, NEW r \in Locs, Call(p, y, r),
           UNCHANGED <<mem_map, pte>>,
           \A n \in {r.page, r.out} \ {0} : n \in Grasp(loc[p])
    PROVE  Sole'
<1> DEFINE s == [r EXCEPT !.why = y, !.got = 0]
<1>1. loc' = [loc EXCEPT ![p] = s]  BY DEF Call, Goto, Moved
<1>2. Grasp(s) \subseteq {r.page, r.out, 0}  BY GraspOf
<1> HIDE DEF s
<1> QED  BY <1>1, <1>2, SoleMoves

LEMMA SoleUnWp ==
    ASSUME Types, Sole, NEW p \in Procs, NEW a \in Addrs, NEW l \in {"store", "verified"},
           pte[p][a].at = "page", un_wp_page(p, a, l)
    PROVE  Sole'
<1> DEFINE n == pte[p][a].n  r == CopyLoc(a, n, l)
           e == [pte[p][a] EXCEPT !.rw = TRUE]
<1>0. pte[p][a] \in Entries /\ n \in Pages  BY GraspPages
<1>1. CASE /\ mem_map[n] = 1 /\ pte' = [pte EXCEPT ![p][a].rw = TRUE]
           /\ Proceed(p, l, a, FALSE) /\ UNCHANGED <<mem_map, data, dir, swap>>
  <2>1. UNCHANGED mem_map /\ loc' = [loc EXCEPT ![p] = [NoLoc EXCEPT !.addr = a]]
        /\ pte' = [pte EXCEPT ![p][a] = e]
    BY <1>1 DEF Proceed, Sleep, Goto, Moved
  <2>2. e.n = n  BY <1>0, EntryChanged
  <2>3. e.at = "page" /\ e.rw => mem_map[e.n] = 1  BY <1>1, <2>2
  <2>4. Grasp([NoLoc EXCEPT !.addr = a]) = {0}  BY NoGrasp
  <2> HIDE DEF e, n
  <2> QED  BY <2>1, <2>3, <2>4, SoleEntry
<1>2. CASE Call(p, "wp", r) /\ UNCHANGED <<mem_map, data, tables, swap>>
  <2>1. r \in Locs /\ r.page = 0 /\ r.out = 0  BY <1>0, LocFault DEF Maybe
  <2> HIDE DEF r
  <2> QED  BY <1>2, <2>1, SoleCall DEF tables
<1> QED  BY <1>1, <1>2 DEF un_wp_page, CopyLoc

LEMMA SoleShared ==
    ASSUME Types, CountOK, Sole, NEW p \in Procs, NEW a \in Addrs, NEW q \in Procs \ {p},
           pte[q][a].at = "page", Shared(p, a, q, pte[q][a].n), NEW r, Grasp(r) = {0},
           loc' = [loc EXCEPT ![p] = r]
    PROVE  Sole'
<1> DEFINE n == pte[q][a].n  e == [pte[q][a] EXCEPT !.rw = FALSE]
<1>0. pte[q][a] \in Entries /\ n \in Pages /\ Held(pte[q][a]) = n  BY GraspPages
<1>1. \A s \in Procs, b \in Addrs :
         pte'[s][b] = IF s \in {p, q} /\ b = a THEN e ELSE pte[s][b]
  BY DEF Shared, Types
<1>2. e.rw = FALSE  BY <1>0 DEF Entries, NoEntry, OnSwap, InMemory
<1>3. \A k \in Pages : k # n => mem_map'[k] = mem_map[k]  BY DEF Shared, Types
<1>4. \A s \in Procs : loc'[s] = IF s = p THEN r ELSE loc[s]  BY DEF Types
<1> HIDE DEF e, n
<1>5. ASSUME NEW s \in Procs, NEW b \in Addrs, pte'[s][b].at = "page" /\ pte'[s][b].rw
      PROVE  pte'[s][b] = pte[s][b] /\ mem_map'[pte[s][b].n] = mem_map[pte[s][b].n]
  <2>1. pte'[s][b] = pte[s][b] /\ ~(s \in {p, q} /\ b = a)  BY <1>1, <1>2, <1>5
  <2>2. mem_map[pte[s][b].n] = 1 /\ pte[s][b].n \in Pages /\ Held(pte[s][b]) = pte[s][b].n
    BY <1>5, <2>1, GraspPages DEF Sole
  <2>3. pte[s][b].n # n  BY <1>0, <2>1, <2>2, OneUser
  <2> QED  BY <1>3, <2>1, <2>2, <2>3
<1>6. ASSUME NEW s \in Procs, NEW k \in Grasp(loc'[s]) \ {0}
      PROVE  k \in Grasp(loc[s]) /\ mem_map'[k] = mem_map[k]
  <2>1. k \in Grasp(loc[s])  BY <1>4, <1>6
  <2>2. mem_map[k] = 1 /\ k \in Pages  BY <1>6, <2>1, GraspPages DEF Sole
  <2>3. k # n  BY <1>0, <2>1, <2>2, OneUser
  <2> QED  BY <1>3, <2>1, <2>2, <2>3
<1> QED  BY <1>5, <1>6, SoleKept

LEMMA SoleFault ==
    ASSUME IInv, Sole, NEW p \in Procs, NEW a \in Addrs, NEW t \in {"user", "verified"},
           do_no_page(p, a, t)
    PROVE  Sole'
<1> Types /\ CountOK  BY DEF IInv
<1> DEFINE r == FaultLoc(a, t)
<1>1. r \in Locs /\ r.page = 0 /\ r.out = 0 /\ r.got = 0  BY LocNoPage
<1>2. ASSUME NEW y, Call(p, y, r), UNCHANGED <<mem_map, data, tables, swap>> PROVE Sole'
  <2> HIDE DEF r
  <2> QED  BY <1>1, <1>2, SoleCall DEF tables
<1>3. ASSUME share_page(p, a, r) PROVE Sole'
  <2> HIDE DEF r
  <2>1. PICK q \in Sharers(p, a) :
           \/ /\ Shared(p, a, q, pte[q][a].n)
              /\ IF r.ret = "user" THEN Sleep(p, "user", NoLoc) ELSE Goto(p, "verified", r)
           \/ /\ Call(p, "share", ShareLoc(r, pte[q][a].n, q))
              /\ UNCHANGED <<mem_map, data, tables, swap>>
    BY <1>3 DEF share_page, ShareLoc
  <2>2. q \in Procs \ {p} /\ pte[q][a].at = "page"  BY DEF Sharers, Droppable
  <2>3. CASE /\ Shared(p, a, q, pte[q][a].n)
             /\ IF r.ret = "user" THEN Sleep(p, "user", NoLoc) ELSE Goto(p, "verified", r)
    <3>1. Grasp(r) = {0} /\ Grasp(NoLoc) = {0}  BY <1>1, NoGrasp DEF Grasp
    <3>2. loc' = [loc EXCEPT ![p] = NoLoc] \/ loc' = [loc EXCEPT ![p] = r]
      BY <2>3 DEF Sleep, Goto, Moved
    <3> QED  BY <2>2, <2>3, <3>1, <3>2, SoleShared
  <2>4. CASE /\ Call(p, "share", ShareLoc(r, pte[q][a].n, q))
             /\ UNCHANGED <<mem_map, data, tables, swap>>
    <3> DEFINE s == ShareLoc(r, pte[q][a].n, q)
    <3>1. pte[q][a].n \in Maybe(Pages)  BY <2>2, GraspPages DEF Maybe
    <3>2. s \in Locs /\ s.page = 0 /\ s.out = 0  BY <1>1, <2>2, <3>1, LocShare
    <3> HIDE DEF s
    <3> QED  BY <2>4, <3>2, SoleCall DEF s, tables
  <2> QED  BY <2>1, <2>3, <2>4
<1> QED  BY <1>2, <1>3 DEF do_no_page, FaultLoc

LEMMA SoleUser ==
    ASSUME IInv, Sole, NEW p \in Procs, NEW a \in Addrs, NEW v,
           \/ do_wp_page(p, a) \/ Fault(p, a) \/ write_verify(p, a)
           \/ Write(p, a, v) \/ Restart(p, v) \/ KernelWrite(p, v)
    PROVE  Sole'
<1> Types /\ CountOK  BY DEF IInv
<1>1. CASE do_wp_page(p, a)  BY <1>1, SoleUnWp DEF do_wp_page, ReadOnly
<1>2. CASE Fault(p, a)  BY <1>2, SoleFault DEF Fault
<1>3. CASE write_verify(p, a)
  <2>1. CASE ReadOnly(pte[p][a]) /\ un_wp_page(p, a, "verified")
    BY <2>1, SoleUnWp DEF ReadOnly
  <2> DEFINE r == [NoLoc EXCEPT !.addr = a]
  <2>2. CASE /\ IF "read" \in Risks THEN Sleep(p, "verified", r) ELSE Goto(p, "verified", r)
             /\ UNCHANGED <<mem_map, data, tables, swap>>
    <3>1. loc' = [loc EXCEPT ![p] = r]  BY <2>2 DEF Sleep, Goto, Moved
    <3>2. Grasp(r) = {0}  BY NoGrasp
    <3> HIDE DEF r
    <3> QED  BY <2>2, <3>1, <3>2, SoleMoves DEF tables
  <2> QED  BY <1>3, <2>1, <2>2 DEF write_verify
<1>4. CASE Write(p, a, v)  BY <1>4, SoleStored DEF Write
<1>5. ASSUME loc[p].addr \in Addrs, Restart(p, v) PROVE Sole'
  <2>1. CASE Stored(p, loc[p].addr, v)  BY <1>5, <2>1, SoleStored
  <2>2. CASE Sleep(p, "user", NoLoc) /\ UNCHANGED <<mem_map, data, tables, swap>>
    <3>1. loc' = [loc EXCEPT ![p] = NoLoc]  BY <2>2 DEF Sleep, Moved
    <3> QED  BY <2>2, <3>1, NoGrasp, SoleMoves DEF tables
  <2> QED  BY <1>5, <2>1, <2>2 DEF Restart
<1>6. ASSUME loc[p].addr \in Addrs, KernelWrite(p, v) PROVE Sole'
  <2>1. CASE Stored(p, loc[p].addr, v)  BY <1>6, <2>1, SoleStored
  <2>2. CASE do_no_page(p, loc[p].addr, "verified")  BY <1>6, <2>2, SoleFault
  <2> QED  BY <1>6, <2>1, <2>2 DEF KernelWrite
<1>7. Restart(p, v) \/ KernelWrite(p, v) => loc[p].addr \in Addrs
  <2>1. Place(p)  BY DEF IInv, PlaceOK
  <2>2. pc[p] \in {"store", "verified"} => loc[p].addr \in Addrs
    BY <2>1 DEF Place, Serving, Stage, StageOf
  <2> QED  BY <2>2 DEF Restart, KernelWrite, At
<1> QED  BY <1>1, <1>2, <1>3, <1>4, <1>5, <1>6, <1>7

----------------------------------------------------------------------------
LEMMA SoleGetFreePage ==
    ASSUME IInv, Sole, NEW p \in Procs, GetFreePage(p) PROVE Sole'
<1> Types /\ CountOK  BY DEF IInv
<1>1. PICK n \in Pages :
         /\ mem_map[n] = 0 /\ mem_map' = [mem_map EXCEPT ![n] = 1]
         /\ loc' = [loc EXCEPT ![p] = [loc[p] EXCEPT !.got = n]]
  BY DEF GetFreePage, Goto, Moved
<1>2. pte' = pte  BY DEF GetFreePage, tables
<1>3. mem_map'[n] = 1 /\ \A k \in Pages : k # n => mem_map'[k] = mem_map[k]
  BY <1>1 DEF Types
<1>4. \A s \in Procs : loc'[s] = IF s = p THEN [loc[p] EXCEPT !.got = n] ELSE loc[s]
  BY <1>1 DEF Types
<1>5. Grasp([loc[p] EXCEPT !.got = n]) \subseteq Grasp(loc[p]) \cup {n}
  BY GraspPages, GraspOf DEF Grasp
<1>6. \A s \in Procs, b \in Addrs :
         pte[s][b].at = "page" /\ pte[s][b].rw => mem_map'[pte[s][b].n] = 1
  BY <1>1, <1>3, GraspPages DEF Sole
<1>7. ASSUME NEW s \in Procs, NEW k \in Grasp(loc'[s]) \ {0} PROVE mem_map'[k] = 1
  <2>1. k \in Grasp(loc[s]) \/ k = n  BY <1>4, <1>5, <1>7
  <2>2. k \in Grasp(loc[s]) => k \in Pages /\ mem_map[k] = 1  BY <1>7, GraspPages DEF Sole
  <2> QED  BY <1>1, <1>3, <2>1, <2>2
<1> QED  BY <1>2, <1>6, <1>7, SoleKept

\* A cell with the page k is given up, and the count of k goes down; whoever is the
\* only user of another page stays that.
OthersCounted(k) == \A n \in Pages : n # k => mem_map'[n] = mem_map[n]
EntriesGiveUp(k) ==
    \A q \in Procs, b \in Addrs :
        pte'[q][b].at = "page" /\ pte'[q][b].rw =>
            \/ pte'[q][b] = pte[q][b] /\ (mem_map[k] = 1 => pte[q][b].n # k)
            \/ mem_map'[pte'[q][b].n] = 1
HoldersGiveUp(k) ==
    \A q \in Procs : \A n \in Grasp(loc'[q]) \ {0} :
        \/ n \in Grasp(loc[q]) /\ (mem_map[k] = 1 => n # k)
        \/ mem_map'[n] = 1
LEMMA SoleGivesUp ==
    ASSUME Types, Sole, NEW k, OthersCounted(k), EntriesGiveUp(k), HoldersGiveUp(k)
    PROVE  Sole'
<1>1. ASSUME NEW q \in Procs, NEW b \in Addrs, pte'[q][b].at = "page" /\ pte'[q][b].rw
      PROVE  \/ pte'[q][b] = pte[q][b] /\ mem_map'[pte[q][b].n] = mem_map[pte[q][b].n]
             \/ mem_map'[pte'[q][b].n] = 1
  <2>1. CASE pte'[q][b] = pte[q][b] /\ (mem_map[k] = 1 => pte[q][b].n # k)
    <3>1. mem_map[pte[q][b].n] = 1 /\ pte[q][b].n \in Pages  BY <1>1, <2>1, GraspPages DEF Sole
    <3> QED  BY <2>1, <3>1 DEF OthersCounted
  <2> QED  BY <1>1, <2>1 DEF EntriesGiveUp
<1>2. ASSUME NEW q \in Procs, NEW n \in Grasp(loc'[q]) \ {0}
      PROVE  \/ n \in Grasp(loc[q]) /\ mem_map'[n] = mem_map[n]
             \/ mem_map'[n] = 1
  <2>1. CASE n \in Grasp(loc[q]) /\ (mem_map[k] = 1 => n # k)
    <3>1. mem_map[n] = 1 /\ n \in Pages  BY <1>2, <2>1, GraspPages DEF Sole
    <3> QED  BY <2>1, <3>1 DEF OthersCounted
  <2> QED  BY <1>2, <2>1 DEF HoldersGiveUp
<1> QED  BY <1>1, <1>2, SoleKept

LEMMA SoleDrop ==
    ASSUME IInv, Sole, NEW p \in Procs, NEW q \in Procs, NEW a \in Addrs, Drop(p, q, a) PROVE Sole'
<1> Types /\ CountOK  BY DEF IInv
<1> DEFINE k == pte[q][a].n
<1>1. /\ pte[q][a].at = "page" /\ pte' = [pte EXCEPT ![q][a] = NoEntry]
      /\ mem_map' = [mem_map EXCEPT ![k] = @ - 1] /\ loc' = [loc EXCEPT ![p] = loc[p]]
  BY DEF Drop, Droppable, Goto, Moved
<1>2. k \in Pages /\ Held(pte[q][a]) = k  BY <1>1, GraspPages
<1>3. loc' = loc  BY <1>1 DEF Types
<1>4. OthersCounted(k)  BY <1>1 DEF Types, OthersCounted
<1>5. \A s \in Procs, b \in Addrs : pte'[s][b] = IF s = q /\ b = a THEN NoEntry ELSE pte[s][b]
  BY <1>1 DEF Types
<1> HIDE DEF k
<1>6. ASSUME NEW s \in Procs, NEW b \in Addrs, pte'[s][b].at = "page" /\ pte'[s][b].rw
      PROVE  pte'[s][b] = pte[s][b] /\ (mem_map[k] = 1 => pte[s][b].n # k)
  <2>1. pte'[s][b] = pte[s][b] /\ ~(s = q /\ b = a)  BY <1>5, <1>6 DEF NoEntry
  <2>2. Held(pte[s][b]) = pte[s][b].n  BY <1>6, <2>1, GraspPages
  <2> QED  BY <1>2, <2>1, <2>2, OneUser
<1>7. \A s \in Procs : \A n \in Grasp(loc[s]) \ {0} : mem_map[k] = 1 => n # k
  BY <1>2, OneUser
<1>8. EntriesGiveUp(k)
  BY <1>6 DEF EntriesGiveUp
<1>9. HoldersGiveUp(k)
  BY <1>3, <1>7 DEF HoldersGiveUp
<1> QED  BY <1>4, <1>8, <1>9, SoleGivesUp

LEMMA SoleSwapOut ==
    ASSUME IInv, Sole, NEW p \in Procs, NEW q \in Procs, NEW a \in Addrs, SwapOut(p, q, a)
    PROVE  Sole'
<1> Types  BY DEF IInv
<1> DEFINE k == pte[q][a].n  r == [loc[p] EXCEPT !.out = k]
<1>1. PICK nr \in spare : pte' = [pte EXCEPT ![q][a] = OnSwap(nr)]  BY DEF SwapOut
<1>2. mem_map[k] = 1 /\ mem_map' = mem_map /\ loc' = [loc EXCEPT ![p] = r]
  BY DEF SwapOut, Writable, Sleep, Moved
<1>3. Grasp(r) \subseteq Grasp(loc[p]) \cup {k}  BY GraspPages, GraspOf DEF Grasp
<1>4. \A s \in Procs, b \in Addrs : pte'[s][b] = IF s = q /\ b = a THEN OnSwap(nr) ELSE pte[s][b]
  BY <1>1 DEF Types
<1>5. \A s \in Procs : loc'[s] = IF s = p THEN r ELSE loc[s]  BY <1>2 DEF Types
<1>6. OnSwap(nr).at # "page"  BY DEF OnSwap
<1> HIDE DEF k, r
<1> QED  BY <1>2, <1>3, <1>4, <1>5, <1>6, SoleKept

LEMMA SoleSwappedOut ==
    ASSUME IInv, Sole, NEW p \in Procs, SwappedOut(p) PROVE Sole'
<1> Types /\ CountOK  BY DEF IInv
<1> DEFINE k == loc[p].out  r == [loc[p] EXCEPT !.out = 0]
<1>1. /\ mem_map' = [mem_map EXCEPT ![k] = @ - 1] /\ loc' = [loc EXCEPT ![p] = r] /\ pte' = pte
      /\ pc[p] = "swapout"
  BY DEF SwappedOut, Goto, Moved, tables, At
<1>2. k # 0  BY <1>1 DEF IInv, PlaceOK, Place, Holding
<1>3. k \in Pages /\ k \in Grasp(loc[p])  BY <1>2, GraspPages DEF Grasp
<1>4. OthersCounted(k)  BY <1>1 DEF Types, OthersCounted
<1>5. Grasp(r) = {loc[p].page, 0, loc[p].got}  BY GraspPages, GraspOf
<1>6. \A s \in Procs : loc'[s] = IF s = p THEN r ELSE loc[s]  BY <1>1 DEF Types
<1>7. ASSUME NEW s \in Procs, NEW b \in Addrs, pte[s][b].at = "page", mem_map[k] = 1
      PROVE  pte[s][b].n # k
  <2>1. Held(pte[s][b]) = pte[s][b].n  BY <1>7, GraspPages
  <2> QED  BY <1>3, <1>7, <2>1, OneUser
<1>8. ASSUME NEW s \in Procs, NEW n \in Grasp(loc'[s]) \ {0}
      PROVE  n \in Grasp(loc[s]) /\ (mem_map[k] = 1 => n # k)
  <2>1. CASE s = p
    <3>1. n \in {loc[p].page, loc[p].got}  BY <1>5, <1>6, <1>8, <2>1
    <3>2. mem_map[k] = 1 => loc[p].page # k /\ loc[p].got # k
      <4> SUFFICES ASSUME mem_map[k] = 1 PROVE loc[p].page # k /\ loc[p].got # k  OBVIOUS
      <4>1. loc[p].out = k  OBVIOUS
      <4> HIDE DEF k
      <4> QED  BY <1>3, <4>1, OneUser
    <3> QED  BY <2>1, <3>1, <3>2 DEF Grasp
  <2>2. CASE s # p
    <3>1. n \in Grasp(loc[s])  BY <1>6, <1>8, <2>2
    <3> HIDE DEF k
    <3> QED  BY <1>3, <2>2, <3>1, OneUser
  <2> QED  BY <2>1, <2>2
<1> HIDE DEF k, r
<1>9. EntriesGiveUp(k)
  BY <1>1, <1>7 DEF EntriesGiveUp
<1>10. HoldersGiveUp(k)
  BY <1>8 DEF HoldersGiveUp
<1> QED  BY <1>4, <1>9, <1>10, SoleGivesUp

\* The steps that leave all entries and counts alone.
LEMMA SoleWaits ==
    ASSUME IInv, Sole, NEW p \in Procs, NEW x,
           \/ OutOfSwap(p) \/ Complete \/ SwapIn(p) \/ Empty(p) \/ Bread(p) \/ bread_page(p)
           \/ ForkTable(p) \/ ForkRead(p) \/ ForkDone(p) \/ Exec(p, x)
    PROVE  Sole'
<1> Types  BY DEF IInv
<1>1. UNCHANGED <<mem_map, pte>>
  BY DEF OutOfSwap, Complete, SwapIn, Empty, Bread, bread_page, ForkTable, ForkRead, ForkDone,
         Exec, ReadSwap, tables
<1>2. /\ loc[p] \in Locs /\ loc[p] = [loc[p] EXCEPT !.addr = loc[p].addr]
      /\ loc = [loc EXCEPT ![p] = loc[p]]
  BY DEF Types, Locs
<1>3. \/ loc' = [loc EXCEPT ![p] = loc[p]]
      \/ loc' = [loc EXCEPT ![p] = NoLoc]
      \/ loc' = [loc EXCEPT ![p] = HoldLoc(loc[p])]
      \/ loc' = [loc EXCEPT ![p] = FirstLoc(loc[p])]
  BY <1>2 DEF OutOfSwap, Complete, SwapIn, Empty, Bread, bread_page, ForkTable, ForkRead, ForkDone,
         Exec, ReadSwap, Goto, Sleep, Moved, HoldLoc, FirstLoc
<1>4. /\ Grasp(HoldLoc(loc[p])) \subseteq Grasp(loc[p]) \cup {0}
      /\ Grasp(FirstLoc(loc[p])) \subseteq Grasp(loc[p]) \cup {0}
  BY <1>2, GraspOf DEF HoldLoc, FirstLoc, Grasp
<1>5. Grasp(NoLoc) = {0}  BY NoGrasp
<1> QED  BY <1>1, <1>3, <1>4, <1>5, SoleMoves

\* The page somebody holds goes into an entry.
LEMMA SoleFills ==
    ASSUME IInv, Sole, NEW p \in Procs, NEW a \in Addrs, UNCHANGED mem_map, NEW d \in BOOLEAN,
           NEW r, Grasp(r) = {0}, loc' = [loc EXCEPT ![p] = r], loc[p].page # 0,
           pte' = [pte EXCEPT ![p][a] = InMemory(loc[p].page, TRUE, d)]
    PROVE  Sole'
<1> Types  BY DEF IInv
<1> DEFINE e == InMemory(loc[p].page, TRUE, d)
<1>1. e.n = loc[p].page  BY DEF InMemory
<1>2. mem_map[e.n] = 1  BY <1>1 DEF Sole, Grasp
<1> HIDE DEF e
<1> QED  BY <1>2, SoleEntry DEF e

LEMMA ReturnGrasp ==
    ASSUME NEW p \in Procs, Return(p)
    PROVE  \E r : Grasp(r) = {0} /\ loc' = [loc EXCEPT ![p] = r]
<1>1. CASE loc[p].ret = "user"
  <2>1. Grasp(NoLoc) = {0} /\ loc' = [loc EXCEPT ![p] = NoLoc]
    BY <1>1, NoGrasp DEF Return, Sleep, Moved
  <2> QED  BY <2>1
<1>2. CASE loc[p].ret # "user"
  <2> DEFINE r == [NoLoc EXCEPT !.addr = loc[p].addr]
  <2>1. Grasp(r) = {0} /\ loc' = [loc EXCEPT ![p] = r]
    BY <1>2, NoGrasp DEF Return, Goto, Moved
  <2> QED  BY <2>1
<1> QED  BY <1>1, <1>2

LEMMA SolePut ==
    ASSUME IInv, Sole, NEW p \in Procs,
           \/ SwappedIn(p) \/ put_page(p) \/ PutTable(p) \/ ShareTable(p)
    PROVE  Sole'
<1> Types /\ CountOK /\ Place(p)  BY DEF IInv, PlaceOK
<1>1. loc[p].page # 0 <=> Stage(p) \in {"reading", "filling", "put", "table", "forkread"}
  BY DEF Place, Holding
<1>2. Stage(p) \in {"reading", "put", "table", "share"} => loc[p].addr \in Addrs
  BY DEF Place, Serving, Alone, Filling
<1>3. CASE /\ SwappedIn(p) \/ PutTable(p) \/ put_page(p)
           /\ \E d \in BOOLEAN : pte' = [pte EXCEPT ![p][loc[p].addr] = InMemory(loc[p].page, TRUE, d)]
           /\ Return(p) /\ mem_map' = mem_map
  <2>1. pc[p] \in {"reading", "put", "table"}  BY <1>3 DEF SwappedIn, PutTable, put_page, At
  <2>2. Stage(p) \in {"reading", "put", "table"}  BY <2>1 DEF Stage, StageOf
  <2>3. PICK r : Grasp(r) = {0} /\ loc' = [loc EXCEPT ![p] = r]  BY <1>3, ReturnGrasp
  <2> QED  BY <1>1, <1>2, <1>3, <2>2, <2>3, SoleFills
<1>4. CASE Call(p, "table", loc[p]) /\ UNCHANGED <<mem_map, data, tables, swap>>
  BY <1>4, SoleCall, GraspPages DEF tables, Grasp
<1>5. CASE ShareTable(p)
  <2>1. Stage(p) = "share"  BY <1>5 DEF ShareTable, At, Stage, StageOf
  <2>2. /\ loc[p].who \in Procs \ {p} /\ pte[loc[p].who][loc[p].addr].at = "page"
        /\ pte[loc[p].who][loc[p].addr].n = loc[p].other /\ loc[p].addr \in Addrs
    BY <2>1 DEF Place, Alone
  <2>3. PICK r : Grasp(r) = {0} /\ loc' = [loc EXCEPT ![p] = r]
    BY <1>5, ReturnGrasp DEF ShareTable
  <2>4. Shared(p, loc[p].addr, loc[p].who, loc[p].other)  BY <1>5 DEF ShareTable
  <2> QED  BY <2>2, <2>3, <2>4, SoleShared
<1>6. CASE SwappedIn(p)  BY <1>3, <1>6 DEF SwappedIn
<1>7. CASE PutTable(p)  BY <1>3, <1>7 DEF PutTable
<1>8. CASE put_page(p)  BY <1>3, <1>4, <1>8 DEF put_page
<1> QED  BY <1>5, <1>6, <1>7, <1>8

LEMMA SoleCopy ==
    ASSUME IInv, Sole, NEW p \in Procs, Copy(p) PROVE Sole'
<1> Types /\ CountOK /\ Place(p)  BY DEF IInv, PlaceOK
<1> DEFINE n == loc[p].got  k == loc[p].other  a == loc[p].addr  e == InMemory(n, TRUE, FALSE)
           r == [NoLoc EXCEPT !.addr = a]
<1>1. Stage(p) = "wp" /\ n # 0  BY DEF Copy, At, Stage, StageOf
<1>2. a \in Addrs /\ pte[p][a].at = "page" /\ pte[p][a].n = k  BY <1>1 DEF Place, Alone
<1>3. mem_map' = [mem_map EXCEPT ![k] = @ - 1] /\ pte' = [pte EXCEPT ![p][a] = e]
  BY DEF Copy
<1>4. loc' = [loc EXCEPT ![p] = r]  BY DEF Copy, Proceed, Sleep, Goto, Moved
<1>5. Grasp(r) = {0}  BY NoGrasp
<1>6. k \in Pages /\ Held(pte[p][a]) = k  BY <1>2, GraspPages
<1>7. n \in Grasp(loc[p]) /\ n \in Pages /\ mem_map[n] = 1
  BY <1>1, GraspPages DEF Grasp, Sole
<1>8. e.n = n /\ e.at = "page"  BY DEF InMemory
<1>9. OthersCounted(k)  BY <1>3 DEF Types, OthersCounted
<1>10. \A s \in Procs, b \in Addrs : pte'[s][b] = IF s = p /\ b = a THEN e ELSE pte[s][b]
  BY <1>3 DEF Types
<1>11. \A s \in Procs : loc'[s] = IF s = p THEN r ELSE loc[s]  BY <1>4 DEF Types
<1> HIDE DEF n, k, a, e, r
<1>12. n # k  BY <1>2, <1>6, <1>7, OneUser
<1>13. ASSUME NEW s \in Procs, NEW b \in Addrs, pte'[s][b].at = "page" /\ pte'[s][b].rw
       PROVE  \/ pte'[s][b] = pte[s][b] /\ (mem_map[k] = 1 => pte[s][b].n # k)
              \/ mem_map'[pte'[s][b].n] = 1
  <2>1. CASE s = p /\ b = a  BY <1>7, <1>8, <1>9, <1>10, <1>12, <2>1 DEF OthersCounted
  <2>2. CASE ~(s = p /\ b = a)
    <3>1. pte'[s][b] = pte[s][b] /\ Held(pte[s][b]) = pte[s][b].n
      BY <1>10, <1>13, <2>2, GraspPages
    <3>2. mem_map[k] = 1 /\ Held(pte[s][b]) = k => s = p /\ b = a  BY <1>2, <1>6, OneUser
    <3> QED  BY <2>2, <3>1, <3>2
  <2> QED  BY <2>1, <2>2
<1>14. ASSUME NEW s \in Procs, NEW m \in Grasp(loc'[s]) \ {0}
       PROVE  m \in Grasp(loc[s]) /\ (mem_map[k] = 1 => m # k)
  <2>1. m \in Grasp(loc[s])  BY <1>5, <1>11, <1>14
  <2>2. mem_map[k] = 1 => k \notin Grasp(loc[s])  BY <1>2, <1>6, OneUser
  <2> QED  BY <2>1, <2>2
<1>15. EntriesGiveUp(k)
  BY <1>13 DEF EntriesGiveUp
<1>16. HoldersGiveUp(k)
  BY <1>14 DEF HoldersGiveUp
<1> QED  BY <1>9, <1>15, <1>16, SoleGivesUp

----------------------------------------------------------------------------
LEMMA SoleFork ==
    ASSUME IInv, Sole, NEW p \in Procs, NEW c \in Procs, Fork(p, c) PROVE Sole'
<1> Types  BY DEF IInv
<1>1. UNCHANGED <<mem_map, pte>>  BY DEF Fork, tables
<1>2. CASE dir[p] = 0
  <2>1. loc' = loc  BY <1>2 DEF Fork
  <2> QED  BY <1>1, <2>1, SoleKept
<1>3. CASE dir[p] # 0
  <2> DEFINE r == [NoLoc EXCEPT !.who = c, !.why = "forktable"]
  <2>1. loc' = [loc EXCEPT ![p] = r]  BY <1>3 DEF Fork
  <2>2. Grasp(r) = {0}  BY NoGrasp
  <2> HIDE DEF r
  <2> QED  BY <1>1, <2>1, <2>2, SoleMoves
<1> QED  BY <1>2, <1>3

LEMMA SoleForkEntry ==
    ASSUME IInv, Sole, NEW p \in Procs, ForkEntry(p) PROVE Sole'
<1> Types /\ CountOK /\ Place(p)  BY DEF IInv, PlaceOK
<1> DEFINE a == loc[p].addr  r == [loc[p] EXCEPT !.addr = a + 1]
           ro == [pte[p][a] EXCEPT !.rw = FALSE]
<1>0. loc[p] \in Locs /\ Grasp(r) = Grasp(loc[p])  BY GraspPages, GraspOf
<1>1. PICK c : c = loc[p].who  OBVIOUS
<1>2. a \in Addrs /\ c \in Procs /\ pc[c] = "making"
  <2>1. Stage(p) = "loop"  BY DEF ForkEntry, At, Stage, StageOf
  <2>2. a > 0 /\ c \in Procs /\ pc[c] = "making"  BY <1>1, <2>1 DEF Place, Making, Forking
  <2>3. a \in 0..NAddrs + 1 /\ a <= NAddrs  BY <1>0 DEF Locs, ForkEntry
  <2> QED  BY <2>2, <2>3 DEF Addrs
<1>3. CASE /\ Goto(p, "loop", r) /\ UNCHANGED <<mem_map, data, tables, swap>>
  <2>1. loc' = [loc EXCEPT ![p] = r] /\ UNCHANGED <<mem_map, pte>>
    BY <1>3 DEF Goto, Moved, tables
  <2> HIDE DEF r
  <2> QED  BY <1>0, <2>1, SoleMoves
<1>4. CASE /\ pte[p][a].at = "page"
           /\ pte' = [pte EXCEPT ![p][a] = ro, ![c][a] = ro]
           /\ mem_map' = [mem_map EXCEPT ![pte[p][a].n] = @ + 1]
           /\ Goto(p, "loop", r)
  <2> DEFINE k == pte[p][a].n
  <2>1. k \in Pages /\ Held(pte[p][a]) = k /\ pte[p][a] \in Entries  BY <1>2, <1>4, GraspPages
  <2>2. ro.rw = FALSE  BY <2>1 DEF Entries, NoEntry, OnSwap, InMemory
  <2>3. \A s \in Procs, b \in Addrs :
           pte'[s][b] = IF s \in {p, c} /\ b = a THEN ro ELSE pte[s][b]
    BY <1>2, <1>4 DEF Types
  <2>4. OthersCounted(k)  BY <1>4 DEF Types, OthersCounted
  <2>5. \A s \in Procs : loc'[s] = IF s = p THEN r ELSE loc[s]
    BY <1>4 DEF Goto, Moved, Types
  <2> HIDE DEF k, r, ro
  <2>6. ASSUME NEW s \in Procs, NEW b \in Addrs, pte'[s][b].at = "page" /\ pte'[s][b].rw
        PROVE  pte'[s][b] = pte[s][b] /\ (mem_map[k] = 1 => pte[s][b].n # k)
    <3>1. pte'[s][b] = pte[s][b] /\ ~(s \in {p, c} /\ b = a)  BY <2>2, <2>3, <2>6
    <3>2. Held(pte[s][b]) = pte[s][b].n  BY <2>6, <3>1, GraspPages
    <3>3. mem_map[k] = 1 /\ Held(pte[s][b]) = k => s = p /\ b = a  BY <1>2, <2>1, OneUser
    <3> QED  BY <3>1, <3>2, <3>3
  <2>7. ASSUME NEW s \in Procs, NEW m \in Grasp(loc'[s]) \ {0}
        PROVE  m \in Grasp(loc[s]) /\ (mem_map[k] = 1 => m # k)
    <3>1. m \in Grasp(loc[s])  BY <1>0, <2>5, <2>7
    <3>2. mem_map[k] = 1 => k \notin Grasp(loc[s])  BY <1>2, <2>1, OneUser
    <3> QED  BY <3>1, <3>2
  <2>8. EntriesGiveUp(k)
    BY <2>6 DEF EntriesGiveUp
  <2>9. HoldersGiveUp(k)
    BY <2>7 DEF HoldersGiveUp
  <2> QED  BY <2>4, <2>8, <2>9, SoleGivesUp
<1>5. CASE Call(p, "forkpage", loc[p]) /\ UNCHANGED <<mem_map, data, tables, swap>>
  BY <1>0, <1>5, SoleCall DEF tables, Grasp
<1> QED  BY <1>1, <1>3, <1>4, <1>5 DEF ForkEntry

LEMMA SoleForkSwapped ==
    ASSUME IInv, Sole, NEW p \in Procs, ForkSwapped(p) PROVE Sole'
<1> Types /\ Place(p)  BY DEF IInv, PlaceOK
<1> DEFINE a == loc[p].addr  n == loc[p].page  e == InMemory(n, TRUE, TRUE)
           r == [loc[p] EXCEPT !.page = 0, !.addr = a + 1]
<1>1. PICK c : c = loc[p].who  OBVIOUS
<1>2. Stage(p) = "forkread"  BY DEF ForkSwapped, At, Stage, StageOf
<1>3. a \in Addrs /\ pte[p][a].at = "swap" /\ n # 0 /\ c \in Procs
  BY <1>1, <1>2 DEF Place, Serving, Making, Holding, Forking
<1>4. /\ pte' = [pte EXCEPT ![c][a] = pte[p][a], ![p][a] = e] /\ mem_map' = mem_map
      /\ loc' = [loc EXCEPT ![p] = r]
  BY <1>1 DEF ForkSwapped, Goto, Moved
<1>5. \A s \in Procs, b \in Addrs :
         pte'[s][b] = IF s = p /\ b = a THEN e ELSE IF s = c /\ b = a THEN pte[p][a] ELSE pte[s][b]
  BY <1>3, <1>4 DEF Types
<1>6. e.n = n  BY DEF InMemory
<1>7. mem_map[n] = 1  BY <1>3 DEF Sole, Grasp
<1>8. Grasp(r) \subseteq Grasp(loc[p]) \cup {0}  BY GraspPages, GraspOf DEF Grasp
<1>9. \A s \in Procs : loc'[s] = IF s = p THEN r ELSE loc[s]  BY <1>4 DEF Types
<1>10. pte[p][a].at # "page"  BY <1>3
<1> HIDE DEF n, r, e
<1>11. ASSUME NEW s \in Procs, NEW b \in Addrs, pte'[s][b].at = "page" /\ pte'[s][b].rw
       PROVE  pte'[s][b] = pte[s][b] \/ mem_map[pte'[s][b].n] = 1
  BY <1>5, <1>6, <1>7, <1>10, <1>11
<1>12. ASSUME NEW s \in Procs, NEW m \in Grasp(loc'[s]) \ {0} PROVE m \in Grasp(loc[s])
  BY <1>8, <1>9, <1>12
<1> QED  BY <1>4, <1>11, <1>12, SoleKept

\* What is freed was used by c alone, or has other users that may not write.
LEMMA SoleFreed ==
    ASSUME Types, CountOK, Sole, NEW p \in Procs, NEW c \in Procs, NEW held \in {0, loc[p].page},
           free_page_tables(c, held), loc' = [loc EXCEPT ![p] = NoLoc]
    PROVE  Sole'
<1>1. \A s \in Procs : loc'[s] = IF s = p THEN NoLoc ELSE loc[s]  BY DEF Types
<1>2. \A s \in Procs, b \in Addrs : pte'[s][b] = IF s = c THEN NoEntry ELSE pte[s][b]
  BY DEF free_page_tables, Types
<1>3. ASSUME NEW n \in Pages, mem_map[n] = 1, \A b \in Addrs : Held(pte[c][b]) # n,
             dir[c] # n, held # n
      PROVE  mem_map'[n] = 1
  <2>1. EntriesTo(c, n) = {}
    <3>1. ASSUME NEW b \in EntriesTo(c, n) PROVE FALSE  BY <1>3, <3>1 DEF EntriesTo, Held
    <3> QED  BY <3>1
  <2>2. Cardinality(EntriesTo(c, n)) = 0  BY <2>1, FS_EmptySet
  <2>3. mem_map'[n] = mem_map[n] - Cardinality(EntriesTo(c, n))
                     - (IF dir[c] = n THEN 1 ELSE 0) - (IF held = n THEN 1 ELSE 0)
    BY DEF free_page_tables
  <2> QED  BY <1>3, <2>2, <2>3
<1>4. ASSUME NEW s \in Procs, NEW b \in Addrs, pte'[s][b].at = "page" /\ pte'[s][b].rw
      PROVE  mem_map'[pte'[s][b].n] = 1
  <2>1. s # c /\ pte'[s][b] = pte[s][b]  BY <1>2, <1>4 DEF NoEntry
  <2> DEFINE n == pte[s][b].n
  <2>2. n \in Pages /\ Held(pte[s][b]) = n /\ mem_map[n] = 1
    BY <1>4, <2>1, GraspPages DEF Sole
  <2> HIDE DEF n
  <2>3. \A d \in Addrs : Held(pte[c][d]) # n  BY <2>1, <2>2, OneUser
  <2>4. dir[c] # n /\ n \notin Grasp(loc[p]) /\ n # 0  BY <2>2, OneUser DEF Pages
  <2>5. held # n  BY <2>4 DEF Grasp
  <2>6. mem_map'[n] = 1  BY <1>3, <2>2, <2>3, <2>4, <2>5
  <2> QED  BY <2>1, <2>6 DEF n
<1>5. ASSUME NEW s \in Procs, NEW n \in Grasp(loc'[s]) \ {0} PROVE mem_map'[n] = 1
  <2>1. s # p /\ n \in Grasp(loc[s])  BY <1>1, <1>5, NoGrasp
  <2>2. n \in Pages /\ mem_map[n] = 1  BY <1>5, <2>1, GraspPages DEF Sole
  <2>3. \A d \in Addrs : Held(pte[c][d]) # n  BY <2>1, <2>2, OneUser
  <2>4. dir[c] # n /\ n \notin Grasp(loc[p])  BY <2>1, <2>2, OneUser
  <2>5. held # n  BY <1>5, <2>4 DEF Grasp
  <2> QED  BY <1>3, <2>2, <2>3, <2>4, <2>5
<1>6. \A s \in Procs, b \in Addrs :
         pte'[s][b].at = "page" /\ pte'[s][b].rw => mem_map'[pte'[s][b].n] = 1
  BY <1>4
<1>7. \A s \in Procs : \A n \in Grasp(loc'[s]) \ {0} : mem_map'[n] = 1  BY <1>5
<1> QED  BY <1>6, <1>7, SoleKept

LEMMA SoleLeaves ==
    ASSUME IInv, Sole, NEW p \in Procs, NEW l,
           NewSpace(p) \/ Exit(p) \/ OutOfMemory(p, l) \/ ForkFailed(p)
    PROVE  Sole'
<1> Types /\ CountOK /\ Place(p)  BY DEF IInv, PlaceOK
<1>1. CASE NewSpace(p)
  <2>1. free_page_tables(p, 0) /\ loc' = [loc EXCEPT ![p] = NoLoc]
    BY <1>1 DEF NewSpace, Sleep, Moved
  <2> QED  BY <2>1, SoleFreed
<1>2. CASE do_exit(p)
  <2>1. free_page_tables(p, loc[p].page) /\ loc' = [loc EXCEPT ![p] = NoLoc]
    BY <1>2 DEF do_exit, Moved
  <2> QED  BY <2>1, SoleFreed
<1>3. CASE ForkFailed(p)
  <2>1. free_page_tables(loc[p].who, 0) /\ loc' = [loc EXCEPT ![p] = NoLoc]
    BY <1>3 DEF ForkFailed
  <2>2. Stage(p) \in Forking  BY <1>3 DEF ForkFailed, At, Stage, StageOf, Forking
  <2>3. loc[p].who \in Procs  BY <2>2 DEF Place, Making
  <2> QED  BY <2>1, <2>3, SoleFreed
<1> QED  BY <1>1, <1>2, <1>3 DEF Exit, OutOfMemory

LEMMA NextSole ==
    ASSUME IInv, Sole, [Next]_vars PROVE Sole'
<1>1. CASE UNCHANGED vars
  BY <1>1, SoleKept DEF vars, tables
<1>2. ASSUME Complete PROVE Sole'
  <2>1. UNCHANGED <<mem_map, pte, loc>>  BY <1>2 DEF Complete, tables
  <2> QED  BY <2>1, SoleKept
<1>3. ASSUME NEW p \in Procs, NEW a \in Addrs,
             do_wp_page(p, a) \/ Fault(p, a) \/ write_verify(p, a) \/ \E v \in Vals : Write(p, a, v)
      PROVE  Sole'
  BY <1>3, SoleUser
<1>4. ASSUME NEW p \in Procs, NEW q \in Procs, NEW a \in Addrs, Drop(p, q, a) \/ SwapOut(p, q, a)
      PROVE  Sole'
  BY <1>4, SoleDrop, SoleSwapOut
<1>5. ASSUME NEW p \in Procs, NEW v \in Vals, Restart(p, v) \/ KernelWrite(p, v) PROVE Sole'
  <2>1. 1 \in Addrs  BY SizesAssumption DEF Addrs
  <2> QED  BY <1>5, <2>1, SoleUser
<1>6. ASSUME NEW p \in Procs, GetFreePage(p) \/ SwappedOut(p) \/ OutOfSwap(p) PROVE Sole'
  BY <1>6, SoleGetFreePage, SoleSwappedOut, SoleWaits
<1>7. ASSUME NEW p \in Procs, NEW l, OutOfMemory(p, l) PROVE Sole'  BY <1>7, SoleLeaves
<1>8. ASSUME NEW p \in Procs, Copy(p) \/ ShareTable(p) \/ SwapIn(p) \/ SwappedIn(p) PROVE Sole'
  BY <1>8, SoleCopy, SolePut, SoleWaits
<1>9. ASSUME NEW p \in Procs, Empty(p) \/ Bread(p) \/ bread_page(p) \/ put_page(p) \/ PutTable(p)
      PROVE  Sole'
  BY <1>9, SoleWaits, SolePut
<1>10. ASSUME NEW p \in Procs, NEW c \in Procs, Fork(p, c) PROVE Sole'  BY <1>10, SoleFork
<1>11. ASSUME NEW p \in Procs, ForkTable(p) \/ ForkEntry(p) \/ ForkRead(p) \/ ForkSwapped(p)
       PROVE  Sole'
  BY <1>11, SoleWaits, SoleForkEntry, SoleForkSwapped
<1>12. ASSUME NEW p \in Procs, ForkDone(p) \/ ForkFailed(p) PROVE Sole'
  BY <1>12, SoleWaits, SoleLeaves
<1>13. ASSUME NEW p \in Procs, NEW x, Exec(p, x) PROVE Sole'  BY <1>13, SoleWaits
<1>14. ASSUME NEW p \in Procs, NewSpace(p) \/ Exit(p) PROVE Sole'  BY <1>14, SoleLeaves
<1> QED
  BY <1>1, <1>2, <1>3, <1>4, <1>5, <1>6, <1>7, <1>8, <1>9, <1>10, <1>11, <1>12, <1>13, <1>14
     DEF Next

LEMMA SoleAlone ==
    ASSUME IInv, Sole PROVE WriterAlone
<1> Types /\ CountOK  BY DEF IInv
<1> SUFFICES ASSUME NEW p \in Procs, NEW a \in Addrs, pte[p][a].at = "page", pte[p][a].rw
             PROVE  Users(pte[p][a].n) = 1
  BY DEF WriterAlone
<1> DEFINE n == pte[p][a].n  f == Refs
<1>1. n \in Pages /\ Held(pte[p][a]) = n /\ mem_map[n] = 1  BY GraspPages DEF Sole
<1>2. f[<<p, a>>] = n /\ <<p, a>> \in D  BY <1>1, RefsAre, Cells, Zenon
<1>3. Count(f, n) \in Nat /\ mem_map[n] - Count(f, n) \in {0, 100}
  BY <1>1, CountType DEF CountOK, USED
<1> HIDE DEF n, f
<1>4. Count(f, n) # 0  BY <1>2, CountZero
<1>5. Count(f, n) = 1  BY <1>1, <1>3, <1>4
<1> QED  BY <1>5, UsersCounted DEF n, f

LEMMA InitSole ==
    ASSUME Init PROVE Sole
<1>1. \A p \in Procs : loc[p] = NoLoc /\ \A a \in Addrs : pte[p][a] = NoEntry
  BY DEF Init
<1>2. NoEntry.at # "page"  BY DEF NoEntry
<1> QED  BY <1>1, <1>2, NoGrasp DEF Sole

\* A page with a writable entry has no other user: do_wp_page() lets nobody write
\* to a page that has (memory.c:370), and fork, sharing and swapping take the right
\* away or wait for it to be gone, for any number of processes, pages and addresses
\* and however a call of the system is interrupted by the disk, as long as
\* get_free_page() does not sleep in un_wp_page() and try_to_share().
THEOREM WritersAlone == Safe /\ Spec => []WriterAlone
<1>1. ASSUME Safe, Init PROVE IInv /\ Sole  BY <1>1, InitIInv, InitSole
<1>2. (IInv /\ Sole) /\ [Next]_vars => (IInv /\ Sole)'  BY NextIInv, NextSole
<1>3. IInv /\ Sole => WriterAlone  BY SoleAlone
<1>4. Safe /\ Init => IInv /\ Sole  BY <1>1
<1> QED  BY <1>2, <1>3, <1>4, PTL DEF Spec

----------------------------------------------------------------------------
(* What a process reads                                                    *)

\* What an entry of q stands for, whether or not there is a process to read it.
ValueOf(x, e, a) ==
    IF e.at = "none" THEN Initially(x, a)
    ELSE IF e.at = "page" THEN data[e.n] ELSE OnDevice(e.n)
Value(q, a) == ValueOf(exe[q], pte[q][a], a)

\* get_free_page() does not sleep in un_wp_page() and try_to_share(), and swap_out()
\* does not come between a copy and the store it was made for.  The other races may
\* happen: a call of the system may sleep before it writes, write to a shared page,
\* and exec() may sleep.
Quiet == {"wp", "share", "early"} \cap Risks = {}

LEMMA OwnedAddrs == Owned \subseteq Addrs
  BY DEF Owned

LEMMA OwnedZero ==
    ASSUME Risks # {}, NEW a \in Owned
    PROVE  a > NFile /\ ~(a <= NFile) /\ \A x : Initially(x, a) = "zero"
<1>1. a \in Int /\ a > NFile /\ NFile \in Int
  BY SizesAssumption DEF Owned, Addrs
<1> QED  BY <1>1 DEF Initially

USE OwnedAddrs

\* One page is in the tables of several processes only at the same address.
Apart ==
    \A p, q \in Procs : \A a, b \in Addrs :
        Held(pte[p][a]) # 0 /\ Held(pte[q][b]) = Held(pte[p][a]) => a = b

\* A request is that of the process that waits for it, with the page it holds; the
\* disk writes what is read before it reads.
Asked(i) ==
    LET r == queue[i]  q == r.by IN
    /\ r.cmd = "write" => pc[q] = "swapout" /\ loc[q].out = r.page
    /\ r.cmd = "read" =>
          /\ pc[q] \in {"reading", "forkread"} /\ loc[q].page = r.page
          /\ r.nr = pte[q][loc[q].addr].n
          /\ \A j \in DOMAIN queue : j > i /\ queue[j].cmd = "write" => queue[j].nr # r.nr
Unwritten(s) == \E i \in DOMAIN queue : queue[i].cmd = "write" /\ queue[i].nr = s
Arrived(q) ==
    pc[q] \in {"reading", "forkread"} /\ ~Waiting(q) =>
        LET s == pte[q][loc[q].addr].n IN
        data[loc[q].page] = swapped[s] /\ ~Unwritten(s)
QueueOK ==
    /\ \A i \in DOMAIN queue : Asked(i)
    /\ \A i, j \in DOMAIN queue : queue[i].by = queue[j].by => i = j
    /\ \A q \in Procs : Arrived(q)

\* A clean page holds what is in the executable, unless it is about to be written or
\* belongs to the program that exec() replaces.
Changing(q, a) ==
    /\ cpu = q
    /\ \/ pc[q] = "exec"
       \/ pc[q] \in {"store", "verified"} /\ a = loc[q].addr /\ pte[q][a].rw
Clean(q) ==
    \A a \in Owned :
        Droppable(pte[q][a]) /\ ~Changing(q, a) => data[pte[q][a].n] = Initially(exe[q], a)

\* From un_wp_page(), verify_area() or the executable on nobody comes in between.
Steady(q) ==
    LET a == loc[q].addr IN
    /\ pc[q] = "store" \/ (pc[q] \in {"exec", "verified"} /\ Risks = {}) => cpu = q
    /\ pc[q] = "verified" /\ a \in Owned =>
          /\ pte[q][a].at = "page" => pte[q][a].rw
          /\ pte[q][a].at = "none" /\ a <= NFile => Sharers(q, a) = {}
    /\ Stage(q) = "share" =>
          /\ a <= NFile /\ loc[q].who \in Sharers(q, a)
          /\ loc[q].ret = "user" \/ a \notin Owned

\* The page that is filled for an entry holds what the entry stands for.
Full(q) ==
    LET s == Stage(q)  a == loc[q].addr IN
    /\ s = "empty" => a > NFile
    /\ s \in {"bread", "filling"} => a <= NFile
    /\ pc[q] = "empty" /\ loc[q].got # 0 => data[loc[q].got] = "zero"
    /\ s \in {"put", "table"} => data[loc[q].page] = Initially(exe[q], a)

\* Without a page table there is no page.
TableOf(q) == dir[q] = 0 => \A a \in Addrs : pte[q][a].at = "none"

\* The child has what its parent has, as far as the loop has come.
Child(q) ==
    LET s == Stage(q)  c == loc[q].who IN
    /\ s \in Forking => exe[c] = exe[q] 
    /\ s \in Forking \ {"forktable"} =>
          dir[c] # 0 /\ \A a \in Owned : a < loc[q].addr => Value(c, a) = Value(q, a)

Hand(q) == Clean(q) /\ Steady(q) /\ Full(q) /\ TableOf(q) /\ Child(q)
ValuesOK == QueueOK /\ \A q \in Procs : Hand(q)

VInv == IInv /\ Sole /\ Quiet /\ Apart /\ ValuesOK

----------------------------------------------------------------------------
(* The requests of the swap device                                         *)

LEMMA GreatestIn ==
    ASSUME NEW n \in Nat, NEW S, S \subseteq 1..n, S # {}
    PROVE  \E i \in S : \A j \in S : j <= i
<1> DEFINE T == {k \in 0..n : n - k \in S}
           R == {x \in Nat \X Nat : x[1] < x[2]}
<1>1. T \subseteq Nat
  OBVIOUS
<1>2. T # {}
  <2>1. PICK i \in S : TRUE
    OBVIOUS
  <2>2. n - i \in 0..n /\ n - (n - i) = i
    BY <2>1
  <2> QED  BY <2>1, <2>2
<1>3. IsWellFoundedOn(R, Nat)
  BY NatLessThanWellFounded DEF OpToRel
<1> HIDE DEF T, R
<1>4. PICK k \in T : \A m \in T : <<m, k>> \notin R
  BY <1>1, <1>2, <1>3, WFMin
<1>5. ASSUME NEW m \in T PROVE k <= m
  <2>1. <<m, k>> \in Nat \X Nat /\ <<m, k>> \notin R
    BY <1>1, <1>4
  <2>2. ~(m < k)
    BY <2>1 DEF R
  <2> QED  BY <1>1, <2>2
<1>6. n - k \in S /\ k \in 0..n
  BY <1>4 DEF T
<1>7. ASSUME NEW j \in S PROVE j <= n - k
  <2>1. j \in 1..n
    OBVIOUS
  <2>2. n - j \in T
    BY <2>1 DEF T
  <2> QED  BY <1>5, <1>6, <2>1, <2>2
<1> QED  BY <1>6, <1>7

\* What has been written to s last, or will be.
Writes(que, s) == {i \in DOMAIN que : que[i].cmd = "write" /\ que[i].nr = s}
Last(que, s, i) == i \in Writes(que, s) /\ \A j \in Writes(que, s) : j <= i
Device(que, dat, swp, s) ==
    IF Writes(que, s) = {} THEN swp[s] ELSE dat[que[CHOOSE i \in Writes(que, s) : \A j \in Writes(que, s) : j <= i].page]

LEMMA DeviceIs ==
    /\ \A s : OnDevice(s) = Device(queue, data, swapped, s)
    /\ \A s : OnDevice(s)' = Device(queue', data', swapped', s)
    /\ \A s : Unwritten(s) <=> Writes(queue, s) # {}
    /\ \A s : Unwritten(s)' <=> Writes(queue', s) # {}
<1>1. \A s : OnDevice(s) = Device(queue, data, swapped, s)
  BY DEF OnDevice, Device, Writes
<1>2. \A s : OnDevice(s)' = Device(queue', data', swapped', s)
  BY DEF OnDevice, Device, Writes
<1>3. \A s : Unwritten(s) <=> Writes(queue, s) # {}
  BY DEF Unwritten, Writes
<1>4. \A s : Unwritten(s)' <=> Writes(queue', s) # {}
  BY DEF Unwritten, Writes
<1> QED  BY <1>1, <1>2, <1>3, <1>4

LEMMA LastThere ==
    ASSUME NEW que \in Seq(Requests), NEW s
    PROVE  Writes(que, s) # {} => \E i \in DOMAIN que : Last(que, s, i)
<1>1. Writes(que, s) \subseteq 1..Len(que) /\ Len(que) \in Nat
  BY LenProperties DEF Writes
<1> QED  BY <1>1, GreatestIn DEF Last, Writes

LEMMA DeviceLast ==
    ASSUME NEW que \in Seq(Requests), NEW s, NEW i, Last(que, s, i), NEW dat, NEW swp
    PROVE  Device(que, dat, swp, s) = dat[que[i].page]
<1>1. Writes(que, s) \subseteq 1..Len(que) /\ Len(que) \in Nat
  BY LenProperties DEF Writes
<1>2. \A k : Last(que, s, k) => k = i
  BY <1>1 DEF Last
<1>3. i \in Writes(que, s) /\ \A j \in Writes(que, s) : j <= i
  BY DEF Last
<1>4. \A k \in Writes(que, s) : (\A j \in Writes(que, s) : j <= k) => k = i
  BY <1>2 DEF Last
<1> DEFINE W == Writes(que, s)
<1> HIDE DEF W
<1>5. (CHOOSE k \in W : \A j \in W : j <= k) = i
  BY <1>3, <1>4 DEF W
<1> QED  BY <1>3, <1>5 DEF Device, W

LEMMA DeviceLastWillBe ==
    ASSUME queue' \in Seq(Requests), NEW s, NEW i, Last(queue', s, i)
    PROVE  Device(queue', data', swapped', s) = data'[queue'[i].page]
BY DeviceLast

LEMMA DeviceSame ==
    ASSUME Types, queue' = queue, swapped' = swapped,
           \A i \in DOMAIN queue : queue[i].cmd = "write" => data'[queue[i].page] = data[queue[i].page]
    PROVE  \A s : OnDevice(s)' = OnDevice(s) /\ (Unwritten(s)' <=> Unwritten(s))
<1> SUFFICES ASSUME NEW s
             PROVE  OnDevice(s)' = OnDevice(s) /\ (Unwritten(s)' <=> Unwritten(s))
  OBVIOUS
<1> queue \in Seq(Requests)
  BY DEF Types
<1>1. CASE Writes(queue, s) = {}
  BY <1>1, DeviceIs DEF Device
<1>2. CASE Writes(queue, s) # {}
  <2>1. PICK i \in DOMAIN queue : Last(queue, s, i)
    BY <1>2, LastThere
  <2>2. OnDevice(s) = data[queue[i].page] /\ OnDevice(s)' = data'[queue[i].page]
    BY <2>1, DeviceIs, DeviceLast
  <2> QED  BY <2>1, <2>2, DeviceIs DEF Last, Writes
<1> QED  BY <1>1, <1>2

LEMMA Appended ==
    ASSUME NEW que \in Seq(Requests), NEW r \in Requests
    PROVE  /\ Append(que, r) \in Seq(Requests)
           /\ DOMAIN que = 1..Len(que) /\ Len(que) \in Nat
           /\ DOMAIN Append(que, r) = 1..(Len(que) + 1)
           /\ \A i \in DOMAIN que : Append(que, r)[i] = que[i]
           /\ Append(que, r)[Len(que) + 1] = r
  BY AppendProperties, LenProperties

LEMMA DeviceRead ==
    ASSUME Types, NEW r \in Requests, r.cmd = "read", queue' = Append(queue, r),
           swapped' = swapped, data' = data
    PROVE  \A s : OnDevice(s)' = OnDevice(s) /\ (Unwritten(s)' <=> Unwritten(s))
<1> SUFFICES ASSUME NEW s
             PROVE  OnDevice(s)' = OnDevice(s) /\ (Unwritten(s)' <=> Unwritten(s))
  OBVIOUS
<1>0. queue \in Seq(Requests) /\ queue' \in Seq(Requests)
  BY Appended DEF Types
<1>1. Writes(queue', s) = Writes(queue, s)
  BY <1>0, Appended DEF Writes
<1>2. CASE Writes(queue, s) = {}
  BY <1>1, <1>2, DeviceIs DEF Device
<1>3. CASE Writes(queue, s) # {}
  <2>1. PICK i \in DOMAIN queue : Last(queue, s, i)
    BY <1>0, <1>3, LastThere
  <2>2. Last(queue', s, i) /\ queue'[i] = queue[i]
    BY <1>0, <1>1, <2>1, Appended DEF Last
  <2>3. Device(queue, data, swapped, s) = data[queue[i].page]
    BY <1>0, <2>1, DeviceLast
  <2>4. Device(queue', data', swapped', s) = data'[queue'[i].page]
    BY <1>0, <2>2, DeviceLastWillBe
  <2> QED  BY <1>1, <2>2, <2>3, <2>4, DeviceIs
<1> QED  BY <1>2, <1>3

LEMMA DeviceWrite ==
    ASSUME Types, NEW r \in Requests, r.cmd = "write", queue' = Append(queue, r),
           swapped' = swapped, data' = data
    PROVE  /\ OnDevice(r.nr)' = data[r.page]
           /\ \A s : s # r.nr => OnDevice(s)' = OnDevice(s) /\ (Unwritten(s)' <=> Unwritten(s))
<1>0. queue \in Seq(Requests) /\ queue' \in Seq(Requests)
  BY Appended DEF Types
<1> DEFINE n == Len(queue) + 1
<1>1. /\ DOMAIN queue = 1..Len(queue) /\ Len(queue) \in Nat
      /\ DOMAIN queue' = 1..n /\ queue'[n] = r
      /\ \A i \in DOMAIN queue : queue'[i] = queue[i]
  BY <1>0, Appended
<1>2. Last(queue', r.nr, n)
  BY <1>1 DEF Last, Writes
<1>3. OnDevice(r.nr)' = data[r.page]
  <2>1. Device(queue', data', swapped', r.nr) = data'[queue'[n].page]
    BY <1>0, <1>2, DeviceLastWillBe
  <2> QED  BY <1>1, <2>1, DeviceIs
<1>4. ASSUME NEW s, s # r.nr
      PROVE  OnDevice(s)' = OnDevice(s) /\ (Unwritten(s)' <=> Unwritten(s))
  <2>1. Writes(queue', s) = Writes(queue, s)
    BY <1>1, <1>4 DEF Writes
  <2>2. CASE Writes(queue, s) = {}
    BY <2>1, <2>2, DeviceIs DEF Device
  <2>3. CASE Writes(queue, s) # {}
    <3>1. PICK i \in DOMAIN queue : Last(queue, s, i)
      BY <1>0, <2>3, LastThere
    <3>2. Last(queue', s, i) /\ queue'[i] = queue[i]
      BY <1>1, <2>1, <3>1 DEF Last
    <3>3. Device(queue, data, swapped, s) = data[queue[i].page]
      BY <1>0, <3>1, DeviceLast
    <3>4. Device(queue', data', swapped', s) = data'[queue'[i].page]
      BY <1>0, <3>2, DeviceLastWillBe
    <3> QED  BY <2>1, <3>2, <3>3, <3>4, DeviceIs
  <2> QED  BY <2>2, <2>3
<1> QED  BY <1>3, <1>4

LEMMA Tailed ==
    ASSUME NEW que \in Seq(Requests), que # <<>>
    PROVE  /\ Tail(que) \in Seq(Requests) /\ Head(que) = que[1] /\ que[1] \in Requests
           /\ DOMAIN que = 1..Len(que) /\ Len(que) \in Nat \ {0}
           /\ DOMAIN Tail(que) = 1..(Len(que) - 1)
           /\ \A i \in DOMAIN Tail(que) : i + 1 \in DOMAIN que /\ Tail(que)[i] = que[i + 1]
           /\ \A i \in DOMAIN que : i # 1 => i - 1 \in DOMAIN Tail(que) /\ Tail(que)[i - 1] = que[i]
<1>1. /\ Tail(que) \in Seq(Requests) /\ Len(Tail(que)) = Len(que) - 1
      /\ \A i \in 1..Len(Tail(que)) : Tail(que)[i] = que[i + 1]
      /\ Head(que) = que[1]
  BY HeadTailProperties
<1>2. Len(que) \in Nat /\ Len(que) # 0 /\ DOMAIN que = 1..Len(que)
  BY LenProperties, EmptySeq
<1>3. DOMAIN Tail(que) = 1..(Len(que) - 1)
  BY <1>1, LenProperties
<1>4. que[1] \in Requests
  BY <1>2, ElementOfSeq
<1>5. \A i \in DOMAIN Tail(que) : i + 1 \in DOMAIN que /\ Tail(que)[i] = que[i + 1]
  BY <1>1, <1>2, <1>3
<1>6. ASSUME NEW i \in DOMAIN que, i # 1
      PROVE  i - 1 \in DOMAIN Tail(que) /\ Tail(que)[i - 1] = que[i]
  <2>1. i \in Int /\ i - 1 \in 1..(Len(que) - 1) /\ (i - 1) + 1 = i
    BY <1>2, <1>6
  <2> QED  BY <1>3, <1>5, <2>1
<1> QED  BY <1>1, <1>2, <1>3, <1>4, <1>5, <1>6

\* The first request is done.
LEMMA DeviceDone ==
    ASSUME Types, queue # <<>>, queue' = Tail(queue),
           \A i \in DOMAIN queue : i # 1 /\ queue[i].cmd = "write" =>
               data'[queue[i].page] = data[queue[i].page],
           queue[1].cmd = "write" => swapped'[queue[1].nr] = data[queue[1].page],
           \A s \in SwapNrs : (queue[1].cmd = "write" /\ s = queue[1].nr) \/ swapped'[s] = swapped[s]
    PROVE  \A s \in SwapNrs : OnDevice(s)' = OnDevice(s) /\ (Unwritten(s)' => Unwritten(s))
<1> SUFFICES ASSUME NEW s \in SwapNrs PROVE OnDevice(s)' = OnDevice(s) /\ (Unwritten(s)' => Unwritten(s))
  OBVIOUS
<1>0. queue \in Seq(Requests) /\ queue' \in Seq(Requests)
  BY Tailed DEF Types
<1>1. /\ DOMAIN queue = 1..Len(queue) /\ Len(queue) \in Nat \ {0}
      /\ DOMAIN queue' = 1..(Len(queue) - 1)
      /\ \A i \in DOMAIN queue' : i + 1 \in DOMAIN queue /\ queue'[i] = queue[i + 1]
      /\ \A i \in DOMAIN queue : i # 1 => i - 1 \in DOMAIN queue' /\ queue'[i - 1] = queue[i]
  BY <1>0, Tailed
<1>2. CASE Writes(queue', s) # {}
  <2>1. PICK j \in DOMAIN queue' : Last(queue', s, j)
    BY <1>0, <1>2, LastThere
  <2>2. j + 1 \in DOMAIN queue /\ queue'[j] = queue[j + 1] /\ j \in Int /\ j + 1 # 1
    BY <1>1, <2>1
  <2>3. Last(queue, s, j + 1)
    <3>1. j + 1 \in Writes(queue, s)
      BY <2>1, <2>2 DEF Last, Writes
    <3>2. ASSUME NEW k \in Writes(queue, s) PROVE k <= j + 1
      <4>1. CASE k = 1
        BY <1>1, <2>1, <4>1
      <4>2. CASE k # 1
        <5>1. k - 1 \in Writes(queue', s) /\ k \in Int
          BY <1>1, <4>2 DEF Writes
        <5>2. k - 1 <= j
          BY <2>1, <5>1 DEF Last
        <5> QED  BY <2>2, <5>1, <5>2
      <4> QED  BY <4>1, <4>2
    <3> QED  BY <3>1, <3>2 DEF Last
  <2>4. Device(queue, data, swapped, s) = data[queue[j + 1].page]
    BY <1>0, <2>3, DeviceLast
  <2>5. Device(queue', data', swapped', s) = data'[queue'[j].page]
    BY <1>0, <2>1, DeviceLastWillBe
  <2>6. data'[queue[j + 1].page] = data[queue[j + 1].page]
    BY <2>2, <2>3 DEF Last, Writes
  <2> QED  BY <2>2, <2>3, <2>4, <2>5, <2>6, DeviceIs DEF Last
<1>3. CASE Writes(queue', s) = {}
  <2>1. Device(queue', data', swapped', s) = swapped'[s]
    BY <1>3 DEF Device
  <2>2. ASSUME NEW i \in Writes(queue, s) PROVE i = 1
    <3>1. i # 1 => i - 1 \in Writes(queue', s)
      BY <1>1 DEF Writes
    <3> QED  BY <1>3, <3>1
  <2>3. CASE 1 \in Writes(queue, s)
    <3>1. Last(queue, s, 1)
      BY <2>2, <2>3 DEF Last
    <3>2. Device(queue, data, swapped, s) = data[queue[1].page]
      BY <1>0, <3>1, DeviceLast
    <3>3. queue[1].cmd = "write" /\ queue[1].nr = s
      BY <2>3 DEF Writes
    <3> QED  BY <1>3, <2>1, <3>2, <3>3, DeviceIs
  <2>4. CASE 1 \notin Writes(queue, s)
    <3>1. Writes(queue, s) = {}
      BY <2>2, <2>4
    <3>2. Device(queue, data, swapped, s) = swapped[s]
      BY <3>1 DEF Device
    <3>3. ~(queue[1].cmd = "write" /\ s = queue[1].nr)
      BY <1>1, <3>1 DEF Writes
    <3> QED  BY <1>3, <2>1, <3>2, <3>3, DeviceIs
  <2> QED  BY <2>3, <2>4
<1> QED  BY <1>2, <1>3

----------------------------------------------------------------------------
(* What a step of p leaves to the others                                   *)

\* Who takes part in a step of p: p, and the child it makes.
Party(p, S) ==
    /\ p \in S /\ S \subseteq Procs /\ cpu \in {p, NoProc} /\ pc[p] # "making"
    /\ \A s \in S \ {p} :
          \/ pc[s] = "unused"
          \/ pc[s] = "making" /\ Stage(p) \in Forking /\ s = loc[p].who

\* The entries of the others stand for what they stood for, and the pages in their
\* variables are not touched.
Kept(S) ==
    \A q \in Procs \ S :
        /\ pc'[q] = pc[q] /\ loc'[q] = loc[q] /\ exe'[q] = exe[q] /\ dir'[q] = dir[q]
        /\ \A a \in Owned : Value(q, a)' = Value(q, a)
        /\ \A a \in Addrs :
              /\ pte[q][a].at # "page" => pte'[q][a] = pte[q][a]
              /\ Droppable(pte'[q][a]) => Droppable(pte[q][a])
              /\ pte'[q][a].at = "page" /\ ~(a <= NFile) => pte'[q][a].rw = pte[q][a].rw
        /\ \A n \in Grasp(loc[q]) \ {0} : data'[n] = data[n]

LEMMA Others ==
    ASSUME VInv, NEW p \in Procs, cpu \in {p, NoProc}, NEW q \in Procs, q # p
    PROVE  /\ pc[q] # "store" /\ Stage(q) \notin {"wp", "share"} /\ cpu # q
           /\ pc[q] \in {"exec", "verified"} => Risks # {}
           /\ \A a \in Owned : Droppable(pte[q][a]) => data[pte[q][a].n] = Initially(exe[q], a)
<1>1. Place(q) /\ Hand(q)
  BY DEF VInv, IInv, PlaceOK, ValuesOK
<1>2. cpu # q
  BY ProcsAssumption
<1>3. /\ pc[q] # "store" /\ Stage(q) \notin {"wp", "share"}
      /\ pc[q] \in {"exec", "verified"} => Risks # {}
  BY <1>1, <1>2 DEF Place, Alone, Hand, Steady
<1>4. \A a \in Addrs : ~Changing(q, a)
  BY <1>2 DEF Changing
<1> QED  BY <1>1, <1>2, <1>3, <1>4 DEF Hand, Clean

LEMMA PartyFar ==
    ASSUME VInv, NEW p \in Procs, NEW S, Party(p, S), NEW q \in Procs \ S, Stage(q) \in Forking
    PROVE  loc[q].who \in Procs \ S
<1>1. loc[q].who \in Procs /\ pc[loc[q].who] = "making"
  BY DEF VInv, IInv, PlaceOK, Place, Making
<1>2. loc[q].who # p
  BY <1>1 DEF Party
<1>3. Stage(p) \in Forking => loc[q].who # loc[p].who
  BY DEF VInv, IInv, ChildOK, Party
<1> QED  BY <1>1, <1>2, <1>3 DEF Party

LEMMA KeptHand ==
    ASSUME VInv, NEW p \in Procs, NEW S, Party(p, S), Kept(S), NEW q \in Procs \ S
    PROVE  Hand(q)'
<1>0. cpu \in {p, NoProc} /\ q # p
  BY DEF Party
<1>1. Place(q) /\ Hand(q)
  BY DEF VInv, IInv, PlaceOK, ValuesOK
<1>2. /\ pc'[q] = pc[q] /\ loc'[q] = loc[q] /\ exe'[q] = exe[q] /\ dir'[q] = dir[q]
      /\ \A a \in Owned : Value(q, a)' = Value(q, a)
      /\ \A a \in Addrs :
            /\ pte[q][a].at # "page" => pte'[q][a] = pte[q][a]
            /\ Droppable(pte'[q][a]) => Droppable(pte[q][a])
            /\ pte'[q][a].at = "page" /\ ~(a <= NFile) => pte'[q][a].rw = pte[q][a].rw
      /\ \A n \in Grasp(loc[q]) \ {0} : data'[n] = data[n]
  BY DEF Kept
<1>3. /\ pc[q] # "store" /\ Stage(q) \notin {"wp", "share"}
      /\ pc[q] \in {"exec", "verified"} => Risks # {}
      /\ \A a \in Owned : Droppable(pte[q][a]) => data[pte[q][a].n] = Initially(exe[q], a)
  BY <1>0, Others
<1>4. Stage(q)' = Stage(q)
  BY <1>2 DEF Stage, StageOf
<1>5. Clean(q)'
  <2> SUFFICES ASSUME NEW a \in Owned, Droppable(pte'[q][a])
               PROVE  data'[pte'[q][a].n] = Initially(exe'[q], a)
    BY DEF Clean
  <2>1. Value(q, a)' = data'[pte'[q][a].n]
    BY DEF Value, ValueOf, Droppable
  <2>2. Value(q, a) = data[pte[q][a].n]
    BY <1>2 DEF Value, ValueOf, Droppable
  <2> QED  BY <1>2, <1>3, <2>1, <2>2
<1>6. Steady(q)'
  <2> DEFINE a == loc[q].addr
  <2>1. ASSUME pc[q] = "verified", a \in Owned, pte'[q][a].at = "page" PROVE pte'[q][a].rw
    <3>1. ~(a <= NFile)
      BY <1>3, <2>1, OwnedZero
    <3>2. pte[q][a].at = "page"
      BY <1>2, <2>1
    <3>3. pte[q][a].rw
      BY <1>1, <2>1, <3>2 DEF Hand, Steady
    <3>4. pte'[q][a].rw = pte[q][a].rw
      BY <1>2, <2>1, <3>1
    <3> QED  BY <3>3, <3>4
  <2>2. pc[q] = "verified" /\ a \in Owned => ~(a <= NFile)
    BY <1>3, OwnedZero
  <2> QED  BY <1>2, <1>3, <1>4, <2>1, <2>2 DEF Steady
<1>7. Full(q)'
  <2>1. \A n \in {loc[q].page, loc[q].got} : n # 0 => data'[n] = data[n]
    BY <1>2 DEF Grasp
  <2>2. Stage(q) \in {"put", "table"} => loc[q].page # 0
    BY <1>1 DEF Place, Holding
  <2> QED  BY <1>1, <1>2, <1>4, <2>1, <2>2 DEF Hand, Full
<1>8. TableOf(q)'
  BY <1>1, <1>2 DEF Hand, TableOf
<1>9. Child(q)'
  <2>1. CASE Stage(q) \in Forking
    <3> DEFINE c == loc[q].who
    <3>1. c \in Procs \ S
      BY <2>1, PartyFar
    <3>2. exe'[c] = exe[c] /\ dir'[c] = dir[c] /\ \A a \in Owned : Value(c, a)' = Value(c, a)
      BY <3>1 DEF Kept
    <3> QED  BY <1>1, <1>2, <1>4, <3>2 DEF Hand, Child
  <2>2. CASE Stage(q) \notin Forking
    BY <1>4, <2>2 DEF Child, Forking
  <2> QED  BY <2>1, <2>2
<1> QED  BY <1>5, <1>6, <1>7, <1>8, <1>9 DEF Hand

----------------------------------------------------------------------------
(* The requests stay in order                                              *)

\* A process waits where the code waits.
LEMMA WaitsAt ==
    ASSUME VInv, NEW q \in Procs, Waiting(q)
    PROVE  pc[q] \in {"swapout", "reading", "forkread"}
<1>1. PICK i \in DOMAIN queue : queue[i].by = q
  BY DEF Waiting
<1>2. Asked(i) /\ queue[i] \in Requests
  BY <1>1, ElementOfSeq DEF VInv, ValuesOK, QueueOK, IInv, Types
<1> QED  BY <1>1, <1>2 DEF Asked, Requests

\* One that is read from the device has its entry there still.
LEMMA ReadsAt ==
    ASSUME VInv, NEW q \in Procs, pc[q] \in {"reading", "forkread"}
    PROVE  /\ loc[q].addr \in Addrs /\ pte[q][loc[q].addr].at = "swap"
           /\ loc[q].page \in Grasp(loc[q]) \ {0} /\ Stage(q) = pc[q]
           /\ pte[q][loc[q].addr].n \notin spare
<1>1. Place(q) /\ Stage(q) = pc[q]
  BY DEF VInv, IInv, PlaceOK, Stage, StageOf
<1>2. loc[q].addr \in Addrs /\ pte[q][loc[q].addr].at = "swap"
  BY <1>1 DEF Place, Serving
<1> QED  BY <1>1, <1>2 DEF Place, Holding, Grasp, VInv, IInv, SwapOK

LEMMA QueueSame ==
    ASSUME VInv, NEW S, Kept(S), queue' = queue, swapped' = swapped,
           \A q \in S : ~Waiting(q) /\ pc'[q] \notin {"reading", "forkread"}
    PROVE  QueueOK'
<1> Types /\ QueueOK
  BY DEF VInv, IInv, ValuesOK
<1>1. \A q \in Procs \ S :
        /\ pc'[q] = pc[q] /\ loc'[q] = loc[q]
        /\ \A a \in Addrs : pte[q][a].at # "page" => pte'[q][a] = pte[q][a]
        /\ \A n \in Grasp(loc[q]) \ {0} : data'[n] = data[n]
  BY DEF Kept
<1>2. ASSUME NEW i \in DOMAIN queue PROVE queue[i].by \in Procs \ S
  <2>1. queue[i] \in Requests /\ Waiting(queue[i].by)
    BY ElementOfSeq DEF Types, Waiting
  <2> QED  BY <2>1 DEF Requests
<1>3. ASSUME NEW i \in DOMAIN queue PROVE Asked(i)'
  <2> DEFINE q == queue[i].by
  <2>1. q \in Procs \ S /\ Asked(i)
    BY <1>2 DEF QueueOK
  <2>2. pc[q] \in {"reading", "forkread"} => pte'[q][loc[q].addr] = pte[q][loc[q].addr]
    BY <1>1, <2>1, ReadsAt
  <2> QED  BY <1>1, <2>1, <2>2 DEF Asked
<1>4. ASSUME NEW q \in Procs PROVE Arrived(q)'
  <2>1. CASE q \in S
    BY <2>1 DEF Arrived
  <2>2. CASE q \notin S /\ pc[q] \in {"reading", "forkread"}
    <3>1. Waiting(q)' <=> Waiting(q)
      BY DEF Waiting
    <3>2. \A s : Unwritten(s)' <=> Unwritten(s)
      BY DEF Unwritten
    <3>3. pte'[q][loc[q].addr] = pte[q][loc[q].addr] /\ data'[loc[q].page] = data[loc[q].page]
      BY <1>1, <2>2, ReadsAt
    <3>4. Arrived(q)
      BY DEF QueueOK
    <3> QED  BY <1>1, <2>2, <3>1, <3>2, <3>3, <3>4 DEF Arrived
  <2>3. CASE q \notin S /\ pc[q] \notin {"reading", "forkread"}
    BY <1>1, <2>3 DEF Arrived
  <2> QED  BY <2>1, <2>2, <2>3
<1>5. \A i, j \in DOMAIN queue' : queue'[i].by = queue'[j].by => i = j
  BY DEF QueueOK
<1> QED  BY <1>3, <1>4, <1>5 DEF QueueOK

\* A request is added at the end.
LEMMA QueueMore ==
    ASSUME VInv, NEW p \in Procs, Kept({p}), ~Waiting(p), NEW r \in Requests, r.by = p,
           queue' = Append(queue, r), swapped' = swapped,
           r.cmd = "read" => /\ pc'[p] \in {"reading", "forkread"} /\ loc'[p].page = r.page
                             /\ r.nr = pte'[p][loc'[p].addr].n,
           r.cmd = "write" => pc'[p] = "swapout" /\ loc'[p].out = r.page /\ r.nr \in spare
    PROVE  QueueOK'
<1> Types /\ QueueOK
  BY DEF VInv, IInv, ValuesOK
<1> DEFINE n == Len(queue) + 1
<1>1. /\ DOMAIN queue = 1..Len(queue) /\ Len(queue) \in Nat
      /\ DOMAIN queue' = 1..n /\ queue'[n] = r
      /\ \A i \in DOMAIN queue : queue'[i] = queue[i]
  BY Appended DEF Types
<1>2. \A q \in Procs \ {p} :
        /\ pc'[q] = pc[q] /\ loc'[q] = loc[q]
        /\ \A a \in Addrs : pte[q][a].at # "page" => pte'[q][a] = pte[q][a]
        /\ \A m \in Grasp(loc[q]) \ {0} : data'[m] = data[m]
  BY DEF Kept
<1>3. ASSUME NEW i \in DOMAIN queue PROVE queue[i] \in Requests /\ queue[i].by \in Procs \ {p}
  <2>1. queue[i] \in Requests /\ Waiting(queue[i].by)
    BY ElementOfSeq DEF Types, Waiting
  <2> QED  BY <2>1 DEF Requests
<1>4. ASSUME NEW q \in Procs \ {p}, pc[q] \in {"reading", "forkread"}
      PROVE  pte'[q][loc[q].addr] = pte[q][loc[q].addr] /\ data'[loc[q].page] = data[loc[q].page]
             /\ pte[q][loc[q].addr].n \notin spare
  BY <1>2, <1>4, ReadsAt
<1>5. ASSUME NEW i \in DOMAIN queue' PROVE Asked(i)'
  <2>1. CASE i = n
    <3>1. \A j \in DOMAIN queue' : ~(j > n)
      BY <1>1
    <3> QED  BY <1>1, <2>1, <3>1 DEF Asked
  <2>2. CASE i # n
    <3> DEFINE q == queue[i].by
    <3>1. i \in DOMAIN queue /\ queue'[i] = queue[i] /\ q \in Procs \ {p} /\ Asked(i)
      BY <1>1, <1>3, <2>2 DEF QueueOK
    <3>2. queue[i].cmd = "write" => pc'[q] = "swapout" /\ loc'[q].out = queue[i].page
      BY <1>2, <3>1 DEF Asked
    <3>3. ASSUME queue[i].cmd = "read"
          PROVE  /\ pc'[q] \in {"reading", "forkread"} /\ loc'[q].page = queue[i].page
                 /\ queue[i].nr = pte'[q][loc'[q].addr].n
                 /\ \A j \in DOMAIN queue' : j > i /\ queue'[j].cmd = "write" => queue'[j].nr # queue[i].nr
      <4>1. /\ pc[q] \in {"reading", "forkread"} /\ loc[q].page = queue[i].page
            /\ queue[i].nr = pte[q][loc[q].addr].n
            /\ \A j \in DOMAIN queue : j > i /\ queue[j].cmd = "write" => queue[j].nr # queue[i].nr
        BY <3>1, <3>3 DEF Asked
      <4>2. pte'[q][loc[q].addr] = pte[q][loc[q].addr] /\ pte[q][loc[q].addr].n \notin spare
        BY <1>4, <3>1, <4>1
      <4>3. ASSUME NEW j \in DOMAIN queue', j > i, queue'[j].cmd = "write"
            PROVE  queue'[j].nr # queue[i].nr
        <5>1. CASE j = n
          BY <1>1, <4>1, <4>2, <4>3, <5>1
        <5>2. CASE j # n
          <6>1. j \in DOMAIN queue
            BY <1>1, <5>2
          <6> QED  BY <1>1, <4>1, <4>3, <6>1
        <5> QED  BY <5>1, <5>2
      <4> QED  BY <1>2, <3>1, <4>1, <4>2, <4>3
    <3> QED  BY <3>1, <3>2, <3>3 DEF Asked
  <2> QED  BY <2>1, <2>2
<1>6. ASSUME NEW i \in DOMAIN queue', NEW j \in DOMAIN queue', queue'[i].by = queue'[j].by
      PROVE  i = j
  <2>1. i \in DOMAIN queue \/ i = n
    BY <1>1
  <2>2. j \in DOMAIN queue \/ j = n
    BY <1>1
  <2>3. CASE i \in DOMAIN queue /\ j \in DOMAIN queue
    BY <1>1, <1>6, <2>3 DEF QueueOK
  <2>4. CASE i \in DOMAIN queue /\ j = n
    BY <1>1, <1>3, <1>6, <2>4
  <2>5. CASE i = n /\ j \in DOMAIN queue
    BY <1>1, <1>3, <1>6, <2>5
  <2> QED  BY <2>1, <2>2, <2>3, <2>4, <2>5
<1>7. ASSUME NEW q \in Procs, pc'[q] \in {"reading", "forkread"}, ~Waiting(q)'
      PROVE  (LET s == pte[q][loc[q].addr].n IN data[loc[q].page] = swapped[s] /\ ~Unwritten(s))'
  <2>1. \A i \in DOMAIN queue' : queue'[i].by # q
    BY <1>7 DEF Waiting
  <2>2. q # p
    BY <1>1, <2>1
  <2>3. ~Waiting(q)
    BY <1>1, <2>1 DEF Waiting
  <2>4. pc[q] \in {"reading", "forkread"} /\ loc'[q] = loc[q]
    BY <1>2, <1>7, <2>2
  <2>5. PICK s : s = pte[q][loc[q].addr].n
    OBVIOUS
  <2>6. data[loc[q].page] = swapped[s] /\ ~Unwritten(s)
    BY <2>3, <2>4, <2>5 DEF QueueOK, Arrived
  <2>7. pte'[q][loc[q].addr].n = s /\ data'[loc[q].page] = data[loc[q].page] /\ s \notin spare
    BY <1>4, <2>2, <2>4, <2>5
  <2>8. ~Unwritten(s)'
    <3>1. ASSUME NEW i \in DOMAIN queue', queue'[i].cmd = "write" PROVE queue'[i].nr # s
      <4>1. CASE i = n
        BY <1>1, <2>7, <3>1, <4>1
      <4>2. CASE i # n
        <5>1. i \in DOMAIN queue /\ queue'[i] = queue[i]
          BY <1>1, <4>2
        <5> QED  BY <2>6, <3>1, <5>1 DEF Unwritten
      <4> QED  BY <4>1, <4>2
    <3> QED  BY <3>1 DEF Unwritten
  <2>9. \A t : t = s => ~Unwritten(t)'
    BY <2>8
  <2> QED  BY <2>4, <2>6, <2>7, <2>9
<1>8. \A q \in Procs : Arrived(q)'
  BY <1>7 DEF Arrived
<1> QED  BY <1>5, <1>6, <1>8 DEF QueueOK

----------------------------------------------------------------------------
(* What the processes read                                                 *)

LEMMA ReadsIs ==
    ASSUME Types, NEW q \in Procs, NEW a \in Addrs
    PROVE  Reads(q, a) = IF q \notin Alive THEN "zero"
                         ELSE IF pc[q] = "exec" THEN Initially(exe[q], a) ELSE Value(q, a)
<1>1. pte[q][a].at \in {"none", "page", "swap"}
  BY EntryFacts DEF Types
<1>2. CASE q \notin Alive
  BY <1>2 DEF Reads
<1>3. CASE q \in Alive /\ pc[q] = "exec"
  BY <1>3 DEF Reads
<1>4. CASE q \in Alive /\ pc[q] # "exec"
  <2>1. CASE pte[q][a].at = "none"
    BY <1>4, <2>1 DEF Reads, Value, ValueOf
  <2>2. CASE pte[q][a].at = "page"
    BY <1>4, <2>2 DEF Reads, Value, ValueOf
  <2>3. CASE pte[q][a].at = "swap"
    BY <1>4, <2>3 DEF Reads, Value, ValueOf
  <2> QED  BY <1>1, <2>1, <2>2, <2>3
<1> QED  BY <1>2, <1>3, <1>4

LEMMA ReadsWillBe ==
    ASSUME Types', NEW q \in Procs, NEW a \in Addrs
    PROVE  Reads(q, a)' = IF q \notin Alive' THEN "zero"
                          ELSE IF pc'[q] = "exec" THEN Initially(exe'[q], a) ELSE Value(q, a)'
<1>1. (pte[q][a].at \in {"none", "page", "swap"})'
  <2>1. pte'[q][a] \in Entries
    BY DEF Types
  <2> QED  BY <2>1, EntryFacts
<1>2. CASE q \notin Alive'
  BY <1>2 DEF Reads
<1>3. CASE q \in Alive' /\ pc'[q] = "exec"
  BY <1>3 DEF Reads
<1>4. CASE q \in Alive' /\ pc'[q] # "exec"
  <2>1. CASE pte'[q][a].at = "none"
    BY <1>4, <2>1 DEF Reads, Value, ValueOf
  <2>2. CASE pte'[q][a].at = "page"
    BY <1>4, <2>2 DEF Reads, Value, ValueOf
  <2>3. CASE pte'[q][a].at = "swap"
    BY <1>4, <2>3 DEF Reads, Value, ValueOf
  <2> QED  BY <1>1, <2>1, <2>2, <2>3
<1> QED  BY <1>2, <1>3, <1>4

\* Nothing of q that anybody sees changes.
Silent(q) == (q \in Alive' <=> q \in Alive) /\ \A a \in Owned : Reads(q, a)' = Reads(q, a)
Living(q) ==
    /\ pc[q] \notin {"unused", "making", "exec"} /\ pc'[q] \notin {"unused", "making", "exec"}
    /\ \A a \in Owned : Value(q, a)' = Value(q, a)

LEMMA LivingSilent ==
    ASSUME Types, Types', NEW q \in Procs, Living(q)
    PROVE  Silent(q)
<1>1. q \in Alive /\ q \in Alive'
  BY DEF Living, Alive
<1> QED  BY <1>1, ReadsIs, ReadsWillBe DEF Living, Silent

LEMMA DeadSilent ==
    ASSUME Types, Types', NEW q \in Procs, pc[q] \in {"unused", "making"}, pc'[q] \in {"unused", "making"}
    PROVE  Silent(q)
<1>1. q \notin Alive /\ q \notin Alive'
  BY DEF Alive
<1> QED  BY <1>1, ReadsIs, ReadsWillBe DEF Silent

LEMMA KeptSilent ==
    ASSUME Types, Types', NEW S, Kept(S), NEW q \in Procs \ S
    PROVE  Silent(q)
<1>1. pc'[q] = pc[q] /\ exe'[q] = exe[q] /\ \A a \in Owned : Value(q, a)' = Value(q, a)
  BY DEF Kept
<1>2. q \in Alive' <=> q \in Alive
  BY <1>1 DEF Alive
<1> QED  BY <1>1, <1>2, ReadsIs, ReadsWillBe DEF Silent

LEMMA AllSilent ==
    ASSUME \A q \in Procs : Silent(q)
    PROVE  UNCHANGED Private!vars
<1>1. Alive' = Alive
  BY DEF Silent, Alive
<1>2. [q \in Procs |-> [a \in Owned |-> Reads(q, a)]]' = [q \in Procs |-> [a \in Owned |-> Reads(q, a)]]
  BY DEF Silent
<1> QED  BY <1>1, <1>2 DEF Private!vars

\* What is to be shown of every step.
Good == ValuesOK' /\ [Private!Next]_(Private!vars)

\* A step of p that no process sees.
LEMMA QuietStep ==
    ASSUME VInv, IInv', NEW p \in Procs, NEW S, Party(p, S), Kept(S), QueueOK',
           \A s \in S : Hand(s)' /\ Silent(s)
    PROVE  Good
<1>1. \A q \in Procs : Hand(q)' /\ Silent(q)
  BY KeptHand, KeptSilent DEF VInv, IInv
<1>2. UNCHANGED Private!vars
  BY <1>1, AllSilent
<1>3. ValuesOK'
  BY <1>1 DEF ValuesOK
<1> QED  BY <1>2, <1>3 DEF Good

----------------------------------------------------------------------------
(* Pages nobody else looks at                                              *)

Foreign(S, m) ==
    \A q \in Procs \ S : m \notin Grasp(loc[q]) /\ \A a \in Owned : Held(pte[q][a]) # m
Unasked(m) == \A i \in DOMAIN queue : queue[i].cmd = "write" => queue[i].page # m

\* The pages that are written to the device are those of the processes that wait.
LEMMA UnaskedBy ==
    ASSUME VInv, NEW m, \A q \in Procs : pc[q] = "swapout" => loc[q].out # m
    PROVE  Unasked(m)
<1> SUFFICES ASSUME NEW i \in DOMAIN queue, queue[i].cmd = "write" PROVE queue[i].page # m
  BY DEF Unasked
<1>1. Asked(i) /\ queue[i] \in Requests
  BY ElementOfSeq DEF VInv, ValuesOK, QueueOK, IInv, Types
<1> QED  BY <1>1 DEF Asked, Requests

LEMMA FreePage ==
    ASSUME VInv, NEW m \in Pages, mem_map[m] = 0
    PROVE  Foreign({}, m) /\ Unasked(m)
<1> Types /\ CountOK
  BY DEF VInv, IInv
<1> DEFINE f == Refs
<1>1. Count(f, m) = 0
  <2>1. Count(f, m) \in Nat /\ mem_map[m] - Count(f, m) \in {0, 100}
    BY CountType DEF CountOK, USED
  <2> HIDE DEF f
  <2> QED  BY <2>1
<1>2. \A u \in D : f[u] # m
  BY <1>1, CountZero
<1>3. ASSUME NEW q \in Procs PROVE m \notin Grasp(loc[q]) /\ \A a \in Addrs : Held(pte[q][a]) # m
  <2>1. /\ <<q, -1>> \in D /\ <<q, -2>> \in D /\ <<q, -3>> \in D
        /\ \A a \in Addrs : <<q, a>> \in D
    BY Cells, Zenon
  <2>2. /\ f[<<q, -1>>] = loc[q].page /\ f[<<q, -2>>] = loc[q].out /\ f[<<q, -3>>] = loc[q].got
        /\ \A a \in Addrs : f[<<q, a>>] = Held(pte[q][a])
    BY RefsAre, Zenon
  <2> HIDE DEF f
  <2>3. m # loc[q].page /\ m # loc[q].out /\ m # loc[q].got /\ \A a \in Addrs : Held(pte[q][a]) # m
    BY <1>2, <2>1, <2>2
  <2> QED  BY <2>3 DEF Grasp
<1>4. \A q \in Procs : loc[q].out # m
  BY <1>3 DEF Grasp
<1> QED  BY <1>3, <1>4, UnaskedBy DEF Foreign

\* What p has in an entry as the only user.
LEMMA EntryAlone ==
    ASSUME VInv, NEW p \in Procs, NEW a \in Addrs, NEW m \in Pages, Held(pte[p][a]) = m, mem_map[m] = 1,
           NEW q \in Procs, NEW b \in Addrs, Held(pte[q][b]) = m
    PROVE  q = p /\ b = a
<1> Types /\ CountOK
  BY DEF VInv, IInv
<1> QED  BY OneUser

LEMMA EntryPage ==
    ASSUME VInv, NEW p \in Procs, NEW a \in Addrs, NEW m \in Pages, Held(pte[p][a]) = m, mem_map[m] = 1
    PROVE  Foreign({p}, m) /\ Unasked(m) /\ m \notin Grasp(loc[p])
<1> Types /\ CountOK
  BY DEF VInv, IInv
<1>1. /\ \A q \in Procs, b \in Addrs : Held(pte[q][b]) = m => q = p /\ b = a
      /\ \A q \in Procs : m \notin Grasp(loc[q])
  BY OneUser
<1>2. \A q \in Procs : loc[q].out # m
  BY <1>1 DEF Grasp
<1> QED  BY <1>1, <1>2, UnaskedBy DEF Foreign

\* What p has in a variable.
LEMMA GraspPage ==
    ASSUME VInv, NEW p \in Procs, NEW m \in Grasp(loc[p]) \ {0}, m # loc[p].out
    PROVE  /\ m \in Pages /\ Foreign({p}, m) /\ Unasked(m)
           /\ \A q \in Procs, b \in Addrs : Held(pte[q][b]) # m
<1> Types /\ CountOK
  BY DEF VInv, IInv
<1>1. m \in Pages /\ mem_map[m] = 1
  BY GraspPages DEF VInv, Sole
<1>2. /\ \A q \in Procs, b \in Addrs : Held(pte[q][b]) # m
      /\ \A q \in Procs : m \in Grasp(loc[q]) => q = p
  BY <1>1, OneUser
<1>3. \A q \in Procs : loc[q].out # m
  <2>1. \A q \in Procs : loc[q].out \in Grasp(loc[q])
    BY DEF Grasp
  <2> QED  BY <1>2, <2>1
<1> QED  BY <1>1, <1>2, <1>3, UnaskedBy DEF Foreign

\* A page in an entry of p at an address that need not be its own.
LEMMA SharedPage ==
    ASSUME VInv, NEW p \in Procs, NEW a \in Addrs \ Owned, NEW m \in Pages, Held(pte[p][a]) = m
    PROVE  /\ Foreign({p}, m) /\ Unasked(m)
           /\ \A b \in Owned : Held(pte[p][b]) # m
<1> Types /\ CountOK
  BY DEF VInv, IInv
<1>0. m # 0
  BY DEF Pages
<1>1. ASSUME NEW q \in Procs PROVE m \notin Grasp(loc[q])
  <2>1. m \in Grasp(loc[q]) => mem_map[m] = 1
    BY <1>0 DEF VInv, Sole
  <2>2. mem_map[m] = 1 => m \notin Grasp(loc[q])
    BY OneUser
  <2> QED  BY <2>1, <2>2
<1>2. ASSUME NEW q \in Procs, NEW b \in Owned PROVE Held(pte[q][b]) # m
  <2>1. Held(pte[q][b]) = m => a = b
    BY <1>0 DEF VInv, Apart
  <2> QED  BY <2>1
<1>3. \A q \in Procs : loc[q].out # m
  BY <1>1 DEF Grasp
<1> QED  BY <1>1, <1>2, <1>3, UnaskedBy DEF Foreign

LEMMA ValueSame ==
    ASSUME \A s : OnDevice(s)' = OnDevice(s), NEW q, NEW a, exe'[q] = exe[q],
           pte'[q][a].at = pte[q][a].at, pte'[q][a].n = pte[q][a].n,
           pte[q][a].at = "page" => data'[pte[q][a].n] = data[pte[q][a].n]
    PROVE  Value(q, a)' = Value(q, a)
<1>1. \A s, t : s = t => OnDevice(s)' = OnDevice(t)
  OBVIOUS
<1>2. OnDevice(pte[q][a].n)' = OnDevice(pte[q][a].n)
  <2>1. PICK s : s = pte[q][a].n
    OBVIOUS
  <2>2. pte'[q][a].n = s
    BY <2>1
  <2> QED  BY <2>1, <2>2
<1> QED  BY <1>2 DEF Value, ValueOf

\* A step changes the entries of the processes in S, takes the right to write from
\* others, and writes the page m.
Near(S, m) ==
    /\ queue' = queue /\ swapped' = swapped
    /\ \A n \in Pages : n # m => data'[n] = data[n]
    /\ m \in Pages => Foreign(S, m) /\ Unasked(m)
    /\ \A q \in Procs \ S :
          /\ pc'[q] = pc[q] /\ loc'[q] = loc[q] /\ exe'[q] = exe[q] /\ dir'[q] = dir[q]
          /\ \A a \in Addrs : \/ pte'[q][a] = pte[q][a]
                              \/ /\ a <= NFile /\ Held(pte[q][a]) # 0
                                 /\ pte'[q][a] = [pte[q][a] EXCEPT !.rw = FALSE]

LEMMA NearKept ==
    ASSUME VInv, NEW S, NEW m, Near(S, m)
    PROVE  Kept(S) /\ \A s : OnDevice(s)' = OnDevice(s)
<1> Types
  BY DEF VInv, IInv
<1>1. \A i \in DOMAIN queue : queue[i].cmd = "write" => data'[queue[i].page] = data[queue[i].page]
  <2> SUFFICES ASSUME NEW i \in DOMAIN queue, queue[i].cmd = "write"
               PROVE  data'[queue[i].page] = data[queue[i].page]
    OBVIOUS
  <2>1. queue[i] \in Requests
    BY ElementOfSeq DEF Types
  <2>2. queue[i].page \in Pages
    BY <2>1 DEF Requests
  <2> QED  BY <2>2 DEF Near, Unasked
<1>2. \A s : OnDevice(s)' = OnDevice(s)
  BY <1>1, DeviceSame DEF Near
<1>3. ASSUME NEW q \in Procs \ S, NEW a \in Addrs
      PROVE  /\ exe'[q] = exe[q] /\ pte'[q][a].at = pte[q][a].at /\ pte'[q][a].n = pte[q][a].n
             /\ pte[q][a].at # "page" => pte'[q][a] = pte[q][a]
             /\ Droppable(pte'[q][a]) => Droppable(pte[q][a])
             /\ ~(a <= NFile) => pte'[q][a] = pte[q][a]
  <2> DEFINE e == pte[q][a]
  <2>1. e \in Entries
    BY GraspPages
  <2>2. /\ exe'[q] = exe[q]
        /\ \/ pte'[q][a] = pte[q][a]
           \/ /\ a <= NFile /\ Held(pte[q][a]) # 0
              /\ pte'[q][a] = [pte[q][a] EXCEPT !.rw = FALSE]
    BY Zenon DEF Near
  <2>3. CASE pte'[q][a] = e
    BY <2>2, <2>3
  <2>4. CASE a <= NFile /\ Held(e) # 0 /\ pte'[q][a] = [e EXCEPT !.rw = FALSE]
    <3>1. e.at = "page"
      BY <2>4 DEF Held
    <3>2. LET d == [e EXCEPT !.rw = FALSE] IN d.at = e.at /\ d.n = e.n /\ d.dirty = e.dirty
      BY <2>1 DEF Entries, NoEntry, OnSwap, InMemory
    <3>3. pte'[q][a].at = e.at /\ pte'[q][a].n = e.n /\ pte'[q][a].dirty = e.dirty
      BY <2>4, <3>2
    <3> QED  BY <2>2, <2>4, <3>1, <3>3 DEF Droppable
  <2> QED  BY <2>2, <2>3, <2>4
<1>5. ASSUME NEW q \in Procs \ S, NEW a \in Owned PROVE Value(q, a)' = Value(q, a)
  <2> DEFINE e == pte[q][a]
  <2>1. e.at = "page" => e.n \in Pages /\ Held(e) = e.n
    BY GraspPages
  <2>2. e.at = "page" => data'[e.n] = data[e.n]
    <3>1. ASSUME e.at = "page", e.n = m PROVE FALSE
      BY <2>1, <3>1 DEF Near, Foreign
    <3> QED  BY <2>1, <3>1 DEF Near
  <2> QED  BY <1>2, <1>3, <2>2, ValueSame
<1>4. ASSUME NEW q \in Procs \ S, NEW n \in Grasp(loc[q]) \ {0} PROVE data'[n] = data[n]
  <2>1. n \in Pages
    BY GraspPages
  <2>2. n # m
    BY <2>1 DEF Near, Foreign
  <2> QED  BY <2>1, <2>2 DEF Near
<1> QED  BY <1>2, <1>3, <1>4, <1>5 DEF Kept, Near

----------------------------------------------------------------------------
(* Steps no process sees                                                   *)

\* Stages of which nothing but the entries has to be known.
LEMMA HandPlain ==
    ASSUME NEW p, Stage(p)' \in {"unused", "making", "user", "wp", "swapin", "reading"},
           Clean(p)', TableOf(p)'
    PROVE  Hand(p)'
<1>1. pc'[p] \notin {"exec", "store", "verified", "empty"}
  BY DEF Stage, StageOf
<1>2. Steady(p)' /\ Full(p)' /\ Child(p)'
  BY <1>1 DEF Steady, Full, Child, Forking
<1> QED  BY <1>2 DEF Hand

\* p changes what it has, and it stands for the same.
Within(p, m) ==
    /\ cpu \in {p, NoProc} /\ pc[p] \notin {"unused", "making", "exec"} /\ ~Waiting(p)
    /\ pc'[p] \notin {"unused", "making", "exec", "reading", "forkread"}
    /\ Near({p}, m) /\ exe'[p] = exe[p]

LEMMA OwnStep ==
    ASSUME VInv, IInv', NEW p \in Procs, NEW m, Within(p, m),
           \A a \in Owned : Value(p, a)' = Value(p, a),
           \A a \in Owned : Droppable(pte'[p][a]) /\ ~Changing(p, a)' =>
               \/ Droppable(pte[p][a]) /\ ~Changing(p, a)
               \/ data'[pte'[p][a].n] = Initially(exe[p], a),
           TableOf(p)', Steady(p)', Full(p)', Child(p)'
    PROVE  Good
<1> Types /\ Types' /\ Hand(p)
  BY DEF VInv, IInv, ValuesOK
<1>0. Near({p}, m) /\ exe'[p] = exe[p] /\ queue' = queue /\ swapped' = swapped
  BY DEF Within, Near
<1>1. Party(p, {p}) /\ Kept({p})
  BY <1>0, NearKept DEF Party, Within
<1>2. QueueOK'
  BY <1>0, <1>1, QueueSame DEF Within
<1>3. Silent(p)
  BY LivingSilent DEF Living, Within
<1>4. Clean(p)'
  <2> SUFFICES ASSUME NEW a \in Owned, Droppable(pte'[p][a]), ~Changing(p, a)'
               PROVE  data'[pte'[p][a].n] = Initially(exe'[p], a)
    BY DEF Clean
  <2>1. CASE Droppable(pte[p][a]) /\ ~Changing(p, a)
    <3>1. Value(p, a)' = data'[pte'[p][a].n] /\ Value(p, a) = data[pte[p][a].n]
      BY <2>1 DEF Value, ValueOf, Droppable
    <3>2. data[pte[p][a].n] = Initially(exe[p], a)
      BY <2>1 DEF Hand, Clean
    <3> QED  BY <1>0, <3>1, <3>2
  <2>2. CASE data'[pte'[p][a].n] = Initially(exe[p], a)
    BY <1>0, <2>2
  <2> QED  BY <2>1, <2>2
<1>5. Hand(p)'
  BY <1>4 DEF Hand
<1> QED  BY <1>1, <1>2, <1>3, <1>5, QuietStep

\* p goes on; no page of its entries is written.
LEMMA MoveStep ==
    ASSUME VInv, IInv', NEW p \in Procs, NEW m, Within(p, m), pte' = pte, dir' = dir,
           m \in Pages => \A a \in Owned : Held(pte[p][a]) # m,
           \A a \in Addrs : Droppable(pte[p][a]) /\ Changing(p, a) => Changing(p, a)',
           Steady(p)', Full(p)', Child(p)'
    PROVE  Good
<1> Types
  BY DEF VInv, IInv
<1>1. \A s : OnDevice(s)' = OnDevice(s)
  BY NearKept DEF Within
<1>2. ASSUME NEW a \in Owned PROVE Value(p, a)' = Value(p, a)
  <2>1. pte[p][a].at = "page" => pte[p][a].n \in Pages /\ Held(pte[p][a]) = pte[p][a].n
    BY GraspPages
  <2>2. pte[p][a].at = "page" => data'[pte[p][a].n] = data[pte[p][a].n]
    BY <2>1 DEF Within, Near
  <2> QED  BY <1>1, <2>2, ValueSame DEF Within
<1>3. TableOf(p)'
  BY DEF TableOf, VInv, ValuesOK, Hand
<1> QED  BY <1>2, <1>3, OwnStep

LEMMA StillNear ==
    ASSUME Types, NEW p \in Procs, NEW l, NEW r, Moved(p, l, r), exe' = exe,
           UNCHANGED <<data, pte, dir, queue, swapped>>
    PROVE  Near({p}, 0)
<1>1. 0 \notin Pages
  BY DEF Pages
<1>2. \A q \in Procs \ {p} : pc'[q] = pc[q] /\ loc'[q] = loc[q]
  BY DEF Types, Moved
<1> QED  BY <1>1, <1>2 DEF Near

LEMMA MovedAt ==
    ASSUME Types, NEW p \in Procs, NEW l, NEW r, Moved(p, l, r)
    PROVE  /\ pc'[p] = l /\ loc'[p] = r /\ Stage(p)' = StageOf(l, r)
           /\ \A q \in Procs \ {p} : pc'[q] = pc[q] /\ loc'[q] = loc[q]
<1>1. pc'[p] = l /\ loc'[p] = r
  BY DEF Types, Moved
<1>2. \A q \in Procs \ {p} : pc'[q] = pc[q] /\ loc'[q] = loc[q]
  BY DEF Types, Moved
<1> QED  BY <1>1, <1>2 DEF Stage

\* Neither the tables nor the contents of pages change.
LEMMA StillStep ==
    ASSUME VInv, IInv', NEW p \in Procs, cpu \in {p, NoProc},
           pc[p] \notin {"unused", "making", "exec"}, ~Waiting(p), NEW l, NEW r,
           l \notin {"unused", "making", "exec", "reading", "forkread"},
           Moved(p, l, r), exe' = exe, UNCHANGED <<data, pte, dir, queue, swapped>>,
           \A a \in Addrs : Droppable(pte[p][a]) /\ Changing(p, a) => Changing(p, a)',
           Steady(p)', Full(p)', Child(p)'
    PROVE  Good
<1> Types
  BY DEF VInv, IInv
<1>1. 0 \notin Pages
  BY DEF Pages
<1>2. Near({p}, 0) /\ pc'[p] = l
  BY StillNear, MovedAt
<1>3. Within(p, 0)
  BY <1>2 DEF Within
<1> QED  BY <1>1, <1>3, MoveStep

\* get_free_page() is called.
LEMMA CallGood ==
    ASSUME VInv, IInv', NEW p \in Procs, cpu \in {p, NoProc},
           pc[p] \in {"user", "verified", "put", "loop"}, NEW y \in Callers, NEW r \in Locs,
           Call(p, y, r), UNCHANGED <<mem_map, data, tables, swap>>,
           \A a \in Addrs : ~(Droppable(pte[p][a]) /\ Changing(p, a)),
           y = "share" => r.addr <= NFile /\ r.who \in Sharers(p, r.addr),
           y = "share" => r.ret = "user" \/ r.addr \notin Owned,
           y = "empty" => r.addr > NFile, y = "bread" => r.addr <= NFile,
           y = "table" => data[r.page] = Initially(exe[p], r.addr),
           y \in Forking => y = "forkpage" /\ pc[p] = "loop" /\ r = loc[p]
    PROVE  Good
<1> Types /\ Place(p) /\ Hand(p)
  BY DEF VInv, IInv, PlaceOK, ValuesOK
<1> DEFINE v == [r EXCEPT !.why = y, !.got = 0]
<1>1. /\ v.why = y /\ v.got = 0 /\ v.addr = r.addr /\ v.page = r.page
      /\ v.who = r.who /\ v.ret = r.ret
  BY LocCalling
<1>2. Moved(p, "free", v) /\ exe' = exe /\ UNCHANGED <<data, pte, dir, queue, swapped>>
  BY DEF Call, Goto, tables, swap
<1> HIDE DEF v
<1>3. pc'[p] = "free" /\ loc'[p] = v /\ Stage(p)' = y
  BY <1>1, <1>2, MovedAt DEF StageOf
<1>4. ~Waiting(p)
  BY WaitsAt
<1>5. Steady(p)'
  <2>1. \A a : Sharers(p, a)' = Sharers(p, a)
    BY <1>2 DEF Sharers
  <2> QED  BY <1>1, <1>3, <2>1 DEF Steady
<1>6. Full(p)'
  BY <1>1, <1>2, <1>3 DEF Full, Callers
<1>7. Child(p)'
  <2>1. CASE y \in Forking
    <3>1. y = "forkpage" /\ v.addr = loc[p].addr /\ v.who = loc[p].who /\ Stage(p) = "loop"
      BY <1>1, <2>1 DEF Stage, StageOf
    <3>2. exe[v.who] = exe[p] /\ dir[v.who] # 0
          /\ \A a \in Owned : a < v.addr => Value(v.who, a) = Value(p, a)
      BY <3>1 DEF Hand, Child, Forking
    <3>3. \A s : OnDevice(s)' = OnDevice(s)
      BY <1>2, StillNear, NearKept
    <3>4. \A c \in Procs, a \in Owned : Value(c, a)' = Value(c, a)
      BY <1>2, <3>3, ValueSame
    <3>5. v.who \in Procs
      BY <3>1 DEF Place, Making, Forking
    <3> QED  BY <1>2, <1>3, <3>2, <3>4, <3>5 DEF Child
  <2>2. CASE y \notin Forking
    BY <1>3, <2>2 DEF Child, Forking
  <2> QED  BY <2>1, <2>2
<1> QED  BY <1>2, <1>3, <1>4, <1>5, <1>6, <1>7, StillStep

\* The page is one's own: it may be written.
LEMMA OwnPageGood ==
    ASSUME VInv, IInv', NEW p \in Procs, cpu \in {p, NoProc}, pc[p] = "user", NEW a \in Addrs,
           NEW l \in {"store", "verified"}, pte[p][a].at = "page", mem_map[pte[p][a].n] = 1,
           pte' = [pte EXCEPT ![p][a].rw = TRUE], Proceed(p, l, a, FALSE),
           UNCHANGED <<mem_map, data, dir, swap>>
    PROVE  Good
<1> Types /\ Hand(p)
  BY DEF VInv, IInv, ValuesOK
<1> DEFINE r == [NoLoc EXCEPT !.addr = a]
<1>0. r.addr = a
  BY DEF NoLoc
<1>1. /\ Moved(p, l, r) /\ exe' = exe
      /\ l = "store" \/ Risks = {} => cpu' = p
  BY DEF Proceed, Goto, Sleep, VInv, Quiet
<1> HIDE DEF r
<1>2. pc'[p] = l /\ loc'[p] = r /\ Stage(p)' = l
  BY <1>1, MovedAt DEF StageOf
<1>3. /\ \A q \in Procs, b \in Addrs : q # p \/ b # a => pte'[q][b] = pte[q][b]
      /\ pte'[p][a] = [pte[p][a] EXCEPT !.rw = TRUE]
  BY DEF Types
<1>4. /\ pte'[p][a].at = "page" /\ pte'[p][a].n = pte[p][a].n /\ pte'[p][a].rw
      /\ pte'[p][a].dirty = pte[p][a].dirty
  <2>1. pte[p][a] = InMemory(pte[p][a].n, pte[p][a].rw, pte[p][a].dirty)
    BY EntryFacts DEF Types
  <2> QED  BY <1>3, <2>1 DEF InMemory
<1>5. Near({p}, 0)
  <2>1. 0 \notin Pages
    BY DEF Pages
  <2> QED  BY <1>1, <1>3, <2>1, MovedAt DEF Near, swap
<1>6. Within(p, 0)
  BY <1>1, <1>2, <1>5, WaitsAt DEF Within
<1>7. ASSUME NEW b \in Owned PROVE Value(p, b)' = Value(p, b)
  <2>1. pte'[p][b].at = pte[p][b].at /\ pte'[p][b].n = pte[p][b].n
    BY <1>3, <1>4
  <2>2. \A s : OnDevice(s)' = OnDevice(s)
    BY <1>5, NearKept
  <2> QED  BY <1>1, <2>1, <2>2, ValueSame
<1>8. ASSUME NEW b \in Addrs, Droppable(pte'[p][b])
      PROVE  Droppable(pte[p][b]) /\ ~Changing(p, b)
  <2>1. Droppable(pte[p][b])
    BY <1>3, <1>4, <1>8 DEF Droppable
  <2> QED  BY <2>1 DEF Changing
<1>9. TableOf(p)'
  BY <1>3, <1>4 DEF TableOf, Hand
<1>10. Steady(p)' /\ Full(p)' /\ Child(p)'
  BY <1>0, <1>1, <1>2, <1>4 DEF Steady, Full, Child, Forking
<1> QED  BY <1>6, <1>7, <1>8, <1>9, <1>10, OwnStep

LEMMA UnWpGood ==
    ASSUME VInv, IInv', NEW p \in Procs, cpu \in {p, NoProc}, pc[p] = "user", NEW a \in Addrs,
           NEW l \in {"store", "verified"}, pte[p][a].at = "page", un_wp_page(p, a, l)
    PROVE  Good
<1> DEFINE n == pte[p][a].n
           r == [NoLoc EXCEPT !.addr = a, !.other = n, !.ret = l]
<1>1. CASE Call(p, "wp", r) /\ UNCHANGED <<mem_map, data, tables, swap>>
  <2>1. n \in Pages
    BY EntryFacts DEF VInv, IInv, Types
  <2>2. r \in Locs
    <3>1. r = CopyLoc(a, n, l) /\ n \in Maybe(Pages)
      BY <2>1 DEF CopyLoc, Maybe
    <3> HIDE DEF n, r
    <3> QED  BY <3>1, LocFault
  <2> HIDE DEF r, n
  <2>3. "wp" \in Callers /\ "wp" \notin Forking
    BY DEF Callers, Forking
  <2>4. \A b \in Addrs : ~Changing(p, b)
    BY DEF Changing
  <2> QED  BY <1>1, <2>2, <2>3, <2>4, CallGood
<1> QED  BY <1>1, OwnPageGood DEF un_wp_page

LEMMA IdleStage ==
    ASSUME NEW p, Stage(p)' \in {"unused", "making", "user", "wp", "swapin", "reading"}
    PROVE  Steady(p)' /\ Full(p)' /\ Child(p)'
<1>1. pc'[p] \notin {"exec", "store", "verified", "empty"}
  BY DEF Stage, StageOf
<1> QED  BY <1>1 DEF Steady, Full, Child, Forking

\* The process goes on after the fault.
GoesOn(p, l, r, a) ==
    /\ l \in {"user", "store", "verified"} /\ Moved(p, l, r) /\ exe' = exe
    /\ l # "user" => r.addr = a /\ cpu' = p

LEMMA ReturnGoesOn ==
    ASSUME NEW p, Return(p)
    PROVE  \E l, r : GoesOn(p, l, r, loc[p].addr)
<1>1. CASE Sleep(p, "user", NoLoc)
  BY <1>1 DEF Sleep, GoesOn
<1>2. CASE Goto(p, "verified", [NoLoc EXCEPT !.addr = loc[p].addr])
  <2> DEFINE r == [NoLoc EXCEPT !.addr = loc[p].addr]
  <2>1. r.addr = loc[p].addr
    BY DEF NoLoc
  <2> HIDE DEF r
  <2>2. Goto(p, "verified", r)
    BY <1>2 DEF r
  <2> QED  BY <2>1, <2>2 DEF Goto, GoesOn
<1> QED  BY <1>1, <1>2 DEF Return

LEMMA ProceedGoesOn ==
    ASSUME Quiet, NEW p, NEW a, NEW l \in {"store", "verified"}, Proceed(p, l, a, TRUE)
    PROVE  \E r : GoesOn(p, l, r, a)
<1> DEFINE r == [NoLoc EXCEPT !.addr = a]
<1>1. r.addr = a
  BY DEF NoLoc
<1>2. Goto(p, l, r)
  BY DEF Proceed, Quiet
<1> HIDE DEF r
<1> QED  BY <1>1, <1>2 DEF Goto, GoesOn

\* A page of another process that runs the same executable is mapped.
LEMMA SharedGood ==
    ASSUME VInv, IInv', NEW p \in Procs, cpu \in {p, NoProc}, pc[p] \in {"user", "verified", "share"},
           NEW a \in Addrs, a <= NFile, NEW q \in Sharers(p, a), pte[p][a].at = "none",
           pc[p] = "verified" => a = loc[p].addr, Shared(p, a, q, pte[q][a].n),
           NEW l, NEW r, GoesOn(p, l, r, a), l = "user" \/ a \notin Owned, l # "store",
           UNCHANGED <<data, swap>>, dir'[p] # 0, \A o \in Procs \ {p} : dir'[o] = dir[o]
    PROVE  Good
<1> Types
  BY DEF VInv, IInv
<1> DEFINE n == pte[q][a].n  e == [pte[q][a] EXCEPT !.rw = FALSE]
<1>1. /\ q \in Procs \ {p} /\ exe[q] = exe[p] /\ Droppable(pte[q][a])
      /\ pte[q][a].at = "page" /\ n \in Pages /\ Held(pte[q][a]) # 0
  <2>1. q \in Procs \ {p} /\ exe[q] = exe[p] /\ Droppable(pte[q][a])
    BY DEF Sharers
  <2> QED  BY <2>1, GraspPages DEF Droppable, Pages
<1>2. e.at = "page" /\ e.n = n /\ e.dirty = pte[q][a].dirty
  <2>1. pte[q][a] = InMemory(n, pte[q][a].rw, pte[q][a].dirty)
    BY <1>1, EntryFacts DEF Types
  <2> HIDE DEF n
  <2> QED  BY <2>1 DEF InMemory
<1> HIDE DEF n, e
<1>3. pte' = [pte EXCEPT ![q][a].rw = FALSE, ![p][a] = e]
  BY DEF Shared, e
<1>4. /\ pte'[p][a] = e /\ pte'[q][a] = e
      /\ \A o \in Procs, b \in Addrs : (o # p /\ o # q) \/ b # a => pte'[o][b] = pte[o][b]
  BY <1>1, <1>3 DEF Types, e
<1>5. /\ pc'[p] = l /\ loc'[p] = r /\ l \in {"user", "verified"} /\ Stage(p)' = l /\ exe' = exe
      /\ l = "verified" => r.addr = a /\ cpu' = p
      /\ \A o \in Procs \ {p} : pc'[o] = pc[o] /\ loc'[o] = loc[o]
  BY MovedAt DEF StageOf, GoesOn
<1>6. Near({p}, 0)
  <2>1. 0 \notin Pages
    BY DEF Pages
  <2>2. ASSUME NEW o \in Procs \ {p}, NEW b \in Addrs
        PROVE  \/ pte'[o][b] = pte[o][b]
               \/ /\ b <= NFile /\ Held(pte[o][b]) # 0
                  /\ pte'[o][b] = [pte[o][b] EXCEPT !.rw = FALSE]
    BY <1>1, <1>4 DEF e
  <2> QED  BY <1>5, <2>1, <2>2 DEF Near, swap
<1>7. Within(p, 0)
  BY <1>5, <1>6, WaitsAt DEF Within
<1>8. data'[n] = data[n] /\ (a \in Owned => data[n] = Initially(exe[p], a))
  BY <1>1, Others DEF n
<1>9. ASSUME NEW b \in Owned PROVE Value(p, b)' = Value(p, b)
  <2>1. CASE b = a
    <3>1. Value(p, a) = Initially(exe[p], a)
      BY DEF Value, ValueOf
    <3>2. Value(p, a)' = data'[n]
      BY <1>2, <1>4 DEF Value, ValueOf
    <3> QED  BY <1>8, <2>1, <3>1, <3>2
  <2>2. CASE b # a
    <3>1. \A s : OnDevice(s)' = OnDevice(s)
      BY <1>6, NearKept
    <3>2. pte'[p][b] = pte[p][b] /\ exe'[p] = exe[p] /\ data' = data
      BY <1>4, <1>5, <2>2
    <3> QED  BY <3>1, <3>2, ValueSame
  <2> QED  BY <2>1, <2>2
<1>10. ASSUME NEW b \in Owned, Droppable(pte'[p][b])
       PROVE  \/ Droppable(pte[p][b]) /\ ~Changing(p, b)
              \/ data'[pte'[p][b].n] = Initially(exe[p], b)
  <2>1. CASE b = a
    BY <1>2, <1>4, <1>8, <2>1
  <2>2. CASE b # a
    BY <1>4, <1>10, <2>2 DEF Changing
  <2> QED  BY <2>1, <2>2
<1>11. TableOf(p)'
  BY DEF TableOf
<1>12. Steady(p)' /\ Full(p)' /\ Child(p)'
  BY <1>5 DEF Steady, Full, Child, Forking
<1> QED  BY <1>5, <1>7, <1>9, <1>10, <1>11, <1>12, OwnStep

\* A store is one of the process' own memory.
LEMMA StoreSeen ==
    ASSUME NEW p \in Procs, NEW a \in Owned, NEW v, \A q \in Procs \ {p} : Silent(q),
           p \in Alive, p \in Alive', Reads(p, a)' = v,
           \A b \in Owned \ {a} : Reads(p, b)' = Reads(p, b)
    PROVE  Private!Store(p, a, v)
<1>1. Alive' = Alive
  BY DEF Silent, Alive
<1> DEFINE mem == [q \in Procs |-> [b \in Owned |-> Reads(q, b)]]
<1>2. mem' = [mem EXCEPT ![p][a] = v]
  <2>1. \A q \in Procs, b \in Owned : Reads(q, b)' = IF q = p /\ b = a THEN v ELSE Reads(q, b)
    BY DEF Silent
  <2>2. mem' = [q \in Procs |-> [b \in Owned |-> IF q = p /\ b = a THEN v ELSE Reads(q, b)]]
    BY <2>1
  <2>3. mem[p] = [b \in Owned |-> Reads(p, b)]
    OBVIOUS
  <2> QED  BY <2>2, <2>3
<1> QED  BY <1>1, <1>2 DEF Private!Store

LEMMA StoredGood ==
    ASSUME VInv, IInv', NEW p \in Procs, cpu \in {p, NoProc}, pc[p] \in {"user", "store", "verified"},
           NEW a \in Addrs, NEW v \in Vals, pc[p] # "user" => a = loc[p].addr,
           pte[p][a].at = "page", pte[p][a].rw \/ a \notin Owned, Stored(p, a, v)
    PROVE  Good
<1> Types /\ Types' /\ Hand(p)
  BY DEF VInv, IInv, ValuesOK
<1>0. PICK n : n = pte[p][a].n
  OBVIOUS
<1>1. /\ n \in Pages /\ Foreign({p}, n) /\ Unasked(n)
      /\ \A b \in Owned : Held(pte[p][b]) = n => b = a
  <2>1. Held(pte[p][a]) = n /\ n \in Pages
    BY <1>0, GraspPages
  <2>2. CASE pte[p][a].rw
    <3>1. mem_map[n] = 1
      BY <1>0, <2>2 DEF VInv, Sole
    <3>2. Foreign({p}, n) /\ Unasked(n)
      BY <2>1, <3>1, EntryPage
    <3>3. \A b \in Owned : Held(pte[p][b]) = n => b = a
      BY <2>1, <3>1, EntryAlone
    <3> QED  BY <2>1, <3>2, <3>3
  <2>3. CASE a \notin Owned
    BY <2>1, <2>3, SharedPage
  <2> QED  BY <2>2, <2>3
<1>2. /\ pte'[p][a].at = "page" /\ pte'[p][a].n = n /\ pte'[p][a].dirty
      /\ \A q \in Procs, b \in Addrs : q # p \/ b # a => pte'[q][b] = pte[q][b]
  <2>1. pte[p][a] = InMemory(n, pte[p][a].rw, pte[p][a].dirty)
    BY <1>0, GraspPages, EntryFacts
  <2>2. pte'[p][a] = [pte[p][a] EXCEPT !.dirty = TRUE]
    BY DEF Stored, Types
  <2>3. \A q \in Procs, b \in Addrs : q # p \/ b # a => pte'[q][b] = pte[q][b]
    BY DEF Stored, Types
  <2> QED  BY <2>1, <2>2, <2>3 DEF InMemory
<1>3. Moved(p, "user", NoLoc) /\ exe' = exe /\ UNCHANGED <<dir, queue, swapped>>
  BY DEF Stored, Sleep, swap
<1>4. pc'[p] = "user" /\ Stage(p)' = "user" /\ \A q \in Procs \ {p} : pc'[q] = pc[q] /\ loc'[q] = loc[q]
  BY <1>3, MovedAt DEF StageOf
<1>5. data'[n] = v /\ \A m \in Pages : m # n => data'[m] = data[m]
  <2>1. data' = [data EXCEPT ![n] = v]
    BY <1>0 DEF Stored
  <2> QED  BY <1>1, <2>1 DEF Types
<1>6. Near({p}, n)
  BY <1>1, <1>2, <1>3, <1>4, <1>5 DEF Near
<1>7. Kept({p}) /\ \A s : OnDevice(s)' = OnDevice(s)
  BY <1>6, NearKept
<1>8. Party(p, {p})
  BY DEF Party
<1>9. QueueOK'
  BY <1>3, <1>4, <1>7, WaitsAt, QueueSame
<1>10. ASSUME NEW b \in Owned, b # a
       PROVE  /\ Value(p, b)' = Value(p, b)
              /\ pte[p][b].at = "page" => data'[pte[p][b].n] = data[pte[p][b].n]
  <2>1. pte[p][b].at = "page" => pte[p][b].n \in Pages /\ pte[p][b].n # n
    BY <1>1, <1>10, GraspPages
  <2>2. pte[p][b].at = "page" => data'[pte[p][b].n] = data[pte[p][b].n]
    BY <1>5, <2>1
  <2> QED  BY <1>2, <1>3, <1>7, <1>10, <2>2, ValueSame
<1>11. Clean(p)'
  <2> SUFFICES ASSUME NEW b \in Owned, Droppable(pte'[p][b])
               PROVE  data'[pte'[p][b].n] = Initially(exe'[p], b)
    BY DEF Clean
  <2>1. b # a
    BY <1>2 DEF Droppable
  <2>2. pte'[p][b] = pte[p][b] /\ ~Changing(p, b)
    BY <1>2, <2>1 DEF Changing
  <2> QED  BY <1>3, <1>10, <2>1, <2>2 DEF Hand, Clean, Droppable
<1>12. TableOf(p)'
  <2>1. dir[p] # 0
    BY DEF Hand, TableOf
  <2> QED  BY <1>3, <2>1 DEF TableOf
<1>13. \A q \in Procs : Hand(q)'
  BY <1>4, <1>7, <1>8, <1>11, <1>12, HandPlain, KeptHand
<1>14. CASE a \in Owned
  <2>1. p \in Alive /\ p \in Alive' /\ pc[p] # "exec" /\ pc'[p] # "exec"
    BY <1>4 DEF Alive
  <2>2. \A b \in Owned : Reads(p, b) = Value(p, b) /\ Reads(p, b)' = Value(p, b)'
    BY <2>1, ReadsIs, ReadsWillBe
  <2>3. Value(p, a)' = v
    BY <1>2, <1>5 DEF Value, ValueOf
  <2>4. Private!Store(p, a, v)
    BY <1>7, <1>10, <1>14, <2>1, <2>2, <2>3, KeptSilent, StoreSeen
  <2>5. Private!Next
    BY <1>14, <2>4 DEF Private!Next
  <2> QED  BY <1>9, <1>13, <2>5 DEF Good, ValuesOK
<1>15. CASE a \notin Owned
  <2>1. \A b \in Owned : Value(p, b)' = Value(p, b)
    BY <1>10, <1>15
  <2>2. Silent(p)
    BY <1>4, <2>1, LivingSilent DEF Living
  <2>3. \A q \in Procs : Silent(q)
    BY <1>7, <2>2, KeptSilent
  <2>4. UNCHANGED Private!vars
    BY <2>3, AllSilent
  <2> QED  BY <1>9, <1>13, <2>4 DEF Good, ValuesOK
<1> QED  BY <1>14, <1>15

LEMMA FaultGood ==
    ASSUME VInv, IInv', NEW p \in Procs, cpu \in {p, NoProc}, NEW t \in {"user", "verified"},
           pc[p] = t, NEW a \in Addrs, t = "verified" => a = loc[p].addr, do_no_page(p, a, t)
    PROVE  Good
<1> Types /\ Hand(p)
  BY DEF VInv, IInv, ValuesOK
<1> DEFINE r == [NoLoc EXCEPT !.addr = a, !.ret = t]
<1>1. r \in Locs /\ r.addr = a /\ r.ret = t
  <2>1. r = FaultLoc(a, t)
    BY DEF FaultLoc
  <2> HIDE DEF r
  <2> QED  BY <2>1, LocNoPage
<1>2. pte[p][a].at # "page" => \A b \in Addrs : ~(Droppable(pte[p][b]) /\ Changing(p, b))
  BY DEF Changing, Droppable
<1>3. pte[p][a].at = "none" /\ a <= NFile /\ Sharers(p, a) # {} => t = "user" \/ a \notin Owned
  BY DEF Hand, Steady
<1>4. ASSUME NEW y \in {"swapin", "bread", "empty"}, Call(p, y, r),
             UNCHANGED <<mem_map, data, tables, swap>>, pte[p][a].at # "page",
             y = "empty" => a > NFile, y = "bread" => a <= NFile
      PROVE  Good
  <2> HIDE DEF r
  <2>1. y \in Callers /\ y \notin Forking /\ y \notin {"share", "table"}
    BY DEF Callers, Forking
  <2> QED  BY <1>1, <1>2, <1>4, <2>1, CallGood
<1>5. CASE pte[p][a].at = "none" /\ a <= NFile /\ share_page(p, a, r)
  <2>1. PICK q \in Sharers(p, a) :
          \/ /\ dir[p] # 0
             /\ Shared(p, a, q, pte[q][a].n)
             /\ IF r.ret = "user" THEN Sleep(p, "user", NoLoc) ELSE Goto(p, "verified", r)
             /\ UNCHANGED <<data, dir, swap>>
          \/ /\ dir[p] = 0
             /\ Call(p, "share", [r EXCEPT !.other = pte[q][a].n, !.who = q])
             /\ UNCHANGED <<mem_map, data, tables, swap>>
    BY <1>5 DEF share_page
  <2>2. (t = "user" \/ a \notin Owned) /\ q \in Procs \ {p} /\ pte[q][a].at = "page" /\ pte[q][a].n \in Pages
    BY <1>3, <1>5, GraspPages DEF Sharers, Droppable
  <2>3. CASE /\ dir[p] # 0
             /\ Shared(p, a, q, pte[q][a].n)
             /\ IF r.ret = "user" THEN Sleep(p, "user", NoLoc) ELSE Goto(p, "verified", r)
             /\ UNCHANGED <<data, dir, swap>>
    <3> HIDE DEF r
    <3>1. \/ t = "user" /\ GoesOn(p, "user", NoLoc, a)
          \/ t = "verified" /\ a \notin Owned /\ GoesOn(p, "verified", r, a)
      BY <1>1, <2>2, <2>3 DEF Sleep, Goto, GoesOn
    <3> QED  BY <1>5, <2>2, <2>3, <3>1, SharedGood
  <2>4. CASE /\ dir[p] = 0
             /\ Call(p, "share", [r EXCEPT !.other = pte[q][a].n, !.who = q])
             /\ UNCHANGED <<mem_map, data, tables, swap>>
    <3> DEFINE n == pte[q][a].n
               v == [r EXCEPT !.other = n, !.who = q]
    <3> HIDE DEF n, r
    <3>1. v \in Locs /\ v.addr = a /\ v.who = q /\ v.ret = t
      <4>1. v = ShareLoc(r, n, q) /\ n \in Maybe(Pages)
        BY <2>2 DEF Maybe, ShareLoc, n
      <4>2. v.ret = r.ret
        BY <1>1 DEF Locs
      <4> HIDE DEF v
      <4> QED  BY <1>1, <2>2, <4>1, <4>2, LocShare
    <3> HIDE DEF v
    <3>2. "share" \in Callers \ Forking
      BY DEF Callers, Forking
    <3>3. Call(p, "share", v)
      BY <2>4 DEF n, v, r
    <3> QED  BY <1>2, <1>5, <2>2, <2>4, <3>1, <3>2, <3>3, CallGood
  <2> QED  BY <2>1, <2>3, <2>4
<1>6. CASE \/ pte[p][a].at = "swap" /\ Call(p, "swapin", r) /\ UNCHANGED <<mem_map, data, tables, swap>>
           \/ /\ pte[p][a].at = "none" /\ a <= NFile
              /\ Call(p, "bread", r) /\ UNCHANGED <<mem_map, data, tables, swap>>
           \/ /\ pte[p][a].at = "none" /\ a > NFile
              /\ Call(p, "empty", r) /\ UNCHANGED <<mem_map, data, tables, swap>>
  <2> HIDE DEF r
  <2>1. ~(a > NFile) <=> a <= NFile
    BY SizesAssumption DEF Addrs
  <2> QED  BY <1>4, <1>6, <2>1
<1> QED  BY <1>5, <1>6 DEF do_no_page

\* The faults and the stores of a process, and those of the kernel on its behalf.
LEMMA WriteVerifyGood ==
    ASSUME VInv, IInv', NEW p \in Procs, NEW a \in Addrs, write_verify(p, a)
    PROVE  Good
<1> Types
  BY DEF VInv, IInv
<1>1. cpu \in {p, NoProc} /\ pc[p] = "user"
  BY DEF write_verify, At
<1>2. CASE ReadOnly(pte[p][a]) /\ un_wp_page(p, a, "verified")
  BY <1>1, <1>2, UnWpGood DEF ReadOnly
<1>3. CASE ~(ReadOnly(pte[p][a]) /\ un_wp_page(p, a, "verified"))
  <2> DEFINE r == [NoLoc EXCEPT !.addr = a]
  <2>0. r.addr = a
    BY DEF NoLoc
  <2>1. /\ pte[p][a].at = "page" => pte[p][a].rw
        /\ Risks = {} /\ pte[p][a].at = "none" /\ a <= NFile => Sharers(p, a) = {}
        /\ Goto(p, "verified", r) \/ (Sleep(p, "verified", r) /\ Risks # {})
        /\ UNCHANGED <<mem_map, data, tables, swap>>
    BY <1>3 DEF write_verify, ReadOnly
  <2>2. /\ Moved(p, "verified", r) /\ exe' = exe /\ UNCHANGED <<data, pte, dir, queue, swapped>>
        /\ Risks = {} => cpu' = p
    BY <2>1 DEF Goto, Sleep, tables, swap
  <2> HIDE DEF r
  <2>3. pc'[p] = "verified" /\ loc'[p] = r /\ Stage(p)' = "verified"
    BY <2>2, MovedAt DEF StageOf
  <2>4. Sharers(p, a)' = Sharers(p, a)
    BY <2>2 DEF Sharers
  <2>5. Steady(p)' /\ Full(p)' /\ Child(p)'
    <3>1. a \in Owned /\ Risks # {} => ~(a <= NFile)
      BY OwnedZero
    <3> QED  BY <2>0, <2>1, <2>2, <2>3, <2>4, <3>1 DEF Steady, Full, Child, Forking
  <2>6. \A b \in Addrs : ~Changing(p, b)
    BY <1>1 DEF Changing
  <2> QED  BY <1>1, <2>2, <2>5, <2>6, WaitsAt, StillStep
<1> QED  BY <1>2, <1>3

LEMMA UserGood ==
    ASSUME VInv, IInv', NEW p \in Procs, NEW a \in Addrs,
           do_wp_page(p, a) \/ Fault(p, a) \/ write_verify(p, a) \/ \E v \in Vals : Write(p, a, v)
    PROVE  Good
<1>1. CASE do_wp_page(p, a)
  BY <1>1, UnWpGood DEF do_wp_page, At, ReadOnly
<1>2. CASE Fault(p, a)
  BY <1>2, FaultGood DEF Fault, At
<1>3. CASE write_verify(p, a)
  BY <1>3, WriteVerifyGood
<1>4. CASE \E v \in Vals : Write(p, a, v)
  BY <1>4, StoredGood DEF Write, At, Allowed
<1> QED  BY <1>1, <1>2, <1>3, <1>4

LEMMA StoreGood ==
    ASSUME VInv, IInv', NEW p \in Procs, NEW v \in Vals, Restart(p, v) \/ KernelWrite(p, v)
    PROVE  Good
<1> Types /\ Place(p) /\ Hand(p)
  BY DEF VInv, IInv, PlaceOK, ValuesOK
<1> DEFINE a == loc[p].addr
<1>1. cpu \in {p, NoProc} /\ pc[p] \in {"store", "verified"} /\ a \in Addrs
  <2>1. cpu \in {p, NoProc} /\ pc[p] \in {"store", "verified"}
    BY DEF Restart, KernelWrite, At
  <2> QED  BY <2>1 DEF Place, Serving, Stage, StageOf
<1>2. CASE Restart(p, v) /\ Allowed(pte[p][a])
  <2>1. PICK b \in Addrs : b = loc[p].addr
    BY <1>1
  <2> QED  BY <1>1, <1>2, <2>1, StoredGood DEF Restart, Allowed
<1>3. CASE Restart(p, v) /\ ~Allowed(pte[p][a])
  <2>1. /\ Moved(p, "user", NoLoc) /\ exe' = exe /\ UNCHANGED <<data, pte, dir, queue, swapped>>
        /\ pc[p] = "store"
    BY <1>3 DEF Restart, At, Sleep, tables, swap
  <2>2. Stage(p)' = "user"
    BY <2>1, MovedAt DEF StageOf
  <2>3. \A b \in Addrs : ~(Droppable(pte[p][b]) /\ Changing(p, b))
    BY <1>3, <2>1 DEF Changing, Droppable, Allowed
  <2>4. "user" \notin {"unused", "making", "exec", "reading", "forkread"}
    OBVIOUS
  <2> QED  BY <1>1, <2>1, <2>2, <2>3, <2>4, WaitsAt, IdleStage, StillStep
<1>4. CASE KernelWrite(p, v)
  <2>1. PICK b \in Addrs : b = loc[p].addr
    BY <1>1
  <2>2. pc[p] = "verified" /\ (pte[p][b].at = "page" => pte[p][b].rw \/ b \notin Owned)
    BY <1>4, <2>1 DEF KernelWrite, At, Hand, Steady
  <2>3. (pte[p][b].at = "page" /\ Stored(p, b, v)) \/ do_no_page(p, b, "verified")
    BY <1>4, <2>1 DEF KernelWrite
  <2> QED  BY <1>1, <2>1, <2>2, <2>3, StoredGood, FaultGood
<1> QED  BY <1>2, <1>3, <1>4 DEF Restart

----------------------------------------------------------------------------
(* get_free_page() and swap_out()                                          *)

\* What the caller of get_free_page() knows is as it was.
LEMMA SameKnown ==
    ASSUME VInv, NEW p \in Procs, pc[p] \in {"free", "swapout"}, NEW l, NEW r,
           pc'[p] = l, loc'[p] = r, StageOf(l, r) = Stage(p), exe' = exe, dir' = dir,
           r.addr = loc[p].addr, r.page = loc[p].page, r.who = loc[p].who, r.ret = loc[p].ret,
           l = "empty" /\ r.got # 0 => data'[r.got] = "zero",
           \A n \in Grasp(loc[p]) \ {0} : data'[n] = data[n],
           \A q \in Procs, a \in Owned : Value(q, a)' = Value(q, a),
           Stage(p) = "share" => pte' = pte
    PROVE  Steady(p)' /\ Full(p)' /\ Child(p)'
<1>1. Place(p) /\ Hand(p)
  BY DEF VInv, IInv, PlaceOK, ValuesOK
<1>2. Stage(p)' = Stage(p) /\ Stage(p) \in Callers
  BY <1>1 DEF Stage, StageOf, Place, Holding
<1>3. pc'[p] \notin {"exec", "store", "verified"}
  BY <1>2 DEF Stage, StageOf, Callers
<1>4. Stage(p) = "share" => \A a : Sharers(p, a)' = Sharers(p, a)
  BY DEF Sharers
<1>5. Steady(p)'
  BY <1>1, <1>2, <1>3, <1>4 DEF Hand, Steady
<1>6. Full(p)'
  <2>1. Stage(p) \in {"put", "table"} => data'[loc[p].page] = data[loc[p].page]
    BY <1>1 DEF Place, Holding, Grasp
  <2> QED  BY <1>1, <1>2, <2>1 DEF Hand, Full
<1>7. Child(p)'
  <2>1. Stage(p) \in Forking => loc[p].who \in Procs
    BY <1>1 DEF Place, Making
  <2> QED  BY <1>1, <1>2, <2>1 DEF Hand, Child, Forking
<1> QED  BY <1>5, <1>6, <1>7

LEMMA GetFreePageGood ==
    ASSUME VInv, IInv', NEW p \in Procs, GetFreePage(p)
    PROVE  Good
<1> Types /\ IInv
  BY DEF VInv, IInv
<1>1. PICK n \in Pages :
        /\ mem_map[n] = 0 /\ data' = [data EXCEPT ![n] = "zero"]
        /\ Goto(p, loc[p].why, [loc[p] EXCEPT !.got = n])
        /\ UNCHANGED <<tables, swap>>
  BY DEF GetFreePage
<1> DEFINE r == [loc[p] EXCEPT !.got = n]
<1>2. cpu \in {p, NoProc} /\ pc[p] = "free" /\ loc[p].why \in Callers /\ Stage(p) = loc[p].why
  BY InGetFree DEF GetFreePage, At
<1>3. /\ r.got = n /\ r.addr = loc[p].addr /\ r.page = loc[p].page /\ r.who = loc[p].who
      /\ r.ret = loc[p].ret /\ r.why = loc[p].why
  BY GraspPages, LocGot DEF Maybe
<1>4. Moved(p, loc[p].why, r) /\ exe' = exe /\ UNCHANGED <<pte, dir, queue, swapped>>
  BY <1>1 DEF Goto, tables, swap
<1> HIDE DEF r
<1>5. /\ pc'[p] = loc[p].why /\ loc'[p] = r /\ StageOf(loc[p].why, r) = Stage(p)
      /\ \A q \in Procs \ {p} : pc'[q] = pc[q] /\ loc'[q] = loc[q]
  BY <1>2, <1>4, MovedAt DEF StageOf, Callers
<1>6. Foreign({}, n) /\ Unasked(n)
  BY <1>1, FreePage
<1>7. data'[n] = "zero" /\ \A m \in Pages : m # n => data'[m] = data[m]
  BY <1>1 DEF Types
<1>8. Near({p}, n)
  BY <1>4, <1>5, <1>6, <1>7 DEF Near, Foreign
<1>9. Within(p, n)
  BY <1>2, <1>4, <1>5, <1>8, WaitsAt DEF Within, Callers
<1>10. \A q \in Procs, a \in Owned : Held(pte[q][a]) # n
  BY <1>6 DEF Foreign
<1>11. \A m \in Grasp(loc[p]) \ {0} : data'[m] = data[m]
  <2>1. \A m \in Grasp(loc[p]) \ {0} : m \in Pages /\ m # n
    BY <1>6, GraspPages DEF Foreign
  <2> QED  BY <1>7, <2>1
<1>12. ASSUME NEW q \in Procs, NEW a \in Owned PROVE Value(q, a)' = Value(q, a)
  <2>1. pte[q][a].at = "page" => data'[pte[q][a].n] = data[pte[q][a].n]
    <3>1. pte[q][a].at = "page" => pte[q][a].n \in Pages /\ pte[q][a].n # n
      BY <1>10, GraspPages
    <3> QED  BY <1>7, <3>1
  <2>2. \A s : OnDevice(s)' = OnDevice(s)
    BY <1>8, NearKept
  <2> QED  BY <1>4, <2>1, <2>2, ValueSame
<1>13. \A a \in Addrs : ~Changing(p, a)
  BY <1>2 DEF Changing
<1>14. Steady(p)' /\ Full(p)' /\ Child(p)'
  BY <1>2, <1>3, <1>4, <1>5, <1>7, <1>11, <1>12, SameKnown
<1> QED  BY <1>4, <1>9, <1>10, <1>13, <1>14, MoveStep

LEMMA WaitedGood ==
    ASSUME VInv, IInv', NEW p \in Procs, SwappedOut(p) \/ OutOfSwap(p)
    PROVE  Good
<1> Types /\ IInv /\ Place(p)
  BY DEF VInv, IInv, PlaceOK
<1>1. /\ cpu \in {p, NoProc} /\ pc[p] \in {"free", "swapout"} /\ ~Waiting(p)
      /\ loc[p].why \in Callers /\ Stage(p) = loc[p].why
  <2>1. cpu \in {p, NoProc} /\ pc[p] \in {"free", "swapout"} /\ ~Waiting(p)
    BY WaitsAt DEF SwappedOut, OutOfSwap, NoneFree, At
  <2> QED  BY <2>1 DEF Place, Holding, Stage, StageOf
<1>2. PICK l \in {"free", loc[p].why}, r \in Locs :
        /\ Moved(p, l, r) /\ exe' = exe /\ UNCHANGED <<data, pte, dir, queue, swapped>>
        /\ r.addr = loc[p].addr /\ r.page = loc[p].page /\ r.who = loc[p].who
        /\ r.ret = loc[p].ret /\ r.why = loc[p].why /\ r.got = loc[p].got
  <2>1. CASE SwappedOut(p)
    <3> DEFINE r == [loc[p] EXCEPT !.out = 0]
    <3>1. /\ r \in Locs /\ r.addr = loc[p].addr /\ r.page = loc[p].page /\ r.who = loc[p].who
          /\ r.ret = loc[p].ret /\ r.why = loc[p].why /\ r.got = loc[p].got
      BY GraspPages, LocOut DEF Maybe
    <3>2. Moved(p, "free", r) /\ exe' = exe /\ UNCHANGED <<data, pte, dir, queue, swapped>>
      BY <2>1 DEF SwappedOut, Goto, tables, swap
    <3> HIDE DEF r
    <3> QED  BY <3>1, <3>2
  <2>2. CASE OutOfSwap(p)
    <3>1. Moved(p, loc[p].why, loc[p]) /\ exe' = exe /\ UNCHANGED <<data, pte, dir, queue, swapped>>
      BY <2>2 DEF OutOfSwap, Goto, tables, swap
    <3> QED  BY <3>1, GraspPages
  <2> QED  BY <2>1, <2>2
<1>3. pc'[p] = l /\ loc'[p] = r /\ StageOf(l, r) = Stage(p)
  BY <1>1, <1>2, MovedAt DEF StageOf, Callers
<1>4. loc[p].got = 0
  BY <1>1 DEF Place, Holding, Callers
<1>5. \A a \in Addrs : ~Changing(p, a)
  BY <1>1 DEF Changing
<1>6. \A q \in Procs, a \in Owned : Value(q, a)' = Value(q, a)
  <2>1. \A s : OnDevice(s)' = OnDevice(s)
    BY <1>2, StillNear, NearKept
  <2> QED  BY <1>2, <2>1, ValueSame
<1>7. Steady(p)' /\ Full(p)' /\ Child(p)'
  BY <1>1, <1>2, <1>3, <1>4, <1>6, SameKnown
<1>8. l \notin {"unused", "making", "exec", "reading", "forkread"}
  BY <1>1, <1>2 DEF Callers
<1> QED  BY <1>1, <1>2, <1>5, <1>7, <1>8, StillStep

\* try_to_swap_out() of an entry that stands for the same before and after.
Evicted(p, q, a) ==
    /\ NoneFree(p) /\ pte[q][a].at = "page"
    /\ exe' = exe /\ dir' = dir /\ data' = data /\ swapped' = swapped
    /\ \A o \in Procs, b \in Addrs : o # q \/ b # a => pte'[o][b] = pte[o][b]
    /\ pte'[q][a].at # "page"
    /\ \A o \in Procs, b \in Owned : Value(o, b)' = Value(o, b)

LEMMA EvictedKept ==
    ASSUME VInv, NEW p \in Procs, NEW q \in Procs, NEW a \in Addrs, Evicted(p, q, a),
           NEW l, NEW r, Moved(p, l, r)
    PROVE  Kept({p})
<1>1. \A o \in Procs \ {p} : pc'[o] = pc[o] /\ loc'[o] = loc[o]
  BY MovedAt DEF VInv, IInv
<1> QED  BY <1>1 DEF Kept, Evicted, Droppable

LEMMA EvictedGood ==
    ASSUME VInv, IInv', NEW p \in Procs, NEW q \in Procs, NEW a \in Addrs, Evicted(p, q, a),
           NEW l \in {"free", "swapout"}, NEW r \in Locs, Moved(p, l, r), QueueOK',
           r.addr = loc[p].addr, r.page = loc[p].page, r.who = loc[p].who, r.ret = loc[p].ret,
           r.why = loc[p].why
    PROVE  Good
<1> Types /\ Types' /\ IInv /\ Place(p) /\ Hand(p)
  BY DEF VInv, IInv, PlaceOK, ValuesOK
<1>1. cpu \in {p, NoProc} /\ pc[p] = "free" /\ loc[p].why \notin {"wp", "share"} /\ Stage(p) = loc[p].why
  BY MayWait DEF Evicted, NoneFree, At
<1>2. Kept({p}) /\ Party(p, {p})
  BY <1>1, EvictedKept DEF Party
<1>3. pc'[p] = l /\ loc'[p] = r /\ StageOf(l, r) = Stage(p)
  BY <1>1, MovedAt DEF StageOf
<1>4. Silent(p)
  BY <1>1, <1>3, LivingSilent DEF Living, Evicted
<1>5. Steady(p)' /\ Full(p)' /\ Child(p)'
  BY <1>1, <1>3, SameKnown DEF Evicted
<1>6. Clean(p)'
  <2> SUFFICES ASSUME NEW b \in Owned, Droppable(pte'[p][b])
               PROVE  data'[pte'[p][b].n] = Initially(exe'[p], b)
    BY DEF Clean
  <2>1. pte'[p][b] = pte[p][b] /\ ~Changing(p, b)
    BY <1>1 DEF Evicted, Droppable, Changing
  <2> QED  BY <2>1 DEF Evicted, Hand, Clean
<1>7. TableOf(p)'
  BY DEF TableOf, Hand, Evicted
<1>8. Hand(p)'
  BY <1>5, <1>6, <1>7 DEF Hand
<1> QED  BY <1>2, <1>4, <1>8, QuietStep

LEMMA DropGood ==
    ASSUME VInv, IInv', NEW p \in Procs, NEW q \in Procs, NEW a \in Addrs, Drop(p, q, a)
    PROVE  Good
<1> Types /\ IInv
  BY DEF VInv, IInv
<1>1. /\ NoneFree(p) /\ Droppable(pte[q][a]) /\ pte' = [pte EXCEPT ![q][a] = NoEntry]
      /\ Moved(p, "free", loc[p]) /\ exe' = exe /\ UNCHANGED <<data, dir, queue, swapped>>
  BY DEF Drop, Goto, swap
<1>2. cpu \in {p, NoProc} /\ pc[p] = "free"
  BY <1>1 DEF NoneFree, At
<1>3. /\ pte'[q][a] = NoEntry
      /\ \A o \in Procs, b \in Addrs : o # q \/ b # a => pte'[o][b] = pte[o][b]
  BY <1>1 DEF Types
<1>4. \A s : OnDevice(s)' = OnDevice(s)
  BY <1>1, DeviceSame
<1>5. a \in Owned => data[pte[q][a].n] = Initially(exe[q], a)
  <2>1. CASE q = p
    BY <1>1, <1>2, <2>1 DEF VInv, ValuesOK, Hand, Clean, Changing
  <2>2. CASE q # p
    BY <1>1, <1>2, <2>2, Others
  <2> QED  BY <2>1, <2>2
<1>6. ASSUME NEW o \in Procs, NEW b \in Owned PROVE Value(o, b)' = Value(o, b)
  <2>1. CASE o = q /\ b = a
    <3>1. Value(q, a) = Initially(exe[q], a)
      BY <1>1, <1>5, <2>1 DEF Value, ValueOf, Droppable
    <3>2. Value(q, a)' = Initially(exe'[q], a)
      BY <1>3 DEF Value, ValueOf, NoEntry
    <3> QED  BY <1>1, <2>1, <3>1, <3>2
  <2>2. CASE o # q \/ b # a
    BY <1>1, <1>3, <1>4, <2>2, ValueSame
  <2> QED  BY <2>1, <2>2
<1>7. Evicted(p, q, a)
  BY <1>1, <1>3, <1>6 DEF Evicted, Droppable, NoEntry
<1>8. QueueOK'
  <2>1. \A o \in {p} : ~Waiting(o) /\ pc'[o] \notin {"reading", "forkread"}
    BY <1>1, <1>2, WaitsAt, MovedAt
  <2> QED  BY <1>1, <1>7, <2>1, EvictedKept, QueueSame
<1>9. loc[p] \in Locs
  BY GraspPages
<1> QED  BY <1>1, <1>7, <1>8, <1>9, EvictedGood

LEMMA SwapOutGood ==
    ASSUME VInv, IInv', NEW p \in Procs, NEW q \in Procs, NEW a \in Addrs, SwapOut(p, q, a)
    PROVE  Good
<1> Types /\ IInv
  BY DEF VInv, IInv
<1>0. PICK n : n = pte[q][a].n
  OBVIOUS
<1>1. PICK nr \in spare :
        /\ pte' = [pte EXCEPT ![q][a] = OnSwap(nr)]
        /\ queue' = Append(queue, [cmd |-> "write", nr |-> nr, page |-> n, by |-> p])
        /\ Moved(p, "swapout", [loc[p] EXCEPT !.out = n])
        /\ exe' = exe /\ UNCHANGED <<data, dir, swapped>>
  BY <1>0 DEF SwapOut, Sleep
<1>2. /\ NoneFree(p) /\ pte[q][a].at = "page" /\ n \in Pages /\ nr \in SwapNrs
      /\ cpu \in {p, NoProc} /\ pc[p] = "free"
  BY <1>0, GraspPages DEF SwapOut, NoneFree, At, Writable, Types
<1> DEFINE w == [cmd |-> "write", nr |-> nr, page |-> n, by |-> p]  r == [loc[p] EXCEPT !.out = n]
<1>3. w \in Requests /\ w.cmd = "write" /\ w.nr = nr /\ w.page = n /\ w.by = p
  BY <1>2 DEF Requests
<1>4. /\ r \in Locs /\ r.addr = loc[p].addr /\ r.page = loc[p].page /\ r.who = loc[p].who
      /\ r.ret = loc[p].ret /\ r.why = loc[p].why /\ r.out = n
  BY <1>2, GraspPages, LocOut DEF Maybe
<1>5. queue' = Append(queue, w) /\ Moved(p, "swapout", r)
  BY <1>1
<1> HIDE DEF w, r
<1>6. /\ pte'[q][a] = OnSwap(nr)
      /\ \A o \in Procs, b \in Addrs : o # q \/ b # a => pte'[o][b] = pte[o][b]
  BY <1>1 DEF Types
<1>7. /\ OnDevice(nr)' = data[n]
      /\ \A s : s # nr => OnDevice(s)' = OnDevice(s)
  <2>1. \A k : k = w.nr => OnDevice(k)' = data[w.page]
    BY <1>1, <1>3, <1>5, DeviceWrite
  <2>2. \A s : s # w.nr => OnDevice(s)' = OnDevice(s)
    BY <1>1, <1>3, <1>5, DeviceWrite
  <2> QED  BY <1>3, <2>1, <2>2
<1>8. ASSUME NEW o \in Procs, NEW b \in Owned PROVE Value(o, b)' = Value(o, b)
  <2>1. CASE o = q /\ b = a
    <3>1. Value(q, a) = data[n]
      BY <1>0, <1>2 DEF Value, ValueOf
    <3>2. pte'[q][a].at = "swap" /\ pte'[q][a].n = nr
      BY <1>6 DEF OnSwap
    <3>3. Value(q, a)' = data[n]
      <4>1. \A s : s = nr => OnDevice(s)' = data[n]
        BY <1>7
      <4>2. OnDevice(pte[q][a].n)' = data[n]
        BY <3>2, <4>1
      <4> QED  BY <3>2, <4>2 DEF Value, ValueOf
    <3> QED  BY <2>1, <3>1, <3>3
  <2>2. CASE o # q \/ b # a
    <3>1. pte'[o][b] = pte[o][b] /\ exe'[o] = exe[o] /\ data' = data
      BY <1>1, <1>6, <2>2
    <3>2. CASE pte[o][b].at = "swap"
      <4>1. pte[o][b].n # nr
        BY <3>2 DEF IInv, SwapOK
      <4>2. PICK s : s = pte[o][b].n
        OBVIOUS
      <4>3. OnDevice(s)' = OnDevice(s)
        BY <1>7, <4>1, <4>2
      <4>4. OnDevice(pte[o][b].n)' = OnDevice(s)
        BY <3>1, <4>2, <4>3
      <4> QED  BY <3>1, <3>2, <4>2, <4>4 DEF Value, ValueOf
    <3>3. CASE pte[o][b].at # "swap"
      <4>1. pte[o][b].at \in {"none", "page"}
        BY <3>3, GraspPages, EntryFacts
      <4> QED  BY <3>1, <4>1 DEF Value, ValueOf
    <3> QED  BY <3>2, <3>3
  <2> QED  BY <2>1, <2>2
<1>9. Evicted(p, q, a)
  BY <1>1, <1>2, <1>6, <1>8 DEF Evicted, OnSwap
<1>10. QueueOK'
  <2>1. Kept({p})
    BY <1>5, <1>9, EvictedKept
  <2>2. pc'[p] = "swapout" /\ loc'[p] = r
    BY <1>5, MovedAt
  <2>3. ~Waiting(p)
    BY <1>2, WaitsAt
  <2> QED  BY <1>1, <1>3, <1>4, <1>5, <2>1, <2>2, <2>3, QueueMore
<1> QED  BY <1>4, <1>5, <1>9, <1>10, EvictedGood

----------------------------------------------------------------------------
(* The disk                                                                *)

\* The first request is done: what it writes is nobody's but the one's that waits.
Served(r, q) ==
    /\ r = queue[1] /\ r \in Requests /\ q = r.by /\ q \in Procs /\ Asked(1)
    /\ queue # <<>> /\ queue' = Tail(queue)
    /\ UNCHANGED <<cpu, mem_map, dir, pte, spare, exe, pc, loc>>
    /\ r.cmd = "read" => swapped' = swapped /\ data'[r.page] = swapped[r.nr]
    /\ r.cmd = "write" => data' = data /\ swapped'[r.nr] = data[r.page]
    /\ \A n \in Pages : data'[n] = data[n] \/ (r.cmd = "read" /\ n = r.page)
    /\ \A s \in SwapNrs : swapped'[s] = swapped[s] \/ (r.cmd = "write" /\ s = r.nr)
    /\ r.cmd = "read" => /\ Foreign({q}, r.page) /\ Unasked(r.page)
                         /\ \A o \in Procs, b \in Addrs : Held(pte[o][b]) # r.page

LEMMA CompleteServes ==
    ASSUME VInv, Complete
    PROVE  \E r, q : Served(r, q)
<1> Types /\ QueueOK
  BY DEF VInv, IInv, ValuesOK
<1>1. PICK r : r = queue[1]
  OBVIOUS
<1>2. PICK q : q = r.by
  OBVIOUS
<1>3. queue # <<>> /\ queue' = Tail(queue) /\ UNCHANGED <<cpu, mem_map, dir, pte, spare, exe, pc, loc>>
  BY DEF Complete, tables
<1>4. r \in Requests /\ q \in Procs /\ Head(queue) = r /\ 1 \in DOMAIN queue
  <2>1. Head(queue) = queue[1] /\ queue[1] \in Requests /\ 1 \in DOMAIN queue
    BY <1>3, Tailed DEF Types
  <2> QED  BY <1>1, <1>2, <2>1 DEF Requests
<1>5. Asked(1)
  BY <1>4 DEF QueueOK
<1>6. r.page \in Pages /\ r.nr \in SwapNrs /\ r.cmd \in {"read", "write"}
  BY <1>4 DEF Requests
<1>7. CASE r.cmd = "read"
  <2>1. data' = [data EXCEPT ![r.page] = swapped[r.nr]] /\ swapped' = swapped
    BY <1>4, <1>7 DEF Complete
  <2>2. data'[r.page] = swapped[r.nr] /\ \A n \in Pages : n # r.page => data'[n] = data[n]
    BY <1>6, <2>1 DEF Types
  <2>3. pc[q] \in {"reading", "forkread"} /\ loc[q].page = r.page
    BY <1>1, <1>2, <1>5, <1>7 DEF Asked
  <2>4. r.page \in Grasp(loc[q]) \ {0} /\ loc[q].out = 0
    <3>1. Place(q) /\ Stage(q) = pc[q]
      BY <1>4, <2>3 DEF VInv, IInv, PlaceOK, Stage, StageOf
    <3>2. loc[q].out = 0
      BY <2>3, <3>1 DEF Place, Holding
    <3> QED  BY <1>4, <2>3, <3>2, ReadsAt
  <2>5. /\ Foreign({q}, r.page) /\ Unasked(r.page)
        /\ \A o \in Procs, b \in Addrs : Held(pte[o][b]) # r.page
    BY <1>4, <2>4, GraspPage
  <2>6. \A n \in Pages : data'[n] = data[n] \/ (r.cmd = "read" /\ n = r.page)
    BY <1>7, <2>2
  <2>7. \A s \in SwapNrs : swapped'[s] = swapped[s] \/ (r.cmd = "write" /\ s = r.nr)
    BY <2>1
  <2>8. r.cmd # "write"
    BY <1>7
  <2> QED
    BY <1>1, <1>2, <1>3, <1>4, <1>5, <2>1, <2>2, <2>5, <2>6, <2>7, <2>8, Zenon DEF Served
<1>8. CASE r.cmd = "write"
  <2>1. swapped' = [swapped EXCEPT ![r.nr] = data[r.page]] /\ data' = data
    BY <1>4, <1>8 DEF Complete
  <2>2. swapped'[r.nr] = data[r.page] /\ \A s \in SwapNrs : s # r.nr => swapped'[s] = swapped[s]
    BY <1>6, <2>1 DEF Types
  <2>3. \A n \in Pages : data'[n] = data[n] \/ (r.cmd = "read" /\ n = r.page)
    BY <2>1
  <2>4. \A s \in SwapNrs : swapped'[s] = swapped[s] \/ (r.cmd = "write" /\ s = r.nr)
    BY <1>8, <2>2
  <2>5. r.cmd # "read"
    BY <1>8
  <2> QED
    BY <1>1, <1>2, <1>3, <1>4, <1>5, <2>1, <2>2, <2>3, <2>4, <2>5, Zenon DEF Served
<1> QED  BY <1>6, <1>7, <1>8

LEMMA ServedDevice ==
    ASSUME VInv, NEW r, NEW q, Served(r, q)
    PROVE  \A s \in SwapNrs : OnDevice(s)' = OnDevice(s) /\ (Unwritten(s)' => Unwritten(s))
<1> Types
  BY DEF VInv, IInv
<1>1. /\ queue # <<>> /\ queue' = Tail(queue) /\ r = queue[1] /\ r \in Requests
      /\ r.cmd = "write" => swapped'[r.nr] = data[r.page]
      /\ r.cmd = "read" => Unasked(r.page) /\ swapped' = swapped
      /\ r.cmd = "write" => data' = data
      /\ \A n \in Pages : data'[n] = data[n] \/ (r.cmd = "read" /\ n = r.page)
      /\ \A s \in SwapNrs : swapped'[s] = swapped[s] \/ (r.cmd = "write" /\ s = r.nr)
  BY DEF Served
<1>2. ASSUME NEW i \in DOMAIN queue, queue[i].cmd = "write"
      PROVE  data'[queue[i].page] = data[queue[i].page]
  <2>1. queue[i] \in Requests
    BY ElementOfSeq DEF Types
  <2>2. queue[i].page \in Pages
    BY <2>1 DEF Requests
  <2> QED  BY <1>1, <1>2, <2>2 DEF Unasked
<1> QED  BY <1>1, <1>2, DeviceDone

LEMMA ServedQueue ==
    ASSUME VInv, NEW r, NEW q, Served(r, q)
    PROVE  QueueOK'
<1> Types /\ QueueOK
  BY DEF VInv, IInv, ValuesOK
<1>0. /\ queue # <<>> /\ queue' = Tail(queue) /\ r = queue[1] /\ r \in Requests /\ q = r.by /\ q \in Procs
      /\ UNCHANGED <<pte, pc, loc>> /\ Asked(1) /\ r.nr \in SwapNrs /\ r.cmd \in {"read", "write"}
  BY DEF Served, Requests
<1>1. /\ DOMAIN queue = 1..Len(queue) /\ Len(queue) \in Nat \ {0}
      /\ DOMAIN queue' = 1..(Len(queue) - 1)
      /\ \A i \in DOMAIN queue' : i + 1 \in DOMAIN queue /\ queue'[i] = queue[i + 1]
      /\ \A i \in DOMAIN queue : i # 1 => i - 1 \in DOMAIN queue' /\ queue'[i - 1] = queue[i]
  BY <1>0, Tailed DEF Types
<1>2. ASSUME NEW i \in DOMAIN queue' PROVE Asked(i)'
  <2>1. i + 1 \in DOMAIN queue /\ queue'[i] = queue[i + 1] /\ i \in Int
    BY <1>1
  <2>2. \A k : k = i + 1 => Asked(k)
    BY <2>1 DEF QueueOK
  <2>3. PICK k : k = i + 1
    OBVIOUS
  <2>4. Asked(k) /\ k \in DOMAIN queue /\ queue'[i] = queue[k]
    BY <2>1, <2>2, <2>3
  <2>5. ASSUME NEW j \in DOMAIN queue', j > i
        PROVE  \E m \in DOMAIN queue : m > k /\ queue'[j] = queue[m]
    <3>1. j + 1 \in DOMAIN queue /\ queue'[j] = queue[j + 1] /\ j + 1 > k
      BY <1>1, <2>1, <2>3, <2>5
    <3> QED  BY <3>1
  <2>6. queue[k].cmd = "read" =>
          \A j \in DOMAIN queue' : j > i /\ queue'[j].cmd = "write" => queue'[j].nr # queue[k].nr
    BY <2>4, <2>5 DEF Asked
  <2> QED  BY <1>0, <2>4, <2>6 DEF Asked
<1>3. ASSUME NEW i \in DOMAIN queue', NEW j \in DOMAIN queue', queue'[i].by = queue'[j].by
      PROVE  i = j
  <2>1. /\ i + 1 \in DOMAIN queue /\ queue'[i] = queue[i + 1] /\ i \in Int
        /\ j + 1 \in DOMAIN queue /\ queue'[j] = queue[j + 1] /\ j \in Int
    BY <1>1
  <2>2. i + 1 = j + 1
    BY <1>3, <2>1 DEF QueueOK
  <2> QED  BY <2>1, <2>2
<1>4. ASSUME NEW o \in Procs, pc[o] \in {"reading", "forkread"}, ~Waiting(o)'
      PROVE  (LET s == pte[o][loc[o].addr].n IN data[loc[o].page] = swapped[s] /\ ~Unwritten(s))'
  <2>0. PICK s : s = pte[o][loc[o].addr].n
    OBVIOUS
  <2>1. /\ loc[o].page \in Grasp(loc[o]) \ {0} /\ loc[o].page \in Pages /\ s \in SwapNrs
    BY <1>4, <2>0, ReadsAt, GraspPages, EntryFacts
  <2>2. data'[loc[o].page] = swapped'[s] /\ ~Unwritten(s)'
    <3>1. CASE o = q
      <4>1. r.cmd = "read" /\ loc[q].page = r.page /\ r.nr = s
            /\ \A j \in DOMAIN queue : j > 1 /\ queue[j].cmd = "write" => queue[j].nr # s
        BY <1>0, <1>4, <2>0, <3>1 DEF Asked
      <4>2. data'[loc[q].page] = swapped'[s]
        BY <4>1 DEF Served
      <4>3. \A j \in DOMAIN queue' : queue'[j].cmd = "write" => queue'[j].nr # s
        <5> SUFFICES ASSUME NEW j \in DOMAIN queue', queue'[j].cmd = "write" PROVE queue'[j].nr # s
          OBVIOUS
        <5>1. j + 1 \in DOMAIN queue /\ queue'[j] = queue[j + 1] /\ j + 1 > 1
          BY <1>1
        <5> QED  BY <4>1, <5>1
      <4> QED  BY <3>1, <4>2, <4>3 DEF Unwritten
    <3>2. CASE o # q
      <4>1. ~Waiting(o)
        <5>1. \A i \in DOMAIN queue' : queue'[i].by # o
          BY <1>4 DEF Waiting
        <5>2. ASSUME NEW i \in DOMAIN queue, queue[i].by = o PROVE FALSE
          <6>1. i # 1
            BY <1>0, <3>2, <5>2
          <6> QED  BY <1>1, <5>1, <5>2, <6>1
        <5> QED  BY <5>2 DEF Waiting
      <4>2. data[loc[o].page] = swapped[s] /\ ~Unwritten(s)
        BY <1>4, <2>0, <4>1 DEF QueueOK, Arrived
      <4>3. ~Unwritten(s)'
        BY <2>1, <4>2, ServedDevice
      <4>4. data'[loc[o].page] = data[loc[o].page]
        <5>1. r.cmd = "read" => loc[o].page # r.page
          BY <2>1, <3>2 DEF Served, Foreign
        <5> QED  BY <2>1, <5>1 DEF Served
      <4>5. swapped'[s] = swapped[s]
        <5>1. ~(r.cmd = "write" /\ s = r.nr)
          BY <1>0, <1>1, <4>2 DEF Unwritten
        <5> QED  BY <2>1, <5>1 DEF Served
      <4> QED  BY <4>2, <4>3, <4>4, <4>5
    <3> QED  BY <3>1, <3>2
  <2>3. \A t : t = s => ~Unwritten(t)'
    BY <2>2
  <2> QED  BY <1>0, <2>0, <2>2, <2>3
<1>5. \A o \in Procs : Arrived(o)'
  BY <1>0, <1>4 DEF Arrived
<1> QED  BY <1>2, <1>3, <1>5 DEF QueueOK

LEMMA CompleteGood ==
    ASSUME VInv, IInv', Complete
    PROVE  Good
<1> Types /\ Types'
  BY DEF VInv, IInv
<1>1. PICK r, q : Served(r, q)
  BY CompleteServes
<1>2. QueueOK'
  BY <1>1, ServedQueue
<1>3. UNCHANGED <<cpu, mem_map, dir, pte, spare, exe, pc, loc>> /\ q \in Procs /\ r \in Requests
  BY <1>1 DEF Served
<1>4. ASSUME NEW o \in Procs, NEW b \in Addrs, pte[o][b].at = "page"
      PROVE  data'[pte[o][b].n] = data[pte[o][b].n]
  <2>1. pte[o][b].n \in Pages /\ Held(pte[o][b]) = pte[o][b].n
    BY <1>4, GraspPages
  <2>2. r.cmd = "read" => pte[o][b].n # r.page
    BY <1>1, <2>1 DEF Served
  <2> QED  BY <1>1, <2>1, <2>2 DEF Served
<1>5. ASSUME NEW o \in Procs, NEW b \in Owned PROVE Value(o, b)' = Value(o, b)
  <2>0. pte[o][b] \in Entries
    BY GraspPages
  <2>1. CASE pte[o][b].at = "swap"
    <3>1. PICK s : s = pte[o][b].n
      OBVIOUS
    <3>2. s \in SwapNrs
      BY <2>0, <2>1, <3>1, EntryFacts
    <3>3. OnDevice(s)' = OnDevice(s)
      BY <1>1, <3>2, ServedDevice
    <3>4. OnDevice(pte[o][b].n)' = OnDevice(s)
      BY <1>3, <3>1, <3>3
    <3> QED  BY <1>3, <2>1, <3>1, <3>4 DEF Value, ValueOf
  <2>2. CASE pte[o][b].at # "swap"
    BY <1>3, <1>4, <2>0, <2>2, EntryFacts DEF Value, ValueOf
  <2> QED  BY <2>1, <2>2
<1>6. ASSUME NEW o \in Procs PROVE Silent(o)
  <2>1. o \in Alive' <=> o \in Alive
    BY <1>3 DEF Alive
  <2> QED  BY <1>3, <1>5, <2>1, ReadsIs, ReadsWillBe DEF Silent
<1>7. ASSUME NEW o \in Procs PROVE Hand(o)'
  <2>1. Hand(o) /\ Place(o) /\ Stage(o)' = Stage(o)
    BY <1>3 DEF VInv, IInv, PlaceOK, ValuesOK, Stage, StageOf
  <2>2. Clean(o)'
    BY <1>3, <1>4, <2>1 DEF Hand, Clean, Droppable, Changing
  <2>3. Steady(o)'
    BY <1>3, <2>1 DEF Hand, Steady, Sharers
  <2>4. ASSUME Stage(o) \in {"empty", "bread", "filling", "put", "table"},
               NEW m \in Grasp(loc[o]) \ {0}
        PROVE  data'[m] = data[m]
    <3>1. m \in Pages
      BY GraspPages
    <3>2. r.cmd = "read" => m # r.page
      <4>1. r.cmd = "read" => pc[q] \in {"reading", "forkread"}
        BY <1>1 DEF Served, Asked
      <4>2. r.cmd = "read" => o # q
        BY <2>4, <4>1 DEF Stage, StageOf
      <4> QED  BY <1>1, <4>2 DEF Served, Foreign
    <3> QED  BY <1>1, <3>1, <3>2 DEF Served
  <2>5. Full(o)'
    <3>1. Stage(o) \in {"put", "table"} => data'[loc[o].page] = data[loc[o].page]
      BY <2>1, <2>4 DEF Place, Holding, Grasp
    <3>2. pc[o] = "empty" => Stage(o) = "empty"
      BY DEF Stage, StageOf
    <3>3. pc[o] = "empty" /\ loc[o].got # 0 => data'[loc[o].got] = data[loc[o].got]
      BY <2>4, <3>2 DEF Grasp
    <3> QED  BY <1>3, <2>1, <3>1, <3>3 DEF Hand, Full
  <2>6. TableOf(o)'
    BY <1>3, <2>1 DEF Hand, TableOf
  <2>7. Child(o)'
    <3>1. Stage(o) \in Forking => loc[o].who \in Procs
      BY <2>1 DEF Place, Making
    <3> QED  BY <1>3, <1>5, <2>1, <3>1 DEF Hand, Child, Forking
  <2> QED  BY <2>2, <2>3, <2>5, <2>6, <2>7 DEF Hand
<1> QED  BY <1>2, <1>6, <1>7, AllSilent DEF Good, ValuesOK

----------------------------------------------------------------------------
(* Page faults after get_free_page()                                       *)

\* Only the tables of p change.
LEMMA NearOwn ==
    ASSUME Types, NEW p \in Procs, NEW l, NEW r, Moved(p, l, r), exe' = exe,
           queue' = queue, swapped' = swapped, NEW m,
           \A n \in Pages : n # m => data'[n] = data[n], m \in Pages => Foreign({p}, m) /\ Unasked(m),
           \A q \in Procs \ {p} : dir'[q] = dir[q] /\ \A a \in Addrs : pte'[q][a] = pte[q][a]
    PROVE  Near({p}, m)
<1>1. \A q \in Procs \ {p} : pc'[q] = pc[q] /\ loc'[q] = loc[q]
  BY MovedAt
<1> QED  BY <1>1 DEF Near

\* The entry of the fault gets a page that holds what it stood for.
LEMMA FilledGood ==
    ASSUME VInv, IInv', NEW p \in Procs, cpu \in {p, NoProc},
           pc[p] \in {"wp", "reading", "put", "table"}, ~Waiting(p),
           NEW a \in Addrs, NEW n \in Pages, NEW d \in BOOLEAN, NEW m, Near({p}, m),
           m \in Pages => \A b \in Owned : Held(pte[p][b]) # m,
           pte' = [pte EXCEPT ![p][a] = InMemory(n, TRUE, d)], data'[n] = Value(p, a),
           NEW l, NEW r, GoesOn(p, l, r, a), dir'[p] # 0,
           d \/ l # "user" \/ data'[n] = Initially(exe[p], a)
    PROVE  Good
<1> Types
  BY DEF VInv, IInv
<1>1. Moved(p, l, r) /\ exe' = exe /\ l \in {"user", "store", "verified"} /\ (l # "user" => r.addr = a /\ cpu' = p)
  BY DEF GoesOn
<1>2. pc'[p] = l /\ loc'[p] = r /\ Stage(p)' = l
  BY <1>1, MovedAt DEF StageOf
<1>3. pte'[p][a] = InMemory(n, TRUE, d) /\ \A b \in Addrs : b # a => pte'[p][b] = pte[p][b]
  BY DEF Types
<1>4. pte'[p][a].at = "page" /\ pte'[p][a].n = n /\ pte'[p][a].rw /\ pte'[p][a].dirty = d
  BY <1>3 DEF InMemory
<1>5. Within(p, m)
  BY <1>1, <1>2 DEF Within
<1>6. ASSUME NEW b \in Owned PROVE Value(p, b)' = Value(p, b)
  <2>1. CASE b = a
    BY <1>4, <2>1 DEF Value, ValueOf
  <2>2. CASE b # a
    <3>1. \A s : OnDevice(s)' = OnDevice(s)
      BY NearKept
    <3>2. pte[p][b].at = "page" => data'[pte[p][b].n] = data[pte[p][b].n]
      <4>1. pte[p][b].at = "page" => pte[p][b].n \in Pages /\ pte[p][b].n # m
        BY GraspPages
      <4> QED  BY <4>1 DEF Near
    <3> QED  BY <1>1, <1>3, <2>2, <3>1, <3>2, ValueSame
  <2> QED  BY <2>1, <2>2
<1>7. ASSUME NEW b \in Owned, Droppable(pte'[p][b]), ~Changing(p, b)'
      PROVE  \/ Droppable(pte[p][b]) /\ ~Changing(p, b)
             \/ data'[pte'[p][b].n] = Initially(exe[p], b)
  <2>1. CASE b = a
    <3>1. ~d
      BY <1>4, <1>7, <2>1 DEF Droppable
    <3>2. l = "user"
      BY <1>1, <1>2, <1>4, <1>7, <2>1 DEF Changing
    <3> QED  BY <1>4, <2>1, <3>1, <3>2
  <2>2. CASE b # a
    BY <1>3, <1>7, <2>2 DEF Changing
  <2> QED  BY <2>1, <2>2
<1>8. TableOf(p)'
  BY DEF TableOf
<1>9. Steady(p)' /\ Full(p)' /\ Child(p)'
  BY <1>1, <1>2, <1>4 DEF Steady, Full, Child, Forking
<1> QED  BY <1>5, <1>6, <1>7, <1>8, <1>9, OwnStep

LEMMA CopyGood ==
    ASSUME VInv, IInv', NEW p \in Procs, Copy(p)
    PROVE  Good
<1> Types /\ IInv /\ Place(p) /\ Hand(p)
  BY DEF VInv, IInv, PlaceOK, ValuesOK
<1>1. PICK a, n, old : a = loc[p].addr /\ n = loc[p].got /\ old = loc[p].other
  OBVIOUS
<1>2. /\ cpu \in {p, NoProc} /\ pc[p] = "wp" /\ n # 0 /\ Stage(p) = "wp" /\ loc[p].out = 0
      /\ data' = [data EXCEPT ![n] = data[old]] /\ pte' = [pte EXCEPT ![p][a] = InMemory(n, TRUE, FALSE)]
      /\ Proceed(p, loc[p].ret, a, TRUE) /\ UNCHANGED <<dir, queue, swapped>>
  BY <1>1 DEF Copy, At, Stage, StageOf, Place, Holding, swap
<1>3. /\ a \in Addrs /\ pte[p][a].at = "page" /\ pte[p][a].n = old /\ loc[p].ret \in {"store", "verified"}
  <2>1. a \in Addrs /\ pte[p][a].at = "page" /\ pte[p][a].n = old /\ loc[p].ret # "user"
    BY <1>1, <1>2 DEF Place, Alone
  <2>2. loc[p] \in Locs
    BY GraspPages
  <2>3. loc[p].ret \in {"user", "store", "verified"}
    BY <2>2 DEF Locs
  <2> QED  BY <2>1, <2>3
<1>4. n \in Pages /\ Foreign({p}, n) /\ Unasked(n) /\ \A b \in Addrs : Held(pte[p][b]) # n
  <2>1. n \in Grasp(loc[p]) \ {0} /\ n # loc[p].out
    BY <1>1, <1>2 DEF Grasp
  <2> QED  BY <2>1, GraspPage
<1>5. PICK r : GoesOn(p, loc[p].ret, r, a)
  BY <1>2, <1>3, ProceedGoesOn DEF VInv
<1>6. data'[n] = data[old] /\ \A k \in Pages : k # n => data'[k] = data[k]
  BY <1>2, <1>4 DEF Types
<1>7. \A q \in Procs \ {p} : dir'[q] = dir[q] /\ \A b \in Addrs : pte'[q][b] = pte[q][b]
  BY <1>2 DEF Types
<1>8. Near({p}, n)
  BY <1>2, <1>4, <1>5, <1>6, <1>7, NearOwn DEF GoesOn
<1>9. data'[n] = Value(p, a)
  BY <1>3, <1>6 DEF Value, ValueOf
<1>10. dir'[p] # 0
  BY <1>2, <1>3 DEF Hand, TableOf
<1> QED  BY <1>2, <1>3, <1>4, <1>5, <1>8, <1>9, <1>10, WaitsAt, FilledGood

LEMMA ShareTableGood ==
    ASSUME VInv, IInv', NEW p \in Procs, ShareTable(p)
    PROVE  Good
<1> Types /\ IInv /\ Place(p) /\ Hand(p)
  BY DEF VInv, IInv, PlaceOK, ValuesOK
<1>1. PICK a, q : a = loc[p].addr /\ q = loc[p].who
  OBVIOUS
<1>2. /\ cpu \in {p, NoProc} /\ pc[p] = "share" /\ Stage(p) = "share" /\ loc[p].got # 0
      /\ dir' = [dir EXCEPT ![p] = loc[p].got] /\ Shared(p, a, q, loc[p].other)
      /\ Return(p) /\ UNCHANGED <<data, swap>>
  BY <1>1 DEF ShareTable, At, Stage, StageOf
<1>3. /\ a \in Addrs /\ pte[p][a].at = "none" /\ pte[q][a].n = loc[p].other
  BY <1>1, <1>2 DEF Place, Alone
<1>4. (loc[p].ret = "user" \/ a \notin Owned) /\ a <= NFile /\ q \in Sharers(p, a)
  BY <1>1, <1>2 DEF Hand, Steady
<1>5. PICK l, r : GoesOn(p, l, r, a) /\ l # "store" /\ (l = "user" \/ a \notin Owned)
  <2>1. CASE loc[p].ret = "user"
    BY <1>2, <2>1 DEF Return, Sleep, GoesOn
  <2>2. CASE loc[p].ret # "user"
    <3> DEFINE r == [NoLoc EXCEPT !.addr = a]
    <3>1. r.addr = a
      BY DEF NoLoc
    <3>2. Goto(p, "verified", r)
      BY <1>1, <1>2, <2>2 DEF Return
    <3> HIDE DEF r
    <3>3. GoesOn(p, "verified", r, a)
      BY <3>1, <3>2 DEF Goto, GoesOn
    <3> QED  BY <1>4, <2>2, <3>3
  <2> QED  BY <2>1, <2>2
<1>6. dir'[p] # 0 /\ \A o \in Procs \ {p} : dir'[o] = dir[o]
  BY <1>2 DEF Types
<1>7. Shared(p, a, q, pte[q][a].n)
  BY <1>2, <1>3
<1> QED  BY <1>2, <1>3, <1>4, <1>5, <1>6, <1>7, SharedGood

LEMMA SwappedInGood ==
    ASSUME VInv, IInv', NEW p \in Procs, SwappedIn(p)
    PROVE  Good
<1> Types /\ IInv /\ Hand(p)
  BY DEF VInv, IInv, ValuesOK
<1>1. PICK a, n, s : a = loc[p].addr /\ n = loc[p].page /\ s = pte[p][loc[p].addr].n
  OBVIOUS
<1>2. /\ cpu \in {p, NoProc} /\ pc[p] = "reading" /\ ~Waiting(p)
      /\ pte' = [pte EXCEPT ![p][a] = InMemory(n, TRUE, TRUE)]
      /\ Return(p) /\ UNCHANGED <<data, dir, swapped, queue>>
  BY <1>1 DEF SwappedIn, At
<1>3. a \in Addrs /\ pte[p][a].at = "swap" /\ n \in Grasp(loc[p]) \ {0} /\ n \in Pages
  BY <1>1, <1>2, ReadsAt, GraspPages
<1>4. data[n] = swapped[s] /\ ~Unwritten(s)
  BY <1>1, <1>2 DEF VInv, ValuesOK, QueueOK, Arrived
<1>5. data'[n] = Value(p, a)
  <2>1. Writes(queue, s) = {}
    BY <1>4, DeviceIs
  <2>2. OnDevice(s) = swapped[s]
    BY <2>1, DeviceIs DEF Device
  <2> QED  BY <1>1, <1>2, <1>3, <1>4, <2>2 DEF Value, ValueOf
<1>6. PICK l, r : GoesOn(p, l, r, a)
  BY <1>1, <1>2, ReturnGoesOn
<1>7. Near({p}, 0) /\ 0 \notin Pages
  <2>1. \A q \in Procs \ {p} : dir'[q] = dir[q] /\ \A b \in Addrs : pte'[q][b] = pte[q][b]
    BY <1>2 DEF Types
  <2>2. 0 \notin Pages
    BY DEF Pages
  <2> QED  BY <1>2, <1>6, <2>1, <2>2, NearOwn DEF GoesOn
<1>8. dir'[p] # 0
  BY <1>2, <1>3 DEF Hand, TableOf
<1> QED  BY <1>2, <1>3, <1>5, <1>6, <1>7, <1>8, FilledGood

\* put_page(), at once or with a new page table.
LEMMA PutGood ==
    ASSUME VInv, IInv', NEW p \in Procs, put_page(p) \/ PutTable(p)
    PROVE  Good
<1> Types /\ IInv /\ Place(p) /\ Hand(p)
  BY DEF VInv, IInv, PlaceOK, ValuesOK
<1>1. PICK a, n : a = loc[p].addr /\ n = loc[p].page
  OBVIOUS
<1>2. /\ cpu \in {p, NoProc} /\ pc[p] \in {"put", "table"} /\ Stage(p) = pc[p] /\ ~Waiting(p)
  <2>1. cpu \in {p, NoProc} /\ pc[p] \in {"put", "table"}
    BY DEF put_page, PutTable, At
  <2> QED  BY <2>1, WaitsAt DEF Stage, StageOf
<1>3. a \in Addrs /\ pte[p][a].at = "none" /\ n # 0 /\ n \in Pages
  <2>1. a \in Addrs /\ pte[p][a].at = "none" /\ n # 0
    BY <1>1, <1>2 DEF Place, Serving, Holding, Filling
  <2> QED  BY <1>1, <2>1, GraspPages DEF Grasp
<1>4. data[n] = Initially(exe[p], a) /\ Value(p, a) = Initially(exe[p], a)
  BY <1>1, <1>2, <1>3 DEF Hand, Full, Value, ValueOf
<1>5. CASE /\ pte' = [pte EXCEPT ![p][a] = InMemory(n, TRUE, FALSE)]
           /\ Return(p) /\ UNCHANGED <<data, queue, swapped>>
           /\ dir'[p] # 0 /\ \A q \in Procs \ {p} : dir'[q] = dir[q]
  <2>1. PICK l, r : GoesOn(p, l, r, a)
    BY <1>1, <1>5, ReturnGoesOn
  <2>2. Near({p}, 0) /\ 0 \notin Pages
    <3>1. \A q \in Procs \ {p} : dir'[q] = dir[q] /\ \A b \in Addrs : pte'[q][b] = pte[q][b]
      BY <1>5 DEF Types
    <3>2. 0 \notin Pages
      BY DEF Pages
    <3> QED  BY <1>5, <2>1, <3>1, <3>2, NearOwn DEF GoesOn
  <2>3. data'[n] = Value(p, a) /\ data'[n] = Initially(exe[p], a)
    BY <1>4, <1>5
  <2> QED  BY <1>2, <1>3, <1>5, <2>1, <2>2, <2>3, FilledGood
<1>6. CASE pc[p] = "put" /\ Call(p, "table", loc[p]) /\ UNCHANGED <<mem_map, data, tables, swap>>
  <2>1. "table" \in Callers /\ "table" \notin Forking /\ loc[p] \in Locs
    BY GraspPages DEF Callers, Forking
  <2>2. \A b \in Addrs : ~Changing(p, b)
    BY <1>6 DEF Changing
  <2> QED  BY <1>1, <1>2, <1>4, <1>6, <2>1, <2>2, CallGood
<1>7. CASE put_page(p)
  BY <1>1, <1>5, <1>6, <1>7 DEF put_page, At, swap
<1>8. CASE PutTable(p)
  <2>1. dir'[p] # 0 /\ \A q \in Procs \ {p} : dir'[q] = dir[q]
    BY <1>8 DEF PutTable, Types
  <2> QED  BY <1>1, <1>5, <1>8, <2>1 DEF PutTable, swap
<1> QED  BY <1>7, <1>8

LEMMA LocHeld ==
    ASSUME NEW r \in Locs
    PROVE  /\ HoldLoc(r).page = r.got /\ HoldLoc(r).got = 0 /\ HoldLoc(r).addr = r.addr
           /\ HoldLoc(r).who = r.who /\ HoldLoc(r).ret = r.ret /\ HoldLoc(r).why = r.why
  BY DEF Locs, HoldLoc

\* The page from get_free_page() is to be filled.
LEMMA HeldGood ==
    ASSUME VInv, IInv', NEW p \in Procs, Empty(p) \/ Bread(p)
    PROVE  Good
<1> Types /\ IInv /\ Hand(p)
  BY DEF VInv, IInv, ValuesOK
<1>1. PICK l : /\ cpu \in {p, NoProc} /\ Moved(p, l, HoldLoc(loc[p])) /\ exe' = exe
               /\ UNCHANGED <<data, pte, dir, queue, swapped>> /\ loc[p].got # 0
               /\ (pc[p] = "empty" /\ l = "put") \/ (pc[p] = "bread" /\ l = "filling")
  <2>1. CASE Empty(p)
    BY <2>1 DEF Empty, At, Goto, HoldLoc, tables, swap
  <2>2. CASE Bread(p)
    BY <2>2 DEF Bread, At, Sleep, HoldLoc, tables, swap
  <2> QED  BY <2>1, <2>2
<1>2. loc[p] \in Locs
  BY GraspPages
<1>3. pc'[p] = l /\ loc'[p] = HoldLoc(loc[p]) /\ Stage(p)' = l
  BY <1>1, MovedAt DEF StageOf
<1>4. Stage(p) = pc[p]
  BY <1>1 DEF Stage, StageOf
<1>5. Steady(p)' /\ Child(p)'
  BY <1>1, <1>3 DEF Steady, Child, Forking
<1>6. Full(p)'
  <2>1. CASE l = "put"
    <3>1. data[loc[p].got] = "zero" /\ loc[p].addr > NFile
      BY <1>1, <1>4, <2>1 DEF Hand, Full
    <3>2. loc[p].addr \in 0..NAddrs + 1
      BY <1>2 DEF Locs
    <3>3. Initially(exe[p], loc[p].addr) = "zero"
      BY <3>1, <3>2, SizesAssumption DEF Initially
    <3> QED  BY <1>1, <1>2, <1>3, <2>1, <3>1, <3>3, LocHeld DEF Full
  <2>2. CASE l = "filling"
    <3>1. loc[p].addr <= NFile
      BY <1>1, <1>4, <2>2 DEF Hand, Full
    <3> QED  BY <1>2, <1>3, <2>2, <3>1, LocHeld DEF Full
  <2> QED  BY <1>1, <2>1, <2>2
<1>7. \A b \in Addrs : ~Changing(p, b)
  BY <1>1 DEF Changing
<1>8. pc[p] \notin {"unused", "making", "exec"} /\ l \notin {"unused", "making", "exec", "reading", "forkread"}
  BY <1>1
<1>9. ~Waiting(p)
  BY <1>1, WaitsAt
<1> QED  BY <1>1, <1>5, <1>6, <1>7, <1>8, <1>9, StillStep

LEMMA BreadPageGood ==
    ASSUME VInv, IInv', NEW p \in Procs, bread_page(p)
    PROVE  Good
<1> Types /\ IInv /\ Place(p) /\ Hand(p)
  BY DEF VInv, IInv, PlaceOK, ValuesOK
<1>1. PICK n : n = loc[p].page
  OBVIOUS
<1>2. /\ cpu \in {p, NoProc} /\ pc[p] = "filling" /\ data' = [data EXCEPT ![n] = exe[p]]
      /\ Moved(p, "put", loc[p]) /\ exe' = exe /\ UNCHANGED <<pte, dir, queue, swapped>>
  BY <1>1 DEF bread_page, At, Goto, tables, swap
<1>3. Stage(p) = "filling" /\ n # 0 /\ loc[p].out = 0 /\ loc[p].addr <= NFile
  BY <1>1, <1>2 DEF Stage, StageOf, Place, Holding, Hand, Full
<1>4. n \in Pages /\ Foreign({p}, n) /\ Unasked(n) /\ \A b \in Addrs : Held(pte[p][b]) # n
  <2>1. n \in Grasp(loc[p]) \ {0} /\ n # loc[p].out
    BY <1>1, <1>3 DEF Grasp
  <2> QED  BY <2>1, GraspPage
<1>5. data'[n] = exe[p] /\ \A k \in Pages : k # n => data'[k] = data[k]
  BY <1>2, <1>4 DEF Types
<1>6. pc'[p] = "put" /\ loc'[p] = loc[p] /\ Stage(p)' = "put"
  BY <1>2, MovedAt DEF StageOf
<1>7. Near({p}, n)
  BY <1>2, <1>4, <1>5, NearOwn
<1>8. Within(p, n)
  BY <1>2, <1>6, <1>7, WaitsAt DEF Within
<1>9. Steady(p)' /\ Full(p)' /\ Child(p)'
  BY <1>1, <1>2, <1>3, <1>5, <1>6 DEF Steady, Full, Child, Forking, Initially
<1>10. \A b \in Addrs : ~Changing(p, b)
  BY <1>2 DEF Changing
<1> QED  BY <1>2, <1>4, <1>8, <1>9, <1>10, MoveStep

\* ll_rw_page() is called to read.
LEMMA ReadSwapGood ==
    ASSUME VInv, IInv', NEW p \in Procs, NEW l, cpu \in {p, NoProc}, loc[p].got # 0,
           (pc[p] = "swapin" /\ l = "reading") \/ (pc[p] = "forkpage" /\ l = "forkread"),
           ReadSwap(p, l, pte[p][loc[p].addr].n)
    PROVE  Good
<1> Types /\ Types' /\ IInv /\ Place(p) /\ Hand(p)
  BY DEF VInv, IInv, PlaceOK, ValuesOK
<1>1. PICK a, n, nr : a = loc[p].addr /\ n = loc[p].got /\ nr = pte[p][loc[p].addr].n
  OBVIOUS
<1> DEFINE w == [cmd |-> "read", nr |-> nr, page |-> n, by |-> p]
<1>2. /\ queue' = Append(queue, w) /\ Moved(p, l, HoldLoc(loc[p])) /\ exe' = exe
      /\ UNCHANGED <<data, pte, dir, swapped>>
  BY <1>1 DEF ReadSwap, Sleep, HoldLoc, tables
<1>3. Stage(p) = pc[p] /\ a \in Addrs /\ pte[p][a].at = "swap" /\ nr \in SwapNrs /\ n \in Pages
  <2>1. Stage(p) = pc[p]
    BY DEF Stage, StageOf
  <2>2. a \in Addrs /\ pte[p][a].at = "swap"
    BY <1>1, <2>1 DEF Place, Serving
  <2> QED  BY <1>1, <2>1, <2>2, GraspPages, EntryFacts DEF Grasp
<1>4. w \in Requests /\ w.cmd = "read" /\ w.nr = nr /\ w.page = n /\ w.by = p
  BY <1>3 DEF Requests
<1> HIDE DEF w
<1>5. loc[p] \in Locs
  BY GraspPages
<1>6. /\ pc'[p] = l /\ loc'[p] = HoldLoc(loc[p]) /\ Stage(p)' = l
      /\ \A q \in Procs \ {p} : pc'[q] = pc[q] /\ loc'[q] = loc[q]
  BY <1>2, MovedAt DEF StageOf
<1>7. \A s : OnDevice(s)' = OnDevice(s)
  BY <1>2, <1>4, DeviceRead
<1>8. \A q \in Procs, b \in Owned : Value(q, b)' = Value(q, b)
  BY <1>2, <1>7, ValueSame
<1>9. Kept({p})
  BY <1>2, <1>6, <1>8 DEF Kept
<1>10. ~Waiting(p)
  BY WaitsAt
<1>11. QueueOK'
  BY <1>1, <1>2, <1>4, <1>5, <1>6, <1>9, <1>10, LocHeld, QueueMore
<1>12. Silent(p)
  BY <1>6, <1>8, LivingSilent DEF Living
<1>13. Clean(p)'
  BY <1>2, <1>6 DEF Hand, Clean, Changing
<1>14. TableOf(p)'
  BY <1>2 DEF Hand, TableOf
<1>15. Steady(p)' /\ Full(p)'
  BY <1>6 DEF Steady, Full
<1>16. Child(p)'
  <2>1. CASE l = "reading"
    BY <1>6, <2>1 DEF Child, Forking
  <2>2. CASE l = "forkread"
    <3>1. loc[p].who \in Procs
      BY <1>3, <2>2 DEF Place, Making, Forking
    <3> QED  BY <1>2, <1>3, <1>5, <1>6, <1>8, <2>2, <3>1, LocHeld DEF Hand, Child, Forking
  <2> QED  BY <2>1, <2>2
<1>17. Party(p, {p})
  BY DEF Party
<1> QED  BY <1>9, <1>11, <1>12, <1>13, <1>14, <1>15, <1>16, <1>17, QuietStep DEF Hand

----------------------------------------------------------------------------
(* fork()                                                                  *)

\* The child is there, and reads what its parent reads.
LEMMA ForkSeen ==
    ASSUME NEW p \in Procs, NEW c \in Procs, c # p, \A q \in Procs \ {c} : Silent(q),
           p \in Alive, c \notin Alive, c \in Alive',
           \A a \in Owned : Reads(c, a)' = Reads(p, a)
    PROVE  Private!Fork(p, c)
<1>1. Alive' = Alive \cup {c}
  BY DEF Silent, Alive
<1> DEFINE mem == [q \in Procs |-> [a \in Owned |-> Reads(q, a)]]
<1>2. mem' = [mem EXCEPT ![c] = mem[p]]
  <2>1. \A q \in Procs, a \in Owned : Reads(q, a)' = IF q = c THEN Reads(p, a) ELSE Reads(q, a)
    BY DEF Silent
  <2>2. mem' = [q \in Procs |-> [a \in Owned |-> IF q = c THEN Reads(p, a) ELSE Reads(q, a)]]
    BY <2>1
  <2>3. mem[p] = [a \in Owned |-> Reads(p, a)]
    OBVIOUS
  <2> QED  BY <2>2, <2>3
<1> QED  BY <1>1, <1>2 DEF Private!Fork

LEMMA BornGood ==
    ASSUME VInv, IInv', NEW p \in Procs, NEW c \in Procs, Party(p, {p, c}), Kept({p, c}), QueueOK',
           c # p, Hand(p)', Hand(c)', Living(p), pc[c] \in {"unused", "making"},
           pc'[c] = "user", \A a \in Owned : Value(c, a)' = Value(p, a)
    PROVE  Good
<1> Types /\ Types'
  BY DEF VInv, IInv
<1>1. \A q \in Procs : Hand(q)'
  BY KeptHand
<1>2. \A q \in Procs \ {c} : Silent(q)
  BY LivingSilent, KeptSilent
<1>3. p \in Alive /\ c \notin Alive /\ c \in Alive'
  BY DEF Living, Alive
<1>4. \A a \in Owned : Reads(c, a)' = Reads(p, a)
  BY <1>3, ReadsIs, ReadsWillBe DEF Living
<1>5. Private!Next
  BY <1>2, <1>3, <1>4, ForkSeen DEF Private!Next
<1> QED  BY <1>1, <1>5 DEF Good, ValuesOK

LEMMA ForkGood ==
    ASSUME VInv, IInv', NEW p \in Procs, NEW c \in Procs, Fork(p, c)
    PROVE  Good
<1> Types /\ Types' /\ IInv /\ Place(p) /\ Hand(p) /\ Place(c)
  BY DEF VInv, IInv, PlaceOK, ValuesOK
<1>1. /\ cpu \in {p, NoProc} /\ pc[p] = "user" /\ pc[c] = "unused" /\ c # p
      /\ exe' = [exe EXCEPT ![c] = exe[p]] /\ UNCHANGED <<data, pte, dir, queue, swapped>>
  BY DEF Fork, At, tables, swap
<1>2. dir[c] = 0 /\ \A a \in Addrs : pte[c][a].at = "none"
  BY <1>1 DEF Place, Holding
<1>3. exe'[c] = exe[p] /\ \A q \in Procs \ {c} : exe'[q] = exe[q]
  BY <1>1 DEF Types
<1>4. Party(p, {p, c})
  BY <1>1 DEF Party
<1>5. /\ \A q \in Procs \ {p, c} : pc'[q] = pc[q] /\ loc'[q] = loc[q]
      /\ dir[p] = 0 => pc'[c] = "user" /\ pc'[p] = "user"
      /\ dir[p] # 0 => /\ pc'[c] = "making" /\ pc'[p] = "free"
                       /\ loc'[p] = [NoLoc EXCEPT !.who = c, !.why = "forktable"]
  BY <1>1 DEF Fork, Types
<1>6. Near({p, c}, 0)
  <2>1. 0 \notin Pages
    BY DEF Pages
  <2> QED  BY <1>1, <1>3, <1>5, <2>1 DEF Near
<1>7. Kept({p, c}) /\ \A s : OnDevice(s)' = OnDevice(s)
  BY <1>6, NearKept
<1>8. QueueOK'
  <2>1. ~Waiting(p) /\ ~Waiting(c)
    BY <1>1, WaitsAt
  <2> QED  BY <1>1, <1>5, <1>7, <2>1, QueueSame
<1>9. \A a \in Owned : Value(p, a)' = Value(p, a)
  BY <1>1, <1>3, <1>7, ValueSame
<1>10. Clean(p)' /\ TableOf(p)' /\ Clean(c)' /\ TableOf(c)'
  <2>1. \A a \in Addrs : ~Changing(p, a)
    BY <1>1 DEF Changing
  <2>2. Clean(p)'
    BY <1>1, <1>3, <2>1 DEF Hand, Clean
  <2>3. Clean(c)'
    BY <1>1, <1>2 DEF Clean, Droppable
  <2> QED  BY <1>1, <1>2, <2>2, <2>3 DEF Hand, TableOf
<1>11. CASE dir[p] = 0
  <2>1. \A a \in Addrs : pte[p][a].at = "none"
    BY <1>11 DEF Hand, TableOf
  <2>2. \A a \in Owned : Value(p, a) = Initially(exe[p], a)
    BY <2>1 DEF Value, ValueOf
  <2>3. \A a \in Owned : Value(c, a)' = Initially(exe[p], a)
    BY <1>1, <1>2, <1>3 DEF Value, ValueOf
  <2>4. Stage(p)' = "user" /\ Stage(c)' = "user"
    BY <1>5, <1>11 DEF Stage, StageOf
  <2>5. Hand(p)' /\ Hand(c)'
    BY <1>10, <2>4, HandPlain
  <2>6. Living(p)
    BY <1>1, <1>5, <1>9, <1>11 DEF Living
  <2>7. \A a \in Owned : Value(c, a)' = Value(p, a)
    BY <2>2, <2>3
  <2> QED  BY <1>1, <1>4, <1>5, <1>7, <1>8, <1>11, <2>5, <2>6, <2>7, BornGood
<1>12. CASE dir[p] # 0
  <2>1. pc'[p] = "free" /\ loc'[p].who = c /\ loc'[p].why = "forktable" /\ pc'[c] = "making"
    BY <1>5, <1>12 DEF NoLoc
  <2>2. Stage(p)' = "forktable" /\ Stage(c)' = "making"
    BY <2>1 DEF Stage, StageOf
  <2>3. Hand(c)'
    BY <1>10, <2>2, HandPlain
  <2>4. Steady(p)' /\ Full(p)' /\ Child(p)'
    BY <1>1, <1>3, <2>1, <2>2 DEF Steady, Full, Child, Forking
  <2>5. Hand(p)'
    BY <1>10, <2>4 DEF Hand
  <2>6. Silent(p) /\ Silent(c)
    <3>1. Living(p)
      BY <1>1, <1>9, <2>1 DEF Living
    <3> QED  BY <1>1, <2>1, <3>1, LivingSilent, DeadSilent
  <2> QED  BY <1>4, <1>7, <1>8, <2>3, <2>5, <2>6, QuietStep
<1> QED  BY <1>11, <1>12

\* In the loop of copy_page_tables(), and around it.
LEMMA MakingOf ==
    ASSUME VInv, NEW p \in Procs, pc[p] \in Forking
    PROVE  /\ Stage(p) = pc[p] /\ loc[p].who \in Procs /\ loc[p].who # p
           /\ pc[loc[p].who] = "making" /\ exe[loc[p].who] = exe[p]
           /\ cpu \in {p, NoProc} => Party(p, {p, loc[p].who})
           /\ pc[p] # "forktable" => dir[loc[p].who] # 0
           /\ pc[p] # "forktable" => \A a \in Owned :
                a < loc[p].addr => Value(loc[p].who, a) = Value(p, a)
           /\ \A a \in Addrs : (pc[p] # "forktable" => a >= loc[p].addr) => pte[loc[p].who][a].at = "none"
<1>1. Stage(p) = pc[p] /\ Place(p) /\ Hand(p)
  BY DEF Stage, StageOf, VInv, IInv, PlaceOK, ValuesOK, Forking
<1>2. loc[p].who \in Procs /\ loc[p].who # p /\ pc[loc[p].who] = "making"
  <2>1. loc[p].who \in Procs /\ pc[loc[p].who] = "making"
    BY <1>1 DEF Place, Making
  <2> QED  BY <2>1 DEF Forking
<1>3. exe[loc[p].who] = exe[p] /\ (pc[p] # "forktable" => dir[loc[p].who] # 0
          /\ \A a \in Owned : a < loc[p].addr => Value(loc[p].who, a) = Value(p, a))
  BY <1>1 DEF Hand, Child
<1>4. \A a \in Addrs : (pc[p] # "forktable" => a >= loc[p].addr) => pte[loc[p].who][a].at = "none"
  BY <1>1 DEF Place, Making
<1>5. cpu \in {p, NoProc} => Party(p, {p, loc[p].who})
  BY <1>1, <1>2 DEF Party, Forking
<1> QED  BY <1>1, <1>2, <1>3, <1>4, <1>5

LEMMA LoopGood ==
    ASSUME VInv, IInv', NEW p \in Procs, pc[p] \in Forking, cpu \in {p, NoProc}, ~Waiting(p),
           NEW c, c = loc[p].who, Near({p, c}, 0), data' = data, exe' = exe,
           NEW r, Moved(p, "loop", r), r.who = c, dir'[c] # 0, TableOf(p)',
           \A a \in Owned : Value(p, a)' = Value(p, a),
           \A a \in Addrs : Droppable(pte'[p][a]) => Droppable(pte[p][a]),
           \A a \in Owned : Droppable(pte'[c][a]) =>
               \/ pte'[c][a] = pte[c][a]
               \/ data[pte'[c][a].n] = Initially(exe[p], a),
           \A a \in Owned : a < r.addr => Value(c, a)' = Value(p, a)
    PROVE  Good
<1> Types /\ Types' /\ Hand(p)
  BY DEF VInv, IInv, ValuesOK
<1>1. /\ Stage(p) = pc[p] /\ c \in Procs /\ c # p /\ pc[c] = "making" /\ exe[c] = exe[p]
      /\ Party(p, {p, c})
  <2>1. Stage(p) = pc[p] /\ c \in Procs /\ c # p /\ pc[c] = "making" /\ exe[c] = exe[p]
    BY MakingOf
  <2>2. Party(p, {p, loc[p].who})
    BY MakingOf
  <2> QED  BY <2>1, <2>2
<1>2. /\ pc'[p] = "loop" /\ loc'[p] = r /\ Stage(p)' = "loop"
      /\ \A q \in Procs \ {p} : pc'[q] = pc[q] /\ loc'[q] = loc[q]
  BY MovedAt DEF StageOf
<1>3. pc'[c] = "making" /\ Stage(c)' = "making"
  BY <1>1, <1>2 DEF Stage, StageOf
<1>4. Kept({p, c}) /\ queue' = queue /\ swapped' = swapped
  BY NearKept DEF Near
<1>5. QueueOK'
  <2>1. ~Waiting(c)
    BY <1>1, WaitsAt
  <2> QED  BY <1>2, <1>3, <1>4, <2>1, QueueSame
<1>6. Clean(p)'
  <2> SUFFICES ASSUME NEW a \in Owned, Droppable(pte'[p][a])
               PROVE  data'[pte'[p][a].n] = Initially(exe'[p], a)
    BY DEF Clean
  <2>1. Value(p, a)' = data'[pte'[p][a].n] /\ Value(p, a) = data[pte[p][a].n]
    BY DEF Value, ValueOf, Droppable
  <2>2. Droppable(pte[p][a]) /\ ~Changing(p, a)
    BY DEF Changing, Forking
  <2> QED  BY <2>1, <2>2 DEF Hand, Clean
<1>7. Hand(p)'
  <2>1. Steady(p)' /\ Full(p)'
    BY <1>2 DEF Steady, Full
  <2>2. Child(p)'
    BY <1>1, <1>2 DEF Child, Forking
  <2> QED  BY <1>6, <2>1, <2>2 DEF Hand
<1>8. Hand(c)'
  <2>1. Clean(c)'
    <3> SUFFICES ASSUME NEW a \in Owned, Droppable(pte'[c][a])
                 PROVE  data'[pte'[c][a].n] = Initially(exe'[c], a)
      BY DEF Clean
    <3>1. CASE pte'[c][a] = pte[c][a]
      <4>1. data[pte[c][a].n] = Initially(exe[c], a)
        BY <1>1, <3>1, Others
      <4> QED  BY <3>1, <4>1
    <3>2. CASE data[pte'[c][a].n] = Initially(exe[p], a)
      BY <1>1, <3>2
    <3> QED  BY <3>1, <3>2
  <2>2. TableOf(c)'
    BY DEF TableOf
  <2> QED  BY <1>3, <2>1, <2>2, HandPlain
<1>9. Silent(p) /\ Silent(c)
  <2>1. Living(p)
    BY <1>2 DEF Living, Forking
  <2> QED  BY <1>1, <1>3, <2>1, LivingSilent, DeadSilent
<1> QED  BY <1>1, <1>4, <1>5, <1>7, <1>8, <1>9, QuietStep

LEMMA NearPair ==
    ASSUME Types, NEW p \in Procs, NEW c, NEW l, NEW r, Moved(p, l, r), exe' = exe,
           UNCHANGED <<data, queue, swapped>>,
           \A q \in Procs \ {p, c} : dir'[q] = dir[q] /\ \A a \in Addrs : pte'[q][a] = pte[q][a]
    PROVE  Near({p, c}, 0)
<1>1. \A q \in Procs \ {p} : pc'[q] = pc[q] /\ loc'[q] = loc[q]
  BY MovedAt
<1>2. 0 \notin Pages
  BY DEF Pages
<1> QED  BY <1>1, <1>2 DEF Near

LEMMA ForkTableGood ==
    ASSUME VInv, IInv', NEW p \in Procs, ForkTable(p)
    PROVE  Good
<1> Types /\ IInv /\ Hand(p)
  BY DEF VInv, IInv, ValuesOK
<1>0. PICK c : c = loc[p].who
  OBVIOUS
<1> DEFINE r == FirstLoc(loc[p])
<1>1. /\ cpu \in {p, NoProc} /\ pc[p] = "forktable" /\ pc[p] \in Forking /\ loc[p].got # 0
      /\ dir' = [dir EXCEPT ![c] = loc[p].got] /\ Moved(p, "loop", r) /\ exe' = exe
      /\ UNCHANGED <<data, pte, queue, swapped>>
  BY <1>0 DEF ForkTable, At, Goto, FirstLoc, swap, Forking
<1>2. r.who = c /\ r.addr = 1
  <2>1. loc[p] \in Locs
    BY GraspPages
  <2> QED  BY <1>0, <2>1 DEF Locs, FirstLoc
<1> HIDE DEF r
<1>3. c \in Procs /\ c # p /\ \A a \in Addrs : pte[c][a].at = "none"
  BY <1>0, <1>1, MakingOf
<1>4. dir'[c] # 0 /\ \A q \in Procs \ {c} : dir'[q] = dir[q]
  BY <1>1, <1>3 DEF Types
<1>5. Near({p, c}, 0)
  BY <1>1, <1>4, NearPair
<1>6. \A a \in Owned : Value(p, a)' = Value(p, a)
  <2>1. \A s : OnDevice(s)' = OnDevice(s)
    BY <1>5, NearKept
  <2> QED  BY <1>1, <2>1, ValueSame
<1>7. \A a \in Addrs : ~(a < r.addr)
  BY <1>2 DEF Addrs
<1>8. TableOf(p)'
  BY <1>1, <1>3, <1>4 DEF Hand, TableOf
<1>9. ~Waiting(p)
  BY <1>1, WaitsAt
<1> QED  BY <1>0, <1>1, <1>2, <1>4, <1>5, <1>6, <1>7, <1>8, <1>9, LoopGood

LEMMA LocNext ==
    ASSUME NEW r \in Locs, NEW a
    PROVE  /\ NextLoc(r, a).addr = a + 1 /\ NextLoc(r, a).who = r.who
           /\ AfterRead(r, a).addr = a + 1 /\ AfterRead(r, a).who = r.who
  BY DEF Locs, NextLoc, AfterRead

LEMMA ForkEntryGood ==
    ASSUME VInv, IInv', NEW p \in Procs, ForkEntry(p)
    PROVE  Good
<1> Types /\ IInv /\ Hand(p)
  BY DEF VInv, IInv, ValuesOK
<1>0. PICK c, a, e : c = loc[p].who /\ a = loc[p].addr /\ e = pte[p][loc[p].addr]
  OBVIOUS
<1> DEFINE r == NextLoc(loc[p], a)
<1>1. cpu \in {p, NoProc} /\ pc[p] = "loop" /\ pc[p] \in Forking /\ a <= NAddrs /\ ~Waiting(p)
  BY <1>0, WaitsAt DEF ForkEntry, At, Forking
<1>2. /\ c \in Procs /\ c # p /\ exe[c] = exe[p] /\ dir[c] # 0
      /\ \A b \in Owned : b < a => Value(c, b) = Value(p, b)
      /\ \A b \in Addrs : b >= a => pte[c][b].at = "none"
  BY <1>0, <1>1, MakingOf
<1>3. a \in Addrs /\ r.addr = a + 1 /\ r.who = c /\ e \in Entries
  <2>1. loc[p] \in Locs /\ Place(p) /\ Stage(p) = "loop"
    BY <1>1, GraspPages DEF IInv, PlaceOK, Stage, StageOf
  <2>2. a \in 0..NAddrs + 1 /\ a > 0
    BY <1>0, <2>1 DEF Locs, Place, Making, Forking
  <2>3. a \in Addrs
    BY <1>1, <2>2, SizesAssumption DEF Addrs
  <2> QED  BY <1>0, <2>1, <2>3, LocNext, GraspPages
<1>4. \A b \in Addrs : b < r.addr => b < a \/ b = a
  BY <1>3 DEF Addrs
<1> HIDE DEF r
<1>5. CASE e.at = "none" /\ Moved(p, "loop", r) /\ exe' = exe /\ UNCHANGED <<data, pte, dir, queue, swapped>>
  <2>1. Near({p, c}, 0)
    BY <1>5, NearPair
  <2>2. \A s : OnDevice(s)' = OnDevice(s)
    BY <2>1, NearKept
  <2>3. \A q \in Procs, b \in Owned : Value(q, b)' = Value(q, b)
    BY <1>5, <2>2, ValueSame
  <2>4. Value(c, a) = Value(p, a)
    <3>1. pte[c][a].at = "none" /\ pte[p][a].at = "none"
      BY <1>0, <1>2, <1>3, <1>5 DEF Addrs
    <3> QED  BY <1>2, <3>1 DEF Value, ValueOf
  <2>5. \A b \in Owned : b < r.addr => Value(c, b)' = Value(p, b)
    BY <1>2, <1>4, <2>3, <2>4
  <2>6. TableOf(p)'
    BY <1>5 DEF Hand, TableOf
  <2> QED  BY <1>0, <1>1, <1>2, <1>3, <1>5, <2>1, <2>3, <2>5, <2>6, LoopGood
<1>6. CASE /\ e.at = "page"
           /\ pte' = [pte EXCEPT ![p][a] = [e EXCEPT !.rw = FALSE], ![c][a] = [e EXCEPT !.rw = FALSE]]
           /\ Moved(p, "loop", r) /\ exe' = exe /\ UNCHANGED <<data, dir, queue, swapped>>
  <2> DEFINE d == [e EXCEPT !.rw = FALSE]
  <2>1. d.at = "page" /\ d.n = e.n /\ d.dirty = e.dirty
    <3>1. e = InMemory(e.n, e.rw, e.dirty)
      BY <1>3, <1>6, EntryFacts
    <3> QED  BY <3>1 DEF InMemory
  <2> HIDE DEF d
  <2>2. pte' = [pte EXCEPT ![p][a] = d, ![c][a] = d]
    BY <1>6 DEF d
  <2>3. /\ pte'[p][a] = d /\ pte'[c][a] = d
        /\ \A b \in Addrs : b # a => pte'[p][b] = pte[p][b] /\ pte'[c][b] = pte[c][b]
        /\ \A q \in Procs \ {p, c} : pte'[q] = pte[q]
    BY <1>2, <1>3, <2>2 DEF Types
  <2>4. Near({p, c}, 0)
    BY <1>6, <2>3, NearPair
  <2>5. \A s : OnDevice(s)' = OnDevice(s)
    BY <2>4, NearKept
  <2>6. \A b \in Addrs : pte'[p][b].at = pte[p][b].at /\ pte'[p][b].n = pte[p][b].n
                         /\ (Droppable(pte'[p][b]) => Droppable(pte[p][b]))
    BY <1>0, <1>6, <2>1, <2>3 DEF Droppable
  <2>7. \A b \in Owned : Value(p, b)' = Value(p, b)
    BY <1>6, <2>5, <2>6, ValueSame
  <2>8. exe'[c] = exe[c] /\ dir'[c] # 0
    BY <1>2, <1>6
  <2>9. ASSUME NEW b \in Owned, b < r.addr PROVE Value(c, b)' = Value(p, b)
    <3>1. CASE b = a
      <4>1. Value(p, a) = data[e.n]
        BY <1>0, <1>6 DEF Value, ValueOf
      <4>2. data' = data /\ pte'[c][a].at = "page" /\ pte'[c][a].n = e.n
        BY <1>6, <2>1, <2>3
      <4>3. Value(c, a)' = data[e.n]
        BY <4>2 DEF Value, ValueOf
      <4> QED  BY <3>1, <4>1, <4>3
    <3>2. CASE b < a
      <4>1. b # a
        BY <1>3, <3>2 DEF Addrs
      <4>2. pte'[c][b] = pte[c][b] /\ data' = data
        BY <1>6, <2>3, <4>1
      <4>3. Value(c, b)' = Value(c, b)
        BY <2>5, <2>8, <4>2, ValueSame
      <4> QED  BY <1>2, <3>2, <4>3
    <3> QED  BY <1>4, <2>9, <3>1, <3>2
  <2>10. ASSUME NEW b \in Owned, Droppable(pte'[c][b])
         PROVE  pte'[c][b] = pte[c][b] \/ data[pte'[c][b].n] = Initially(exe[p], b)
    <3>1. CASE b = a
      <4>1. Droppable(pte[p][a]) /\ ~Changing(p, a)
        BY <1>0, <1>1, <1>6, <2>1, <2>3, <2>10, <3>1 DEF Droppable, Changing
      <4>2. data[pte[p][a].n] = Initially(exe[p], a)
        BY <1>3, <3>1, <4>1 DEF Hand, Clean
      <4> QED  BY <1>0, <2>1, <2>3, <3>1, <4>2
    <3>2. CASE b # a
      BY <2>3, <3>2
    <3> QED  BY <3>1, <3>2
  <2>11. TableOf(p)'
    BY <1>6, <2>6 DEF Hand, TableOf
  <2>12. data' = data /\ exe' = exe /\ Moved(p, "loop", r)
    BY <1>6
  <2>13. \A b \in Addrs : Droppable(pte'[p][b]) => Droppable(pte[p][b])
    BY <2>6
  <2> QED  BY <1>0, <1>1, <1>3, <2>4, <2>7, <2>8, <2>9, <2>10, <2>11, <2>12, <2>13, LoopGood
<1>7. CASE Call(p, "forkpage", loc[p]) /\ UNCHANGED <<mem_map, data, tables, swap>>
  <2>1. "forkpage" \in Callers /\ loc[p] \in Locs
    BY GraspPages DEF Callers
  <2>2. \A b \in Addrs : ~Changing(p, b)
    BY <1>1 DEF Changing
  <2> QED  BY <1>1, <1>7, <2>1, <2>2, CallGood
<1>8. \/ e.at = "none" /\ Goto(p, "loop", r) /\ UNCHANGED <<mem_map, data, tables, swap>>
      \/ /\ e.at = "page"
         /\ pte' = [pte EXCEPT ![p][a] = [e EXCEPT !.rw = FALSE], ![c][a] = [e EXCEPT !.rw = FALSE]]
         /\ Goto(p, "loop", r) /\ UNCHANGED <<data, dir, swap>>
      \/ Call(p, "forkpage", loc[p]) /\ UNCHANGED <<mem_map, data, tables, swap>>
  BY <1>0 DEF ForkEntry, NextLoc, r
<1> QED  BY <1>5, <1>6, <1>7, <1>8 DEF Goto, tables, swap

LEMMA ForkSwappedGood ==
    ASSUME VInv, IInv', NEW p \in Procs, ForkSwapped(p)
    PROVE  Good
<1> Types /\ IInv /\ Hand(p)
  BY DEF VInv, IInv, ValuesOK
<1>0. PICK c, a, e, n, s : /\ c = loc[p].who /\ a = loc[p].addr /\ e = pte[p][loc[p].addr]
                           /\ n = loc[p].page /\ s = pte[p][loc[p].addr].n
  OBVIOUS
<1> DEFINE r == AfterRead(loc[p], a)
<1>1. /\ cpu \in {p, NoProc} /\ pc[p] = "forkread" /\ pc[p] \in Forking /\ ~Waiting(p)
      /\ pte' = [pte EXCEPT ![c][a] = e, ![p][a] = InMemory(n, TRUE, TRUE)]
      /\ Moved(p, "loop", r) /\ exe' = exe /\ UNCHANGED <<data, dir, queue, swapped>>
  BY <1>0 DEF ForkSwapped, At, Goto, AfterRead, Forking, swap
<1>2. /\ c \in Procs /\ c # p /\ exe[c] = exe[p] /\ dir[c] # 0
      /\ \A b \in Owned : b < a => Value(c, b) = Value(p, b)
  BY <1>0, <1>1, MakingOf
<1>3. a \in Addrs /\ e.at = "swap" /\ n \in Pages /\ s = e.n /\ data[n] = swapped[s] /\ ~Unwritten(s)
  <2>1. a \in Addrs /\ e.at = "swap" /\ n \in Pages
    BY <1>0, <1>1, ReadsAt, GraspPages
  <2>2. data[n] = swapped[s] /\ ~Unwritten(s)
    BY <1>0, <1>1 DEF VInv, ValuesOK, QueueOK, Arrived
  <2> QED  BY <1>0, <2>1, <2>2
<1>4. r.addr = a + 1 /\ r.who = c
  BY <1>0, LocNext, GraspPages
<1>5. \A b \in Addrs : b < r.addr => b < a \/ b = a
  BY <1>3, <1>4 DEF Addrs
<1> HIDE DEF r
<1>6. /\ pte'[c][a] = e /\ pte'[p][a] = InMemory(n, TRUE, TRUE)
      /\ \A b \in Addrs : b # a => pte'[p][b] = pte[p][b] /\ pte'[c][b] = pte[c][b]
      /\ \A q \in Procs \ {p, c} : pte'[q] = pte[q]
  BY <1>1, <1>2, <1>3 DEF Types
<1>7. Near({p, c}, 0)
  BY <1>1, <1>6, NearPair
<1>8. \A d : OnDevice(d)' = OnDevice(d)
  BY <1>7, NearKept
<1>9. OnDevice(s) = data[n] /\ Value(p, a) = OnDevice(s)
  <2>1. Writes(queue, s) = {}
    BY <1>3, DeviceIs
  <2>2. OnDevice(s) = swapped[s]
    BY <2>1, DeviceIs DEF Device
  <2> QED  BY <1>0, <1>3, <2>2 DEF Value, ValueOf
<1>10. ASSUME NEW b \in Owned PROVE Value(p, b)' = Value(p, b)
  <2>1. CASE b = a
    <3>1. pte'[p][a].at = "page" /\ pte'[p][a].n = n
      BY <1>6 DEF InMemory
    <3>2. Value(p, a)' = data'[n]
      BY <3>1 DEF Value, ValueOf
    <3> QED  BY <1>1, <1>9, <2>1, <3>2
  <2>2. CASE b # a
    BY <1>1, <1>6, <1>8, <2>2, ValueSame
  <2> QED  BY <2>1, <2>2
<1>11. exe'[c] = exe[c] /\ dir'[c] # 0 /\ data' = data /\ exe' = exe /\ Moved(p, "loop", r)
  BY <1>1, <1>2
<1>12. ASSUME NEW b \in Owned, b < r.addr PROVE Value(c, b)' = Value(p, b)
  <2>1. CASE b = a
    <3>1. pte'[c][a].at = "swap" /\ pte'[c][a].n = s
      BY <1>3, <1>6
    <3>2. Value(c, a)' = (OnDevice(s))'
      BY <3>1 DEF Value, ValueOf
    <3> QED  BY <1>8, <1>9, <2>1, <3>2
  <2>2. CASE b < a
    <3>1. b # a
      BY <1>3, <2>2 DEF Addrs
    <3>2. pte'[c][b] = pte[c][b]
      BY <1>6, <3>1
    <3>3. Value(c, b)' = Value(c, b)
      BY <1>8, <1>11, <3>2, ValueSame
    <3> QED  BY <1>2, <2>2, <3>3
  <2> QED  BY <1>5, <1>12, <2>1, <2>2
<1>13. ASSUME NEW b \in Owned, Droppable(pte'[c][b])
       PROVE  pte'[c][b] = pte[c][b] \/ data[pte'[c][b].n] = Initially(exe[p], b)
  <2>1. b # a
    BY <1>3, <1>6, <1>13 DEF Droppable
  <2> QED  BY <1>6, <2>1
<1>14. ASSUME NEW b \in Addrs, Droppable(pte'[p][b]) PROVE Droppable(pte[p][b])
  <2>1. b # a
    BY <1>6, <1>14 DEF Droppable, InMemory
  <2> QED  BY <1>6, <1>14, <2>1
<1>15. TableOf(p)'
  <2>1. dir[p] # 0
    BY <1>0, <1>3 DEF Hand, TableOf
  <2> QED  BY <1>1, <2>1 DEF TableOf
<1> QED  BY <1>0, <1>1, <1>4, <1>7, <1>10, <1>11, <1>12, <1>13, <1>14, <1>15, LoopGood

LEMMA ForkDoneGood ==
    ASSUME VInv, IInv', NEW p \in Procs, ForkDone(p)
    PROVE  Good
<1> Types /\ Types' /\ IInv /\ Hand(p)
  BY DEF VInv, IInv, ValuesOK
<1>0. PICK c : c = loc[p].who
  OBVIOUS
<1>1. /\ cpu \in {p, NoProc} /\ pc[p] = "loop" /\ pc[p] \in Forking /\ loc[p].addr > NAddrs
      /\ pc' = [pc EXCEPT ![p] = "user", ![c] = "user"] /\ loc' = [loc EXCEPT ![p] = NoLoc]
      /\ exe' = exe /\ UNCHANGED <<data, pte, dir, queue, swapped>>
  BY <1>0 DEF ForkDone, At, Forking, tables, swap
<1>2. /\ c \in Procs /\ c # p /\ exe[c] = exe[p] /\ dir[c] # 0 /\ pc[c] = "making"
      /\ Party(p, {p, c})
      /\ \A b \in Owned : b < loc[p].addr => Value(c, b) = Value(p, b)
  BY <1>0, <1>1, MakingOf
<1>3. \A b \in Owned : Value(c, b) = Value(p, b)
  <2>1. loc[p].addr \in Int /\ NAddrs \in Int
    BY GraspPages, SizesAssumption DEF Locs
  <2>2. \A b \in Addrs : b < loc[p].addr
    BY <1>1, <2>1 DEF Addrs
  <2> QED  BY <1>2, <2>2
<1>4. /\ pc'[p] = "user" /\ pc'[c] = "user" /\ loc'[p] = NoLoc
      /\ \A q \in Procs \ {p, c} : pc'[q] = pc[q] /\ loc'[q] = loc[q]
  BY <1>1, <1>2 DEF Types
<1>5. Near({p, c}, 0)
  <2>1. 0 \notin Pages
    BY DEF Pages
  <2> QED  BY <1>1, <1>4, <2>1 DEF Near
<1>6. Kept({p, c}) /\ \A s : OnDevice(s)' = OnDevice(s)
  BY <1>5, NearKept
<1>7. QueueOK'
  <2>1. ~Waiting(p) /\ ~Waiting(c)
    BY <1>1, <1>2, WaitsAt
  <2> QED  BY <1>1, <1>4, <1>6, <2>1, QueueSame
<1>8. \A b \in Owned : Value(p, b)' = Value(p, b) /\ Value(c, b)' = Value(c, b)
  BY <1>1, <1>6, ValueSame
<1>9. Clean(p)' /\ Clean(c)'
  <2>1. \A b \in Addrs : ~Changing(p, b)
    BY <1>1 DEF Changing
  <2>2. Clean(p)'
    BY <1>1, <2>1 DEF Hand, Clean
  <2>3. \A b \in Owned : Droppable(pte[c][b]) => data[pte[c][b].n] = Initially(exe[c], b)
    BY <1>1, <1>2, Others
  <2> QED  BY <1>1, <2>2, <2>3 DEF Clean
<1>10. TableOf(p)' /\ TableOf(c)'
  BY <1>1, <1>2 DEF Hand, TableOf
<1>11. Stage(p)' = "user" /\ Stage(c)' = "user"
  BY <1>4 DEF Stage, StageOf
<1>12. Hand(p)' /\ Hand(c)'
  BY <1>9, <1>10, <1>11, HandPlain
<1>13. Living(p)
  BY <1>1, <1>4, <1>8 DEF Living
<1>14. \A b \in Owned : Value(c, b)' = Value(p, b)
  BY <1>3, <1>8
<1> QED  BY <1>2, <1>4, <1>6, <1>7, <1>12, <1>13, <1>14, BornGood

\* The tables of c and its pages are gone.
LEMMA FreedAt ==
    ASSUME Types, NEW c \in Procs, NEW held, free_page_tables(c, held)
    PROVE  /\ UNCHANGED <<data, swapped, queue>>
           /\ dir'[c] = 0 /\ \A a \in Addrs : pte'[c][a] = NoEntry /\ pte'[c][a].at = "none"
           /\ \A q \in Procs \ {c} : dir'[q] = dir[q] /\ pte'[q] = pte[q]
           /\ TableOf(c)' /\ Clean(c)'
<1>1. /\ UNCHANGED <<data, swapped, queue>>
      /\ dir' = [dir EXCEPT ![c] = 0] /\ pte' = [pte EXCEPT ![c] = [a \in Addrs |-> NoEntry]]
  BY DEF free_page_tables
<1>2. dir'[c] = 0 /\ \A q \in Procs \ {c} : dir'[q] = dir[q] /\ pte'[q] = pte[q]
  BY <1>1 DEF Types
<1>3. \A a \in Addrs : pte'[c][a] = NoEntry
  BY <1>1 DEF Types
<1>4. NoEntry.at = "none"
  BY DEF NoEntry
<1>5. TableOf(c)' /\ Clean(c)'
  BY <1>3, <1>4 DEF TableOf, Clean, Droppable
<1> QED  BY <1>1, <1>2, <1>3, <1>4, <1>5

LEMMA ForkFailedGood ==
    ASSUME VInv, IInv', NEW p \in Procs, ForkFailed(p)
    PROVE  Good
<1> Types /\ Types' /\ IInv /\ Hand(p)
  BY DEF VInv, IInv, ValuesOK
<1>0. PICK c : c = loc[p].who
  OBVIOUS
<1>1. /\ cpu \in {p, NoProc} /\ pc[p] \in {"forktable", "forkpage"} /\ pc[p] \in Forking
      /\ free_page_tables(c, 0)
      /\ pc' = [pc EXCEPT ![p] = "user", ![c] = "unused"] /\ loc' = [loc EXCEPT ![p] = NoLoc]
      /\ exe' = [exe EXCEPT ![c] = NoExe]
  BY <1>0 DEF ForkFailed, At, Forking
<1>2. c \in Procs /\ c # p /\ pc[c] = "making" /\ Party(p, {p, c})
  BY <1>0, <1>1, MakingOf
<1>3. /\ UNCHANGED <<data, swapped, queue>> /\ TableOf(c)' /\ Clean(c)'
      /\ \A q \in Procs \ {c} : dir'[q] = dir[q] /\ pte'[q] = pte[q]
  BY <1>1, <1>2, FreedAt
<1>4. /\ pc'[p] = "user" /\ pc'[c] = "unused" /\ exe'[p] = exe[p]
      /\ \A q \in Procs \ {p, c} : pc'[q] = pc[q] /\ loc'[q] = loc[q] /\ exe'[q] = exe[q]
  BY <1>1, <1>2 DEF Types
<1>5. Near({p, c}, 0)
  <2>1. 0 \notin Pages
    BY DEF Pages
  <2> QED  BY <1>3, <1>4, <2>1 DEF Near
<1>6. Kept({p, c}) /\ \A s : OnDevice(s)' = OnDevice(s)
  BY <1>5, NearKept
<1>7. QueueOK'
  <2>1. ~Waiting(p) /\ ~Waiting(c)
    BY <1>1, <1>2, WaitsAt
  <2> QED  BY <1>3, <1>4, <1>6, <2>1, QueueSame
<1>8. \A b \in Owned : Value(p, b)' = Value(p, b)
  BY <1>2, <1>3, <1>4, <1>6, ValueSame
<1>9. Clean(p)' /\ TableOf(p)'
  <2>1. \A b \in Addrs : ~Changing(p, b)
    BY <1>1 DEF Changing
  <2>2. pte'[p] = pte[p] /\ dir'[p] = dir[p] /\ data' = data
    BY <1>2, <1>3
  <2> QED  BY <1>4, <2>1, <2>2 DEF Hand, Clean, TableOf
<1>10. Stage(p)' = "user" /\ Stage(c)' = "unused"
  BY <1>4 DEF Stage, StageOf
<1>11. Hand(p)' /\ Hand(c)'
  BY <1>3, <1>9, <1>10, HandPlain
<1>12. Silent(p) /\ Silent(c)
  <2>1. Living(p)
    BY <1>1, <1>4, <1>8 DEF Living
  <2> QED  BY <1>2, <1>4, <2>1, LivingSilent, DeadSilent
<1> QED  BY <1>2, <1>6, <1>7, <1>11, <1>12, QuietStep

----------------------------------------------------------------------------
(* exec() and exit()                                                       *)

\* The end of p, and a new program for it, as the processes see them.
LEMMA ExitSeen ==
    ASSUME NEW p \in Procs, \A q \in Procs \ {p} : Silent(q), p \in Alive, p \notin Alive',
           \A a \in Owned : Reads(p, a)' = "zero"
    PROVE  Private!Exit(p)
<1>1. Alive' = Alive \ {p}
  BY DEF Silent, Alive
<1> DEFINE mem == [q \in Procs |-> [a \in Owned |-> Reads(q, a)]]
<1>2. mem' = [mem EXCEPT ![p] = Private!Gone]
  <2>1. \A q \in Procs, a \in Owned : Reads(q, a)' = IF q = p THEN "zero" ELSE Reads(q, a)
    BY DEF Silent
  <2>2. mem' = [q \in Procs |-> [a \in Owned |-> IF q = p THEN "zero" ELSE Reads(q, a)]]
    BY <2>1
  <2>3. Private!Gone = [a \in Owned |-> "zero"]
    BY DEF Private!Gone
  <2> QED  BY <2>2, <2>3
<1> QED  BY <1>1, <1>2 DEF Private!Exit

LEMMA ExecSeen ==
    ASSUME NEW p \in Procs, NEW x \in Exes, \A q \in Procs \ {p} : Silent(q), p \in Alive, p \in Alive',
           \A a \in Owned : Reads(p, a)' = Initially(x, a)
    PROVE  Private!Exec(p, x)
<1>1. Alive' = Alive
  BY DEF Silent, Alive
<1> DEFINE mem == [q \in Procs |-> [a \in Owned |-> Reads(q, a)]]
<1>2. mem' = [mem EXCEPT ![p] = Private!Fresh(x)]
  <2>1. \A q \in Procs, a \in Owned : Reads(q, a)' = IF q = p THEN Initially(x, a) ELSE Reads(q, a)
    BY DEF Silent
  <2>2. mem' = [q \in Procs |-> [a \in Owned |-> IF q = p THEN Initially(x, a) ELSE Reads(q, a)]]
    BY <2>1
  <2>3. Private!Fresh(x) = [a \in Owned |-> Initially(x, a)]
    BY DEF Private!Fresh
  <2> QED  BY <2>2, <2>3
<1> QED  BY <1>1, <1>2 DEF Private!Exec

LEMMA AloneParty ==
    ASSUME NEW p \in Procs, cpu \in {p, NoProc}, pc[p] # "making"
    PROVE  Party(p, {p})
  BY DEF Party

LEMMA DoExitGood ==
    ASSUME VInv, IInv', NEW p \in Procs, cpu \in {p, NoProc},
           pc[p] \in PCs \ {"unused", "making", "swapout", "reading", "forkread"}, do_exit(p)
    PROVE  Good
<1> Types /\ Types' /\ IInv
  BY DEF VInv, IInv
<1>1. PICK held : held = loc[p].page
  OBVIOUS
<1>2. /\ free_page_tables(p, held) /\ Moved(p, "unused", NoLoc)
      /\ exe' = [exe EXCEPT ![p] = NoExe]
  BY <1>1 DEF do_exit
<1>3. /\ UNCHANGED <<data, swapped, queue>> /\ TableOf(p)' /\ Clean(p)'
      /\ \A q \in Procs \ {p} : dir'[q] = dir[q] /\ pte'[q] = pte[q]
  BY <1>2, FreedAt
<1>4. /\ pc'[p] = "unused" /\ Stage(p)' = "unused"
      /\ \A q \in Procs \ {p} : pc'[q] = pc[q] /\ loc'[q] = loc[q] /\ exe'[q] = exe[q]
  <2>1. \A q \in Procs \ {p} : exe'[q] = exe[q]
    BY <1>2 DEF Types
  <2> QED  BY <1>2, <2>1, MovedAt DEF StageOf
<1>5. Near({p}, 0)
  <2>1. 0 \notin Pages
    BY DEF Pages
  <2> QED  BY <1>3, <1>4, <2>1 DEF Near
<1>6. Kept({p}) /\ Party(p, {p})
  BY <1>5, NearKept, AloneParty
<1>7. QueueOK'
  <2>1. ~Waiting(p)
    BY WaitsAt
  <2> QED  BY <1>3, <1>4, <1>6, <2>1, QueueSame
<1>8. \A q \in Procs : Hand(q)'
  BY <1>3, <1>4, <1>6, HandPlain, KeptHand
<1>9. \A q \in Procs \ {p} : Silent(q)
  BY <1>6, KeptSilent
<1>10. p \in Alive /\ p \notin Alive'
  BY <1>4 DEF Alive
<1>11. \A a \in Owned : Reads(p, a)' = "zero"
  BY <1>10, ReadsWillBe
<1>12. Private!Next
  BY <1>9, <1>10, <1>11, ExitSeen DEF Private!Next
<1> QED  BY <1>7, <1>8, <1>12 DEF Good, ValuesOK

LEMMA ExitGood ==
    ASSUME VInv, IInv', NEW p \in Procs,
           Exit(p) \/ \E l \in Callers \ {"forktable", "forkpage"} : OutOfMemory(p, l)
    PROVE  Good
<1>1. cpu \in {p, NoProc} /\ pc[p] \in Callers \cup {"user"} /\ do_exit(p)
  BY DEF Exit, OutOfMemory, At
<1>2. pc[p] \in PCs \ {"unused", "making", "swapout", "reading", "forkread"}
  BY <1>1 DEF PCs, Callers
<1> QED  BY <1>1, <1>2, DoExitGood

LEMMA ExecGood ==
    ASSUME VInv, IInv', NEW p \in Procs, NEW x \in Exes, Exec(p, x)
    PROVE  Good
<1> Types /\ Types' /\ IInv /\ Hand(p)
  BY DEF VInv, IInv, ValuesOK
<1>1. /\ cpu \in {p, NoProc} /\ pc[p] = "user" /\ Moved(p, "exec", NoLoc)
      /\ cpu' = p \/ Risks # {}
      /\ exe' = [exe EXCEPT ![p] = x] /\ UNCHANGED <<data, pte, dir, queue, swapped>>
  BY DEF Exec, At, tables, swap
<1>2. /\ pc'[p] = "exec" /\ Stage(p)' = "exec"
      /\ \A q \in Procs \ {p} : pc'[q] = pc[q] /\ loc'[q] = loc[q]
  BY <1>1, MovedAt DEF StageOf
<1>3. exe'[p] = x /\ \A q \in Procs \ {p} : exe'[q] = exe[q]
  BY <1>1 DEF Types
<1>4. Near({p}, 0)
  <2>1. 0 \notin Pages
    BY DEF Pages
  <2> QED  BY <1>1, <1>2, <1>3, <2>1 DEF Near
<1>5. Kept({p}) /\ Party(p, {p})
  BY <1>1, <1>4, NearKept, AloneParty
<1>6. QueueOK'
  <2>1. ~Waiting(p)
    BY <1>1, WaitsAt
  <2> QED  BY <1>1, <1>2, <1>5, <2>1, QueueSame
<1>7. Hand(p)'
  <2>0. ASSUME NEW a \in Owned, Droppable(pte[p][a]), cpu' # p
        PROVE  data[pte[p][a].n] = Initially(x, a)
    <3>1. data[pte[p][a].n] = Initially(exe[p], a)
      BY <1>1, <2>0 DEF Hand, Clean, Changing
    <3> QED  BY <1>1, <2>0, <3>1, OwnedZero
  <2>1. Clean(p)' /\ TableOf(p)'
    BY <1>1, <1>2, <1>3, <2>0 DEF Clean, Changing, Hand, TableOf
  <2>2. Steady(p)' /\ Full(p)' /\ Child(p)'
    BY <1>1, <1>2 DEF Steady, Full, Child, Forking
  <2> QED  BY <2>1, <2>2 DEF Hand
<1>8. \A q \in Procs : Hand(q)'
  BY <1>5, <1>7, KeptHand
<1>9. \A q \in Procs \ {p} : Silent(q)
  BY <1>5, KeptSilent
<1>10. p \in Alive /\ p \in Alive'
  BY <1>1, <1>2 DEF Alive
<1>11. \A a \in Owned : Reads(p, a)' = Initially(x, a)
  BY <1>2, <1>3, <1>10, ReadsWillBe
<1>12. Private!Next
  BY <1>9, <1>10, <1>11, ExecSeen DEF Private!Next
<1> QED  BY <1>6, <1>8, <1>12 DEF Good, ValuesOK

LEMMA NewSpaceGood ==
    ASSUME VInv, IInv', NEW p \in Procs, NewSpace(p)
    PROVE  Good
<1> Types /\ Types' /\ IInv
  BY DEF VInv, IInv
<1>1. /\ cpu \in {p, NoProc} /\ pc[p] = "exec" /\ free_page_tables(p, 0)
      /\ Moved(p, "user", NoLoc) /\ exe' = exe
  BY DEF NewSpace, At, Sleep
<1>2. /\ UNCHANGED <<data, swapped, queue>> /\ TableOf(p)' /\ Clean(p)'
      /\ \A a \in Addrs : pte'[p][a].at = "none"
      /\ \A q \in Procs \ {p} : dir'[q] = dir[q] /\ pte'[q] = pte[q]
  BY <1>1, FreedAt
<1>3. /\ pc'[p] = "user" /\ Stage(p)' = "user"
      /\ \A q \in Procs \ {p} : pc'[q] = pc[q] /\ loc'[q] = loc[q]
  BY <1>1, MovedAt DEF StageOf
<1>4. Near({p}, 0)
  <2>1. 0 \notin Pages
    BY DEF Pages
  <2> QED  BY <1>1, <1>2, <1>3, <2>1 DEF Near
<1>5. Kept({p}) /\ Party(p, {p})
  BY <1>1, <1>4, NearKept, AloneParty
<1>6. QueueOK'
  <2>1. ~Waiting(p)
    BY <1>1, WaitsAt
  <2> QED  BY <1>2, <1>3, <1>5, <2>1, QueueSame
<1>7. Hand(p)'
  BY <1>2, <1>3, HandPlain
<1>8. Silent(p)
  <2>1. p \in Alive /\ p \in Alive'
    BY <1>1, <1>3 DEF Alive
  <2>2. \A a \in Owned : Reads(p, a) = Initially(exe[p], a)
    BY <1>1, <2>1, ReadsIs
  <2>3. \A a \in Owned : Value(p, a)' = Initially(exe[p], a)
    BY <1>1, <1>2 DEF Value, ValueOf
  <2>4. \A a \in Owned : Reads(p, a)' = Value(p, a)'
    BY <1>3, <2>1, ReadsWillBe
  <2> QED  BY <2>1, <2>2, <2>3, <2>4 DEF Silent
<1> QED  BY <1>5, <1>6, <1>7, <1>8, QuietStep

----------------------------------------------------------------------------
(* Every process has a memory of its own                                   *)

LEMMA NothingGood ==
    ASSUME VInv, UNCHANGED vars
    PROVE  Good
<1> Types /\ IInv /\ ValuesOK
  BY DEF VInv, IInv
<1>1. UNCHANGED <<cpu, data, dir, pte, swapped, queue, exe, pc, loc>>
  BY DEF vars, tables, swap
<1>2. Near({}, 0)
  <2>1. 0 \notin Pages
    BY DEF Pages
  <2> QED  BY <1>1, <2>1 DEF Near
<1>3. Kept({})
  BY <1>2, NearKept
<1>4. QueueOK'
  BY <1>1, <1>3, QueueSame
<1>5. \A q \in Procs, a \in Owned : Value(q, a)' = Value(q, a)
  BY <1>2, <1>3, NearKept, ValueSame, <1>1
<1>6. \A q \in Procs : Stage(q)' = Stage(q)
  BY <1>1 DEF Stage
<1>7. \A q \in Procs : Hand(q)'
  <2> SUFFICES ASSUME NEW q \in Procs PROVE Hand(q)'
    OBVIOUS
  <2> Hand(q)
    BY DEF ValuesOK
  <2>1. Clean(q)' /\ TableOf(q)'
    BY <1>1 DEF Hand, Clean, Changing, TableOf
  <2>2. Steady(q)' /\ Full(q)'
    BY <1>1, <1>6 DEF Hand, Steady, Full, Sharers
  <2>3. Child(q)'
    <3>1. Stage(q) \in Forking => loc[q].who \in Procs
      BY DEF IInv, PlaceOK, Place, Making
    <3>2. Child(q)
      BY DEF Hand
    <3> QED  BY <1>1, <1>5, <1>6, <3>1, <3>2 DEF Child
  <2> QED  BY <2>1, <2>2, <2>3 DEF Hand
<1>8. \A q \in Procs : Silent(q)
  <2>1. UNCHANGED <<cpu, mem_map, data, dir, pte, spare, swapped, queue, exe, pc, loc>>
    BY DEF vars, tables, swap
  <2>2. Types'
    BY <2>1 DEF Types
  <2> QED  BY <1>3, <2>2, KeptSilent
<1>9. UNCHANGED Private!vars
  BY <1>8, AllSilent
<1> QED  BY <1>4, <1>7, <1>9 DEF Good, ValuesOK

LEMMA NextGood ==
    ASSUME VInv, IInv', [Next]_vars
    PROVE  Good
<1>1. CASE UNCHANGED vars
  BY <1>1, NothingGood
<1>2. CASE Complete
  BY <1>2, CompleteGood
<1>3. ASSUME NEW p \in Procs, NEW a \in Addrs,
             do_wp_page(p, a) \/ Fault(p, a) \/ write_verify(p, a) \/ \E v \in Vals : Write(p, a, v)
      PROVE  Good
  BY <1>3, UserGood
<1>4. ASSUME NEW p \in Procs, NEW q \in Procs, NEW a \in Addrs, Drop(p, q, a) \/ SwapOut(p, q, a)
      PROVE  Good
  BY <1>4, DropGood, SwapOutGood
<1>5. ASSUME NEW p \in Procs, NEW v \in Vals, Restart(p, v) \/ KernelWrite(p, v)
      PROVE  Good
  BY <1>5, StoreGood
<1>6. ASSUME NEW p \in Procs, GetFreePage(p) \/ SwappedOut(p) \/ OutOfSwap(p)
      PROVE  Good
  BY <1>6, GetFreePageGood, WaitedGood
<1>7. ASSUME NEW p \in Procs, NEW l \in Callers \ {"forktable", "forkpage"}, OutOfMemory(p, l)
      PROVE  Good
  BY <1>7, ExitGood
<1>8. ASSUME NEW p \in Procs, SwapIn(p) \/ ForkRead(p)
      PROVE  Good
  <2>1. CASE SwapIn(p)
    <3>1. /\ cpu \in {p, NoProc} /\ loc[p].got # 0 /\ pc[p] = "swapin"
          /\ ReadSwap(p, "reading", pte[p][loc[p].addr].n)
      BY <2>1 DEF SwapIn, At
    <3> QED  BY <3>1, ReadSwapGood
  <2>2. CASE ForkRead(p)
    <3>1. /\ cpu \in {p, NoProc} /\ loc[p].got # 0 /\ pc[p] = "forkpage"
          /\ ReadSwap(p, "forkread", pte[p][loc[p].addr].n)
      BY <2>2 DEF ForkRead, At
    <3> QED  BY <3>1, ReadSwapGood
  <2> QED  BY <1>8, <2>1, <2>2
<1>9. ASSUME NEW p \in Procs, Copy(p) \/ ShareTable(p) \/ SwappedIn(p)
      PROVE  Good
  BY <1>9, CopyGood, ShareTableGood, SwappedInGood
<1>10. ASSUME NEW p \in Procs, Empty(p) \/ Bread(p) \/ bread_page(p) \/ put_page(p) \/ PutTable(p)
       PROVE  Good
  BY <1>10, HeldGood, BreadPageGood, PutGood
<1>11. ASSUME NEW p \in Procs, NEW c \in Procs, Fork(p, c)
       PROVE  Good
  BY <1>11, ForkGood
<1>12. ASSUME NEW p \in Procs, ForkTable(p) \/ ForkEntry(p) \/ ForkSwapped(p)
       PROVE  Good
  BY <1>12, ForkTableGood, ForkEntryGood, ForkSwappedGood
<1>13. ASSUME NEW p \in Procs, ForkDone(p) \/ ForkFailed(p)
       PROVE  Good
  BY <1>13, ForkDoneGood, ForkFailedGood
<1>14. ASSUME NEW p \in Procs, NEW x \in Exes, Exec(p, x)
       PROVE  Good
  BY <1>14, ExecGood
<1>15. ASSUME NEW p \in Procs, NewSpace(p) \/ Exit(p)
       PROVE  Good
  BY <1>15, NewSpaceGood, ExitGood
<1> QED
  BY <1>1, <1>2, <1>3, <1>4, <1>5, <1>6, <1>7, <1>8, <1>9, <1>10, <1>11, <1>12, <1>13, <1>14,
     <1>15 DEF Next

----------------------------------------------------------------------------
(* A page stays at its address                                             *)

\* An entry of q at b holds nothing new.
Same(q, b) ==
    \/ Held(pte'[q][b]) = 0
    \/ \E r \in Procs : Held(pte[r][b]) = Held(pte'[q][b])

\* Entries are copied to the same address, and n, that no entry held, comes to a.
LEMMA ApartStep ==
    ASSUME Apart, NEW n, NEW a \in Addrs,
           n # 0 => \A q \in Procs, b \in Addrs : Held(pte[q][b]) # n,
           \A q \in Procs, b \in Addrs : Same(q, b) \/ (b = a /\ Held(pte'[q][b]) = n)
    PROVE  Apart'
<1> SUFFICES ASSUME NEW p \in Procs, NEW q \in Procs, NEW b \in Addrs, NEW c \in Addrs,
                    Held(pte'[p][b]) # 0, Held(pte'[q][c]) = Held(pte'[p][b])
             PROVE  b = c
  BY DEF Apart
<1>1. CASE Held(pte'[p][b]) = n
  <2>1. ~Same(p, b) /\ ~Same(q, c)
    BY <1>1 DEF Same
  <2> QED  BY <2>1
<1>2. CASE Held(pte'[p][b]) # n
  <2>1. Same(p, b) /\ Same(q, c)
    BY <1>2
  <2>2. PICK r \in Procs, s \in Procs :
           Held(pte[r][b]) = Held(pte'[p][b]) /\ Held(pte[s][c]) = Held(pte'[q][c])
    BY <2>1 DEF Same
  <2>3. Held(pte[r][b]) # 0 /\ Held(pte[s][c]) = Held(pte[r][b])
    BY <2>2
  <2> QED  BY <2>3 DEF Apart
<1> QED  BY <1>1, <1>2

LEMMA ApartKept ==
    ASSUME Apart, \A q \in Procs, b \in Addrs : Same(q, b)
    PROVE  Apart'
<1>1. 1 \in Addrs
  BY SizesAssumption DEF Addrs
<1> QED  BY <1>1, ApartStep

LEMMA ApartStill ==
    ASSUME Apart, pte' = pte PROVE Apart'
BY DEF Apart

LEMMA ApartEntry ==
    ASSUME Types, Apart, NEW p \in Procs, NEW a \in Addrs, NEW e, pte' = [pte EXCEPT ![p][a] = e],
           Held(e) = 0 \/ \E r \in Procs : Held(pte[r][a]) = Held(e)
    PROVE  Apart'
<1>1. \A q \in Procs, b \in Addrs : pte'[q][b] = IF q = p /\ b = a THEN e ELSE pte[q][b]
  BY DEF Types
<1>2. \A q \in Procs, b \in Addrs : Same(q, b)
  BY <1>1 DEF Same
<1> QED  BY <1>2, ApartKept

\* A page that somebody holds in a variable goes into an entry.
LEMMA ApartFills ==
    ASSUME IInv, Sole, Apart, NEW p \in Procs, NEW a \in Addrs, NEW n \in Grasp(loc[p]) \ {0},
           NEW d \in BOOLEAN, pte' = [pte EXCEPT ![p][a] = InMemory(n, TRUE, d)]
    PROVE  Apart'
<1> Types /\ CountOK
  BY DEF IInv
<1> DEFINE e == InMemory(n, TRUE, d)
<1>1. Held(e) = n
  BY DEF Held, InMemory
<1> HIDE DEF e
<1>2. \A q \in Procs, b \in Addrs : pte'[q][b] = IF q = p /\ b = a THEN e ELSE pte[q][b]
  BY DEF Types, e
<1>3. n \in Pages /\ mem_map[n] = 1
  BY GraspPages DEF Sole
<1>4. \A q \in Procs, b \in Addrs : Held(pte[q][b]) # n
  BY <1>3, OneUser
<1>5. ASSUME NEW q \in Procs, NEW b \in Addrs
      PROVE  Same(q, b) \/ (b = a /\ Held(pte'[q][b]) = n)
  <2>1. CASE q = p /\ b = a
    <3>1. pte'[q][b] = e
      BY <1>2, <2>1
    <3> QED  BY <1>1, <2>1, <3>1
  <2>2. CASE ~(q = p /\ b = a)
    BY <1>2, <2>2 DEF Same
  <2> QED  BY <2>1, <2>2
<1> QED  BY <1>4, <1>5, ApartStep

LEMMA ApartShared ==
    ASSUME Types, Apart, NEW p \in Procs, NEW q \in Procs, NEW a \in Addrs, NEW n,
           Shared(p, a, q, n)
    PROVE  Apart'
<1> DEFINE e == [pte[q][a] EXCEPT !.rw = FALSE]
<1>1. \A s \in Procs, b \in Addrs :
         pte'[s][b] = IF s \in {p, q} /\ b = a THEN e ELSE pte[s][b]
  BY DEF Shared, Types
<1>2. Held(e) = Held(pte[q][a])
  <2>1. pte[q][a] \in Entries
    BY GraspPages
  <2> QED  BY <2>1 DEF Held, Entries, NoEntry, OnSwap, InMemory
<1> HIDE DEF e
<1>3. \A s \in Procs, b \in Addrs : Same(s, b)
  BY <1>1, <1>2 DEF Same
<1> QED  BY <1>3, ApartKept

LEMMA ApartFault ==
    ASSUME Types, Apart, NEW p \in Procs, NEW a \in Addrs, NEW t, do_no_page(p, a, t)
    PROVE  Apart'
<1>1. \/ pte' = pte
      \/ \E q \in Procs \ {p} : Shared(p, a, q, pte[q][a].n)
  BY DEF do_no_page, share_page, Sharers, tables
<1> QED  BY <1>1, ApartStill, ApartShared

LEMMA ApartUser ==
    ASSUME IInv, Apart, NEW p \in Procs, NEW a \in Addrs, NEW v,
           \/ do_wp_page(p, a) \/ Fault(p, a) \/ write_verify(p, a) \/ Write(p, a, v)
           \/ Restart(p, v) \/ KernelWrite(p, v)
    PROVE  Apart'
<1> Types /\ Place(p)
  BY DEF IInv, PlaceOK
<1>1. ASSUME NEW b, Stored(p, b, v) PROVE Apart'
  <2>1. \A q \in Procs, c \in Addrs :
           Held(pte'[q][c]) = Held(pte[q][c])
    <3>1. pte' = [pte EXCEPT ![p][b].dirty = TRUE]
      BY <1>1 DEF Stored
    <3>2. ASSUME NEW q \in Procs, NEW c \in Addrs PROVE Held(pte'[q][c]) = Held(pte[q][c])
      <4>1. pte'[q][c] = pte[q][c] \/ pte'[q][c] = [pte[q][c] EXCEPT !.dirty = TRUE]
        BY <3>1 DEF Types
      <4>2. pte[q][c] \in Entries
        BY GraspPages
      <4> QED  BY <4>1, <4>2 DEF Held, Entries, NoEntry, OnSwap, InMemory
    <3> QED  BY <3>2
  <2> QED  BY <2>1, ApartKept DEF Same
<1>2. ASSUME NEW l, un_wp_page(p, a, l) PROVE Apart'
  <2>1. CASE pte' = [pte EXCEPT ![p][a].rw = TRUE]
    <3>1. pte' = [pte EXCEPT ![p][a] = [pte[p][a] EXCEPT !.rw = TRUE]]
      BY <2>1
    <3>2. Held([pte[p][a] EXCEPT !.rw = TRUE]) = Held(pte[p][a])
      <4>1. pte[p][a] \in Entries
        BY GraspPages
      <4> QED  BY <4>1 DEF Held, Entries, NoEntry, OnSwap, InMemory
    <3> QED  BY <3>1, <3>2, ApartEntry
  <2>2. CASE pte' = pte
    BY <2>2, ApartStill
  <2> QED  BY <1>2, <2>1, <2>2 DEF un_wp_page, tables
<1>3. CASE do_wp_page(p, a)
  BY <1>2, <1>3 DEF do_wp_page
<1>4. CASE Fault(p, a)
  BY <1>4, ApartFault DEF Fault
<1>5. CASE write_verify(p, a)
  BY <1>2, <1>5, ApartStill DEF write_verify, tables
<1>6. CASE Write(p, a, v)
  BY <1>1, <1>6 DEF Write
<1>7. CASE Restart(p, v)
  BY <1>1, <1>7, ApartStill DEF Restart, tables
<1>8. CASE KernelWrite(p, v)
  <2>1. CASE Stored(p, loc[p].addr, v)
    BY <1>1, <2>1
  <2>2. CASE do_no_page(p, loc[p].addr, "verified")
    <3>1. loc[p].addr \in Addrs
      BY <1>8 DEF KernelWrite, At, Place, Serving, Stage, StageOf
    <3> QED  BY <2>2, <3>1, ApartFault
  <2> QED  BY <1>8, <2>1, <2>2 DEF KernelWrite
<1> QED  BY <1>3, <1>4, <1>5, <1>6, <1>7, <1>8

LEMMA ApartDrop ==
    ASSUME Types, Apart, NEW p \in Procs, NEW q \in Procs, NEW a \in Addrs,
           Drop(p, q, a) \/ SwapOut(p, q, a)
    PROVE  Apart'
<1>1. pte' = [pte EXCEPT ![q][a] = NoEntry] \/ \E s : pte' = [pte EXCEPT ![q][a] = OnSwap(s)]
  BY DEF Drop, SwapOut
<1>2. Held(NoEntry) = 0 /\ \A s : Held(OnSwap(s)) = 0
  BY DEF Held, NoEntry, OnSwap
<1> QED  BY <1>1, <1>2, ApartEntry

LEMMA ApartPut ==
    ASSUME IInv, Sole, Apart, NEW p \in Procs,
           Copy(p) \/ SwappedIn(p) \/ put_page(p) \/ PutTable(p) \/ ShareTable(p)
    PROVE  Apart'
<1> Types /\ Place(p)
  BY DEF IInv, PlaceOK
<1> DEFINE a == loc[p].addr
<1>1. Stage(p) \in {"wp", "reading", "put", "table", "share"}
  BY DEF Copy, SwappedIn, put_page, PutTable, ShareTable, At, Stage, StageOf
<1>2. a \in Addrs
  BY <1>1 DEF Place, Serving, Alone, Filling
<1>3. loc[p].page \in Grasp(loc[p]) /\ loc[p].got \in Grasp(loc[p])
  BY DEF Grasp
<1>4. Stage(p) \in {"reading", "put", "table"} => loc[p].page # 0
  BY DEF Place, Holding
<1>5. CASE pte' = pte
  BY <1>5, ApartStill
<1>6. CASE Copy(p)
  BY <1>2, <1>3, <1>6, ApartFills DEF Copy
<1>7. CASE SwappedIn(p)
  <2>1. Stage(p) = "reading"
    BY <1>7 DEF SwappedIn, At, Stage, StageOf
  <2> QED  BY <1>2, <1>3, <1>4, <1>7, <2>1, ApartFills DEF SwappedIn
<1>8. CASE put_page(p)
  <2>1. Stage(p) = "put"
    BY <1>8 DEF put_page, At, Stage, StageOf
  <2>2. pte' = pte \/ pte' = [pte EXCEPT ![p][a] = InMemory(loc[p].page, TRUE, FALSE)]
    BY <1>8 DEF put_page, tables
  <2> QED  BY <1>2, <1>3, <1>4, <1>5, <2>1, <2>2, ApartFills
<1>9. CASE PutTable(p)
  <2>1. Stage(p) = "table"
    BY <1>9 DEF PutTable, At, Stage, StageOf
  <2> QED  BY <1>2, <1>3, <1>4, <1>9, <2>1, ApartFills DEF PutTable
<1>10. CASE ShareTable(p)
  <2>1. Stage(p) = "share"
    BY <1>10 DEF ShareTable, At, Stage, StageOf
  <2>2. loc[p].who \in Procs
    BY <2>1 DEF Place, Alone
  <2> QED  BY <1>2, <1>10, <2>2, ApartShared DEF ShareTable
<1> QED  BY <1>6, <1>7, <1>8, <1>9, <1>10

LEMMA ApartFork ==
    ASSUME IInv, Sole, Apart, NEW p \in Procs, ForkEntry(p) \/ ForkSwapped(p)
    PROVE  Apart'
<1> Types /\ Place(p)
  BY DEF IInv, PlaceOK
<1> DEFINE a == loc[p].addr  ro == [pte[p][a] EXCEPT !.rw = FALSE]
           e == InMemory(loc[p].page, TRUE, TRUE)
<1>1. PICK c : c = loc[p].who
  OBVIOUS
<1>2. Stage(p) \in {"loop", "forkread"} /\ (ForkSwapped(p) => Stage(p) = "forkread")
  BY DEF ForkEntry, ForkSwapped, At, Stage, StageOf
<1>3. a \in Addrs /\ c \in Procs
  <2>1. a > 0 /\ c \in Procs
    BY <1>1, <1>2 DEF Place, Making, Forking
  <2>2. a \in 0..NAddrs + 1
    BY GraspPages DEF Locs
  <2>3. ForkEntry(p) => a <= NAddrs
    BY DEF ForkEntry
  <2>4. ForkSwapped(p) => a \in Addrs
    BY <1>2 DEF Place, Serving
  <2> QED  BY <2>1, <2>2, <2>3, <2>4 DEF Addrs
<1>4. CASE pte' = pte
  BY <1>4, ApartStill
<1>5. CASE pte' = [pte EXCEPT ![p][a] = ro, ![c][a] = ro]
  <2>1. Held(ro) = Held(pte[p][a])
    <3>1. pte[p][a] \in Entries
      BY <1>3, GraspPages
    <3> QED  BY <3>1 DEF Held, Entries, NoEntry, OnSwap, InMemory
  <2> HIDE DEF ro
  <2>2. \A s \in Procs, b \in Addrs :
           pte'[s][b] = IF s \in {p, c} /\ b = a THEN ro ELSE pte[s][b]
    BY <1>3, <1>5 DEF Types
  <2>3. \A s \in Procs, b \in Addrs : Same(s, b)
    BY <2>1, <2>2 DEF Same
  <2> QED  BY <2>3, ApartKept
<1>6. CASE ForkSwapped(p)
  <2>1. /\ pte' = [pte EXCEPT ![c][a] = pte[p][a], ![p][a] = e]
        /\ pte[p][a].at = "swap" /\ loc[p].page # 0
    BY <1>1, <1>2, <1>6 DEF ForkSwapped, Place, Serving, Holding
  <2>2. Held(e) = loc[p].page /\ Held(pte[p][a]) = 0
    BY <2>1 DEF Held, InMemory
  <2> HIDE DEF e
  <2>3. \A s \in Procs, b \in Addrs :
           pte'[s][b] = IF s = p /\ b = a THEN e ELSE IF s = c /\ b = a THEN pte[p][a] ELSE pte[s][b]
    BY <1>3, <2>1 DEF Types
  <2>4. loc[p].page \in Grasp(loc[p]) \ {0} /\ CountOK
    BY <2>1 DEF Grasp, IInv
  <2>5. loc[p].page \in Pages /\ mem_map[loc[p].page] = 1
    BY <2>4, GraspPages DEF Sole
  <2>6. \A s \in Procs, b \in Addrs : Held(pte[s][b]) # loc[p].page
    BY <2>4, <2>5, OneUser
  <2>7. \A s \in Procs, b \in Addrs : Same(s, b) \/ (b = a /\ Held(pte'[s][b]) = loc[p].page)
    BY <2>2, <2>3 DEF Same
  <2> QED  BY <1>3, <2>6, <2>7, ApartStep
<1> QED  BY <1>1, <1>4, <1>5, <1>6 DEF ForkEntry, tables

LEMMA ApartFreed ==
    ASSUME Types, Apart, NEW c \in Procs, NEW held, free_page_tables(c, held)
    PROVE  Apart'
<1>1. \A s \in Procs, b \in Addrs : pte'[s][b] = IF s = c THEN NoEntry ELSE pte[s][b]
  BY DEF free_page_tables, Types
<1>2. Held(NoEntry) = 0
  BY DEF Held, NoEntry
<1> QED  BY <1>1, <1>2, ApartKept DEF Same

LEMMA ApartLeaves ==
    ASSUME IInv, Apart, NEW p \in Procs, NEW l,
           NewSpace(p) \/ Exit(p) \/ OutOfMemory(p, l) \/ ForkFailed(p)
    PROVE  Apart'
<1> Types /\ Place(p)
  BY DEF IInv, PlaceOK
<1>1. CASE ForkFailed(p)
  <2>1. Stage(p) \in Forking
    BY <1>1 DEF ForkFailed, At, Stage, StageOf, Forking
  <2>2. loc[p].who \in Procs
    BY <2>1 DEF Place, Making
  <2> QED  BY <1>1, <2>2, ApartFreed DEF ForkFailed
<1>2. CASE NewSpace(p) \/ do_exit(p)
  BY <1>2, ApartFreed DEF NewSpace, do_exit
<1> QED  BY <1>1, <1>2 DEF Exit, OutOfMemory

\* The steps that leave all entries alone.
LEMMA ApartWaits ==
    ASSUME Apart, NEW p, NEW c, NEW x,
           \/ UNCHANGED vars \/ Complete
           \/ GetFreePage(p) \/ SwappedOut(p) \/ OutOfSwap(p) \/ SwapIn(p) \/ Empty(p) \/ Bread(p)
           \/ bread_page(p) \/ Fork(p, c) \/ ForkTable(p) \/ ForkRead(p) \/ ForkDone(p) \/ Exec(p, x)
    PROVE  Apart'
<1>1. pte' = pte
  BY DEF vars, tables, Complete, GetFreePage, SwappedOut, OutOfSwap, SwapIn, ReadSwap, Empty, Bread,
         bread_page, Fork, ForkTable, ForkRead, ForkDone, Exec
<1> QED  BY <1>1, ApartStill

LEMMA NextApart ==
    ASSUME VInv, [Next]_vars PROVE Apart'
<1> IInv /\ Sole /\ Apart /\ Types
  BY DEF VInv, IInv
<1>1. CASE UNCHANGED vars \/ Complete
  BY <1>1, ApartWaits
<1>2. ASSUME NEW p \in Procs, NEW a \in Addrs,
             do_wp_page(p, a) \/ Fault(p, a) \/ write_verify(p, a) \/ \E v \in Vals : Write(p, a, v)
      PROVE  Apart'
  BY <1>2, ApartUser
<1>3. ASSUME NEW p \in Procs, NEW q \in Procs, NEW a \in Addrs, Drop(p, q, a) \/ SwapOut(p, q, a)
      PROVE  Apart'
  BY <1>3, ApartDrop
<1>4. ASSUME NEW p \in Procs, NEW v \in Vals, Restart(p, v) \/ KernelWrite(p, v)
      PROVE  Apart'
  <2>1. 1 \in Addrs
    BY SizesAssumption DEF Addrs
  <2> QED  BY <1>4, <2>1, ApartUser
<1>5. ASSUME NEW p \in Procs, GetFreePage(p) \/ SwappedOut(p) \/ OutOfSwap(p)
      PROVE  Apart'
  BY <1>5, ApartWaits
<1>6. ASSUME NEW p \in Procs, NEW l, OutOfMemory(p, l) \/ NewSpace(p) \/ Exit(p) \/ ForkFailed(p)
      PROVE  Apart'
  BY <1>6, ApartLeaves
<1>7. ASSUME NEW p \in Procs, Copy(p) \/ ShareTable(p) \/ SwappedIn(p) \/ put_page(p) \/ PutTable(p)
      PROVE  Apart'
  BY <1>7, ApartPut
<1>8. ASSUME NEW p \in Procs, SwapIn(p) \/ Empty(p) \/ Bread(p) \/ bread_page(p)
      PROVE  Apart'
  BY <1>8, ApartWaits
<1>9. ASSUME NEW p \in Procs, NEW c \in Procs, Fork(p, c)
      PROVE  Apart'
  BY <1>9, ApartWaits
<1>10. ASSUME NEW p \in Procs, ForkTable(p) \/ ForkRead(p) \/ ForkDone(p)
       PROVE  Apart'
  BY <1>10, ApartWaits
<1>11. ASSUME NEW p \in Procs, ForkEntry(p) \/ ForkSwapped(p)
       PROVE  Apart'
  BY <1>11, ApartFork
<1>12. ASSUME NEW p \in Procs, NEW x, Exec(p, x)
       PROVE  Apart'
  BY <1>12, ApartWaits
<1> QED
  BY <1>1, <1>2, <1>3, <1>4, <1>5, <1>6, <1>7, <1>8, <1>9, <1>10, <1>11, <1>12 DEF Next

----------------------------------------------------------------------------
LEMMA InitMapped == Init => Private!Init
<1> SUFFICES ASSUME Init PROVE Private!Init
  OBVIOUS
<1>1. PICK p \in Procs, x \in Exes :
        /\ pc = [q \in Procs |-> IF q = p THEN "user" ELSE "unused"]
        /\ exe = [q \in Procs |-> IF q = p THEN x ELSE NoExe]
  BY DEF Init
<1>2. Alive = {p}
  BY <1>1 DEF Alive
<1>3. \A q \in Procs, a \in Owned : Reads(q, a) = IF q = p THEN Initially(x, a) ELSE "zero"
  BY <1>1, <1>2 DEF Reads, Init, NoEntry
<1>4. [q \in Procs |-> [a \in Owned |-> Reads(q, a)]] =
         [q \in Procs |-> IF q = p THEN Private!Fresh(x) ELSE Private!Gone]
  BY <1>3 DEF Private!Fresh, Private!Gone
<1> QED  BY <1>2, <1>4 DEF Private!Init

LEMMA InitVInv ==
    ASSUME Quiet, Init PROVE VInv
<1>1. Safe
  BY DEF Quiet, Safe
<1>2. IInv /\ Sole
  BY <1>1, InitIInv, InitSole
<1>3. queue = <<>> /\ \A p \in Procs : pc[p] \in {"user", "unused"} /\ \A a \in Addrs : pte[p][a].at = "none"
  <2>1. NoEntry.at = "none"
    BY DEF NoEntry
  <2> QED  BY <2>1 DEF Init
<1>4. QueueOK
  <2>1. DOMAIN queue = {}
    BY <1>3
  <2> QED  BY <1>3, <2>1 DEF QueueOK, Arrived
<1>5. ASSUME NEW p \in Procs PROVE Hand(p)
  <2>1. Stage(p) \in {"user", "unused"}
    BY <1>3 DEF Stage, StageOf
  <2> QED  BY <1>3, <2>1 DEF Hand, Clean, Droppable, Steady, Full, TableOf, Child, Forking
<1>6. Apart
  BY <1>3 DEF Apart, Held
<1> QED  BY <1>2, <1>4, <1>5, <1>6 DEF VInv, ValuesOK

\* Sharing, copying and swapping are invisible to the processes: do_wp_page(),
\* do_no_page(), copy_page_tables() and swap_out() give each a memory of its own,
\* in which only its own stores, and those of the kernel for it, change anything.
\* Beyond the executable this holds also when a call of the system sleeps between
\* verify_area() and the copy to the user, when that copy is to a shared page, and
\* when exec() sleeps; of the whole address space when none of the three happens.
THEOREM MemoryPrivate == Quiet /\ Spec => PrivateMemory
<1>1. Quiet /\ Init => VInv /\ Private!Init
  BY InitVInv, InitMapped
<1>2. VInv /\ [Next]_vars => VInv' /\ [Private!Next]_(Private!vars)
  <2> SUFFICES ASSUME VInv, [Next]_vars PROVE VInv' /\ [Private!Next]_(Private!vars)
    OBVIOUS
  <2>1. IInv'
    BY NextIInv DEF VInv
  <2>2. Sole'
    BY NextSole DEF VInv
  <2>3. Good
    BY <2>1, NextGood
  <2>4. Quiet'
    BY DEF VInv, Quiet
  <2>5. Apart'
    BY NextApart
  <2> QED  BY <2>1, <2>2, <2>3, <2>4, <2>5 DEF VInv, Good
<1> QED  BY <1>1, <1>2, PTL DEF Spec, PrivateMemory, Private!Spec
=============================================================================
