---------------------------- MODULE PipesProofs ----------------------------
(***************************************************************************)
(* The counts of files and of the ends of the pipe, who waits on it, and   *)
(* the order of its bytes, for any number of processes, files and          *)
(* descriptors, and a page of any size.                                    *)
(*                                                                         *)
(* The counts need to know that a free file has nothing left in it, that   *)
(* there is one file of each mode, and that a file open() has taken but not*)
(* filled belongs to one descriptor of the process that opens (FilesOK,    *)
(* FdsOK).  The sleepers need that a process in a call still has its end   *)
(* (CallsOK): who sleeps on an end either has a reason to, or somebody is  *)
(* in the middle of a call of the other end, which wakes all when it       *)
(* returns (SleepersOK).  That the pipe is a channel needs the bytes of    *)
(* the one process that copies (Alone, Copies), and that nobody else uses  *)
(* the pipe meanwhile (NoCopy).                                            *)
(***************************************************************************)
EXTENDS Pipes, FiniteSetTheorems, SequenceTheorems, WellFoundedInduction, TLAPS

\* The bytes from b up to a.
Dist(a, b) == (a - b) % Size

Ends == {f \in Files : file[f].mode \in {"read", "write"}}

\* What is known of the descriptors: none of a process that has ended, and one that
\* has no mode yet only while open() sleeps.
Unopened(p, d) == filp[p][d] # 0 /\ Mode(p, d) = "none"
FilesOK ==
    /\ \A f \in Files : file[f].count = 0 => file[f] = NoFile
    /\ \A f, g \in Ends : file[f].mode = file[g].mode => f = g
    /\ pipe.count = 0 => pipe.head = pipe.tail
FdsOK ==
    /\ \A p \in Procs, d \in Fds : d \in coe[p] => filp[p][d] # 0 /\ ~Unopened(p, d)
    /\ \A p \in Procs, d \in Fds : pc[p] = "unused" => filp[p][d] = 0
    /\ \A p \in Procs, d \in Fds : Unopened(p, d) => pc[p] = "opening"
    /\ \A p, q \in Procs, d, e \in Fds :
          Unopened(p, d) /\ (filp[q][e] = filp[p][d] \/ (q = p /\ Unopened(p, e)))
          => q = p /\ e = d
    /\ \A p \in Procs : pc[p] = "opening" => \E d \in Fds : Unopened(p, d)

\* A process in the middle of a call has the descriptor it was called with.
Has(p, m) == \E d \in Fds : Mode(p, d) = m
CallOK(p) ==
    /\ pc[p] \in {"read", "copyout"} => Has(p, "read")
    /\ pc[p] \in {"write", "copyin"} => Has(p, "write")
    /\ pc[p] \in {"read", "write"} => loc[p].left > 0
    /\ asleep[p] # "no" => pc[p] = asleep[p]
CallsOK == \A p \in Procs : CallOK(p)

IInv == TypeOK /\ CountsExact /\ FilesOK /\ FdsOK /\ CallsOK

\* Who has the processor is awake, and in the middle of a call.
CpuOK == cpu # NoProc => pc[cpu] \in {"read", "write", "exec", "exit"} /\ asleep[cpu] = "no"
\* Who sleeps has a reason to, or somebody is in the middle of a call of the other end,
\* which will wake the sleepers.
Reason(e) == pipe.count = 2 /\ PIPE_SIZE = (IF e = "read" THEN 0 ELSE Size - 1)
Within(l, copy) == \E q \in Procs : pc[q] = copy \/ (cpu = q /\ pc[q] = l)
SleepersOK ==
    \A p \in Procs : /\ asleep[p] = "read"  => Reason("read") \/ Within("write", "copyin")
                     /\ asleep[p] = "write" => Reason("write") \/ Within("read", "copyout")
SInv == CpuOK /\ SleepersOK

\* One process copies at a time, and knows which bytes.
NoCopy == "copy" \notin Risks
Alone ==
    /\ \A p, q \in Copying : p = q
    /\ cpu # NoProc /\ pc[cpu] \in {"read", "write"} => Copying = {}
Copies(p) ==
    LET r == loc[p] IN
    /\ pc[p] = "copyout" =>
          /\ 0 < r.chars /\ r.from + r.chars <= Size /\ pipe.tail = (r.from + r.chars) % Size
          /\ Dist(pipe.head, r.from) = r.chars + PIPE_SIZE
    /\ pc[p] = "copyin" =>
          /\ 0 < r.chars /\ r.from + r.chars <= Size /\ pipe.head = (r.from + r.chars) % Size
          /\ PIPE_SIZE = Dist(r.from, pipe.tail) + r.chars
CInv == Alone /\ \A p \in Procs : Copies(p)

----------------------------------------------------------------------------
(* Numbers and sets                                                        *)

LEMMA Sizes == Size \in Nat \ {0} /\ NVals \in Nat \ {0} /\ MaxCount \in Nat \ {0}
               /\ NFiles \in Nat \ {0} /\ NFds \in Nat \ {0}
BY SizesAssumption

LEMMA Modulo ==
    ASSUME NEW n \in Nat \ {0}, NEW x \in Int
    PROVE  /\ x % n \in 0..n - 1
           /\ 0 <= x /\ x < n => x % n = x
           /\ n <= x /\ x < n + n => x % n = x - n
           /\ -n <= x /\ x < 0 => x % n = x + n
<1>1. x % n \in 0..n - 1  OBVIOUS
<1>2. 0 <= x /\ x < n => x % n = x  OBVIOUS
<1>3. n <= x /\ x < n + n => x % n = x - n  OBVIOUS
<1>4. -n <= x /\ x < 0 => x % n = x + n  OBVIOUS
<1> QED  BY <1>1, <1>2, <1>3, <1>4

\* Dist() without the modulus, and an offset that goes on by c.
LEMMA DistIs ==
    ASSUME NEW a \in Offsets, NEW b \in Offsets
    PROVE  /\ Dist(a, b) \in Offsets
           /\ b <= a => Dist(a, b) = a - b
           /\ a < b => Dist(a, b) = a - b + Size
<1>1. Size \in Nat \ {0} /\ a \in Int /\ b \in Int /\ a - b \in Int  BY Sizes DEF Offsets
<1>2. a >= 0 /\ a < Size /\ b >= 0 /\ b < Size  BY <1>1 DEF Offsets
<1>3. PICK x \in Int : x = a - b  BY <1>1
<1>4. /\ x % Size \in 0..Size - 1
      /\ 0 <= x /\ x < Size => x % Size = x
      /\ -Size <= x /\ x < 0 => x % Size = x + Size
  BY <1>1, Modulo
<1>5. Dist(a, b) = x % Size  BY <1>3 DEF Dist
<1> QED  BY <1>1, <1>2, <1>3, <1>4, <1>5 DEF Offsets

LEMMA DistNat ==
    ASSUME NEW a \in Offsets, NEW b \in Offsets
    PROVE  Dist(a, b) \in Nat /\ Dist(a, b) < Size
<1>1. Dist(a, b) \in Offsets  BY DistIs
<1> QED  BY <1>1, Sizes DEF Offsets

LEMMA OnIs ==
    ASSUME NEW a \in Offsets, NEW c \in Nat, a + c <= Size
    PROVE  /\ (a + c) % Size \in Offsets
           /\ a + c < Size => (a + c) % Size = a + c
           /\ a + c = Size => (a + c) % Size = 0
<1>1. Size \in Nat \ {0} /\ a + c \in Int /\ 0 <= a + c  BY Sizes DEF Offsets
<1>2. PICK x \in Int : x = a + c  BY <1>1
<1>3. /\ x % Size \in 0..Size - 1
      /\ 0 <= x /\ x < Size => x % Size = x
      /\ Size <= x /\ x < Size + Size => x % Size = x - Size
  BY <1>1, Modulo
<1> QED  BY <1>1, <1>2, <1>3 DEF Offsets

LEMMA MinIs ==
    ASSUME NEW S, S \subseteq Nat, S # {}
    PROVE  Min(S) \in S /\ \A y \in S : Min(S) <= y
<1>1. PICK x \in S : \A y \in S : ~(<<y, x>> \in OpToRel(<, Nat))
  BY NatLessThanWellFounded, WFMin, Zenon
<1>2. \A y \in S : y < x => <<y, x>> \in OpToRel(<, Nat)  BY DEF OpToRel
<1>3. \A y \in S : ~(y < x)  BY <1>1, <1>2, Zenon
<1>4. \A y \in S : x <= y  BY <1>3
<1> QED  BY <1>4 DEF Min

LEMMA FdsFinite == Fds \subseteq Nat /\ Files \subseteq Nat /\ IsFiniteSet(Fds) /\ IsFiniteSet(Files)
                   /\ 0 \notin Files
<1>1. IsFiniteSet(1..NFds) /\ IsFiniteSet(1..NFiles)  BY Sizes, FS_Interval
<1> QED  BY <1>1, Sizes DEF Fds, Files

----------------------------------------------------------------------------
(* Counting descriptors                                                    *)

Table == [Procs -> [Fds -> Files \cup {0}]]
UsingIn(F, f) == {pd \in Procs \X Fds : F[pd[1]][pd[2]] = f}
UsersIn(F, f) == Cardinality(UsingIn(F, f))

LEMMA UsersFinite ==
    ASSUME NEW F, NEW f
    PROVE  IsFiniteSet(UsingIn(F, f)) /\ UsersIn(F, f) \in Nat
<1>1. IsFiniteSet(Procs \X Fds)  BY ProcsAssumption, FdsFinite, FS_Product
<1>2. UsingIn(F, f) \in SUBSET (Procs \X Fds)  BY DEF UsingIn
<1> QED  BY <1>1, <1>2, FS_Subset, FS_CardinalityType DEF UsersIn

Adds(F, G, f) ==
    G \in Table /\ \A g \in Files : UsersIn(G, g) = UsersIn(F, g) + (IF g = f THEN 1 ELSE 0)
LEMMA AddsIs ==
    ASSUME NEW F \in Table, NEW p \in Procs, NEW d \in Fds, F[p][d] = 0, NEW f \in Files,
           NEW G, G = [F EXCEPT ![p][d] = f]
    PROVE  Adds(F, G, f)
<1>1. G \in Table  BY DEF Table
<1>2. 0 \notin Files  BY FdsFinite
<1>3. UsersIn(G, f) = UsersIn(F, f) + 1
  <2>1. UsingIn(G, f) = UsingIn(F, f) \cup {<<p, d>>}  BY DEF UsingIn, Table
  <2>2. <<p, d>> \notin UsingIn(F, f)  BY <1>2 DEF UsingIn
  <2>3. IsFiniteSet(UsingIn(F, f))  BY UsersFinite
  <2>4. Cardinality(UsingIn(F, f) \cup {<<p, d>>}) = Cardinality(UsingIn(F, f)) + 1
    BY <2>2, <2>3, FS_AddElement
  <2> QED  BY <2>1, <2>4 DEF UsersIn
<1>4. ASSUME NEW g \in Files, g # f PROVE UsersIn(G, g) = UsersIn(F, g) + 0
  <2>1. UsingIn(G, g) = UsingIn(F, g)  BY <1>2, <1>4 DEF UsingIn, Table
  <2> QED  BY <2>1, UsersFinite DEF UsersIn
<1> QED  BY <1>1, <1>3, <1>4 DEF Adds

Removes(F, G, f) ==
    /\ G \in Table /\ UsersIn(F, f) > 0
    /\ \A g \in Files : UsersIn(G, g) = UsersIn(F, g) - (IF g = f THEN 1 ELSE 0)
LEMMA RemovesIs ==
    ASSUME NEW F \in Table, NEW p \in Procs, NEW d \in Fds, NEW f \in Files, F[p][d] = f,
           NEW G, G = [F EXCEPT ![p][d] = 0]
    PROVE  Removes(F, G, f)
<1>1. G \in Table  BY DEF Table
<1>2. 0 \notin Files  BY FdsFinite
<1>3. UsersIn(G, f) = UsersIn(F, f) - 1 /\ UsersIn(F, f) > 0
  <2>1. UsingIn(G, f) = UsingIn(F, f) \ {<<p, d>>}  BY <1>2 DEF UsingIn, Table
  <2>2. <<p, d>> \in UsingIn(F, f)  BY DEF UsingIn
  <2>3. IsFiniteSet(UsingIn(F, f)) /\ UsersIn(F, f) \in Nat  BY UsersFinite
  <2>4. UsersIn(F, f) # 0  BY <2>2, <2>3, FS_EmptySet DEF UsersIn
  <2>5. Cardinality(UsingIn(F, f) \ {<<p, d>>}) = Cardinality(UsingIn(F, f)) - 1
    BY <2>2, <2>3, FS_RemoveElement
  <2>6. UsersIn(G, f) = UsersIn(F, f) - 1  BY <2>1, <2>5 DEF UsersIn
  <2> QED  BY <2>3, <2>4, <2>6
<1>4. ASSUME NEW g \in Files, g # f PROVE UsersIn(G, g) = UsersIn(F, g) - 0
  <2>1. UsingIn(G, g) = UsingIn(F, g)  BY <1>2, <1>4 DEF UsingIn, Table
  <2> QED  BY <2>1, UsersFinite DEF UsersIn
<1> QED  BY <1>1, <1>3, <1>4 DEF Removes

\* fork(): the child has each descriptor of its parent.
LEMMA UsersFork ==
    ASSUME NEW F \in Table, NEW p \in Procs, NEW c \in Procs, p # c,
           \A d \in Fds : F[c][d] = 0, NEW g \in Files
    PROVE  /\ [F EXCEPT ![c] = F[p]] \in Table
           /\ Cardinality({d \in Fds : F[p][d] = g}) \in Nat
           /\ UsersIn([F EXCEPT ![c] = F[p]], g)
              = UsersIn(F, g) + Cardinality({d \in Fds : F[p][d] = g})
<1> DEFINE G == [F EXCEPT ![c] = F[p]]
           S == {d \in Fds : F[p][d] = g}
           T == {c} \X S
<1>1. G \in Table  BY DEF Table
<1>2. 0 \notin Files  BY FdsFinite
<1>3. IsFiniteSet(S) /\ Cardinality(S) \in Nat
  <2>1. S \in SUBSET Fds  OBVIOUS
  <2> QED  BY <2>1, FdsFinite, FS_Subset, FS_CardinalityType
<1>4. IsFiniteSet(T) /\ Cardinality(T) = Cardinality(S)
  <2>1. IsFiniteSet({c}) /\ Cardinality({c}) = 1  BY FS_Singleton
  <2> HIDE DEF S
  <2>2. IsFiniteSet(T) /\ Cardinality(T) = Cardinality({c}) * Cardinality(S)
    BY <1>3, <2>1, FS_Product
  <2> QED  BY <1>3, <2>1, <2>2
<1>5. UsingIn(G, g) = UsingIn(F, g) \cup T  BY <1>2 DEF UsingIn, Table
<1>6. UsingIn(F, g) \cap T = {}  BY <1>2 DEF UsingIn, Table
<1> HIDE DEF T, S, G
<1>7. Cardinality(UsingIn(F, g) \cap T) = 0  BY <1>6, FS_EmptySet
<1>8. UsersIn(G, g) = UsersIn(F, g) + Cardinality(S)
  <2>1. IsFiniteSet(UsingIn(F, g)) /\ UsersIn(F, g) \in Nat  BY UsersFinite
  <2>2. Cardinality(UsingIn(G, g))
        = Cardinality(UsingIn(F, g)) + Cardinality(T) - Cardinality(UsingIn(F, g) \cap T)
    BY <1>4, <1>5, <2>1, FS_Union
  <2> QED  BY <1>3, <1>4, <1>7, <2>1, <2>2 DEF UsersIn
<1> QED  BY <1>1, <1>3, <1>8 DEF G, S

----------------------------------------------------------------------------
(* Steps that leave the tables alone                                       *)

Places == {"unused", "user", "opening", "exec", "exit", "read", "write", "copyout", "copyin"}
Locs == [left : 0..MaxCount, some : BOOLEAN, from : Offsets, chars : 0..Size]
Sleeps == {"no", "read", "write"}

LEMMA TypeIs ==
    ASSUME TypeOK
    PROVE  /\ filp \in Table /\ pc \in [Procs -> Places] /\ loc \in [Procs -> Locs]
           /\ asleep \in [Procs -> Sleeps]
           /\ pipe.head \in Offsets /\ pipe.tail \in Offsets
           /\ pipe.count \in 0..2 /\ pipe.page \in [Offsets -> Bytes]
           /\ PIPE_SIZE = Dist(pipe.head, pipe.tail) /\ PIPE_SIZE \in Offsets
<1>1. pipe.head \in Offsets /\ pipe.tail \in Offsets  BY DEF TypeOK
<1>2. PIPE_SIZE = Dist(pipe.head, pipe.tail)  BY DEF PIPE_SIZE, Dist
<1>3. PIPE_SIZE \in Offsets  BY <1>1, <1>2, DistIs
<1> QED  BY <1>1, <1>2, <1>3 DEF TypeOK, Table, Places, Locs, Sleeps

LEMMA WokenIs ==
    ASSUME TypeOK, NEW Q
    PROVE  /\ Woken(Q) \in [Procs -> Sleeps]
           /\ \A q \in Procs : Woken(Q)[q] \in {"no", asleep[q]}
           /\ \A q \in Procs : Woken(Q)[q] = IF asleep[q] \in Q THEN "no" ELSE asleep[q]
BY DEF TypeOK, Woken, Sleeps

LEMMA Min3 ==
    ASSUME NEW a \in Nat, NEW b \in Nat, NEW c \in Nat
    PROVE  /\ Min({a, b, c}) \in {a, b, c} /\ Min({a, b, c}) \in Nat
           /\ Min({a, b, c}) <= a /\ Min({a, b, c}) <= b /\ Min({a, b, c}) <= c
<1> DEFINE S == {a, b, c}
<1>1. S \subseteq Nat /\ S # {} /\ a \in S /\ b \in S /\ c \in S  OBVIOUS
<1> HIDE DEF S
<1>2. Min(S) \in S /\ \A y \in S : Min(S) <= y  BY <1>1, MinIs
<1>3. Min(S) <= a /\ Min(S) <= b /\ Min(S) <= c /\ Min(S) \in Nat  BY <1>1, <1>2
<1> QED  BY <1>2, <1>3 DEF S

Others(p) == \A q \in Procs \ {p} :
    pc'[q] = pc[q] /\ loc'[q] = loc[q] /\ asleep'[q] \in {"no", asleep[q]}
\* A step of p that leaves the tables alone keeps the invariant, if ...
Tame(p) ==
    /\ UNCHANGED tables /\ Others(p)
    /\ pipe'.count = pipe.count /\ (pipe.count = 0 => pipe'.head = pipe'.tail)
    /\ pc[p] \notin {"unused", "opening"} /\ pc'[p] # "opening"
    /\ pc'[p] = "unused" => \A d \in Fds : filp[p][d] = 0

LEMMA ModeSame == UNCHANGED tables => \A p, d, m : Mode(p, d)' = Mode(p, d) /\ Has(p, m)' = Has(p, m)
BY DEF tables, Mode, Has

\* Nobody gets an end or loses one.
EndsKept == \A q \in Procs, m \in {"read", "write"} : Has(q, m)' <=> Has(q, m)

LEMMA TameKeeps ==
    ASSUME IInv, NEW p \in Procs, Tame(p), TypeOK', CallOK(p)'
    PROVE  IInv'
<1> USE DEF tables, Tame
<1>1. CountsExact'  BY DEF IInv, CountsExact, Using
<1>2. FilesOK'  BY DEF IInv, FilesOK, Ends, NoFile
<1>3. FdsOK'
  <2>1. \A q, d : Unopened(q, d)' = Unopened(q, d)  BY ModeSame DEF Unopened
  <2>2. \A q \in Procs : pc'[q] = "opening" <=> pc[q] = "opening"  BY DEF Others
  <2>3. \A q \in Procs, d \in Fds : pc'[q] = "unused" => filp[q][d] = 0
    BY DEF Others, IInv, FdsOK
  <2> QED  BY <2>1, <2>2, <2>3 DEF IInv, FdsOK
<1>4. CallsOK'
  <2> SUFFICES ASSUME NEW q \in Procs, q # p PROVE CallOK(q)'  BY DEF CallsOK
  <2>1. CallOK(q)  BY DEF IInv, CallsOK
  <2>2. \A m : Has(q, m)' = Has(q, m)  BY ModeSame
  <2>3. pc'[q] = pc[q] /\ loc'[q] = loc[q] /\ asleep'[q] \in {"no", asleep[q]}  BY DEF Others
  <2> QED  BY <2>1, <2>2, <2>3 DEF CallOK
<1> QED  BY <1>1, <1>2, <1>3, <1>4 DEF IInv

LEMMA NoLocIs == NoLoc \in Locs
BY Sizes DEF NoLoc, Locs, Offsets

\* Where p goes, what it keeps and who is woken have their types.
Moves(p) ==
    /\ cpu' \in Procs \cup {NoProc} /\ pc' \in [Procs -> Places] /\ loc' \in [Procs -> Locs]
    /\ asleep' \in [Procs -> Sleeps] /\ signal' \subseteq Procs
    /\ Others(p)

LEMMA TypeKept ==
    ASSUME TypeOK, NEW p \in Procs, Moves(p), UNCHANGED tables, next' \in Bytes,
           pipe' \in [count : 0..2, head : Offsets, tail : Offsets, page : [Offsets -> Bytes]]
    PROVE  TypeOK'
BY DEF TypeOK, tables, Moves, Places, Locs, Sleeps

LEMMA MovesTo ==
    ASSUME TypeOK, NEW p \in Procs, NEW l \in Places, NEW r \in Locs, NEW Q,
           pc' = [pc EXCEPT ![p] = l], loc' = [loc EXCEPT ![p] = r],
           cpu' \in {p, NoProc}, signal' \in {signal, signal \ {p}},
           asleep' \in {asleep, Woken(Q)}
    PROVE  /\ Moves(p) /\ pc'[p] = l /\ loc'[p] = r
           /\ asleep'[p] \in {"no", asleep[p]}
<1>1. pc \in [Procs -> Places] /\ loc \in [Procs -> Locs] /\ asleep \in [Procs -> Sleeps]
  BY TypeIs
<1>2. asleep' \in [Procs -> Sleeps] /\ \A q \in Procs : asleep'[q] \in {"no", asleep[q]}
  BY <1>1, WokenIs
<1>3. signal' \subseteq Procs /\ cpu' \in Procs \cup {NoProc}  BY DEF TypeOK
<1> QED  BY <1>1, <1>2, <1>3 DEF Moves, Others

LEMMA PipeKept ==
    ASSUME TypeOK
    PROVE  pipe \in [count : 0..2, head : Offsets, tail : Offsets, page : [Offsets -> Bytes]]
BY DEF TypeOK

LEMMA KeptSignal == ASSUME IInv, NEW p \in Procs, Signal(p) PROVE IInv'
<1> USE DEF Signal, Same
<1>1. TypeOK /\ CallOK(p)  BY DEF IInv, CallsOK
<1>2. TypeOK'
  <2>1. asleep' \in [Procs -> Sleeps] /\ signal' \subseteq Procs  BY <1>1, TypeIs DEF Sleeps, TypeOK
  <2> QED  BY <1>1, <2>1 DEF TypeOK, tables, Sleeps
<1>3. asleep'[p] \in {"no", asleep[p]} /\ Others(p)  BY <1>1, TypeIs DEF Others
<1>4. CallOK(p)'  BY <1>1, <1>3, ModeSame DEF CallOK
<1>5. Tame(p)  BY <1>3 DEF Tame, IInv, FilesOK
<1> QED  BY <1>2, <1>4, <1>5, TameKeeps

LEMMA KeptEnter ==
    ASSUME IInv, NEW p \in Procs, Exec(p) \/ Exit(p) \/ Read(p) \/ Write(p)
    PROVE  IInv'
<1>1. TypeOK /\ CallOK(p) /\ pc[p] = "user" /\ asleep[p] = "no"
  BY DEF IInv, CallsOK, Exec, Exit, Read, Write, AtPipe, InUser, At
<1>2. PICK l \in {"exec", "exit", "read", "write"}, r \in Locs :
        /\ Goto(p, l, r)
        /\ l = "read" => Has(p, "read") /\ r.left > 0
        /\ l = "write" => Has(p, "write") /\ r.left > 0
  <2>1. CASE Exec(p) \/ Exit(p)  BY <2>1, NoLocIs DEF Exec, Exit
  <2>2. CASE Read(p) \/ Write(p)
    <3>1. PICK n \in 1..MaxCount : Goto(p, IF Read(p) THEN "read" ELSE "write",
                                        [NoLoc EXCEPT !.left = n])
      BY <2>2 DEF Read, Write
    <3>2. [NoLoc EXCEPT !.left = n] \in Locs /\ [NoLoc EXCEPT !.left = n].left = n
      BY NoLocIs, Sizes DEF Locs
    <3>3. Read(p) => Has(p, "read")  BY DEF Read, Has
    <3>4. ~Read(p) => Has(p, "write")  BY <2>2 DEF Write, Has
    <3>5. n > 0  BY Sizes
    <3> QED  BY <3>1, <3>2, <3>3, <3>4, <3>5
  <2> QED  BY <2>1, <2>2
<1>3. UNCHANGED <<tables, pipe, next, signal, asleep>>  BY DEF Exec, Exit, Read, Write
<1>4. Moves(p) /\ pc'[p] = l /\ loc'[p] = r /\ asleep'[p] = "no"
  <2>1. l \in Places /\ cpu' \in {p, NoProc} /\ asleep' = asleep /\ signal' = signal
    BY <1>2, <1>3 DEF Places, Goto
  <2> QED  BY <1>1, <1>2, <2>1, MovesTo DEF Goto
<1>5. TypeOK'
  <2>1. next' \in Bytes  BY <1>1, <1>3 DEF TypeOK
  <2> QED  BY <1>1, <1>3, <1>4, <2>1, TypeKept, PipeKept
<1>6. CallOK(p)'  BY <1>2, <1>3, <1>4, ModeSame DEF CallOK
<1>7. Tame(p)  BY <1>1, <1>3, <1>4 DEF Tame, Moves, IInv, FilesOK
<1> QED  BY <1>5, <1>6, <1>7, TameKeeps

LEMMA KeptClosedAll == ASSUME IInv, NEW p \in Procs, ClosedAll(p) PROVE IInv'
<1>1. TypeOK /\ CallOK(p) /\ pc[p] \in {"exec", "exit"} /\ asleep[p] = "no"
  BY DEF IInv, CallsOK, ClosedAll, At
<1>2. PICK l \in {"user", "unused"} :
        Leave(p, l) /\ (l = "unused" <=> pc[p] # "exec")
  BY DEF ClosedAll
<1>3. UNCHANGED <<tables, pipe, next, signal, asleep>>  BY DEF ClosedAll
<1>4. Moves(p) /\ pc'[p] = l /\ loc'[p] = NoLoc /\ asleep'[p] = "no"
  <2>1. l \in Places /\ cpu' \in {p, NoProc} /\ asleep' = asleep /\ signal' = signal
    BY <1>2, <1>3 DEF Places, Leave
  <2> QED  BY <1>1, <1>2, <2>1, NoLocIs, MovesTo DEF Leave
<1>5. TypeOK'
  <2>1. next' \in Bytes  BY <1>1, <1>3 DEF TypeOK
  <2> QED  BY <1>1, <1>3, <1>4, <2>1, TypeKept, PipeKept
<1>6. CallOK(p)'  BY <1>2, <1>3, <1>4, ModeSame DEF CallOK
<1>7. pc'[p] = "unused" => \A d \in Fds : filp[p][d] = 0
  BY <1>1, <1>2, <1>4 DEF ClosedAll, Closing, FreeFds
<1>8. Tame(p)  BY <1>1, <1>3, <1>4, <1>7 DEF Tame, Moves, IInv, FilesOK
<1> QED  BY <1>5, <1>6, <1>8, TameKeeps

\* read_pipe() and write_pipe(): p goes on, sleeps on the pipe, copies, or returns.
GoesOn(p, e) == \E r \in Locs : Goto(p, e, r) /\ r.left > 0 /\ UNCHANGED <<asleep, signal>>
Copies1(p, c) == \E r \in Locs : FaultIn(p, c, r) /\ UNCHANGED <<asleep, signal>>
Returns(p, Q) == Return(p) /\ asleep' = Woken(Q)
FallsAsleep(p, e, Q) ==
    asleep' = [Woken(Q) EXCEPT ![p] = e] /\ cpu' = NoProc /\ UNCHANGED <<pc, loc, signal>>

LEMMA FaultMoves ==
    ASSUME TypeOK, NEW p \in Procs, NEW c \in Places, NEW r \in Locs,
           FaultIn(p, c, r), UNCHANGED <<asleep, signal>>
    PROVE  Moves(p) /\ pc'[p] = c /\ loc'[p] = r
BY MovesTo DEF FaultIn

LEMMA KeptCall ==
    ASSUME IInv, NEW p \in Procs, NEW Q,
           NEW e, NEW c, <<e, c>> \in {<<"read", "copyout">>, <<"write", "copyin">>},
           pc[p] \in {e, c}, asleep[p] = "no",
           UNCHANGED tables, next' \in Bytes,
           pipe' \in [count : 0..2, head : Offsets, tail : Offsets, page : [Offsets -> Bytes]],
           pipe'.count = pipe.count,
           \/ GoesOn(p, e) \/ Copies1(p, c) \/ Returns(p, Q)
           \/ pc[p] = e /\ FallsAsleep(p, e, Q)
    PROVE  IInv'
<1>1. TypeOK /\ CallOK(p)  BY DEF IInv, CallsOK
<1>2. Has(p, e)  BY <1>1 DEF CallOK
<1>3. pipe.count # 0
  <2>1. PICK d \in Fds : Mode(p, d) = e  BY <1>2 DEF Has
  <2>2. filp[p][d] \in Files /\ file[filp[p][d]].mode \in {"read", "write"}
    BY <1>1, <2>1 DEF Mode, TypeOK
  <2>3. Ends # {} /\ Ends \in SUBSET Files  BY <2>2 DEF Ends
  <2>4. Cardinality(Ends) # 0  BY <2>3, FdsFinite, FS_Subset, FS_EmptySet
  <2> QED  BY <2>4 DEF IInv, CountsExact, Ends
<1>4. Moves(p) /\ CallOK(p)' /\ pc'[p] \in {"user", e, c}
  <2>1. CASE GoesOn(p, e)
    <3>1. PICK r \in Locs : Goto(p, e, r) /\ r.left > 0 /\ UNCHANGED <<asleep, signal>>
      BY <2>1 DEF GoesOn
    <3>2. e \in Places  BY DEF Places
    <3>3. Moves(p) /\ pc'[p] = e /\ loc'[p] = r  BY <1>1, <3>1, <3>2, MovesTo DEF Goto
    <3> QED  BY <1>2, <3>1, <3>3, ModeSame DEF CallOK
  <2>2. CASE Copies1(p, c)
    <3>1. PICK r \in Locs : FaultIn(p, c, r) /\ UNCHANGED <<asleep, signal>>
      BY <2>2 DEF Copies1
    <3>2. c \in Places  BY DEF Places
    <3>3. Moves(p) /\ pc'[p] = c /\ loc'[p] = r  BY <1>1, <3>1, <3>2, FaultMoves
    <3> QED  BY <1>2, <3>1, <3>3, ModeSame DEF CallOK
  <2>3. CASE Returns(p, Q)
    <3>1. "user" \in Places  BY DEF Places
    <3>2. Moves(p) /\ pc'[p] = "user" /\ asleep'[p] \in {"no", asleep[p]}
      BY <1>1, <2>3, <3>1, NoLocIs, MovesTo DEF Returns, Return, Leave
    <3> QED  BY <3>2 DEF CallOK
  <2>4. CASE pc[p] = e /\ FallsAsleep(p, e, Q)
    <3>1. asleep' \in [Procs -> Sleeps] /\ asleep'[p] = e
      BY <1>1, <2>4, WokenIs DEF FallsAsleep, Sleeps
    <3>2. \A q \in Procs \ {p} : asleep'[q] \in {"no", asleep[q]}
      BY <1>1, <2>4, WokenIs DEF FallsAsleep
    <3>3. UNCHANGED <<pc, loc, signal>> /\ cpu' = NoProc  BY <2>4 DEF FallsAsleep
    <3>4. Moves(p)  BY <1>1, <3>1, <3>2, <3>3, TypeIs DEF Moves, Others, TypeOK
    <3> QED  BY <1>1, <1>2, <2>4, <3>1, <3>3, <3>4, ModeSame DEF CallOK
  <2> QED  BY <2>1, <2>2, <2>3, <2>4
<1>5. TypeOK'  BY <1>1, <1>4, TypeKept
<1>6. Tame(p)  BY <1>3, <1>4 DEF Tame, Moves
<1> QED  BY <1>4, <1>5, <1>6, TameKeeps

LEMMA KeptReadEmpty == ASSUME IInv, NEW p \in Procs, ReadEmpty(p) PROVE IInv'
<1> USE DEF ReadEmpty
<1>1. pc[p] = "read" /\ asleep[p] = "no"  BY DEF AtPipe, At
<1>2. TypeOK  BY DEF IInv
<1>3. next' \in Bytes  BY <1>2 DEF TypeOK
<1>4. Returns(p, {"write"}) \/ FallsAsleep(p, "read", {"write"})  BY DEF Returns, FallsAsleep
<1> QED  BY <1>1, <1>2, <1>3, <1>4, KeptCall, PipeKept

LEMMA KeptWriteFull == ASSUME IInv, NEW p \in Procs, WriteFull(p) PROVE IInv'
<1> USE DEF WriteFull
<1>1. pc[p] = "write" /\ asleep[p] = "no"  BY DEF AtPipe, At
<1>2. TypeOK  BY DEF IInv
<1>3. next' \in Bytes  BY <1>2 DEF TypeOK
<1>4. Returns(p, {"read"}) \/ FallsAsleep(p, "write", {"read"})
  BY DEF Returns, FallsAsleep
<1> QED  BY <1>1, <1>2, <1>3, <1>4, KeptCall, PipeKept

\* How many bytes a round of read_pipe() takes, and one of write_pipe() puts.
LEMMA TakeIs ==
    ASSUME IInv, NEW p \in Procs, Take(p)
    PROVE  \E chars \in 1..Size, left \in 0..MaxCount :
             /\ chars = Min({Size - pipe.tail, loc[p].left, PIPE_SIZE})
             /\ left = loc[p].left - chars
             /\ pipe.tail + chars <= Size /\ chars <= PIPE_SIZE
<1>1. TypeOK /\ CallOK(p) /\ pc[p] = "read"  BY DEF IInv, CallsOK, Take, AtPipe, At
<1>2. loc[p].left \in 1..MaxCount
  <2>1. loc[p] \in Locs  BY <1>1, TypeIs
  <2> QED  BY <1>1, <2>1, Sizes DEF CallOK, Locs
<1>3. Size - pipe.tail \in Nat /\ Size - pipe.tail > 0 /\ pipe.tail \in Nat
  BY <1>1, TypeIs, Sizes DEF Offsets
<1>4. PIPE_SIZE \in Nat /\ PIPE_SIZE > 0 /\ PIPE_SIZE < Size
  BY <1>1, TypeIs, Sizes DEF Offsets, Take
<1> DEFINE n == Min({Size - pipe.tail, loc[p].left, PIPE_SIZE})
<1>5. n \in Nat /\ n > 0 /\ n <= Size - pipe.tail /\ n <= loc[p].left /\ n <= PIPE_SIZE
  <2>1. loc[p].left \in Nat /\ loc[p].left > 0  BY <1>2, Sizes
  <2> QED  BY <1>3, <1>4, <2>1, Min3
<1> HIDE DEF n
<1>6. n \in 1..Size /\ loc[p].left - n \in 0..MaxCount /\ pipe.tail + n <= Size
  BY <1>2, <1>3, <1>4, <1>5, Sizes
<1> QED  BY <1>5, <1>6 DEF n

LEMMA PutIs ==
    ASSUME IInv, NEW p \in Procs, Put(p)
    PROVE  \E chars \in 1..Size, left \in 0..MaxCount :
             /\ chars = Min({Size - pipe.head, loc[p].left, Size - 1 - PIPE_SIZE})
             /\ left = loc[p].left - chars
             /\ pipe.head + chars <= Size /\ chars <= Size - 1 - PIPE_SIZE
<1>1. TypeOK /\ CallOK(p) /\ pc[p] = "write"  BY DEF IInv, CallsOK, Put, AtPipe, At
<1>2. loc[p].left \in 1..MaxCount
  <2>1. loc[p] \in Locs  BY <1>1, TypeIs
  <2> QED  BY <1>1, <2>1, Sizes DEF CallOK, Locs
<1>3. Size - pipe.head \in Nat /\ Size - pipe.head > 0 /\ pipe.head \in Nat
  BY <1>1, TypeIs, Sizes DEF Offsets
<1>4. PIPE_SIZE \in Nat /\ Size - 1 - PIPE_SIZE \in Nat /\ Size - 1 - PIPE_SIZE > 0
  BY <1>1, TypeIs, Sizes DEF Offsets, Put
<1> DEFINE n == Min({Size - pipe.head, loc[p].left, Size - 1 - PIPE_SIZE})
<1>5. n \in Nat /\ n > 0 /\ n <= Size - pipe.head /\ n <= loc[p].left
      /\ n <= Size - 1 - PIPE_SIZE
  <2>1. loc[p].left \in Nat /\ loc[p].left > 0  BY <1>2, Sizes
  <2> QED  BY <1>3, <1>4, <2>1, Min3
<1> HIDE DEF n
<1>6. n \in 1..Size /\ loc[p].left - n \in 0..MaxCount /\ pipe.head + n <= Size
  BY <1>2, <1>3, <1>4, <1>5, Sizes
<1> QED  BY <1>5, <1>6 DEF n

LEMMA LocIs ==
    ASSUME NEW left \in 0..MaxCount, NEW from \in Offsets, NEW chars \in 0..Size
    PROVE  /\ [NoLoc EXCEPT !.left = left, !.from = from, !.chars = chars] \in Locs
           /\ [NoLoc EXCEPT !.left = left, !.from = from, !.chars = chars].left = left
           /\ [NoLoc EXCEPT !.left = left, !.from = from, !.chars = chars].from = from
           /\ [NoLoc EXCEPT !.left = left, !.from = from, !.chars = chars].chars = chars
           /\ [NoLoc EXCEPT !.left = left, !.some = TRUE] \in Locs
           /\ [NoLoc EXCEPT !.left = left, !.some = TRUE].left = left
           /\ [NoLoc EXCEPT !.left = left] \in Locs
           /\ [NoLoc EXCEPT !.left = left].left = left
<1>1. PICK r \in Locs : r = NoLoc  BY NoLocIs
<1>2. /\ [r EXCEPT !.left = left, !.from = from, !.chars = chars] \in Locs
      /\ [r EXCEPT !.left = left, !.from = from, !.chars = chars].left = left
      /\ [r EXCEPT !.left = left, !.from = from, !.chars = chars].from = from
      /\ [r EXCEPT !.left = left, !.from = from, !.chars = chars].chars = chars
  BY DEF Locs
<1>3. [r EXCEPT !.left = left, !.some = TRUE] \in Locs
      /\ [r EXCEPT !.left = left, !.some = TRUE].left = left
  BY DEF Locs
<1>4. [r EXCEPT !.left = left] \in Locs /\ [r EXCEPT !.left = left].left = left
  BY DEF Locs
<1> QED  BY <1>1, <1>2, <1>3, <1>4

LEMMA CopyOutEnds ==
    ASSUME NEW p, NEW from, NEW chars, NEW left \in 0..MaxCount, CopyOut(p, from, chars, left)
    PROVE  GoesOn(p, "read") \/ Returns(p, {"write"})
<1>1. CASE left > 0
  <2>1. 0 \in Offsets /\ 0 \in 0..Size  BY Sizes DEF Offsets
  <2> QED  BY <1>1, <2>1, LocIs DEF CopyOut, GoesOn
<1>2. CASE ~(left > 0)  BY <1>2 DEF CopyOut, Returns
<1> QED  BY <1>1, <1>2

LEMMA CopyInEnds ==
    ASSUME TypeOK, NEW p, NEW from \in Offsets, NEW chars \in 0..Size, NEW left \in 0..MaxCount,
           NEW head \in Offsets, CopyIn(p, from, chars, left, head)
    PROVE  /\ GoesOn(p, "write") \/ Returns(p, {"read"})
           /\ next' \in Bytes /\ pipe'.count = pipe.count
           /\ pipe' \in [count : 0..2, head : Offsets, tail : Offsets, page : [Offsets -> Bytes]]
<1>1. GoesOn(p, "write") \/ Returns(p, {"read"})
  <2>1. CASE left > 0
    <3>1. 0 \in Offsets /\ 0 \in 0..Size  BY Sizes DEF Offsets
    <3> QED  BY <2>1, <3>1, LocIs DEF CopyIn, GoesOn
  <2>2. CASE ~(left > 0)  BY <2>2 DEF CopyIn, Returns
  <2> QED  BY <2>1, <2>2
<1>2. \A x \in Int : x % NVals \in Bytes  BY Sizes, Modulo DEF Bytes
<1>3. next \in Int /\ chars \in Int /\ from \in Int /\ Offsets \subseteq Int
  BY Sizes DEF TypeOK, Bytes, Offsets
<1>4. next' \in Bytes
  <2>1. next + chars \in Int  BY <1>3
  <2> QED  BY <1>2, <2>1 DEF CopyIn
<1>5. PICK g : g = [o \in Offsets |-> IF o \in from..from + chars - 1
                                      THEN (next + o - from) % NVals ELSE pipe.page[o]]
  OBVIOUS
<1>6. g \in [Offsets -> Bytes]
  <2>1. \A o \in Offsets : next + o - from \in Int  BY <1>3
  <2>2. \A o \in Offsets : (next + o - from) % NVals \in Bytes  BY <1>2, <2>1
  <2>3. pipe.page \in [Offsets -> Bytes]  BY TypeIs
  <2> QED  BY <1>5, <2>2, <2>3
<1>7. pipe' = [pipe EXCEPT !.head = head, !.page = g]
  BY <1>5, PipeKept DEF CopyIn
<1> QED  BY <1>1, <1>4, <1>6, <1>7, PipeKept

LEMMA KeptTake == ASSUME IInv, NEW p \in Procs, Take(p) PROVE IInv'
<1>1. TypeOK /\ pc[p] = "read" /\ asleep[p] = "no"  BY DEF IInv, Take, AtPipe, At
<1>2. PICK chars \in 1..Size, left \in 0..MaxCount :
             /\ chars = Min({Size - pipe.tail, loc[p].left, PIPE_SIZE})
             /\ left = loc[p].left - chars
             /\ pipe.tail + chars <= Size /\ chars <= PIPE_SIZE
  BY TakeIs
<1>3. /\ pipe' = [pipe EXCEPT !.tail = (@ + chars) % Size]
      /\ UNCHANGED <<tables, next>>
      /\ \/ CopyOut(p, pipe.tail, chars, left)
         \/ /\ FaultIn(p, "copyout", [NoLoc EXCEPT !.left = left, !.from = pipe.tail,
                                                   !.chars = chars])
            /\ UNCHANGED <<asleep, signal>>
  BY <1>2 DEF Take
<1>4. GoesOn(p, "read") \/ Copies1(p, "copyout") \/ Returns(p, {"write"})
  <2>1. pipe.tail \in Offsets /\ chars \in 0..Size  BY <1>1, TypeIs, Sizes
  <2> QED  BY <1>3, <2>1, LocIs, CopyOutEnds DEF Copies1
<1>5. /\ pipe'.count = pipe.count
      /\ pipe' \in [count : 0..2, head : Offsets, tail : Offsets, page : [Offsets -> Bytes]]
  <2>1. (pipe.tail + chars) % Size \in Offsets  BY <1>1, <1>2, TypeIs, OnIs, Sizes
  <2> QED  BY <1>1, <1>3, <2>1, PipeKept
<1>6. next' \in Bytes  BY <1>1, <1>3 DEF TypeOK
<1> QED  BY <1>1, <1>3, <1>4, <1>5, <1>6, KeptCall

LEMMA KeptTakeLate == ASSUME IInv, NEW p \in Procs, TakeLate(p) PROVE IInv'
<1>1. TypeOK /\ pc[p] = "copyout" /\ asleep[p] = "no"  BY DEF IInv, TakeLate, At
<1>2. loc[p].left \in 0..MaxCount
  <2>1. loc[p] \in Locs  BY <1>1, TypeIs
  <2> QED  BY <2>1 DEF Locs
<1>3. CopyOut(p, loc[p].from, loc[p].chars, loc[p].left) /\ UNCHANGED <<tables, pipe, next>>
  BY DEF TakeLate
<1>4. GoesOn(p, "read") \/ Returns(p, {"write"})  BY <1>2, <1>3, CopyOutEnds
<1>5. next' \in Bytes  BY <1>1, <1>3 DEF TypeOK
<1> QED  BY <1>1, <1>3, <1>4, <1>5, PipeKept, KeptCall

LEMMA KeptPut == ASSUME IInv, NEW p \in Procs, Put(p) PROVE IInv'
<1>1. TypeOK /\ pc[p] = "write" /\ asleep[p] = "no"  BY DEF IInv, Put, AtPipe, At
<1>2. PICK chars \in 1..Size, left \in 0..MaxCount :
             /\ chars = Min({Size - pipe.head, loc[p].left, Size - 1 - PIPE_SIZE})
             /\ left = loc[p].left - chars
             /\ pipe.head + chars <= Size /\ chars <= Size - 1 - PIPE_SIZE
  BY PutIs
<1>3. PICK head : head = (pipe.head + chars) % Size  OBVIOUS
<1>4. /\ UNCHANGED tables
      /\ \/ CopyIn(p, pipe.head, chars, left, head)
         \/ /\ pipe' = [pipe EXCEPT !.head = head]
            /\ FaultIn(p, "copyin", [NoLoc EXCEPT !.left = left, !.from = pipe.head,
                                                  !.chars = chars])
            /\ UNCHANGED <<next, asleep, signal>>
  BY <1>2, <1>3 DEF Put
<1>5. head \in Offsets /\ pipe.head \in Offsets /\ chars \in 0..Size
  BY <1>1, <1>2, <1>3, TypeIs, OnIs, Sizes
<1>6. CASE CopyIn(p, pipe.head, chars, left, head)
  <2>1. /\ GoesOn(p, "write") \/ Returns(p, {"read"})
        /\ next' \in Bytes /\ pipe'.count = pipe.count
        /\ pipe' \in [count : 0..2, head : Offsets, tail : Offsets, page : [Offsets -> Bytes]]
    BY <1>1, <1>5, <1>6, CopyInEnds
  <2> QED  BY <1>1, <1>4, <2>1, KeptCall
<1>7. CASE /\ pipe' = [pipe EXCEPT !.head = head]
           /\ FaultIn(p, "copyin", [NoLoc EXCEPT !.left = left, !.from = pipe.head,
                                                 !.chars = chars])
           /\ UNCHANGED <<next, asleep, signal>>
  <2>1. Copies1(p, "copyin")  BY <1>5, <1>7, LocIs DEF Copies1
  <2>2. /\ next' \in Bytes /\ pipe'.count = pipe.count
        /\ pipe' \in [count : 0..2, head : Offsets, tail : Offsets, page : [Offsets -> Bytes]]
    BY <1>1, <1>5, <1>7, PipeKept DEF TypeOK
  <2> QED  BY <1>1, <1>4, <2>1, <2>2, KeptCall
<1> QED  BY <1>4, <1>6, <1>7

LEMMA KeptPutLate == ASSUME IInv, NEW p \in Procs, PutLate(p) PROVE IInv'
<1>1. TypeOK /\ pc[p] = "copyin" /\ asleep[p] = "no"  BY DEF IInv, PutLate, At
<1>2. loc[p].left \in 0..MaxCount /\ loc[p].from \in Offsets /\ loc[p].chars \in 0..Size
  <2>1. loc[p] \in Locs  BY <1>1, TypeIs
  <2> QED  BY <2>1 DEF Locs
<1>3. CopyIn(p, loc[p].from, loc[p].chars, loc[p].left, pipe.head) /\ UNCHANGED tables
  BY DEF PutLate
<1>4. /\ GoesOn(p, "write") \/ Returns(p, {"read"})
      /\ next' \in Bytes /\ pipe'.count = pipe.count
      /\ pipe' \in [count : 0..2, head : Offsets, tail : Offsets, page : [Offsets -> Bytes]]
  BY <1>1, <1>2, <1>3, CopyInEnds, TypeIs
<1> QED  BY <1>1, <1>3, <1>4, KeptCall

----------------------------------------------------------------------------
(* Steps that change the tables                                            *)

LEMMA CountsIs ==
    CountsExact <=> /\ \A f \in Files : file[f].count = UsersIn(filp, f)
                    /\ pipe.count = Cardinality(Ends)
BY DEF CountsExact, UsersIn, UsingIn, Using, Ends

LEMMA FilesIs ==
    ASSUME TypeOK
    PROVE  /\ \A f \in Files : file[f].count \in Nat
                               /\ file[f].mode \in {"none", "read", "write", "file"}
           /\ IsFiniteSet(Ends) /\ Ends \subseteq Files
<1>1. Ends \in SUBSET Files  BY DEF Ends
<1> QED  BY <1>1, FdsFinite, FS_Subset DEF TypeOK

LEMMA Unused ==
    ASSUME IInv, NEW f \in Files, f \in FreeFiles
    PROVE  /\ file[f] = NoFile /\ f \notin Ends
           /\ \A q \in Procs, d \in Fds : filp[q][d] # f
<1>1. file[f] = NoFile  BY DEF IInv, FilesOK, FreeFiles
<1>2. UsersIn(filp, f) = 0  BY <1>1, CountsIs DEF IInv, NoFile
<1>3. UsingIn(filp, f) = {}  BY <1>2, UsersFinite, FS_EmptySet DEF UsersIn
<1>4. \A q \in Procs, d \in Fds : filp[q][d] # f
  <2> SUFFICES ASSUME NEW q \in Procs, NEW d \in Fds, filp[q][d] = f PROVE FALSE  OBVIOUS
  <2>1. <<q, d>> \in UsingIn(filp, f)  BY DEF UsingIn
  <2> QED  BY <1>3, <2>1
<1> QED  BY <1>1, <1>4 DEF Ends, NoFile

\* Two free ones of a set, the first and the next.
LEMMA TwoLeast ==
    ASSUME NEW S, S \subseteq Nat, IsFiniteSet(S), Cardinality(S) >= 2
    PROVE  Min(S) \in S /\ Min(S \ {Min(S)}) \in S /\ Min(S \ {Min(S)}) # Min(S)
<1>1. S # {}  BY FS_EmptySet
<1>2. Min(S) \in S  BY <1>1, MinIs
<1>3. PICK m : m = Min(S)  OBVIOUS
<1>4. Cardinality(S \ {m}) = Cardinality(S) - 1 /\ IsFiniteSet(S \ {m})
  BY <1>2, <1>3, FS_RemoveElement
<1>5. Cardinality(S \ {m}) # 0
  <2>1. Cardinality(S) \in Nat  BY FS_CardinalityType
  <2> QED  BY <1>4, <2>1
<1>6. S \ {m} # {}  BY <1>4, <1>5, FS_EmptySet
<1>7. Min(S \ {m}) \in S \ {m}  BY <1>6, MinIs
<1> QED  BY <1>2, <1>3, <1>7

LEMMA KeptSetFd == ASSUME IInv, NEW p \in Procs, SetFd(p) PROVE IInv' /\ EndsKept
<1> USE DEF SetFd
<1>1. PICK d \in Fds \ FreeFds(p) : coe' = [coe EXCEPT ![p] = @ \cup {d}]  OBVIOUS
<1>2. UNCHANGED <<file, filp, pipe, next, signal, asleep, cpu, pc, loc>>  BY DEF Same
<1>3. TypeOK /\ pc[p] = "user" /\ filp[p][d] # 0  BY <1>1 DEF IInv, InUser, At, FreeFds
<1>4. TypeOK'  BY <1>1, <1>2, <1>3 DEF TypeOK
<1>5. \A q, e, m : Mode(q, e)' = Mode(q, e) /\ Has(q, m)' = Has(q, m)
                   /\ Unopened(q, e)' = Unopened(q, e)
  BY <1>2 DEF Mode, Has, Unopened
<1>6. CountsExact' /\ FilesOK'
  BY <1>2 DEF IInv, CountsExact, Using, FilesOK, Ends
<1>7. CallsOK'  BY <1>2, <1>5 DEF IInv, CallsOK, CallOK
<1>8. FdsOK'
  <2>1. ~Unopened(p, d)  BY <1>1, <1>3 DEF IInv, FdsOK
  <2>2. \A q \in Procs, e \in Fds : e \in coe'[q] => e \in coe[q] \/ (q = p /\ e = d)
    BY <1>1, <1>3 DEF TypeOK
  <2>3. \A q \in Procs, e \in Fds : e \in coe'[q] => filp'[q][e] # 0 /\ ~Unopened(q, e)'
    BY <1>2, <1>3, <1>5, <2>1, <2>2 DEF IInv, FdsOK
  <2> QED  BY <1>2, <1>5, <2>3 DEF IInv, FdsOK
<1> QED  BY <1>4, <1>5, <1>6, <1>7, <1>8 DEF IInv, EndsKept

\* A descriptor that a step leaves alone, with its file.
Untouched(q, e) == filp'[q][e] = filp[q][e]
                   /\ (filp[q][e] # 0 => file'[filp[q][e]].mode = file[filp[q][e]].mode)
LEMMA UntouchedIs ==
    ASSUME NEW q, NEW e, Untouched(q, e)
    PROVE  Mode(q, e)' = Mode(q, e) /\ Unopened(q, e)' = Unopened(q, e)
BY DEF Untouched, Mode, Unopened

LEMMA CallsKept ==
    ASSUME CallsOK, NEW p \in Procs, Others(p), CallOK(p)',
           \A q \in Procs \ {p}, e \in Fds : Untouched(q, e)
    PROVE  CallsOK'
<1> SUFFICES ASSUME NEW q \in Procs, q # p PROVE CallOK(q)'  BY DEF CallsOK
<1>1. CallOK(q)  BY DEF CallsOK
<1>2. \A m : Has(q, m)' <=> Has(q, m)
  <2>1. \A e \in Fds : Mode(q, e)' = Mode(q, e)  BY UntouchedIs
  <2> QED  BY <2>1 DEF Has
<1>3. pc'[q] = pc[q] /\ loc'[q] = loc[q] /\ asleep'[q] \in {"no", asleep[q]}  BY DEF Others
<1> QED  BY <1>1, <1>2, <1>3 DEF CallOK

LEMMA KeptOpen == ASSUME IInv, NEW p \in Procs, Open(p) PROVE IInv' /\ EndsKept
<1>1. PICK f : f = Min(FreeFiles)  OBVIOUS
<1>2. PICK d : d = Min(FreeFds(p))  OBVIOUS
<1>3. /\ pc[p] = "user" /\ asleep[p] = "no" /\ FreeFiles # {} /\ FreeFds(p) # {}
      /\ file' = [file EXCEPT ![f] = [count |-> @.count + 1, mode |-> "none"]]
      /\ filp' = [filp EXCEPT ![p][d] = f]
      /\ coe' = [coe EXCEPT ![p] = @ \ {d}]
      /\ Leave(p, "opening")
      /\ UNCHANGED <<pipe, next, signal, asleep>>
  BY <1>1, <1>2 DEF Open, InUser, At
<1>4. TypeOK  BY DEF IInv
<1>5. f \in Files /\ f \in FreeFiles /\ d \in Fds /\ filp[p][d] = 0
  <2>1. FreeFiles \subseteq Nat /\ FreeFds(p) \subseteq Nat
    BY FdsFinite DEF FreeFiles, FreeFds
  <2> QED  BY <1>1, <1>2, <1>3, <2>1, MinIs DEF FreeFiles, FreeFds
<1>6. /\ file[f] = NoFile /\ f \notin Ends
      /\ \A q \in Procs, e \in Fds : filp[q][e] # f
  BY <1>5, Unused
<1>7. file' = [file EXCEPT ![f] = [count |-> 1, mode |-> "none"]]  BY <1>3, <1>6 DEF NoFile
<1>8. filp' \in Table /\ \A g \in Files : UsersIn(filp', g)
                                          = UsersIn(filp, g) + (IF g = f THEN 1 ELSE 0)
  <2>1. PICK G : G = filp'  OBVIOUS
  <2>2. filp \in Table /\ G = [filp EXCEPT ![p][d] = f]  BY <1>3, <1>4, <2>1, TypeIs
  <2>3. Adds(filp, G, f)  BY <1>5, <2>2, AddsIs
  <2> QED  BY <2>1, <2>3 DEF Adds
<1>9. Moves(p) /\ pc'[p] = "opening" /\ loc'[p] = NoLoc /\ asleep'[p] = "no"
  <2>1. "opening" \in Places  BY DEF Places
  <2> QED  BY <1>3, <1>4, <2>1, NoLocIs, MovesTo DEF Leave
<1>10. TypeOK'
  <2>1. file' \in [Files -> [count : Nat, mode : {"none", "read", "write", "file"}]]
    BY <1>4, <1>5, <1>7 DEF TypeOK
  <2>2. coe' \in [Procs -> SUBSET Fds]  BY <1>3, <1>4 DEF TypeOK
  <2> QED  BY <1>3, <1>4, <1>8, <1>9, <2>1, <2>2
           DEF TypeOK, Moves, Table, Places, Locs, Sleeps
<1>11. \A g \in Files : g # f => file'[g] = file[g]  BY <1>4, <1>7 DEF TypeOK
<1>12. file'[f] = [count |-> 1, mode |-> "none"]  BY <1>4, <1>5, <1>7 DEF TypeOK
<1>13. Ends' = Ends  BY <1>6, <1>11, <1>12 DEF Ends
<1>14. CountsExact'
  <2>1. \A g \in Files : file'[g].count = UsersIn(filp', g)
    <3> SUFFICES ASSUME NEW g \in Files PROVE file'[g].count = UsersIn(filp', g)  OBVIOUS
    <3>1. file[g].count = UsersIn(filp, g) /\ UsersIn(filp, g) \in Nat
      BY CountsIs, UsersFinite DEF IInv
    <3> QED  BY <1>6, <1>8, <1>11, <1>12, <3>1 DEF NoFile
  <2>2. \A g \in Files : (file[g].count)' = UsersIn(filp, g)'  BY <2>1 DEF UsersIn, UsingIn
  <2>3. pipe.count' = Cardinality(Ends)'  BY <1>3, <1>13, CountsIs DEF IInv
  <2> QED  BY <2>1, <2>3 DEF CountsExact, UsersIn, UsingIn, Using, Ends
<1>15. FilesOK'
  <2>1. \A g \in Ends : file'[g] = file[g]  BY <1>6, <1>11 DEF Ends
  <2>2. \A g \in Files : file'[g].count = 0 => file'[g] = NoFile
    BY <1>11, <1>12 DEF IInv, FilesOK
  <2> QED  BY <1>3, <1>13, <2>1, <2>2 DEF IInv, FilesOK
<1>16. \A q \in Procs, e \in Fds : q # p \/ e # d => Untouched(q, e)
  <2> SUFFICES ASSUME NEW q \in Procs, NEW e \in Fds, q # p \/ e # d PROVE Untouched(q, e)
    OBVIOUS
  <2>1. filp'[q][e] = filp[q][e]  BY <1>3, <1>4 DEF TypeOK
  <2>2. filp[q][e] # 0 => filp[q][e] \in Files  BY <1>4 DEF TypeOK
  <2> QED  BY <1>6, <1>11, <2>1, <2>2 DEF Untouched
<1>17. filp'[p][d] = f /\ Unopened(p, d)'
  <2>1. filp'[p][d] = f  BY <1>3, <1>4, <1>5 DEF TypeOK
  <2> QED  BY <1>5, <1>12, <2>1, FdsFinite DEF Unopened, Mode
<1>18. FdsOK'
  <2>1. \A e \in Fds : ~Unopened(p, e)  BY <1>3 DEF IInv, FdsOK
  <2>2. \A q \in Procs, e \in Fds :
          q # p \/ e # d => Unopened(q, e)' = Unopened(q, e) /\ filp'[q][e] = filp[q][e]
    BY <1>16, UntouchedIs DEF Untouched
  <2>3. \A q \in Procs : coe'[q] \subseteq coe[q]  BY <1>3, <1>4 DEF TypeOK
  <2>4. d \notin coe'[p]  BY <1>3, <1>4 DEF TypeOK
  <2>5. \A q \in Procs : q # p => pc'[q] = pc[q]  BY <1>9 DEF Moves, Others
  <2>6. \A q \in Procs, e \in Fds : e \in coe'[q] => filp'[q][e] # 0 /\ ~Unopened(q, e)'
    BY <2>2, <2>3, <2>4 DEF IInv, FdsOK
  <2>7. \A q \in Procs, e \in Fds : pc'[q] = "unused" => filp'[q][e] = 0
    BY <1>9, <2>2, <2>5 DEF IInv, FdsOK
  <2>8. \A q \in Procs, e \in Fds : Unopened(q, e)' => pc'[q] = "opening"
    BY <1>9, <2>2, <2>5 DEF IInv, FdsOK
  <2>9. \A q, r \in Procs, e, h \in Fds :
          Unopened(q, e)' /\ (filp'[r][h] = filp'[q][e] \/ (r = q /\ Unopened(r, h)'))
          => r = q /\ h = e
    <3> SUFFICES ASSUME NEW q \in Procs, NEW r \in Procs, NEW e \in Fds, NEW h \in Fds,
                        Unopened(q, e)',
                        filp'[r][h] = filp'[q][e] \/ (r = q /\ Unopened(r, h)')
                 PROVE  r = q /\ h = e
      OBVIOUS
    <3>1. CASE q = p /\ e = d  BY <1>6, <1>17, <2>1, <2>2, <3>1
    <3>2. CASE r = p /\ h = d /\ ~(q = p /\ e = d)  BY <1>6, <1>17, <2>1, <2>2, <3>2
    <3>3. CASE ~(q = p /\ e = d) /\ ~(r = p /\ h = d)
      BY <2>2, <3>3 DEF IInv, FdsOK
    <3> QED  BY <3>1, <3>2, <3>3
  <2>10. \A q \in Procs : pc'[q] = "opening" => \E e \in Fds : Unopened(q, e)'
    <3> SUFFICES ASSUME NEW q \in Procs, pc'[q] = "opening" PROVE \E e \in Fds : Unopened(q, e)'
      OBVIOUS
    <3>1. CASE q = p  BY <1>5, <1>17, <3>1
    <3>2. CASE q # p  BY <2>2, <2>5, <3>2 DEF IInv, FdsOK
    <3> QED  BY <3>1, <3>2
  <2> QED  BY <2>6, <2>7, <2>8, <2>9, <2>10 DEF FdsOK
<1>19. CallsOK'
  <2>1. CallOK(p)'  BY <1>9 DEF CallOK
  <2> QED  BY <1>9, <1>16, <2>1, CallsKept DEF IInv, Moves
<1>20. EndsKept
  <2>1. \A q \in Procs, e \in Fds : q # p \/ e # d => Mode(q, e)' = Mode(q, e)
    BY <1>16, UntouchedIs
  <2>2. Mode(p, d)' = "none" /\ Mode(p, d) = "none"
    BY <1>5, <1>17 DEF Unopened, Mode
  <2> QED  BY <2>1, <2>2 DEF EndsKept, Has
<1> QED  BY <1>10, <1>14, <1>15, <1>18, <1>19, <1>20 DEF IInv

\* Steps that change the descriptors of the processes in P, none of which opens a file.
LEMMA FdsKept ==
    ASSUME IInv, NEW P \in SUBSET Procs,
           \A q \in Procs \ P, e \in Fds : Untouched(q, e),
           \A q \in Procs \ P : coe'[q] = coe[q] /\ pc'[q] = pc[q],
           \A q \in P : pc'[q] \notin {"unused", "opening"},
           \A q \in P, e \in Fds :
              /\ ~Unopened(q, e)'
              /\ e \in coe'[q] => filp'[q][e] # 0
              /\ \A r \in Procs \ P, h \in Fds :
                    Unopened(r, h) => filp'[q][e] # filp[r][h]
    PROVE  FdsOK'
<1>1. \A q \in Procs \ P, e \in Fds :
         Unopened(q, e)' = Unopened(q, e) /\ filp'[q][e] = filp[q][e]
  BY UntouchedIs DEF Untouched
<1>2. \A q \in Procs, e \in Fds : e \in coe'[q] => filp'[q][e] # 0 /\ ~Unopened(q, e)'
  BY <1>1 DEF IInv, FdsOK
<1>3. \A q \in Procs, e \in Fds : pc'[q] = "unused" => filp'[q][e] = 0
  BY <1>1 DEF IInv, FdsOK
<1>4. \A q \in Procs, e \in Fds : Unopened(q, e)' => pc'[q] = "opening"
  BY <1>1 DEF IInv, FdsOK
<1>5. \A q, r \in Procs, e, h \in Fds :
        Unopened(q, e)' /\ (filp'[r][h] = filp'[q][e] \/ (r = q /\ Unopened(r, h)'))
        => r = q /\ h = e
  <2> SUFFICES ASSUME NEW q \in Procs, NEW r \in Procs, NEW e \in Fds, NEW h \in Fds,
                      Unopened(q, e)',
                      filp'[r][h] = filp'[q][e] \/ (r = q /\ Unopened(r, h)')
               PROVE  r = q /\ h = e
    OBVIOUS
  <2>1. q \notin P  OBVIOUS
  <2>2. Unopened(q, e) /\ filp'[q][e] = filp[q][e]  BY <1>1, <2>1
  <2>3. r \notin P  BY <2>1, <2>2
  <2>4. filp'[r][h] = filp[r][h] /\ Unopened(r, h)' = Unopened(r, h)  BY <1>1, <2>3
  <2> QED  BY <2>2, <2>4 DEF IInv, FdsOK
<1>6. \A q \in Procs : pc'[q] = "opening" => \E e \in Fds : Unopened(q, e)'
  BY <1>1 DEF IInv, FdsOK
<1> QED  BY <1>2, <1>3, <1>4, <1>5, <1>6 DEF FdsOK

\* What the tables have to be for the counts to be exact.
LEMMA CountsThen ==
    ASSUME \A g \in Files : file'[g].count = UsersIn(filp', g),
           pipe'.count = Cardinality(Ends)'
    PROVE  CountsExact'
BY DEF CountsExact, UsersIn, UsingIn, Using, Ends

LEMMA SoleUser ==
    ASSUME IInv, NEW f \in Files, file[f].count = 1,
           NEW p \in Procs, NEW d \in Fds, filp[p][d] = f,
           NEW q \in Procs, NEW e \in Fds, filp[q][e] = f
    PROVE  q = p /\ e = d
<1>1. Cardinality(UsingIn(filp, f)) = 1 /\ IsFiniteSet(UsingIn(filp, f))
  BY CountsIs, UsersFinite DEF IInv, UsersIn
<1>2. PICK x : UsingIn(filp, f) = {x}  BY <1>1, FS_Singleton
<1>3. <<p, d>> \in UsingIn(filp, f) /\ <<q, e>> \in UsingIn(filp, f)  BY DEF UsingIn
<1>4. <<p, d>> = <<q, e>>  BY <1>2, <1>3
<1> QED  BY <1>4

\* p may lose its ends.
EndsLeft(p) == \A q \in Procs, m \in {"read", "write"} :
    (Has(q, m)' => Has(q, m)) /\ (q # p => (Has(q, m)' <=> Has(q, m)))

\* sys_close() of a descriptor that is open.
LEMMA KeptCloseFd ==
    ASSUME IInv, NEW p \in Procs, NEW d \in Fds, filp[p][d] # 0, CloseFd(p, d),
           pc[p] \in {"user", "exec", "exit"}, asleep[p] = "no",
           UNCHANGED <<pc, loc, signal>>, cpu' \in Procs \cup {NoProc}
    PROVE  IInv' /\ EndsLeft(p)
<1>1. PICK f : f = filp[p][d]  OBVIOUS
<1> DEFINE last == file[f].count = 1
           end == last /\ file[f].mode \in {"read", "write"}
<1>4. TypeOK  BY DEF IInv
<1>5. f \in Files /\ f # 0  BY <1>1, <1>4, FdsFinite DEF TypeOK
<1>6. /\ coe' = [coe EXCEPT ![p] = @ \ {d}]
      /\ filp' = [filp EXCEPT ![p][d] = 0]
      /\ file' = [file EXCEPT ![f] = IF last THEN NoFile ELSE [file[f] EXCEPT !.count = @ - 1]]
      /\ pipe' = IF ~end THEN pipe ELSE IF pipe.count = 1 THEN NoPipe
                 ELSE [pipe EXCEPT !.count = @ - 1]
      /\ asleep' = IF end THEN Woken({"read", "write"}) ELSE asleep
      /\ UNCHANGED next
  BY <1>1 DEF CloseFd
<1>7. \A g \in Files : file[g].count = UsersIn(filp, g) /\ UsersIn(filp, g) \in Nat
  BY CountsIs, UsersFinite DEF IInv
<1>8. /\ filp' \in Table
      /\ \A g \in Files : UsersIn(filp', g) = UsersIn(filp, g) - (IF g = f THEN 1 ELSE 0)
      /\ UsersIn(filp, f) > 0
  <2>1. PICK G : G = filp'  OBVIOUS
  <2>2. filp \in Table /\ G = [filp EXCEPT ![p][d] = 0]  BY <1>4, <1>6, <2>1, TypeIs
  <2>3. Removes(filp, G, f)  BY <1>1, <1>5, <2>2, RemovesIs
  <2> QED  BY <2>1, <2>3 DEF Removes
<1>9. file[f].count \in Nat /\ file[f].count > 0  BY <1>5, <1>7, <1>8
<1>10. /\ last => file'[f] = NoFile
       /\ ~last => file'[f].count = file[f].count - 1 /\ file'[f].mode = file[f].mode
       /\ \A g \in Files : g # f => file'[g] = file[g]
       /\ file' \in [Files -> [count : Nat, mode : {"none", "read", "write", "file"}]]
  <2>1. file \in [Files -> [count : Nat, mode : {"none", "read", "write", "file"}]]
    BY <1>4 DEF TypeOK
  <2>2. file[f].count - 1 \in Nat  BY <1>9
  <2>3. NoFile \in [count : Nat, mode : {"none", "read", "write", "file"}]  BY DEF NoFile
  <2>4. ~last => file'[f] = [file[f] EXCEPT !.count = @ - 1]
    <3>1. PICK v : v = IF last THEN NoFile ELSE [file[f] EXCEPT !.count = @ - 1]  OBVIOUS
    <3>2. file' = [file EXCEPT ![f] = v]  BY <1>6, <3>1
    <3>3. file'[f] = v  BY <1>5, <2>1, <3>2
    <3> QED  BY <3>1, <3>3
  <2>5. file[f] \in [count : Nat, mode : {"none", "read", "write", "file"}]  BY <1>5, <2>1
  <2>6. ~last => /\ file'[f].count = file[f].count - 1 /\ file'[f].mode = file[f].mode
                 /\ file'[f] \in [count : Nat, mode : {"none", "read", "write", "file"}]
    BY <2>2, <2>4, <2>5
  <2>7. last => file'[f] = NoFile  BY <1>5, <1>6, <2>1
  <2>8. \A g \in Files : g # f => file'[g] = file[g]  BY <1>6, <2>1
  <2>9. \A g \in Files : file'[g] \in [count : Nat, mode : {"none", "read", "write", "file"}]
    BY <2>1, <2>3, <2>6, <2>7, <2>8
  <2>10. file' = [g \in Files |-> file'[g]]  BY <1>6, <2>1
  <2> QED  BY <2>6, <2>7, <2>8, <2>9, <2>10
<1>11. Ends' = IF end THEN Ends \ {f} ELSE Ends
  <2>1. f \in Ends <=> file[f].mode \in {"read", "write"}  BY <1>5 DEF Ends
  <2>2. last => f \notin Ends'  BY <1>10 DEF Ends, NoFile
  <2>3. ~last => (f \in Ends' <=> f \in Ends)  BY <1>10 DEF Ends
  <2>4. \A g \in Files : g # f => (g \in Ends' <=> g \in Ends)  BY <1>10 DEF Ends
  <2>5. Ends \subseteq Files /\ Ends' \subseteq Files  BY DEF Ends
  <2>6. end <=> last /\ f \in Ends  BY <2>1
  <2> QED  BY <2>2, <2>3, <2>4, <2>5, <2>6
<1>12. pipe.count = Cardinality(Ends) /\ IsFiniteSet(Ends) /\ pipe.count \in 0..2
  BY <1>4, FilesIs, CountsIs DEF IInv, TypeOK
<1>13. /\ pipe' \in [count : 0..2, head : Offsets, tail : Offsets, page : [Offsets -> Bytes]]
       /\ pipe'.count = Cardinality(Ends')
       /\ pipe'.count = 0 => pipe'.head = pipe'.tail
  <2>1. CASE ~end  BY <1>4, <1>6, <1>11, <1>12, <2>1, PipeKept DEF IInv, FilesOK
  <2>2. CASE end
    <3>1. f \in Ends  BY <1>5, <2>2 DEF Ends
    <3>2. Cardinality(Ends \ {f}) = Cardinality(Ends) - 1  BY <1>12, <3>1, FS_RemoveElement
    <3>3. Cardinality(Ends) # 0  BY <1>12, <3>1, FS_EmptySet
    <3>4. CASE pipe.count = 1
      <4>1. 0 \in Offsets /\ 0 \in Bytes  BY Sizes DEF Offsets, Bytes
      <4> QED  BY <1>6, <1>11, <1>12, <2>2, <3>2, <3>4, <4>1 DEF NoPipe
    <3>5. CASE pipe.count # 1
      <4>1. pipe.count = 2  BY <1>12, <3>3, <3>5
      <4>2. pipe' = [pipe EXCEPT !.count = @ - 1]  BY <1>6, <2>2, <3>5
      <4>3. pipe'.count = 1 /\ pipe' \in [count : 0..2, head : Offsets, tail : Offsets,
                                          page : [Offsets -> Bytes]]
        BY <1>4, <4>1, <4>2, PipeKept
      <4> QED  BY <1>11, <1>12, <2>2, <3>2, <4>1, <4>3
    <3> QED  BY <3>4, <3>5
  <2> QED  BY <2>1, <2>2
<1>14. asleep' \in [Procs -> Sleeps] /\ \A q \in Procs : asleep'[q] \in {"no", asleep[q]}
  BY <1>4, <1>6, WokenIs, TypeIs
<1>15. TypeOK'
  <2>1. coe' \in [Procs -> SUBSET Fds]  BY <1>4, <1>6 DEF TypeOK
  <2> QED  BY <1>4, <1>6, <1>8, <1>10, <1>13, <1>14, <2>1 DEF TypeOK, Table, Sleeps
<1>16. CountsExact'
  <2>1. \A g \in Files : file'[g].count = UsersIn(filp', g)
    <3> SUFFICES ASSUME NEW g \in Files PROVE file'[g].count = UsersIn(filp', g)  OBVIOUS
    <3>1. CASE g # f  BY <1>7, <1>8, <1>10, <3>1
    <3>2. CASE g = f
      <4>1. UsersIn(filp', f) = UsersIn(filp, f) - 1  BY <1>5, <1>8
      <4>2. file'[f].count = file[f].count - 1
        <5>1. CASE last  BY <1>10, <5>1 DEF NoFile
        <5>2. CASE ~last  BY <1>10, <5>2
        <5> QED  BY <5>1, <5>2
      <4> QED  BY <1>5, <1>7, <3>2, <4>1, <4>2
    <3> QED  BY <3>1, <3>2
  <2>2. pipe'.count = Cardinality(Ends)'  BY <1>13
  <2> QED  BY <2>1, <2>2, CountsThen
<1>17. FilesOK'
  <2>1. \A g \in Files : file'[g].count = 0 => file'[g] = NoFile
    <3> SUFFICES ASSUME NEW g \in Files, file'[g].count = 0 PROVE file'[g] = NoFile  OBVIOUS
    <3>1. CASE g # f  BY <1>10, <3>1 DEF IInv, FilesOK
    <3>2. CASE g = f /\ ~last  BY <1>9, <1>10, <3>2
    <3>3. CASE g = f /\ last  BY <1>10, <3>3
    <3> QED  BY <3>1, <3>2, <3>3
  <2>2. \A g \in Ends' : g \in Ends /\ file'[g].mode = file[g].mode
    <3> SUFFICES ASSUME NEW g \in Ends' PROVE g \in Ends /\ file'[g].mode = file[g].mode
      OBVIOUS
    <3>1. g \in Files /\ g \in Ends  BY <1>11 DEF Ends
    <3>2. CASE g # f  BY <1>10, <3>1, <3>2
    <3>3. CASE g = f /\ ~last  BY <1>10, <3>1, <3>3
    <3>4. CASE g = f /\ last
      <4>1. file'[g].mode = "none"  BY <1>10, <3>4 DEF NoFile
      <4> QED  BY <4>1 DEF Ends
    <3> QED  BY <3>1, <3>2, <3>3, <3>4
  <2>3. \A g, h \in Ends' : (file[g].mode)' = (file[h].mode)' => g = h
    BY <2>2 DEF IInv, FilesOK
  <2> QED  BY <1>13, <2>1, <2>3 DEF FilesOK
<1>18. \A q \in Procs, e \in Fds : q # p \/ e # d => Untouched(q, e)
  <2> SUFFICES ASSUME NEW q \in Procs, NEW e \in Fds, q # p \/ e # d PROVE Untouched(q, e)
    OBVIOUS
  <2>1. filp'[q][e] = filp[q][e]  BY <1>4, <1>6 DEF TypeOK
  <2>2. filp[q][e] # 0 => filp[q][e] \in Files  BY <1>4 DEF TypeOK
  <2>3. last => filp[q][e] # f  BY <1>1, <1>5, SoleUser
  <2> QED  BY <1>10, <2>1, <2>2, <2>3 DEF Untouched
<1>19. filp'[p][d] = 0  BY <1>4, <1>6 DEF TypeOK
<1>20. FdsOK'
  <2>1. \A e \in Fds : ~Unopened(p, e)  BY DEF IInv, FdsOK
  <2>2. \A e \in Fds : ~Unopened(p, e)'
    BY <1>18, <1>19, <2>1, UntouchedIs DEF Unopened
  <2>3. \A e \in Fds : e \in coe'[p] => filp'[p][e] # 0
    <3>1. \A e \in Fds : e \in coe'[p] => e \in coe[p] /\ e # d  BY <1>4, <1>6 DEF TypeOK
    <3> QED  BY <1>18, <3>1 DEF IInv, FdsOK, Untouched
  <2>4. \A q \in Procs \ {p} : coe'[q] = coe[q] /\ pc'[q] = pc[q]
    BY <1>4, <1>6 DEF TypeOK
  <2>5. \A e \in Fds, r \in Procs \ {p}, h \in Fds :
           Unopened(r, h) => filp'[p][e] # filp[r][h]
    <3> SUFFICES ASSUME NEW e \in Fds, NEW r \in Procs \ {p}, NEW h \in Fds, Unopened(r, h)
                 PROVE  filp'[p][e] # filp[r][h]
      OBVIOUS
    <3>1. filp[r][h] # 0  BY DEF Unopened
    <3>2. filp[p][e] # filp[r][h]  BY DEF IInv, FdsOK
    <3>3. filp'[p][e] \in {0, filp[p][e]}  BY <1>18, <1>19 DEF Untouched
    <3> QED  BY <3>1, <3>2, <3>3
  <2>6. pc'[p] \notin {"unused", "opening"}  OBVIOUS
  <2>7. PICK P : P = {p}  OBVIOUS
  <2> QED  BY <1>18, <2>2, <2>3, <2>4, <2>5, <2>6, <2>7, FdsKept
<1>21. CallsOK'
  <2>1. Others(p)  BY <1>14 DEF Others
  <2>2. CallOK(p)'  BY <1>14 DEF CallOK
  <2> QED  BY <1>18, <2>1, <2>2, CallsKept DEF IInv
<1>22. EndsLeft(p)
  <2>1. \A q \in Procs, e \in Fds : q # p \/ e # d => Mode(q, e)' = Mode(q, e)
    BY <1>18, UntouchedIs
  <2>2. Mode(p, d)' = "none"  BY <1>19 DEF Mode
  <2> QED  BY <2>1, <2>2 DEF EndsLeft, Has
<1> QED  BY <1>15, <1>16, <1>17, <1>20, <1>21, <1>22 DEF IInv

LEMMA KeptClose == ASSUME IInv, NEW p \in Procs, Close(p) PROVE IInv' /\ EndsLeft(p)
<1>1. PICK d \in Fds \ FreeFds(p) : CloseFd(p, d)  BY DEF Close
<1>2. filp[p][d] # 0  BY <1>1 DEF FreeFds
<1>3. pc[p] = "user" /\ asleep[p] = "no" /\ UNCHANGED <<cpu, pc, loc, signal>>
  BY DEF Close, InUser, At, Same
<1>4. cpu' \in Procs \cup {NoProc}  BY <1>3 DEF IInv, TypeOK
<1> QED  BY <1>1, <1>2, <1>3, <1>4, KeptCloseFd

LEMMA ClosingIs ==
    ASSUME IInv, NEW p \in Procs, Closing(p) # {}
    PROVE  Min(Closing(p)) \in Fds /\ filp[p][Min(Closing(p))] # 0
<1>1. Closing(p) \subseteq Fds  BY DEF Closing, IInv, TypeOK
<1>2. Min(Closing(p)) \in Closing(p)
  <2>1. Closing(p) \subseteq Nat  BY <1>1, FdsFinite
  <2> QED  BY <2>1, MinIs
<1> QED  BY <1>1, <1>2 DEF Closing, FreeFds, IInv, FdsOK

LEMMA KeptCloseNext == ASSUME IInv, NEW p \in Procs, CloseNext(p) PROVE IInv' /\ EndsLeft(p)
<1>1. PICK d : d = Min(Closing(p))  OBVIOUS
<1>2. /\ pc[p] \in {"exec", "exit"} /\ asleep[p] = "no" /\ Closing(p) # {}
      /\ CloseFd(p, d) /\ cpu' \in {p, NoProc} /\ UNCHANGED <<pc, loc, signal>>
  BY <1>1 DEF CloseNext, At
<1>3. d \in Fds /\ filp[p][d] # 0  BY <1>1, <1>2, ClosingIs
<1> QED  BY <1>2, <1>3, KeptCloseFd

\* open() has found the file, or gives it back.
LEMMA KeptOpened == ASSUME IInv, NEW p \in Procs, Opened(p) PROVE IInv' /\ EndsKept
<1>1. PICK d : d = CHOOSE e \in Fds : filp[p][e] # 0 /\ Mode(p, e) = "none"  OBVIOUS
<1>2. PICK f : f = filp[p][d]  OBVIOUS
<1>3. TypeOK /\ pc[p] = "opening" /\ asleep[p] = "no"  BY DEF IInv, Opened, At
<1>4. d \in Fds /\ Unopened(p, d)
  <2>1. \E e \in Fds : filp[p][e] # 0 /\ Mode(p, e) = "none"
    BY <1>3 DEF IInv, FdsOK, Unopened
  <2> QED  BY <1>1, <2>1 DEF Unopened
<1>5. f \in Files /\ f # 0 /\ file[f].mode = "none"
  BY <1>2, <1>3, <1>4 DEF Unopened, Mode, TypeOK
<1>6. \/ /\ file' = [file EXCEPT ![f] = [count |-> 1, mode |-> "file"]]
         /\ UNCHANGED filp
      \/ /\ file' = [file EXCEPT ![f] = NoFile]
         /\ filp' = [filp EXCEPT ![p][d] = 0]
  BY <1>1, <1>2 DEF Opened
<1>7. Return(p) /\ UNCHANGED <<coe, pipe, next, asleep>>  BY DEF Opened
<1>8. Moves(p) /\ pc'[p] = "user" /\ loc'[p] = NoLoc /\ asleep'[p] = "no"
  <2>1. "user" \in Places  BY DEF Places
  <2> QED  BY <1>3, <1>7, <2>1, NoLocIs, MovesTo DEF Return, Leave
<1>9. \A q \in Procs, e \in Fds : filp[q][e] = f => q = p /\ e = d
  BY <1>2, <1>4 DEF IInv, FdsOK
<1>10. file[f].count = 1 /\ UsersIn(filp, f) = 1
  <2>1. UsingIn(filp, f) = {<<p, d>>}  BY <1>2, <1>4, <1>9 DEF UsingIn
  <2>2. UsersIn(filp, f) = 1  BY <2>1, FS_Singleton DEF UsersIn
  <2> QED  BY <1>5, <2>2, CountsIs DEF IInv
<1>11. \A g \in Files : file[g].count = UsersIn(filp, g) /\ UsersIn(filp, g) \in Nat
  BY CountsIs, UsersFinite DEF IInv
<1>12. /\ filp' \in Table
       /\ file' \in [Files -> [count : Nat, mode : {"none", "read", "write", "file"}]]
       /\ \A g \in Files : g # f => file'[g] = file[g]
       /\ file'[f] \in {NoFile, [count |-> 1, mode |-> "file"]}
       /\ \A g \in Files : file'[g].count = UsersIn(filp', g)
  <2>1. CASE file' = [file EXCEPT ![f] = [count |-> 1, mode |-> "file"]] /\ UNCHANGED filp
    <3>1. filp' \in Table  BY <1>3, <2>1, TypeIs
    <3>2. /\ \A g \in Files : g # f => file'[g] = file[g]
          /\ file'[f] = [count |-> 1, mode |-> "file"]
          /\ file' \in [Files -> [count : Nat, mode : {"none", "read", "write", "file"}]]
      BY <1>3, <1>5, <2>1 DEF TypeOK
    <3> QED  BY <1>10, <1>11, <2>1, <3>1, <3>2
  <2>2. CASE file' = [file EXCEPT ![f] = NoFile] /\ filp' = [filp EXCEPT ![p][d] = 0]
    <3>1. /\ filp' \in Table
          /\ \A g \in Files : UsersIn(filp', g) = UsersIn(filp, g) - (IF g = f THEN 1 ELSE 0)
      <4>1. PICK G : G = filp'  OBVIOUS
      <4>2. filp \in Table /\ G = [filp EXCEPT ![p][d] = 0]  BY <1>3, <2>2, <4>1, TypeIs
      <4>3. Removes(filp, G, f)  BY <1>2, <1>4, <1>5, <4>2, RemovesIs
      <4> QED  BY <4>1, <4>3 DEF Removes
    <3>2. /\ \A g \in Files : g # f => file'[g] = file[g]
          /\ file'[f] = NoFile
          /\ file' \in [Files -> [count : Nat, mode : {"none", "read", "write", "file"}]]
      BY <1>3, <1>5, <2>2 DEF TypeOK, NoFile
    <3>3. file'[f].count = 0  BY <3>2 DEF NoFile
    <3>4. \A g \in Files : file'[g].count = UsersIn(filp', g)
      <4> SUFFICES ASSUME NEW g \in Files PROVE file'[g].count = UsersIn(filp', g)  OBVIOUS
      <4>1. CASE g = f
        <5>1. UsersIn(filp', f) = UsersIn(filp, f) - 1  BY <1>5, <3>1
        <5> QED  BY <1>10, <3>3, <4>1, <5>1
      <4>2. CASE g # f  BY <1>11, <3>1, <3>2, <4>2
      <4> QED  BY <4>1, <4>2
    <3> QED  BY <3>1, <3>2, <3>4
  <2> QED  BY <1>6, <2>1, <2>2
<1>13. TypeOK'
  <2>1. pipe' \in [count : 0..2, head : Offsets, tail : Offsets, page : [Offsets -> Bytes]]
    BY <1>3, <1>7, PipeKept
  <2> QED  BY <1>3, <1>7, <1>8, <1>12, <2>1 DEF TypeOK, Moves, Table, Places, Locs, Sleeps
<1>14. Ends' = Ends
  <2>1. f \notin Ends /\ f \notin Ends'  BY <1>5, <1>12 DEF Ends, NoFile
  <2>2. \A g \in Files : g # f => (g \in Ends' <=> g \in Ends)  BY <1>12 DEF Ends
  <2>3. Ends \subseteq Files /\ Ends' \subseteq Files  BY DEF Ends
  <2> QED  BY <2>1, <2>2, <2>3
<1>15. CountsExact'
  <2>1. pipe'.count = Cardinality(Ends)'  BY <1>7, <1>14, CountsIs DEF IInv
  <2> QED  BY <1>12, <2>1, CountsThen
<1>16. FilesOK'
  <2>1. \A g \in Files : file'[g].count = 0 => file'[g] = NoFile
    BY <1>12 DEF IInv, FilesOK
  <2>2. \A g \in Ends : file'[g] = file[g]  BY <1>5, <1>12 DEF Ends
  <2> QED  BY <1>7, <1>14, <2>1, <2>2 DEF IInv, FilesOK
<1>17. \A q \in Procs, e \in Fds : q # p \/ e # d => Untouched(q, e)
  <2> SUFFICES ASSUME NEW q \in Procs, NEW e \in Fds, q # p \/ e # d PROVE Untouched(q, e)
    OBVIOUS
  <2>1. filp'[q][e] = filp[q][e]  BY <1>3, <1>6 DEF TypeOK
  <2>2. filp[q][e] # 0 => filp[q][e] \in Files  BY <1>3 DEF TypeOK
  <2> QED  BY <1>9, <1>12, <2>1, <2>2 DEF Untouched
<1>18. FdsOK'
  <2>1. filp'[p][d] = 0 \/ (filp'[p][d] = f /\ file'[f].mode = "file")
    <3>1. CASE file' = [file EXCEPT ![f] = [count |-> 1, mode |-> "file"]] /\ UNCHANGED filp
      BY <1>2, <1>3, <1>5, <3>1 DEF TypeOK
    <3>2. CASE filp' = [filp EXCEPT ![p][d] = 0]  BY <1>3, <1>4, <3>2 DEF TypeOK
    <3> QED  BY <1>6, <3>1, <3>2
  <2>2. ~Unopened(p, d)'  BY <2>1 DEF Unopened, Mode
  <2>3. \A e \in Fds : ~Unopened(p, e)'
    <3> SUFFICES ASSUME NEW e \in Fds, e # d PROVE ~Unopened(p, e)'  BY <2>2
    <3>1. ~Unopened(p, e)  BY <1>4 DEF IInv, FdsOK
    <3> QED  BY <1>17, <3>1, UntouchedIs
  <2>4. \A e \in Fds : e \in coe'[p] => filp'[p][e] # 0
    <3>1. d \notin coe[p]  BY <1>4 DEF IInv, FdsOK
    <3> QED  BY <1>7, <1>17, <3>1 DEF IInv, FdsOK, Untouched
  <2>5. \A e \in Fds, r \in Procs \ {p}, h \in Fds :
           Unopened(r, h) => filp'[p][e] # filp[r][h]
    <3> SUFFICES ASSUME NEW e \in Fds, NEW r \in Procs \ {p}, NEW h \in Fds, Unopened(r, h)
                 PROVE  filp'[p][e] # filp[r][h]
      OBVIOUS
    <3>1. filp[r][h] # 0  BY DEF Unopened
    <3>2. filp[p][e] # filp[r][h]  BY DEF IInv, FdsOK
    <3>3. filp'[p][e] \in {0, filp[p][e]}  BY <1>2, <1>17, <2>1 DEF Untouched
    <3> QED  BY <3>1, <3>2, <3>3
  <2>6. \A q \in Procs \ {p} : coe'[q] = coe[q] /\ pc'[q] = pc[q]
    BY <1>7, <1>8 DEF Moves, Others
  <2>7. PICK P : P = {p}  OBVIOUS
  <2> QED  BY <1>8, <1>17, <2>3, <2>4, <2>5, <2>6, <2>7, FdsKept
<1>19. CallsOK'
  <2>1. CallOK(p)'  BY <1>8 DEF CallOK
  <2> QED  BY <1>8, <1>17, <2>1, CallsKept DEF IInv, Moves
<1>20. EndsKept
  <2>1. \A q \in Procs, e \in Fds : q # p \/ e # d => Mode(q, e)' = Mode(q, e)
    BY <1>17, UntouchedIs
  <2>2. Mode(p, d) = "none"  BY <1>4 DEF Unopened
  <2>3. Mode(p, d)' \in {"none", "file"}
    <3>1. CASE file' = [file EXCEPT ![f] = [count |-> 1, mode |-> "file"]] /\ UNCHANGED filp
      BY <1>2, <1>3, <1>5, <3>1 DEF TypeOK, Mode
    <3>2. CASE filp' = [filp EXCEPT ![p][d] = 0]  BY <1>3, <1>4, <3>2 DEF TypeOK, Mode
    <3> QED  BY <1>6, <3>1, <3>2
  <2> QED  BY <2>1, <2>2, <2>3 DEF EndsKept, Has
<1> QED  BY <1>13, <1>15, <1>16, <1>18, <1>19, <1>20 DEF IInv

\* What stays as it is while p is in its program.
LEMMA InProgram ==
    ASSUME IInv, NEW p \in Procs, pc[p] = "user", asleep[p] = "no",
           UNCHANGED <<cpu, pc, loc, next, signal, asleep>>,
           filp' \in Table, coe' \in [Procs -> SUBSET Fds],
           file' \in [Files -> [count : Nat, mode : {"none", "read", "write", "file"}]],
           pipe' \in [count : 0..2, head : Offsets, tail : Offsets, page : [Offsets -> Bytes]]
    PROVE  TypeOK' /\ Others(p) /\ CallOK(p)'
<1>1. TypeOK'  BY DEF IInv, TypeOK, Table
<1> QED  BY <1>1 DEF Others, CallOK, IInv, TypeOK

LEMMA KeptDup == ASSUME IInv, NEW p \in Procs, Dup(p) PROVE IInv' /\ EndsKept
<1>1. PICK d \in Fds \ FreeFds(p), arg \in Fds :
        LET free == {e \in FreeFds(p) : e >= arg}  e == Min(free) IN
        /\ free # {}
        /\ coe' = [coe EXCEPT ![p] = @ \ {e}]
        /\ filp' = [filp EXCEPT ![p][e] = filp[p][d]]
        /\ file' = [file EXCEPT ![filp[p][d]].count = @ + 1]
  BY DEF Dup
<1>2. PICK f : f = filp[p][d]  OBVIOUS
<1>3. PICK b : b = Min({e \in FreeFds(p) : e >= arg})  OBVIOUS
<1>4. /\ {e \in FreeFds(p) : e >= arg} # {}
      /\ coe' = [coe EXCEPT ![p] = @ \ {b}]
      /\ filp' = [filp EXCEPT ![p][b] = f]
      /\ file' = [file EXCEPT ![f].count = @ + 1]
      /\ pc[p] = "user" /\ asleep[p] = "no"
      /\ UNCHANGED <<pipe, cpu, pc, loc, next, signal, asleep>>
  BY <1>1, <1>2, <1>3 DEF Dup, Same, InUser, At
<1>5. TypeOK /\ f \in Files /\ f # 0  BY <1>2, FdsFinite DEF IInv, TypeOK, FreeFds
<1>6. b \in Fds /\ filp[p][b] = 0 /\ b # d
  <2>1. {e \in FreeFds(p) : e >= arg} \subseteq Nat  BY FdsFinite DEF FreeFds
  <2>2. b \in {e \in FreeFds(p) : e >= arg}  BY <1>3, <1>4, <2>1, MinIs
  <2> QED  BY <2>2 DEF FreeFds
<1>7. /\ filp' \in Table
      /\ \A g \in Files : UsersIn(filp', g) = UsersIn(filp, g) + (IF g = f THEN 1 ELSE 0)
  <2>1. filp \in Table  BY <1>5, TypeIs
  <2>2. Adds(filp, filp', f)
    <3>1. PICK F : F = filp  OBVIOUS
    <3>2. PICK G : G = [F EXCEPT ![p][b] = f]  OBVIOUS
    <3>3. Adds(F, G, f)  BY <1>5, <1>6, <2>1, <3>1, <3>2, AddsIs
    <3>4. G = filp'  BY <1>4, <3>1, <3>2
    <3> QED  BY <3>1, <3>3, <3>4
  <2> QED  BY <2>2 DEF Adds
<1>8. /\ file' \in [Files -> [count : Nat, mode : {"none", "read", "write", "file"}]]
      /\ \A g \in Files : file'[g].mode = file[g].mode
      /\ \A g \in Files : g # f => file'[g] = file[g]
      /\ file'[f].count = file[f].count + 1
  BY <1>4, <1>5 DEF TypeOK
<1>9. TypeOK' /\ Others(p) /\ CallOK(p)'
  <2>1. coe' \in [Procs -> SUBSET Fds]  BY <1>4, <1>5 DEF TypeOK
  <2> QED  BY <1>4, <1>5, <1>7, <1>8, <2>1, InProgram, PipeKept
<1>10. Ends' = Ends  BY <1>8 DEF Ends
<1>11. CountsExact'
  <2>1. \A g \in Files : file'[g].count = UsersIn(filp', g)
    <3> SUFFICES ASSUME NEW g \in Files PROVE file'[g].count = UsersIn(filp', g)  OBVIOUS
    <3>1. file[g].count = UsersIn(filp, g) /\ UsersIn(filp, g) \in Nat
      BY CountsIs, UsersFinite DEF IInv
    <3>2. CASE g = f  BY <1>7, <1>8, <3>1, <3>2
    <3>3. CASE g # f  BY <1>7, <1>8, <3>1, <3>3
    <3> QED  BY <3>2, <3>3
  <2>2. pipe'.count = Cardinality(Ends)'  BY <1>4, <1>10, CountsIs DEF IInv
  <2> QED  BY <2>1, <2>2, CountsThen
<1>12. FilesOK'
  <2>1. file[f].count \in Nat  BY <1>5 DEF TypeOK
  <2>2. file'[f].count # 0  BY <1>8, <2>1
  <2>3. \A g \in Files : file'[g].count = 0 => file'[g] = NoFile
    BY <1>8, <2>2 DEF IInv, FilesOK
  <2>4. \A g, h \in Ends' : (file[g].mode)' = (file[h].mode)' => g = h
    <3>1. Ends \subseteq Files  BY DEF Ends
    <3> QED  BY <1>8, <1>10, <3>1 DEF IInv, FilesOK
  <2> QED  BY <1>4, <2>3, <2>4 DEF IInv, FilesOK
<1>13. \A q \in Procs, e \in Fds : q # p \/ e # b => Untouched(q, e)
  <2> SUFFICES ASSUME NEW q \in Procs, NEW e \in Fds, q # p \/ e # b PROVE Untouched(q, e)
    OBVIOUS
  <2>1. filp'[q][e] = filp[q][e]  BY <1>4, <1>5 DEF TypeOK
  <2>2. filp[q][e] # 0 => filp[q][e] \in Files  BY <1>5 DEF TypeOK
  <2> QED  BY <1>8, <2>1, <2>2 DEF Untouched
<1>14. filp'[p][b] = f /\ filp'[p][d] = f  BY <1>2, <1>4, <1>5, <1>6 DEF TypeOK
<1>15. FdsOK'
  <2>1. \A e \in Fds : ~Unopened(p, e)  BY <1>4 DEF IInv, FdsOK
  <2>2. \A e \in Fds : e # b => ~Unopened(p, e)'  BY <1>13, <2>1, UntouchedIs
  <2>3. ~Unopened(p, b)'
    <3>1. ~Unopened(p, d)'  BY <1>6, <2>2
    <3> QED  BY <1>14, <3>1 DEF Unopened, Mode
  <2>4. \A e \in Fds : e \in coe'[p] => filp'[p][e] # 0
    <3>1. \A e \in Fds : e \in coe'[p] => e \in coe[p] /\ e # b  BY <1>4, <1>5 DEF TypeOK
    <3> QED  BY <1>13, <3>1 DEF IInv, FdsOK, Untouched
  <2>5. \A e \in Fds, r \in Procs \ {p}, h \in Fds :
           Unopened(r, h) => filp'[p][e] # filp[r][h]
    <3> SUFFICES ASSUME NEW e \in Fds, NEW r \in Procs \ {p}, NEW h \in Fds, Unopened(r, h)
                 PROVE  filp'[p][e] # filp[r][h]
      OBVIOUS
    <3>1. filp[p][e] # filp[r][h] /\ filp[p][d] # filp[r][h]  BY DEF IInv, FdsOK
    <3>2. filp'[p][e] \in {filp[p][d], filp[p][e]}  BY <1>2, <1>13, <1>14 DEF Untouched
    <3> QED  BY <3>1, <3>2
  <2>6. \A q \in Procs \ {p} : coe'[q] = coe[q] /\ pc'[q] = pc[q]
    BY <1>4, <1>5 DEF TypeOK
  <2>7. PICK P : P = {p}  OBVIOUS
  <2> QED  BY <1>4, <1>13, <2>2, <2>3, <2>4, <2>5, <2>6, <2>7, FdsKept
<1>16. CallsOK'  BY <1>9, <1>13, CallsKept DEF IInv
<1>17. EndsKept
  <2>1. \A q \in Procs, e \in Fds : q # p \/ e # b => Mode(q, e)' = Mode(q, e)
    BY <1>13, UntouchedIs
  <2>2. Mode(p, b) = "none"  BY <1>6 DEF Mode
  <2>3. Mode(p, b)' = Mode(p, d)'  BY <1>14 DEF Mode
  <2>4. Mode(p, d)' = Mode(p, d) /\ d \in Fds  BY <1>6, <2>1
  <2> QED  BY <1>6, <2>1, <2>2, <2>3, <2>4 DEF EndsKept, Has
<1> QED  BY <1>9, <1>11, <1>12, <1>15, <1>16, <1>17 DEF IInv

\* p has both ends, and a child what its parent has.
EndsMade(p) == \A q \in Procs, m \in {"read", "write"} : ~Has(q, m) /\ (Has(q, m)' <=> q = p)
EndsCopied(p, c) == \A q \in Procs, m \in {"read", "write"} :
    ~Has(c, m) /\ (Has(q, m)' <=> Has(q, m) \/ (q = c /\ Has(p, m)))

LEMMA KeptPipe == ASSUME IInv, NEW p \in Procs, Pipe(p) PROVE IInv' /\ EndsMade(p)
<1>1. PICK r : r = Min(FreeFiles)  OBVIOUS
<1>2. PICK w : w = Min(FreeFiles \ {r})  OBVIOUS
<1>3. PICK d : d = Min(FreeFds(p))  OBVIOUS
<1>4. PICK e : e = Min(FreeFds(p) \ {d})  OBVIOUS
<1>5. /\ pc[p] = "user" /\ asleep[p] = "no" /\ pipe.count = 0
      /\ Cardinality(FreeFiles) >= 2 /\ Cardinality(FreeFds(p)) >= 2
      /\ file' = [file EXCEPT ![r] = [count |-> 1, mode |-> "read"],
                              ![w] = [count |-> 1, mode |-> "write"]]
      /\ filp' = [filp EXCEPT ![p][d] = r, ![p][e] = w]
      /\ pipe' = [NoPipe EXCEPT !.count = 2]
      /\ UNCHANGED <<cpu, pc, loc, coe, next, signal, asleep>>
  BY <1>1, <1>2, <1>3, <1>4 DEF Pipe, InUser, At, Same
<1>6. TypeOK  BY DEF IInv
<1>7. r \in FreeFiles /\ w \in FreeFiles /\ r # w /\ r \in Files /\ w \in Files
  <2>1. FreeFiles \in SUBSET Files /\ FreeFiles \subseteq Nat  BY FdsFinite DEF FreeFiles
  <2>2. IsFiniteSet(FreeFiles)  BY <2>1, FdsFinite, FS_Subset
  <2> QED  BY <1>1, <1>2, <1>5, <2>1, <2>2, TwoLeast
<1>8. d \in FreeFds(p) /\ e \in FreeFds(p) /\ d # e /\ d \in Fds /\ e \in Fds
  <2>1. FreeFds(p) \in SUBSET Fds /\ FreeFds(p) \subseteq Nat  BY FdsFinite DEF FreeFds
  <2>2. IsFiniteSet(FreeFds(p))  BY <2>1, FdsFinite, FS_Subset
  <2> QED  BY <1>3, <1>4, <1>5, <2>1, <2>2, TwoLeast
<1>9. filp[p][d] = 0 /\ filp[p][e] = 0  BY <1>8 DEF FreeFds
<1>10. /\ file[r] = NoFile /\ file[w] = NoFile
       /\ \A q \in Procs, h \in Fds : filp[q][h] # r /\ filp[q][h] # w
  BY <1>7, Unused
<1>11. Ends = {}
  <2>1. Cardinality(Ends) = 0  BY <1>5, CountsIs DEF IInv
  <2> QED  BY <1>6, <2>1, FilesIs, FS_EmptySet
<1>12. /\ filp' \in Table
       /\ \A g \in Files : UsersIn(filp', g)
                           = UsersIn(filp, g) + (IF g \in {r, w} THEN 1 ELSE 0)
  <2>1. PICK F : F = [filp EXCEPT ![p][d] = r]  OBVIOUS
  <2>2. filp \in Table  BY <1>6, TypeIs
  <2>3. Adds(filp, F, r)  BY <1>7, <1>8, <1>9, <2>1, <2>2, AddsIs
  <2>4. F \in Table  BY <2>3 DEF Adds
  <2>5. F[p][e] = 0  BY <1>8, <1>9, <2>1, <2>2 DEF Table
  <2>6. PICK G : G = [F EXCEPT ![p][e] = w]  OBVIOUS
  <2>7. Adds(F, G, w)  BY <1>7, <1>8, <2>4, <2>5, <2>6, AddsIs
  <2>8. filp' = G  BY <1>5, <2>1, <2>6
  <2>9. \A g \in Files : UsersIn(filp, g) \in Nat  BY UsersFinite
  <2> QED  BY <1>7, <2>3, <2>7, <2>8, <2>9 DEF Adds
<1>13. /\ file' \in [Files -> [count : Nat, mode : {"none", "read", "write", "file"}]]
       /\ file'[r] = [count |-> 1, mode |-> "read"]
       /\ file'[w] = [count |-> 1, mode |-> "write"]
       /\ \A g \in Files : g \notin {r, w} => file'[g] = file[g]
  BY <1>5, <1>6, <1>7 DEF TypeOK
<1>14. /\ pipe' \in [count : 0..2, head : Offsets, tail : Offsets, page : [Offsets -> Bytes]]
       /\ pipe'.count = 2
  <2>1. 0 \in Offsets /\ 0 \in Bytes  BY Sizes DEF Offsets, Bytes
  <2> QED  BY <1>5, <2>1 DEF NoPipe
<1>15. TypeOK' /\ Others(p) /\ CallOK(p)'
  <2>1. coe' \in [Procs -> SUBSET Fds]  BY <1>5, <1>6 DEF TypeOK
  <2> QED  BY <1>5, <1>12, <1>13, <1>14, <2>1, InProgram
<1>16. Ends' = {r, w}
  <2>1. r \in Ends' /\ w \in Ends'  BY <1>7, <1>13 DEF Ends
  <2>2. \A g \in Ends' : g \in {r, w}  BY <1>11, <1>13 DEF Ends
  <2> QED  BY <2>1, <2>2
<1>17. CountsExact'
  <2>1. \A g \in Files : file'[g].count = UsersIn(filp', g)
    <3> SUFFICES ASSUME NEW g \in Files PROVE file'[g].count = UsersIn(filp', g)  OBVIOUS
    <3>1. file[g].count = UsersIn(filp, g) /\ UsersIn(filp, g) \in Nat
      BY CountsIs, UsersFinite DEF IInv
    <3>2. CASE g \in {r, w}
      <4>1. file[g].count = 0  BY <1>10, <3>2 DEF NoFile
      <4>2. file'[g].count = 1  BY <1>13, <3>2
      <4>3. UsersIn(filp', g) = UsersIn(filp, g) + 1  BY <1>12, <3>2
      <4>4. UsersIn(filp, g) = 0  BY <3>1, <4>1
      <4>5. UsersIn(filp', g) = 1  BY <4>3, <4>4
      <4> QED  BY <4>2, <4>5
    <3>3. CASE g \notin {r, w}  BY <1>12, <1>13, <3>1, <3>3
    <3> QED  BY <3>2, <3>3
  <2>2. Cardinality(Ends') = 2
    <3>1. IsFiniteSet({r}) /\ Cardinality({r}) = 1  BY FS_Singleton
    <3>2. Cardinality({r} \cup {w}) = 2  BY <1>7, <3>1, FS_AddElement
    <3>3. {r} \cup {w} = {r, w}  OBVIOUS
    <3> QED  BY <1>16, <3>2, <3>3
  <2> QED  BY <1>14, <2>1, <2>2, CountsThen
<1>18. FilesOK'
  <2>1. \A g \in Files : file'[g].count = 0 => file'[g] = NoFile
    BY <1>13 DEF IInv, FilesOK
  <2>2. \A g, h \in Ends' : (file[g].mode)' = (file[h].mode)' => g = h
    BY <1>13, <1>16
  <2> QED  BY <1>14, <2>1, <2>2 DEF FilesOK
<1>19. \A q \in Procs, h \in Fds : q # p \/ h \notin {d, e} => Untouched(q, h)
  <2> SUFFICES ASSUME NEW q \in Procs, NEW h \in Fds, q # p \/ h \notin {d, e}
               PROVE  Untouched(q, h)
    OBVIOUS
  <2>1. filp'[q][h] = filp[q][h]  BY <1>5, <1>6 DEF TypeOK
  <2>2. filp[q][h] # 0 => filp[q][h] \in Files  BY <1>6 DEF TypeOK
  <2> QED  BY <1>10, <1>13, <2>1, <2>2 DEF Untouched
<1>20. filp'[p][d] = r /\ filp'[p][e] = w  BY <1>5, <1>6, <1>8 DEF TypeOK
<1>21. FdsOK'
  <2>1. \A h \in Fds : ~Unopened(p, h)  BY <1>5 DEF IInv, FdsOK
  <2>2. \A h \in Fds : h \notin {d, e} => ~Unopened(p, h)'  BY <1>19, <2>1, UntouchedIs
  <2>3. ~Unopened(p, d)' /\ ~Unopened(p, e)'
    <3>1. r # 0 /\ w # 0  BY <1>7, FdsFinite
    <3> QED  BY <1>13, <1>20, <3>1 DEF Unopened, Mode
  <2>4. \A h \in Fds : h \in coe'[p] => filp'[p][h] # 0
    <3>1. \A h \in Fds : h \in coe[p] => h \notin {d, e}  BY <1>9 DEF IInv, FdsOK
    <3>2. \A h \in Fds : h \notin {d, e} => filp'[p][h] = filp[p][h]
      BY <1>19 DEF Untouched
    <3>3. \A h \in Fds : h \in coe[p] => filp[p][h] # 0  BY DEF IInv, FdsOK
    <3> QED  BY <1>5, <3>1, <3>2, <3>3
  <2>5. \A b \in Fds, q \in Procs \ {p}, h \in Fds :
           Unopened(q, h) => filp'[p][b] # filp[q][h]
    <3> SUFFICES ASSUME NEW b \in Fds, NEW q \in Procs \ {p}, NEW h \in Fds, Unopened(q, h)
                 PROVE  filp'[p][b] # filp[q][h]
      OBVIOUS
    <3>1. filp[p][b] # filp[q][h]  BY DEF IInv, FdsOK
    <3>2. filp'[p][b] \in {r, w, filp[p][b]}  BY <1>19, <1>20 DEF Untouched
    <3> QED  BY <1>10, <3>1, <3>2
  <2>6. \A q \in Procs \ {p} : coe'[q] = coe[q] /\ pc'[q] = pc[q]  BY <1>5
  <2>7. PICK P : P = {p}  OBVIOUS
  <2>8. \A h \in Fds : ~Unopened(p, h)'  BY <2>2, <2>3
  <2>9. \A q \in Procs \ {p}, h \in Fds : Untouched(q, h)  BY <1>19
  <2>10. pc'[p] \notin {"unused", "opening"}  BY <1>5
  <2> QED  BY <2>4, <2>5, <2>6, <2>7, <2>8, <2>9, <2>10, FdsKept
<1>22. CallsOK'  BY <1>15, <1>19, CallsKept DEF IInv
<1>23. EndsMade(p)
  <2>1. \A q \in Procs, h \in Fds : Mode(q, h) \notin {"read", "write"}
    <3>1. \A q \in Procs, h \in Fds : filp[q][h] # 0 => filp[q][h] \in Files
      BY <1>6 DEF TypeOK
    <3> QED  BY <1>11, <3>1 DEF Mode, Ends
  <2>2. \A q \in Procs, h \in Fds : q # p \/ h \notin {d, e} => Mode(q, h)' = Mode(q, h)
    BY <1>19, UntouchedIs
  <2>3. Mode(p, d)' = "read" /\ Mode(p, e)' = "write"
    <3>1. r # 0 /\ w # 0  BY <1>7, FdsFinite
    <3> QED  BY <1>13, <1>20, <3>1 DEF Mode
  <2> QED  BY <1>8, <2>1, <2>2, <2>3 DEF EndsMade, Has
<1> QED  BY <1>15, <1>17, <1>18, <1>21, <1>22, <1>23 DEF IInv

LEMMA KeptFork == ASSUME IInv, NEW p \in Procs, NEW c \in Procs, Fork(p, c) PROVE IInv' /\ EndsCopied(p, c)
<1>1. TypeOK /\ pc[p] = "user" /\ pc[c] = "unused" /\ p # c
  BY DEF IInv, Fork, InUser, At
<1>2. PICK n \in [Files -> Nat] :
         \A g \in Files : n[g] = Cardinality({d \in Fds : filp[p][d] = g})
  <2>1. \A g \in Files : Cardinality({d \in Fds : filp[p][d] = g}) \in Nat
    <3> TAKE g \in Files
    <3>1. {d \in Fds : filp[p][d] = g} \in SUBSET Fds  OBVIOUS
    <3> QED  BY <3>1, FdsFinite, FS_Subset, FS_CardinalityType
  <2>2. [g \in Files |-> Cardinality({d \in Fds : filp[p][d] = g})] \in [Files -> Nat]
    BY <2>1
  <2> QED  BY <2>2
<1>3. /\ filp' = [filp EXCEPT ![c] = filp[p]] /\ coe' = [coe EXCEPT ![c] = coe[p]]
      /\ file' = [f \in Files |-> [file[f] EXCEPT !.count = @ + n[f]]]
      /\ pc' = [pc EXCEPT ![c] = "user"]
      /\ UNCHANGED <<cpu, loc, pipe, next, signal, asleep>>
  <2>1. file' = [f \in Files |-> [file[f] EXCEPT !.count =
                    @ + Cardinality({d \in Fds : filp[p][d] = f})]]
    BY DEF Fork
  <2>2. file' = [f \in Files |-> [file[f] EXCEPT !.count = @ + n[f]]]  BY <1>2, <2>1
  <2> QED  BY <2>2 DEF Fork
<1>4. \A d \in Fds : filp[c][d] = 0  BY <1>1 DEF IInv, FdsOK
<1>5. /\ filp' \in Table
      /\ \A g \in Files : UsersIn(filp', g) = UsersIn(filp, g) + n[g]
  <2>1. filp \in Table  BY <1>1, TypeIs
  <2>2. [filp EXCEPT ![c] = filp[p]] \in Table
    BY <2>1 DEF Table
  <2>3. \A g \in Files : UsersIn([filp EXCEPT ![c] = filp[p]], g) = UsersIn(filp, g) + n[g]
    BY <1>1, <1>2, <1>4, <2>1, UsersFork
  <2> QED  BY <1>3, <2>2, <2>3
<1>6. /\ file' \in [Files -> [count : Nat, mode : {"none", "read", "write", "file"}]]
      /\ \A g \in Files : file'[g].mode = file[g].mode /\ file'[g].count = file[g].count + n[g]
  <2>1. \A g \in Files : /\ file[g] \in [count : Nat, mode : {"none", "read", "write", "file"}]
                          /\ n[g] \in Nat
    BY <1>1, <1>2 DEF TypeOK
  <2>2. \A g \in Files : file'[g] = [file[g] EXCEPT !.count = @ + n[g]]  BY <1>3
  <2>3. \A g \in Files : /\ file'[g].mode = file[g].mode
                          /\ file'[g].count = file[g].count + n[g]
                          /\ file'[g] \in [count : Nat, mode : {"none", "read", "write", "file"}]
    <3> TAKE g \in Files
    <3>1. PICK r \in [count : Nat, mode : {"none", "read", "write", "file"}] : r = file[g]
      BY <2>1
    <3>2. PICK k \in Nat : k = n[g]  BY <2>1
    <3>3. file'[g] = [r EXCEPT !.count = @ + k]  BY <2>2, <3>1, <3>2
    <3>4. r.count + k \in Nat  OBVIOUS
    <3> QED  BY <3>1, <3>2, <3>3, <3>4
  <2>4. file' = [g \in Files |-> file'[g]]  BY <1>3
  <2> QED  BY <2>3, <2>4
<1>7. TypeOK'
  <2>1. coe' \in [Procs -> SUBSET Fds] /\ pc' \in [Procs -> Places]
    BY <1>1, <1>3 DEF TypeOK, Places
  <2> QED  BY <1>1, <1>3, <1>5, <1>6, <2>1 DEF TypeOK, Table, Places
<1>8. Ends' = Ends  BY <1>6 DEF Ends
<1>9. CountsExact'
  <2>1. \A g \in Files : file'[g].count = UsersIn(filp', g)
    BY <1>5, <1>6, CountsIs DEF IInv
  <2>2. pipe'.count = Cardinality(Ends)'  BY <1>3, <1>8, CountsIs DEF IInv
  <2> QED  BY <2>1, <2>2, CountsThen
<1>10. \A g \in Files : n[g] > 0 => \E d \in Fds : filp[p][d] = g
  <2> SUFFICES ASSUME NEW g \in Files, n[g] > 0 PROVE \E d \in Fds : filp[p][d] = g  OBVIOUS
  <2>1. {d \in Fds : filp[p][d] = g} # {}  BY <1>2, FS_EmptySet
  <2> QED  BY <2>1
<1>11. FilesOK'
  <2>1. \A g \in Files : file'[g].count = 0 => file'[g] = NoFile
    <3> SUFFICES ASSUME NEW g \in Files, file'[g].count = 0 PROVE file'[g] = NoFile  OBVIOUS
    <3>1. file[g].count \in Nat /\ n[g] \in Nat  BY <1>1, <1>2 DEF TypeOK
    <3>2. file[g].count = 0 /\ n[g] = 0  BY <1>6, <3>1
    <3>3. file[g] = NoFile  BY <3>2 DEF IInv, FilesOK
    <3> QED  BY <1>3, <3>2, <3>3 DEF NoFile
  <2>2. \A g, h \in Ends' : (file[g].mode)' = (file[h].mode)' => g = h
    <3>1. Ends \subseteq Files  BY DEF Ends
    <3> QED  BY <1>6, <1>8, <3>1 DEF IInv, FilesOK
  <2> QED  BY <1>3, <2>1, <2>2 DEF IInv, FilesOK
<1>12. \A q \in Procs \ {c}, h \in Fds : Untouched(q, h)
  <2> SUFFICES ASSUME NEW q \in Procs \ {c}, NEW h \in Fds PROVE Untouched(q, h)  OBVIOUS
  <2>1. filp'[q][h] = filp[q][h]  BY <1>1, <1>3 DEF TypeOK
  <2>2. filp[q][h] # 0 => filp[q][h] \in Files  BY <1>1 DEF TypeOK
  <2> QED  BY <1>6, <2>1, <2>2 DEF Untouched
<1>13. \A h \in Fds : filp'[c][h] = filp[p][h] /\ coe'[c] = coe[p] /\ pc'[c] = "user"
  BY <1>1, <1>3 DEF TypeOK
<1>14. FdsOK'
  <2>1. \A h \in Fds : ~Unopened(p, h)  BY <1>1 DEF IInv, FdsOK
  <2>2. \A h \in Fds : ~Unopened(c, h)'
    <3> SUFFICES ASSUME NEW h \in Fds PROVE ~Unopened(c, h)'  OBVIOUS
    <3>1. Untouched(p, h)  BY <1>1, <1>12
    <3>2. ~Unopened(p, h)'  BY <2>1, <3>1, UntouchedIs
    <3> QED  BY <1>13, <3>1, <3>2 DEF Unopened, Mode, Untouched
  <2>3. \A h \in Fds : h \in coe'[c] => filp'[c][h] # 0  BY <1>13 DEF IInv, FdsOK
  <2>4. \A b \in Fds, q \in Procs \ {c}, h \in Fds :
           Unopened(q, h) => filp'[c][b] # filp[q][h]
    <3> SUFFICES ASSUME NEW b \in Fds, NEW q \in Procs \ {c}, NEW h \in Fds, Unopened(q, h)
                 PROVE  filp'[c][b] # filp[q][h]
      OBVIOUS
    <3>1. q # p  BY <2>1
    <3> QED  BY <1>13, <3>1 DEF IInv, FdsOK
  <2>5. \A q \in Procs \ {c} : coe'[q] = coe[q] /\ pc'[q] = pc[q]
    BY <1>1, <1>3 DEF TypeOK
  <2>6. PICK P : P = {c}  OBVIOUS
  <2>7. pc'[c] \notin {"unused", "opening"}  BY <1>1, <1>3 DEF TypeOK
  <2> QED  BY <1>12, <2>2, <2>3, <2>4, <2>5, <2>6, <2>7, FdsKept
<1>15. CallsOK'
  <2>1. CallOK(c) /\ asleep[c] \in Sleeps  BY <1>1, TypeIs DEF IInv, CallsOK
  <2>2. asleep[c] = "no"  BY <1>1, <2>1 DEF CallOK, Sleeps
  <2>3. pc'[c] = "user"  BY <1>1, <1>3 DEF TypeOK
  <2>4. CallOK(c)'  BY <1>3, <2>2, <2>3 DEF CallOK
  <2>5. Others(c)  BY <1>1, <1>3 DEF Others, TypeOK
  <2> QED  BY <1>12, <2>4, <2>5, CallsKept DEF IInv
<1>16. EndsCopied(p, c)
  <2>1. \A q \in Procs \ {c}, h \in Fds : Mode(q, h)' = Mode(q, h)  BY <1>12, UntouchedIs
  <2>2. \A h \in Fds : Mode(c, h) = "none"  BY <1>4 DEF Mode
  <2>3. \A h \in Fds : Mode(c, h)' = Mode(p, h)'  BY <1>1, <1>3, <1>13 DEF Mode
  <2> QED  BY <1>1, <2>1, <2>2, <2>3 DEF EndsCopied, Has
<1> QED  BY <1>7, <1>9, <1>11, <1>14, <1>15, <1>16 DEF IInv

----------------------------------------------------------------------------
LEMMA InitIInv == Init => IInv
<1> SUFFICES ASSUME Init PROVE IInv  OBVIOUS
<1> USE DEF Init
<1>1. 0 \in Offsets /\ 0 \in Bytes  BY Sizes DEF Offsets, Bytes
<1>2. pc \in [Procs -> {"user", "unused"}]  OBVIOUS
<1>3. TypeOK
  <2>1. pipe \in [count : 0..2, head : Offsets, tail : Offsets, page : [Offsets -> Bytes]]
    BY <1>1 DEF NoPipe
  <2>2. loc \in [Procs -> Locs]  BY NoLocIs
  <2>3. file \in [Files -> [count : Nat, mode : {"none", "read", "write", "file"}]]
    BY DEF NoFile
  <2> QED  BY <1>1, <1>2, <2>1, <2>2, <2>3 DEF TypeOK, Locs
<1>4. Ends = {}  BY DEF Ends, NoFile
<1>5. CountsExact
  <2>1. \A f \in Files : file[f].count = UsersIn(filp, f)
    <3> SUFFICES ASSUME NEW f \in Files PROVE file[f].count = UsersIn(filp, f)  OBVIOUS
    <3>1. UsingIn(filp, f) = {}  BY FdsFinite DEF UsingIn
    <3> QED  BY <3>1, FS_EmptySet DEF UsersIn, NoFile
  <2>2. pipe.count = Cardinality(Ends)  BY <1>4, FS_EmptySet DEF NoPipe
  <2> QED  BY <2>1, <2>2, CountsIs
<1>6. FilesOK  BY <1>4 DEF FilesOK, NoPipe
<1>7. FdsOK  BY <1>2 DEF FdsOK, Unopened
<1>8. CallsOK  BY <1>2 DEF CallsOK, CallOK
<1> QED  BY <1>3, <1>5, <1>6, <1>7, <1>8 DEF IInv

LEMMA NextIInv == IInv /\ [Next]_vars => IInv'
<1> SUFFICES ASSUME IInv, [Next]_vars PROVE IInv'  OBVIOUS
<1>1. CASE UNCHANGED vars
  BY <1>1 DEF vars, tables, IInv, TypeOK, CountsExact, Using, FilesOK, Ends, FdsOK, Unopened,
              Mode, CallsOK, CallOK, Has
<1>2. CASE Next
  <2>1. PICK p \in Procs :
        \/ Pipe(p) \/ Open(p) \/ Opened(p) \/ Close(p) \/ Dup(p) \/ SetFd(p)
        \/ Exec(p) \/ Exit(p) \/ CloseNext(p) \/ ClosedAll(p) \/ Signal(p)
        \/ Read(p) \/ ReadEmpty(p) \/ Take(p) \/ TakeLate(p)
        \/ Write(p) \/ WriteFull(p) \/ Put(p) \/ PutLate(p)
        \/ \E c \in Procs : Fork(p, c)
    BY <1>2 DEF Next
  <2> QED  BY <2>1, KeptPipe, KeptOpen, KeptOpened, KeptClose, KeptDup, KeptSetFd, KeptEnter,
              KeptCloseNext, KeptClosedAll, KeptSignal, KeptReadEmpty, KeptTake, KeptTakeLate,
              KeptWriteFull, KeptPut, KeptPutLate, KeptFork
<1> QED  BY <1>1, <1>2

\* f_count is the number of descriptors of each file, and i_count the number of ends of
\* the pipe in use, whatever processes open, duplicate, inherit, close on exec or leave
\* to exit (open.c:276-313, 326-346, fcntl.c:21-62, fork.c:178, exec.c:561, pipe.c:106-156).
THEOREM CountsKept == Spec => []Counted
<1>1. IInv => Counted  BY DEF IInv, Counted
<1> QED  BY InitIInv, NextIInv, <1>1, PTL DEF Spec

----------------------------------------------------------------------------
(* Nobody waits in vain                                                    *)

InCopy == {"copyout", "copyin"}
LEMMA CopyingIs == \A q \in Procs : q \in Copying <=> pc[q] \in InCopy
BY DEF Copying, InCopy

LEMMA HasEnd ==
    ASSUME IInv, NEW p \in Procs, NEW m \in {"read", "write"}, Has(p, m)
    PROVE  /\ pipe.count # 0
           /\ \E d \in Fds : filp[p][d] \in Ends /\ file[filp[p][d]].mode = m
<1>1. TypeOK  BY DEF IInv
<1>2. PICK d \in Fds : Mode(p, d) = m  BY DEF Has
<1>3. filp[p][d] \in Files /\ file[filp[p][d]].mode = m
  BY <1>1, <1>2 DEF Mode, TypeOK
<1>4. filp[p][d] \in Ends  BY <1>3 DEF Ends
<1>5. Cardinality(Ends) # 0
  <2>1. Ends # {}  BY <1>4
  <2> QED  BY <1>1, <2>1, FilesIs, FS_EmptySet
<1> QED  BY <1>3, <1>4, <1>5, CountsIs DEF IInv

\* What is proved of each step.
Keeps == SInv' /\ (NoCopy /\ CInv => CInv')

\* A step of a process that is not in the middle of a call, and leaves the pipe alone.
Calm ==
    /\ cpu # NoProc => pc[cpu] \notin {"read", "write"}
    /\ UNCHANGED pipe
    /\ \A q \in Procs : asleep'[q] \in {"no", asleep[q]}
    /\ \A q \in Procs : pc[q] \in InCopy \/ pc'[q] \in InCopy => pc'[q] = pc[q] /\ loc'[q] = loc[q]
\* Who has the processor then.
Leaves ==
    \/ cpu' = NoProc
    \/ /\ cpu' \in Procs /\ asleep'[cpu'] = "no"
       /\ \/ pc'[cpu'] \in {"exec", "exit"}
          \/ pc'[cpu'] \in {"read", "write"} /\ (NoCopy => Copying = {})

LEMMA CalmKeeps ==
    ASSUME IInv, SInv, Calm, Leaves
    PROVE  Keeps
<1>1. TypeOK  BY DEF IInv
<1>2. Copying' = Copying  BY DEF Calm, Copying, InCopy
<1>3. (PIPE_SIZE)' = PIPE_SIZE  BY DEF Calm, PIPE_SIZE
<1>4. SInv'
  <2>1. ASSUME NEW l \in {"read", "write"}, NEW copy \in InCopy, Within(l, copy)
        PROVE  Within(l, copy)'
    <3>1. PICK q \in Procs : pc[q] = copy \/ (cpu = q /\ pc[q] = l)  BY <2>1 DEF Within
    <3>2. pc[q] = copy
      <4>1. cpu = q => cpu # NoProc  BY ProcsAssumption
      <4> QED  BY <3>1, <4>1 DEF Calm
    <3>3. pc'[q] = copy  BY <3>2 DEF Calm
    <3> QED  BY <3>3 DEF Within
  <2>2. Within("write", "copyin") => Within("write", "copyin")'  BY <2>1 DEF InCopy
  <2>3. Within("read", "copyout") => Within("read", "copyout")'  BY <2>1 DEF InCopy
  <2>4. \A e : Reason(e)' = Reason(e)  BY <1>3 DEF Calm, Reason
  <2>5. \A q \in Procs : asleep'[q] \in {"no", asleep[q]}  BY DEF Calm
  <2>6. SleepersOK'  BY <2>2, <2>3, <2>4, <2>5 DEF SInv, SleepersOK
  <2>7. CpuOK'  BY ProcsAssumption DEF Leaves, CpuOK
  <2> QED  BY <2>6, <2>7 DEF SInv
<1>5. ASSUME NoCopy, CInv PROVE CInv'
  <2>1. Alone'
    <3>1. \A p, q \in Copying' : p = q  BY <1>2, <1>5 DEF CInv, Alone
    <3> QED  BY <1>2, <1>5, <3>1, ProcsAssumption DEF Leaves, Alone
  <2>2. \A p \in Procs : Copies(p)'
    <3> SUFFICES ASSUME NEW p \in Procs PROVE Copies(p)'  OBVIOUS
    <3>1. Copies(p)  BY <1>5 DEF CInv
    <3>2. CASE pc'[p] \in InCopy
      <4>1. pc'[p] = pc[p] /\ loc'[p] = loc[p] /\ pipe' = pipe  BY <3>2 DEF Calm
      <4> QED  BY <1>3, <3>1, <4>1 DEF Copies, Dist
    <3>3. CASE pc'[p] \notin InCopy  BY <3>3 DEF Copies, InCopy
    <3> QED  BY <3>2, <3>3
  <2> QED  BY <2>1, <2>2 DEF CInv
<1> QED  BY <1>4, <1>5 DEF Keeps

\* The processor is free when a process leaves its program.
LEMMA UserFree ==
    ASSUME SInv, NEW p \in Procs, cpu \in {p, NoProc},
           pc[p] \notin {"read", "write", "exec", "exit"}
    PROVE  cpu = NoProc
BY ProcsAssumption DEF SInv, CpuOK

LEMMA StepsCalm ==
    ASSUME IInv, SInv, NEW p \in Procs,
           \/ Open(p) \/ Opened(p) \/ Dup(p) \/ SetFd(p) \/ Exec(p) \/ Exit(p) \/ ClosedAll(p)
           \/ Signal(p) \/ Read(p) \/ Write(p)
    PROVE  Calm /\ Leaves
<1>1. TypeOK  BY DEF IInv
<1>2. pc \in [Procs -> Places] /\ loc \in [Procs -> Locs] /\ asleep \in [Procs -> Sleeps]
  BY <1>1, TypeIs
<1>3. CASE Dup(p) \/ SetFd(p)
  <2>1. cpu \in {p, NoProc} /\ pc[p] = "user" /\ UNCHANGED <<cpu, pc, loc, pipe, asleep>>
    BY <1>3 DEF Dup, SetFd, InUser, At, Same
  <2>2. cpu = NoProc  BY <2>1, UserFree
  <2> QED  BY <2>1, <2>2 DEF Calm, Leaves
<1>4. CASE Signal(p)
  <2>1. cpu = NoProc /\ UNCHANGED <<cpu, pc, loc, pipe>>
        /\ \A q \in Procs : asleep'[q] \in {"no", asleep[q]}
    BY <1>2, <1>4 DEF Signal, Same
  <2> QED  BY <2>1 DEF Calm, Leaves
<1>5. CASE Open(p) \/ Opened(p) \/ ClosedAll(p)
  <2>1. /\ cpu \in {p, NoProc} /\ pc[p] \in {"user", "opening", "exec", "exit"}
        /\ UNCHANGED <<pipe, asleep>> /\ cpu' = NoProc
    BY <1>5 DEF Open, Opened, ClosedAll, InUser, At, Leave, Return
  <2>2. PICK l \in {"opening", "user", "unused"}, r \in {NoLoc} :
          pc' = [pc EXCEPT ![p] = l] /\ loc' = [loc EXCEPT ![p] = r]
    BY <1>5 DEF Open, Opened, ClosedAll, Leave, Return
  <2>3. \A q \in Procs : pc[q] \in InCopy \/ pc'[q] \in InCopy => pc'[q] = pc[q] /\ loc'[q] = loc[q]
    BY <1>2, <2>1, <2>2 DEF InCopy
  <2>4. cpu # NoProc => pc[cpu] \notin {"read", "write"}  BY <2>1
  <2> QED  BY <2>1, <2>3, <2>4 DEF Calm, Leaves
<1>6. CASE Exec(p) \/ Exit(p) \/ Read(p) \/ Write(p)
  <2>1. /\ cpu \in {p, NoProc} /\ pc[p] = "user" /\ asleep[p] = "no"
        /\ UNCHANGED <<pipe, asleep>> /\ cpu' = p
        /\ NoCopy /\ (Read(p) \/ Write(p)) => Copying = {}
    BY <1>6 DEF Exec, Exit, Read, Write, AtPipe, InUser, At, Goto, NoCopy
  <2>2. PICK l, r : /\ pc' = [pc EXCEPT ![p] = l] /\ loc' = [loc EXCEPT ![p] = r]
                    /\ l \in {"exec", "exit"} \/ (l \in {"read", "write"} /\ (NoCopy => Copying = {}))
    BY <1>6, <2>1 DEF Exec, Exit, Read, Write, Goto
  <2>3. \A q \in Procs : pc[q] \in InCopy \/ pc'[q] \in InCopy => pc'[q] = pc[q] /\ loc'[q] = loc[q]
    BY <1>2, <2>1, <2>2 DEF InCopy
  <2>4. cpu # NoProc => pc[cpu] \notin {"read", "write"}  BY <2>1
  <2>5. Calm  BY <2>1, <2>3, <2>4 DEF Calm
  <2>6. Leaves  BY <1>2, <2>1, <2>2 DEF Leaves
  <2> QED  BY <2>5, <2>6
<1> QED  BY <1>3, <1>4, <1>5, <1>6

LEMMA ForkCalm ==
    ASSUME IInv, SInv, NEW p \in Procs, NEW c \in Procs, Fork(p, c)
    PROVE  Calm /\ Leaves
<1>1. pc \in [Procs -> Places]  BY TypeIs DEF IInv
<1>2. /\ cpu \in {p, NoProc} /\ pc[p] = "user" /\ pc[c] = "unused"
      /\ pc' = [pc EXCEPT ![c] = "user"] /\ UNCHANGED <<cpu, loc, pipe, asleep>>
  BY DEF Fork, InUser, At
<1>3. cpu = NoProc  BY <1>2, UserFree
<1>4. \A q \in Procs : pc[q] \in InCopy \/ pc'[q] \in InCopy => pc'[q] = pc[q] /\ loc'[q] = loc[q]
  BY <1>1, <1>2 DEF InCopy
<1> QED  BY <1>2, <1>3, <1>4 DEF Calm, Leaves

\* There is no pipe: nobody sleeps on it or copies.
LEMMA CalmPipe ==
    ASSUME IInv, SInv, NEW p \in Procs, Pipe(p)
    PROVE  Keeps
<1>1. TypeOK  BY DEF IInv
<1>2. /\ cpu \in {p, NoProc} /\ pc[p] = "user" /\ pipe.count = 0
      /\ UNCHANGED <<cpu, pc, loc, asleep>>
  BY DEF Pipe, InUser, At, Same
<1>3. cpu = NoProc  BY <1>2, UserFree
<1>4. \A q \in Procs : pc[q] \notin {"read", "copyout", "write", "copyin"}
  BY <1>2, HasEnd DEF IInv, CallsOK, CallOK
<1>5. \A q \in Procs : asleep[q] \notin {"read", "write"}
  <2> SUFFICES ASSUME NEW q \in Procs PROVE asleep[q] \notin {"read", "write"}  OBVIOUS
  <2>1. CallOK(q)  BY DEF IInv, CallsOK
  <2> QED  BY <1>4, <2>1 DEF CallOK
<1>6. SInv'  BY <1>2, <1>3, <1>5 DEF SInv, SleepersOK, CpuOK
<1>7. Alone'  BY <1>2, <1>3, <1>4 DEF Alone, Copying
<1>8. (\A q \in Procs : Copies(q))'  BY <1>2, <1>4 DEF Copies
<1> QED  BY <1>6, <1>7, <1>8 DEF Keeps, CInv

\* The last descriptor of the last end is not closed while somebody copies.
LEMMA LastEnd ==
    ASSUME IInv, NEW p \in Procs, NEW d \in Fds, filp[p][d] # 0,
           file[filp[p][d]].count = 1, file[filp[p][d]].mode \in {"read", "write"},
           pipe.count = 1, NEW q \in Procs, NEW m \in {"read", "write"}, Has(q, m)
    PROVE  q = p
<1>1. TypeOK  BY DEF IInv
<1>2. PICK f \in Files : f = filp[p][d]  BY <1>1 DEF TypeOK
<1>3. f \in Ends  BY <1>2 DEF Ends
<1>4. PICK e \in Fds : filp[q][e] \in Ends  BY HasEnd
<1>5. filp[q][e] = f
  <2>1. Cardinality(Ends) = 1 /\ IsFiniteSet(Ends)  BY <1>1, FilesIs, CountsIs DEF IInv
  <2>2. PICK x : Ends = {x}  BY <2>1, FS_Singleton
  <2> QED  BY <1>3, <1>4, <2>2
<1> QED  BY <1>2, <1>5, SoleUser

LEMMA CalmCloseFd ==
    ASSUME IInv, SInv, NEW p \in Procs, NEW d \in Fds, filp[p][d] # 0, CloseFd(p, d),
           pc[p] \in {"user", "exec", "exit"}, cpu \in {p, NoProc},
           UNCHANGED <<pc, loc>>, Leaves
    PROVE  Keeps
<1>1. TypeOK /\ asleep \in [Procs -> Sleeps]  BY TypeIs DEF IInv
<1> DEFINE end == file[filp[p][d]].count = 1 /\ file[filp[p][d]].mode \in {"read", "write"}
<1>2. /\ pipe' = IF ~end THEN pipe ELSE IF pipe.count = 1 THEN NoPipe
                 ELSE [pipe EXCEPT !.count = @ - 1]
      /\ asleep' = IF end THEN Woken({"read", "write"}) ELSE asleep
  BY DEF CloseFd
<1>3. cpu # NoProc => pc[cpu] \notin {"read", "write"}  OBVIOUS
<1>4. CASE ~end
  <2>1. Calm  BY <1>2, <1>3, <1>4 DEF Calm
  <2> QED  BY <2>1, CalmKeeps
<1>5. CASE end
  <2>1. \A q \in Procs : asleep'[q] = "no"
    BY <1>1, <1>2, <1>5, WokenIs DEF Sleeps
  <2>2. SInv'  BY <2>1, ProcsAssumption DEF SInv, SleepersOK, CpuOK, Leaves
  <2>3. \A q \in Procs : pc[q] \in InCopy => pipe'.head = pipe.head /\ pipe'.tail = pipe.tail
    <3> SUFFICES ASSUME NEW q \in Procs, pc[q] \in InCopy
                 PROVE  pipe'.head = pipe.head /\ pipe'.tail = pipe.tail
      OBVIOUS
    <3>1. Has(q, "read") \/ Has(q, "write")  BY DEF IInv, CallsOK, CallOK, InCopy
    <3>2. q # p  BY DEF InCopy
    <3>3. pipe.count # 1  BY <1>5, <3>1, <3>2, LastEnd
    <3>4. pipe' = [pipe EXCEPT !.count = @ - 1]  BY <1>2, <1>5, <3>3
    <3> QED  BY <1>1, <3>4, PipeKept
  <2>4. ASSUME NoCopy, CInv PROVE CInv'
    <3>1. Alone'
      <4>1. Copying' = Copying  BY DEF Copying
      <4>2. \A a, b \in Copying' : a = b  BY <2>4, <4>1 DEF CInv, Alone
      <4> QED  BY <2>4, <4>1, <4>2, ProcsAssumption DEF Leaves, Alone
    <3>2. \A q \in Procs : Copies(q)'
      <4> SUFFICES ASSUME NEW q \in Procs, pc[q] \in InCopy PROVE Copies(q)'
        BY DEF Copies, InCopy
      <4>1. Copies(q)  BY <2>4 DEF CInv
      <4>2. pipe'.head = pipe.head /\ pipe'.tail = pipe.tail  BY <2>3
      <4>3. (PIPE_SIZE)' = PIPE_SIZE  BY <4>2 DEF PIPE_SIZE
      <4> QED  BY <4>1, <4>2, <4>3 DEF Copies, Dist
    <3> QED  BY <3>1, <3>2 DEF CInv
  <2> QED  BY <2>2, <2>4 DEF Keeps
<1> QED  BY <1>4, <1>5

LEMMA CalmClose ==
    ASSUME IInv, SInv, NEW p \in Procs, Close(p) \/ CloseNext(p)
    PROVE  Keeps
<1>1. CASE Close(p)
  <2>1. PICK d \in Fds \ FreeFds(p) : CloseFd(p, d)  BY <1>1 DEF Close
  <2>2. filp[p][d] # 0  BY <2>1 DEF FreeFds
  <2>3. pc[p] = "user" /\ cpu \in {p, NoProc} /\ UNCHANGED <<cpu, pc, loc>>
    BY <1>1 DEF Close, InUser, At, Same
  <2>4. Leaves  BY <2>3, UserFree DEF Leaves
  <2> QED  BY <2>1, <2>2, <2>3, <2>4, CalmCloseFd
<1>2. CASE CloseNext(p)
  <2>1. PICK d : d = Min(Closing(p))  OBVIOUS
  <2>2. /\ pc[p] \in {"exec", "exit"} /\ cpu \in {p, NoProc} /\ Closing(p) # {}
        /\ CloseFd(p, d) /\ cpu' \in {p, NoProc} /\ UNCHANGED <<pc, loc>>
    BY <1>2, <2>1 DEF CloseNext, At
  <2>3. d \in Fds /\ filp[p][d] # 0  BY <2>1, <2>2, ClosingIs
  <2>4. asleep'[p] = "no"
    <3>1. TypeOK /\ asleep[p] = "no"  BY <1>2 DEF IInv, CloseNext, At
    <3> QED  BY <2>2, <3>1, WokenIs DEF CloseFd
  <2>5. Leaves  BY <2>2, <2>4 DEF Leaves
  <2> QED  BY <2>2, <2>3, <2>5, CalmCloseFd
<1> QED  BY <1>1, <1>2

\* A round of read_pipe() or write_pipe(): it leaves whoever sleeps on the same end with
\* the reason he has, or wakes the sleepers of the other end.
EndsOf == {<<"read", "copyout", "write">>, <<"write", "copyin", "read">>}
Round(p, e, c, o) ==
    /\ cpu \in {p, NoProc} /\ pc[p] \in {e, c} /\ asleep[p] = "no"
    /\ NoCopy /\ pc[p] = e => Copying = {}
    /\ Reason(e) => Reason(e)'
    /\ \/ GoesOn(p, e) \/ (pc[p] = e /\ Copies1(p, c)) \/ Returns(p, {o})
       \/ pc[p] = e /\ FallsAsleep(p, e, {o}) /\ Reason(e)'

LEMMA RoundIs ==
    ASSUME IInv, NEW p \in Procs, NEW e, NEW c, NEW o, <<e, c, o>> \in EndsOf,
           Round(p, e, c, o)
    PROVE  /\ e \in {"read", "write"} /\ o \in {"read", "write"} /\ e # o /\ c \in InCopy
           /\ e \notin InCopy /\ (e = "read" <=> c = "copyout") /\ (e = "write" <=> o = "read")
           /\ \A q \in Procs \ {p} : pc'[q] = pc[q] /\ loc'[q] = loc[q]
           /\ \/ cpu' = p /\ pc'[p] = e /\ asleep' = asleep
              \/ cpu' = NoProc /\ pc'[p] = c /\ asleep' = asleep
              \/ cpu' = NoProc /\ pc'[p] = "user" /\ asleep' = Woken({o})
              \/ /\ cpu' = NoProc /\ pc'[p] = e /\ Reason(e)'
                 /\ asleep' = [Woken({o}) EXCEPT ![p] = e]
<1>1. pc \in [Procs -> Places] /\ loc \in [Procs -> Locs]  BY TypeIs DEF IInv
<1>2. \A q \in Procs \ {p} : pc'[q] = pc[q] /\ loc'[q] = loc[q]
  BY <1>1 DEF Round, GoesOn, Copies1, Returns, FallsAsleep, Goto, FaultIn, Return, Leave
<1>3. \/ cpu' = p /\ pc'[p] = e /\ asleep' = asleep
      \/ cpu' = NoProc /\ pc'[p] = c /\ asleep' = asleep
      \/ cpu' = NoProc /\ pc'[p] = "user" /\ asleep' = Woken({o})
      \/ /\ cpu' = NoProc /\ pc'[p] = e /\ Reason(e)'
         /\ asleep' = [Woken({o}) EXCEPT ![p] = e]
  BY <1>1 DEF Round, GoesOn, Copies1, Returns, FallsAsleep, Goto, FaultIn, Return, Leave
<1> QED  BY <1>2, <1>3 DEF EndsOf, InCopy

LEMMA RoundSleepers ==
    ASSUME IInv, SInv, NEW p \in Procs, NEW e, NEW c, NEW o, <<e, c, o>> \in EndsOf,
           Round(p, e, c, o)
    PROVE  SInv'
<1>1. /\ e \in {"read", "write"} /\ o \in {"read", "write"} /\ e # o /\ c \in InCopy
      /\ e \notin InCopy /\ (e = "read" <=> c = "copyout") /\ (e = "write" <=> o = "read")
      /\ \A q \in Procs \ {p} : pc'[q] = pc[q] /\ loc'[q] = loc[q]
      /\ \/ cpu' = p /\ pc'[p] = e /\ asleep' = asleep
         \/ cpu' = NoProc /\ pc'[p] = c /\ asleep' = asleep
         \/ cpu' = NoProc /\ pc'[p] = "user" /\ asleep' = Woken({o})
         \/ /\ cpu' = NoProc /\ pc'[p] = e /\ Reason(e)'
            /\ asleep' = [Woken({o}) EXCEPT ![p] = e]
  BY RoundIs
<1>2. TypeOK /\ asleep[p] = "no" /\ cpu \in {p, NoProc} /\ pc[p] \in {e, c}
      /\ (Reason(e) => Reason(e)')
  BY DEF IInv, Round
<1>3. Woken({o}) \in [Procs -> Sleeps]
      /\ \A q \in Procs : Woken({o})[q] = IF asleep[q] = o THEN "no" ELSE asleep[q]
  BY <1>2, WokenIs
<1>4. \A q \in Procs : asleep'[q] = o => Within(e, c)'
  <2> SUFFICES ASSUME NEW q \in Procs, asleep'[q] = o PROVE Within(e, c)'  OBVIOUS
  <2>1. CASE cpu' = p /\ pc'[p] = e  BY <2>1 DEF Within
  <2>2. CASE pc'[p] = c  BY <2>2 DEF Within
  <2>3. CASE asleep' = Woken({o})  BY <1>1, <1>3, <2>3
  <2>4. CASE asleep' = [Woken({o}) EXCEPT ![p] = e]  BY <1>1, <1>3, <2>4
  <2> QED  BY <1>1, <2>1, <2>2, <2>3, <2>4
<1>5. ASSUME NEW l, NEW copy \in InCopy, l # e, copy # c, l \in {"read", "write"},
             Within(l, copy)
      PROVE  Within(l, copy)'
  <2>1. PICK q \in Procs : pc[q] = copy \/ (cpu = q /\ pc[q] = l)  BY <1>5 DEF Within
  <2>2. q # p
    <3>1. l # c /\ copy # e  BY <1>1, <1>5 DEF InCopy
    <3> QED  BY <1>2, <1>5, <2>1, <3>1
  <2>3. pc[q] = copy  BY <1>2, <2>1, <2>2, ProcsAssumption
  <2>4. pc'[q] = copy  BY <1>1, <2>2, <2>3
  <2> QED  BY <2>4 DEF Within
<1>6. \A q \in Procs : asleep'[q] = e => Reason(e)' \/ asleep[q] = e
  <2> SUFFICES ASSUME NEW q \in Procs, asleep'[q] = e, ~Reason(e)' PROVE asleep[q] = e
    OBVIOUS
  <2>1. asleep' = asleep \/ asleep' = Woken({o})  BY <1>1
  <2> QED  BY <1>1, <1>3, <2>1
<1>7. SleepersOK'
  <2>1. CASE e = "read"
    <3>1. o = "write" /\ c = "copyout"  BY <1>1, <2>1
    <3>2. Within("write", "copyin") => Within("write", "copyin")'
      BY <1>5, <2>1, <3>1 DEF InCopy
    <3>3. \A q \in Procs : asleep[q] = "read" => Reason("read") \/ Within("write", "copyin")
      BY DEF SInv, SleepersOK
    <3> QED  BY <1>2, <1>4, <1>6, <2>1, <3>1, <3>2, <3>3 DEF SleepersOK
  <2>2. CASE e = "write"
    <3>1. o = "read" /\ c = "copyin"
      BY <1>1, <2>2 DEF InCopy
    <3>2. Within("read", "copyout") => Within("read", "copyout")'
      BY <1>5, <2>2, <3>1 DEF InCopy
    <3>3. \A q \in Procs : asleep[q] = "write" => Reason("write") \/ Within("read", "copyout")
      BY DEF SInv, SleepersOK
    <3> QED  BY <1>2, <1>4, <1>6, <2>2, <3>1, <3>2, <3>3 DEF SleepersOK
  <2> QED  BY <1>1, <2>1, <2>2
<1>8. CpuOK'  BY <1>1, <1>2, ProcsAssumption DEF CpuOK
<1> QED  BY <1>7, <1>8 DEF SInv

LEMMA RoundKeeps ==
    ASSUME IInv, SInv, NEW p \in Procs, NEW e, NEW c, NEW o, <<e, c, o>> \in EndsOf,
           Round(p, e, c, o), NoCopy /\ CInv => Copies(p)'
    PROVE  Keeps
<1>1. /\ e \in {"read", "write"} /\ c \in InCopy /\ e \notin InCopy
      /\ \A q \in Procs \ {p} : pc'[q] = pc[q] /\ loc'[q] = loc[q]
      /\ \/ cpu' = p /\ pc'[p] = e
         \/ cpu' = NoProc /\ pc'[p] \in {c, "user", e}
  BY RoundIs
<1>2. ASSUME NoCopy, CInv PROVE CInv'
  <2>1. \A q \in Procs \ {p} : pc[q] \notin InCopy
    <3>1. pc[p] = e => Copying = {}  BY <1>2 DEF Round
    <3>2. pc[p] = c => p \in Copying  BY <1>1, CopyingIs
    <3> QED  BY <1>2, <3>1, <3>2, CopyingIs DEF CInv, Alone, Round
  <2>2. Copying' \subseteq {p} /\ (pc'[p] \notin InCopy => Copying' = {})
    BY <1>1, <2>1 DEF Copying, InCopy
  <2>3. Alone'
    <3>1. \A q, r \in Copying' : q = r  BY <2>2
    <3> QED  BY <1>1, <2>2, <3>1 DEF Alone
  <2>4. \A q \in Procs : Copies(q)'
    <3> SUFFICES ASSUME NEW q \in Procs \ {p} PROVE Copies(q)'  BY <1>2
    <3>1. pc'[q] \notin InCopy  BY <1>1, <2>1
    <3> QED  BY <3>1 DEF Copies, InCopy
  <2> QED  BY <2>3, <2>4 DEF CInv
<1> QED  BY <1>2, RoundSleepers DEF Keeps

LEMMA EmptyOrFull ==
    ASSUME IInv, SInv, NEW p \in Procs, ReadEmpty(p) \/ WriteFull(p)
    PROVE  Keeps
<1>1. PICK e, c, o : /\ <<e, c, o>> \in EndsOf
                     /\ ReadEmpty(p) => e = "read" /\ c = "copyout" /\ o = "write"
                     /\ ~ReadEmpty(p) => e = "write" /\ c = "copyin" /\ o = "read"
  BY DEF EndsOf
<1>2. /\ cpu \in {p, NoProc} /\ pc[p] = e /\ asleep[p] = "no"
      /\ NoCopy => Copying = {}
      /\ UNCHANGED tables /\ pipe' = pipe
      /\ Returns(p, {o}) \/ (FallsAsleep(p, e, {o}) /\ pipe.count = 2)
      /\ PIPE_SIZE = (IF e = "read" THEN 0 ELSE Size - 1)
  BY <1>1 DEF ReadEmpty, WriteFull, AtPipe, At, NoCopy, Returns, FallsAsleep
<1>3. Reason(e)' = (pipe.count = 2)
  <2>1. (PIPE_SIZE)' = PIPE_SIZE  BY <1>2 DEF PIPE_SIZE
  <2> QED  BY <1>2, <2>1 DEF Reason
<1>4. Round(p, e, c, o)  BY <1>2, <1>3 DEF Round, Reason
<1>5. Copies(p)'
  <2>1. pc \in [Procs -> Places]  BY TypeIs DEF IInv
  <2>2. pc'[p] \in {"user", e}  BY <1>2, <2>1 DEF Returns, Return, Leave, FallsAsleep
  <2> QED  BY <1>1, <2>2 DEF Copies, EndsOf
<1> QED  BY <1>1, <1>4, <1>5, RoundKeeps

\* The bytes between the two ends, when the tail or the head goes on.
LEMMA TailOn ==
    ASSUME NEW a \in Offsets, NEW b \in Offsets, NEW c \in Nat, b + c <= Size, c <= Dist(a, b)
    PROVE  Dist(a, (b + c) % Size) = Dist(a, b) - c
<1>1. PICK t : t = (b + c) % Size  OBVIOUS
<1>2. t \in Offsets /\ (b + c < Size => t = b + c) /\ (b + c = Size => t = 0)  BY <1>1, OnIs
<1>3. /\ Dist(a, b) \in Offsets /\ (b <= a => Dist(a, b) = a - b)
      /\ (a < b => Dist(a, b) = a - b + Size)
  BY DistIs
<1>4. /\ Dist(a, t) \in Offsets /\ (t <= a => Dist(a, t) = a - t)
      /\ (a < t => Dist(a, t) = a - t + Size)
  BY <1>2, DistIs
<1>5. Dist(a, t) = Dist(a, b) - c  BY <1>2, <1>3, <1>4, Sizes DEF Offsets
<1> QED  BY <1>1, <1>5

LEMMA HeadOn ==
    ASSUME NEW a \in Offsets, NEW b \in Offsets, NEW c \in Nat, a + c <= Size,
           c <= Size - 1 - Dist(a, b)
    PROVE  Dist((a + c) % Size, b) = Dist(a, b) + c
<1>1. PICK t : t = (a + c) % Size  OBVIOUS
<1>2. t \in Offsets /\ (a + c < Size => t = a + c) /\ (a + c = Size => t = 0)  BY <1>1, OnIs
<1>3. /\ Dist(a, b) \in Offsets /\ (b <= a => Dist(a, b) = a - b)
      /\ (a < b => Dist(a, b) = a - b + Size)
  BY DistIs
<1>4. /\ Dist(t, b) \in Offsets /\ (b <= t => Dist(t, b) = t - b)
      /\ (t < b => Dist(t, b) = t - b + Size)
  BY <1>2, DistIs
<1>5. Dist(t, b) = Dist(a, b) + c  BY <1>2, <1>3, <1>4, Sizes DEF Offsets
<1> QED  BY <1>1, <1>5

\* Where p is then.
LEMMA RoundTo ==
    ASSUME TypeOK, NEW p \in Procs, NEW e, NEW c,
           GoesOn(p, e) \/ Returns(p, {c})
    PROVE  pc'[p] \in {e, "user"}
<1>1. pc \in [Procs -> Places]  BY TypeIs
<1> QED  BY <1>1 DEF GoesOn, Returns, Return, Leave, Goto

\* The bytes of a copy that sleeps.
IsLoc(r, left, from, chars) ==
    /\ r = [NoLoc EXCEPT !.left = left, !.from = from, !.chars = chars]
    /\ r.from = from /\ r.chars = chars
LEMMA LocOf ==
    ASSUME NEW left \in 0..MaxCount, NEW from \in Offsets, NEW chars \in 0..Size
    PROVE  \E r \in Locs : IsLoc(r, left, from, chars)
<1>1. PICK s \in Locs : s = NoLoc  BY NoLocIs
<1>2. PICK r : r = [s EXCEPT !.left = left, !.from = from, !.chars = chars]  OBVIOUS
<1>3. r \in Locs /\ r.from = from /\ r.chars = chars  BY <1>2 DEF Locs
<1>4. r = [NoLoc EXCEPT !.left = left, !.from = from, !.chars = chars]  BY <1>1, <1>2
<1>5. IsLoc(r, left, from, chars)  BY <1>3, <1>4 DEF IsLoc
<1> QED  BY <1>3, <1>5

LEMMA TakeKeeps == ASSUME IInv, SInv, NEW p \in Procs, Take(p) PROVE Keeps
<1>1. TypeOK /\ cpu \in {p, NoProc} /\ pc[p] = "read" /\ asleep[p] = "no" /\ PIPE_SIZE > 0
      /\ (NoCopy => Copying = {})
  BY DEF IInv, Take, AtPipe, At, NoCopy
<1>2. PICK chars \in 1..Size, left \in 0..MaxCount :
             /\ chars = Min({Size - pipe.tail, loc[p].left, PIPE_SIZE})
             /\ left = loc[p].left - chars
             /\ pipe.tail + chars <= Size /\ chars <= PIPE_SIZE
  BY TakeIs
<1>2a. PICK r \in Locs : IsLoc(r, left, pipe.tail, chars)
  <2>1. pipe.tail \in Offsets /\ chars \in 0..Size  BY <1>1, <1>2, TypeIs, Sizes
  <2> QED  BY <2>1, LocOf
<1>3. /\ r = [NoLoc EXCEPT !.left = left, !.from = pipe.tail, !.chars = chars]
      /\ r.from = pipe.tail /\ r.chars = chars
  BY <1>2a DEF IsLoc
<1>4. /\ pipe' = [pipe EXCEPT !.tail = (@ + chars) % Size]
      /\ UNCHANGED tables
      /\ \/ CopyOut(p, pipe.tail, chars, left)
         \/ FaultIn(p, "copyout", r) /\ UNCHANGED <<asleep, signal>>
  BY <1>2, <1>3 DEF Take
<1>5. GoesOn(p, "read") \/ Returns(p, {"write"})
      \/ (Copies1(p, "copyout") /\ FaultIn(p, "copyout", r))
  BY <1>3, <1>4, CopyOutEnds DEF Copies1
<1>6. pipe'.head = pipe.head /\ pipe'.tail = (pipe.tail + chars) % Size
      /\ pipe'.count = pipe.count
  BY <1>1, <1>4, PipeKept
<1>7. (PIPE_SIZE)' = Dist(pipe.head, (pipe.tail + chars) % Size)
  BY <1>6 DEF PIPE_SIZE, Dist
<1>8. (PIPE_SIZE)' = PIPE_SIZE - chars
  BY <1>1, <1>2, <1>7, TypeIs, TailOn, Sizes
<1>9. <<"read", "copyout", "write">> \in EndsOf  BY DEF EndsOf
<1>10. Round(p, "read", "copyout", "write")
  <2>1. ~Reason("read")  BY <1>1, TypeIs, Sizes DEF Reason, Offsets
  <2> QED  BY <1>1, <1>5, <2>1 DEF Round
<1>11. Copies(p)'
  <2>1. CASE FaultIn(p, "copyout", r)
    <3>1. pc'[p] = "copyout" /\ loc'[p] = r
      BY <1>1, <2>1, TypeIs DEF FaultIn
    <3>2. PIPE_SIZE = Dist(pipe.head, pipe.tail) /\ PIPE_SIZE \in Offsets  BY <1>1, TypeIs
    <3>3. Dist(pipe.head, r.from) = chars + (PIPE_SIZE)'
      BY <1>2, <1>3, <1>8, <3>2, Sizes DEF Offsets
    <3>4. (Dist(pipe.head, loc[p].from))' = Dist(pipe.head, r.from)
      BY <1>6, <3>1 DEF Dist
    <3> QED  BY <1>2, <1>3, <1>6, <3>1, <3>3, <3>4, Sizes DEF Copies
  <2>2. CASE GoesOn(p, "read") \/ Returns(p, {"write"})
    BY <1>1, <2>2, RoundTo DEF Copies
  <2> QED  BY <1>5, <2>1, <2>2
<1> QED  BY <1>9, <1>10, <1>11, RoundKeeps

LEMMA TakeLateKeeps == ASSUME IInv, SInv, NEW p \in Procs, TakeLate(p) PROVE Keeps
<1>1. TypeOK /\ cpu \in {p, NoProc} /\ pc[p] = "copyout" /\ asleep[p] = "no"
  BY DEF IInv, TakeLate, At
<1>2. loc[p].left \in 0..MaxCount
  <2>1. loc[p] \in Locs  BY <1>1, TypeIs
  <2> QED  BY <2>1 DEF Locs
<1>3. CopyOut(p, loc[p].from, loc[p].chars, loc[p].left) /\ UNCHANGED <<tables, pipe, next>>
  BY DEF TakeLate
<1>4. GoesOn(p, "read") \/ Returns(p, {"write"})  BY <1>2, <1>3, CopyOutEnds
<1>5. <<"read", "copyout", "write">> \in EndsOf  BY DEF EndsOf
<1>6. Round(p, "read", "copyout", "write")
  <2>1. Reason("read")' = Reason("read")  BY <1>3 DEF Reason, PIPE_SIZE
  <2> QED  BY <1>1, <1>4, <2>1 DEF Round
<1>7. Copies(p)'
  <2>1. pc'[p] \in {"read", "user", "write"}
    <3>1. GoesOn(p, "read") \/ Returns(p, {"write"}) => pc'[p] \in {"read", "user"}
      BY <1>1, RoundTo
    <3> QED  BY <1>4, <3>1
  <2> QED  BY <2>1 DEF Copies
<1> QED  BY <1>5, <1>6, <1>7, RoundKeeps

LEMMA PutKeeps == ASSUME IInv, SInv, NEW p \in Procs, Put(p) PROVE Keeps
<1>1. TypeOK /\ cpu \in {p, NoProc} /\ pc[p] = "write" /\ asleep[p] = "no" /\ PIPE_SIZE < Size - 1
      /\ (NoCopy => Copying = {})
  BY DEF IInv, Put, AtPipe, At, NoCopy
<1>2. PICK chars \in 1..Size, left \in 0..MaxCount :
             /\ chars = Min({Size - pipe.head, loc[p].left, Size - 1 - PIPE_SIZE})
             /\ left = loc[p].left - chars
             /\ pipe.head + chars <= Size /\ chars <= Size - 1 - PIPE_SIZE
  BY PutIs
<1>2a. PICK r \in Locs : IsLoc(r, left, pipe.head, chars)
  <2>1. pipe.head \in Offsets /\ chars \in 0..Size  BY <1>1, <1>2, TypeIs, Sizes
  <2> QED  BY <2>1, LocOf
<1>3. /\ r = [NoLoc EXCEPT !.left = left, !.from = pipe.head, !.chars = chars]
      /\ r.from = pipe.head /\ r.chars = chars
  BY <1>2a DEF IsLoc
<1>4. PICK head : head = (pipe.head + chars) % Size  OBVIOUS
<1>5. /\ UNCHANGED tables
      /\ \/ CopyIn(p, pipe.head, chars, left, head)
         \/ /\ pipe' = [pipe EXCEPT !.head = head]
            /\ FaultIn(p, "copyin", r) /\ UNCHANGED <<asleep, signal>>
  BY <1>2, <1>3, <1>4 DEF Put
<1>6. head \in Offsets /\ chars \in 0..Size /\ pipe.head \in Offsets
  BY <1>1, <1>2, <1>4, TypeIs, OnIs, Sizes
<1>7. GoesOn(p, "write") \/ Returns(p, {"read"})
      \/ (Copies1(p, "copyin") /\ FaultIn(p, "copyin", r))
  BY <1>1, <1>3, <1>5, <1>6, CopyInEnds DEF Copies1
<1>8. pipe'.head = head /\ pipe'.tail = pipe.tail /\ pipe'.count = pipe.count
  <2>1. CASE CopyIn(p, pipe.head, chars, left, head)
    <3>1. PICK g : pipe' = [pipe EXCEPT !.head = head, !.page = g]  BY <2>1 DEF CopyIn
    <3> QED  BY <1>1, <3>1, PipeKept
  <2>2. CASE pipe' = [pipe EXCEPT !.head = head]  BY <1>1, <2>2, PipeKept
  <2> QED  BY <1>5, <2>1, <2>2
<1>9. (PIPE_SIZE)' = Dist((pipe.head + chars) % Size, pipe.tail)
  BY <1>4, <1>8 DEF PIPE_SIZE, Dist
<1>10. (PIPE_SIZE)' = PIPE_SIZE + chars
  BY <1>1, <1>2, <1>9, TypeIs, HeadOn, Sizes
<1>11. <<"write", "copyin", "read">> \in EndsOf  BY DEF EndsOf
<1>12. Round(p, "write", "copyin", "read")
  <2>1. ~Reason("write")  BY <1>1, TypeIs, Sizes DEF Reason, Offsets
  <2> QED  BY <1>1, <1>7, <2>1 DEF Round
<1>13. Copies(p)'
  <2>1. CASE FaultIn(p, "copyin", r)
    <3>1. pc'[p] = "copyin" /\ loc'[p] = r
      BY <1>1, <2>1, TypeIs DEF FaultIn
    <3>2. PIPE_SIZE = Dist(pipe.head, pipe.tail)  BY <1>1, TypeIs
    <3>3. (PIPE_SIZE)' = Dist(r.from, pipe.tail) + chars  BY <1>3, <1>10, <3>2
    <3>4. (Dist(loc[p].from, pipe.tail))' = Dist(r.from, pipe.tail)
      BY <1>8, <3>1 DEF Dist
    <3> QED  BY <1>2, <1>3, <1>4, <1>8, <3>1, <3>3, <3>4, Sizes DEF Copies
  <2>2. CASE GoesOn(p, "write") \/ Returns(p, {"read"})
    BY <1>1, <2>2, RoundTo DEF Copies
  <2> QED  BY <1>7, <2>1, <2>2
<1> QED  BY <1>11, <1>12, <1>13, RoundKeeps

LEMMA PutLateKeeps == ASSUME IInv, SInv, NEW p \in Procs, PutLate(p) PROVE Keeps
<1>1. TypeOK /\ cpu \in {p, NoProc} /\ pc[p] = "copyin" /\ asleep[p] = "no"
  BY DEF IInv, PutLate, At
<1>2. loc[p].left \in 0..MaxCount /\ loc[p].from \in Offsets /\ loc[p].chars \in 0..Size
  <2>1. loc[p] \in Locs  BY <1>1, TypeIs
  <2> QED  BY <2>1 DEF Locs
<1>3. CopyIn(p, loc[p].from, loc[p].chars, loc[p].left, pipe.head) /\ UNCHANGED tables
  BY DEF PutLate
<1>4. GoesOn(p, "write") \/ Returns(p, {"read"})  BY <1>1, <1>2, <1>3, CopyInEnds, TypeIs
<1>5. <<"write", "copyin", "read">> \in EndsOf  BY DEF EndsOf
<1>6. pipe'.head = pipe.head /\ pipe'.tail = pipe.tail /\ pipe'.count = pipe.count
  <2>1. PICK g : pipe' = [pipe EXCEPT !.head = pipe.head, !.page = g]  BY <1>3 DEF CopyIn
  <2> QED  BY <1>1, <2>1, PipeKept
<1>7. Round(p, "write", "copyin", "read")
  <2>1. Reason("write")' = Reason("write")  BY <1>6 DEF Reason, PIPE_SIZE
  <2> QED  BY <1>1, <1>4, <2>1 DEF Round
<1>8. Copies(p)'
  <2>1. pc'[p] \in {"read", "user", "write"}
    <3>1. GoesOn(p, "write") \/ Returns(p, {"read"}) => pc'[p] \in {"write", "user"}
      BY <1>1, RoundTo
    <3> QED  BY <1>4, <3>1
  <2> QED  BY <2>1 DEF Copies
<1> QED  BY <1>5, <1>7, <1>8, RoundKeeps

LEMMA InitKeeps == Init => SInv /\ CInv
<1> SUFFICES ASSUME Init PROVE SInv /\ CInv  OBVIOUS
<1>1. pc \in [Procs -> {"user", "unused"}] /\ cpu = NoProc
      /\ \A p \in Procs : asleep[p] = "no"
  BY DEF Init
<1>2. SInv  BY <1>1 DEF SInv, SleepersOK, CpuOK
<1>3. Alone  BY <1>1 DEF Alone, Copying
<1>4. \A p \in Procs : Copies(p)  BY <1>1 DEF Copies
<1> QED  BY <1>2, <1>3, <1>4 DEF CInv

LEMMA NextKeeps == IInv /\ SInv /\ [Next]_vars => Keeps
<1> SUFFICES ASSUME IInv, SInv, [Next]_vars PROVE Keeps  OBVIOUS
<1>1. CASE UNCHANGED vars
  BY <1>1 DEF vars, Keeps, SInv, CpuOK, CInv, Alone, Copying, Copies, SleepersOK, Within,
              Reason, PIPE_SIZE, Dist
<1>2. CASE Next
  <2>1. PICK p \in Procs :
        \/ Pipe(p) \/ Open(p) \/ Opened(p) \/ Close(p) \/ Dup(p) \/ SetFd(p)
        \/ Exec(p) \/ Exit(p) \/ CloseNext(p) \/ ClosedAll(p) \/ Signal(p)
        \/ Read(p) \/ ReadEmpty(p) \/ Take(p) \/ TakeLate(p)
        \/ Write(p) \/ WriteFull(p) \/ Put(p) \/ PutLate(p)
        \/ \E c \in Procs : Fork(p, c)
    BY <1>2 DEF Next
  <2> QED  BY <2>1, CalmKeeps, StepsCalm, ForkCalm, CalmPipe, CalmClose, EmptyOrFull, TakeKeeps,
              TakeLateKeeps, PutKeeps, PutLateKeeps
<1> QED  BY <1>1, <1>2

\* A process that sleeps in read_pipe() or write_pipe() has been woken before there are
\* bytes, room, or an end that is closed (pipe.c:29, 56, 72, 98, inode.c:219), also when
\* another process uses the pipe while a copy sleeps.
THEOREM SleepersWoken == Spec => []Waiting
<1>1. SInv => Waiting
  <2> SUFFICES ASSUME SInv, cpu = NoProc, Copying = {}, NEW p \in Procs
               PROVE  /\ asleep[p] = "read"  => PIPE_SIZE = 0 /\ pipe.count = 2
                      /\ asleep[p] = "write" => PIPE_SIZE = Size - 1 /\ pipe.count = 2
    BY DEF Waiting
  <2>1. ~Within("write", "copyin") /\ ~Within("read", "copyout")
    BY ProcsAssumption DEF Within, Copying
  <2> QED  BY <2>1 DEF SInv, SleepersOK, Reason
<1>2. IInv /\ SInv /\ [Next]_vars => SInv'  BY NextKeeps DEF Keeps
<1> QED  BY <1>1, <1>2, InitIInv, NextIInv, InitKeeps, PTL DEF Spec

----------------------------------------------------------------------------
(* The bytes in the pipe                                                   *)

\* The bytes of the page g from b up to a.
SeqFrom(a, b, g) == [i \in 1..Dist(a, b) |-> g[(b + i - 1) % Size]]

LEMMA Place ==
    ASSUME NEW b \in Offsets, NEW i \in 1..Size - 1
    PROVE  /\ (b + i - 1) % Size \in Offsets
           /\ b + i - 1 < Size => (b + i - 1) % Size = b + i - 1
           /\ Size <= b + i - 1 => (b + i - 1) % Size = b + i - 1 - Size
<1>1. Size \in Nat \ {0}  BY Sizes
<1>2. PICK x \in Int : x = b + i - 1  BY <1>1 DEF Offsets
<1>3. 0 <= x /\ x < Size + Size  BY <1>1, <1>2 DEF Offsets
<1>4. x % Size \in 0..Size - 1 /\ (0 <= x /\ x < Size => x % Size = x)
      /\ (Size <= x /\ x < Size + Size => x % Size = x - Size)
  BY <1>1, Modulo
<1>5. (b + i - 1) % Size = x % Size  BY <1>2
<1> QED  BY <1>1, <1>2, <1>3, <1>4, <1>5 DEF Offsets

LEMMA SeqFromIs ==
    ASSUME NEW a \in Offsets, NEW b \in Offsets, NEW g \in [Offsets -> Bytes]
    PROVE  /\ SeqFrom(a, b, g) \in Seq(Bytes)
           /\ Len(SeqFrom(a, b, g)) = Dist(a, b)
           /\ \A i \in 1..Dist(a, b) : SeqFrom(a, b, g)[i] = g[(b + i - 1) % Size]
<1>1. PICK n \in Nat : n = Dist(a, b) /\ n < Size  BY DistNat
<1>2. \A i \in 1..n : g[(b + i - 1) % Size] \in Bytes
  <2> SUFFICES ASSUME NEW i \in 1..n PROVE g[(b + i - 1) % Size] \in Bytes  OBVIOUS
  <2>1. i \in 1..Size - 1  BY <1>1, Sizes
  <2>2. (b + i - 1) % Size \in Offsets  BY <2>1, Place
  <2> QED  BY <2>2
<1>3. SeqFrom(a, b, g) = [i \in 1..n |-> g[(b + i - 1) % Size]]  BY <1>1 DEF SeqFrom
<1>4. SeqFrom(a, b, g) \in [1..n -> Bytes]  BY <1>2, <1>3
<1>5. SeqFrom(a, b, g) \in Seq(Bytes) /\ Len(SeqFrom(a, b, g)) = n  BY <1>4
<1> QED  BY <1>1, <1>3, <1>5

Reads(s, n, b, g) ==
    s \in Seq(Bytes) /\ Len(s) = n /\ \A i \in 1..n : s[i] = g[(b + i - 1) % Size]
LEMMA ReadsIs ==
    ASSUME NEW a \in Offsets, NEW b \in Offsets, NEW g \in [Offsets -> Bytes],
           NEW n, n = Dist(a, b), NEW s, s = SeqFrom(a, b, g)
    PROVE  Reads(s, n, b, g)
BY SeqFromIs DEF Reads

\* The first c bytes, and those that are left.
LEMMA TakenFrom ==
    ASSUME NEW a \in Offsets, NEW b \in Offsets, NEW g \in [Offsets -> Bytes],
           NEW c \in 1..Size, b + c <= Size, c <= Dist(a, b)
    PROVE  /\ c \in 1..Len(SeqFrom(a, b, g)) /\ c \in 1..Size - 1
           /\ SubSeq(SeqFrom(a, b, g), 1, c) = [i \in 1..c |-> g[b + i - 1]]
           /\ SubSeq(SeqFrom(a, b, g), c + 1, Len(SeqFrom(a, b, g)))
              = SeqFrom(a, (b + c) % Size, g)
<1>1. PICK s : s = SeqFrom(a, b, g)  OBVIOUS
<1>2. PICK n \in Nat : n = Dist(a, b) /\ n < Size  BY DistNat
<1>3. s \in Seq(Bytes) /\ Len(s) = n /\ \A i \in 1..n : s[i] = g[(b + i - 1) % Size]
  BY <1>1, <1>2, ReadsIs DEF Reads
<1>4. c \in 1..n /\ c \in 1..Size - 1  BY <1>2, Sizes
<1>5. \A i \in 1..n : s[i] \in Bytes  BY <1>3, ElementOfSeq
<1>6. SubSeq(s, 1, c) = [i \in 1..c |-> g[b + i - 1]]
  <2>1. \A i \in 1..c : s[i] = g[b + i - 1]
    <3> SUFFICES ASSUME NEW i \in 1..c PROVE s[i] = g[b + i - 1]  OBVIOUS
    <3>1. i \in 1..n /\ i \in 1..Size - 1  BY <1>2, <1>4, Sizes
    <3>2. b + i - 1 < Size  BY <1>4, Sizes DEF Offsets
    <3>3. (b + i - 1) % Size = b + i - 1  BY <3>1, <3>2, Place
    <3> QED  BY <1>3, <3>1, <3>3
  <2>2. SubSeq(s, 1, c) \in Seq(Bytes) /\ Len(SubSeq(s, 1, c)) = c
        /\ \A i \in 1..c : SubSeq(s, 1, c)[i] = s[i]
    <3>1. \A i \in 1..c : s[i] \in Bytes  BY <1>4, <1>5
    <3>2. /\ SubSeq(s, 1, c) \in Seq(Bytes)
          /\ Len(SubSeq(s, 1, c)) = IF 1 <= c THEN c - 1 + 1 ELSE 0
          /\ \A i \in 1..c - 1 + 1 : SubSeq(s, 1, c)[i] = s[1 + i - 1]
      BY <1>4, <3>1, SubSeqProperties
    <3>3. c - 1 + 1 = c /\ 1 <= c  BY <1>4
    <3>4. \A i \in 1..c : SubSeq(s, 1, c)[i] = s[1 + i - 1]  BY <3>2, <3>3
    <3>5. ASSUME NEW i \in 1..c PROVE SubSeq(s, 1, c)[i] = s[i]
      <4>1. 1 + i - 1 = i  OBVIOUS
      <4> QED  BY <3>4, <4>1
    <3> QED  BY <3>2, <3>3, <3>5
  <2>3. SubSeq(s, 1, c) = [i \in 1..c |-> SubSeq(s, 1, c)[i]]
    <3>1. DOMAIN SubSeq(s, 1, c) = 1..c /\ SubSeq(s, 1, c) \in [1..c -> Bytes]
      BY <2>2, LenProperties
    <3> QED  BY <3>1
  <2> QED  BY <2>1, <2>2, <2>3
<1>7. SubSeq(s, c + 1, n) = SeqFrom(a, (b + c) % Size, g)
  <2>1. PICK t : t = (b + c) % Size  OBVIOUS
  <2>2. t \in Offsets /\ (b + c < Size => t = b + c) /\ (b + c = Size => t = 0)
    BY <2>1, OnIs, Sizes
  <2>3. Dist(a, t) = n - c  BY <1>2, <2>1, TailOn, Sizes
  <2>4. PICK r : r = SeqFrom(a, t, g)  OBVIOUS
  <2>5. Reads(r, n - c, t, g)  BY <2>2, <2>3, <2>4, ReadsIs
  <2>6. PICK u : u = SubSeq(s, c + 1, n)  OBVIOUS
  <2>7. u \in Seq(Bytes) /\ Len(u) = n - c /\ \A i \in 1..n - c : u[i] = s[c + i]
    <3>1. \A i \in c + 1..n : s[i] \in Bytes  BY <1>4, <1>5
    <3>2. /\ SubSeq(s, c + 1, n) \in Seq(Bytes)
          /\ Len(SubSeq(s, c + 1, n)) = IF c + 1 <= n THEN n - (c + 1) + 1 ELSE 0
          /\ \A i \in 1..n - (c + 1) + 1 : SubSeq(s, c + 1, n)[i] = s[c + 1 + i - 1]
      BY <1>4, <3>1, SubSeqProperties
    <3>3. n - (c + 1) + 1 = n - c /\ (~(c + 1 <= n) => n - c = 0)  BY <1>4
    <3>4. \A i \in 1..n - c : SubSeq(s, c + 1, n)[i] = s[c + 1 + i - 1]  BY <3>2, <3>3
    <3>5. ASSUME NEW i \in 1..n - c PROVE SubSeq(s, c + 1, n)[i] = s[c + i]
      <4>1. c + 1 + i - 1 = c + i  BY <1>4
      <4> QED  BY <3>4, <4>1
    <3> QED  BY <2>6, <3>2, <3>3, <3>5
  <2>8. \A i \in 1..n - c : u[i] = r[i]
    <3> SUFFICES ASSUME NEW i \in 1..n - c PROVE u[i] = r[i]  OBVIOUS
    <3>1. c + i \in 1..n /\ c + i \in 1..Size - 1 /\ i \in 1..Size - 1  BY <1>2, <1>4, Sizes
    <3>2. u[i] = g[(b + (c + i) - 1) % Size]  BY <1>3, <2>7, <3>1
    <3>3. /\ b + (c + i) - 1 < Size => (b + (c + i) - 1) % Size = b + (c + i) - 1
          /\ Size <= b + (c + i) - 1 => (b + (c + i) - 1) % Size = b + (c + i) - 1 - Size
      BY <3>1, Place
    <3>4. t + i - 1 < Size => (t + i - 1) % Size = t + i - 1
      BY <2>2, <3>1, Place
    <3>5. (b + (c + i) - 1) % Size = (t + i - 1) % Size
      <4>1. CASE b + c < Size
        <5>1. t = b + c  BY <2>2, <4>1
        <5> QED  BY <5>1, <1>4, Sizes DEF Offsets
      <4>2. CASE b + c = Size
        <5>1. t = 0 /\ t + i - 1 < Size  BY <2>2, <3>1, <4>2, Sizes
        <5>2. Size <= b + (c + i) - 1 /\ b + (c + i) - 1 - Size = i - 1
          BY <1>4, <4>2, Sizes DEF Offsets
        <5> QED  BY <3>3, <3>4, <5>1, <5>2
      <4> QED  BY <4>1, <4>2, Sizes DEF Offsets
    <3> QED  BY <2>5, <3>2, <3>5 DEF Reads
  <2>9. u = r  BY <2>5, <2>7, <2>8, SeqEqual DEF Reads
  <2> QED  BY <2>1, <2>4, <2>6, <2>9
<1> QED  BY <1>1, <1>3, <1>4, <1>6, <1>7

\* The bytes that are in the pipe, and those that are put behind them.
SameBut(h, g, a, c) == \A o \in Offsets : o \notin a..a + c - 1 => h[o] = g[o]
LEMMA PutBehind ==
    ASSUME NEW a \in Offsets, NEW b \in Offsets, NEW g \in [Offsets -> Bytes],
           NEW h \in [Offsets -> Bytes], NEW c \in 1..Size, a + c <= Size,
           c <= Size - 1 - Dist(a, b),
           SameBut(h, g, a, c)
    PROVE  /\ [i \in 1..c |-> h[a + i - 1]] \in [1..c -> Bytes]
           /\ SeqFrom((a + c) % Size, b, h) = SeqFrom(a, b, g) \o [i \in 1..c |-> h[a + i - 1]]
           /\ Len(SeqFrom(a, b, g)) + c <= Size - 1
<1>1. PICK n \in Nat : n = Dist(a, b) /\ n < Size  BY DistNat
<1>2. /\ a \in Nat /\ b \in Nat /\ a < Size /\ b < Size /\ Size \in Nat
      /\ c \in Nat /\ 1 <= c /\ a + c <= Size /\ n + c <= Size - 1
  BY <1>1, Sizes DEF Offsets
<1>3. (b <= a => n = a - b) /\ (a < b => n = a - b + Size)  BY <1>1, DistIs
<1>4. PICK s : s = SeqFrom(a, b, g)  OBVIOUS
<1>5. s \in Seq(Bytes) /\ Len(s) = n /\ \A i \in 1..n : s[i] = g[(b + i - 1) % Size]
  BY <1>1, <1>4, ReadsIs DEF Reads
<1>6. PICK w : w = [i \in 1..c |-> h[a + i - 1]]  OBVIOUS
<1>7. w \in [1..c -> Bytes]
  <2>1. \A i \in 1..c : h[a + i - 1] \in Bytes
    <3> SUFFICES ASSUME NEW i \in 1..c PROVE h[a + i - 1] \in Bytes  OBVIOUS
    <3>1. a + i - 1 \in Offsets  BY <1>2 DEF Offsets
    <3> QED  BY <3>1
  <2> QED  BY <1>6, <2>1
<1>8. w \in Seq(Bytes) /\ Len(w) = c /\ \A i \in 1..c : w[i] = h[a + i - 1]
  <2>1. c \in Nat  BY <1>2
  <2>2. w \in Seq(Bytes) /\ Len(w) = c  BY <1>7, <2>1
  <2> QED  BY <1>6, <2>2
<1>9. PICK t : t = (a + c) % Size  OBVIOUS
<1>10. t \in Offsets /\ Dist(t, b) = n + c
  <2>1. t \in Offsets  BY <1>2, <1>9, OnIs
  <2>2. Dist(t, b) = n + c  BY <1>1, <1>2, <1>9, HeadOn
  <2> QED  BY <2>1, <2>2
<1>11. PICK r : r = SeqFrom(t, b, h)  OBVIOUS
<1>12. Reads(r, n + c, b, h)  BY <1>10, <1>11, ReadsIs
<1>13. PICK u : u = s \o w  OBVIOUS
<1>14. u \in Seq(Bytes) /\ Len(u) = n + c
       /\ \A i \in 1..n + c : u[i] = IF i <= n THEN s[i] ELSE w[i - n]
  <2>1. /\ s \o w \in Seq(Bytes) /\ Len(s \o w) = Len(s) + Len(w)
        /\ \A i \in 1..Len(s) + Len(w) :
              (s \o w)[i] = IF i <= Len(s) THEN s[i] ELSE w[i - Len(s)]
    BY <1>5, <1>8, ConcatProperties
  <2> QED  BY <1>5, <1>8, <1>13, <2>1
<1>15. ASSUME NEW i \in 1..n + c PROVE r[i] = u[i]
  <2>1. i \in 1..Size - 1 /\ i \in Nat /\ 1 <= i /\ i <= n + c  BY <1>2
  <2>2. PICK x \in Nat : x = (b + i - 1) % Size  BY <2>1, Place DEF Offsets
  <2>3. /\ x \in Offsets
        /\ b + i - 1 < Size => x = b + i - 1
        /\ Size <= b + i - 1 => x = b + i - 1 - Size
    BY <2>1, <2>2, Place
  <2>4. r[i] = h[x]  BY <1>12, <2>2 DEF Reads
  <2>5. CASE i <= n
    <3>1. u[i] = g[x]
      <4>1. i \in 1..n  BY <2>1, <2>5
      <4> QED  BY <1>5, <1>14, <2>2, <2>5, <4>1
    <3>2. x < a \/ a + c <= x
      <4>1. CASE b <= a
        <5>1. b + i - 1 < a  BY <1>2, <1>3, <2>1, <2>5, <4>1
        <5> QED  BY <1>2, <2>1, <2>3, <5>1
      <4>2. CASE a < b
        <5>1. n = a - b + Size  BY <1>3, <4>2
        <5>2. a + c <= b /\ b + i - 1 - Size < a  BY <1>2, <2>1, <2>5, <5>1
        <5> QED  BY <1>2, <2>1, <2>3, <5>2
      <4> QED  BY <1>2, <4>1, <4>2
    <3>3. x \notin a..a + c - 1  BY <1>2, <3>2
    <3> QED  BY <2>3, <2>4, <3>1, <3>3 DEF SameBut
  <2>6. CASE n < i
    <3>1. PICK j \in 1..c : j = i - n  BY <1>2, <2>1, <2>6
    <3>2. u[i] = h[a + j - 1]
      <4>1. u[i] = w[j]  BY <1>14, <2>1, <2>6, <3>1
      <4> QED  BY <1>8, <4>1
    <3>3. x = a + j - 1
      <4>1. CASE b <= a
        <5>1. b + i - 1 = a + j - 1  BY <1>2, <1>3, <2>1, <3>1, <4>1
        <5> QED  BY <1>2, <2>3, <5>1
      <4>2. CASE a < b
        <5>1. b + i - 1 = a + j - 1 + Size  BY <1>2, <1>3, <2>1, <3>1, <4>2
        <5> QED  BY <1>2, <2>3, <5>1
      <4> QED  BY <1>2, <4>1, <4>2
    <3> QED  BY <2>4, <3>2, <3>3
  <2> QED  BY <1>2, <2>1, <2>5, <2>6
<1>16. r = u  BY <1>12, <1>14, <1>15, SeqEqual DEF Reads
<1> QED  BY <1>2, <1>4, <1>5, <1>6, <1>7, <1>9, <1>11, <1>13, <1>16

----------------------------------------------------------------------------
(* What the channel is                                                     *)

LEMMA ContentIs ==
    TypeOK /\ Alone =>
    /\ Copying = {} => Content = SeqFrom(pipe.head, pipe.tail, pipe.page)
    /\ \A p \in Procs :
        /\ pc[p] = "copyout" => Content = SeqFrom(pipe.head, loc[p].from, pipe.page)
        /\ pc[p] = "copyin"  => Content = SeqFrom(loc[p].from, pipe.tail, pipe.page)
<1> SUFFICES ASSUME TypeOK, Alone
             PROVE  /\ Copying = {} => Content = SeqFrom(pipe.head, pipe.tail, pipe.page)
                    /\ \A p \in Procs :
                        /\ pc[p] = "copyout" => Content = SeqFrom(pipe.head, loc[p].from, pipe.page)
                        /\ pc[p] = "copyin"  => Content = SeqFrom(loc[p].from, pipe.tail, pipe.page)
  OBVIOUS
<1>1. ASSUME Copying = {} PROVE Content = SeqFrom(pipe.head, pipe.tail, pipe.page)
  <2>1. Taken = {} /\ Putting = {}  BY <1>1 DEF Copying, Taken, Putting
  <2> QED  BY <2>1 DEF Content, SeqFrom, Dist
<1>2. ASSUME NEW p \in Procs, pc[p] = "copyout"
      PROVE  Content = SeqFrom(pipe.head, loc[p].from, pipe.page)
  <2>1. \A q \in Procs \ {p} : pc[q] \notin InCopy
    BY <1>2 DEF Alone, Copying, InCopy
  <2>2. Taken = {p} /\ Putting = {}  BY <1>2, <2>1 DEF Taken, Putting, InCopy
  <2>3. (CHOOSE q \in Taken : TRUE) = p  BY <2>2
  <2> QED  BY <2>2, <2>3 DEF Content, SeqFrom, Dist
<1>3. ASSUME NEW p \in Procs, pc[p] = "copyin"
      PROVE  Content = SeqFrom(loc[p].from, pipe.tail, pipe.page)
  <2>1. \A q \in Procs \ {p} : pc[q] \notin InCopy
    BY <1>3 DEF Alone, Copying, InCopy
  <2>2. Putting = {p} /\ Taken = {}  BY <1>3, <2>1 DEF Taken, Putting, InCopy
  <2>3. (CHOOSE q \in Putting : TRUE) = p  BY <2>2
  <2> QED  BY <2>2, <2>3 DEF Content, SeqFrom, Dist
<1> QED  BY <1>1, <1>2, <1>3

\* A step that leaves the page and its two ends alone, and whoever copies.
LEMMA ContentSame ==
    ASSUME pipe'.head = pipe.head, pipe'.tail = pipe.tail, pipe'.page = pipe.page,
           \A q \in Procs : pc[q] \in InCopy \/ pc'[q] \in InCopy
                            => pc'[q] = pc[q] /\ loc'[q] = loc[q]
    PROVE  Content' = Content
<1>1. Taken' = Taken /\ Putting' = Putting  BY DEF Taken, Putting, InCopy
<1>2. Taken # {} => (CHOOSE q \in Taken : TRUE) \in Taken  OBVIOUS
<1>3. Putting # {} => (CHOOSE q \in Putting : TRUE) \in Putting  OBVIOUS
<1>4. Taken # {} => loc'[CHOOSE q \in Taken : TRUE] = loc[CHOOSE q \in Taken : TRUE]
  BY <1>2 DEF Taken, InCopy
<1>5. Putting # {} => loc'[CHOOSE q \in Putting : TRUE] = loc[CHOOSE q \in Putting : TRUE]
  BY <1>3 DEF Putting, InCopy
<1> QED  BY <1>1, <1>4, <1>5 DEF Content

LEMMA HavingIs == \A m : Having(m) = {q \in Procs : Has(q, m)}
BY DEF Having, Has

Nobody == Having("read") \cup Having("write") = {}
LEMMA NobodyHas == IInv => /\ Nobody <=> pipe.count = 0
                           /\ pipe.count = 0 => Content = <<>>
<1> SUFFICES ASSUME IInv
             PROVE  /\ Nobody <=> pipe.count = 0
                    /\ pipe.count = 0 => Content = <<>>
  OBVIOUS
<1>1. TypeOK  BY DEF IInv
<1>2. \A q \in Procs, m \in {"read", "write"} : Has(q, m) => pipe.count # 0  BY HasEnd
<1>3. pipe.count = 0 => Nobody  BY <1>2, HavingIs DEF Nobody
<1>4. ASSUME pipe.count # 0 PROVE ~Nobody
  <2>1. Ends # {}  BY <1>1, <1>4, CountsIs, FilesIs, FS_EmptySet DEF IInv
  <2>2. PICK f \in Files : file[f].mode \in {"read", "write"}  BY <2>1 DEF Ends
  <2>3. file[f].count # 0  BY <2>2 DEF IInv, FilesOK, NoFile
  <2>4. UsingIn(filp, f) # {}  BY <2>3, CountsIs, FS_EmptySet DEF IInv, UsersIn
  <2>5. PICK q \in Procs, d \in Fds : filp[q][d] = f  BY <2>4 DEF UsingIn
  <2>6. Mode(q, d) = file[f].mode  BY <2>5, FdsFinite DEF Mode
  <2>7. Has(q, file[f].mode)  BY <2>6 DEF Has
  <2> QED  BY <2>2, <2>7, HavingIs DEF Nobody
<1>5. ASSUME pipe.count = 0 PROVE Content = <<>>
  <2>1. \A q \in Procs : pc[q] \notin InCopy
    BY <1>2, <1>5 DEF IInv, CallsOK, CallOK, InCopy
  <2>2. Copying = {} /\ Taken = {} /\ Putting = {}  BY <2>1 DEF Copying, Taken, Putting, InCopy
  <2>3. (pipe.head - pipe.tail) % Size = 0
    <3>1. PICK h \in Offsets : h = pipe.head /\ h = pipe.tail
      BY <1>1, <1>5, TypeIs DEF IInv, FilesOK
    <3>2. h \in Nat /\ Dist(h, h) = h - h  BY DistIs, Sizes DEF Offsets
    <3>3. Dist(h, h) = 0  BY <3>2
    <3> QED  BY <3>1, <3>3 DEF Dist
  <2> QED  BY <2>2, <2>3 DEF Content
<1> QED  BY <1>3, <1>4, <1>5

\* An end is closed: no process has one.
LEMMA OneEnd ==
    ASSUME IInv, pipe.count # 2, NEW p \in Procs, NEW q \in Procs
    PROVE  ~(Has(p, "read") /\ Has(q, "write"))
<1> SUFFICES ASSUME Has(p, "read"), Has(q, "write") PROVE FALSE  OBVIOUS
<1>1. TypeOK  BY DEF IInv
<1>2. PICK d \in Fds : filp[p][d] \in Ends /\ file[filp[p][d]].mode = "read"  BY HasEnd
<1>3. PICK e \in Fds : filp[q][e] \in Ends /\ file[filp[q][e]].mode = "write"  BY HasEnd
<1>4. filp[p][d] # filp[q][e]  BY <1>2, <1>3
<1>5. pipe.count = Cardinality(Ends) /\ IsFiniteSet(Ends) /\ pipe.count \in 0..2 /\ pipe.count # 0
  BY <1>1, CountsIs, FilesIs, TypeIs, HasEnd DEF IInv
<1>6. Cardinality(Ends) = 1  BY <1>5
<1>7. PICK x : Ends = {x}  BY <1>5, <1>6, FS_Singleton
<1> QED  BY <1>2, <1>3, <1>4, <1>7

----------------------------------------------------------------------------
(* The steps of the channel                                                *)

CNext == C!Next
LEMMA HavingKept ==
    ASSUME EndsKept, NEW m \in {"read", "write"}
    PROVE  Having(m)' = Having(m)
<1>1. Having(m)' = {q \in Procs : Has(q, m)'}  BY DEF Having, Has
<1> QED  BY <1>1, HavingIs DEF EndsKept

LEMMA TablesEnds == ASSUME UNCHANGED tables PROVE EndsKept
BY ModeSame DEF EndsKept

LEMMA Forgets ==
    ASSUME got' = Nothing, Content' = Content, EndsKept
    PROVE  CNext
<1>1. C!Forget  BY HavingKept DEF C!Forget, C!Nothing, Nothing
<1> QED  BY <1>1 DEF CNext, C!Next

LEMMA CalmForgets ==
    ASSUME Calm, got' = Nothing, EndsKept
    PROVE  CNext
<1>1. Content' = Content  BY ContentSame DEF Calm
<1> QED  BY <1>1, Forgets

LEMMA StepsForget ==
    ASSUME IInv, SInv, NEW p \in Procs,
           \/ Open(p) \/ Opened(p) \/ Dup(p) \/ SetFd(p) \/ Exec(p) \/ Exit(p) \/ ClosedAll(p)
           \/ Signal(p) \/ Read(p) \/ Write(p)
    PROVE  CNext
<1>1. Calm  BY StepsCalm
<1>2. EndsKept
  <2>1. CASE Open(p) \/ Opened(p) \/ Dup(p) \/ SetFd(p)
    BY <2>1, KeptOpen, KeptOpened, KeptDup, KeptSetFd
  <2>2. CASE Exec(p) \/ Exit(p) \/ ClosedAll(p) \/ Signal(p) \/ Read(p) \/ Write(p)
    <3>1. UNCHANGED tables  BY <2>2 DEF Exec, Exit, ClosedAll, Signal, Read, Write
    <3> QED  BY <3>1, TablesEnds
  <2> QED  BY <2>1, <2>2
<1>3. got' = Nothing
  BY DEF Open, Opened, Dup, SetFd, Exec, Exit, ClosedAll, Signal, Read, Write
<1> QED  BY <1>1, <1>2, <1>3, CalmForgets

LEMMA PipeCreates ==
    ASSUME IInv, SInv, NEW p \in Procs, Pipe(p), IInv'
    PROVE  CNext
<1>1. TypeOK /\ pipe.count = 0 /\ pipe' = [NoPipe EXCEPT !.count = 2]
      /\ UNCHANGED <<cpu, pc, loc>> /\ got' = Nothing
  BY DEF IInv, Pipe, Same
<1>2. EndsMade(p)  BY KeptPipe
<1>3. \A m \in {"read", "write"} : Having(m) = {} /\ Having(m)' = {p}
  <2> SUFFICES ASSUME NEW m \in {"read", "write"} PROVE Having(m) = {} /\ Having(m)' = {p}
    OBVIOUS
  <2>1. Having(m)' = {q \in Procs : Has(q, m)'}  BY DEF Having, Has
  <2> QED  BY <1>2, <2>1, HavingIs DEF EndsMade
<1>4. Content' = <<>>
  <2>1. \A q \in Procs : pc[q] \notin InCopy
    BY <1>1, HasEnd DEF IInv, CallsOK, CallOK, InCopy
  <2>2. Taken' = {} /\ Putting' = {}  BY <1>1, <2>1 DEF Taken, Putting, InCopy
  <2>3. (pipe'.head - pipe'.tail) % Size = 0
    <3>1. pipe'.head = 0 /\ pipe'.tail = 0  BY <1>1 DEF NoPipe
    <3>2. 0 \in Offsets  BY Sizes DEF Offsets
    <3>3. Dist(0, 0) = 0 - 0  BY <3>2, DistIs
    <3> QED  BY <3>1, <3>3 DEF Dist
  <2> QED  BY <2>2, <2>3 DEF Content
<1>5. C!Create(p)  BY <1>1, <1>3, <1>4 DEF C!Create, C!Nothing, Nothing
<1> QED  BY <1>5 DEF CNext, C!Next

LEMMA ForkInherits ==
    ASSUME IInv, SInv, NEW p \in Procs, NEW c \in Procs, Fork(p, c)
    PROVE  CNext
<1>1. Calm /\ EndsCopied(p, c) /\ got' = Nothing  BY ForkCalm, KeptFork DEF Fork
<1>2. Content' = Content  BY <1>1, ContentSame DEF Calm
<1>3. ASSUME NEW m \in {"read", "write"}
      PROVE  Having(m)' = IF p \in Having(m) THEN Having(m) \cup {c} ELSE Having(m)
  <2>1. Having(m)' = {q \in Procs : Has(q, m)'}  BY DEF Having, Has
  <2> QED  BY <1>1, <2>1, HavingIs DEF EndsCopied
<1>4. C!Inherit(p, c)  BY <1>1, <1>2, <1>3 DEF C!Inherit, C!Nothing, Nothing
<1> QED  BY <1>4 DEF CNext, C!Next

LEMMA CloseLeaves ==
    ASSUME IInv, SInv, NEW p \in Procs, Close(p) \/ CloseNext(p), IInv'
    PROVE  CNext
<1>1. EndsLeft(p)  BY KeptClose, KeptCloseNext
<1>2. PICK d : CloseFd(p, d) /\ UNCHANGED <<pc, loc>>
  BY DEF Close, CloseNext, Same
<1>3. TypeOK /\ got' = Nothing  BY <1>2 DEF IInv, CloseFd
<1>4. ASSUME NEW m \in {"read", "write"}
      PROVE  Having(m)' \in {Having(m), Having(m) \ {p}}
  <2>1. Having(m)' = {q \in Procs : Has(q, m)'}  BY DEF Having, Has
  <2> QED  BY <1>1, <2>1, HavingIs DEF EndsLeft
<1>5. (Having("read") \cup Having("write") = {})' <=> pipe'.count = 0
  <2>1. IInv' => (Nobody' <=> (pipe.count = 0)')  BY NobodyHas, PTL
  <2> QED  BY <2>1 DEF Nobody
<1>6. pipe'.count = 0 => Content' = <<>>
  <2>1. IInv' => ((pipe.count = 0)' => (Content = <<>>)')  BY NobodyHas, PTL
  <2> QED  BY <2>1
<1>7. pipe'.count # 0 => Content' = Content
  <2>1. SUFFICES ASSUME pipe'.count # 0 PROVE Content' = Content  OBVIOUS
  <2>2. pipe' = pipe \/ pipe' = NoPipe \/ pipe' = [pipe EXCEPT !.count = @ - 1]
    BY <1>2 DEF CloseFd
  <2>3. pipe' # NoPipe  BY <2>1 DEF NoPipe
  <2>4. pipe'.head = pipe.head /\ pipe'.tail = pipe.tail /\ pipe'.page = pipe.page
    BY <1>3, <2>2, <2>3, PipeKept
  <2> QED  BY <1>2, <2>4, ContentSame
<1>8. C!Leave(p)  BY <1>3, <1>4, <1>5, <1>6, <1>7 DEF C!Leave, C!Nothing, Nothing
<1> QED  BY <1>8 DEF CNext, C!Next

LEMMA EmptyEnds ==
    ASSUME IInv, NoCopy, CInv, NEW p \in Procs, ReadEmpty(p)
    PROVE  CNext
<1>1. TypeOK /\ pc[p] = "read" /\ Copying = {} /\ PIPE_SIZE = 0 /\ UNCHANGED <<tables, pipe>>
  BY DEF IInv, ReadEmpty, AtPipe, At, NoCopy
<1>2. Content' = Content
  <2>1. \/ pc' = [pc EXCEPT ![p] = "user"] /\ loc' = [loc EXCEPT ![p] = NoLoc]
        \/ UNCHANGED <<pc, loc>>
    BY DEF ReadEmpty, Return, Leave
  <2>2. \A q \in Procs : pc[q] \in InCopy \/ pc'[q] \in InCopy
                         => pc'[q] = pc[q] /\ loc'[q] = loc[q]
    BY <1>1, <2>1, TypeIs DEF InCopy
  <2> QED  BY <1>1, <2>2, ContentSame
<1>3. EndsKept  BY <1>1, TablesEnds
<1>4. CASE got' = Nothing  BY <1>2, <1>3, <1>4, Forgets
<1>5. CASE got' # Nothing
  <2>1. pipe.count # 2 /\ got' = EOF(p)  BY <1>5 DEF ReadEmpty
  <2>2. Has(p, "read")  BY <1>1 DEF IInv, CallsOK, CallOK
  <2>3. p \in Having("read") /\ Having("write") = {}  BY <2>1, <2>2, OneEnd, HavingIs
  <2>4. Content = <<>>
    <3>1. Content = SeqFrom(pipe.head, pipe.tail, pipe.page)  BY <1>1, ContentIs DEF CInv
    <3>2. Dist(pipe.head, pipe.tail) = 0  BY <1>1, TypeIs
    <3> QED  BY <3>1, <3>2 DEF SeqFrom
  <2>5. C!EndOfFile(p)
    BY <1>2, <1>3, <2>1, <2>3, <2>4, HavingKept DEF C!EndOfFile, C!EOF, EOF
  <2> QED  BY <2>5 DEF CNext, C!Next
<1> QED  BY <1>4, <1>5

LEMMA FullBreaks ==
    ASSUME IInv, NEW p \in Procs, WriteFull(p)
    PROVE  CNext
<1>1. TypeOK /\ pc[p] = "write" /\ UNCHANGED <<tables, pipe>>
  BY DEF IInv, WriteFull, AtPipe, At
<1>2. Content' = Content
  <2>1. \/ pc' = [pc EXCEPT ![p] = "user"] /\ loc' = [loc EXCEPT ![p] = NoLoc]
        \/ UNCHANGED <<pc, loc>>
    BY DEF WriteFull, Return, Leave
  <2>2. \A q \in Procs : pc[q] \in InCopy \/ pc'[q] \in InCopy
                         => pc'[q] = pc[q] /\ loc'[q] = loc[q]
    BY <1>1, <2>1, TypeIs DEF InCopy
  <2> QED  BY <1>1, <2>2, ContentSame
<1>3. EndsKept  BY <1>1, TablesEnds
<1>4. CASE pipe.count = 2
  <2>1. got' = Nothing  BY <1>4 DEF WriteFull
  <2> QED  BY <1>2, <1>3, <2>1, Forgets
<1>5. CASE pipe.count # 2
  <2>1. got' = BrokenPipe(p)  BY <1>5 DEF WriteFull
  <2>2. Has(p, "write")  BY <1>1 DEF IInv, CallsOK, CallOK
  <2>3. p \in Having("write") /\ Having("read") = {}  BY <1>5, <2>2, OneEnd, HavingIs
  <2>4. C!Broken(p)
    BY <1>2, <1>3, <2>1, <2>3, HavingKept DEF C!Broken, C!BrokenPipe, BrokenPipe
  <2> QED  BY <2>4 DEF CNext, C!Next
<1> QED  BY <1>4, <1>5

\* What p gets are the first c bytes of those from b on, which leave the channel.
LEMMA Receives ==
    ASSUME NEW p \in Procs, Has(p, "read"), EndsKept,
           NEW a \in Offsets, NEW b \in Offsets, NEW g \in [Offsets -> Bytes],
           NEW c \in 1..Size, b + c <= Size, c <= Dist(a, b),
           Content = SeqFrom(a, b, g), Content' = SeqFrom(a, (b + c) % Size, g),
           got' = Data(p, [i \in 1..c |-> g[b + i - 1]])
    PROVE  CNext
<1>1. /\ c \in 1..Len(Content) /\ c \in 1..Size - 1
      /\ SubSeq(Content, 1, c) = [i \in 1..c |-> g[b + i - 1]]
      /\ SubSeq(Content, c + 1, Len(Content)) = Content'
  <2>1. PICK s : s = SeqFrom(a, b, g)  OBVIOUS
  <2>2. /\ c \in 1..Len(s) /\ c \in 1..Size - 1
        /\ SubSeq(s, 1, c) = [i \in 1..c |-> g[b + i - 1]]
        /\ SubSeq(s, c + 1, Len(s)) = SeqFrom(a, (b + c) % Size, g)
    BY <2>1, TakenFrom
  <2> QED  BY <2>1, <2>2
<1>2. p \in Having("read")  BY HavingIs
<1>3. C!Receive(p, c)  BY <1>1, <1>2, HavingKept DEF C!Receive, C!Data, Data
<1> QED  BY <1>1, <1>3 DEF CNext, C!Next

\* The c bytes from a on enter it.
LEMMA Sends ==
    ASSUME NEW p \in Procs, Has(p, "write"), EndsKept,
           NEW a \in Offsets, NEW b \in Offsets, NEW g \in [Offsets -> Bytes],
           NEW h \in [Offsets -> Bytes],
           NEW c \in 1..Size, a + c <= Size, c <= Size - 1 - Dist(a, b),
           SameBut(h, g, a, c),
           Content = SeqFrom(a, b, g), Content' = SeqFrom((a + c) % Size, b, h),
           got' = Nothing
    PROVE  CNext
<1>1. PICK s : s = [i \in 1..c |-> h[a + i - 1]]  OBVIOUS
<1>2. s \in [1..c -> Bytes] /\ Content' = Content \o s /\ Len(Content) + c <= Size - 1
  <2>1. /\ [i \in 1..c |-> h[a + i - 1]] \in [1..c -> Bytes]
        /\ SeqFrom((a + c) % Size, b, h) = SeqFrom(a, b, g) \o [i \in 1..c |-> h[a + i - 1]]
        /\ Len(SeqFrom(a, b, g)) + c <= Size - 1
    BY PutBehind
  <2> QED  BY <1>1, <2>1
<1>3. c \in 0..Size - 1 /\ Len(s) = c
  <2>1. Len(Content) \in Nat  BY SeqFromIs, DistIs, Sizes DEF Offsets
  <2> QED  BY <1>2, <2>1, Sizes
<1>4. s \in C!BoundedSeq(Bytes, Size - 1)  BY <1>2, <1>3 DEF C!BoundedSeq, C!SeqOf
<1>5. p \in Having("write")  BY HavingIs
<1>6. C!Send(p, s)  BY <1>2, <1>3, <1>5, HavingKept DEF C!Send, C!Nothing, Nothing
<1> QED  BY <1>4, <1>6 DEF CNext, C!Next

LEMMA OthersStay ==
    ASSUME TypeOK, NEW p \in Procs, NEW l, NEW r,
           pc' = [pc EXCEPT ![p] = l], loc' = [loc EXCEPT ![p] = r]
    PROVE  pc'[p] = l /\ loc'[p] = r /\ \A q \in Procs \ {p} : pc'[q] = pc[q] /\ loc'[q] = loc[q]
BY TypeIs

\* The content after a step of the one process that copied or copies now.
LEMMA ContentThen ==
    ASSUME IInv', CInv'
    PROVE  /\ Copying' = {} => Content' = SeqFrom(pipe'.head, pipe'.tail, pipe'.page)
           /\ \A p \in Procs :
               /\ pc'[p] = "copyout" => Content' = SeqFrom(pipe'.head, loc'[p].from, pipe'.page)
               /\ pc'[p] = "copyin"  => Content' = SeqFrom(loc'[p].from, pipe'.tail, pipe'.page)
<1>1. TypeOK' /\ Alone' =>
         /\ (Copying = {})' => (Content = SeqFrom(pipe.head, pipe.tail, pipe.page))'
         /\ (\A p \in Procs :
             /\ pc[p] = "copyout" => Content = SeqFrom(pipe.head, loc[p].from, pipe.page)
             /\ pc[p] = "copyin"  => Content = SeqFrom(loc[p].from, pipe.tail, pipe.page))'
  BY ContentIs, PTL
<1> QED  BY <1>1 DEF IInv, CInv

\* p had, or now has, the pipe for itself, and stops copying.
LEMMA CopyEnds ==
    ASSUME IInv, CInv, NEW p \in Procs, pc[p] \in InCopy \/ Copying = {},
           GoesOn(p, "read") \/ GoesOn(p, "write") \/ Return(p)
    PROVE  Copying' = {}
<1>1. TypeOK  BY DEF IInv
<1>2. pc'[p] \notin InCopy /\ \A q \in Procs \ {p} : pc'[q] = pc[q]
  BY <1>1, TypeIs DEF GoesOn, Goto, Return, Leave, InCopy
<1>3. \A q \in Procs \ {p} : pc[q] \notin InCopy
  BY CopyingIs DEF CInv, Alone
<1> QED  BY <1>2, <1>3 DEF Copying, InCopy

LEMMA TakeReceives ==
    ASSUME IInv, NoCopy, CInv, NEW p \in Procs, Take(p), IInv', CInv'
    PROVE  CNext
<1>1. TypeOK /\ pc[p] = "read" /\ Copying = {} /\ UNCHANGED tables
  BY DEF IInv, Take, AtPipe, At, NoCopy
<1>2. PICK chars \in 1..Size, left \in 0..MaxCount :
             /\ chars = Min({Size - pipe.tail, loc[p].left, PIPE_SIZE})
             /\ left = loc[p].left - chars
             /\ pipe.tail + chars <= Size /\ chars <= PIPE_SIZE
  BY TakeIs
<1>3. PICK r \in Locs : IsLoc(r, left, pipe.tail, chars)
  <2>1. pipe.tail \in Offsets /\ chars \in 0..Size  BY <1>1, <1>2, TypeIs, Sizes
  <2> QED  BY <2>1, LocOf
<1>4. r = [NoLoc EXCEPT !.left = left, !.from = pipe.tail, !.chars = chars]
      /\ r.from = pipe.tail
  BY <1>3 DEF IsLoc
<1>5. /\ pipe' = [pipe EXCEPT !.tail = (@ + chars) % Size]
      /\ \/ CopyOut(p, pipe.tail, chars, left)
         \/ FaultIn(p, "copyout", r) /\ got' = Nothing
  BY <1>2, <1>4 DEF Take
<1>6. pipe'.head = pipe.head /\ pipe'.tail = (pipe.tail + chars) % Size
      /\ pipe'.page = pipe.page
  BY <1>1, <1>5, PipeKept
<1>7. Content = SeqFrom(pipe.head, pipe.tail, pipe.page)  BY <1>1, ContentIs DEF CInv
<1>8. EndsKept /\ Has(p, "read")  BY <1>1, TablesEnds DEF IInv, CallsOK, CallOK
<1>9. CASE CopyOut(p, pipe.tail, chars, left)
  <2>1. Copying' = {}
    <3>1. GoesOn(p, "read") \/ Returns(p, {"write"})  BY <1>9, CopyOutEnds
    <3> QED  BY <1>1, <3>1, CopyEnds DEF Returns
  <2>2. Content' = SeqFrom(pipe.head, (pipe.tail + chars) % Size, pipe.page)
    BY <1>6, <2>1, ContentThen
  <2>3. got' = Data(p, [i \in 1..chars |-> pipe.page[pipe.tail + i - 1]])
    BY <1>9 DEF CopyOut
  <2>4. pipe.head \in Offsets /\ pipe.tail \in Offsets /\ pipe.page \in [Offsets -> Bytes]
        /\ chars <= Dist(pipe.head, pipe.tail)
    BY <1>1, <1>2, TypeIs
  <2> QED  BY <1>2, <1>7, <1>8, <2>2, <2>3, <2>4, Receives
<1>10. CASE FaultIn(p, "copyout", r) /\ got' = Nothing
  <2>1. pc'[p] = "copyout" /\ loc'[p] = r  BY <1>1, <1>10, OthersStay DEF FaultIn
  <2>2. Content' = Content  BY <1>4, <1>6, <1>7, <2>1, ContentThen
  <2> QED  BY <1>8, <1>10, <2>2, Forgets
<1> QED  BY <1>5, <1>9, <1>10

LEMMA TakeLateReceives ==
    ASSUME IInv, NoCopy, CInv, NEW p \in Procs, TakeLate(p), IInv', CInv'
    PROVE  CNext
<1>1. TypeOK /\ pc[p] = "copyout" /\ UNCHANGED <<tables, pipe>>
      /\ CopyOut(p, loc[p].from, loc[p].chars, loc[p].left)
  BY DEF IInv, TakeLate, At
<1>2. PICK from, chars : from = loc[p].from /\ chars = loc[p].chars  OBVIOUS
<1>3. /\ from \in Offsets /\ loc[p].left \in 0..MaxCount
      /\ chars \in 1..Size /\ from + chars <= Size /\ pipe.tail = (from + chars) % Size
      /\ chars <= Dist(pipe.head, from)
  <2>1. loc[p] \in Locs  BY <1>1, TypeIs
  <2>2. from \in Offsets /\ loc[p].left \in 0..MaxCount /\ chars \in 0..Size
    BY <1>2, <2>1 DEF Locs
  <2>3. /\ 0 < chars /\ from + chars <= Size /\ pipe.tail = (from + chars) % Size
        /\ Dist(pipe.head, from) = chars + PIPE_SIZE
    BY <1>1, <1>2 DEF CInv, Copies
  <2>4. PIPE_SIZE \in Nat  BY <1>1, TypeIs, Sizes DEF Offsets
  <2> QED  BY <2>2, <2>3, <2>4, Sizes
<1>4. Content = SeqFrom(pipe.head, from, pipe.page)  BY <1>1, <1>2, ContentIs DEF CInv
<1>5. EndsKept /\ Has(p, "read")  BY <1>1, TablesEnds DEF IInv, CallsOK, CallOK
<1>6. Copying' = {}
  <2>1. GoesOn(p, "read") \/ Returns(p, {"write"})  BY <1>1, <1>3, CopyOutEnds
  <2> QED  BY <1>1, <2>1, CopyEnds DEF Returns, InCopy
<1>7. Content' = SeqFrom(pipe.head, (from + chars) % Size, pipe.page)
  BY <1>1, <1>3, <1>6, ContentThen
<1>8. got' = Data(p, [i \in 1..chars |-> pipe.page[from + i - 1]])
  BY <1>1, <1>2 DEF CopyOut
<1>9. pipe.head \in Offsets /\ pipe.page \in [Offsets -> Bytes]  BY <1>1, TypeIs
<1> QED  BY <1>3, <1>4, <1>5, <1>7, <1>8, <1>9, Receives

\* The page of write_pipe().
PageIn(from, chars) ==
    [o \in Offsets |->
        IF o \in from..from + chars - 1 THEN (next + o - from) % NVals ELSE pipe.page[o]]
LEMMA PutPage ==
    ASSUME TypeOK, NEW p, NEW from \in Offsets, NEW chars \in 1..Size, NEW left, NEW head \in Offsets,
           CopyIn(p, from, chars, left, head)
    PROVE  /\ pipe'.head = head /\ pipe'.tail = pipe.tail /\ got' = Nothing
           /\ pipe'.page \in [Offsets -> Bytes] /\ SameBut(pipe'.page, pipe.page, from, chars)
<1>1. PICK g : g = PageIn(from, chars)  OBVIOUS
<1>2. pipe' = [pipe EXCEPT !.head = head, !.page = g]  BY <1>1 DEF CopyIn, PageIn
<1>3. pipe'.head = head /\ pipe'.tail = pipe.tail /\ pipe'.page = g
  BY <1>2, PipeKept
<1>4. g \in [Offsets -> Bytes]
  <2>1. next \in Int /\ from \in Int /\ Offsets \subseteq Int  BY Sizes DEF TypeOK, Bytes, Offsets
  <2>2. \A o \in Offsets : (next + o - from) % NVals \in Bytes
    BY <2>1, Sizes, Modulo DEF Bytes
  <2>3. pipe.page \in [Offsets -> Bytes]  BY TypeIs
  <2> QED  BY <1>1, <2>2, <2>3 DEF PageIn
<1>5. SameBut(g, pipe.page, from, chars)  BY <1>1 DEF SameBut, PageIn
<1> QED  BY <1>3, <1>4, <1>5 DEF CopyIn

LEMMA PutSends ==
    ASSUME IInv, NoCopy, CInv, NEW p \in Procs, Put(p), IInv', CInv'
    PROVE  CNext
<1>1. TypeOK /\ pc[p] = "write" /\ Copying = {} /\ UNCHANGED tables
  BY DEF IInv, Put, AtPipe, At, NoCopy
<1>2. PICK chars \in 1..Size, left \in 0..MaxCount :
             /\ chars = Min({Size - pipe.head, loc[p].left, Size - 1 - PIPE_SIZE})
             /\ left = loc[p].left - chars
             /\ pipe.head + chars <= Size /\ chars <= Size - 1 - PIPE_SIZE
  BY PutIs
<1>3. PICK r \in Locs : IsLoc(r, left, pipe.head, chars)
  <2>1. pipe.head \in Offsets /\ chars \in 0..Size  BY <1>1, <1>2, TypeIs, Sizes
  <2> QED  BY <2>1, LocOf
<1>4. r = [NoLoc EXCEPT !.left = left, !.from = pipe.head, !.chars = chars]
      /\ r.from = pipe.head
  BY <1>3 DEF IsLoc
<1>5. PICK head : head = (pipe.head + chars) % Size  OBVIOUS
<1>6. \/ CopyIn(p, pipe.head, chars, left, head)
      \/ /\ pipe' = [pipe EXCEPT !.head = head]
         /\ FaultIn(p, "copyin", r) /\ got' = Nothing
  BY <1>2, <1>4, <1>5 DEF Put
<1>7. head \in Offsets /\ pipe.head \in Offsets /\ pipe.tail \in Offsets
      /\ pipe.page \in [Offsets -> Bytes] /\ chars \in 0..Size
      /\ chars <= Size - 1 - Dist(pipe.head, pipe.tail)
  BY <1>1, <1>2, <1>5, TypeIs, OnIs, Sizes
<1>8. Content = SeqFrom(pipe.head, pipe.tail, pipe.page)  BY <1>1, ContentIs DEF CInv
<1>9. EndsKept /\ Has(p, "write")  BY <1>1, TablesEnds DEF IInv, CallsOK, CallOK
<1>10. CASE CopyIn(p, pipe.head, chars, left, head)
  <2>1. Copying' = {}
    <3>1. GoesOn(p, "write") \/ Returns(p, {"read"})  BY <1>1, <1>7, <1>10, CopyInEnds
    <3> QED  BY <1>1, <3>1, CopyEnds DEF Returns
  <2>2. PICK h : h = pipe'.page  OBVIOUS
  <2>3. pipe'.head = head /\ pipe'.tail = pipe.tail /\ got' = Nothing
        /\ h \in [Offsets -> Bytes] /\ SameBut(h, pipe.page, pipe.head, chars)
    BY <1>1, <1>7, <1>10, <2>2, PutPage
  <2>4. Content' = SeqFrom((pipe.head + chars) % Size, pipe.tail, h)
    BY <1>5, <2>1, <2>2, <2>3, ContentThen
  <2> QED  BY <1>2, <1>7, <1>8, <1>9, <2>3, <2>4, Sends
<1>11. CASE pipe' = [pipe EXCEPT !.head = head] /\ FaultIn(p, "copyin", r) /\ got' = Nothing
  <2>1. pc'[p] = "copyin" /\ loc'[p] = r  BY <1>1, <1>11, OthersStay DEF FaultIn
  <2>2. pipe'.tail = pipe.tail /\ pipe'.page = pipe.page  BY <1>1, <1>11, PipeKept
  <2>3. Content' = Content  BY <1>4, <1>8, <2>1, <2>2, ContentThen
  <2> QED  BY <1>9, <1>11, <2>3, Forgets
<1> QED  BY <1>6, <1>10, <1>11

LEMMA PutLateSends ==
    ASSUME IInv, NoCopy, CInv, NEW p \in Procs, PutLate(p), IInv', CInv'
    PROVE  CNext
<1>1. TypeOK /\ pc[p] = "copyin" /\ UNCHANGED tables
      /\ CopyIn(p, loc[p].from, loc[p].chars, loc[p].left, pipe.head)
  BY DEF IInv, PutLate, At
<1>2. PICK from, chars : from = loc[p].from /\ chars = loc[p].chars  OBVIOUS
<1>3. /\ from \in Offsets /\ loc[p].left \in 0..MaxCount
      /\ chars \in 1..Size /\ from + chars <= Size /\ pipe.head = (from + chars) % Size
      /\ chars <= Size - 1 - Dist(from, pipe.tail)
  <2>1. loc[p] \in Locs  BY <1>1, TypeIs
  <2>2. from \in Offsets /\ loc[p].left \in 0..MaxCount /\ chars \in 0..Size
    BY <1>2, <2>1 DEF Locs
  <2>3. /\ 0 < chars /\ from + chars <= Size /\ pipe.head = (from + chars) % Size
        /\ PIPE_SIZE = Dist(from, pipe.tail) + chars
    BY <1>1, <1>2 DEF CInv, Copies
  <2>4. PIPE_SIZE \in 0..Size - 1  BY <1>1, TypeIs DEF Offsets
  <2>5. Dist(from, pipe.tail) \in Offsets  BY <1>1, <2>2, TypeIs, DistIs
  <2> QED  BY <2>2, <2>3, <2>4, <2>5, Sizes DEF Offsets
<1>4. pipe.head \in Offsets /\ pipe.tail \in Offsets /\ pipe.page \in [Offsets -> Bytes]
  BY <1>1, TypeIs
<1>5. Content = SeqFrom(from, pipe.tail, pipe.page)  BY <1>1, <1>2, ContentIs DEF CInv
<1>6. EndsKept /\ Has(p, "write")  BY <1>1, TablesEnds DEF IInv, CallsOK, CallOK
<1>7. Copying' = {}
  <2>1. GoesOn(p, "write") \/ Returns(p, {"read"})
    <3>1. chars \in 0..Size  BY <1>3, Sizes
    <3> QED  BY <1>1, <1>2, <1>3, <1>4, <3>1, CopyInEnds
  <2> QED  BY <1>1, <2>1, CopyEnds DEF Returns, InCopy
<1>8. PICK h : h = pipe'.page  OBVIOUS
<1>9. pipe'.head = pipe.head /\ pipe'.tail = pipe.tail /\ got' = Nothing
      /\ h \in [Offsets -> Bytes] /\ SameBut(h, pipe.page, from, chars)
  BY <1>1, <1>2, <1>3, <1>4, <1>8, PutPage
<1>10. Content' = SeqFrom((from + chars) % Size, pipe.tail, h)
  BY <1>3, <1>7, <1>8, <1>9, ContentThen
<1> QED  BY <1>3, <1>4, <1>5, <1>6, <1>9, <1>10, Sends

LEMMA NextChannel ==
    ASSUME NoCopy, IInv, SInv, CInv, IInv', [Next]_vars
    PROVE  [C!Next]_(C!vars)
<1>1. CInv'  BY NextKeeps DEF Keeps
<1>2. CASE UNCHANGED vars
  BY <1>2 DEF vars, tables, C!vars, Content, Taken, Putting, Having, Mode
<1>3. CASE Next
  <2>1. PICK p \in Procs :
        \/ Pipe(p) \/ Open(p) \/ Opened(p) \/ Close(p) \/ Dup(p) \/ SetFd(p)
        \/ Exec(p) \/ Exit(p) \/ CloseNext(p) \/ ClosedAll(p) \/ Signal(p)
        \/ Read(p) \/ ReadEmpty(p) \/ Take(p) \/ TakeLate(p)
        \/ Write(p) \/ WriteFull(p) \/ Put(p) \/ PutLate(p)
        \/ \E c \in Procs : Fork(p, c)
    BY <1>3 DEF Next
  <2>2. CNext
    BY <1>1, <2>1, PipeCreates, StepsForget, CloseLeaves, EmptyEnds, TakeReceives,
       TakeLateReceives, FullBreaks, PutSends, PutLateSends, ForkInherits
  <2> QED  BY <2>2 DEF CNext
<1> QED  BY <1>2, <1>3

LEMMA InitChannel == Init => C!Init
<1> SUFFICES ASSUME Init PROVE C!Init  OBVIOUS
<1>1. IInv  BY InitIInv
<1>2. pipe.count = 0  BY DEF Init, NoPipe
<1>3. Content = <<>> /\ Having("read") = {} /\ Having("write") = {}
  BY <1>1, <1>2, NobodyHas DEF Nobody
<1> QED  BY <1>3 DEF Init, C!Init, C!Nothing, Nothing

\* The bytes come out of the pipe in the order in which they went in (pipe.c:17, 62), the
\* end of file only when nobody can write any more (pipe.c:30), the broken pipe only when
\* nobody can read (pipe.c:73), as long as no other process uses the pipe while one
\* sleeps in the copy of its bytes.
THEOREM Implements == NoCopy => (Spec => InOrder)
<1>1. CASE NoCopy
  <2>1. IInv /\ SInv /\ CInv /\ [Next]_vars => SInv' /\ CInv'
    BY <1>1, NextKeeps DEF Keeps
  <2>2. IInv /\ IInv' /\ SInv /\ CInv /\ [Next]_vars => [C!Next]_(C!vars)
    BY <1>1, NextChannel
  <2> QED
    BY <2>1, <2>2, InitIInv, NextIInv, InitKeeps, InitChannel, PTL DEF Spec, InOrder, C!Spec
<1>2. CASE ~NoCopy  BY <1>2
<1> QED  BY <1>1, <1>2
=============================================================================
