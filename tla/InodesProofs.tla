----------------------------- MODULE InodesProofs -----------------------------
(***************************************************************************)
(* Proofs about the inode table (module Inodes), for any number of         *)
(* processes, entries, files and blocks.                                   *)
(*                                                                         *)
(* `Inv' is inductive when none of the Risks is taken: what each place in  *)
(* the code knows of its inode (PlaceOK), who must be alone with it        *)
(* (AloneOK), what the entries say of the disk (EntryOK, FileOK), who      *)
(* mounts (SuperOK, MountOK), how i_count is made up (CountExact) and whom *)
(* the blocks belong to (BlocksOK).                                        *)
(*                                                                         *)
(* The second part is about directories and names (module Names), for any  *)
(* number of processes, inodes, names and slots: its invariant NInv says   *)
(* of the table what each of its parts needs of the others (Typed, Tree,   *)
(* Fresh, Exact), where each process can be with which locals (Frame),     *)
(* what it relies on in the table (Place) and what no two do at once       *)
(* (Differ).                                                               *)
(***************************************************************************)
EXTENDS Inodes, FiniteSetsExt, FiniteSetTheorems, SequenceTheorems, WellFoundedInduction,
        NaturalsInduction, TLAPS

Safe == Risks = {}
\* A process has one inode in its hands at most, and one is mounted on.
Enough == Cardinality(Procs) < Cardinality(Inodes)

EntryType == [f : Files \cup {none}, count : Nat, lock : BOOLEAN, dirt : BOOLEAN,
              mount : BOOLEAN, links : Links, zone : Blocks \cup {NoBlock}]
LocType == [f : Files \cup {none}, ino : Inodes \cup {NoInode}, empty : Inodes \cup {NoInode},
            zone : Blocks \cup {NoBlock}, ret : {"user", "held", "put_super"}]

\* Those between iget() and iput(); those that read or write an inode.
UserPCs == {"held", "create", "block", "iput", "iwrite", "truncate", "rsuper", "mounting"}
LockerPCs == {"reading", "iwrite", "syncwrite"}
Read(e) == \E p \in Procs : pc[p] = "reading" /\ loc[p].ino = e
\* An inode that is not being made and has not been unlinked.
Lasting == named \cup {dir, top}
\* In iput() after the last reference: nobody else has the inode.
Frees(p) == pc[p] = "truncate" /\ loc[p].ret = "user"

LocOf(p) ==
    /\ loc[p].empty # NoInode <=> pc[p] = "scan"
    /\ loc[p].ino = NoInode <=> pc[p] \in {"user", "get", "scan", "put_super"}
    /\ loc[p].zone # NoBlock <=> pc[p] = "block"
    /\ loc[p].ret = "put_super" => pc[p] \in {"iput", "iwrite"}
    /\ loc[p].ret = "held" => pc[p] = "truncate"
    /\ pc[p] \in {"get", "scan"} => loc[p].f \in named \cup {top}
    /\ pc[p] = "get" => loc[p].f # top
    /\ pc[p] = "mounting" => cpu = p
LocOK == \A p \in Procs : LocOf(p)

\* An inode is in the table once, what nobody uses can be read again.
EntryOK ==
    /\ \A e \in Inodes :
        /\ tab[e].f = none => ~tab[e].lock /\ ~tab[e].dirt
        /\ tab[e].f # none => tab[e].f \in imap
        /\ tab[e].count = 0 =>
              ~tab[e].lock /\ ~tab[e].dirt /\ tab[e].f \in Lasting \cup {none}
        /\ tab[e].f \in Lasting /\ ~Read(e) => tab[e].links = 1
        /\ tab[e].f # none /\ ~Read(e) /\ ~tab[e].dirt /\ tab[e].links = 1 =>
              disk[tab[e].f] = Stored(e)
    /\ \A d, e \in Inodes : tab[d].f = tab[e].f /\ tab[d].f # none => d = e

FileOK ==
    /\ dir \in named /\ named \subseteq Regular \cup {dir} /\ Lasting \subseteq imap
    /\ \A f \in Lasting : (\A e \in Inodes : tab[e].f = f => Read(e)) => disk[f].links = 1
    /\ \A f \in imap \ Lasting : \E e \in Inodes :
        /\ tab[e].f = f
        /\ tab[e].links = 0 \/ \E p \in Procs : pc[p] = "create" /\ loc[p].ino = e

\* What each place in the code knows of its inode.
PlaceOf(p) ==
    LET e == loc[p].ino IN
    /\ pc[p] \in UserPCs => tab[e].f # none /\ ~Read(e)
    /\ pc[p] = "scan" => tab[loc[p].empty] = [Unused EXCEPT !.count = 1]
    /\ pc[p] \in {"create", "block", "truncate"} => tab[e].f \in Regular
    /\ pc[p] \in {"rsuper", "mounting"} => tab[e].f = dir
    /\ pc[p] = "reading" => tab[e].f \in named \cup {top}
    /\ pc[p] = "create" => tab[e].f \notin named /\ tab[e].links = 1
    /\ Frees(p) => tab[e].count = 1 /\ tab[e].links = 0 /\ ~tab[e].lock
    /\ pc[p] \in LockerPCs => tab[e].lock
PlaceOK == \A p \in Procs : PlaceOf(p)

Apart(p, q) ==
    /\ pc[p] = "scan" /\ pc[q] = "scan" /\ loc[p].empty = loc[q].empty => p = q
    /\ loc[p].ino = loc[q].ino =>
        /\ pc[p] \in LockerPCs /\ pc[q] \in LockerPCs => p = q
        /\ (pc[p] = "create" \/ Frees(p)) /\ pc[q] \in UserPCs => p = q
AloneOK == \A p, q \in Procs : Apart(p, q)

\* The mounted device.
Dropped == \E p \in Procs : pc[p] = "put_super"
Mounted == super.imount # NoInode /\ Unmounting = {}
SuperOK ==
    /\ super.imount # NoInode => super.here /\ ~super.lock
    /\ super.lock => super.here
    /\ Unmounting # {} => super.imount # NoInode
    /\ \A p, q \in Unmounting : p = q
    /\ \A p \in Procs :
        /\ loc[p].ret = "put_super" => loc[p].ino = super.imount
        /\ pc[p] = "rsuper" => super.lock
        /\ pc[p] = "mounting" => super.here /\ ~super.lock
    /\ \A p, q \in Procs : pc[p] = "rsuper" /\ pc[q] = "rsuper" => p = q
MountOK ==
    /\ super.imount # NoInode /\ ~Dropped => tab[super.imount].f = dir /\ ~Read(super.imount)
    /\ \A e \in Inodes : tab[e].mount <=> super.imount = e /\ Unmounting = {}
    /\ Entering # {} => Mounted
    /\ \A e \in Inodes : tab[e].f = top /\ tab[e].count > 0 => Mounted

\* A step of p that takes it to l, with the variables r.
Moves(p, l, r) ==
    /\ pc' = [pc EXCEPT ![p] = l] /\ loc' = [loc EXCEPT ![p] = r] /\ cpu' \in {p, NoProc}

Holder(f, b) == f \in imap /\ Current(f).zone = b
BlocksOK == lost \subseteq zmap /\ \A b \in Blocks :
    /\ \A f, g \in Files : Holder(f, b) /\ Holder(g, b) => f = g
    /\ \A p, q \in Procs : loc[p].zone = b /\ loc[q].zone = b => p = q
    /\ \A f \in Files, p \in Procs : ~(Holder(f, b) /\ loc[p].zone = b)
    /\ b \in zmap \ lost <=> \/ \E f \in Files : Holder(f, b)
                             \/ \E p \in Procs : loc[p].zone = b

Inv == /\ TypeOK /\ LocOK /\ EntryOK /\ FileOK /\ PlaceOK /\ AloneOK
       /\ SuperOK /\ MountOK /\ CountExact /\ BlocksOK /\ ~panicked

----------------------------------------------------------------------------
(* Processes and records.                                                  *)

LEMMA Names ==
    /\ dir # top /\ dir # none /\ top # none /\ Regular \cap {dir, top, none} = {}
    /\ NoInode \notin Inodes /\ NoBlock \notin Blocks /\ NoProc \notin Procs
    /\ Files = Regular \cup {dir, top} /\ none \notin Files
BY FilesAssumption, TableAssumption, BlocksAssumption, ProcsAssumption
   DEF dir, top, none, Files

LEMMA Types ==
    ASSUME TypeOK
    PROVE  /\ cpu \in Procs \cup {NoProc}
           /\ \A e \in Inodes : tab[e] \in EntryType
           /\ \A p \in Procs : loc[p] \in LocType /\ pc[p] \in PCs
           /\ imap \subseteq Files /\ zmap \subseteq Blocks /\ lost \subseteq Blocks
           /\ named \subseteq Files
           /\ super.imount \in Inodes \cup {NoInode}
BY DEF TypeOK, EntryType, LocType

LEMMA Moved ==
    ASSUME TypeOK, NEW p \in Procs, NEW l, NEW r, Moves(p, l, r)
    PROVE  /\ \A q \in Procs : pc'[q] = IF q = p THEN l ELSE pc[q]
           /\ \A q \in Procs : loc'[q] = IF q = p THEN r ELSE loc[q]
           /\ cpu' \in {p, NoProc}
           /\ l \in PCs /\ r \in LocType => /\ pc' \in [Procs -> PCs]
                                            /\ loc' \in [Procs -> LocType]
                                            /\ cpu' \in Procs \cup {NoProc}
BY DEF TypeOK, Moves, LocType

LEMMA LocFields ==
    ASSUME NEW r \in LocType
    PROVE  /\ \A v : /\ [r EXCEPT !.f = v].f = v /\ [r EXCEPT !.f = v].ino = r.ino
                     /\ [r EXCEPT !.f = v].empty = r.empty /\ [r EXCEPT !.f = v].zone = r.zone
                     /\ [r EXCEPT !.f = v].ret = r.ret
                     /\ v \in Files \cup {none} => [r EXCEPT !.f = v] \in LocType
           /\ \A v : /\ [r EXCEPT !.ino = v].f = r.f /\ [r EXCEPT !.ino = v].ino = v
                     /\ [r EXCEPT !.ino = v].empty = r.empty
                     /\ [r EXCEPT !.ino = v].zone = r.zone /\ [r EXCEPT !.ino = v].ret = r.ret
                     /\ v \in Inodes \cup {NoInode} => [r EXCEPT !.ino = v] \in LocType
           /\ \A v : /\ [r EXCEPT !.empty = v].f = r.f /\ [r EXCEPT !.empty = v].ino = r.ino
                     /\ [r EXCEPT !.empty = v].empty = v /\ [r EXCEPT !.empty = v].zone = r.zone
                     /\ [r EXCEPT !.empty = v].ret = r.ret
                     /\ v \in Inodes \cup {NoInode} => [r EXCEPT !.empty = v] \in LocType
           /\ \A v : /\ [r EXCEPT !.zone = v].f = r.f /\ [r EXCEPT !.zone = v].ino = r.ino
                     /\ [r EXCEPT !.zone = v].empty = r.empty
                     /\ [r EXCEPT !.zone = v].zone = v /\ [r EXCEPT !.zone = v].ret = r.ret
                     /\ v \in Blocks \cup {NoBlock} => [r EXCEPT !.zone = v] \in LocType
           /\ \A v : /\ [r EXCEPT !.ret = v].f = r.f /\ [r EXCEPT !.ret = v].ino = r.ino
                     /\ [r EXCEPT !.ret = v].empty = r.empty
                     /\ [r EXCEPT !.ret = v].zone = r.zone /\ [r EXCEPT !.ret = v].ret = v
                     /\ v \in {"user", "held", "put_super"} => [r EXCEPT !.ret = v] \in LocType
BY DEF LocType

LEMMA NoLocFields ==
    /\ NoLoc \in LocType /\ NoLoc.f = none /\ NoLoc.ino = NoInode /\ NoLoc.empty = NoInode
    /\ NoLoc.zone = NoBlock /\ NoLoc.ret = "user"
BY DEF NoLoc, LocType

LEMMA EntryFields ==
    ASSUME NEW r \in EntryType
    PROVE  /\ \A v : LET s == [r EXCEPT !.f = v] IN
                /\ s.f = v /\ s.count = r.count /\ s.lock = r.lock /\ s.dirt = r.dirt
                /\ s.mount = r.mount /\ s.links = r.links /\ s.zone = r.zone
                /\ v \in Files \cup {none} => s \in EntryType
           /\ \A v : LET s == [r EXCEPT !.count = v] IN
                /\ s.f = r.f /\ s.count = v /\ s.lock = r.lock /\ s.dirt = r.dirt
                /\ s.mount = r.mount /\ s.links = r.links /\ s.zone = r.zone
                /\ v \in Nat => s \in EntryType
           /\ \A v : LET s == [r EXCEPT !.links = v] IN
                /\ s.f = r.f /\ s.count = r.count /\ s.lock = r.lock /\ s.dirt = r.dirt
                /\ s.mount = r.mount /\ s.links = v /\ s.zone = r.zone
                /\ v \in Links => s \in EntryType
           /\ \A v : LET s == [r EXCEPT !.zone = v] IN
                /\ s.f = r.f /\ s.count = r.count /\ s.lock = r.lock /\ s.dirt = r.dirt
                /\ s.mount = r.mount /\ s.links = r.links /\ s.zone = v
                /\ v \in Blocks \cup {NoBlock} => s \in EntryType
BY DEF EntryType

LEMMA EntryFlags ==
    ASSUME NEW r \in EntryType
    PROVE  /\ LET s == [r EXCEPT !.lock = TRUE] IN
                /\ s \in EntryType /\ s.f = r.f /\ s.count = r.count /\ s.lock = TRUE
                /\ s.dirt = r.dirt /\ s.mount = r.mount /\ s.links = r.links /\ s.zone = r.zone
           /\ LET s == [r EXCEPT !.lock = FALSE] IN
                /\ s \in EntryType /\ s.f = r.f /\ s.count = r.count /\ s.lock = FALSE
                /\ s.dirt = r.dirt /\ s.mount = r.mount /\ s.links = r.links /\ s.zone = r.zone
           /\ LET s == [r EXCEPT !.dirt = TRUE] IN
                /\ s \in EntryType /\ s.f = r.f /\ s.count = r.count /\ s.lock = r.lock
                /\ s.dirt = TRUE /\ s.mount = r.mount /\ s.links = r.links /\ s.zone = r.zone
           /\ LET s == [r EXCEPT !.dirt = FALSE] IN
                /\ s \in EntryType /\ s.f = r.f /\ s.count = r.count /\ s.lock = r.lock
                /\ s.dirt = FALSE /\ s.mount = r.mount /\ s.links = r.links /\ s.zone = r.zone
           /\ LET s == [r EXCEPT !.mount = TRUE] IN
                /\ s \in EntryType /\ s.f = r.f /\ s.count = r.count /\ s.lock = r.lock
                /\ s.dirt = r.dirt /\ s.mount = TRUE /\ s.links = r.links /\ s.zone = r.zone
           /\ LET s == [r EXCEPT !.mount = FALSE] IN
                /\ s \in EntryType /\ s.f = r.f /\ s.count = r.count /\ s.lock = r.lock
                /\ s.dirt = r.dirt /\ s.mount = FALSE /\ s.links = r.links /\ s.zone = r.zone
BY DEF EntryType

LEMMA UnusedFields ==
    /\ Unused \in EntryType /\ Unused.f = none /\ Unused.count = 0 /\ Unused.lock = FALSE
    /\ Unused.dirt = FALSE /\ Unused.mount = FALSE /\ Unused.links = 0 /\ Unused.zone = NoBlock
BY DEF Unused, EntryType, Links

LEMMA EmptyFields ==
    LET s == [Unused EXCEPT !.count = 1] IN
    /\ s \in EntryType /\ s.f = none /\ s.count = 1 /\ s.lock = FALSE /\ s.dirt = FALSE
    /\ s.mount = FALSE /\ s.links = 0 /\ s.zone = NoBlock
BY UnusedFields, EntryFields

\* Who reads an inode afterwards.
LEMMA ReadAfter ==
    ASSUME TypeOK, NEW p \in Procs, NEW l, NEW r, Moves(p, l, r), NEW e
    PROVE  /\ pc[p] # "reading" /\ l # "reading" => (Read(e)' <=> Read(e))
           /\ Read(e)' => Read(e) \/ (l = "reading" /\ r.ino = e)
           /\ Read(e) => Read(e)' \/ (pc[p] = "reading" /\ loc[p].ino = e)
<1>1. /\ \A q \in Procs : pc'[q] = IF q = p THEN l ELSE pc[q]
      /\ \A q \in Procs : loc'[q] = IF q = p THEN r ELSE loc[q]
  BY Moved
<1> QED  BY <1>1 DEF Read

----------------------------------------------------------------------------
(* Counting references.                                                    *)

Num(b) == IF b THEN 1 ELSE 0
Empty(p, e) == loc[p].empty = e
Counts(p, e) == loc[p].ino = e /\ pc[p] \notin {"sync", "syncwrite"} /\ loc[p].ret # "put_super"
MountRef(e) == super.imount = e /\ ~Dropped

LEMMA OneMember ==
    ASSUME NEW S, NEW T, IsFiniteSet(S), NEW p, S \ {p} = T \ {p}
    PROVE  /\ Cardinality(T) = Cardinality(S) - Num(p \in S) + Num(p \in T)
           /\ Cardinality(S) \in Nat /\ Cardinality(T) \in Nat
<1> DEFINE R == S \ {p}
<1>1. IsFiniteSet(R) /\ Cardinality(R) \in Nat /\ Cardinality(S) \in Nat
  BY FS_Subset, FS_CardinalityType
<1>2. Cardinality(S) = Cardinality(R) + Num(p \in S)
  <2>1. CASE p \in S
    <3>1. Cardinality(R) = Cardinality(S) - 1  BY <2>1, FS_RemoveElement
    <3>2. Num(p \in S) = 1  BY <2>1 DEF Num
    <3> HIDE DEF R
    <3> QED  BY <1>1, <3>1, <3>2
  <2>2. CASE p \notin S
    <3>1. R = S  BY <2>2
    <3>2. Num(p \in S) = 0  BY <2>2 DEF Num
    <3> HIDE DEF R
    <3> QED  BY <1>1, <3>1, <3>2
  <2> QED  BY <2>1, <2>2
<1>3. Cardinality(T) = Cardinality(R) + Num(p \in T)
  <2>1. CASE p \in T
    <3>1. T = R \cup {p} /\ p \notin R  BY <2>1
    <3>2. Cardinality(R \cup {p}) = Cardinality(R) + 1  BY <1>1, <3>1, FS_AddElement
    <3>3. Num(p \in T) = 1  BY <2>1 DEF Num
    <3> HIDE DEF R
    <3> QED  BY <1>1, <3>1, <3>2, <3>3
  <2>2. CASE p \notin T
    <3>1. R = T
      <4>1. R = T \ {p}  OBVIOUS
      <4> QED  BY <2>2, <4>1
    <3>2. Num(p \in T) = 0  BY <2>2 DEF Num
    <3> HIDE DEF R
    <3> QED  BY <1>1, <3>1, <3>2
  <2> QED  BY <2>1, <2>2
<1>4. Num(p \in S) \in {0, 1} /\ Num(p \in T) \in {0, 1}  BY DEF Num
<1> QED  BY <1>1, <1>2, <1>3, <1>4

LEMMA Members ==
    ASSUME NEW S, IsFiniteSet(S)
    PROVE  /\ Cardinality(S) \in Nat
           /\ S # {} => Cardinality(S) >= 1
           /\ \A x, y \in S : x # y => Cardinality(S) >= 2
<1>1. Cardinality(S) \in Nat  BY FS_CardinalityType
<1>2. ASSUME NEW x \in S PROVE Cardinality(S) >= 1
  <2>1. {x} \subseteq S /\ Cardinality({x}) = 1  BY FS_Singleton
  <2>2. Cardinality({x}) <= Cardinality(S)  BY <2>1, FS_Subset
  <2> QED  BY <1>1, <2>1, <2>2
<1>3. ASSUME NEW x \in S, NEW y \in S, x # y PROVE Cardinality(S) >= 2
  <2>1. IsFiniteSet({x}) /\ Cardinality({x}) = 1  BY FS_Singleton
  <2>2. Cardinality({x} \cup {y}) = Cardinality({x}) + 1  BY <1>3, <2>1, FS_AddElement
  <2>3. Cardinality({x} \cup {y}) <= Cardinality(S)  BY FS_Subset
  <2> QED  BY <1>1, <2>1, <2>2, <2>3
<1> QED  BY <1>1, <1>2, <1>3

LEMMA ReferencesAre ==
    ASSUME NEW e
    PROVE  References(e) = Cardinality({q \in Procs : Empty(q, e)})
                           + Cardinality({q \in Procs : Counts(q, e)}) + Num(MountRef(e))
<1>1. {q \in Procs : Empty(q, e)} = {q \in Procs : loc[q].empty = e}  BY DEF Empty
<1>2. {q \in Procs : Counts(q, e)} = {q \in Procs : loc[q].ino = e
          /\ pc[q] \notin {"sync", "syncwrite"} /\ loc[q].ret # "put_super"}
  BY DEF Counts
<1>3. Num(MountRef(e)) = IF super.imount = e /\ \A q \in Procs : pc[q] # "put_super" THEN 1 ELSE 0
  BY DEF Num, MountRef, Dropped
<1> QED  BY <1>1, <1>2, <1>3 DEF References

LEMMA Counted ==
    ASSUME TypeOK, CountExact, NEW e \in Inodes
    PROVE  /\ tab[e].count \in Nat
           /\ \A p \in Procs : Empty(p, e) \/ Counts(p, e) => tab[e].count >= 1
           /\ MountRef(e) => tab[e].count >= 1
           /\ \A p \in Procs : Counts(p, e) /\ MountRef(e) => tab[e].count >= 2
           /\ \A p, q \in Procs : Counts(p, e) /\ Counts(q, e) /\ p # q => tab[e].count >= 2
           /\ \A p, q \in Procs : Empty(p, e) /\ Empty(q, e) /\ p # q => tab[e].count >= 2
<1> DEFINE A == {q \in Procs : Empty(q, e)}
           B == {q \in Procs : Counts(q, e)}
<1>1. tab[e].count = Cardinality(A) + Cardinality(B) + Num(MountRef(e))
  BY ReferencesAre DEF CountExact
<1>2. IsFiniteSet(A) /\ IsFiniteSet(B)  BY ProcsAssumption, FS_Subset
<1>3. Num(MountRef(e)) = (IF MountRef(e) THEN 1 ELSE 0)  BY DEF Num
<1>4. /\ Cardinality(A) \in Nat
      /\ A # {} => Cardinality(A) >= 1
      /\ \A x, y \in A : x # y => Cardinality(A) >= 2
  BY <1>2, Members
<1>5. /\ Cardinality(B) \in Nat
      /\ B # {} => Cardinality(B) >= 1
      /\ \A x, y \in B : x # y => Cardinality(B) >= 2
  BY <1>2, Members
<1>6. /\ \A p \in Procs : Empty(p, e) => p \in A
      /\ \A p \in Procs : Counts(p, e) => p \in B
  OBVIOUS
<1> HIDE DEF A, B
<1>7. tab[e].count \in Nat  BY <1>1, <1>3, <1>4, <1>5
<1>8. ASSUME NEW p \in Procs, Empty(p, e) \/ Counts(p, e) PROVE tab[e].count >= 1
  BY <1>1, <1>3, <1>4, <1>5, <1>6, <1>8
<1>9. MountRef(e) => tab[e].count >= 1  BY <1>1, <1>3, <1>4, <1>5
<1>10. ASSUME NEW p \in Procs, Counts(p, e), MountRef(e) PROVE tab[e].count >= 2
  BY <1>1, <1>3, <1>4, <1>5, <1>6, <1>10
<1>11. ASSUME NEW p \in Procs, NEW q \in Procs, Counts(p, e), Counts(q, e), p # q
       PROVE  tab[e].count >= 2
  BY <1>1, <1>3, <1>4, <1>5, <1>6, <1>11
<1>12. ASSUME NEW p \in Procs, NEW q \in Procs, Empty(p, e), Empty(q, e), p # q
       PROVE  tab[e].count >= 2
  BY <1>1, <1>3, <1>4, <1>5, <1>6, <1>12
<1> QED  BY <1>7, <1>8, <1>9, <1>10, <1>11, <1>12

\* A step of p keeps the books if it adds to i_count what it takes.
LEMMA CountStep ==
    ASSUME TypeOK, CountExact, NEW p \in Procs, NEW l, NEW r, Moves(p, l, r),
           NEW e \in Inodes,
           tab'[e].count = tab[e].count + Num(Empty(p, e))' - Num(Empty(p, e))
                           + Num(Counts(p, e))' - Num(Counts(p, e))
                           + Num(MountRef(e))' - Num(MountRef(e))
    PROVE  tab'[e].count = References(e)'
<1> DEFINE A == {q \in Procs : Empty(q, e)}
           B == {q \in Procs : Counts(q, e)}
<1>1. tab[e].count = Cardinality(A) + Cardinality(B) + Num(MountRef(e))
  BY ReferencesAre DEF CountExact
<1>2. IsFiniteSet(A) /\ IsFiniteSet(B)  BY ProcsAssumption, FS_Subset
<1>3. References(e)' = Cardinality(A') + Cardinality(B') + Num(MountRef(e))'
  <2>1. A' = {q \in Procs : loc'[q].empty = e}  BY DEF Empty
  <2>2. B' = {q \in Procs : loc'[q].ino = e
                /\ pc'[q] \notin {"sync", "syncwrite"} /\ loc'[q].ret # "put_super"}
    BY DEF Counts
  <2>3. Num(MountRef(e))' = IF super'.imount = e /\ \A q \in Procs : pc'[q] # "put_super"
                           THEN 1 ELSE 0
    BY DEF Num, MountRef, Dropped
  <2> QED  BY <2>1, <2>2, <2>3 DEF References
<1>4. /\ \A q \in Procs : q # p => pc'[q] = pc[q] /\ loc'[q] = loc[q]  BY Moved
<1>5. A \ {p} = A' \ {p} /\ B \ {p} = B' \ {p}  BY <1>4 DEF Empty, Counts
<1>6. /\ p \in A <=> Empty(p, e)
      /\ p \in B <=> Counts(p, e)
      /\ p \in A' <=> Empty(p, e)'
      /\ p \in B' <=> Counts(p, e)'
  OBVIOUS
<1>7. /\ Cardinality(A') = Cardinality(A) - Num(p \in A) + Num(p \in A')
      /\ Cardinality(A) \in Nat /\ Cardinality(A') \in Nat
  <2> HIDE DEF A
  <2> QED  BY <1>2, <1>5, OneMember
<1>8. /\ Cardinality(B') = Cardinality(B) - Num(p \in B) + Num(p \in B')
      /\ Cardinality(B) \in Nat /\ Cardinality(B') \in Nat
  <2> HIDE DEF B
  <2> QED  BY <1>2, <1>5, OneMember
<1>9. /\ Num(p \in A) = Num(Empty(p, e)) /\ Num(p \in A') = Num(Empty(p, e))'
      /\ Num(p \in B) = Num(Counts(p, e)) /\ Num(p \in B') = Num(Counts(p, e))'
  <2> HIDE DEF A, B
  <2> QED  BY <1>6 DEF Num
<1>10. /\ Num(Empty(p, e)) \in Int /\ Num(Empty(p, e))' \in Int
       /\ Num(Counts(p, e)) \in Int /\ Num(Counts(p, e))' \in Int
       /\ Num(MountRef(e)) \in Int /\ Num(MountRef(e))' \in Int
  BY DEF Num
<1> HIDE DEF A, B
<1> QED  BY <1>1, <1>3, <1>7, <1>8, <1>9, <1>10

\* The entries of p and of the mount are not enough for a full table.
LEMMA RoomInTable ==
    ASSUME TypeOK, CountExact, LocOK, Enough, NEW p \in Procs, pc[p] = "get"
    PROVE  \E e \in Inodes : tab[e].count = 0
<1> SUFFICES ASSUME \A e \in Inodes : tab[e].count # 0 PROVE FALSE
  OBVIOUS
<1> DEFINE Mine(q) == IF pc[q] = "scan" THEN loc[q].empty ELSE loc[q].ino
           P == Procs \ {p}
           f == [q \in P |-> Mine(q)]
           T == {Mine(q) : q \in P}
<1>1. IsFiniteSet(P) /\ Cardinality(P) = Cardinality(Procs) - 1 /\ Cardinality(Procs) \in Nat
  BY ProcsAssumption, FS_RemoveElement, FS_CardinalityType
<1>2. IsFiniteSet(T) /\ Cardinality(T) <= Cardinality(P)
  <2>1. f \in [P -> T] /\ \A t \in T : \E q \in P : f[q] = t  OBVIOUS
  <2>2. f \in Surjection(P, T)
    <3> HIDE DEF f, T, P
    <3> QED  BY <2>1 DEF Surjection
  <2> HIDE DEF f, T, P
  <2> QED  BY <1>1, <2>2, FS_Surjection
<1>3. Inodes \subseteq T \cup {super.imount}
  <2> SUFFICES ASSUME NEW e \in Inodes, e # super.imount PROVE e \in T
    OBVIOUS
  <2> DEFINE A == {q \in Procs : Empty(q, e)}
             B == {q \in Procs : Counts(q, e)}
  <2>1. tab[e].count = Cardinality(A) + Cardinality(B) + Num(MountRef(e))
    BY ReferencesAre DEF CountExact
  <2>2. Num(MountRef(e)) = 0  BY DEF Num, MountRef
  <2>3. A # {} \/ B # {}
    <3>1. A = {} /\ B = {} => Cardinality(A) = 0 /\ Cardinality(B) = 0  BY FS_EmptySet
    <3> HIDE DEF A, B
    <3> QED  BY <2>1, <2>2, <3>1
  <2>4. e # NoInode  BY TableAssumption
  <2>5. ASSUME NEW q \in A PROVE e \in T
    BY <2>4 DEF Empty, LocOK, LocOf
  <2>6. ASSUME NEW q \in B PROVE e \in T
    BY <2>4 DEF Counts, LocOK, LocOf
  <2> QED  BY <2>3, <2>5, <2>6
<1>4. IsFiniteSet(T \cup {super.imount}) /\ Cardinality(T \cup {super.imount}) <= Cardinality(T) + 1
  <2> HIDE DEF T
  <2>1. Cardinality(T) \in Nat  BY <1>2, FS_CardinalityType
  <2>2. IsFiniteSet(T \cup {super.imount})
        /\ (Cardinality(T \cup {super.imount}) = Cardinality(T)
            \/ Cardinality(T \cup {super.imount}) = Cardinality(T) + 1)
    BY <1>2, FS_AddElement
  <2> QED  BY <2>1, <2>2
<1>5. Cardinality(Inodes) <= Cardinality(T \cup {super.imount}) /\ Cardinality(Inodes) \in Nat
  <2> HIDE DEF T
  <2> QED  BY <1>3, <1>4, FS_Subset, FS_CardinalityType
<1>6. Cardinality(T) \in Nat /\ Cardinality(P) \in Nat /\ Cardinality(T \cup {super.imount}) \in Nat
  BY <1>1, <1>2, <1>4, FS_CardinalityType
<1> HIDE DEF T, P
<1> QED  BY <1>1, <1>2, <1>4, <1>5, <1>6 DEF Enough

----------------------------------------------------------------------------
(* What an inode has now, and who has a block.                             *)

\* The entry has it, unless it is just being read; otherwise the disk has.
Has(e, f) == tab[e].f = f /\ ~Read(e)
HoldersAre == \A f \in Files, b \in Blocks :
    Holder(f, b) <=> /\ f \in imap
                     /\ \/ \E e \in Inodes : Has(e, f) /\ tab[e].zone = b
                        \/ (\A e \in Inodes : ~Has(e, f)) /\ disk[f].zone = b

LEMMA CurrentIs ==
    ASSUME TypeOK, EntryOK, NEW f \in Files
    PROVE  /\ \A e \in Inodes : Has(e, f) => Current(f) = Stored(e)
           /\ (\A e \in Inodes : ~Has(e, f)) => Current(f) = disk[f]
<1>1. \A d, e \in Inodes : tab[d].f = f /\ tab[e].f = f => d = e  BY Names DEF EntryOK
<1>2. ASSUME NEW e \in Inodes, Has(e, f) PROVE Current(f) = Stored(e)
  <2>1. Found(f) = {e}  BY <1>1, <1>2 DEF Found, Has
  <2>2. (CHOOSE d \in Found(f) : TRUE) = e  BY <2>1
  <2> QED  BY <1>2, <2>1, <2>2 DEF Current, Has, Read
<1>3. ASSUME \A e \in Inodes : ~Has(e, f) PROVE Current(f) = disk[f]
  BY <1>3 DEF Current, Has, Read, Found
<1> QED  BY <1>2, <1>3

LEMMA HoldersNow == TypeOK /\ EntryOK => HoldersAre
<1> SUFFICES ASSUME TypeOK, EntryOK, NEW f \in Files, NEW b \in Blocks
             PROVE  Holder(f, b) <=> /\ f \in imap
                     /\ \/ \E e \in Inodes : Has(e, f) /\ tab[e].zone = b
                        \/ (\A e \in Inodes : ~Has(e, f)) /\ disk[f].zone = b
  BY DEF HoldersAre
<1>1. \A d, e \in Inodes : Has(d, f) /\ Has(e, f) => d = e  BY Names DEF EntryOK, Has
<1>2. \A e \in Inodes : Stored(e).zone = tab[e].zone  BY DEF Stored
<1>3. CASE \E e \in Inodes : Has(e, f)  BY <1>1, <1>2, <1>3, CurrentIs DEF Holder
<1>4. CASE \A e \in Inodes : ~Has(e, f)  BY <1>4, CurrentIs DEF Holder
<1> QED  BY <1>3, <1>4

LEMMA HoldersThen == TypeOK' /\ EntryOK' => HoldersAre'
BY HoldersNow, PTL

\* Nothing changes for the blocks.
LEMMA BlocksSame ==
    ASSUME BlocksOK, zmap' = zmap, lost' = lost,
           \A f \in Files, b \in Blocks : Holder(f, b)' <=> Holder(f, b),
           \A q \in Procs : loc'[q].zone = loc[q].zone
    PROVE  BlocksOK'
<1> SUFFICES ASSUME NEW b \in Blocks
             PROVE  /\ \A f, g \in Files : Holder(f, b)' /\ Holder(g, b)' => f = g
                    /\ \A p, q \in Procs : loc'[p].zone = b /\ loc'[q].zone = b => p = q
                    /\ \A f \in Files, p \in Procs : ~(Holder(f, b)' /\ loc'[p].zone = b)
                    /\ b \in zmap' \ lost' <=> (\E f \in Files : Holder(f, b)')
                                       \/ (\E p \in Procs : loc'[p].zone = b)
  BY DEF BlocksOK
<1> QED  BY DEF BlocksOK

LEMMA ZonesSame ==
    ASSUME TypeOK, EntryOK, TypeOK', EntryOK', BlocksOK, imap' = imap, zmap' = zmap,
           lost' = lost,
           \A f \in Files : disk'[f].zone = disk[f].zone,
           \A e \in Inodes : /\ tab'[e].f = tab[e].f /\ tab'[e].zone = tab[e].zone
                             /\ Read(e)' <=> Read(e),
           \A q \in Procs : loc'[q].zone = loc[q].zone
    PROVE  BlocksOK'
<1>1. HoldersAre /\ HoldersAre'  BY HoldersNow, HoldersThen
<1>2. ASSUME NEW f \in Files, NEW b \in Blocks PROVE Holder(f, b)' <=> Holder(f, b)
  <2>1. \A e \in Inodes : Has(e, f)' <=> Has(e, f)  BY DEF Has
  <2>2. Holder(f, b) <=> /\ f \in imap
                         /\ \/ \E e \in Inodes : Has(e, f) /\ tab[e].zone = b
                            \/ (\A e \in Inodes : ~Has(e, f)) /\ disk[f].zone = b
    BY <1>1 DEF HoldersAre
  <2>3. Holder(f, b)' <=> /\ f \in imap'
                          /\ \/ \E e \in Inodes : Has(e, f)' /\ tab'[e].zone = b
                             \/ (\A e \in Inodes : ~Has(e, f)') /\ disk'[f].zone = b
    BY <1>1 DEF HoldersAre
  <2> QED  BY <2>1, <2>2, <2>3
<1> QED  BY <1>2, BlocksSame

----------------------------------------------------------------------------
(* Users of an inode, and steps that leave the table alone.                *)

\* Whoever uses an inode or reads it has one of the references.
Uses(p, e) == pc[p] \in UserPCs \cup {"reading"} /\ loc[p].ino = e

LEMMA UsersCounted ==
    ASSUME TypeOK, LocOK, SuperOK, CountExact, NEW e \in Inodes
    PROVE  /\ \A p \in Procs : Uses(p, e) => tab[e].count >= 1
           /\ \A p, q \in Procs : Uses(p, e) /\ Uses(q, e) /\ p # q => tab[e].count >= 2
           /\ \A p \in Procs : Uses(p, e) /\ loc[p].ret # "put_super" /\ MountRef(e)
                               => tab[e].count >= 2
<1>1. \A p \in Procs : Uses(p, e) => Counts(p, e) \/ (loc[p].ret = "put_super" /\ MountRef(e))
  <2> SUFFICES ASSUME NEW p \in Procs, Uses(p, e), loc[p].ret = "put_super"
               PROVE  MountRef(e)
    BY DEF Uses, Counts, UserPCs
  <2>1. super.imount = e  BY DEF SuperOK, Uses
  <2>2. ASSUME NEW q \in Procs, pc[q] = "put_super" PROVE FALSE
    <3>1. p = q  BY <2>2 DEF SuperOK, Unmounting
    <3> QED  BY <2>2, <3>1 DEF Uses, UserPCs
  <2> QED  BY <2>1, <2>2 DEF MountRef, Dropped
<1>2. \A p, q \in Procs : loc[p].ret = "put_super" /\ loc[q].ret = "put_super" => p = q
  BY DEF SuperOK, Unmounting
<1>3. \A p \in Procs : Uses(p, e) => tab[e].count >= 1  BY <1>1, Counted
<1>4. \A p \in Procs : Uses(p, e) /\ loc[p].ret # "put_super" => Counts(p, e)  BY <1>1
<1>5. ASSUME NEW p \in Procs, NEW q \in Procs, Uses(p, e), Uses(q, e), p # q
      PROVE  tab[e].count >= 2
  <2>1. CASE loc[p].ret = "put_super"
    <3>1. MountRef(e) /\ Counts(q, e)  BY <1>1, <1>2, <1>5, <2>1 DEF Counts
    <3> QED  BY <3>1, Counted
  <2>2. CASE loc[q].ret = "put_super"
    <3>1. MountRef(e) /\ Counts(p, e)  BY <1>1, <1>2, <1>5, <2>2 DEF Counts
    <3> QED  BY <3>1, Counted
  <2>3. CASE loc[p].ret # "put_super" /\ loc[q].ret # "put_super"  BY <1>4, <1>5, <2>3, Counted
  <2> QED  BY <2>1, <2>2, <2>3
<1>6. ASSUME NEW p \in Procs, Uses(p, e), loc[p].ret # "put_super", MountRef(e)
      PROVE  tab[e].count >= 2
  BY <1>4, <1>6, Counted
<1> QED  BY <1>3, <1>5, <1>6

LEMMA LocStep ==
    ASSUME TypeOK, LocOK, NEW p \in Procs, NEW l, NEW r, Moves(p, l, r), cpu \in {p, NoProc},
           \A q \in Procs : q # p /\ pc[q] \in {"get", "scan"} => loc[q].f \in named' \cup {top},
           LocOf(p)'
    PROVE  LocOK'
<1> SUFFICES ASSUME NEW q \in Procs, q # p PROVE LocOf(q)'
  BY DEF LocOK
<1>1. pc'[q] = pc[q] /\ loc'[q] = loc[q] /\ pc[q] # "mounting"  BY Moved, Names DEF LocOK, LocOf
<1> QED  BY <1>1 DEF LocOK, LocOf

LEMMA AloneStep ==
    ASSUME TypeOK, AloneOK, NEW p \in Procs, NEW l, NEW r, Moves(p, l, r),
           \A q \in Procs : q # p => Apart(p, q)' /\ Apart(q, p)'
    PROVE  AloneOK'
<1> SUFFICES ASSUME NEW q \in Procs, NEW s \in Procs PROVE Apart(q, s)'
  BY DEF AloneOK
<1>1. CASE q = s  BY <1>1 DEF Apart
<1>2. CASE q # s /\ p \in {q, s}  BY <1>2
<1>3. CASE p \notin {q, s}
  <2>1. pc'[q] = pc[q] /\ loc'[q] = loc[q] /\ pc'[s] = pc[s] /\ loc'[s] = loc[s]  BY <1>3, Moved
  <2> QED  BY <2>1 DEF AloneOK, Apart, Frees
<1> QED  BY <1>1, <1>2, <1>3

\* What there is to say of p when nobody is with it at its new place.
LEMMA ApartFrom ==
    ASSUME TypeOK, NEW p \in Procs, NEW l, NEW r, Moves(p, l, r),
           NEW q \in Procs, q # p,
           l = "scan" /\ pc[q] = "scan" => r.empty # loc[q].empty,
           r.ino = loc[q].ino =>
                /\ ~(l \in LockerPCs /\ pc[q] \in LockerPCs)
                /\ ~((l = "create" \/ (l = "truncate" /\ r.ret = "user")) /\ pc[q] \in UserPCs)
                /\ ~((pc[q] = "create" \/ Frees(q)) /\ l \in UserPCs)
    PROVE  Apart(p, q)' /\ Apart(q, p)'
<1>1. pc'[q] = pc[q] /\ loc'[q] = loc[q] /\ pc'[p] = l /\ loc'[p] = r  BY Moved
<1> QED  BY <1>1 DEF Apart, Frees

LEMMA CountsStep ==
    ASSUME TypeOK, CountExact, NEW p \in Procs, NEW l, NEW r, Moves(p, l, r),
           \A e \in Inodes :
              tab'[e].count = tab[e].count + Num(Empty(p, e))' - Num(Empty(p, e))
                              + Num(Counts(p, e))' - Num(Counts(p, e))
                              + Num(MountRef(e))' - Num(MountRef(e))
    PROVE  CountExact'
BY CountStep DEF CountExact

LEMMA SuperKept ==
    ASSUME TypeOK, SuperOK, NEW p \in Procs, NEW l, NEW r, Moves(p, l, r), super' = super,
           pc[p] # "put_super", {l, pc[p]} \cap {"rsuper", "mounting"} = {},
           loc[p].ret = "put_super" => l = "put_super" \/ r.ret = "put_super",
           r.ret = "put_super" => loc[p].ret = "put_super" /\ r.ino = loc[p].ino,
           l = "put_super" => loc[p].ret = "put_super"
    PROVE  SuperOK' /\ Unmounting' = Unmounting
<1>1. /\ \A q \in Procs : pc'[q] = IF q = p THEN l ELSE pc[q]
      /\ \A q \in Procs : loc'[q] = IF q = p THEN r ELSE loc[q]
  BY Moved
<1>2. Unmounting' = Unmounting  BY <1>1 DEF Unmounting
<1>3. \A q \in Procs : pc'[q] \in {"rsuper", "mounting"} => pc'[q] = pc[q]  BY <1>1
<1>4. \A q \in Procs : loc'[q].ret = "put_super" => loc'[q].ino = super.imount
  <2>1. \A q \in Procs : loc[q].ret = "put_super" => loc[q].ino = super.imount  BY DEF SuperOK
  <2>2. loc'[p] = r /\ \A q \in Procs : q # p => loc'[q] = loc[q]  BY <1>1
  <2> QED  BY <2>1, <2>2
<1>5. \A q \in Procs : /\ pc'[q] = "rsuper" => super.lock
                       /\ pc'[q] = "mounting" => super.here /\ ~super.lock
  BY <1>3 DEF SuperOK
<1>6. \A q, s \in Procs : pc'[q] = "rsuper" /\ pc'[s] = "rsuper" => q = s  BY <1>3 DEF SuperOK
<1>7. /\ super.imount # NoInode => super.here /\ ~super.lock
      /\ super.lock => super.here
      /\ Unmounting # {} => super.imount # NoInode
      /\ \A q, s \in Unmounting : q = s
  BY DEF SuperOK
<1> QED  BY <1>2, <1>4, <1>5, <1>6, <1>7 DEF SuperOK

LEMMA MountKept ==
    ASSUME TypeOK, MountOK, NEW p \in Procs, NEW l, NEW r, Moves(p, l, r),
           super'.imount = super.imount,
           Unmounting' = Unmounting, pc[p] # "put_super",
           \A e \in Inodes : tab'[e].mount = tab[e].mount,
           super.imount # NoInode /\ ~Dropped =>
               tab'[super.imount].f = tab[super.imount].f /\ ~Read(super.imount)',
           \A e \in Inodes : tab'[e].f = top /\ tab'[e].count > 0 =>
               Mounted \/ (tab[e].f = top /\ tab[e].count > 0),
           l = "scan" /\ r.f = top => Mounted \/ p \in Entering
    PROVE  MountOK'
<1>1. /\ \A q \in Procs : pc'[q] = IF q = p THEN l ELSE pc[q]
      /\ \A q \in Procs : loc'[q] = IF q = p THEN r ELSE loc[q]
  BY Moved
<1>2. Mounted' <=> Mounted  BY DEF Mounted
<1>3. Dropped => Dropped'  BY <1>1 DEF Dropped
<1>4. Entering' # {} => Mounted  BY <1>1 DEF Entering, MountOK
<1>5. \A e \in Inodes : tab'[e].f = top /\ tab'[e].count > 0 => Mounted  BY DEF MountOK
<1>6. super'.imount # NoInode /\ ~Dropped' => tab'[super'.imount].f = dir /\ ~Read(super.imount)'
  BY <1>3 DEF MountOK
<1>7. \A e \in Inodes : tab'[e].mount <=> super'.imount = e /\ Unmounting' = {}  BY DEF MountOK
<1> QED  BY <1>2, <1>4, <1>5, <1>6, <1>7 DEF MountOK

----------------------------------------------------------------------------
LEMMA WaitsKeeps ==
    ASSUME Inv, NEW p \in Procs, Waits(p), pc[p] # "mounting" PROVE Inv'
<1> USE DEF Inv
<1>1. /\ cpu = p /\ cpu' = NoProc /\ tab' = tab /\ disk' = disk /\ imap' = imap
      /\ zmap' = zmap /\ lost' = lost
      /\ named' = named /\ super' = super /\ pc' = pc /\ loc' = loc /\ panicked' = panicked
  BY DEF Waits, bitmaps
<1>2. TypeOK'  BY <1>1 DEF TypeOK
<1>3. LocOK'  BY <1>1, Names DEF LocOK, LocOf
<1>4. EntryOK' /\ FileOK'  BY <1>1 DEF EntryOK, FileOK, Read, Lasting, Stored
<1>5. PlaceOK' /\ AloneOK'  BY <1>1 DEF PlaceOK, PlaceOf, AloneOK, Apart, Frees, Read
<1>6. SuperOK' /\ MountOK'
  BY <1>1 DEF SuperOK, MountOK, Unmounting, Entering, Mounted, Dropped, Read
<1>7. CountExact'  BY <1>1 DEF CountExact, References
<1>8. BlocksOK'
  <2>1. \A f \in Files, b \in Blocks : Holder(f, b)' <=> Holder(f, b)
    BY <1>1 DEF Holder, Current, Found, Stored
  <2> QED  BY <1>1, <2>1, BlocksSame
<1> QED  BY <1>1, <1>2, <1>3, <1>4, <1>5, <1>6, <1>7, <1>8

\* p goes on without changing an inode.
LEMMA WalkAny ==
    ASSUME Inv, NEW p \in Procs, NEW l \in PCs, NEW r \in LocType, Moves(p, l, r),
           cpu \in {p, NoProc},
           tab' = tab, disk' = disk, imap' = imap, zmap' \subseteq Blocks,
           lost' \subseteq Blocks, named' = named,
           panicked' = panicked,
           super' \in [here : BOOLEAN, lock : BOOLEAN, imount : Inodes \cup {NoInode}],
           pc[p] \notin {"reading", "create"}, l # "reading",
           LocOf(p)', PlaceOf(p)',
           \A q \in Procs : q # p => Apart(p, q)' /\ Apart(q, p)',
           \A e \in Inodes :
              Num(Empty(p, e))' + Num(Counts(p, e))' + Num(MountRef(e))'
                = Num(Empty(p, e)) + Num(Counts(p, e)) + Num(MountRef(e)),
           SuperOK', MountOK', TypeOK' /\ EntryOK' => BlocksOK'
    PROVE  Inv'
<1> USE DEF Inv
<1>1. /\ \A q \in Procs : q # p => pc'[q] = pc[q] /\ loc'[q] = loc[q]
      /\ pc'[p] = l /\ loc'[p] = r
      /\ pc' \in [Procs -> PCs] /\ loc' \in [Procs -> LocType] /\ cpu' \in Procs \cup {NoProc}
  BY Moved
<1>2. \A e : Read(e)' <=> Read(e)  BY ReadAfter
<1>3. TypeOK'  BY <1>1 DEF TypeOK, LocType
<1>4. LocOK'
  <2>1. \A q \in Procs : q # p /\ pc[q] \in {"get", "scan"} => loc[q].f \in named' \cup {top}
    BY DEF LocOK, LocOf
  <2> QED  BY <2>1, LocStep
<1>5. EntryOK'
  <2>1. \A e : Stored(e)' = Stored(e)  BY DEF Stored
  <2>2. Lasting' = Lasting  BY DEF Lasting
  <2> QED  BY <1>2, <2>1, <2>2 DEF EntryOK
<1>6. FileOK'
  <2>1. Lasting' = Lasting  BY DEF Lasting
  <2>2. \A q \in Procs : pc[q] = "create" => pc'[q] = "create" /\ loc'[q] = loc[q]  BY <1>1
  <2> QED  BY <1>2, <2>1, <2>2 DEF FileOK
<1>7. PlaceOK'
  <2> SUFFICES ASSUME NEW q \in Procs, q # p PROVE PlaceOf(q)'
    BY DEF PlaceOK
  <2> QED  BY <1>1, <1>2 DEF PlaceOK, PlaceOf, Frees
<1>8. AloneOK'  BY AloneStep
<1>9. CountExact'
  <2>1. \A e \in Inodes : tab[e].count \in Nat  BY DEF TypeOK
  <2>2. \A e : /\ Num(Empty(p, e)) \in Int /\ Num(Empty(p, e))' \in Int
               /\ Num(Counts(p, e)) \in Int /\ Num(Counts(p, e))' \in Int
               /\ Num(MountRef(e)) \in Int /\ Num(MountRef(e))' \in Int
    BY DEF Num
  <2>3. ASSUME NEW e \in Inodes
        PROVE  tab'[e].count = tab[e].count + Num(Empty(p, e))' - Num(Empty(p, e))
                               + Num(Counts(p, e))' - Num(Counts(p, e))
                               + Num(MountRef(e))' - Num(MountRef(e))
    BY <2>1, <2>2
  <2> QED  BY <2>3, CountsStep
<1> QED  BY <1>3, <1>4, <1>5, <1>6, <1>7, <1>8, <1>9

LEMMA Walk ==
    ASSUME Inv, NEW p \in Procs, NEW l \in PCs, NEW r \in LocType, Moves(p, l, r),
           cpu \in {p, NoProc},
           tab' = tab, disk' = disk, imap' = imap, zmap' = zmap, lost' = lost, named' = named,
           panicked' = panicked,
           super' \in [here : BOOLEAN, lock : BOOLEAN, imount : Inodes \cup {NoInode}],
           pc[p] \notin {"reading", "create"}, l # "reading", r.zone = loc[p].zone,
           LocOf(p)', PlaceOf(p)',
           \A q \in Procs : q # p => Apart(p, q)' /\ Apart(q, p)',
           \A e \in Inodes :
              Num(Empty(p, e))' + Num(Counts(p, e))' + Num(MountRef(e))'
                = Num(Empty(p, e)) + Num(Counts(p, e)) + Num(MountRef(e)),
           SuperOK', MountOK'
    PROVE  Inv'
<1> USE DEF Inv
<1>1. \A e : Read(e)' <=> Read(e)  BY ReadAfter
<1>2. \A q \in Procs : loc'[q].zone = loc[q].zone  BY Moved
<1>3. TypeOK' /\ EntryOK' => BlocksOK'  BY <1>1, <1>2, ZonesSame
<1>4. zmap' \subseteq Blocks /\ lost' \subseteq Blocks  BY DEF TypeOK
<1> QED  BY <1>3, <1>4, WalkAny

\* The same, away from mount() and umount().
LEMMA WalkQuiet ==
    ASSUME Inv, NEW p \in Procs, NEW l \in PCs, NEW r \in LocType, Moves(p, l, r),
           cpu \in {p, NoProc},
           tab' = tab, disk' = disk, imap' = imap, zmap' = zmap, lost' = lost, named' = named,
           super' = super, panicked' = panicked,
           {l, pc[p]} \cap {"reading", "create", "rsuper", "mounting", "put_super"} = {},
           r.zone = loc[p].zone, r.ret # "put_super", loc[p].ret # "put_super",
           l = "scan" /\ r.f = top => Mounted,
           LocOf(p)', PlaceOf(p)',
           \A q \in Procs : q # p => Apart(p, q)' /\ Apart(q, p)',
           \A e \in Inodes : Empty(p, e)' = Empty(p, e) /\ Counts(p, e)' = Counts(p, e)
    PROVE  Inv'
<1> USE DEF Inv
<1>1. /\ \A q \in Procs : pc'[q] = IF q = p THEN l ELSE pc[q]
      /\ \A q \in Procs : loc'[q] = IF q = p THEN r ELSE loc[q]
  BY Moved
<1>2. SuperOK' /\ Unmounting' = Unmounting  BY SuperKept
<1>3. \A e : Read(e)' <=> Read(e)  BY ReadAfter
<1>4. MountOK'
  <2>1. super.imount # NoInode /\ ~Dropped =>
            tab'[super.imount].f = tab[super.imount].f /\ ~Read(super.imount)'
    BY <1>3 DEF MountOK
  <2> QED  BY <1>2, <2>1, MountKept
<1>5. \A e : MountRef(e)' = MountRef(e)  BY <1>1 DEF MountRef, Dropped
<1>6. \A e \in Inodes : Num(Empty(p, e))' + Num(Counts(p, e))' + Num(MountRef(e))'
                       = Num(Empty(p, e)) + Num(Counts(p, e)) + Num(MountRef(e))
  BY <1>5 DEF Num
<1>7. super' \in [here : BOOLEAN, lock : BOOLEAN, imount : Inodes \cup {NoInode}]  BY DEF TypeOK
<1> QED  BY <1>2, <1>4, <1>6, <1>7, Walk

----------------------------------------------------------------------------
(* One lemma for each action: those that leave the table as it is.         *)

LEMMA OpenKeeps ==
    ASSUME Inv, NEW p \in Procs, NEW f \in Files, Open(p, f) PROVE Inv'
<1> USE DEF Inv
<1> DEFINE r == [NoLoc EXCEPT !.f = f]
<1>1. /\ r \in LocType /\ r.f = f /\ r.ino = NoInode /\ r.empty = NoInode /\ r.zone = NoBlock
      /\ r.ret = "user"
  BY NoLocFields, LocFields
<1>2. /\ Moves(p, "get", r) /\ pc[p] = "user" /\ cpu \in {p, NoProc} /\ f \in named
      /\ tab' = tab /\ disk' = disk /\ imap' = imap /\ zmap' = zmap /\ lost' = lost
      /\ named' = named
      /\ super' = super /\ panicked' = panicked
  BY DEF Open, At, Moves, Goto, Sleep, bitmaps
<1> HIDE DEF r
<1>3. pc'[p] = "get" /\ loc'[p] = r /\ \A q \in Procs : q # p => loc'[q] = loc[q]  BY <1>2, Moved
<1>4. /\ loc[p].ino = NoInode /\ loc[p].empty = NoInode /\ loc[p].zone = NoBlock
      /\ loc[p].ret = "user"
  <2>1. loc[p].ret \in {"user", "held", "put_super"}  BY Types DEF LocType
  <2> QED  BY <1>2, <2>1 DEF LocOK, LocOf
<1>5. LocOf(p)'
  <2>1. f # top  BY <1>2, Names DEF FileOK
  <2> QED  BY <1>1, <1>2, <1>3, <2>1 DEF LocOf
<1>6. PlaceOf(p)'  BY <1>3 DEF PlaceOf, UserPCs, LockerPCs, Frees
<1>7. \A q \in Procs : q # p => Apart(p, q)' /\ Apart(q, p)'
  BY <1>1, <1>2, ApartFrom DEF UserPCs, LockerPCs
<1>8. \A e \in Inodes : Empty(p, e)' = Empty(p, e) /\ Counts(p, e)' = Counts(p, e)
  BY <1>1, <1>3, <1>4, Names DEF Empty, Counts
<1>9. "get" \in PCs  BY DEF PCs
<1> QED  BY <1>1, <1>2, <1>4, <1>5, <1>6, <1>7, <1>8, <1>9, WalkQuiet

LEMMA CrossKeeps ==
    ASSUME Inv, NEW p \in Procs, NEW e \in Inodes, Cross(p, e) PROVE Inv'
<1> USE DEF Inv
<1> DEFINE r == [loc[p] EXCEPT !.f = top]
<1>1. /\ r \in LocType /\ r.f = top /\ r.ino = loc[p].ino /\ r.empty = loc[p].empty
      /\ r.zone = loc[p].zone /\ r.ret = loc[p].ret
  BY Types, LocFields, Names
<1>2. /\ Moves(p, "scan", r) /\ pc[p] = "scan" /\ cpu \in {p, NoProc} /\ tab[e].mount
      /\ tab' = tab /\ disk' = disk /\ imap' = imap /\ zmap' = zmap /\ lost' = lost
      /\ named' = named
      /\ super' = super /\ panicked' = panicked
  BY DEF Cross, At, Moves, Goto, Sleep, bitmaps
<1> HIDE DEF r
<1>3. /\ pc'[p] = "scan" /\ loc'[p] = r
      /\ \A q \in Procs : q # p => loc'[q] = loc[q] /\ pc'[q] = pc[q]
  BY <1>2, Moved
<1>4. Mounted  BY <1>2, Names DEF MountOK, Mounted
<1>5. loc[p].ino = NoInode /\ loc[p].ret = "user" /\ loc[p].zone = NoBlock
      /\ loc[p].empty # NoInode
  <2>1. loc[p].ret \in {"user", "held", "put_super"}  BY Types DEF LocType
  <2> QED  BY <1>2, <2>1 DEF LocOK, LocOf
<1>6. LocOf(p)'  BY <1>1, <1>3, <1>5 DEF LocOf
<1>7. PlaceOf(p)'
  <2>1. tab[loc[p].empty] = [Unused EXCEPT !.count = 1]  BY <1>2 DEF PlaceOK, PlaceOf
  <2> QED  BY <1>1, <1>2, <1>3, <2>1 DEF PlaceOf, UserPCs, LockerPCs, Frees
<1>8. \A q \in Procs : q # p => Apart(p, q)' /\ Apart(q, p)'
  <2>1. \A q \in Procs : q # p /\ pc[q] = "scan" => loc[p].empty # loc[q].empty
    BY <1>2 DEF AloneOK, Apart
  <2> QED  BY <1>1, <1>2, <2>1, ApartFrom DEF UserPCs, LockerPCs
<1>9. \A d \in Inodes : Empty(p, d)' = Empty(p, d) /\ Counts(p, d)' = Counts(p, d)
  BY <1>1, <1>3, <1>5, Names DEF Empty, Counts
<1>10. "scan" \in PCs  BY DEF PCs
<1> QED  BY <1>1, <1>2, <1>4, <1>5, <1>6, <1>7, <1>8, <1>9, <1>10, WalkQuiet

\* sync_inodes() comes to an inode, and leaves it.
LEMMA SyncKeeps ==
    ASSUME Inv, NEW p \in Procs, NEW e \in Inodes, Sync(p, e) PROVE Inv'
<1> USE DEF Inv
<1> DEFINE r == [NoLoc EXCEPT !.ino = e]
<1>1. /\ r \in LocType /\ r.f = none /\ r.ino = e /\ r.empty = NoInode /\ r.zone = NoBlock
      /\ r.ret = "user"
  BY NoLocFields, LocFields
<1>2. /\ Moves(p, "sync", r) /\ pc[p] = "user" /\ cpu \in {p, NoProc}
      /\ tab' = tab /\ disk' = disk /\ imap' = imap /\ zmap' = zmap /\ lost' = lost
      /\ named' = named
      /\ super' = super /\ panicked' = panicked
  BY DEF Sync, At, Moves, Goto, Sleep, bitmaps
<1> HIDE DEF r
<1>3. pc'[p] = "sync" /\ loc'[p] = r /\ \A q \in Procs : q # p => loc'[q] = loc[q]  BY <1>2, Moved
<1>4. /\ loc[p].ino = NoInode /\ loc[p].empty = NoInode /\ loc[p].zone = NoBlock
      /\ loc[p].ret = "user"
  <2>1. loc[p].ret \in {"user", "held", "put_super"}  BY Types DEF LocType
  <2> QED  BY <1>2, <2>1 DEF LocOK, LocOf
<1>5. LocOf(p)'  BY <1>1, <1>3, Names DEF LocOf
<1>6. PlaceOf(p)'  BY <1>3 DEF PlaceOf, UserPCs, LockerPCs, Frees
<1>7. \A q \in Procs : q # p => Apart(p, q)' /\ Apart(q, p)'
  BY <1>1, <1>2, ApartFrom DEF UserPCs, LockerPCs
<1>8. \A d \in Inodes : Empty(p, d)' = Empty(p, d) /\ Counts(p, d)' = Counts(p, d)
  BY <1>1, <1>3, <1>4, Names DEF Empty, Counts
<1>9. "sync" \in PCs  BY DEF PCs
<1> QED  BY <1>1, <1>2, <1>4, <1>5, <1>6, <1>7, <1>8, <1>9, WalkQuiet

LEMMA SyncLeavesKeeps ==
    ASSUME Inv, NEW p \in Procs, At(p, "sync"), Sleep(p, "user", NoLoc),
           UNCHANGED <<tab, disk, bitmaps, named, super, panicked>>
    PROVE  Inv'
<1> USE DEF Inv
<1>1. /\ Moves(p, "user", NoLoc) /\ pc[p] = "sync" /\ cpu \in {p, NoProc}
      /\ tab' = tab /\ disk' = disk /\ imap' = imap /\ zmap' = zmap /\ lost' = lost
      /\ named' = named
      /\ super' = super /\ panicked' = panicked
  BY DEF At, Moves, Goto, Sleep, bitmaps
<1>2. pc'[p] = "user" /\ loc'[p] = NoLoc /\ \A q \in Procs : q # p => loc'[q] = loc[q]
  BY <1>1, Moved
<1>3. loc[p].empty = NoInode /\ loc[p].zone = NoBlock /\ loc[p].ret = "user"
  <2>1. loc[p].ret \in {"user", "held", "put_super"}  BY Types DEF LocType
  <2> QED  BY <1>1, <2>1 DEF LocOK, LocOf
<1>4. LocOf(p)'  BY <1>2, NoLocFields DEF LocOf
<1>5. PlaceOf(p)'  BY <1>2 DEF PlaceOf, UserPCs, LockerPCs, Frees
<1>6. \A q \in Procs : q # p => Apart(p, q)' /\ Apart(q, p)'
  BY <1>1, ApartFrom DEF UserPCs, LockerPCs
<1>7. \A d \in Inodes : Empty(p, d)' = Empty(p, d) /\ Counts(p, d)' = Counts(p, d)
  BY <1>1, <1>2, <1>3, NoLocFields, Names DEF Empty, Counts
<1>8. "user" \in PCs  BY DEF PCs
<1> QED  BY <1>1, <1>3, <1>4, <1>5, <1>6, <1>7, <1>8, NoLocFields, WalkQuiet

\* What there is to know of somebody who has an inode, before he moves.
LEMMA UserFacts ==
    ASSUME Inv, NEW p \in Procs, pc[p] \in UserPCs
    PROVE  /\ loc[p].ino \in Inodes /\ loc[p].empty = NoInode
           /\ tab[loc[p].ino] \in EntryType /\ tab[loc[p].ino].f \in Files \cap imap
           /\ ~Read(loc[p].ino) /\ tab[loc[p].ino].count >= 1
           /\ tab[loc[p].ino].count \in Nat
           /\ \A q \in Procs : q # p /\ pc[q] \in UserPCs \cup {"reading"}
                                /\ loc[q].ino = loc[p].ino => tab[loc[p].ino].count >= 2
           /\ loc[p].zone # NoBlock <=> pc[p] = "block"
           /\ pc[p] \notin {"iput", "iwrite"} => loc[p].ret # "put_super"
           /\ pc[p] # "truncate" => loc[p].ret # "held"
           /\ loc[p].ret \in {"user", "held", "put_super"}
           /\ loc[p].f \in Files \cup {none}
<1> USE DEF Inv
<1>1. /\ loc[p] \in LocType /\ loc[p].ret \in {"user", "held", "put_super"}
      /\ loc[p].f \in Files \cup {none} /\ loc[p].ino \in Inodes \cup {NoInode}
  BY Types DEF LocType
<1>2. loc[p].ino \in Inodes /\ loc[p].empty = NoInode  BY <1>1 DEF LocOK, LocOf, UserPCs
<1>3. tab[loc[p].ino] \in EntryType /\ tab[loc[p].ino].count \in Nat  BY <1>2, Types DEF EntryType
<1>4. tab[loc[p].ino].f # none /\ ~Read(loc[p].ino)  BY DEF PlaceOK, PlaceOf
<1>5. tab[loc[p].ino].f \in Files \cap imap  BY <1>2, <1>3, <1>4, Types DEF EntryOK
<1>6. Uses(p, loc[p].ino)  BY DEF Uses
<1>7. tab[loc[p].ino].count >= 1  BY <1>2, <1>6, UsersCounted
<1>8. ASSUME NEW q \in Procs, q # p, pc[q] \in UserPCs \cup {"reading"}, loc[q].ino = loc[p].ino
      PROVE  tab[loc[p].ino].count >= 2
  <2>1. Uses(q, loc[p].ino)  BY <1>8 DEF Uses
  <2> QED  BY <1>2, <1>6, <1>8, <2>1, UsersCounted
<1>9. /\ loc[p].zone # NoBlock <=> pc[p] = "block"
      /\ pc[p] \notin {"iput", "iwrite"} => loc[p].ret # "put_super"
      /\ pc[p] # "truncate" => loc[p].ret # "held"
  BY DEF LocOK, LocOf
<1> QED  BY <1>1, <1>2, <1>3, <1>4, <1>5, <1>7, <1>8, <1>9

\* A process in "held" goes on to iput() or truncate(), or from there to free it.
LEMMA CloseKeeps ==
    ASSUME Inv, NEW p \in Procs, Close(p) PROVE Inv'
<1> USE DEF Inv
<1> DEFINE r == [loc[p] EXCEPT !.ret = "user"]
<1>1. /\ r \in LocType /\ r.f = loc[p].f /\ r.ino = loc[p].ino /\ r.empty = loc[p].empty
      /\ r.zone = loc[p].zone /\ r.ret = "user"
  BY Types, LocFields
<1>2. /\ Moves(p, "iput", r) /\ pc[p] = "held" /\ cpu \in {p, NoProc}
      /\ tab' = tab /\ disk' = disk /\ imap' = imap /\ zmap' = zmap /\ lost' = lost
      /\ named' = named
      /\ super' = super /\ panicked' = panicked
  BY DEF Close, At, Moves, Goto, Sleep, bitmaps
<1> HIDE DEF r
<1>3. /\ pc'[p] = "iput" /\ loc'[p] = r  BY <1>2, Moved
<1>4. pc[p] \in UserPCs  BY <1>2 DEF UserPCs
<1>5. loc[p].ino \in Inodes /\ loc[p].empty = NoInode /\ loc[p].zone = NoBlock
      /\ loc[p].ret # "put_super"
  BY <1>2, <1>4, UserFacts
<1>6. LocOf(p)'  BY <1>1, <1>3, <1>5, Names DEF LocOf
<1>7. PlaceOf(p)'
  <2>1. \A d : Read(d)' <=> Read(d)  BY <1>2, ReadAfter
  <2> QED  BY <1>1, <1>2, <1>3, <1>4, <2>1 DEF PlaceOK, PlaceOf, UserPCs, LockerPCs, Frees
<1>8. \A q \in Procs : q # p => Apart(p, q)' /\ Apart(q, p)'
  <2>1. \A q \in Procs : q # p /\ (pc[q] = "create" \/ Frees(q)) => loc[p].ino # loc[q].ino
    BY <1>4 DEF AloneOK, Apart
  <2> QED  BY <1>1, <1>2, <2>1, ApartFrom DEF LockerPCs
<1>9. \A d \in Inodes : Empty(p, d)' = Empty(p, d) /\ Counts(p, d)' = Counts(p, d)
  BY <1>1, <1>2, <1>3, <1>5 DEF Empty, Counts
<1>10. "iput" \in PCs  BY DEF PCs
<1> QED  BY <1>1, <1>2, <1>5, <1>6, <1>7, <1>8, <1>9, <1>10, WalkQuiet

LEMMA TruncateKeeps ==
    ASSUME Inv, NEW p \in Procs, Truncate(p) PROVE Inv'
<1> USE DEF Inv
<1> DEFINE r == [loc[p] EXCEPT !.ret = "held"]
<1>1. /\ r \in LocType /\ r.f = loc[p].f /\ r.ino = loc[p].ino /\ r.empty = loc[p].empty
      /\ r.zone = loc[p].zone /\ r.ret = "held"
  BY Types, LocFields
<1>2. /\ Moves(p, "truncate", r) /\ pc[p] = "held" /\ cpu \in {p, NoProc}
      /\ tab' = tab /\ disk' = disk /\ imap' = imap /\ zmap' = zmap /\ lost' = lost
      /\ named' = named
      /\ super' = super /\ panicked' = panicked /\ tab[loc[p].ino].f \in Regular
  BY DEF Truncate, Regularly, At, Moves, Goto, Sleep, bitmaps
<1> HIDE DEF r
<1>3. /\ pc'[p] = "truncate" /\ loc'[p] = r  BY <1>2, Moved
<1>4. pc[p] \in UserPCs  BY <1>2 DEF UserPCs
<1>5. loc[p].ino \in Inodes /\ loc[p].empty = NoInode /\ loc[p].zone = NoBlock
      /\ loc[p].ret # "put_super"
  BY <1>2, <1>4, UserFacts
<1>6. LocOf(p)'  BY <1>1, <1>3, <1>5, Names DEF LocOf
<1>7. PlaceOf(p)'
  <2>1. \A d : Read(d)' <=> Read(d)  BY <1>2, ReadAfter
  <2> QED  BY <1>1, <1>2, <1>3, <1>4, <2>1 DEF PlaceOK, PlaceOf, UserPCs, LockerPCs, Frees
<1>8. \A q \in Procs : q # p => Apart(p, q)' /\ Apart(q, p)'
  <2>1. \A q \in Procs : q # p /\ (pc[q] = "create" \/ Frees(q)) => loc[p].ino # loc[q].ino
    BY <1>4 DEF AloneOK, Apart
  <2> QED  BY <1>1, <1>2, <2>1, ApartFrom DEF LockerPCs
<1>9. \A d \in Inodes : Empty(p, d)' = Empty(p, d) /\ Counts(p, d)' = Counts(p, d)
  BY <1>1, <1>2, <1>3, <1>5 DEF Empty, Counts
<1>10. "truncate" \in PCs  BY DEF PCs
<1> QED  BY <1>1, <1>2, <1>5, <1>6, <1>7, <1>8, <1>9, <1>10, WalkQuiet

LEMMA FreesKeeps ==
    ASSUME Inv, NEW p \in Procs, At(p, "iput"), ~tab[loc[p].ino].lock,
           tab[loc[p].ino].count = 1, tab[loc[p].ino].links = 0,
           Goto(p, "truncate", loc[p]),
           UNCHANGED <<tab, disk, bitmaps, named, super, panicked>>
    PROVE  Inv'
<1> USE DEF Inv
<1> DEFINE e == loc[p].ino
<1>1. /\ Moves(p, "truncate", loc[p]) /\ pc[p] = "iput" /\ cpu \in {p, NoProc}
      /\ tab' = tab /\ disk' = disk /\ imap' = imap /\ zmap' = zmap /\ lost' = lost
      /\ named' = named
      /\ super' = super /\ panicked' = panicked
  BY DEF At, Moves, Goto, Sleep, bitmaps
<1>2. /\ pc'[p] = "truncate" /\ loc'[p] = loc[p]  BY <1>1, Moved
<1>3. pc[p] \in UserPCs  BY <1>1 DEF UserPCs
<1>4. /\ e \in Inodes /\ loc[p].empty = NoInode /\ loc[p].zone = NoBlock
      /\ tab[e].f \in Files /\ ~Read(e) /\ loc[p].ret \in {"user", "put_super"}
      /\ \A q \in Procs : q # p /\ pc[q] \in UserPCs \cup {"reading"} => loc[q].ino # e
  BY <1>1, <1>3, UserFacts
<1>5. tab[e].f \in Regular
  <2>1. tab[e].f \notin Lasting  BY <1>4 DEF EntryOK
  <2> QED  BY <1>4, <2>1, Names DEF Lasting
<1>6. loc[p].ret = "user"
  <2> SUFFICES ASSUME loc[p].ret = "put_super" PROVE FALSE
    BY <1>4
  <2>1. super.imount = e /\ p \in Unmounting  BY DEF SuperOK, Unmounting
  <2>2. ~Dropped  BY <1>1, <2>1 DEF SuperOK, Dropped, Unmounting
  <2>3. tab[e].f = dir  BY <1>4, <2>1, <2>2, Names DEF MountOK
  <2> QED  BY <1>5, <2>3, Names
<1>7. loc[p] \in LocType  BY Types
<1>8. LocOf(p)'  BY <1>2, <1>4, <1>6, Names DEF LocOf
<1>9. PlaceOf(p)'
  <2>1. \A d : Read(d)' <=> Read(d)  BY <1>1, ReadAfter
  <2> QED  BY <1>1, <1>2, <1>4, <1>5, <2>1, Names DEF PlaceOf, UserPCs, LockerPCs, Frees
<1>10. \A q \in Procs : q # p => Apart(p, q)' /\ Apart(q, p)'
  <2>1. \A q \in Procs : q # p /\ (pc[q] = "create" \/ Frees(q)) => loc[p].ino # loc[q].ino
    BY <1>3 DEF AloneOK, Apart
  <2>2. ASSUME NEW q \in Procs, q # p PROVE Apart(p, q)' /\ Apart(q, p)'
    <3>1. "truncate" \notin LockerPCs  BY DEF LockerPCs
    <3> QED  BY <1>1, <1>4, <2>1, <2>2, <3>1, ApartFrom
  <2> QED  BY <2>2
<1>11. \A d \in Inodes : Empty(p, d)' = Empty(p, d) /\ Counts(p, d)' = Counts(p, d)
  BY <1>1, <1>2 DEF Empty, Counts
<1>12. "truncate" \in PCs  BY DEF PCs
<1> HIDE DEF e
<1> QED  BY <1>1, <1>4, <1>6, <1>7, <1>8, <1>9, <1>10, <1>11, <1>12, WalkQuiet

\* mount() and umount().
LEMMA MountFinds ==
    ASSUME Inv, NEW p \in Procs, At(p, "held"), tab[loc[p].ino].f = dir, ~super.lock,
           super.here, Goto(p, "mounting", loc[p]),
           UNCHANGED <<tab, disk, bitmaps, named, super, panicked>>
    PROVE  Inv'
<1> USE DEF Inv
<1>1. /\ Moves(p, "mounting", loc[p]) /\ pc[p] = "held" /\ cpu \in {p, NoProc}
      /\ tab' = tab /\ disk' = disk /\ imap' = imap /\ zmap' = zmap /\ lost' = lost
      /\ named' = named
      /\ super' = super /\ panicked' = panicked
  BY DEF At, Moves, Goto, Sleep, bitmaps
<1>2. /\ \A q \in Procs : pc'[q] = IF q = p THEN "mounting" ELSE pc[q]
      /\ \A q \in Procs : loc'[q] = loc[q]
      /\ cpu' = p
  BY <1>1, Moved DEF Goto
<1>3. pc[p] \in UserPCs  BY <1>1 DEF UserPCs
<1>4. loc[p].ino \in Inodes /\ loc[p].empty = NoInode /\ loc[p].zone = NoBlock
      /\ loc[p].ret \notin {"put_super", "held"} /\ tab[loc[p].ino].f # none
      /\ ~Read(loc[p].ino)
  BY <1>1, <1>3, Names, UserFacts
<1>5. loc[p] \in LocType /\ "mounting" \in PCs  BY Types DEF PCs
<1>6. \A d : Read(d)' <=> Read(d)  BY <1>1, ReadAfter
<1>7. LocOf(p)'  BY <1>2, <1>4, Names DEF LocOf
<1>8. PlaceOf(p)'  BY <1>1, <1>2, <1>4, <1>6 DEF PlaceOf, UserPCs, LockerPCs, Frees
<1>9. \A q \in Procs : q # p => Apart(p, q)' /\ Apart(q, p)'
  <2>1. \A q \in Procs : q # p /\ (pc[q] = "create" \/ Frees(q)) => loc[p].ino # loc[q].ino
    BY <1>3 DEF AloneOK, Apart
  <2> QED  BY <1>1, <2>1, ApartFrom DEF LockerPCs
<1>10. Unmounting' = Unmounting  BY <1>1, <1>2 DEF Unmounting
<1>11. SuperOK'  BY <1>1, <1>2, <1>4, <1>10 DEF SuperOK
<1>12. MountOK'
  <2>1. super.imount # NoInode /\ ~Dropped =>
            tab'[super.imount].f = tab[super.imount].f /\ ~Read(super.imount)'
    BY <1>1, <1>6 DEF MountOK
  <2> QED  BY <1>1, <1>10, <2>1, MountKept
<1>13. \A e \in Inodes : Num(Empty(p, e))' + Num(Counts(p, e))' + Num(MountRef(e))'
                        = Num(Empty(p, e)) + Num(Counts(p, e)) + Num(MountRef(e))
  BY <1>1, <1>2, <1>4 DEF Num, Empty, Counts, MountRef, Dropped
<1>14. super' \in [here : BOOLEAN, lock : BOOLEAN, imount : Inodes \cup {NoInode}]
  BY <1>1 DEF TypeOK
<1> QED  BY <1>1, <1>4, <1>5, <1>7, <1>8, <1>9, <1>11, <1>12, <1>13, <1>14, Walk

LEMMA MountReads ==
    ASSUME Inv, NEW p \in Procs, At(p, "held"), tab[loc[p].ino].f = dir, ~super.lock,
           ~super.here, super' = [NoSuper EXCEPT !.here = TRUE, !.lock = TRUE],
           Sleep(p, "rsuper", loc[p]),
           UNCHANGED <<tab, disk, bitmaps, named, panicked>>
    PROVE  Inv'
<1> USE DEF Inv
<1>1. /\ Moves(p, "rsuper", loc[p]) /\ pc[p] = "held" /\ cpu \in {p, NoProc}
      /\ tab' = tab /\ disk' = disk /\ imap' = imap /\ zmap' = zmap /\ lost' = lost
      /\ named' = named
      /\ panicked' = panicked
  BY DEF At, Moves, Goto, Sleep, bitmaps
<1>2. /\ \A q \in Procs : pc'[q] = IF q = p THEN "rsuper" ELSE pc[q]
      /\ \A q \in Procs : loc'[q] = loc[q]
  BY <1>1, Moved
<1>3. pc[p] \in UserPCs  BY <1>1 DEF UserPCs
<1>4. loc[p].ino \in Inodes /\ loc[p].empty = NoInode /\ loc[p].zone = NoBlock
      /\ loc[p].ret \notin {"put_super", "held"} /\ tab[loc[p].ino].f # none
      /\ ~Read(loc[p].ino)
  BY <1>1, <1>3, Names, UserFacts
<1>5. loc[p] \in LocType /\ "rsuper" \in PCs  BY Types DEF PCs
<1>6. \A d : Read(d)' <=> Read(d)  BY <1>1, ReadAfter
<1>7. LocOf(p)'  BY <1>2, <1>4, Names DEF LocOf
<1>8. PlaceOf(p)'  BY <1>1, <1>2, <1>4, <1>6 DEF PlaceOf, UserPCs, LockerPCs, Frees
<1>9. \A q \in Procs : q # p => Apart(p, q)' /\ Apart(q, p)'
  <2>1. \A q \in Procs : q # p /\ (pc[q] = "create" \/ Frees(q)) => loc[p].ino # loc[q].ino
    BY <1>3 DEF AloneOK, Apart
  <2> QED  BY <1>1, <2>1, ApartFrom DEF LockerPCs
<1>10. Unmounting' = Unmounting  BY <1>1, <1>2 DEF Unmounting
<1>11. /\ super'.here /\ super'.lock /\ super'.imount = NoInode
       /\ super' \in [here : BOOLEAN, lock : BOOLEAN, imount : Inodes \cup {NoInode}]
  BY DEF NoSuper
<1>12. super.imount = NoInode /\ Unmounting = {}  BY DEF SuperOK
<1>13. SuperOK'
  <2>1. \A q \in Procs : loc[q].ret # "put_super"  BY <1>12 DEF Unmounting
  <2>2. \A q \in Procs : pc'[q] # "mounting"  BY <1>1, <1>2, Names DEF LocOK, LocOf
  <2>3. \A q \in Procs : pc[q] # "rsuper"  BY DEF SuperOK
  <2> QED  BY <1>2, <1>10, <1>11, <1>12, <2>1, <2>2, <2>3 DEF SuperOK
<1>14. MountOK'  BY <1>1, <1>10, <1>11, <1>12, MountKept
<1>15. \A e \in Inodes : Num(Empty(p, e))' + Num(Counts(p, e))' + Num(MountRef(e))'
                        = Num(Empty(p, e)) + Num(Counts(p, e)) + Num(MountRef(e))
  BY <1>1, <1>2, <1>4, <1>11, <1>12, Names DEF Num, Empty, Counts, MountRef
<1> QED  BY <1>1, <1>4, <1>5, <1>7, <1>8, <1>9, <1>11, <1>13, <1>14, <1>15, Walk

LEMMA ReadSuperKeeps ==
    ASSUME Inv, NEW p \in Procs, read_super(p) PROVE Inv'
<1> USE DEF Inv
<1> DEFINE r == [loc[p] EXCEPT !.ret = "user"]
<1>1. /\ pc[p] = "rsuper" /\ cpu \in {p, NoProc}
      /\ tab' = tab /\ disk' = disk /\ imap' = imap /\ zmap' = zmap /\ lost' = lost
      /\ named' = named
      /\ panicked' = panicked
  BY DEF At, read_super, bitmaps
<1>2. pc[p] \in UserPCs  BY <1>1 DEF UserPCs
<1>3. loc[p].ino \in Inodes /\ loc[p].empty = NoInode /\ loc[p].zone = NoBlock
      /\ loc[p].ret = "user" /\ tab[loc[p].ino].f # none /\ ~Read(loc[p].ino)
      /\ tab[loc[p].ino].f = dir
  <2>1. tab[loc[p].ino].f = dir  BY <1>1 DEF PlaceOK, PlaceOf
  <2> QED  BY <1>1, <1>2, <2>1, Names, UserFacts
<1>4. /\ r \in LocType /\ r.f = loc[p].f /\ r.ino = loc[p].ino /\ r.empty = NoInode
      /\ r.zone = NoBlock /\ r.ret = "user"
  BY <1>3, Types, LocFields
<1> HIDE DEF r
<1>5. loc[p] \in LocType /\ {"mounting", "iput"} \subseteq PCs  BY Types DEF PCs
<1>6. \A q \in Procs : q # p => pc[q] # "rsuper"  BY <1>1 DEF SuperOK
<1>7. super.here /\ super.lock /\ super.imount = NoInode /\ Unmounting = {}  BY <1>1 DEF SuperOK
<1>8. \A q \in Procs : loc[q].ret # "put_super"  BY <1>7 DEF Unmounting
<1>9. \A q \in Procs : q # p /\ (pc[q] = "create" \/ Frees(q)) => loc[p].ino # loc[q].ino
  BY <1>2 DEF AloneOK, Apart
<1>10. \A q \in Procs : pc[q] # "mounting"  BY <1>1, Names DEF LocOK, LocOf
<1>11. CASE super' = [super EXCEPT !.lock = FALSE] /\ Goto(p, "mounting", loc[p])
  <2>1. Moves(p, "mounting", loc[p]) /\ cpu' = p  BY <1>11 DEF Moves, Goto
  <2>2. /\ \A q \in Procs : pc'[q] = IF q = p THEN "mounting" ELSE pc[q]
        /\ \A q \in Procs : loc'[q] = loc[q]
    BY <2>1, Moved
  <2>3. /\ super'.here /\ ~super'.lock /\ super'.imount = NoInode
        /\ super' \in [here : BOOLEAN, lock : BOOLEAN, imount : Inodes \cup {NoInode}]
    BY <1>7, <1>11 DEF TypeOK
  <2>4. \A d : Read(d)' <=> Read(d)  BY <1>1, <2>1, ReadAfter
  <2>5. LocOf(p)'  BY <1>3, <2>1, <2>2, Names DEF LocOf
  <2>6. PlaceOf(p)'  BY <1>1, <1>3, <2>2, <2>4 DEF PlaceOf, UserPCs, LockerPCs, Frees
  <2>7. \A q \in Procs : q # p => Apart(p, q)' /\ Apart(q, p)'
    BY <1>9, <2>1, ApartFrom DEF LockerPCs
  <2>8. Unmounting' = Unmounting  BY <1>1, <2>2 DEF Unmounting
  <2>9. SuperOK'  BY <1>6, <1>7, <1>8, <2>2, <2>3, <2>8 DEF SuperOK
  <2>10. MountOK'  BY <1>1, <1>7, <2>1, <2>3, <2>8, MountKept
  <2>11. \A e \in Inodes : Num(Empty(p, e))' + Num(Counts(p, e))' + Num(MountRef(e))'
                          = Num(Empty(p, e)) + Num(Counts(p, e)) + Num(MountRef(e))
    BY <1>1, <1>3, <1>7, <2>2, <2>3, Names DEF Num, Empty, Counts, MountRef
  <2> QED  BY <1>1, <1>3, <1>5, <2>1, <2>3, <2>5, <2>6, <2>7, <2>9, <2>10, <2>11, Walk
<1>12. CASE super' = NoSuper /\ Goto(p, "iput", r)
  <2>1. Moves(p, "iput", r)  BY <1>12 DEF Moves, Goto
  <2>2. /\ \A q \in Procs : pc'[q] = IF q = p THEN "iput" ELSE pc[q]
        /\ \A q \in Procs : loc'[q] = IF q = p THEN r ELSE loc[q]
    BY <2>1, Moved
  <2>3. /\ ~super'.here /\ ~super'.lock /\ super'.imount = NoInode
        /\ super' \in [here : BOOLEAN, lock : BOOLEAN, imount : Inodes \cup {NoInode}]
    BY <1>12 DEF NoSuper
  <2>4. \A d : Read(d)' <=> Read(d)  BY <1>1, <2>1, ReadAfter
  <2>5. LocOf(p)'  BY <1>3, <1>4, <2>2, Names DEF LocOf
  <2>6. PlaceOf(p)'  BY <1>1, <1>3, <1>4, <2>2, <2>4 DEF PlaceOf, UserPCs, LockerPCs, Frees
  <2>7. \A q \in Procs : q # p => Apart(p, q)' /\ Apart(q, p)'
    BY <1>4, <1>9, <2>1, ApartFrom DEF LockerPCs
  <2>8. Unmounting' = Unmounting  BY <1>1, <1>3, <1>4, <2>2 DEF Unmounting
  <2>9. SuperOK'  BY <1>4, <1>6, <1>7, <1>8, <1>10, <2>2, <2>3, <2>8 DEF SuperOK
  <2>10. MountOK'  BY <1>1, <1>7, <2>1, <2>3, <2>8, MountKept
  <2>11. \A e \in Inodes : Num(Empty(p, e))' + Num(Counts(p, e))' + Num(MountRef(e))'
                          = Num(Empty(p, e)) + Num(Counts(p, e)) + Num(MountRef(e))
    BY <1>1, <1>3, <1>4, <1>7, <2>2, <2>3, Names DEF Num, Empty, Counts, MountRef
  <2> QED  BY <1>1, <1>3, <1>4, <1>5, <2>1, <2>3, <2>5, <2>6, <2>7, <2>9, <2>10, <2>11, Walk
<1> QED  BY <1>11, <1>12 DEF read_super, r

LEMMA MountFails ==
    ASSUME Inv, NEW p \in Procs, At(p, "mounting"), Goto(p, "iput", [loc[p] EXCEPT !.ret = "user"]),
           UNCHANGED <<tab, super, disk, bitmaps, named, panicked>>
    PROVE  Inv'
<1> USE DEF Inv
<1> DEFINE r == [loc[p] EXCEPT !.ret = "user"]
<1>1. /\ Moves(p, "iput", r) /\ pc[p] = "mounting" /\ cpu \in {p, NoProc}
      /\ tab' = tab /\ disk' = disk /\ imap' = imap /\ zmap' = zmap /\ lost' = lost
      /\ named' = named
      /\ super' = super /\ panicked' = panicked
  BY DEF At, Moves, Goto, Sleep, bitmaps
<1>2. pc[p] \in UserPCs  BY <1>1 DEF UserPCs
<1>3. loc[p].ino \in Inodes /\ loc[p].empty = NoInode /\ loc[p].zone = NoBlock
      /\ loc[p].ret = "user" /\ tab[loc[p].ino].f # none /\ ~Read(loc[p].ino)
  BY <1>1, <1>2, Names, UserFacts
<1>4. /\ r \in LocType /\ r.f = loc[p].f /\ r.ino = loc[p].ino /\ r.empty = NoInode
      /\ r.zone = NoBlock /\ r.ret = "user"
  BY <1>3, Types, LocFields
<1> HIDE DEF r
<1>5. /\ \A q \in Procs : pc'[q] = IF q = p THEN "iput" ELSE pc[q]
      /\ \A q \in Procs : loc'[q] = IF q = p THEN r ELSE loc[q]
  BY <1>1, Moved
<1>6. "iput" \in PCs  BY DEF PCs
<1>7. \A d : Read(d)' <=> Read(d)  BY <1>1, ReadAfter
<1>8. LocOf(p)'  BY <1>3, <1>4, <1>5, Names DEF LocOf
<1>9. PlaceOf(p)'  BY <1>1, <1>3, <1>4, <1>5, <1>7 DEF PlaceOf, UserPCs, LockerPCs, Frees
<1>10. \A q \in Procs : q # p => Apart(p, q)' /\ Apart(q, p)'
  <2>1. \A q \in Procs : q # p /\ (pc[q] = "create" \/ Frees(q)) => loc[p].ino # loc[q].ino
    BY <1>2 DEF AloneOK, Apart
  <2> QED  BY <1>1, <1>4, <2>1, ApartFrom DEF LockerPCs
<1>11. Unmounting' = Unmounting  BY <1>1, <1>3, <1>4, <1>5 DEF Unmounting
<1>12. SuperOK'  BY <1>1, <1>4, <1>5, <1>11 DEF SuperOK
<1>13. MountOK'
  <2>1. super.imount # NoInode /\ ~Dropped =>
            tab'[super.imount].f = tab[super.imount].f /\ ~Read(super.imount)'
    BY <1>1, <1>7 DEF MountOK
  <2> QED  BY <1>1, <1>11, <2>1, MountKept
<1>14. \A e \in Inodes : Num(Empty(p, e))' + Num(Counts(p, e))' + Num(MountRef(e))'
                        = Num(Empty(p, e)) + Num(Counts(p, e)) + Num(MountRef(e))
  BY <1>1, <1>3, <1>4, <1>5 DEF Num, Empty, Counts, MountRef, Dropped
<1>15. super' \in [here : BOOLEAN, lock : BOOLEAN, imount : Inodes \cup {NoInode}]
  BY <1>1 DEF TypeOK
<1> QED  BY <1>1, <1>3, <1>4, <1>6, <1>8, <1>9, <1>10, <1>12, <1>13, <1>14, <1>15, Walk

LEMMA PutSuperKeeps ==
    ASSUME Inv, NEW p \in Procs, put_super(p) PROVE Inv'
<1> USE DEF Inv
<1>1. /\ Moves(p, "user", NoLoc) /\ pc[p] = "put_super" /\ cpu \in {p, NoProc}
      /\ tab' = tab /\ disk' = disk /\ imap' = imap /\ zmap' = zmap /\ lost' = lost
      /\ named' = named
      /\ super' = NoSuper /\ panicked' = panicked
  BY DEF At, put_super, Moves, Goto, Sleep, bitmaps
<1>2. /\ \A q \in Procs : pc'[q] = IF q = p THEN "user" ELSE pc[q]
      /\ \A q \in Procs : loc'[q] = IF q = p THEN NoLoc ELSE loc[q]
  BY <1>1, Moved
<1>3. loc[p].ino = NoInode /\ loc[p].empty = NoInode /\ loc[p].zone = NoBlock
  BY <1>1 DEF LocOK, LocOf
<1>4. p \in Unmounting /\ Dropped  BY <1>1 DEF Unmounting, Dropped
<1>5. super.imount # NoInode /\ ~super.lock /\ Unmounting = {p}  BY <1>4 DEF SuperOK
<1>6. /\ ~super'.here /\ ~super'.lock /\ super'.imount = NoInode
      /\ super' \in [here : BOOLEAN, lock : BOOLEAN, imount : Inodes \cup {NoInode}]
  BY <1>1 DEF NoSuper
<1>7. Unmounting' = {}
  <2>1. \A q \in Procs : q \in Unmounting' => q # p /\ q \in Unmounting
    BY <1>2, NoLocFields DEF Unmounting
  <2> QED  BY <1>5, <2>1 DEF Unmounting
<1>8. SuperOK'
  <2>1. \A q \in Procs : pc'[q] \notin {"rsuper", "mounting"}
    BY <1>1, <1>2, <1>5, Names DEF SuperOK, LocOK, LocOf
  <2>2. \A q \in Procs : loc'[q].ret # "put_super"  BY <1>7 DEF Unmounting
  <2> QED  BY <1>6, <1>7, <2>1, <2>2 DEF SuperOK
<1>9. MountOK'
  <2>1. ~Mounted  BY <1>5 DEF Mounted
  <2>2. Entering' = {}
    <3>1. Entering = {}  BY <2>1 DEF MountOK
    <3> QED  BY <1>2, <3>1 DEF Entering
  <2>3. \A e \in Inodes : ~(tab'[e].f = top /\ tab'[e].count > 0)  BY <1>1, <2>1 DEF MountOK
  <2>4. \A e \in Inodes : ~tab'[e].mount /\ super'.imount # e
    BY <1>1, <1>5, <1>6, Names DEF MountOK
  <2> QED  BY <1>6, <2>2, <2>3, <2>4 DEF MountOK
<1>10. LocOf(p)'  BY <1>2, NoLocFields DEF LocOf
<1>11. PlaceOf(p)'  BY <1>2 DEF PlaceOf, UserPCs, LockerPCs, Frees
<1>12. \A q \in Procs : q # p => Apart(p, q)' /\ Apart(q, p)'
  BY <1>1, ApartFrom DEF UserPCs, LockerPCs
<1>13. \A e \in Inodes : Num(Empty(p, e))' + Num(Counts(p, e))' + Num(MountRef(e))'
                        = Num(Empty(p, e)) + Num(Counts(p, e)) + Num(MountRef(e))
  BY <1>2, <1>3, <1>4, <1>6, NoLocFields, Names DEF Num, Empty, Counts, MountRef
<1>14. "user" \in PCs  BY DEF PCs
<1> QED  BY <1>1, <1>3, <1>6, <1>8, <1>9, <1>10, <1>11, <1>12, <1>13, <1>14, NoLocFields, Walk

----------------------------------------------------------------------------
(* Steps that change one inode in the table.                               *)

\* The entry e becomes s, the inode on the disk d; it stays the same inode.
Writes(e, s, d) ==
    /\ tab' = [tab EXCEPT ![e] = s]
    /\ disk' = [f \in Files |-> IF f = s.f THEN d ELSE disk[f]]
    /\ imap' = imap /\ zmap' \subseteq Blocks /\ lost' \subseteq Blocks
    /\ named' = named /\ super' = super
    /\ panicked' = panicked
    /\ s.f = tab[e].f /\ s.f # none /\ s.mount = tab[e].mount
    /\ s.f = top /\ s.count > 0 => Mounted \/ tab[e].count > 0
\* What is in the entry and on the disk can be relied on.
Reliable(p, e, s, d) ==
    /\ s.count = 0 => ~s.lock /\ ~s.dirt /\ s.f \in Lasting
    /\ s.f \in Lasting /\ ~Read(e)' => s.links = 1
    /\ ~Read(e)' /\ ~s.dirt /\ s.links = 1 => d = [links |-> s.links, zone |-> s.zone]
    /\ Read(e)' => Read(e) /\ d = disk[s.f]
    /\ s.f \notin Lasting =>
          s.links = 0 \/ \E q \in Procs : q # p /\ pc[q] = "create" /\ loc[q].ino = e
\* p is at its new place by right,
MayGo(p, l, r, e) ==
    /\ {l, pc[p]} \cap {"rsuper", "mounting"} = {} /\ pc[p] # "put_super" /\ l # "reading"
    /\ pc[p] \in {"create", "reading"} => loc[p].ino = e
    /\ l = "scan" /\ r.f = top => Mounted \/ p \in Entering
    /\ loc[p].ret = "put_super" => l = "put_super" \/ r.ret = "put_super"
    /\ r.ret = "put_super" => loc[p].ret = "put_super" /\ r.ino = loc[p].ino
    /\ l = "put_super" => loc[p].ret = "put_super"
    /\ LocOf(p)' /\ PlaceOf(p)'
    /\ \A q \in Procs : q # p => Apart(p, q)' /\ Apart(q, p)'
\* the others can go on with the inode,
OthersGoOn(p, e, s) ==
    \A q \in Procs : q # p /\ loc[q].ino = e =>
        /\ pc[q] \in LockerPCs => s.lock
        /\ pc[q] = "create" => s.links = 1
        /\ Frees(q) => s.count = 1 /\ s.links = 0 /\ ~s.lock
\* and the references are counted.
CountedIn(p, e, s) ==
    /\ s.count = tab[e].count + Num(Empty(p, e))' - Num(Empty(p, e))
                 + Num(Counts(p, e))' - Num(Counts(p, e))
                 + Num(MountRef(e))' - Num(MountRef(e))
    /\ \A i \in Inodes : i # e => /\ Empty(p, i)' <=> Empty(p, i)
                                  /\ Counts(p, i)' <=> Counts(p, i)
                                  /\ MountRef(i)' <=> MountRef(i)

LEMMA EntryStep ==
    ASSUME Inv, NEW p \in Procs, NEW l \in PCs, NEW r \in LocType, Moves(p, l, r),
           cpu \in {p, NoProc}, NEW e \in Inodes, NEW s \in EntryType,
           NEW d \in [links : Links, zone : Blocks \cup {NoBlock}],
           Writes(e, s, d), Reliable(p, e, s, d), MayGo(p, l, r, e), OthersGoOn(p, e, s),
           CountedIn(p, e, s), TypeOK' /\ EntryOK' => BlocksOK'
    PROVE  Inv'
<1> USE DEF Inv, Writes, Reliable, MayGo, OthersGoOn, CountedIn
<1>1. /\ \A q \in Procs : q # p => pc'[q] = pc[q] /\ loc'[q] = loc[q]
      /\ pc'[p] = l /\ loc'[p] = r
      /\ pc' \in [Procs -> PCs] /\ loc' \in [Procs -> LocType] /\ cpu' \in Procs \cup {NoProc}
  BY Moved
<1>2. /\ tab'[e] = s /\ \A i \in Inodes : i # e => tab'[i] = tab[i]
      /\ tab' \in [Inodes -> EntryType]
  BY DEF TypeOK, EntryType
<1>3. \A i : i # e => (Read(i)' <=> Read(i))  BY <1>1 DEF Read
<1>4. /\ \A f \in Files : disk'[f] = IF f = s.f THEN d ELSE disk[f]
      /\ disk' \in [Files -> [links : Links, zone : Blocks \cup {NoBlock}]]
  BY DEF TypeOK
<1>5. s.f \in Files /\ s.f \in imap
  <2>1. s.f \in Files \cup {none}  BY DEF EntryType
  <2>2. s.f \in imap  BY DEF EntryOK
  <2> QED  BY <2>1, <2>2
<1>6. Lasting' = Lasting  BY DEF Lasting
<1>7. TypeOK'  BY <1>1, <1>2, <1>4 DEF TypeOK, EntryType, LocType
<1>8. LocOK'
  <2>1. \A q \in Procs : q # p /\ pc[q] \in {"get", "scan"} => loc[q].f \in named' \cup {top}
    BY DEF LocOK, LocOf
  <2> QED  BY <2>1, LocStep
<1>9. EntryOK'
  <2>1. \A i, j \in Inodes : tab'[i].f = tab'[j].f /\ tab'[i].f # none => i = j  BY <1>2 DEF EntryOK
  <2>2. \A i \in Inodes : i # e => Stored(i)' = Stored(i) /\ tab[i].f # s.f
    BY <1>2 DEF Stored, EntryOK
  <2>3. Stored(e)' = [links |-> s.links, zone |-> s.zone]  BY <1>2 DEF Stored
  <2>4. ASSUME NEW i \in Inodes
        PROVE  /\ tab'[i].f = none => ~tab'[i].lock /\ ~tab'[i].dirt
               /\ tab'[i].f # none => tab'[i].f \in imap'
               /\ tab'[i].count = 0 => ~tab'[i].lock /\ ~tab'[i].dirt
                                       /\ tab'[i].f \in Lasting' \cup {none}
               /\ tab'[i].f \in Lasting' /\ ~Read(i)' => tab'[i].links = 1
               /\ tab'[i].f # none /\ ~Read(i)' /\ ~tab'[i].dirt /\ tab'[i].links = 1 =>
                     disk'[tab'[i].f] = Stored(i)'
    <3>1. CASE i = e  BY <1>2, <1>4, <1>5, <1>6, <2>3, <3>1
    <3>2. CASE i # e
      <4>1. tab[i].f # none => tab[i].f \in Files  BY DEF EntryOK, TypeOK
      <4> QED  BY <1>2, <1>3, <1>4, <1>6, <2>2, <3>2, <4>1 DEF EntryOK
    <3> QED  BY <3>1, <3>2
  <2> QED  BY <2>1, <2>4 DEF EntryOK
<1>10. FileOK'
  <2>1. dir \in named' /\ named' \subseteq Regular \cup {dir} /\ Lasting' \subseteq imap'
    BY <1>6 DEF FileOK
  <2>2. ASSUME NEW f \in Lasting, \A i \in Inodes : tab'[i].f = f => Read(i)'
        PROVE  disk'[f].links = 1
    <3>1. \A i \in Inodes : tab[i].f = f => Read(i)  BY <1>2, <1>3, <2>2
    <3>2. disk[f].links = 1  BY <3>1 DEF FileOK
    <3>3. f \in Files  BY DEF FileOK, TypeOK
    <3>4. f = s.f => d = disk[s.f]  BY <1>2, <2>2
    <3> QED  BY <1>4, <3>2, <3>3, <3>4
  <2>3. ASSUME NEW f \in imap \ Lasting
        PROVE  \E i \in Inodes :
                  /\ tab'[i].f = f
                  /\ tab'[i].links = 0 \/ \E q \in Procs : pc'[q] = "create" /\ loc'[q].ino = i
    <3>1. CASE f = s.f  BY <1>1, <1>2, <3>1
    <3>2. CASE f # s.f
      <4>1. PICK i \in Inodes :
              /\ tab[i].f = f
              /\ tab[i].links = 0 \/ \E q \in Procs : pc[q] = "create" /\ loc[q].ino = i
        BY DEF FileOK
      <4>2. i # e  BY <3>2, <4>1
      <4> QED  BY <1>1, <1>2, <4>1, <4>2
    <3> QED  BY <3>1, <3>2
  <2> QED  BY <1>6, <2>1, <2>2, <2>3 DEF FileOK
<1>11. PlaceOK'
  <2> SUFFICES ASSUME NEW q \in Procs, q # p PROVE PlaceOf(q)'
    BY DEF PlaceOK
  <2>1. pc'[q] = pc[q] /\ loc'[q] = loc[q] /\ PlaceOf(q)  BY <1>1 DEF PlaceOK
  <2>2. Frees(q)' <=> Frees(q)  BY <2>1 DEF Frees
  <2>3. pc[q] = "scan" => tab'[loc[q].empty] = tab[loc[q].empty]
    <3>1. pc[q] = "scan" => loc[q].empty # e  BY <2>1, EmptyFields DEF PlaceOf
    <3>2. pc[q] = "scan" => loc[q].empty \in Inodes  BY Types DEF LocOK, LocOf, LocType
    <3> QED  BY <1>2, <3>1, <3>2
  <2>4. pc[q] \in UserPCs \cup LockerPCs => loc[q].ino \in Inodes
    BY Types DEF LocOK, LocOf, LocType, UserPCs, LockerPCs
  <2>5. CASE loc[q].ino = e  BY <1>2, <2>1, <2>2, <2>3, <2>5 DEF PlaceOf, UserPCs, LockerPCs
  <2>6. CASE loc[q].ino # e
    BY <1>2, <1>3, <2>1, <2>2, <2>3, <2>4, <2>6 DEF PlaceOf, UserPCs, LockerPCs, Frees
  <2> QED  BY <2>5, <2>6
<1>12. AloneOK'  BY AloneStep
<1>13. SuperOK' /\ Unmounting' = Unmounting  BY SuperKept
<1>14. MountOK'
  <2>1. \A i \in Inodes : tab'[i].mount = tab[i].mount  BY <1>2
  <2>2. super.imount # NoInode /\ ~Dropped =>
            tab'[super.imount].f = tab[super.imount].f /\ ~Read(super.imount)'
    <3> SUFFICES ASSUME super.imount # NoInode, ~Dropped
                 PROVE  tab'[super.imount].f = tab[super.imount].f /\ ~Read(super.imount)'
      OBVIOUS
    <3>1. super.imount \in Inodes /\ ~Read(super.imount)  BY Types DEF MountOK
    <3>2. CASE super.imount = e  BY <1>2, <3>1, <3>2 DEF Read
    <3>3. CASE super.imount # e  BY <1>2, <1>1, <3>1, <3>3 DEF Read
    <3> QED  BY <3>2, <3>3
  <2>3. \A i \in Inodes : tab'[i].f = top /\ tab'[i].count > 0 =>
            Mounted \/ (tab[i].f = top /\ tab[i].count > 0)
    BY <1>2
  <2> QED  BY <1>13, <2>1, <2>2, <2>3, MountKept
<1>15. CountExact'
  <2>1. \A i \in Inodes : tab[i].count \in Nat  BY DEF TypeOK
  <2>2. \A i : /\ Num(Empty(p, i)) \in Int /\ Num(Empty(p, i))' \in Int
               /\ Num(Counts(p, i)) \in Int /\ Num(Counts(p, i))' \in Int
               /\ Num(MountRef(i)) \in Int /\ Num(MountRef(i))' \in Int
    BY DEF Num
  <2>3. ASSUME NEW i \in Inodes
        PROVE  tab'[i].count = tab[i].count + Num(Empty(p, i))' - Num(Empty(p, i))
                               + Num(Counts(p, i))' - Num(Counts(p, i))
                               + Num(MountRef(i))' - Num(MountRef(i))
    <3>1. CASE i = e  BY <1>2, <3>1
    <3>2. CASE i # e
      <4>1. /\ Num(Empty(p, i))' = Num(Empty(p, i)) /\ Num(Counts(p, i))' = Num(Counts(p, i))
            /\ Num(MountRef(i))' = Num(MountRef(i))
        BY <3>2 DEF Num
      <4> QED  BY <1>2, <2>1, <2>2, <3>2, <4>1
    <3> QED  BY <3>1, <3>2
  <2> QED  BY <2>3, CountsStep
<1> QED  BY <1>7, <1>8, <1>9, <1>10, <1>11, <1>12, <1>13, <1>14, <1>15

LEMMA DiskSame ==
    ASSUME TypeOK, disk' = disk, NEW g \in Files
    PROVE  /\ disk' = [f \in Files |-> IF f = g THEN disk[g] ELSE disk[f]]
           /\ disk[g] \in [links : Links, zone : Blocks \cup {NoBlock}]
BY DEF TypeOK

LEMMA UnlinkedOrNew ==
    ASSUME EntryOK, FileOK, NEW e \in Inodes, tab[e].f # none, tab[e].f \notin Lasting
    PROVE  tab[e].links = 0 \/ \E q \in Procs : pc[q] = "create" /\ loc[q].ino = e
<1>1. tab[e].f \in imap \ Lasting  BY DEF EntryOK
<1>2. PICK i \in Inodes : /\ tab[i].f = tab[e].f
                          /\ tab[i].links = 0 \/ \E q \in Procs : pc[q] = "create" /\ loc[q].ino = i
  BY <1>1 DEF FileOK
<1>3. i = e  BY <1>2 DEF EntryOK
<1> QED  BY <1>2, <1>3

\* Only i_count, i_lock or i_dirt change.
Marks(e, s) ==
    /\ tab' = [tab EXCEPT ![e] = s] /\ disk' = disk /\ imap' = imap /\ zmap' = zmap /\ lost' = lost
    /\ named' = named /\ super' = super /\ panicked' = panicked
    /\ s.f = tab[e].f /\ s.f # none /\ s.mount = tab[e].mount /\ s.links = tab[e].links
    /\ s.zone = tab[e].zone /\ (~s.dirt => ~tab[e].dirt) /\ (s.count > 0 => tab[e].count > 0)
    /\ s.count = 0 => ~s.lock /\ ~s.dirt /\ s.f \in Lasting

LEMMA EntryQuiet ==
    ASSUME Inv, NEW p \in Procs, NEW l \in PCs, NEW r \in LocType, Moves(p, l, r),
           cpu \in {p, NoProc}, NEW e \in Inodes, NEW s \in EntryType, Marks(e, s),
           {l, pc[p]} \cap {"create", "reading"} = {}, l # "scan", r.zone = loc[p].zone,
           MayGo(p, l, r, e),
           \A q \in Procs : q # p /\ loc[q].ino = e =>
              /\ pc[q] \in LockerPCs => s.lock
              /\ Frees(q) => s.count = 1 /\ ~s.lock,
           CountedIn(p, e, s)
    PROVE  Inv'
<1> USE DEF Inv
<1>1. \A i : Read(i)' <=> Read(i)  BY ReadAfter
<1>2. s.f \in Files  BY DEF EntryType, Marks
<1>3. PICK d \in [links : Links, zone : Blocks \cup {NoBlock}] :
         d = disk[s.f] /\ disk' = [f \in Files |-> IF f = s.f THEN d ELSE disk[f]]
  BY <1>2, DiskSame DEF Marks
<1>4. Writes(e, s, d)
  <2>1. zmap' \subseteq Blocks /\ lost' \subseteq Blocks  BY DEF TypeOK, Marks
  <2> QED  BY <1>3, <2>1 DEF Writes, Marks
<1>5. Reliable(p, e, s, d)
  <2>1. s.f \in Lasting /\ ~Read(e)' => s.links = 1  BY <1>1 DEF EntryOK, Marks
  <2>2. ~Read(e)' /\ ~s.dirt /\ s.links = 1 => d = [links |-> s.links, zone |-> s.zone]
    BY <1>1, <1>3 DEF EntryOK, Stored, Marks
  <2>3. pc[p] # "create"  OBVIOUS
  <2>4. s.f \notin Lasting =>
           s.links = 0 \/ \E q \in Procs : q # p /\ pc[q] = "create" /\ loc[q].ino = e
    BY <2>3, UnlinkedOrNew DEF Marks
  <2> QED  BY <1>1, <1>3, <2>1, <2>2, <2>4 DEF Reliable, Marks
<1>6. OthersGoOn(p, e, s)  BY DEF PlaceOK, PlaceOf, OthersGoOn, Marks
<1>7. TypeOK' /\ EntryOK' => BlocksOK'
  <2> SUFFICES ASSUME TypeOK', EntryOK' PROVE BlocksOK'
    OBVIOUS
  <2>1. \A i \in Inodes : tab'[i].f = tab[i].f /\ tab'[i].zone = tab[i].zone  BY DEF TypeOK, Marks
  <2>2. \A q \in Procs : loc'[q].zone = loc[q].zone  BY Moved
  <2> QED  BY <1>1, <2>1, <2>2, ZonesSame DEF Marks
<1> QED  BY <1>4, <1>5, <1>6, <1>7, EntryStep

LEMMA CountedSame ==
    ASSUME TypeOK, NEW p \in Procs, NEW e \in Inodes, NEW s, s.count = tab[e].count,
           \A i \in Inodes : /\ Empty(p, i)' <=> Empty(p, i)
                             /\ Counts(p, i)' <=> Counts(p, i)
                             /\ MountRef(i)' <=> MountRef(i)
    PROVE  CountedIn(p, e, s)
<1>1. tab[e].count \in Nat  BY DEF TypeOK
<1>2. /\ Num(Empty(p, e))' = Num(Empty(p, e)) /\ Num(Counts(p, e))' = Num(Counts(p, e))
      /\ Num(MountRef(e))' = Num(MountRef(e))
  BY DEF Num
<1>3. Num(Empty(p, e)) \in Int /\ Num(Counts(p, e)) \in Int /\ Num(MountRef(e)) \in Int  BY DEF Num
<1> QED  BY <1>1, <1>2, <1>3 DEF CountedIn

\* An inode is locked to be written.
LEMMA SyncLocksKeeps ==
    ASSUME Safe, Inv, NEW p \in Procs, At(p, "sync"), ~tab[loc[p].ino].lock, tab[loc[p].ino].dirt,
           ~Freeing(loc[p].ino), Lock(p, loc[p].ino, "syncwrite")
    PROVE  Inv'
<1> USE DEF Inv
<1> DEFINE e == loc[p].ino
           s == [tab[e] EXCEPT !.lock = TRUE]
<1>1. /\ Moves(p, "syncwrite", loc[p]) /\ pc[p] = "sync" /\ cpu \in {p, NoProc}
      /\ tab' = [tab EXCEPT ![e] = s] /\ disk' = disk /\ imap' = imap
      /\ zmap' = zmap /\ lost' = lost
      /\ named' = named /\ super' = super /\ panicked' = panicked
  BY DEF At, Lock, Set, Moves, Sleep, bitmaps
<1>2. e \in Inodes /\ loc[p].empty = NoInode /\ loc[p].zone = NoBlock /\ loc[p].ret = "user"
  BY <1>1, Types DEF LocOK, LocOf, LocType
<1>3. /\ s \in EntryType /\ s.f = tab[e].f /\ s.count = tab[e].count /\ s.lock = TRUE
      /\ s.dirt = tab[e].dirt /\ s.mount = tab[e].mount /\ s.links = tab[e].links
      /\ s.zone = tab[e].zone
  BY <1>2, Types, EntryFlags
<1>4. pc'[p] = "syncwrite" /\ loc'[p] = loc[p] /\ \A q \in Procs : q # p => pc'[q] = pc[q]
  BY <1>1, Moved
<1>5. tab[e].f # none /\ tab[e].count # 0  BY <1>2 DEF EntryOK
<1>6. tab'[e].lock  BY <1>1, <1>2, <1>3 DEF TypeOK
<1>7. \A q \in Procs : ~(pc[q] = "truncate" /\ loc[q].ino = e /\ loc[q].ret # "held")
  BY DEF Freeing, Safe
<1>8. "syncwrite" \in PCs /\ loc[p] \in LocType  BY Types DEF PCs
<1> HIDE DEF s
<1>9. Marks(e, s)  BY <1>1, <1>3, <1>5 DEF Marks
<1>10. MayGo(p, "syncwrite", loc[p], e)
  <2>1. LocOf(p)'  BY <1>2, <1>4, Names DEF LocOf
  <2>2. PlaceOf(p)'  BY <1>4, <1>6 DEF PlaceOf, UserPCs, LockerPCs, Frees
  <2>3. \A q \in Procs : q # p => Apart(p, q)' /\ Apart(q, p)'
    <3>1. \A q \in Procs : q # p /\ loc[q].ino = e => pc[q] \notin LockerPCs
      BY DEF PlaceOK, PlaceOf
    <3> QED  BY <1>1, <3>1, ApartFrom DEF UserPCs
  <2> QED  BY <1>1, <1>2, <2>1, <2>2, <2>3 DEF MayGo
<1>11. \A q \in Procs : q # p /\ loc[q].ino = e =>
          /\ pc[q] \in LockerPCs => s.lock
          /\ Frees(q) => s.count = 1 /\ ~s.lock
  BY <1>3, <1>7 DEF Frees
<1>12. CountedIn(p, e, s)
  <2>1. \A i \in Inodes : /\ Empty(p, i)' <=> Empty(p, i)
                          /\ Counts(p, i)' <=> Counts(p, i)
                          /\ MountRef(i)' <=> MountRef(i)
    BY <1>1, <1>2, <1>4 DEF Empty, Counts, MountRef, Dropped
  <2> QED  BY <1>2, <1>3, <2>1, CountedSame
<1> QED  BY <1>1, <1>2, <1>3, <1>8, <1>9, <1>10, <1>11, <1>12, EntryQuiet

LEMMA IputLocksKeeps ==
    ASSUME Inv, NEW p \in Procs, At(p, "iput"), ~tab[loc[p].ino].lock,
           tab[loc[p].ino].count = 1, Lock(p, loc[p].ino, "iwrite")
    PROVE  Inv'
<1> USE DEF Inv
<1> DEFINE e == loc[p].ino
           s == [tab[e] EXCEPT !.lock = TRUE]
<1>1. /\ Moves(p, "iwrite", loc[p]) /\ pc[p] = "iput" /\ cpu \in {p, NoProc}
      /\ tab' = [tab EXCEPT ![e] = s] /\ disk' = disk /\ imap' = imap
      /\ zmap' = zmap /\ lost' = lost
      /\ named' = named /\ super' = super /\ panicked' = panicked
  BY DEF At, Lock, Set, Moves, Sleep, bitmaps
<1>2. pc[p] \in UserPCs  BY <1>1 DEF UserPCs
<1>3. /\ e \in Inodes /\ loc[p].empty = NoInode /\ loc[p].zone = NoBlock
      /\ tab[e].f # none /\ ~Read(e) /\ loc[p].ret # "held"
      /\ \A q \in Procs : q # p /\ pc[q] \in UserPCs \cup {"reading"} => loc[q].ino # e
  BY <1>1, <1>2, Names, UserFacts
<1>4. /\ s \in EntryType /\ s.f = tab[e].f /\ s.count = tab[e].count /\ s.lock = TRUE
      /\ s.dirt = tab[e].dirt /\ s.mount = tab[e].mount /\ s.links = tab[e].links
      /\ s.zone = tab[e].zone
  BY <1>3, Types, EntryFlags
<1>5. pc'[p] = "iwrite" /\ loc'[p] = loc[p] /\ \A q \in Procs : q # p => pc'[q] = pc[q]
  BY <1>1, Moved
<1>6. tab'[e] = s  BY <1>1, <1>3 DEF TypeOK
<1>7. \A d : Read(d)' <=> Read(d)  BY <1>1, ReadAfter
<1>8. "iwrite" \in PCs /\ loc[p] \in LocType  BY Types DEF PCs
<1> HIDE DEF s
<1>9. Marks(e, s)  BY <1>1, <1>3, <1>4 DEF Marks
<1>10. MayGo(p, "iwrite", loc[p], e)
  <2>1. LocOf(p)'  BY <1>3, <1>5, Names DEF LocOf
  <2>2. PlaceOf(p)'  BY <1>3, <1>4, <1>5, <1>6, <1>7 DEF PlaceOf, UserPCs, LockerPCs, Frees
  <2>3. \A q \in Procs : q # p => Apart(p, q)' /\ Apart(q, p)'
    <3>1. \A q \in Procs : q # p /\ loc[q].ino = e => pc[q] \notin LockerPCs
      BY DEF PlaceOK, PlaceOf
    <3>2. \A q \in Procs : q # p /\ loc[q].ino = e => pc[q] # "create" /\ ~Frees(q)
      BY <1>3 DEF Frees, UserPCs
    <3> QED  BY <1>1, <3>1, <3>2, ApartFrom
  <2> QED  BY <1>1, <1>3, <2>1, <2>2, <2>3 DEF MayGo
<1>11. \A q \in Procs : q # p /\ loc[q].ino = e =>
          /\ pc[q] \in LockerPCs => s.lock
          /\ Frees(q) => s.count = 1 /\ ~s.lock
  BY <1>3, <1>4 DEF Frees, UserPCs
<1>12. CountedIn(p, e, s)
  <2>1. \A i \in Inodes : /\ Empty(p, i)' <=> Empty(p, i)
                          /\ Counts(p, i)' <=> Counts(p, i)
                          /\ MountRef(i)' <=> MountRef(i)
    BY <1>1, <1>5 DEF Empty, Counts, MountRef, Dropped
  <2> QED  BY <1>3, <1>4, <2>1, CountedSame
<1> QED  BY <1>1, <1>3, <1>4, <1>8, <1>9, <1>10, <1>11, <1>12, EntryQuiet

LEMMA ChangeKeeps ==
    ASSUME Inv, NEW p \in Procs, Change(p) PROVE Inv'
<1> USE DEF Inv
<1> DEFINE e == loc[p].ino
           s == [tab[e] EXCEPT !.dirt = TRUE]
<1>1. /\ pc[p] = "held" /\ cpu \in {p, NoProc} /\ cpu' = cpu /\ pc' = pc /\ loc' = loc
      /\ tab' = [tab EXCEPT ![e] = s] /\ disk' = disk /\ imap' = imap
      /\ zmap' = zmap /\ lost' = lost
      /\ named' = named /\ super' = super /\ panicked' = panicked
  BY DEF Change, Regularly, At, Set, bitmaps
<1>2. Moves(p, pc[p], loc[p])  BY <1>1 DEF Moves, TypeOK
<1>3. pc[p] \in UserPCs  BY <1>1 DEF UserPCs
<1>4. /\ e \in Inodes /\ tab[e].f # none /\ ~Read(e) /\ tab[e].count >= 1
      /\ tab[e].count \in Nat /\ loc[p].ret # "put_super"
  BY <1>1, <1>3, Names, UserFacts
<1>5. /\ s \in EntryType /\ s.f = tab[e].f /\ s.count = tab[e].count /\ s.lock = tab[e].lock
      /\ s.dirt = TRUE /\ s.mount = tab[e].mount /\ s.links = tab[e].links
      /\ s.zone = tab[e].zone
  BY <1>4, Types, EntryFlags
<1>6. pc[p] \in PCs /\ loc[p] \in LocType  BY Types
<1>7. tab'[e] = s  BY <1>1, <1>4 DEF TypeOK
<1> HIDE DEF s
<1>8. Marks(e, s)  BY <1>1, <1>4, <1>5 DEF Marks
<1>9. MayGo(p, pc[p], loc[p], e)
  <2>1. LocOf(p)'  BY <1>1 DEF LocOK, LocOf
  <2>2. PlaceOf(p)'  BY <1>1, <1>4, <1>5, <1>7 DEF PlaceOf, UserPCs, LockerPCs, Frees, Read
  <2>3. \A q \in Procs : q # p => Apart(p, q)' /\ Apart(q, p)'  BY <1>1 DEF AloneOK, Apart, Frees
  <2> QED  BY <1>1, <1>4, <2>1, <2>2, <2>3 DEF MayGo
<1>10. \A q \in Procs : q # p /\ loc[q].ino = e =>
          /\ pc[q] \in LockerPCs => s.lock
          /\ Frees(q) => s.count = 1 /\ ~s.lock
  BY <1>5 DEF PlaceOK, PlaceOf
<1>11. CountedIn(p, e, s)
  <2>1. \A i \in Inodes : /\ Empty(p, i)' <=> Empty(p, i)
                          /\ Counts(p, i)' <=> Counts(p, i)
                          /\ MountRef(i)' <=> MountRef(i)
    BY <1>1 DEF Empty, Counts, MountRef, Dropped
  <2> QED  BY <1>4, <1>5, <2>1, CountedSame
<1> QED  BY <1>1, <1>2, <1>4, <1>5, <1>6, <1>8, <1>9, <1>10, <1>11, EntryQuiet

\* A reference is put.
LEMMA IputReturnsKeeps ==
    ASSUME Inv, NEW p \in Procs, At(p, "iput"), ~tab[loc[p].ino].lock,
           \/ tab[loc[p].ino].count > 1
           \/ tab[loc[p].ino].count = 1 /\ tab[loc[p].ino].links = 1 /\ ~tab[loc[p].ino].dirt,
           Set(loc[p].ino, [tab[loc[p].ino] EXCEPT !.count = @ - 1]), Returns(p),
           UNCHANGED <<disk, bitmaps, named, super, panicked>>
    PROVE  Inv'
<1> USE DEF Inv
<1>0. PICK e \in Inodes : e = loc[p].ino  BY UserFacts DEF At, UserPCs
<1> DEFINE l == loc[p].ret
           s == [tab[e] EXCEPT !.count = @ - 1]
<1>1. /\ Moves(p, l, NoLoc) /\ pc[p] = "iput" /\ cpu \in {p, NoProc}
      /\ tab' = [tab EXCEPT ![e] = s] /\ disk' = disk /\ imap' = imap
      /\ zmap' = zmap /\ lost' = lost
      /\ named' = named /\ super' = super /\ panicked' = panicked
  BY <1>0 DEF At, Returns, Set, Moves, Sleep, bitmaps
<1>2. pc[p] \in UserPCs  BY <1>1 DEF UserPCs
<1>3. /\ e \in Inodes /\ loc[p].empty = NoInode /\ loc[p].zone = NoBlock
      /\ tab[e].f # none /\ l \in {"user", "put_super"} /\ tab[e].count \in Nat
      /\ \A q \in Procs : q # p /\ pc[q] \in UserPCs \cup {"reading"} /\ loc[q].ino = e
                          => tab[e].count >= 2
  BY <1>0, <1>1, <1>2, Names, UserFacts
<1>4. tab[e].count >= 1  BY <1>0, <1>3
<1>5. /\ s \in EntryType /\ s.f = tab[e].f /\ s.count = tab[e].count - 1 /\ s.lock = tab[e].lock
      /\ s.dirt = tab[e].dirt /\ s.mount = tab[e].mount /\ s.links = tab[e].links
      /\ s.zone = tab[e].zone
  <2>1. tab[e].count - 1 \in Nat  BY <1>3, <1>4
  <2>2. s = [tab[e] EXCEPT !.count = tab[e].count - 1]  OBVIOUS
  <2> QED  BY <1>3, <2>1, <2>2, Types, EntryFields
<1>6. /\ \A q \in Procs : pc'[q] = IF q = p THEN l ELSE pc[q]
      /\ \A q \in Procs : loc'[q] = IF q = p THEN NoLoc ELSE loc[q]
  BY <1>1, Moved
<1>7. l \in PCs  BY <1>3 DEF PCs
<1>8. s.count = 0 => ~s.lock /\ ~s.dirt /\ s.f \in Lasting
  <2> SUFFICES ASSUME tab[e].count = 1 PROVE ~tab[e].dirt /\ tab[e].f \in Lasting
    BY <1>0, <1>3, <1>5
  <2>1. \A q \in Procs : pc[q] = "create" => loc[q].ino # e  BY <1>1, <1>3 DEF UserPCs
  <2> QED  BY <1>0, <1>3, <2>1, UnlinkedOrNew
<1> HIDE DEF s
<1>9. Marks(e, s)  BY <1>1, <1>3, <1>4, <1>5, <1>8 DEF Marks
<1> HIDE DEF l
<1>10. MayGo(p, l, NoLoc, e)
  <2>1. LocOf(p)'  BY <1>3, <1>6, NoLocFields DEF LocOf
  <2>2. PlaceOf(p)'  BY <1>3, <1>6 DEF PlaceOf, UserPCs, LockerPCs, Frees
  <2>3. \A q \in Procs : q # p => Apart(p, q)' /\ Apart(q, p)'
    BY <1>0, <1>1, <1>3, ApartFrom DEF UserPCs, LockerPCs
  <2>4. loc[p].ret = "put_super" => l = "put_super"  BY DEF l
  <2>5. l = "put_super" => loc[p].ret = "put_super"  BY DEF l
  <2> QED  BY <1>1, <1>3, <2>1, <2>2, <2>3, <2>4, <2>5, NoLocFields DEF MayGo
<1>11. \A q \in Procs : q # p /\ loc[q].ino = e =>
          /\ pc[q] \in LockerPCs => s.lock
          /\ Frees(q) => s.count = 1 /\ ~s.lock
  <2>1. \A q \in Procs : q # p /\ loc[q].ino = e => ~Frees(q)  BY <1>0, <1>2 DEF AloneOK, Apart
  <2> QED  BY <1>5, <2>1 DEF PlaceOK, PlaceOf
<1>12. CountedIn(p, e, s)
  <2>1. \A i \in Inodes : ~Empty(p, i) /\ ~Empty(p, i)' /\ ~Counts(p, i)'
    BY <1>3, <1>6, NoLocFields, Names DEF Empty, Counts
  <2>2. \A i \in Inodes : i # e => ~Counts(p, i)  BY <1>0 DEF Counts
  <2>5. ~Empty(p, e) /\ ~Empty(p, e)' /\ ~Counts(p, e)'  BY <1>3, <2>1
  <2>3. CASE l = "user"
    <3>1. Counts(p, e)  BY <1>0, <1>1, <2>3 DEF Counts, l
    <3>2. \A i \in Inodes : MountRef(i)' <=> MountRef(i)  BY <1>1, <1>6, <2>3 DEF MountRef, Dropped
    <3>3. /\ Num(Empty(p, e))' = 0 /\ Num(Empty(p, e)) = 0 /\ Num(Counts(p, e))' = 0
          /\ Num(Counts(p, e)) = 1 /\ Num(MountRef(e))' = Num(MountRef(e))
          /\ Num(MountRef(e)) \in Int
      BY <1>3, <2>5, <3>1, <3>2 DEF Num
    <3> QED  BY <1>3, <1>5, <2>1, <2>2, <3>2, <3>3 DEF CountedIn
  <2>4. CASE l = "put_super"
    <3>1. ~Counts(p, e) /\ super.imount = e /\ p \in Unmounting
      BY <1>0, <2>4 DEF Counts, SuperOK, l, Unmounting
    <3>2. ~Dropped  BY <1>1, <3>1 DEF Dropped, SuperOK, Unmounting
    <3>3. Dropped'  BY <1>6, <2>4 DEF Dropped
    <3>4. \A i \in Inodes : ~MountRef(i)' /\ (MountRef(i) <=> i = e)
      BY <3>1, <3>2, <3>3 DEF MountRef
    <3>5. /\ Num(Empty(p, e))' = 0 /\ Num(Empty(p, e)) = 0 /\ Num(Counts(p, e))' = 0
          /\ Num(Counts(p, e)) = 0 /\ Num(MountRef(e))' = 0 /\ Num(MountRef(e)) = 1
      BY <1>3, <2>5, <3>1, <3>4 DEF Num
    <3>6. \A i \in Inodes : i # e => /\ Empty(p, i)' <=> Empty(p, i)
                                     /\ Counts(p, i)' <=> Counts(p, i)
                                     /\ MountRef(i)' <=> MountRef(i)
      BY <2>1, <2>2, <3>4
    <3> QED  BY <1>3, <1>5, <3>5, <3>6 DEF CountedIn
  <2> QED  BY <1>3, <2>3, <2>4
<1>13. {l, pc[p]} \cap {"create", "reading"} = {} /\ l # "scan" /\ NoLoc.zone = loc[p].zone
  BY <1>1, <1>3, NoLocFields
<1> QED  BY <1>1, <1>3, <1>5, <1>7, <1>9, <1>10, <1>11, <1>12, <1>13, NoLocFields, EntryQuiet

\* write_inode(): the entry is copied to its block.
LEMMA WrittenKeeps ==
    ASSUME Inv, NEW p \in Procs, NEW l \in PCs, NEW r \in LocType, Moves(p, l, r),
           cpu \in {p, NoProc}, pc[p] \in {"syncwrite", "iwrite"}, l # "reading",
           NEW e \in Inodes, e = loc[p].ino, r.zone = loc[p].zone,
           disk' = [f \in Files |-> IF f = tab[e].f THEN Stored(e) ELSE disk[f]],
           Set(e, [tab[e] EXCEPT !.dirt = FALSE, !.lock = FALSE]),
           UNCHANGED <<bitmaps, named, super, panicked>>,
           tab'[e].f # none /\ ~Read(e)' => MayGo(p, l, r, e),
           \A i \in Inodes : /\ Empty(p, i)' <=> Empty(p, i)
                             /\ Counts(p, i)' <=> Counts(p, i)
                             /\ MountRef(i)' <=> MountRef(i)
    PROVE  Inv'
<1> USE DEF Inv
<1>1. PICK s \in EntryType :
         /\ tab' = [tab EXCEPT ![e] = s] /\ s.f = tab[e].f /\ s.count = tab[e].count
         /\ s.lock = FALSE /\ s.dirt = FALSE /\ s.mount = tab[e].mount
         /\ s.links = tab[e].links /\ s.zone = tab[e].zone
  <2> DEFINE t == [tab[e] EXCEPT !.dirt = FALSE]
  <2>1. /\ t \in EntryType /\ t.f = tab[e].f /\ t.count = tab[e].count /\ t.lock = tab[e].lock
        /\ t.dirt = FALSE /\ t.mount = tab[e].mount /\ t.links = tab[e].links
        /\ t.zone = tab[e].zone
    BY Types, EntryFlags
  <2> DEFINE s == [t EXCEPT !.lock = FALSE]
  <2>2. tab' = [tab EXCEPT ![e] = s]  BY DEF Set
  <2> HIDE DEF t
  <2>3. /\ s \in EntryType /\ s.f = t.f /\ s.count = t.count /\ s.lock = FALSE
        /\ s.dirt = t.dirt /\ s.mount = t.mount /\ s.links = t.links /\ s.zone = t.zone
    BY <2>1, EntryFlags
  <2> HIDE DEF s
  <2> QED  BY <2>1, <2>2, <2>3
<1>2. tab'[e] = s /\ \A i \in Inodes : i # e => tab'[i] = tab[i]  BY <1>1 DEF TypeOK
<1>3. /\ tab[e].lock /\ \A q \in Procs : q # p /\ pc[q] \in LockerPCs => loc[q].ino # e
  BY DEF PlaceOK, PlaceOf, AloneOK, Apart, LockerPCs
<1>4. ~Read(e)  BY <1>3 DEF Read, LockerPCs
<1>5. tab[e].f # none /\ tab[e].f \in Files /\ tab[e].count # 0
  BY <1>3, Types DEF EntryOK, EntryType
<1>6. \A i : Read(i)' <=> Read(i)  BY ReadAfter
<1>7. PICK d \in [links : Links, zone : Blocks \cup {NoBlock}] :
         d = [links |-> s.links, zone |-> s.zone] /\ d = Stored(e)
  BY <1>1 DEF EntryType, Stored
<1>8. Writes(e, s, d)
  <2>1. zmap' \subseteq Blocks /\ lost' \subseteq Blocks  BY DEF TypeOK, bitmaps
  <2> QED  BY <1>1, <1>5, <1>7, <2>1 DEF Writes, bitmaps
<1>9. Reliable(p, e, s, d)
  <2>1. s.f \in Lasting => s.links = 1  BY <1>1, <1>4 DEF EntryOK
  <2>2. s.f \notin Lasting =>
           s.links = 0 \/ \E q \in Procs : q # p /\ pc[q] = "create" /\ loc[q].ino = e
    BY <1>1, <1>5, UnlinkedOrNew
  <2> QED  BY <1>1, <1>4, <1>5, <1>6, <1>7, <2>1, <2>2 DEF Reliable
<1>10. MayGo(p, l, r, e)  BY <1>1, <1>2, <1>4, <1>5, <1>6
<1>11. OthersGoOn(p, e, s)  BY <1>1, <1>3 DEF OthersGoOn, PlaceOK, PlaceOf
<1>12. CountedIn(p, e, s)  BY <1>1, CountedSame
<1>13. TypeOK' /\ EntryOK' => BlocksOK'
  <2> SUFFICES ASSUME TypeOK', EntryOK' PROVE BlocksOK'
    OBVIOUS
  <2>1. HoldersAre /\ HoldersAre'  BY HoldersNow, HoldersThen
  <2>2. ASSUME NEW f \in Files, NEW b \in Blocks PROVE Holder(f, b)' <=> Holder(f, b)
    <3>1. \A i \in Inodes : /\ Has(i, f)' <=> Has(i, f)
                            /\ tab'[i].zone = tab[i].zone
      BY <1>1, <1>2, <1>6 DEF Has
    <3>2. (\A i \in Inodes : ~Has(i, f)) => disk'[f] = disk[f]  BY <1>4 DEF Has
    <3>3. Holder(f, b) <=> /\ f \in imap
                           /\ \/ \E i \in Inodes : Has(i, f) /\ tab[i].zone = b
                              \/ (\A i \in Inodes : ~Has(i, f)) /\ disk[f].zone = b
      BY <2>1 DEF HoldersAre
    <3>4. Holder(f, b)' <=> /\ f \in imap'
                            /\ \/ \E i \in Inodes : Has(i, f)' /\ tab'[i].zone = b
                               \/ (\A i \in Inodes : ~Has(i, f)') /\ disk'[f].zone = b
      BY <2>1 DEF HoldersAre
    <3>5. imap' = imap  BY DEF bitmaps
    <3> QED  BY <3>1, <3>2, <3>3, <3>4, <3>5
  <2>3. zmap' = zmap /\ lost' = lost /\ \A q \in Procs : loc'[q].zone = loc[q].zone
    BY Moved DEF bitmaps
  <2> QED  BY <2>2, <2>3, BlocksSame
<1> QED  BY <1>8, <1>9, <1>10, <1>11, <1>12, <1>13, EntryStep

LEMMA SyncDoneKeeps ==
    ASSUME Inv, NEW p \in Procs, SyncDone(p) PROVE Inv'
<1> USE DEF Inv
<1>1. /\ Moves(p, "user", NoLoc) /\ pc[p] = "syncwrite" /\ cpu \in {p, NoProc}
  BY DEF SyncDone, Written, At, Moves, Sleep
<1>2. PICK e \in Inodes : e = loc[p].ino  BY <1>1, Types DEF LocOK, LocOf, LocType
<1>3. /\ disk' = [f \in Files |-> IF f = tab[e].f THEN Stored(e) ELSE disk[f]]
      /\ Set(e, [tab[e] EXCEPT !.dirt = FALSE, !.lock = FALSE])
      /\ UNCHANGED <<bitmaps, named, super, panicked>>
  BY <1>2 DEF SyncDone, Written
<1>4. loc[p].empty = NoInode /\ loc[p].zone = NoBlock /\ loc[p].ret = "user"
  BY <1>1, Types DEF LocOK, LocOf, LocType
<1>5. pc'[p] = "user" /\ loc'[p] = NoLoc /\ \A q \in Procs : q # p => pc'[q] = pc[q]  BY <1>1, Moved
<1>6. MayGo(p, "user", NoLoc, e)
  <2>1. LocOf(p)'  BY <1>5, NoLocFields DEF LocOf
  <2>2. PlaceOf(p)'  BY <1>5 DEF PlaceOf, UserPCs, LockerPCs, Frees
  <2>3. \A q \in Procs : q # p => Apart(p, q)' /\ Apart(q, p)'
    BY <1>1, ApartFrom DEF UserPCs, LockerPCs
  <2> QED  BY <1>1, <1>4, <2>1, <2>2, <2>3, NoLocFields DEF MayGo
<1>7. \A i \in Inodes : /\ Empty(p, i)' <=> Empty(p, i)
                        /\ Counts(p, i)' <=> Counts(p, i)
                        /\ MountRef(i)' <=> MountRef(i)
  <2>1. \A i \in Inodes : ~Empty(p, i) /\ ~Empty(p, i)' /\ ~Counts(p, i) /\ ~Counts(p, i)'
    BY <1>1, <1>4, <1>5, NoLocFields, Names DEF Empty, Counts
  <2>2. \A i \in Inodes : MountRef(i)' <=> MountRef(i)  BY <1>1, <1>3, <1>5 DEF MountRef, Dropped
  <2> QED  BY <2>1, <2>2
<1>8. "user" \in PCs  BY DEF PCs
<1> QED  BY <1>1, <1>2, <1>3, <1>4, <1>6, <1>7, <1>8, NoLocFields, WrittenKeeps

LEMMA IputWrittenKeeps ==
    ASSUME Inv, NEW p \in Procs, IputWritten(p) PROVE Inv'
<1> USE DEF Inv
<1>1. /\ Moves(p, "iput", loc[p]) /\ pc[p] = "iwrite" /\ cpu \in {p, NoProc}
  BY DEF IputWritten, Written, At, Moves, Goto
<1>2. pc[p] \in UserPCs  BY <1>1 DEF UserPCs
<1>3. PICK e \in Inodes : e = loc[p].ino  BY <1>2, UserFacts
<1>4. /\ disk' = [f \in Files |-> IF f = tab[e].f THEN Stored(e) ELSE disk[f]]
      /\ Set(e, [tab[e] EXCEPT !.dirt = FALSE, !.lock = FALSE])
      /\ UNCHANGED <<bitmaps, named, super, panicked>>
  BY <1>3 DEF IputWritten, Written
<1>5. loc[p].empty = NoInode /\ loc[p].zone = NoBlock /\ loc[p].ret # "held"
  BY <1>1, <1>2, UserFacts
<1>6. pc'[p] = "iput" /\ loc'[p] = loc[p] /\ \A q \in Procs : q # p => pc'[q] = pc[q]
  BY <1>1, Moved
<1>7. ASSUME tab'[e].f # none, ~Read(e)' PROVE MayGo(p, "iput", loc[p], e)
  <2>1. LocOf(p)'  BY <1>3, <1>5, <1>6, Names DEF LocOf
  <2>2. PlaceOf(p)'  BY <1>3, <1>6, <1>7 DEF PlaceOf, UserPCs, LockerPCs, Frees
  <2>3. \A q \in Procs : q # p => Apart(p, q)' /\ Apart(q, p)'
    <3>1. \A q \in Procs : q # p /\ (pc[q] = "create" \/ Frees(q)) => loc[p].ino # loc[q].ino
      BY <1>2 DEF AloneOK, Apart
    <3> QED  BY <1>1, <3>1, ApartFrom DEF LockerPCs
  <2> QED  BY <1>1, <1>5, <2>1, <2>2, <2>3 DEF MayGo
<1>8. \A i \in Inodes : /\ Empty(p, i)' <=> Empty(p, i)
                        /\ Counts(p, i)' <=> Counts(p, i)
                        /\ MountRef(i)' <=> MountRef(i)
  BY <1>1, <1>4, <1>6 DEF Empty, Counts, MountRef, Dropped
<1>9. "iput" \in PCs /\ loc[p] \in LocType  BY Types DEF PCs
<1> QED  BY <1>1, <1>3, <1>4, <1>7, <1>8, <1>9, WrittenKeeps

LEMMA ReadInodeKeeps ==
    ASSUME Inv, NEW p \in Procs, read_inode(p) PROVE Inv'
<1> USE DEF Inv
<1>1. /\ Moves(p, "held", loc[p]) /\ pc[p] = "reading" /\ cpu \in {p, NoProc}
      /\ disk' = disk /\ imap' = imap /\ zmap' = zmap /\ lost' = lost
      /\ named' = named /\ super' = super
      /\ panicked' = panicked
  BY DEF read_inode, At, Moves, Sleep, bitmaps
<1>2. PICK e \in Inodes : e = loc[p].ino  BY <1>1, Types DEF LocOK, LocOf, LocType
<1>3. /\ loc[p].empty = NoInode /\ loc[p].zone = NoBlock /\ loc[p].ret = "user"
      /\ loc[p] \in LocType /\ "held" \in PCs
  BY <1>1, Types DEF LocOK, LocOf, LocType, PCs
<1>4. tab[e].f \in Lasting /\ tab[e].f \in Files /\ tab[e].f # none
  <2>1. tab[e].f \in Lasting  BY <1>1, <1>2 DEF PlaceOK, PlaceOf, Lasting
  <2>2. tab[e].f \in Files  BY <2>1, Types, Names DEF Lasting
  <2> QED  BY <2>1, <2>2, Names
<1>5. PICK d \in [links : Links, zone : Blocks \cup {NoBlock}] :
         /\ d = disk[tab[e].f]
         /\ disk' = [f \in Files |-> IF f = tab[e].f THEN d ELSE disk[f]]
  BY <1>1, <1>4, DiskSame
<1>6. d.links \in Links /\ d.zone \in Blocks \cup {NoBlock}  OBVIOUS
<1>7. PICK s \in EntryType :
         /\ tab' = [tab EXCEPT ![e] = s] /\ s.f = tab[e].f /\ s.count = tab[e].count
         /\ s.lock = FALSE /\ s.dirt = tab[e].dirt /\ s.mount = tab[e].mount
         /\ s.links = d.links /\ s.zone = d.zone
  <2> DEFINE t == [tab[e] EXCEPT !.links = d.links]
  <2>1. /\ t \in EntryType /\ t.f = tab[e].f /\ t.count = tab[e].count /\ t.lock = tab[e].lock
        /\ t.dirt = tab[e].dirt /\ t.mount = tab[e].mount /\ t.links = d.links
        /\ t.zone = tab[e].zone
    BY <1>6, Types, EntryFields
  <2> DEFINE u == [t EXCEPT !.zone = d.zone]
             s == [u EXCEPT !.lock = FALSE]
  <2>2. tab' = [tab EXCEPT ![e] = s]  BY <1>2, <1>5 DEF read_inode, Set, Loaded
  <2> HIDE DEF t
  <2>3. /\ u \in EntryType /\ u.f = t.f /\ u.count = t.count /\ u.lock = t.lock
        /\ u.dirt = t.dirt /\ u.mount = t.mount /\ u.links = t.links /\ u.zone = d.zone
    BY <1>6, <2>1, EntryFields
  <2> HIDE DEF u
  <2>4. /\ s \in EntryType /\ s.f = u.f /\ s.count = u.count /\ s.lock = FALSE
        /\ s.dirt = u.dirt /\ s.mount = u.mount /\ s.links = u.links /\ s.zone = u.zone
    BY <2>3, EntryFlags
  <2> HIDE DEF s
  <2> QED  BY <2>1, <2>2, <2>3, <2>4
<1>8. tab'[e] = s /\ \A i \in Inodes : i # e => tab'[i] = tab[i]  BY <1>7 DEF TypeOK
<1>9. /\ pc'[p] = "held" /\ loc'[p] = loc[p]
      /\ \A q \in Procs : q # p => pc'[q] = pc[q] /\ loc'[q] = loc[q]
  BY <1>1, Moved
<1>10. \A q \in Procs : q # p /\ pc[q] \in LockerPCs => loc[q].ino # e
  BY <1>1, <1>2 DEF AloneOK, Apart, LockerPCs
<1>11. Read(e) /\ ~Read(e)' /\ \A i : i # e => (Read(i)' <=> Read(i))
  BY <1>1, <1>2, <1>9, <1>10 DEF Read, LockerPCs
<1>12. \A q \in Procs : q # p /\ loc[q].ino = e => pc[q] \notin UserPCs
  BY <1>11 DEF PlaceOK, PlaceOf
<1>13. tab[e].count >= 1 /\ tab[e].count \in Nat
  <2>1. Uses(p, e)  BY <1>1, <1>2 DEF Uses
  <2> QED  BY <2>1, UsersCounted, Types DEF EntryType
<1>14. Writes(e, s, d)
  <2>1. zmap' \subseteq Blocks /\ lost' \subseteq Blocks  BY <1>1 DEF TypeOK
  <2> QED  BY <1>1, <1>4, <1>5, <1>7, <1>13, <2>1 DEF Writes
<1>15. Reliable(p, e, s, d)
  <2>1. \A i \in Inodes : tab[i].f = tab[e].f => Read(i)  BY <1>4, <1>11 DEF EntryOK
  <2>2. d.links = 1  BY <1>4, <1>5, <2>1 DEF FileOK
  <2>3. d = [links |-> d.links, zone |-> d.zone]  OBVIOUS
  <2> QED  BY <1>4, <1>7, <1>11, <1>13, <2>2, <2>3 DEF Reliable
<1>16. MayGo(p, "held", loc[p], e)
  <2>1. LocOf(p)'  BY <1>2, <1>3, <1>9, Names DEF LocOf
  <2>2. PlaceOf(p)'  BY <1>2, <1>4, <1>7, <1>8, <1>9, <1>11 DEF PlaceOf, UserPCs, LockerPCs, Frees
  <2>3. \A q \in Procs : q # p => Apart(p, q)' /\ Apart(q, p)'
    <3>1. \A q \in Procs : q # p /\ loc[q].ino = loc[p].ino => pc[q] # "create" /\ ~Frees(q)
      BY <1>2, <1>12 DEF UserPCs, Frees
    <3> QED  BY <1>1, <3>1, ApartFrom DEF LockerPCs
  <2> QED  BY <1>1, <1>2, <1>3, <2>1, <2>2, <2>3 DEF MayGo
<1>17. OthersGoOn(p, e, s)  BY <1>10, <1>12 DEF OthersGoOn, UserPCs, Frees
<1>18. CountedIn(p, e, s)
  <2>1. \A i \in Inodes : /\ Empty(p, i)' <=> Empty(p, i)
                          /\ Counts(p, i)' <=> Counts(p, i)
                          /\ MountRef(i)' <=> MountRef(i)
    BY <1>1, <1>9 DEF Empty, Counts, MountRef, Dropped
  <2> QED  BY <1>7, <2>1, CountedSame
<1>19. TypeOK' /\ EntryOK' => BlocksOK'
  <2> SUFFICES ASSUME TypeOK', EntryOK' PROVE BlocksOK'
    OBVIOUS
  <2>1. HoldersAre /\ HoldersAre'  BY HoldersNow, HoldersThen
  <2>2. ASSUME NEW f \in Files, NEW b \in Blocks PROVE Holder(f, b)' <=> Holder(f, b)
    <3>1. /\ \A i \in Inodes : i # e => (Has(i, f)' <=> Has(i, f)) /\ tab'[i].zone = tab[i].zone
          /\ Has(e, f)' <=> tab[e].f = f
          /\ ~Has(e, f) /\ tab'[e].zone = d.zone
      BY <1>7, <1>8, <1>11 DEF Has
    <3>2. tab[e].f = f => d = disk[f] /\ \A i \in Inodes : ~Has(i, f)
      BY <1>4, <1>5, <1>11 DEF Has, EntryOK
    <3>3. Holder(f, b) <=> /\ f \in imap
                           /\ \/ \E i \in Inodes : Has(i, f) /\ tab[i].zone = b
                              \/ (\A i \in Inodes : ~Has(i, f)) /\ disk[f].zone = b
      BY <2>1 DEF HoldersAre
    <3>4. Holder(f, b)' <=> /\ f \in imap'
                            /\ \/ \E i \in Inodes : Has(i, f)' /\ tab'[i].zone = b
                               \/ (\A i \in Inodes : ~Has(i, f)') /\ disk'[f].zone = b
      BY <2>1 DEF HoldersAre
    <3>5. CASE tab[e].f = f
      <4>1. \A i \in Inodes : Has(i, f)' <=> i = e  BY <3>1, <3>2, <3>5
      <4> QED  BY <1>1, <3>1, <3>2, <3>3, <3>4, <3>5, <4>1
    <3>6. CASE tab[e].f # f
      <4>1. \A i \in Inodes : Has(i, f)' <=> Has(i, f)  BY <3>1, <3>6
      <4> QED  BY <1>1, <3>1, <3>3, <3>4, <3>6, <4>1
    <3> QED  BY <3>5, <3>6
  <2>3. \A q \in Procs : loc'[q].zone = loc[q].zone  BY <1>9
  <2> QED  BY <1>1, <2>2, <2>3, BlocksSame
<1> QED  BY <1>1, <1>3, <1>14, <1>15, <1>16, <1>17, <1>18, <1>19, EntryStep

----------------------------------------------------------------------------
(* truncate() frees the block of an inode.                                 *)

LEMMA BlockFreed ==
    ASSUME BlocksOK, lost \subseteq Blocks, NEW g \in Files, NEW z, zmap' = zmap \ {z},
           lost' = lost,
           z \in Blocks => Holder(g, z), \A b \in Blocks : Holder(g, b) => b = z,
           \A f \in Files, b \in Blocks : Holder(f, b)' <=> Holder(f, b) /\ f # g,
           \A q \in Procs : loc'[q].zone = loc[q].zone
    PROVE  BlocksOK'
<1> SUFFICES ASSUME NEW b \in Blocks
             PROVE  /\ \A f, h \in Files : Holder(f, b)' /\ Holder(h, b)' => f = h
                    /\ \A x, q \in Procs : loc'[x].zone = b /\ loc'[q].zone = b => x = q
                    /\ \A f \in Files, q \in Procs : ~(Holder(f, b)' /\ loc'[q].zone = b)
                    /\ b \in zmap' \ lost' <=> (\E f \in Files : Holder(f, b)')
                                       \/ (\E q \in Procs : loc'[q].zone = b)
  <2>1. z \notin lost
    <3>1. z \in Blocks => z \in zmap \ lost  BY DEF BlocksOK
    <3> QED  BY <3>1 DEF BlocksOK
  <2>2. lost' \subseteq zmap'  BY <2>1 DEF BlocksOK
  <2> QED  BY <2>2 DEF BlocksOK
<1>1. /\ \A f, h \in Files : Holder(f, b)' /\ Holder(h, b)' => f = h
      /\ \A x, q \in Procs : loc'[x].zone = b /\ loc'[q].zone = b => x = q
      /\ \A f \in Files, q \in Procs : ~(Holder(f, b)' /\ loc'[q].zone = b)
  BY DEF BlocksOK
<1>2. CASE b = z
  <2>1. /\ \A f \in Files : ~Holder(f, b)'
        /\ \A q \in Procs : loc'[q].zone # b
    BY <1>2 DEF BlocksOK
  <2> QED  BY <1>1, <1>2, <2>1
<1>3. CASE b # z
  <2>1. \A f \in Files : Holder(f, b)' <=> Holder(f, b)  BY <1>3
  <2> QED  BY <1>1, <1>3, <2>1 DEF BlocksOK
<1> QED  BY <1>2, <1>3

\* truncate() for a caller that keeps the inode.
LEMMA FreedHeldKeeps ==
    ASSUME Inv, NEW p \in Procs, Freed(p), loc[p].ret = "held" PROVE Inv'
<1> USE DEF Inv
<1>1. PICK e \in Inodes : e = loc[p].ino  BY UserFacts DEF Freed, At, UserPCs
<1> DEFINE r == [NoLoc EXCEPT !.ino = e]
           z == tab[e].zone
<1>2. /\ Moves(p, "held", r) /\ pc[p] = "truncate" /\ cpu \in {p, NoProc}
      /\ tab' = [tab EXCEPT ![e] = [tab[e] EXCEPT !.zone = NoBlock, !.dirt = TRUE]]
      /\ disk' = disk /\ imap' = imap /\ zmap' = zmap \ {z} /\ lost' = lost /\ named' = named
      /\ super' = super /\ panicked' = panicked
  BY <1>1 DEF Freed, free_block, At, Set, Moves, Sleep
<1>3. /\ r \in LocType /\ r.f = none /\ r.ino = e /\ r.empty = NoInode /\ r.zone = NoBlock
      /\ r.ret = "user"
  BY NoLocFields, LocFields
<1>4. pc[p] \in UserPCs  BY <1>2 DEF UserPCs
<1>5. /\ loc[p].empty = NoInode /\ loc[p].zone = NoBlock /\ ~Read(e) /\ tab[e].count >= 1
      /\ tab[e].count \in Nat /\ tab[e].f \in imap
  BY <1>1, <1>2, <1>4, UserFacts
<1>6. tab[e].f \in Regular /\ tab[e].f \in Files /\ tab[e].f # none /\ tab[e].f # top
  BY <1>1, <1>2, Names DEF PlaceOK, PlaceOf
<1>7. PICK s \in EntryType :
         /\ tab' = [tab EXCEPT ![e] = s] /\ s.f = tab[e].f /\ s.count = tab[e].count
         /\ s.lock = tab[e].lock /\ s.dirt = TRUE /\ s.mount = tab[e].mount
         /\ s.links = tab[e].links /\ s.zone = NoBlock
  <2> DEFINE t == [tab[e] EXCEPT !.zone = NoBlock]
             s == [t EXCEPT !.dirt = TRUE]
  <2>1. /\ t \in EntryType /\ t.f = tab[e].f /\ t.count = tab[e].count /\ t.lock = tab[e].lock
        /\ t.dirt = tab[e].dirt /\ t.mount = tab[e].mount /\ t.links = tab[e].links
        /\ t.zone = NoBlock
    BY Types, EntryFields
  <2>2. tab' = [tab EXCEPT ![e] = s]  BY <1>2
  <2> HIDE DEF t
  <2>3. /\ s \in EntryType /\ s.f = t.f /\ s.count = t.count /\ s.lock = t.lock
        /\ s.dirt = TRUE /\ s.mount = t.mount /\ s.links = t.links /\ s.zone = t.zone
    BY <2>1, EntryFlags
  <2> HIDE DEF s
  <2> QED  BY <2>1, <2>2, <2>3
<1> HIDE DEF r
<1>8. tab'[e] = s /\ \A i \in Inodes : i # e => tab'[i] = tab[i]  BY <1>7 DEF TypeOK
<1>9. /\ pc'[p] = "held" /\ loc'[p] = r
      /\ \A q \in Procs : q # p => pc'[q] = pc[q] /\ loc'[q] = loc[q]
  BY <1>2, Moved
<1>10. \A i : Read(i)' <=> Read(i)  BY <1>2, ReadAfter
<1>11. PICK d \in [links : Links, zone : Blocks \cup {NoBlock}] :
         d = disk[s.f] /\ disk' = [f \in Files |-> IF f = s.f THEN d ELSE disk[f]]
  BY <1>2, <1>6, <1>7, DiskSame
<1>12. \A q \in Procs : q # p /\ (pc[q] = "create" \/ Frees(q)) => loc[q].ino # e
  BY <1>1, <1>4 DEF AloneOK, Apart
<1>13. Writes(e, s, d)
  <2>1. zmap' \subseteq Blocks /\ lost' \subseteq Blocks  BY <1>2 DEF TypeOK
  <2> QED  BY <1>2, <1>6, <1>7, <1>11, <2>1 DEF Writes
<1>14. Reliable(p, e, s, d)
  <2>1. s.f \in Lasting => s.links = 1  BY <1>5, <1>7 DEF EntryOK
  <2>2. s.f \notin Lasting =>
           s.links = 0 \/ \E q \in Procs : q # p /\ pc[q] = "create" /\ loc[q].ino = e
    BY <1>2, <1>6, <1>7, UnlinkedOrNew
  <2> QED  BY <1>5, <1>7, <1>10, <2>1, <2>2 DEF Reliable
<1>15. MayGo(p, "held", r, e)
  <2>1. LocOf(p)'  BY <1>3, <1>9, Names DEF LocOf
  <2>2. PlaceOf(p)'
    BY <1>3, <1>5, <1>6, <1>7, <1>8, <1>9, <1>10 DEF PlaceOf, UserPCs, LockerPCs, Frees
  <2>3. \A q \in Procs : q # p => Apart(p, q)' /\ Apart(q, p)'
    BY <1>2, <1>3, <1>12, ApartFrom DEF LockerPCs
  <2> QED  BY <1>2, <1>3, <2>1, <2>2, <2>3 DEF MayGo
<1>16. OthersGoOn(p, e, s)  BY <1>7, <1>12 DEF OthersGoOn, PlaceOK, PlaceOf
<1>17. CountedIn(p, e, s)
  <2>1. \A i \in Inodes : /\ Empty(p, i)' <=> Empty(p, i)
                          /\ Counts(p, i)' <=> Counts(p, i)
                          /\ MountRef(i)' <=> MountRef(i)
    BY <1>1, <1>2, <1>3, <1>5, <1>9 DEF Empty, Counts, MountRef, Dropped
  <2> QED  BY <1>7, <2>1, CountedSame
<1>18. TypeOK' /\ EntryOK' => BlocksOK'
  <2> SUFFICES ASSUME TypeOK', EntryOK' PROVE BlocksOK'
    OBVIOUS
  <2>1. HoldersAre /\ HoldersAre'  BY HoldersNow, HoldersThen
  <2>2. ASSUME NEW f \in Files, NEW b \in Blocks
        PROVE  Holder(f, b)' <=> Holder(f, b) /\ f # tab[e].f
    <3>1. \A i \in Inodes : /\ Has(i, f)' <=> Has(i, f)
                            /\ i # e => tab'[i].zone = tab[i].zone
      BY <1>7, <1>8, <1>10 DEF Has
    <3>2. tab'[e].zone # b /\ (Has(e, f) <=> tab[e].f = f)  BY <1>5, <1>7, <1>8, Names DEF Has
    <3>3. Holder(f, b) <=> /\ f \in imap
                           /\ \/ \E i \in Inodes : Has(i, f) /\ tab[i].zone = b
                              \/ (\A i \in Inodes : ~Has(i, f)) /\ disk[f].zone = b
      BY <2>1 DEF HoldersAre
    <3>4. Holder(f, b)' <=> /\ f \in imap'
                            /\ \/ \E i \in Inodes : Has(i, f)' /\ tab'[i].zone = b
                               \/ (\A i \in Inodes : ~Has(i, f)') /\ disk'[f].zone = b
      BY <2>1 DEF HoldersAre
    <3>5. CASE f = tab[e].f
      <4>1. \A i \in Inodes : Has(i, f) => i = e  BY <1>6, <3>5 DEF Has, EntryOK
      <4> QED  BY <3>1, <3>2, <3>4, <3>5, <4>1
    <3>6. CASE f # tab[e].f
      <4>1. ~Has(e, f)  BY <3>2, <3>6
      <4> QED  BY <1>2, <3>1, <3>3, <3>4, <3>6, <4>1
    <3> QED  BY <3>5, <3>6
  <2>3. \A q \in Procs : loc'[q].zone = loc[q].zone  BY <1>3, <1>5, <1>9
  <2>4. z \in Blocks => Holder(tab[e].f, z)
    <3>1. Has(e, tab[e].f)  BY <1>5 DEF Has
    <3> QED  BY <1>5, <1>6, <2>1, <3>1 DEF HoldersAre
  <2>5. \A b \in Blocks : Holder(tab[e].f, b) => b = z
    <3>1. Has(e, tab[e].f) /\ \A i \in Inodes : Has(i, tab[e].f) => i = e
      BY <1>5, <1>6 DEF Has, EntryOK
    <3> QED  BY <1>6, <2>1, <3>1 DEF HoldersAre
  <2> HIDE DEF z
  <2>6. lost \subseteq Blocks  BY DEF TypeOK
  <2> QED  BY <1>2, <1>6, <2>2, <2>3, <2>4, <2>5, <2>6, BlockFreed
<1>19. "held" \in PCs  BY DEF PCs
<1> QED  BY <1>2, <1>3, <1>13, <1>14, <1>15, <1>16, <1>17, <1>18, <1>19, EntryStep

\* create_block(): the block is the inode's.
LEMMA ExtendedKeeps ==
    ASSUME Inv, NEW p \in Procs, Extended(p) PROVE Inv'
<1> USE DEF Inv
<1>1. PICK e \in Inodes : e = loc[p].ino  BY UserFacts DEF Extended, At, UserPCs
<1> DEFINE r == [loc[p] EXCEPT !.zone = NoBlock]
           z == loc[p].zone
<1>2. /\ Moves(p, "held", r) /\ pc[p] = "block" /\ cpu \in {p, NoProc}
      /\ tab' = [tab EXCEPT ![e] = [tab[e] EXCEPT !.zone = z, !.dirt = TRUE]]
      /\ disk' = disk /\ imap' = imap /\ zmap' = zmap /\ named' = named
      /\ lost' = lost \cup ({tab[e].zone} \ {NoBlock})
      /\ super' = super /\ panicked' = panicked
  BY <1>1 DEF Extended, At, Set, Moves, Sleep, bitmaps
<1>3. /\ r \in LocType /\ r.f = loc[p].f /\ r.ino = e /\ r.empty = loc[p].empty
      /\ r.zone = NoBlock /\ r.ret = loc[p].ret
  BY <1>1, Types, LocFields
<1>4. pc[p] \in UserPCs  BY <1>2 DEF UserPCs
<1>5. /\ loc[p].empty = NoInode /\ z \in Blocks /\ ~Read(e) /\ tab[e].count >= 1
      /\ tab[e].count \in Nat /\ tab[e].f \in imap /\ loc[p].ret = "user"
  <2>1. z \in Blocks \cup {NoBlock} /\ z # NoBlock  BY <1>2, Types DEF LocType, LocOK, LocOf
  <2> QED  BY <1>1, <1>2, <1>4, <2>1, UserFacts
<1>6. tab[e].f \in Regular /\ tab[e].f \in Files /\ tab[e].f # none /\ tab[e].f # top
      /\ tab[e].zone \in Blocks \cup {NoBlock}
  BY <1>1, <1>2, Names, Types DEF PlaceOK, PlaceOf, EntryType
<1>7. PICK s \in EntryType :
         /\ tab' = [tab EXCEPT ![e] = s] /\ s.f = tab[e].f /\ s.count = tab[e].count
         /\ s.lock = tab[e].lock /\ s.dirt = TRUE /\ s.mount = tab[e].mount
         /\ s.links = tab[e].links /\ s.zone = z
  <2> DEFINE t == [tab[e] EXCEPT !.zone = z]
             s == [t EXCEPT !.dirt = TRUE]
  <2>1. /\ t \in EntryType /\ t.f = tab[e].f /\ t.count = tab[e].count /\ t.lock = tab[e].lock
        /\ t.dirt = tab[e].dirt /\ t.mount = tab[e].mount /\ t.links = tab[e].links
        /\ t.zone = z
    BY <1>5, Types, EntryFields
  <2>2. tab' = [tab EXCEPT ![e] = s]  BY <1>2
  <2> HIDE DEF t
  <2>3. /\ s \in EntryType /\ s.f = t.f /\ s.count = t.count /\ s.lock = t.lock
        /\ s.dirt = TRUE /\ s.mount = t.mount /\ s.links = t.links /\ s.zone = t.zone
    BY <2>1, EntryFlags
  <2> HIDE DEF s
  <2> QED  BY <2>1, <2>2, <2>3
<1> HIDE DEF r
<1>8. tab'[e] = s /\ \A i \in Inodes : i # e => tab'[i] = tab[i]  BY <1>7 DEF TypeOK
<1>9. /\ pc'[p] = "held" /\ loc'[p] = r
      /\ \A q \in Procs : q # p => pc'[q] = pc[q] /\ loc'[q] = loc[q]
  BY <1>2, Moved
<1>10. \A i : Read(i)' <=> Read(i)  BY <1>2, ReadAfter
<1>11. PICK d \in [links : Links, zone : Blocks \cup {NoBlock}] :
         d = disk[s.f] /\ disk' = [f \in Files |-> IF f = s.f THEN d ELSE disk[f]]
  BY <1>2, <1>6, <1>7, DiskSame
<1>12. \A q \in Procs : q # p /\ (pc[q] = "create" \/ Frees(q)) => loc[q].ino # e
  BY <1>1, <1>2, <1>4 DEF AloneOK, Apart
<1>13. Writes(e, s, d)
  <2>1. zmap' \subseteq Blocks /\ lost' \subseteq Blocks  BY <1>2 DEF TypeOK
  <2> QED  BY <1>2, <1>6, <1>7, <1>11, <2>1 DEF Writes
<1>14. Reliable(p, e, s, d)
  <2>1. s.f \in Lasting => s.links = 1  BY <1>5, <1>7 DEF EntryOK
  <2>2. s.f \notin Lasting =>
           s.links = 0 \/ \E q \in Procs : q # p /\ pc[q] = "create" /\ loc[q].ino = e
    BY <1>2, <1>6, <1>7, UnlinkedOrNew
  <2> QED  BY <1>5, <1>7, <1>10, <2>1, <2>2 DEF Reliable
<1>15. MayGo(p, "held", r, e)
  <2>1. LocOf(p)'  BY <1>3, <1>5, <1>9, Names DEF LocOf
  <2>2. PlaceOf(p)'
    BY <1>3, <1>5, <1>6, <1>7, <1>8, <1>9, <1>10 DEF PlaceOf, UserPCs, LockerPCs, Frees
  <2>3. \A q \in Procs : q # p => Apart(p, q)' /\ Apart(q, p)'
    BY <1>2, <1>3, <1>12, ApartFrom DEF LockerPCs
  <2> QED  BY <1>2, <1>3, <1>5, <2>1, <2>2, <2>3 DEF MayGo
<1>16. OthersGoOn(p, e, s)  BY <1>7, <1>12 DEF OthersGoOn, PlaceOK, PlaceOf
<1>17. CountedIn(p, e, s)
  <2>1. \A i \in Inodes : /\ Empty(p, i)' <=> Empty(p, i)
                          /\ Counts(p, i)' <=> Counts(p, i)
                          /\ MountRef(i)' <=> MountRef(i)
    BY <1>1, <1>2, <1>3, <1>5, <1>9 DEF Empty, Counts, MountRef, Dropped
  <2> QED  BY <1>7, <2>1, CountedSame
<1>18. TypeOK' /\ EntryOK' => BlocksOK'
  <2> SUFFICES ASSUME TypeOK', EntryOK' PROVE BlocksOK'
    OBVIOUS
  <2>1. HoldersAre /\ HoldersAre'  BY HoldersNow, HoldersThen
  <2>2. ASSUME NEW f \in Files, NEW b \in Blocks
        PROVE  /\ Holder(f, b)' <=> IF f = tab[e].f THEN b = z ELSE Holder(f, b)
               /\ f = tab[e].f => (Holder(f, b) <=> b = tab[e].zone)
    <3>1. \A i \in Inodes : /\ Has(i, f)' <=> Has(i, f)
                            /\ i # e => tab'[i].zone = tab[i].zone
      BY <1>7, <1>8, <1>10 DEF Has
    <3>2. /\ tab'[e].zone = z /\ (Has(e, f) <=> tab[e].f = f) /\ (Has(e, f)' <=> tab[e].f = f)
      BY <1>5, <1>6, <1>7, <1>8, <1>10, Names DEF Has
    <3>3. Holder(f, b) <=> /\ f \in imap
                           /\ \/ \E i \in Inodes : Has(i, f) /\ tab[i].zone = b
                              \/ (\A i \in Inodes : ~Has(i, f)) /\ disk[f].zone = b
      BY <2>1 DEF HoldersAre
    <3>4. Holder(f, b)' <=> /\ f \in imap'
                            /\ \/ \E i \in Inodes : Has(i, f)' /\ tab'[i].zone = b
                               \/ (\A i \in Inodes : ~Has(i, f)') /\ disk'[f].zone = b
      BY <2>1 DEF HoldersAre
    <3>5. CASE f = tab[e].f
      <4>1. \A i \in Inodes : Has(i, f) => i = e  BY <1>6, <3>5 DEF Has, EntryOK
      <4>2. Holder(f, b) <=> b = tab[e].zone  BY <1>5, <3>2, <3>3, <3>5, <4>1
      <4>3. Holder(f, b)' <=> b = z  BY <1>2, <1>5, <3>1, <3>2, <3>4, <3>5, <4>1
      <4> QED  BY <3>5, <4>2, <4>3
    <3>6. CASE f # tab[e].f
      <4>1. ~Has(e, f)  BY <3>2, <3>6
      <4> QED  BY <1>2, <3>1, <3>3, <3>4, <3>6, <4>1
    <3> QED  BY <3>5, <3>6
  <2>3. \A q \in Procs : loc'[q].zone = IF q = p THEN NoBlock ELSE loc[q].zone  BY <1>3, <1>9
  <2>4. lost' \subseteq zmap' /\ NoBlock \notin Blocks /\ lost' \subseteq lost \cup {tab[e].zone}
    <3>1. tab[e].zone \in Blocks => tab[e].zone \in zmap  BY <1>6, <2>2 DEF BlocksOK
    <3> QED  BY <1>2, <1>6, <3>1, Names DEF BlocksOK
  <2> SUFFICES ASSUME NEW b \in Blocks
               PROVE  /\ \A f, g \in Files : Holder(f, b)' /\ Holder(g, b)' => f = g
                      /\ \A x, q \in Procs : loc'[x].zone = b /\ loc'[q].zone = b => x = q
                      /\ \A f \in Files, q \in Procs : ~(Holder(f, b)' /\ loc'[q].zone = b)
                      /\ b \in zmap' \ lost' <=> (\E f \in Files : Holder(f, b)')
                                         \/ (\E q \in Procs : loc'[q].zone = b)
    BY <2>4 DEF BlocksOK
  <2>5. /\ \A f, g \in Files : Holder(f, b) /\ Holder(g, b) => f = g
        /\ \A x, q \in Procs : loc[x].zone = b /\ loc[q].zone = b => x = q
        /\ \A f \in Files, q \in Procs : ~(Holder(f, b) /\ loc[q].zone = b)
        /\ b \in zmap \ lost <=> (\E f \in Files : Holder(f, b))
                                 \/ (\E q \in Procs : loc[q].zone = b)
    BY DEF BlocksOK
  <2>6. CASE b = z
    <3>1. \A f \in Files : ~Holder(f, b)  BY <2>5, <2>6
    <3>2. /\ \A q \in Procs : q # p => loc[q].zone # b
          /\ b \in zmap \ lost
      BY <2>5, <2>6
    <3>3. b # tab[e].zone  BY <1>6, <2>2, <3>1
    <3>4. \A f \in Files : Holder(f, b)' <=> f = tab[e].f  BY <2>2, <2>6, <3>1
    <3>5. \A q \in Procs : loc'[q].zone # b  BY <2>3, <2>4, <3>2
    <3> QED  BY <1>2, <1>6, <2>4, <3>2, <3>3, <3>4, <3>5
  <2>7. CASE b # z /\ b = tab[e].zone
    <3>1. Holder(tab[e].f, b)  BY <1>6, <2>2, <2>7
    <3>2. \A f \in Files : ~Holder(f, b)'  BY <1>6, <2>2, <2>5, <2>7, <3>1
    <3>3. \A q \in Procs : loc'[q].zone # b  BY <1>6, <2>3, <2>4, <2>5, <3>1
    <3>4. b \in lost'  BY <1>2, <2>4, <2>7
    <3> QED  BY <3>2, <3>3, <3>4
  <2>8. CASE b # z /\ b # tab[e].zone
    <3>1. \A f \in Files : Holder(f, b)' <=> Holder(f, b)  BY <2>2, <2>8
    <3>2. \A q \in Procs : loc'[q].zone = b <=> loc[q].zone = b  BY <2>3, <2>4, <2>8
    <3>3. b \in lost' <=> b \in lost  BY <1>2, <2>8
    <3> QED  BY <1>2, <2>5, <3>1, <3>2, <3>3
  <2> QED  BY <2>6, <2>7, <2>8
<1>19. "held" \in PCs  BY DEF PCs
<1> QED  BY <1>2, <1>3, <1>13, <1>14, <1>15, <1>16, <1>17, <1>18, <1>19, EntryStep

\* There is no room for the new name: the link goes.
LEMMA NotNamedKeeps ==
    ASSUME Inv, NEW p \in Procs, At(p, "create"),
           Set(loc[p].ino, [tab[loc[p].ino] EXCEPT !.links = 0]), Goto(p, "iput", loc[p]),
           UNCHANGED <<disk, bitmaps, named, super, panicked>>
    PROVE  Inv'
<1> USE DEF Inv
<1>1. PICK e \in Inodes : e = loc[p].ino  BY UserFacts DEF At, UserPCs
<1>2. /\ Moves(p, "iput", loc[p]) /\ pc[p] = "create" /\ cpu \in {p, NoProc}
      /\ tab' = [tab EXCEPT ![e] = [tab[e] EXCEPT !.links = 0]]
      /\ disk' = disk /\ imap' = imap /\ zmap' = zmap /\ lost' = lost /\ named' = named
      /\ super' = super /\ panicked' = panicked
  BY <1>1 DEF At, Set, Moves, Goto, bitmaps
<1>3. pc[p] \in UserPCs  BY <1>2 DEF UserPCs
<1>4. /\ loc[p].empty = NoInode /\ loc[p].zone = NoBlock /\ ~Read(e) /\ tab[e].count >= 1
      /\ tab[e].count \in Nat /\ loc[p].ret = "user"
  BY <1>1, <1>2, <1>3, UserFacts
<1>5. tab[e].f \in Regular /\ tab[e].f \in Files /\ tab[e].f # none /\ tab[e].f # top
      /\ tab[e].f \notin Lasting
  BY <1>1, <1>2, Names DEF PlaceOK, PlaceOf, Lasting
<1>6. PICK s \in EntryType :
         /\ tab' = [tab EXCEPT ![e] = s] /\ s.f = tab[e].f /\ s.count = tab[e].count
         /\ s.lock = tab[e].lock /\ s.dirt = tab[e].dirt /\ s.mount = tab[e].mount
         /\ s.links = 0 /\ s.zone = tab[e].zone
  <2> DEFINE s == [tab[e] EXCEPT !.links = 0]
  <2>1. 0 \in Links  BY DEF Links
  <2>2. tab' = [tab EXCEPT ![e] = s]  BY <1>2
  <2>3. /\ s \in EntryType /\ s.f = tab[e].f /\ s.count = tab[e].count
        /\ s.lock = tab[e].lock /\ s.dirt = tab[e].dirt /\ s.mount = tab[e].mount
        /\ s.links = 0 /\ s.zone = tab[e].zone
    BY <2>1, Types, EntryFields
  <2> HIDE DEF s
  <2> QED  BY <2>2, <2>3
<1>7. tab'[e] = s /\ \A i \in Inodes : i # e => tab'[i] = tab[i]  BY <1>6 DEF TypeOK
<1>8. /\ pc'[p] = "iput" /\ loc'[p] = loc[p]
      /\ \A q \in Procs : q # p => pc'[q] = pc[q] /\ loc'[q] = loc[q]
  BY <1>2, Moved
<1>9. \A i : Read(i)' <=> Read(i)  BY <1>2, ReadAfter
<1>10. PICK d \in [links : Links, zone : Blocks \cup {NoBlock}] :
         d = disk[s.f] /\ disk' = [f \in Files |-> IF f = s.f THEN d ELSE disk[f]]
  BY <1>2, <1>5, <1>6, DiskSame
<1>11. \A q \in Procs : q # p /\ loc[q].ino = e => pc[q] \notin UserPCs
  BY <1>1, <1>2 DEF AloneOK, Apart
<1>12. Writes(e, s, d)
  <2>1. zmap' \subseteq Blocks /\ lost' \subseteq Blocks  BY <1>2 DEF TypeOK
  <2> QED  BY <1>2, <1>5, <1>6, <1>10, <2>1 DEF Writes
<1>13. Reliable(p, e, s, d)  BY <1>4, <1>5, <1>6, <1>9 DEF Reliable
<1>14. MayGo(p, "iput", loc[p], e)
  <2>1. LocOf(p)'  BY <1>1, <1>4, <1>8, Names DEF LocOf
  <2>2. PlaceOf(p)'
    BY <1>1, <1>4, <1>5, <1>6, <1>7, <1>8, <1>9 DEF PlaceOf, UserPCs, LockerPCs, Frees
  <2>3. \A q \in Procs : q # p => Apart(p, q)' /\ Apart(q, p)'
    BY <1>1, <1>2, <1>11, ApartFrom DEF LockerPCs, UserPCs, Frees
  <2> QED  BY <1>1, <1>2, <1>4, <2>1, <2>2, <2>3 DEF MayGo
<1>15. OthersGoOn(p, e, s)  BY <1>6, <1>11 DEF OthersGoOn, PlaceOK, PlaceOf, UserPCs, Frees
<1>16. CountedIn(p, e, s)
  <2>1. \A i \in Inodes : /\ Empty(p, i)' <=> Empty(p, i)
                          /\ Counts(p, i)' <=> Counts(p, i)
                          /\ MountRef(i)' <=> MountRef(i)
    BY <1>2, <1>8 DEF Empty, Counts, MountRef, Dropped
  <2> QED  BY <1>6, <2>1, CountedSame
<1>17. TypeOK' /\ EntryOK' => BlocksOK'
  <2> SUFFICES ASSUME TypeOK', EntryOK' PROVE BlocksOK'
    OBVIOUS
  <2>1. \A i \in Inodes : tab'[i].f = tab[i].f /\ tab'[i].zone = tab[i].zone  BY <1>6, <1>7
  <2>2. \A q \in Procs : loc'[q].zone = loc[q].zone  BY <1>8
  <2> QED  BY <1>2, <1>9, <2>1, <2>2, ZonesSame
<1>18. "iput" \in PCs /\ loc[p] \in LocType  BY Types DEF PCs
<1> QED  BY <1>2, <1>4, <1>12, <1>13, <1>14, <1>15, <1>16, <1>17, <1>18, EntryStep

----------------------------------------------------------------------------
(* Steps that put another inode in an entry.                               *)

\* The entry e, which nobody else uses, becomes s.
Replaces(e, s) ==
    /\ tab' = [tab EXCEPT ![e] = s] /\ disk' = disk /\ zmap' \subseteq Blocks /\ lost' \subseteq Blocks
    /\ named' = named /\ super' = super /\ panicked' = panicked
    /\ ~tab[e].mount /\ ~s.mount /\ (super.imount = e => Dropped)
    /\ imap' \subseteq imap \cup {s.f} /\ imap' \subseteq Files /\ Lasting \subseteq imap'
    /\ tab[e].f \notin imap' \ Lasting
    /\ tab[e].f \in Lasting => disk[tab[e].f].links = 1
    /\ \A i \in Inodes : i # e /\ tab[i].f # none => tab[i].f \in imap' /\ tab[i].f # s.f
\* What is in it now can be relied on.
IsReliable(p, e, s) ==
    /\ s.f = none => ~s.lock /\ ~s.dirt
    /\ s.f # none => s.f \in imap'
    /\ s.count = 0 => ~s.lock /\ ~s.dirt /\ s.f \in Lasting \cup {none}
    /\ s.f \in Lasting /\ ~Read(e)' => s.links = 1
    /\ s.f # none /\ ~Read(e)' /\ ~s.dirt /\ s.links = 1 =>
          disk[s.f] = [links |-> s.links, zone |-> s.zone]
    /\ s.f \in imap' \ Lasting => s.links = 0 \/ (pc'[p] = "create" /\ loc'[p].ino = e)
    /\ s.f = top /\ s.count > 0 => Mounted
\* The others do not have it.
Unshared(p, e) ==
    \A q \in Procs : q # p =>
        /\ loc[q].ino = e => pc[q] \notin UserPCs \cup LockerPCs
        /\ loc[q].empty # e

LEMMA ReplaceStep ==
    ASSUME Inv, NEW p \in Procs, NEW l \in PCs, NEW r \in LocType, Moves(p, l, r),
           cpu \in {p, NoProc}, NEW e \in Inodes, NEW s \in EntryType,
           Replaces(e, s), IsReliable(p, e, s), Unshared(p, e),
           pc[p] \notin {"reading", "create", "rsuper", "mounting", "put_super"},
           l \notin {"rsuper", "mounting", "put_super"}, l = "reading" => r.ino = e,
           loc[p].ret # "put_super", r.ret # "put_super",
           l = "scan" /\ r.f = top => Mounted \/ p \in Entering,
           LocOf(p)', PlaceOf(p)',
           \A q \in Procs : q # p => Apart(p, q)' /\ Apart(q, p)',
           \A i \in Inodes :
              tab'[i].count = tab[i].count + Num(Empty(p, i))' - Num(Empty(p, i))
                              + Num(Counts(p, i))' - Num(Counts(p, i)),
           TypeOK' /\ EntryOK' => BlocksOK'
    PROVE  Inv'
<1> USE DEF Inv, Replaces, IsReliable, Unshared
<1>1. /\ \A q \in Procs : q # p => pc'[q] = pc[q] /\ loc'[q] = loc[q]
      /\ pc'[p] = l /\ loc'[p] = r
      /\ pc' \in [Procs -> PCs] /\ loc' \in [Procs -> LocType] /\ cpu' \in Procs \cup {NoProc}
  BY Moved
<1>2. /\ tab'[e] = s /\ \A i \in Inodes : i # e => tab'[i] = tab[i]
      /\ tab' \in [Inodes -> EntryType]
  BY DEF TypeOK, EntryType
<1>3. \A i : i # e => (Read(i)' <=> Read(i))  BY <1>1 DEF Read
<1>4. Lasting' = Lasting  BY DEF Lasting
<1>5. TypeOK'  BY <1>1, <1>2 DEF TypeOK, EntryType, LocType
<1>6. LocOK'
  <2>1. \A q \in Procs : q # p /\ pc[q] \in {"get", "scan"} => loc[q].f \in named' \cup {top}
    BY DEF LocOK, LocOf
  <2> QED  BY <2>1, LocStep
<1>7. EntryOK'
  <2>1. \A i, j \in Inodes : tab'[i].f = tab'[j].f /\ tab'[i].f # none => i = j  BY <1>2 DEF EntryOK
  <2>2. \A i \in Inodes : i # e => Stored(i)' = Stored(i)  BY <1>2 DEF Stored
  <2>3. Stored(e)' = [links |-> s.links, zone |-> s.zone]  BY <1>2 DEF Stored
  <2>4. ASSUME NEW i \in Inodes
        PROVE  /\ tab'[i].f = none => ~tab'[i].lock /\ ~tab'[i].dirt
               /\ tab'[i].f # none => tab'[i].f \in imap'
               /\ tab'[i].count = 0 => ~tab'[i].lock /\ ~tab'[i].dirt
                                       /\ tab'[i].f \in Lasting' \cup {none}
               /\ tab'[i].f \in Lasting' /\ ~Read(i)' => tab'[i].links = 1
               /\ tab'[i].f # none /\ ~Read(i)' /\ ~tab'[i].dirt /\ tab'[i].links = 1 =>
                     disk'[tab'[i].f] = Stored(i)'
    <3>1. CASE i = e  BY <1>2, <1>4, <2>3, <3>1
    <3>2. CASE i # e  BY <1>2, <1>3, <1>4, <2>2, <3>2 DEF EntryOK
    <3> QED  BY <3>1, <3>2
  <2> QED  BY <2>1, <2>4 DEF EntryOK
<1>8. FileOK'
  <2>1. dir \in named' /\ named' \subseteq Regular \cup {dir} /\ Lasting' \subseteq imap'
    BY <1>4 DEF FileOK
  <2>2. ASSUME NEW f \in Lasting, \A i \in Inodes : tab'[i].f = f => Read(i)'
        PROVE  disk'[f].links = 1
    <3>1. CASE f = tab[e].f  BY <3>1
    <3>2. CASE f # tab[e].f
      <4>1. \A i \in Inodes : tab[i].f = f => Read(i)  BY <1>2, <1>3, <2>2, <3>2
      <4> QED  BY <4>1 DEF FileOK
    <3> QED  BY <3>1, <3>2
  <2>3. ASSUME NEW f \in imap' \ Lasting
        PROVE  \E i \in Inodes :
                  /\ tab'[i].f = f
                  /\ tab'[i].links = 0 \/ \E q \in Procs : pc'[q] = "create" /\ loc'[q].ino = i
    <3>1. CASE f = s.f  BY <1>1, <1>2, <3>1
    <3>2. CASE f # s.f
      <4>1. PICK i \in Inodes :
              /\ tab[i].f = f
              /\ tab[i].links = 0 \/ \E q \in Procs : pc[q] = "create" /\ loc[q].ino = i
        BY <3>2 DEF FileOK
      <4>2. i # e  BY <4>1
      <4> QED  BY <1>1, <1>2, <4>1, <4>2
    <3> QED  BY <3>1, <3>2
  <2> QED  BY <1>4, <2>1, <2>2, <2>3 DEF FileOK
<1>9. PlaceOK'
  <2> SUFFICES ASSUME NEW q \in Procs, q # p PROVE PlaceOf(q)'
    BY DEF PlaceOK
  <2>1. pc'[q] = pc[q] /\ loc'[q] = loc[q] /\ PlaceOf(q)  BY <1>1 DEF PlaceOK
  <2>2. pc[q] = "scan" => tab'[loc[q].empty] = tab[loc[q].empty]
    <3>1. pc[q] = "scan" => loc[q].empty \in Inodes  BY Types DEF LocOK, LocOf, LocType
    <3> QED  BY <1>2, <3>1
  <2>3. pc[q] \in UserPCs \cup LockerPCs => loc[q].ino \in Inodes
    BY Types DEF LocOK, LocOf, LocType, UserPCs, LockerPCs
  <2>4. CASE loc[q].ino = e  BY <2>1, <2>2, <2>4 DEF PlaceOf, UserPCs, LockerPCs, Frees
  <2>5. CASE loc[q].ino # e
    BY <1>2, <1>3, <2>1, <2>2, <2>3, <2>5 DEF PlaceOf, UserPCs, LockerPCs, Frees
  <2> QED  BY <2>4, <2>5
<1>10. AloneOK'  BY AloneStep
<1>11. SuperOK' /\ Unmounting' = Unmounting  BY SuperKept
<1>12. MountOK'
  <2>1. \A i \in Inodes : tab'[i].mount = tab[i].mount  BY <1>2 DEF TypeOK, EntryType
  <2>2. super.imount # NoInode /\ ~Dropped =>
            tab'[super.imount].f = tab[super.imount].f /\ ~Read(super.imount)'
    <3> SUFFICES ASSUME super.imount # NoInode, ~Dropped
                 PROVE  tab'[super.imount].f = tab[super.imount].f /\ ~Read(super.imount)'
      OBVIOUS
    <3>1. super.imount \in Inodes /\ ~Read(super.imount) /\ super.imount # e  BY Types DEF MountOK
    <3> QED  BY <1>1, <1>2, <3>1 DEF Read
  <2>3. \A i \in Inodes : tab'[i].f = top /\ tab'[i].count > 0 =>
            Mounted \/ (tab[i].f = top /\ tab[i].count > 0)
    BY <1>2
  <2> QED  BY <1>11, <2>1, <2>2, <2>3, MountKept
<1>13. CountExact'
  <2>1. \A i \in Inodes : MountRef(i)' <=> MountRef(i)  BY <1>1 DEF MountRef, Dropped
  <2>2. \A i : /\ Num(Empty(p, i)) \in Int /\ Num(Empty(p, i))' \in Int
               /\ Num(Counts(p, i)) \in Int /\ Num(Counts(p, i))' \in Int
               /\ Num(MountRef(i)) \in Int /\ Num(MountRef(i))' \in Int
    BY DEF Num
  <2>3. \A i \in Inodes : tab[i].count \in Nat  BY DEF TypeOK
  <2>4. ASSUME NEW i \in Inodes
        PROVE  tab'[i].count = tab[i].count + Num(Empty(p, i))' - Num(Empty(p, i))
                               + Num(Counts(p, i))' - Num(Counts(p, i))
                               + Num(MountRef(i))' - Num(MountRef(i))
    <3>1. Num(MountRef(i))' = Num(MountRef(i))  BY <2>1 DEF Num
    <3> QED  BY <2>2, <2>3, <3>1
  <2> QED  BY <2>4, CountsStep
<1> QED  BY <1>5, <1>6, <1>7, <1>8, <1>9, <1>10, <1>11, <1>12, <1>13

\* An entry nobody refers to.
LEMMA IdleFacts ==
    ASSUME Inv, NEW e \in Inodes, tab[e].count = 0
    PROVE  /\ ~tab[e].mount /\ (super.imount = e => Dropped) /\ ~Read(e)
           /\ \A p \in Procs : Unshared(p, e)
           /\ tab[e].f \in Lasting \cup {none}
           /\ tab[e].f # none => disk[tab[e].f] = Stored(e) /\ tab[e].links = 1
           /\ ~tab[e].lock /\ ~tab[e].dirt
<1> USE DEF Inv
<1>1. \A p \in Procs : ~Uses(p, e)  BY UsersCounted
<1>2. ~Read(e)  BY <1>1 DEF Uses, Read
<1>3. ~MountRef(e)  BY Counted
<1>4. super.imount = e => Dropped  BY <1>3 DEF MountRef
<1>5. ~tab[e].mount  BY <1>4 DEF MountOK, Dropped, Unmounting
<1>6. ~tab[e].lock /\ ~tab[e].dirt /\ tab[e].f \in Lasting \cup {none}  BY DEF EntryOK
<1>7. tab[e].f # none => disk[tab[e].f] = Stored(e) /\ tab[e].links = 1  BY <1>2, <1>6 DEF EntryOK
<1>8. \A q \in Procs : /\ loc[q].ino = e => pc[q] \notin UserPCs \cup LockerPCs
                       /\ loc[q].empty # e
  <2>1. \A q \in Procs : loc[q].ino = e => pc[q] \notin UserPCs  BY <1>1 DEF Uses
  <2>2. \A q \in Procs : loc[q].ino = e => pc[q] \notin LockerPCs  BY <1>6 DEF PlaceOK, PlaceOf
  <2>3. \A q \in Procs : ~Empty(q, e)  BY Counted
  <2> QED  BY <2>1, <2>2, <2>3 DEF Empty
<1> QED  BY <1>2, <1>4, <1>5, <1>6, <1>7, <1>8 DEF Unshared

\* What was in it is on the disk, and a new inode has no block.
LEMMA IdleBlocks ==
    ASSUME Inv, NEW e \in Inodes, tab[e].count = 0, NEW s \in EntryType, Replaces(e, s),
           TypeOK', EntryOK', s.zone = NoBlock, s.f \notin imap,
           imap' \subseteq imap \cup {s.f}, imap \subseteq imap', zmap' = zmap, lost' = lost,
           \A i \in Inodes : Read(i)' <=> Read(i),
           \A q \in Procs : loc'[q].zone = loc[q].zone
    PROVE  BlocksOK'
<1> USE DEF Inv
<1>1. HoldersAre /\ HoldersAre'  BY HoldersNow, HoldersThen
<1>2. tab'[e] = s /\ disk' = disk /\ \A i \in Inodes : i # e => tab'[i] = tab[i]
  BY DEF Replaces, TypeOK
<1>3. ~Read(e) /\ (tab[e].f # none => disk[tab[e].f].zone = tab[e].zone)
  <2>1. ~Read(e) /\ (tab[e].f # none => disk[tab[e].f] = Stored(e))  BY IdleFacts
  <2>2. Stored(e).zone = tab[e].zone  BY DEF Stored
  <2> QED  BY <2>1, <2>2
<1>4. ASSUME NEW f \in Files, NEW b \in Blocks PROVE Holder(f, b)' <=> Holder(f, b)
  <2>1. Holder(f, b) <=> /\ f \in imap
                         /\ \/ \E i \in Inodes : Has(i, f) /\ tab[i].zone = b
                            \/ (\A i \in Inodes : ~Has(i, f)) /\ disk[f].zone = b
    BY <1>1 DEF HoldersAre
  <2>2. Holder(f, b)' <=> /\ f \in imap'
                          /\ \/ \E i \in Inodes : Has(i, f)' /\ tab'[i].zone = b
                             \/ (\A i \in Inodes : ~Has(i, f)') /\ disk'[f].zone = b
    BY <1>1 DEF HoldersAre
  <2>3. /\ \A i \in Inodes : i # e => (Has(i, f)' <=> Has(i, f)) /\ tab'[i].zone = tab[i].zone
        /\ Has(e, f)' <=> s.f = f
        /\ Has(e, f) <=> tab[e].f = f
        /\ tab'[e].zone # b
    BY <1>2, <1>3, Names DEF Has
  <2>4. CASE f = s.f
    <3>1. \A i \in Inodes : Has(i, f)' => i = e  BY <2>4, <1>2, Names DEF Has, Replaces
    <3> QED  BY <2>1, <2>2, <2>3, <2>4, <3>1
  <2>5. CASE f # s.f /\ f = tab[e].f
    <3>1. \A i \in Inodes : Has(i, f) => i = e  BY <2>5, Names DEF Has, EntryOK
    <3>2. \A i \in Inodes : ~Has(i, f)'  BY <2>3, <2>5, <3>1
    <3>3. disk'[f].zone = tab[e].zone  BY <1>2, <1>3, <2>5, Names
    <3>4. f \in imap <=> f \in imap'  BY <2>5
    <3> QED  BY <2>1, <2>2, <2>3, <2>5, <3>1, <3>2, <3>3, <3>4
  <2>6. CASE f # s.f /\ f # tab[e].f
    <3>1. \A i \in Inodes : Has(i, f)' <=> Has(i, f)  BY <2>3, <2>6
    <3>2. f \in imap <=> f \in imap'  BY <2>6
    <3>3. ~Has(e, f)  BY <2>3, <2>6
    <3> QED  BY <1>2, <2>1, <2>2, <2>3, <3>1, <3>2, <3>3
  <2> QED  BY <2>4, <2>5, <2>6
<1> QED  BY <1>4, BlocksSame

\* get_empty_inode()
LEMMA GetKeeps ==
    ASSUME Inv, NEW p \in Procs, Get(p), \E d \in Inodes : tab[d].count = 0
    PROVE  Inv'
<1> USE DEF Inv
<1>1. pc[p] = "get" /\ cpu \in {p, NoProc}  BY DEF Get, At
<1>2. ~(\A e \in Inodes : tab[e].count > 0)  OBVIOUS
<1>3. PICK e \in Inodes : get_empty_inode(e) /\ Goto(p, "scan", [loc[p] EXCEPT !.empty = e])
                          /\ UNCHANGED <<disk, bitmaps, named, super, panicked>>
  BY <1>2 DEF Get
<1> DEFINE r == [loc[p] EXCEPT !.empty = e]
           s == [Unused EXCEPT !.count = 1]
<1>4. /\ Moves(p, "scan", r) /\ tab' = [tab EXCEPT ![e] = s] /\ tab[e].count = 0
      /\ disk' = disk /\ imap' = imap /\ zmap' = zmap /\ lost' = lost /\ named' = named
      /\ super' = super /\ panicked' = panicked
  BY <1>3 DEF get_empty_inode, Idle, Moves, Goto, Set, bitmaps
<1>5. /\ loc[p].ino = NoInode /\ loc[p].empty = NoInode /\ loc[p].zone = NoBlock
      /\ loc[p].ret = "user" /\ loc[p].f # top /\ loc[p].f \in named \cup {top}
  BY <1>1, Types DEF LocOK, LocOf, LocType
<1>6. /\ r \in LocType /\ r.f = loc[p].f /\ r.ino = NoInode /\ r.empty = e
      /\ r.zone = NoBlock /\ r.ret = "user"
  BY <1>5, Types, LocFields
<1>7. /\ s \in EntryType /\ s.f = none /\ s.count = 1 /\ s.lock = FALSE /\ s.dirt = FALSE
      /\ s.mount = FALSE /\ s.links = 0 /\ s.zone = NoBlock
  BY EmptyFields
<1> HIDE DEF r
<1>8. tab'[e] = s /\ \A i \in Inodes : i # e => tab'[i] = tab[i]  BY <1>4 DEF TypeOK
<1>9. /\ pc'[p] = "scan" /\ loc'[p] = r
      /\ \A q \in Procs : q # p => pc'[q] = pc[q] /\ loc'[q] = loc[q]
  BY <1>4, Moved
<1>10. /\ ~tab[e].mount /\ (super.imount = e => Dropped) /\ ~Read(e) /\ Unshared(p, e)
       /\ tab[e].f \in Lasting \cup {none}
       /\ tab[e].f # none => disk[tab[e].f] = Stored(e) /\ tab[e].links = 1
  BY <1>4, IdleFacts
<1>11. none \notin imap /\ Lasting \subseteq imap /\ imap \subseteq Files /\ none \notin Lasting
  BY Types, Names DEF FileOK
<1>12. LocOf(p)'  BY <1>4, <1>5, <1>6, <1>9, Names DEF LocOf
<1>13. PlaceOf(p)'
  <2>1. tab'[loc'[p].empty] = [Unused EXCEPT !.count = 1]  BY <1>6, <1>8, <1>9
  <2> QED  BY <1>9, <2>1 DEF PlaceOf, UserPCs, LockerPCs, Frees
<1> HIDE DEF s
<1>14. Replaces(e, s)
  <2>1. tab[e].f \in Lasting => disk[tab[e].f].links = 1  BY <1>10, <1>11 DEF Stored
  <2>2. zmap' \subseteq Blocks /\ lost' \subseteq Blocks  BY <1>4, Types
  <2>3. \A i \in Inodes : i # e /\ tab[i].f # none => tab[i].f \in imap'  BY <1>4 DEF EntryOK
  <2> QED  BY <1>4, <1>7, <1>10, <1>11, <2>1, <2>2, <2>3 DEF Replaces
<1>15. IsReliable(p, e, s)  BY <1>4, <1>7, <1>11, Names DEF IsReliable
<1>16. \A q \in Procs : q # p => Apart(p, q)' /\ Apart(q, p)'
  <2>1. \A q \in Procs : q # p => loc[q].empty # r.empty  BY <1>6, <1>10 DEF Unshared
  <2> QED  BY <1>4, <2>1, ApartFrom DEF UserPCs, LockerPCs
<1>17. ASSUME NEW i \in Inodes
       PROVE  tab'[i].count = tab[i].count + Num(Empty(p, i))' - Num(Empty(p, i))
                              + Num(Counts(p, i))' - Num(Counts(p, i))
  <2>1. ~Empty(p, i) /\ ~Counts(p, i) /\ ~Counts(p, i)' /\ (Empty(p, i)' <=> i = e)
    BY <1>5, <1>6, <1>9, Names DEF Empty, Counts
  <2>2. /\ Num(Empty(p, i)) = 0 /\ Num(Counts(p, i)) = 0 /\ Num(Counts(p, i))' = 0
        /\ Num(Empty(p, i))' = IF i = e THEN 1 ELSE 0
    BY <2>1 DEF Num
  <2>3. tab[i].count \in Nat  BY DEF TypeOK
  <2> QED  BY <1>4, <1>7, <1>8, <2>2, <2>3
<1>18. TypeOK' /\ EntryOK' => BlocksOK'
  <2>1. \A i \in Inodes : Read(i)' <=> Read(i)  BY <1>1, <1>4, ReadAfter
  <2>2. \A q \in Procs : loc'[q].zone = loc[q].zone  BY <1>5, <1>6, <1>9
  <2> QED  BY <1>4, <1>7, <1>11, <1>14, <2>1, <2>2, IdleBlocks
<1>19. "scan" \in PCs /\ r.f # top  BY <1>5, <1>6 DEF PCs
<1> QED  BY <1>1, <1>4, <1>5, <1>6, <1>7, <1>10, <1>12, <1>13, <1>14, <1>15, <1>16, <1>17,
            <1>18, <1>19, ReplaceStep

\* creat(): new_inode()
LEMMA NewInodeKeeps ==
    ASSUME Inv, NEW p \in Procs, NewInode(p) PROVE Inv'
<1> USE DEF Inv
<1>1. PICK e \in Inodes : \E f \in Regular :
         new_inode(e, f) /\ Sleep(p, "create", [NoLoc EXCEPT !.ino = e])
  BY DEF NewInode
<1>2. PICK f \in Regular : new_inode(e, f) /\ Sleep(p, "create", [NoLoc EXCEPT !.ino = e])  BY <1>1
<1> DEFINE r == [NoLoc EXCEPT !.ino = e]
<1>3. /\ pc[p] = "user" /\ cpu \in {p, NoProc} /\ Moves(p, "create", r)
      /\ tab' = [tab EXCEPT ![e] = [Unused EXCEPT !.f = f, !.count = 1, !.dirt = TRUE, !.links = 1]]
      /\ tab[e].count = 0 /\ f \notin imap /\ imap' = imap \cup {f}
      /\ disk' = disk /\ zmap' = zmap /\ lost' = lost /\ named' = named /\ super' = super
      /\ panicked' = panicked
  BY <1>2 DEF NewInode, new_inode, Idle, At, Moves, Sleep, Set
<1>4. /\ loc[p].ino = NoInode /\ loc[p].empty = NoInode /\ loc[p].zone = NoBlock
      /\ loc[p].ret = "user"
  BY <1>3, Types DEF LocOK, LocOf, LocType
<1>5. /\ r \in LocType /\ r.f = none /\ r.ino = e /\ r.empty = NoInode /\ r.zone = NoBlock
      /\ r.ret = "user"
  BY NoLocFields, LocFields
<1>6. f \in Files /\ f # none /\ f # top /\ f # dir  BY Names
<1>7. PICK s \in EntryType :
         /\ tab' = [tab EXCEPT ![e] = s] /\ s.f = f /\ s.count = 1 /\ s.lock = FALSE
         /\ s.dirt = TRUE /\ s.mount = FALSE /\ s.links = 1 /\ s.zone = NoBlock
  <2> DEFINE t == [Unused EXCEPT !.f = f]
             u == [t EXCEPT !.count = 1]
             v == [u EXCEPT !.dirt = TRUE]
             s == [v EXCEPT !.links = 1]
  <2>1. tab' = [tab EXCEPT ![e] = s]  BY <1>3
  <2>2. /\ t \in EntryType /\ t.f = f /\ t.count = 0 /\ t.lock = FALSE
        /\ t.dirt = FALSE /\ t.mount = FALSE /\ t.links = 0 /\ t.zone = NoBlock
    BY <1>6, UnusedFields, EntryFields
  <2> HIDE DEF t
  <2>3. /\ u \in EntryType /\ u.f = t.f /\ u.count = 1 /\ u.lock = t.lock
        /\ u.dirt = t.dirt /\ u.mount = t.mount /\ u.links = t.links /\ u.zone = t.zone
    BY <2>2, EntryFields
  <2> HIDE DEF u
  <2>4. /\ v \in EntryType /\ v.f = u.f /\ v.count = u.count /\ v.lock = u.lock
        /\ v.dirt = TRUE /\ v.mount = u.mount /\ v.links = u.links /\ v.zone = u.zone
    BY <2>3, EntryFlags
  <2> HIDE DEF v
  <2>5. /\ s \in EntryType /\ s.f = v.f /\ s.count = v.count /\ s.lock = v.lock
        /\ s.dirt = v.dirt /\ s.mount = v.mount /\ s.links = 1 /\ s.zone = v.zone
    BY <2>4, EntryFields DEF Links
  <2> HIDE DEF s
  <2> QED  BY <2>1, <2>2, <2>3, <2>4, <2>5
<1> HIDE DEF r
<1>8. tab'[e] = s /\ \A i \in Inodes : i # e => tab'[i] = tab[i]  BY <1>7 DEF TypeOK
<1>9. /\ pc'[p] = "create" /\ loc'[p] = r
      /\ \A q \in Procs : q # p => pc'[q] = pc[q] /\ loc'[q] = loc[q]
  BY <1>3, Moved
<1>10. /\ ~tab[e].mount /\ (super.imount = e => Dropped) /\ ~Read(e) /\ Unshared(p, e)
       /\ tab[e].f \in Lasting \cup {none}
       /\ tab[e].f # none => disk[tab[e].f] = Stored(e) /\ tab[e].links = 1
  BY <1>3, IdleFacts
<1>11. /\ none \notin imap /\ Lasting \subseteq imap /\ imap \subseteq Files
       /\ none \notin Lasting /\ named \subseteq Lasting
  BY Types, Names DEF FileOK, Lasting
<1>12. \A i : Read(i)' <=> Read(i)  BY <1>3, ReadAfter
<1>13. LocOf(p)'  BY <1>5, <1>9, Names DEF LocOf
<1>14. PlaceOf(p)'
  <2>1. f \notin named'  BY <1>3, <1>11
  <2> QED  BY <1>5, <1>6, <1>7, <1>8, <1>9, <1>10, <1>12, <2>1
           DEF PlaceOf, UserPCs, LockerPCs, Frees
<1>15. Replaces(e, s)
  <2>1. tab[e].f \in Lasting => disk[tab[e].f].links = 1  BY <1>10, <1>11 DEF Stored
  <2>2. zmap' \subseteq Blocks /\ lost' \subseteq Blocks  BY <1>3, Types
  <2>3. \A i \in Inodes : i # e /\ tab[i].f # none => tab[i].f \in imap' /\ tab[i].f # f
    BY <1>3 DEF EntryOK
  <2>4. tab[e].f \notin imap' \ Lasting  BY <1>3, <1>6, <1>10, <1>11, Names
  <2> QED  BY <1>3, <1>6, <1>7, <1>10, <1>11, <2>1, <2>2, <2>3, <2>4 DEF Replaces
<1>16. IsReliable(p, e, s)  BY <1>3, <1>5, <1>6, <1>7, <1>9, <1>11 DEF IsReliable
<1>17. \A q \in Procs : q # p => Apart(p, q)' /\ Apart(q, p)'
  <2>1. \A q \in Procs : q # p /\ loc[q].ino = r.ino => pc[q] \notin UserPCs \cup LockerPCs
    BY <1>5, <1>10 DEF Unshared
  <2> QED  BY <1>3, <2>1, ApartFrom DEF UserPCs, LockerPCs, Frees
<1>18. ASSUME NEW i \in Inodes
       PROVE  tab'[i].count = tab[i].count + Num(Empty(p, i))' - Num(Empty(p, i))
                              + Num(Counts(p, i))' - Num(Counts(p, i))
  <2>1. ~Empty(p, i) /\ ~Counts(p, i) /\ ~Empty(p, i)' /\ (Counts(p, i)' <=> i = e)
    BY <1>4, <1>5, <1>9, Names DEF Empty, Counts
  <2>2. /\ Num(Empty(p, i)) = 0 /\ Num(Counts(p, i)) = 0 /\ Num(Empty(p, i))' = 0
        /\ Num(Counts(p, i))' = IF i = e THEN 1 ELSE 0
    BY <2>1 DEF Num
  <2>3. tab[i].count \in Nat  BY DEF TypeOK
  <2> QED  BY <1>3, <1>7, <1>8, <2>2, <2>3
<1>19. TypeOK' /\ EntryOK' => BlocksOK'
  <2>1. \A q \in Procs : loc'[q].zone = loc[q].zone  BY <1>4, <1>5, <1>9
  <2>2. s.f \notin imap /\ imap' \subseteq imap \cup {s.f} /\ imap \subseteq imap'  BY <1>3, <1>7
  <2> QED  BY <1>3, <1>7, <1>12, <1>15, <2>1, <2>2, IdleBlocks
<1>20. "create" \in PCs  BY DEF PCs
<1> QED  BY <1>3, <1>4, <1>5, <1>10, <1>13, <1>14, <1>15, <1>16, <1>17, <1>18, <1>19, <1>20,
            ReplaceStep

\* iget(): the inode is not there, it is read.
LEMMA MissKeeps ==
    ASSUME Inv, NEW p \in Procs, Miss(p) PROVE Inv'
<1> USE DEF Inv
<1>1. pc[p] = "scan" /\ cpu \in {p, NoProc} /\ Found(loc[p].f) = {}  BY DEF Miss, At
<1>2. /\ loc[p].ino = NoInode /\ loc[p].zone = NoBlock /\ loc[p].ret = "user"
      /\ loc[p].f \in named \cup {top} /\ loc[p].empty \in Inodes
  BY <1>1, Types DEF LocOK, LocOf, LocType
<1>3. loc[p].f = top => Mounted /\ super.here
  <2> SUFFICES ASSUME loc[p].f = top PROVE Mounted /\ super.here
    OBVIOUS
  <2>1. p \in Entering  BY <1>1 DEF Entering
  <2> QED  BY <2>1 DEF MountOK, SuperOK, Mounted
<1>4. PICK e \in Inodes : e = loc[p].empty  BY <1>2
<1>5. PICK f \in Files : f = loc[p].f  BY <1>2, Types, Names
<1> DEFINE r == [NoLoc EXCEPT !.ino = e]
<1>6. /\ Moves(p, "reading", r)
      /\ tab' = [tab EXCEPT ![e] = [tab[e] EXCEPT !.f = f, !.lock = TRUE]]
      /\ disk' = disk /\ imap' = imap /\ zmap' = zmap /\ lost' = lost
      /\ named' = named /\ super' = super
      /\ panicked' = panicked
  BY <1>3, <1>4, <1>5 DEF Miss, Moves, Sleep, Set, bitmaps
<1>7. /\ r \in LocType /\ r.f = none /\ r.ino = e /\ r.empty = NoInode /\ r.zone = NoBlock
      /\ r.ret = "user"
  BY NoLocFields, LocFields
<1>8. tab[e] = [Unused EXCEPT !.count = 1]  BY <1>1, <1>4 DEF PlaceOK, PlaceOf
<1>9. PICK s \in EntryType :
         /\ tab' = [tab EXCEPT ![e] = s] /\ s.f = f /\ s.count = 1 /\ s.lock = TRUE
         /\ s.dirt = FALSE /\ s.mount = FALSE /\ s.links = 0 /\ s.zone = NoBlock
  <2> DEFINE t == [tab[e] EXCEPT !.f = f]
             s == [t EXCEPT !.lock = TRUE]
  <2>1. tab' = [tab EXCEPT ![e] = s]  BY <1>6
  <2>2. /\ t \in EntryType /\ t.f = f /\ t.count = 1 /\ t.lock = FALSE
        /\ t.dirt = FALSE /\ t.mount = FALSE /\ t.links = 0 /\ t.zone = NoBlock
    <3>1. /\ tab[e] \in EntryType /\ tab[e].count = 1 /\ tab[e].lock = FALSE
          /\ tab[e].dirt = FALSE /\ tab[e].mount = FALSE /\ tab[e].links = 0
          /\ tab[e].zone = NoBlock
      BY <1>8, EmptyFields
    <3> QED  BY <3>1, EntryFields
  <2> HIDE DEF t
  <2>3. /\ s \in EntryType /\ s.f = t.f /\ s.count = t.count /\ s.lock = TRUE
        /\ s.dirt = t.dirt /\ s.mount = t.mount /\ s.links = t.links /\ s.zone = t.zone
    BY <2>2, EntryFlags
  <2> HIDE DEF s
  <2> QED  BY <2>1, <2>2, <2>3
<1> HIDE DEF r
<1>10. /\ tab[e].f = none /\ tab[e].count = 1 /\ ~tab[e].lock /\ ~tab[e].mount  BY <1>8, EmptyFields
<1>11. tab'[e] = s /\ \A i \in Inodes : i # e => tab'[i] = tab[i]  BY <1>9 DEF TypeOK
<1>12. /\ pc'[p] = "reading" /\ loc'[p] = r
       /\ \A q \in Procs : q # p => pc'[q] = pc[q] /\ loc'[q] = loc[q]
  BY <1>6, Moved
<1>13. Unshared(p, e)
  <2>1. \A q \in Procs : loc[q].ino = e => pc[q] \notin UserPCs \cup LockerPCs
    BY <1>10 DEF PlaceOK, PlaceOf
  <2>2. \A q \in Procs : q # p => loc[q].empty # e
    <3> SUFFICES ASSUME NEW q \in Procs, q # p, loc[q].empty = e PROVE FALSE
      OBVIOUS
    <3>1. pc[q] = "scan"  BY Names DEF LocOK, LocOf
    <3> QED  BY <1>1, <1>4, <3>1 DEF AloneOK, Apart
  <2> QED  BY <2>1, <2>2 DEF Unshared
<1>14. super.imount = e => Dropped  BY <1>10, Names DEF MountOK
<1>15. /\ none \notin imap /\ Lasting \subseteq imap /\ imap \subseteq Files
       /\ none \notin Lasting /\ f \in Lasting
  BY <1>2, <1>5, Types, Names DEF FileOK, Lasting
<1>16. \A i \in Inodes : tab[i].f # f  BY <1>1, <1>5 DEF Found
<1>17. LocOf(p)'  BY <1>7, <1>12, Names DEF LocOf
<1>18. PlaceOf(p)'
  <2>1. f \in named' \cup {top}  BY <1>2, <1>5, <1>6
  <2> QED  BY <1>7, <1>9, <1>11, <1>12, <2>1 DEF PlaceOf, UserPCs, LockerPCs, Frees
<1>19. Replaces(e, s)
  <2>1. zmap' \subseteq Blocks /\ lost' \subseteq Blocks  BY <1>6, Types
  <2>2. \A i \in Inodes : i # e /\ tab[i].f # none => tab[i].f \in imap' /\ tab[i].f # s.f
    BY <1>6, <1>9, <1>16 DEF EntryOK
  <2> QED  BY <1>6, <1>9, <1>10, <1>14, <1>15, <2>1, <2>2 DEF Replaces
<1>20. IsReliable(p, e, s)
  <2>1. Read(e)'  BY <1>7, <1>12 DEF Read
  <2>2. f = top => Mounted  BY <1>3, <1>5
  <2> QED  BY <1>6, <1>9, <1>15, <2>1, <2>2, Names DEF IsReliable
<1>21. \A q \in Procs : q # p => Apart(p, q)' /\ Apart(q, p)'
  <2>1. \A q \in Procs : q # p /\ loc[q].ino = r.ino => pc[q] \notin UserPCs \cup LockerPCs
    BY <1>7, <1>13 DEF Unshared
  <2> QED  BY <1>6, <2>1, ApartFrom DEF UserPCs, LockerPCs, Frees
<1>22. ASSUME NEW i \in Inodes
       PROVE  tab'[i].count = tab[i].count + Num(Empty(p, i))' - Num(Empty(p, i))
                              + Num(Counts(p, i))' - Num(Counts(p, i))
  <2>1. /\ ~Counts(p, i) /\ ~Empty(p, i)' /\ (Counts(p, i)' <=> i = e)
        /\ Empty(p, i) <=> i = e
    BY <1>2, <1>4, <1>7, <1>12, Names DEF Empty, Counts
  <2>2. /\ Num(Empty(p, i)) = (IF i = e THEN 1 ELSE 0) /\ Num(Counts(p, i)) = 0
        /\ Num(Empty(p, i))' = 0
        /\ Num(Counts(p, i))' = IF i = e THEN 1 ELSE 0
    BY <2>1 DEF Num
  <2>3. tab[i].count \in Nat  BY DEF TypeOK
  <2> QED  BY <1>9, <1>10, <1>11, <2>2, <2>3
<1>23. TypeOK' /\ EntryOK' => BlocksOK'
  <2> SUFFICES ASSUME TypeOK', EntryOK' PROVE BlocksOK'
    OBVIOUS
  <2>1. HoldersAre /\ HoldersAre'  BY HoldersNow, HoldersThen
  <2>2. ASSUME NEW g \in Files, NEW b \in Blocks PROVE Holder(g, b)' <=> Holder(g, b)
    <3>1. \A i \in Inodes : Read(i)' <=> Read(i) \/ i = e  BY <1>1, <1>7, <1>12 DEF Read
    <3>2. \A i \in Inodes : Has(i, g)' <=> Has(i, g) /\ i # e
      BY <1>9, <1>10, <1>11, <3>1, Names DEF Has
    <3>3. ~Has(e, g)  BY <1>10, Names DEF Has
    <3>4. Holder(g, b) <=> /\ g \in imap
                           /\ \/ \E i \in Inodes : Has(i, g) /\ tab[i].zone = b
                              \/ (\A i \in Inodes : ~Has(i, g)) /\ disk[g].zone = b
      BY <2>1 DEF HoldersAre
    <3>5. Holder(g, b)' <=> /\ g \in imap'
                            /\ \/ \E i \in Inodes : Has(i, g)' /\ tab'[i].zone = b
                               \/ (\A i \in Inodes : ~Has(i, g)') /\ disk'[g].zone = b
      BY <2>1 DEF HoldersAre
    <3> QED  BY <1>6, <1>11, <3>2, <3>3, <3>4, <3>5
  <2>3. \A q \in Procs : loc'[q].zone = loc[q].zone  BY <1>2, <1>7, <1>12
  <2> QED  BY <1>6, <2>2, <2>3, BlocksSame
<1>24. "reading" \in PCs  BY DEF PCs
<1> QED  BY <1>1, <1>2, <1>6, <1>7, <1>13, <1>17, <1>18, <1>19, <1>20, <1>21, <1>22, <1>23,
            <1>24, ReplaceStep

\* The end of truncate() in iput(): the inode is free.
LEMMA FreedUserKeeps ==
    ASSUME Inv, NEW p \in Procs, Freed(p), loc[p].ret # "held" PROVE Inv'
<1> USE DEF Inv
<1>1. PICK e \in Inodes : e = loc[p].ino  BY UserFacts DEF Freed, At, UserPCs
<1>2. pc[p] = "truncate" /\ cpu \in {p, NoProc} /\ pc[p] \in UserPCs  BY DEF Freed, At, UserPCs
<1>3. /\ loc[p].empty = NoInode /\ loc[p].zone = NoBlock /\ ~Read(e) /\ tab[e].f \in imap
      /\ loc[p].ret = "user"
  BY <1>1, <1>2, UserFacts
<1>4. /\ Frees(p) /\ tab[e].count = 1 /\ tab[e].links = 0 /\ ~tab[e].lock
      /\ tab[e].f \in Regular /\ tab[e].f \in Files /\ tab[e].f # none /\ tab[e].f # dir
  BY <1>1, <1>2, <1>3, Names DEF Frees, PlaceOK, PlaceOf
<1> DEFINE g == tab[e].f
           z == tab[e].zone
<1>5. /\ Moves(p, "user", NoLoc) /\ tab' = [tab EXCEPT ![e] = Unused]
      /\ disk' = disk /\ imap' = imap \ {g} /\ zmap' = zmap \ {z} /\ lost' = lost
      /\ named' = named
      /\ super' = super /\ panicked' = (tab[e].count > 1)
  BY <1>1, <1>3 DEF Freed, free_block, free_inode, Returns, Set, Moves, Sleep
<1>6. panicked' = panicked  BY <1>4, <1>5 DEF TypeOK
<1>7. tab'[e] = Unused /\ \A i \in Inodes : i # e => tab'[i] = tab[i]  BY <1>5 DEF TypeOK
<1>8. /\ pc'[p] = "user" /\ loc'[p] = NoLoc
      /\ \A q \in Procs : q # p => pc'[q] = pc[q] /\ loc'[q] = loc[q]
  BY <1>5, Moved
<1>9. Unshared(p, e)
  <2>1. \A q \in Procs : q # p /\ loc[q].ino = e => pc[q] \notin UserPCs
    BY <1>1, <1>4 DEF AloneOK, Apart
  <2>2. \A q \in Procs : loc[q].ino = e => pc[q] \notin LockerPCs  BY <1>4 DEF PlaceOK, PlaceOf
  <2>3. \A q \in Procs : loc[q].empty = e => pc[q] = "scan"  BY Names DEF LocOK, LocOf
  <2>4. \A q \in Procs : loc[q].empty # e  BY <1>4, <2>3, EmptyFields DEF PlaceOK, PlaceOf
  <2> QED  BY <2>1, <2>2, <2>4 DEF Unshared
<1>10. g \notin Lasting  BY <1>3, <1>4 DEF EntryOK
<1>11. /\ none \notin imap /\ Lasting \subseteq imap /\ imap \subseteq Files /\ none \notin Lasting
  BY Types, Names DEF FileOK, Lasting
<1>12. \A i \in Inodes : i # e => tab[i].f # g  BY <1>4 DEF EntryOK
<1>13. Replaces(e, Unused)
  <2>1. super.imount = e => Dropped  BY <1>4, Names DEF MountOK
  <2>2. ~tab[e].mount  BY <2>1 DEF MountOK, Dropped, Unmounting
  <2>3. zmap' \subseteq Blocks /\ lost' \subseteq Blocks  BY <1>5, Types
  <2>4. \A i \in Inodes : i # e /\ tab[i].f # none => tab[i].f \in imap'  BY <1>5, <1>12 DEF EntryOK
  <2> QED  BY <1>5, <1>6, <1>10, <1>11, <2>1, <2>2, <2>3, <2>4, UnusedFields DEF Replaces
<1>14. IsReliable(p, e, Unused)  BY <1>5, <1>11, UnusedFields, Names DEF IsReliable
<1>15. LocOf(p)'  BY <1>8, NoLocFields, Names DEF LocOf
<1>16. PlaceOf(p)'  BY <1>8 DEF PlaceOf, UserPCs, LockerPCs, Frees
<1>17. \A q \in Procs : q # p => Apart(p, q)' /\ Apart(q, p)'
  BY <1>5, ApartFrom DEF UserPCs, LockerPCs
<1>18. ASSUME NEW i \in Inodes
       PROVE  tab'[i].count = tab[i].count + Num(Empty(p, i))' - Num(Empty(p, i))
                              + Num(Counts(p, i))' - Num(Counts(p, i))
  <2>1. /\ ~Empty(p, i) /\ ~Empty(p, i)' /\ ~Counts(p, i)'
        /\ Counts(p, i) <=> i = e
    BY <1>1, <1>2, <1>3, <1>8, NoLocFields, Names DEF Empty, Counts
  <2>2. /\ Num(Empty(p, i)) = 0 /\ Num(Empty(p, i))' = 0 /\ Num(Counts(p, i))' = 0
        /\ Num(Counts(p, i)) = IF i = e THEN 1 ELSE 0
    BY <2>1 DEF Num
  <2>3. tab[i].count \in Nat  BY DEF TypeOK
  <2> QED  BY <1>4, <1>7, <2>2, <2>3, UnusedFields
<1>19. TypeOK' /\ EntryOK' => BlocksOK'
  <2> SUFFICES ASSUME TypeOK', EntryOK' PROVE BlocksOK'
    OBVIOUS
  <2>1. HoldersAre /\ HoldersAre'  BY HoldersNow, HoldersThen
  <2>2. Has(e, g) /\ \A i \in Inodes : Has(i, g) => i = e  BY <1>3, <1>12 DEF Has
  <2>3. ASSUME NEW f \in Files, NEW b \in Blocks
        PROVE  Holder(f, b)' <=> Holder(f, b) /\ f # g
    <3>1. Holder(f, b) <=> /\ f \in imap
                           /\ \/ \E i \in Inodes : Has(i, f) /\ tab[i].zone = b
                              \/ (\A i \in Inodes : ~Has(i, f)) /\ disk[f].zone = b
      BY <2>1 DEF HoldersAre
    <3>2. Holder(f, b)' <=> /\ f \in imap'
                            /\ \/ \E i \in Inodes : Has(i, f)' /\ tab'[i].zone = b
                               \/ (\A i \in Inodes : ~Has(i, f)') /\ disk'[f].zone = b
      BY <2>1 DEF HoldersAre
    <3>3. \A i : Read(i)' <=> Read(i)  BY <1>2, <1>5, ReadAfter
    <3>4. \A i \in Inodes : i # e => (Has(i, f)' <=> Has(i, f)) /\ tab'[i].zone = tab[i].zone
      BY <1>7, <3>3 DEF Has
    <3>5. ~Has(e, f)'  BY <1>7, UnusedFields, Names DEF Has
    <3>6. CASE f = g  BY <1>5, <3>2, <3>6
    <3>7. CASE f # g
      <4>1. ~Has(e, f) /\ (f \in imap' <=> f \in imap)  BY <1>5, <3>7 DEF Has
      <4>2. \A i \in Inodes : Has(i, f)' <=> Has(i, f)  BY <3>4, <3>5, <4>1
      <4> HIDE DEF g
      <4> QED  BY <1>5, <3>1, <3>2, <3>4, <3>7, <4>1, <4>2
    <3> QED  BY <3>6, <3>7
  <2>4. \A q \in Procs : loc'[q].zone = loc[q].zone  BY <1>3, <1>8, NoLocFields
  <2>5. /\ z \in Blocks => Holder(g, z)
        /\ \A b \in Blocks : Holder(g, b) => b = z
    BY <1>3, <1>4, <2>1, <2>2 DEF HoldersAre
  <2>6. g \in Files  BY <1>4
  <2> HIDE DEF g, z
  <2>7. lost \subseteq Blocks  BY DEF TypeOK
  <2> QED  BY <1>5, <2>3, <2>4, <2>5, <2>6, <2>7, BlockFreed
<1>20. "user" \in PCs  BY DEF PCs
<1> QED  BY <1>1, <1>2, <1>3, <1>5, <1>9, <1>13, <1>14, <1>15, <1>16, <1>17, <1>18, <1>19, <1>20,
            NoLocFields, UnusedFields, ReplaceStep

\* iget(): the inode is there, the empty entry is put back.
LEMMA HitKeeps ==
    ASSUME Inv, NEW p \in Procs, NEW e \in Inodes, Hit(p, e) PROVE Inv'
<1> USE DEF Inv
<1> DEFINE r == [NoLoc EXCEPT !.ino = e]
<1>1. /\ Moves(p, "held", r) /\ pc[p] = "scan" /\ cpu \in {p, NoProc} /\ ~tab[e].lock
      /\ tab[e].f = loc[p].f /\ tab[e].mount # TRUE
      /\ disk' = disk /\ imap' = imap /\ zmap' = zmap /\ lost' = lost /\ named' = named
      /\ super' = super /\ panicked' = panicked
  BY DEF Hit, At, Found, Moves, Sleep, bitmaps
<1>2. /\ loc[p].ino = NoInode /\ loc[p].zone = NoBlock /\ loc[p].ret = "user"
      /\ loc[p].f \in named \cup {top} /\ loc[p].empty \in Inodes
  BY <1>1, Types DEF LocOK, LocOf, LocType
<1>3. PICK m \in Inodes : m = loc[p].empty  BY <1>2
<1>4. /\ tab[m] \in EntryType /\ tab[m].f = none /\ tab[m].count = 1 /\ ~tab[m].lock
      /\ ~tab[m].dirt
  BY <1>1, <1>3, EmptyFields DEF PlaceOK, PlaceOf
<1>5. /\ tab[e].f \in Files /\ tab[e].f \in Lasting /\ tab[e].f # none /\ m # e
      /\ tab[e] \in EntryType /\ tab[e].count \in Nat
  BY <1>1, <1>2, <1>4, Types, Names DEF Lasting, EntryType
<1>6. ~Read(e)  BY <1>1 DEF Read, PlaceOK, PlaceOf, LockerPCs
<1>7. tab[e].links = 1  BY <1>5, <1>6 DEF EntryOK
<1>8. /\ tab' = [tab EXCEPT ![e] = [tab[e] EXCEPT !.count = tab[e].count + 1],
                            ![m] = [tab[m] EXCEPT !.count = tab[m].count - 1]]
  <2>1. tab' = [tab EXCEPT ![e].count = @ + 1, ![m].count = @ - 1]  BY <1>3 DEF Hit
  <2> QED  BY <1>5, <2>1 DEF TypeOK
<1>9. /\ \A i \in Inodes : /\ tab'[i].f = tab[i].f /\ tab'[i].lock = tab[i].lock
                           /\ tab'[i].dirt = tab[i].dirt /\ tab'[i].mount = tab[i].mount
                           /\ tab'[i].links = tab[i].links /\ tab'[i].zone = tab[i].zone
                           /\ i \notin {e, m} => tab'[i] = tab[i]
      /\ tab'[e].count = tab[e].count + 1 /\ tab'[m].count = 0
      /\ tab' \in [Inodes -> EntryType]
  <2> DEFINE s == [tab[e] EXCEPT !.count = tab[e].count + 1]
             u == [tab[m] EXCEPT !.count = tab[m].count - 1]
  <2>1. /\ s \in EntryType /\ s.f = tab[e].f /\ s.lock = tab[e].lock /\ s.dirt = tab[e].dirt
        /\ s.mount = tab[e].mount /\ s.links = tab[e].links /\ s.zone = tab[e].zone
        /\ s.count = tab[e].count + 1
    BY <1>5, EntryFields
  <2>2. /\ u \in EntryType /\ u.f = tab[m].f /\ u.lock = tab[m].lock /\ u.dirt = tab[m].dirt
        /\ u.mount = tab[m].mount /\ u.links = tab[m].links /\ u.zone = tab[m].zone
        /\ u.count = 0
    BY <1>4, EntryFields
  <2>3. /\ tab' = [tab EXCEPT ![e] = s, ![m] = u]  BY <1>8
  <2> HIDE DEF s, u
  <2>4. /\ tab'[e] = s /\ tab'[m] = u /\ \A i \in Inodes : i \notin {e, m} => tab'[i] = tab[i]
        /\ tab' \in [Inodes -> EntryType]
    BY <1>5, <2>1, <2>2, <2>3 DEF TypeOK, EntryType
  <2> QED  BY <2>1, <2>2, <2>4
<1>10. /\ r \in LocType /\ r.f = none /\ r.ino = e /\ r.empty = NoInode /\ r.zone = NoBlock
       /\ r.ret = "user"
  BY NoLocFields, LocFields
<1> HIDE DEF r
<1>11. /\ pc'[p] = "held" /\ loc'[p] = r
       /\ \A q \in Procs : q # p => pc'[q] = pc[q] /\ loc'[q] = loc[q]
       /\ pc' \in [Procs -> PCs] /\ loc' \in [Procs -> LocType] /\ cpu' \in Procs \cup {NoProc}
  <2>1. "held" \in PCs  BY DEF PCs
  <2> QED  BY <1>1, <1>10, <2>1, Moved
<1>12. \A i : Read(i)' <=> Read(i)  BY <1>1, ReadAfter
<1>13. TypeOK'  BY <1>1, <1>9, <1>11 DEF TypeOK, EntryType, LocType
<1>14. LocOK'
  <2>1. LocOf(p)'  BY <1>10, <1>11, Names DEF LocOf
  <2>2. \A q \in Procs : q # p /\ pc[q] \in {"get", "scan"} => loc[q].f \in named' \cup {top}
    BY <1>1 DEF LocOK, LocOf
  <2> QED  BY <1>1, <2>1, <2>2, LocStep
<1>15. Lasting' = Lasting /\ \A i \in Inodes : Stored(i)' = Stored(i)
  BY <1>1, <1>9 DEF Lasting, Stored
<1>16. EntryOK'
  <2>1. \A i \in Inodes : tab'[i].count = 0 => i = m \/ tab[i].count = 0  BY <1>5, <1>9
  <2> QED  BY <1>1, <1>4, <1>9, <1>12, <1>15, <2>1 DEF EntryOK
<1>17. FileOK'
  <2>1. \A i \in Inodes : (\E q \in Procs : pc[q] = "create" /\ loc[q].ino = i)
                          => \E q \in Procs : pc'[q] = "create" /\ loc'[q].ino = i
    BY <1>1, <1>11
  <2> QED  BY <1>1, <1>9, <1>12, <1>15, <2>1 DEF FileOK
<1>18. PlaceOK'
  <2>1. PlaceOf(p)'  BY <1>5, <1>6, <1>9, <1>10, <1>11, <1>12 DEF PlaceOf, UserPCs, LockerPCs, Frees
  <2> SUFFICES ASSUME NEW q \in Procs, q # p PROVE PlaceOf(q)'
    BY <2>1 DEF PlaceOK
  <2>2. pc'[q] = pc[q] /\ loc'[q] = loc[q] /\ PlaceOf(q)  BY <1>11 DEF PlaceOK
  <2>3. pc[q] = "scan" => tab'[loc[q].empty] = tab[loc[q].empty]
    <3> SUFFICES ASSUME pc[q] = "scan" PROVE tab'[loc[q].empty] = tab[loc[q].empty]
      OBVIOUS
    <3>1. loc[q].empty \in Inodes  BY Types DEF LocOK, LocOf, LocType
    <3>2. loc[q].empty # m  BY <1>1, <1>3 DEF AloneOK, Apart
    <3>3. loc[q].empty # e  BY <1>5, <2>2, EmptyFields DEF PlaceOf
    <3> QED  BY <1>9, <3>1, <3>2, <3>3
  <2>4. pc[q] \in UserPCs \cup LockerPCs => loc[q].ino \in Inodes
    BY Types DEF LocOK, LocOf, LocType, UserPCs, LockerPCs
  <2>5. Frees(q) => loc[q].ino \notin {e, m}  BY <1>4, <1>7, <2>2 DEF PlaceOf, Frees, UserPCs
  <2>6. Frees(q) => tab'[loc[q].ino] = tab[loc[q].ino]  BY <1>9, <2>4, <2>5 DEF Frees, UserPCs
  <2>7. Frees(q)' <=> Frees(q)  BY <2>2 DEF Frees
  <2> QED  BY <1>1, <1>9, <1>12, <2>2, <2>3, <2>4, <2>6, <2>7 DEF PlaceOf, UserPCs, LockerPCs
<1>19. AloneOK'
  <2>1. \A q \in Procs : loc[q].ino = e => pc[q] # "create" /\ ~Frees(q)
    BY <1>1, <1>2, <1>7, Names DEF PlaceOK, PlaceOf
  <2>2. \A q \in Procs : q # p => Apart(p, q)' /\ Apart(q, p)'
    BY <1>1, <1>10, <2>1, ApartFrom DEF LockerPCs
  <2> QED  BY <1>1, <2>2, AloneStep
<1>20. SuperOK' /\ Unmounting' = Unmounting  BY <1>1, <1>2, <1>10, SuperKept
<1>21. MountOK'
  <2>1. loc[p].f = top => Mounted  BY <1>1 DEF MountOK, Entering
  <2>2. super.imount # NoInode /\ ~Dropped =>
            tab'[super.imount].f = tab[super.imount].f /\ ~Read(super.imount)'
    <3>1. super.imount # NoInode => super.imount \in Inodes  BY Types
    <3>2. super.imount # NoInode /\ ~Dropped => ~Read(super.imount)  BY DEF MountOK
    <3> QED  BY <1>1, <1>9, <1>12, <3>1, <3>2
  <2>3. \A i \in Inodes : tab'[i].f = top /\ tab'[i].count > 0 =>
            Mounted \/ (tab[i].f = top /\ tab[i].count > 0)
    BY <1>1, <1>9, <2>1
  <2> QED  BY <1>1, <1>9, <1>20, <2>2, <2>3, MountKept
<1>22. CountExact'
  <2>1. ASSUME NEW i \in Inodes
        PROVE  /\ ~Counts(p, i) /\ (Counts(p, i)' <=> i = e)
               /\ Empty(p, i) <=> i = m
               /\ ~Empty(p, i)'
               /\ MountRef(i)' <=> MountRef(i)
    BY <1>1, <1>2, <1>3, <1>10, <1>11, Names DEF Empty, Counts, MountRef, Dropped
  <2>2. ASSUME NEW i \in Inodes
        PROVE  tab'[i].count = tab[i].count + Num(Empty(p, i))' - Num(Empty(p, i))
                               + Num(Counts(p, i))' - Num(Counts(p, i))
                               + Num(MountRef(i))' - Num(MountRef(i))
    <3>1. /\ Num(Counts(p, i)) = 0 /\ Num(Counts(p, i))' = (IF i = e THEN 1 ELSE 0)
          /\ Num(Empty(p, i)) = (IF i = m THEN 1 ELSE 0) /\ Num(Empty(p, i))' = 0
          /\ Num(MountRef(i))' = Num(MountRef(i)) /\ Num(MountRef(i)) \in Int
      BY <2>1 DEF Num
    <3>2. tab[i].count \in Nat  BY DEF TypeOK
    <3> QED  BY <1>4, <1>5, <1>9, <3>1, <3>2
  <2> QED  BY <1>1, <2>2, CountsStep
<1>23. BlocksOK'
  <2>1. \A q \in Procs : loc'[q].zone = loc[q].zone  BY <1>2, <1>10, <1>11
  <2> QED  BY <1>1, <1>9, <1>12, <1>13, <1>16, <2>1, ZonesSame
<1> QED  BY <1>1, <1>13, <1>14, <1>16, <1>17, <1>18, <1>19, <1>20, <1>21, <1>22, <1>23

\* new_block() for a file: the block belongs to the process.
LEMMA ExtendKeeps ==
    ASSUME Inv, NEW p \in Procs, Extend(p) PROVE Inv'
<1> USE DEF Inv
<1>1. PICK e \in Inodes : e = loc[p].ino  BY UserFacts DEF Extend, Regularly, At, UserPCs
<1>2. PICK b \in Blocks : new_block(b) /\ Sleep(p, "block", [loc[p] EXCEPT !.zone = b])
  BY DEF Extend
<1> DEFINE r == [loc[p] EXCEPT !.zone = b]
<1>3. /\ Moves(p, "block", r) /\ pc[p] = "held" /\ cpu \in {p, NoProc}
      /\ tab' = tab /\ disk' = disk /\ imap' = imap /\ named' = named
      /\ super' = super /\ panicked' = panicked
      /\ b \notin zmap /\ zmap' = zmap \cup {b} /\ lost' = lost /\ b # NoBlock
      /\ tab[e].f \in Regular /\ tab[e].zone = NoBlock
  BY <1>1, <1>2, Names DEF Extend, Regularly, new_block, At, Moves, Sleep
<1>5. pc[p] \in UserPCs  BY <1>3 DEF UserPCs
<1>6. loc[p].empty = NoInode /\ loc[p].zone = NoBlock /\ loc[p].ret = "user"
      /\ tab[e].f # none /\ ~Read(e)
  BY <1>1, <1>3, <1>5, Names, UserFacts
<1>7. /\ r \in LocType /\ r.f = loc[p].f /\ r.ino = e /\ r.empty = NoInode
      /\ r.zone = b /\ r.ret = "user"
  BY <1>1, <1>6, Types, LocFields
<1> HIDE DEF r
<1>8. /\ pc'[p] = "block" /\ loc'[p] = r
      /\ \A q \in Procs : q # p => loc'[q] = loc[q] /\ pc'[q] = pc[q]
  BY <1>3, Moved
<1>9. LocOf(p)'  BY <1>3, <1>7, <1>8, Names DEF LocOf
<1>10. PlaceOf(p)'
  <2>1. \A d : Read(d)' <=> Read(d)  BY <1>3, ReadAfter
  <2> QED  BY <1>3, <1>6, <1>7, <1>8, <2>1 DEF PlaceOf, UserPCs, LockerPCs, Frees
<1>11. \A q \in Procs : q # p => Apart(p, q)' /\ Apart(q, p)'
  <2>1. \A q \in Procs : q # p /\ (pc[q] = "create" \/ Frees(q)) => loc[q].ino # e
    BY <1>1, <1>5 DEF AloneOK, Apart
  <2> QED  BY <1>3, <1>7, <2>1, ApartFrom DEF LockerPCs
<1>12. SuperOK' /\ Unmounting' = Unmounting  BY <1>3, <1>6, <1>7, SuperKept
<1>13. MountOK'
  <2>1. \A d : Read(d)' <=> Read(d)  BY <1>3, ReadAfter
  <2>2. super.imount # NoInode /\ ~Dropped =>
            tab'[super.imount].f = tab[super.imount].f /\ ~Read(super.imount)'
    BY <1>3, <2>1 DEF MountOK
  <2> QED  BY <1>3, <1>12, <2>2, MountKept
<1>14. \A i \in Inodes : Num(Empty(p, i))' + Num(Counts(p, i))' + Num(MountRef(i))'
                        = Num(Empty(p, i)) + Num(Counts(p, i)) + Num(MountRef(i))
  BY <1>1, <1>3, <1>6, <1>7, <1>8 DEF Num, Empty, Counts, MountRef, Dropped
<1>15. TypeOK' /\ EntryOK' => BlocksOK'
  <2> SUFFICES ASSUME TypeOK', EntryOK', NEW c \in Blocks
               PROVE  /\ \A f, h \in Files : Holder(f, c)' /\ Holder(h, c)' => f = h
                      /\ \A x, q \in Procs : loc'[x].zone = c /\ loc'[q].zone = c => x = q
                      /\ \A f \in Files, q \in Procs : ~(Holder(f, c)' /\ loc'[q].zone = c)
                      /\ c \in zmap' \ lost' <=> (\E f \in Files : Holder(f, c)')
                                         \/ (\E q \in Procs : loc'[q].zone = c)
    <3>1. lost' \subseteq zmap'  BY <1>3 DEF BlocksOK
    <3> QED  BY <3>1 DEF BlocksOK
  <2>1. \A f \in Files : Holder(f, c)' <=> Holder(f, c)
    <3>1. HoldersAre /\ HoldersAre'  BY HoldersNow, HoldersThen
    <3>2. \A d : Read(d)' <=> Read(d)  BY <1>3, ReadAfter
    <3>3. \A d \in Inodes, f \in Files : Has(d, f)' <=> Has(d, f)  BY <1>3, <3>2 DEF Has
    <3> SUFFICES ASSUME NEW f \in Files PROVE Holder(f, c)' <=> Holder(f, c)
      OBVIOUS
    <3>4. Holder(f, c) <=> /\ f \in imap
                           /\ \/ \E i \in Inodes : Has(i, f) /\ tab[i].zone = c
                              \/ (\A i \in Inodes : ~Has(i, f)) /\ disk[f].zone = c
      BY <3>1 DEF HoldersAre
    <3>5. Holder(f, c)' <=> /\ f \in imap'
                            /\ \/ \E i \in Inodes : Has(i, f)' /\ tab'[i].zone = c
                               \/ (\A i \in Inodes : ~Has(i, f)') /\ disk'[f].zone = c
      BY <3>1 DEF HoldersAre
    <3> QED  BY <1>3, <3>3, <3>4, <3>5
  <2>2. CASE c = b
    <3>1. (\A f \in Files : ~Holder(f, c)) /\ (\A q \in Procs : loc[q].zone # c)
      BY <1>3, <2>2 DEF BlocksOK
    <3>2. c \in zmap' \ lost'  BY <1>3, <2>2 DEF BlocksOK
    <3> QED  BY <1>3, <1>7, <1>8, <2>1, <2>2, <3>1, <3>2
  <2>3. CASE c # b
    <3>1. \A q \in Procs : loc'[q].zone = c <=> loc[q].zone = c  BY <1>6, <1>7, <1>8, <2>3, Names
    <3> QED  BY <1>3, <2>1, <2>3, <3>1 DEF BlocksOK
  <2> QED  BY <2>2, <2>3
<1>16. /\ super' \in [here : BOOLEAN, lock : BOOLEAN, imount : Inodes \cup {NoInode}]
       /\ "block" \in PCs /\ zmap' \subseteq Blocks /\ lost' \subseteq Blocks
  BY <1>3 DEF TypeOK, PCs
<1> QED  BY <1>3, <1>7, <1>9, <1>10, <1>11, <1>12, <1>13, <1>14, <1>15, <1>16, WalkAny

----------------------------------------------------------------------------
(* Names come and go.                                                      *)

\* add_entry() in creat()
LEMMA NamedKeeps ==
    ASSUME Inv, NEW p \in Procs, At(p, "create"), named' = named \cup {tab[loc[p].ino].f},
           Sleep(p, "held", loc[p]), UNCHANGED <<tab, disk, bitmaps, super, panicked>>
    PROVE  Inv'
<1> USE DEF Inv
<1>1. PICK e \in Inodes : e = loc[p].ino  BY UserFacts DEF At, UserPCs
<1>2. PICK f \in Files : f = tab[e].f  BY <1>1, UserFacts DEF At, UserPCs
<1>3. /\ Moves(p, "held", loc[p]) /\ pc[p] = "create" /\ cpu \in {p, NoProc}
      /\ tab' = tab /\ disk' = disk /\ imap' = imap /\ zmap' = zmap /\ lost' = lost
      /\ super' = super /\ panicked' = panicked /\ named' = named \cup {f}
  BY <1>1, <1>2 DEF At, Moves, Sleep, bitmaps
<1>4. pc[p] \in UserPCs  BY <1>3 DEF UserPCs
<1>5. /\ loc[p].empty = NoInode /\ loc[p].zone = NoBlock /\ ~Read(e) /\ f \in imap
      /\ loc[p].ret = "user"
  BY <1>1, <1>2, <1>3, <1>4, UserFacts
<1>6. f \in Regular /\ f \notin named /\ tab[e].links = 1  BY <1>1, <1>2, <1>3 DEF PlaceOK, PlaceOf
<1>7. f \notin {dir, top, none}  BY <1>6, Names
<1>8. \A i \in Inodes : tab[i].f = f => i = e  BY <1>2, <1>7 DEF EntryOK
<1>9. /\ pc'[p] = "held" /\ loc'[p] = loc[p]
      /\ \A q \in Procs : q # p => pc'[q] = pc[q] /\ loc'[q] = loc[q]
      /\ pc' \in [Procs -> PCs] /\ loc' \in [Procs -> LocType] /\ cpu' \in Procs \cup {NoProc}
  <2>1. "held" \in PCs /\ loc[p] \in LocType  BY Types DEF PCs
  <2> QED  BY <1>3, <2>1, Moved
<1>10. \A i : Read(i)' <=> Read(i)  BY <1>3, ReadAfter
<1>11. TypeOK'  BY <1>3, <1>9 DEF TypeOK, LocType
<1>12. LocOK'
  <2>1. LocOf(p)'  BY <1>1, <1>5, <1>9, Names DEF LocOf
  <2>2. \A q \in Procs : q # p /\ pc[q] \in {"get", "scan"} => loc[q].f \in named' \cup {top}
    BY <1>3 DEF LocOK, LocOf
  <2> QED  BY <1>3, <2>1, <2>2, LocStep
<1>13. Lasting' = Lasting \cup {f} /\ \A i \in Inodes : Stored(i)' = Stored(i)
  BY <1>3 DEF Lasting, Stored
<1>14. EntryOK'  BY <1>3, <1>6, <1>8, <1>10, <1>13 DEF EntryOK
<1>15. FileOK'
  <2>1. dir \in named' /\ named' \subseteq Regular \cup {dir} /\ Lasting' \subseteq imap'
    BY <1>3, <1>5, <1>6, <1>13 DEF FileOK
  <2>2. ASSUME NEW g \in Lasting', \A i \in Inodes : tab'[i].f = g => Read(i)'
        PROVE  disk'[g].links = 1
    <3>1. g # f  BY <1>2, <1>3, <1>5, <1>10, <2>2
    <3> QED  BY <1>3, <1>10, <1>13, <2>2, <3>1 DEF FileOK
  <2>3. ASSUME NEW g \in imap' \ Lasting'
        PROVE  \E i \in Inodes :
                  /\ tab'[i].f = g
                  /\ tab'[i].links = 0 \/ \E q \in Procs : pc'[q] = "create" /\ loc'[q].ino = i
    <3>1. g \in imap \ Lasting /\ g # f  BY <1>3, <1>13
    <3>2. PICK i \in Inodes :
            /\ tab[i].f = g
            /\ tab[i].links = 0 \/ \E q \in Procs : pc[q] = "create" /\ loc[q].ino = i
      BY <3>1 DEF FileOK
    <3> QED  BY <1>1, <1>2, <1>3, <1>9, <3>1, <3>2
  <2> QED  BY <2>1, <2>2, <2>3 DEF FileOK
<1>16. \A q \in Procs : q # p /\ loc[q].ino = e => pc[q] \notin UserPCs
  BY <1>1, <1>3 DEF AloneOK, Apart
<1>17. PlaceOK'
  <2>1. PlaceOf(p)'
    BY <1>1, <1>2, <1>3, <1>5, <1>7, <1>9, <1>10 DEF PlaceOf, UserPCs, LockerPCs, Frees
  <2> SUFFICES ASSUME NEW q \in Procs, q # p PROVE PlaceOf(q)'
    BY <2>1 DEF PlaceOK
  <2>2. pc'[q] = pc[q] /\ loc'[q] = loc[q] /\ PlaceOf(q) /\ (Frees(q)' <=> Frees(q))
    BY <1>9 DEF PlaceOK, Frees
  <2>3. pc[q] = "create" => tab[loc[q].ino].f # f
    <3>1. pc[q] = "create" => loc[q].ino \in Inodes /\ loc[q].ino # e
      BY <1>16, Types DEF LocOK, LocOf, LocType, UserPCs
    <3> QED  BY <1>8, <3>1
  <2> QED  BY <1>3, <1>10, <2>2, <2>3 DEF PlaceOf
<1>18. AloneOK'
  <2>1. \A q \in Procs : q # p => Apart(p, q)' /\ Apart(q, p)'
    BY <1>1, <1>3, <1>16, ApartFrom DEF LockerPCs, UserPCs, Frees
  <2> QED  BY <1>3, <2>1, AloneStep
<1>19. SuperOK' /\ Unmounting' = Unmounting  BY <1>3, <1>5, SuperKept
<1>20. MountOK'
  <2>1. super.imount # NoInode /\ ~Dropped =>
            tab'[super.imount].f = tab[super.imount].f /\ ~Read(super.imount)'
    BY <1>3, <1>10 DEF MountOK
  <2> QED  BY <1>3, <1>19, <2>1, MountKept
<1>21. CountExact'
  <2>1. ASSUME NEW i \in Inodes
        PROVE  tab'[i].count = tab[i].count + Num(Empty(p, i))' - Num(Empty(p, i))
                               + Num(Counts(p, i))' - Num(Counts(p, i))
                               + Num(MountRef(i))' - Num(MountRef(i))
    <3>1. /\ Empty(p, i)' <=> Empty(p, i)
          /\ Counts(p, i)' <=> Counts(p, i)
          /\ MountRef(i)' <=> MountRef(i)
      BY <1>3, <1>9 DEF Empty, Counts, MountRef, Dropped
    <3>2. /\ Num(Empty(p, i))' = Num(Empty(p, i)) /\ Num(Empty(p, i)) \in Int
          /\ Num(Counts(p, i))' = Num(Counts(p, i)) /\ Num(Counts(p, i)) \in Int
          /\ Num(MountRef(i))' = Num(MountRef(i)) /\ Num(MountRef(i)) \in Int
      BY <3>1 DEF Num
    <3>3. tab[i].count \in Nat  BY DEF TypeOK
    <3> QED  BY <1>3, <3>2, <3>3
  <2> QED  BY <1>3, <2>1, CountsStep
<1>22. BlocksOK'
  <2>1. \A q \in Procs : loc'[q].zone = loc[q].zone  BY <1>9
  <2> QED  BY <1>3, <1>10, <1>11, <1>14, <2>1, ZonesSame
<1> QED  BY <1>3, <1>11, <1>12, <1>14, <1>15, <1>17, <1>18, <1>19, <1>20, <1>21, <1>22

\* unlink(): nobody is between the name and the inode.
LEMMA UnlinkGoes ==
    ASSUME Inv, Safe, NEW p \in Procs, Unlink(p) PROVE Inv'
<1> USE DEF Inv
<1>1. PICK e \in Inodes : e = loc[p].ino  BY UserFacts DEF Unlink, Regularly, At, UserPCs
<1>2. PICK f \in Files : f = tab[e].f  BY <1>1, UserFacts DEF Unlink, Regularly, At, UserPCs
<1> DEFINE r == [loc[p] EXCEPT !.ret = "user"]
<1>3. /\ Moves(p, "iput", r) /\ pc[p] = "held" /\ cpu \in {p, NoProc}
      /\ tab' = [tab EXCEPT ![e] = [tab[e] EXCEPT !.links = 0, !.dirt = TRUE]]
      /\ disk' = disk /\ imap' = imap /\ zmap' = zmap /\ lost' = lost
      /\ super' = super /\ panicked' = panicked /\ named' = named \ {f}
      /\ f \in Regular /\ f \in named
      /\ \A q \in Procs : pc[q] \in {"get", "scan"} => loc[q].f # f
  BY <1>1, <1>2 DEF Unlink, Safe, Regularly, Set, At, Moves, Goto, bitmaps
<1>4. pc[p] \in UserPCs  BY <1>3 DEF UserPCs
<1>5. /\ loc[p].empty = NoInode /\ loc[p].zone = NoBlock /\ ~Read(e) /\ f \in imap
      /\ loc[p].ret = "user" /\ tab[e].count >= 1 /\ tab[e].count \in Nat
  BY <1>1, <1>2, <1>3, <1>4, UserFacts
<1>6. f \notin {dir, top, none}  BY <1>3, Names
<1>7. \A i \in Inodes : tab[i].f = f => i = e  BY <1>2, <1>6 DEF EntryOK
<1>8. PICK s \in EntryType :
         /\ tab' = [tab EXCEPT ![e] = s] /\ s.f = f /\ s.count = tab[e].count
         /\ s.lock = tab[e].lock /\ s.dirt = TRUE /\ s.mount = tab[e].mount
         /\ s.links = 0 /\ s.zone = tab[e].zone
  <2> DEFINE t == [tab[e] EXCEPT !.links = 0]
             s == [t EXCEPT !.dirt = TRUE]
  <2>1. /\ t \in EntryType /\ t.f = tab[e].f /\ t.count = tab[e].count /\ t.lock = tab[e].lock
        /\ t.mount = tab[e].mount /\ t.links = 0 /\ t.zone = tab[e].zone
    BY Types, EntryFields DEF Links
  <2>2. tab' = [tab EXCEPT ![e] = s]  BY <1>3
  <2> HIDE DEF t
  <2>3. /\ s \in EntryType /\ s.f = t.f /\ s.count = t.count /\ s.lock = t.lock
        /\ s.dirt = TRUE /\ s.mount = t.mount /\ s.links = t.links /\ s.zone = t.zone
    BY <2>1, EntryFlags
  <2> HIDE DEF s
  <2> QED  BY <1>2, <2>1, <2>2, <2>3
<1>9. /\ r \in LocType /\ r.f = loc[p].f /\ r.ino = e /\ r.empty = NoInode
      /\ r.zone = NoBlock /\ r.ret = "user"
  BY <1>1, <1>5, Types, LocFields
<1> HIDE DEF r
<1>10. /\ tab'[e] = s /\ \A i \in Inodes : i # e => tab'[i] = tab[i]
       /\ tab' \in [Inodes -> EntryType]
  BY <1>8 DEF TypeOK, EntryType
<1>11. /\ pc'[p] = "iput" /\ loc'[p] = r
       /\ \A q \in Procs : q # p => pc'[q] = pc[q] /\ loc'[q] = loc[q]
       /\ pc' \in [Procs -> PCs] /\ loc' \in [Procs -> LocType] /\ cpu' \in Procs \cup {NoProc}
  <2>1. "iput" \in PCs  BY DEF PCs
  <2> QED  BY <1>3, <1>9, <2>1, Moved
<1>12. \A i : Read(i)' <=> Read(i)  BY <1>3, ReadAfter
<1>13. TypeOK'  BY <1>3, <1>10, <1>11 DEF TypeOK, EntryType, LocType
<1>14. LocOK'
  <2>1. LocOf(p)'  BY <1>9, <1>11, Names DEF LocOf
  <2>2. \A q \in Procs : q # p /\ pc[q] \in {"get", "scan"} => loc[q].f \in named' \cup {top}
    BY <1>3 DEF LocOK, LocOf
  <2> QED  BY <1>3, <2>1, <2>2, LocStep
<1>15. Lasting' = Lasting \ {f} /\ \A i \in Inodes : i # e => Stored(i)' = Stored(i)
  BY <1>3, <1>6, <1>10 DEF Lasting, Stored
<1>16. EntryOK'
  <2>1. \A i, j \in Inodes : tab'[i].f = tab'[j].f /\ tab'[i].f # none => i = j
    BY <1>2, <1>8, <1>10 DEF EntryOK
  <2>2. ASSUME NEW i \in Inodes
        PROVE  /\ tab'[i].f = none => ~tab'[i].lock /\ ~tab'[i].dirt
               /\ tab'[i].f # none => tab'[i].f \in imap'
               /\ tab'[i].count = 0 => ~tab'[i].lock /\ ~tab'[i].dirt
                                       /\ tab'[i].f \in Lasting' \cup {none}
               /\ tab'[i].f \in Lasting' /\ ~Read(i)' => tab'[i].links = 1
               /\ tab'[i].f # none /\ ~Read(i)' /\ ~tab'[i].dirt /\ tab'[i].links = 1 =>
                     disk'[tab'[i].f] = Stored(i)'
    <3>1. CASE i = e
      <4>1. tab'[i].f = f /\ tab'[i].count = tab[e].count /\ tab'[i].dirt  BY <1>8, <1>10, <3>1
      <4>2. f \in imap' /\ f # none /\ f \notin Lasting'  BY <1>3, <1>5, <1>6, <1>15
      <4> QED  BY <1>5, <4>1, <4>2
    <3>2. CASE i # e  BY <1>3, <1>7, <1>10, <1>12, <1>15, <3>2 DEF EntryOK
    <3> QED  BY <3>1, <3>2
  <2> QED  BY <2>1, <2>2 DEF EntryOK
<1>17. FileOK'
  <2>1. dir \in named' /\ named' \subseteq Regular \cup {dir} /\ Lasting' \subseteq imap'
    BY <1>3, <1>6, <1>15 DEF FileOK
  <2>2. ASSUME NEW g \in Lasting', \A i \in Inodes : tab'[i].f = g => Read(i)'
        PROVE  disk'[g].links = 1
    <3>1. g # f /\ g \in Lasting  BY <1>15
    <3>2. \A i \in Inodes : tab[i].f = g => Read(i)  BY <1>2, <1>10, <1>12, <2>2, <3>1
    <3> QED  BY <1>3, <3>1, <3>2 DEF FileOK
  <2>3. ASSUME NEW g \in imap' \ Lasting'
        PROVE  \E i \in Inodes :
                  /\ tab'[i].f = g
                  /\ tab'[i].links = 0 \/ \E q \in Procs : pc'[q] = "create" /\ loc'[q].ino = i
    <3>1. CASE g = f  BY <1>8, <1>10, <3>1
    <3>2. CASE g # f
      <4>1. PICK i \in Inodes :
              /\ tab[i].f = g
              /\ tab[i].links = 0 \/ \E q \in Procs : pc[q] = "create" /\ loc[q].ino = i
        BY <1>3, <1>15, <3>2 DEF FileOK
      <4>2. i # e  BY <1>2, <3>2, <4>1
      <4> QED  BY <1>3, <1>10, <1>11, <4>1, <4>2
    <3> QED  BY <3>1, <3>2
  <2> QED  BY <2>1, <2>2, <2>3 DEF FileOK
<1>18. \A q \in Procs : q # p /\ loc[q].ino = e => pc[q] # "create" /\ ~Frees(q)
  BY <1>1, <1>4 DEF AloneOK, Apart
<1>19. PlaceOK'
  <2>1. PlaceOf(p)'
    BY <1>5, <1>6, <1>8, <1>9, <1>10, <1>11, <1>12 DEF PlaceOf, UserPCs, LockerPCs, Frees
  <2> SUFFICES ASSUME NEW q \in Procs, q # p PROVE PlaceOf(q)'
    BY <2>1 DEF PlaceOK
  <2>2. pc'[q] = pc[q] /\ loc'[q] = loc[q] /\ PlaceOf(q) /\ (Frees(q)' <=> Frees(q))
    BY <1>11 DEF PlaceOK, Frees
  <2>3. pc[q] = "scan" => tab'[loc[q].empty] = tab[loc[q].empty]
    <3>1. pc[q] = "scan" => loc[q].empty # e  BY <1>2, <1>6, <2>2, EmptyFields DEF PlaceOf
    <3>2. pc[q] = "scan" => loc[q].empty \in Inodes  BY Types DEF LocOK, LocOf, LocType
    <3> QED  BY <1>10, <3>1, <3>2
  <2>4. pc[q] \in UserPCs \cup LockerPCs => loc[q].ino \in Inodes
    BY Types DEF LocOK, LocOf, LocType, UserPCs, LockerPCs
  <2>5. CASE loc[q].ino = e
    <3>1. pc[q] # "reading"  BY <1>5, <2>5 DEF Read
    <3> QED  BY <1>2, <1>8, <1>10, <1>12, <1>18, <2>2, <2>3, <2>5, <3>1 DEF PlaceOf
  <2>6. CASE loc[q].ino # e
    <3>1. pc[q] = "reading" => tab[loc[q].ino].f # f  BY <1>7, <2>4, <2>6 DEF LockerPCs
    <3> QED  BY <1>3, <1>10, <1>12, <2>2, <2>3, <2>4, <2>6, <3>1
             DEF PlaceOf, UserPCs, LockerPCs, Frees
  <2> QED  BY <2>5, <2>6
<1>20. AloneOK'
  <2>1. \A q \in Procs : q # p => Apart(p, q)' /\ Apart(q, p)'
    BY <1>3, <1>9, <1>18, ApartFrom DEF LockerPCs
  <2> QED  BY <1>3, <2>1, AloneStep
<1>21. SuperOK' /\ Unmounting' = Unmounting  BY <1>3, <1>5, <1>9, SuperKept
<1>22. \A i \in Inodes : /\ tab'[i].f = tab[i].f /\ tab'[i].zone = tab[i].zone
                         /\ tab'[i].mount = tab[i].mount /\ tab'[i].count = tab[i].count
  BY <1>2, <1>8, <1>10
<1>23. MountOK'
  <2>1. super.imount # NoInode /\ ~Dropped =>
            tab'[super.imount].f = tab[super.imount].f /\ ~Read(super.imount)'
    <3>1. super.imount # NoInode => super.imount \in Inodes  BY Types
    <3> QED  BY <1>3, <1>12, <1>22, <3>1 DEF MountOK
  <2> QED  BY <1>3, <1>21, <1>22, <2>1, MountKept
<1>24. CountExact'
  <2>1. ASSUME NEW i \in Inodes
        PROVE  tab'[i].count = tab[i].count + Num(Empty(p, i))' - Num(Empty(p, i))
                               + Num(Counts(p, i))' - Num(Counts(p, i))
                               + Num(MountRef(i))' - Num(MountRef(i))
    <3>1. /\ Empty(p, i)' <=> Empty(p, i)
          /\ Counts(p, i)' <=> Counts(p, i)
          /\ MountRef(i)' <=> MountRef(i)
      BY <1>1, <1>3, <1>5, <1>9, <1>11 DEF Empty, Counts, MountRef, Dropped
    <3>2. /\ Num(Empty(p, i))' = Num(Empty(p, i)) /\ Num(Empty(p, i)) \in Int
          /\ Num(Counts(p, i))' = Num(Counts(p, i)) /\ Num(Counts(p, i)) \in Int
          /\ Num(MountRef(i))' = Num(MountRef(i)) /\ Num(MountRef(i)) \in Int
      BY <3>1 DEF Num
    <3>3. tab[i].count \in Nat  BY DEF TypeOK
    <3> QED  BY <1>22, <3>2, <3>3
  <2> QED  BY <1>3, <2>1, CountsStep
<1>25. BlocksOK'
  <2>1. \A q \in Procs : loc'[q].zone = loc[q].zone  BY <1>5, <1>9, <1>11
  <2> QED  BY <1>3, <1>12, <1>13, <1>16, <1>22, <2>1, ZonesSame
<1> QED  BY <1>3, <1>13, <1>14, <1>16, <1>17, <1>19, <1>20, <1>21, <1>23, <1>24, <1>25

----------------------------------------------------------------------------
(* mount() and umount() mark the directory.                                *)

\* Only the marks of the directory change.
Marked(e, s) ==
    /\ tab' = [tab EXCEPT ![e] = s] /\ disk' = disk /\ imap' = imap /\ zmap' = zmap /\ lost' = lost
    /\ named' = named /\ panicked' = panicked
    /\ super' \in [here : BOOLEAN, lock : BOOLEAN, imount : Inodes \cup {NoInode}]
    /\ s.f = tab[e].f /\ s.f = dir /\ s.count = tab[e].count /\ s.count >= 1
    /\ s.lock = tab[e].lock /\ s.links = tab[e].links /\ s.zone = tab[e].zone
    /\ ~s.dirt => ~tab[e].dirt

LEMMA MarkedStep ==
    ASSUME Inv, NEW p \in Procs, NEW l \in PCs, NEW r \in LocType, Moves(p, l, r),
           cpu \in {p, NoProc}, NEW e \in Inodes, NEW s \in EntryType, Marked(e, s),
           {l, pc[p]} \cap {"reading", "create"} = {}, r.zone = loc[p].zone,
           LocOf(p)', PlaceOf(p)', \A q \in Procs : q # p => Apart(p, q)' /\ Apart(q, p)',
           SuperOK', MountOK', CountExact'
    PROVE  Inv'
<1> USE DEF Inv, Marked
<1>1. /\ tab'[e] = s /\ \A i \in Inodes : i # e => tab'[i] = tab[i]
      /\ tab' \in [Inodes -> EntryType]
  BY DEF TypeOK, EntryType
<1>2. /\ pc'[p] = l /\ loc'[p] = r
      /\ \A q \in Procs : q # p => pc'[q] = pc[q] /\ loc'[q] = loc[q]
      /\ pc' \in [Procs -> PCs] /\ loc' \in [Procs -> LocType] /\ cpu' \in Procs \cup {NoProc}
  BY Moved
<1>3. \A i : Read(i)' <=> Read(i)  BY ReadAfter
<1>4. \A i \in Inodes : /\ tab'[i].f = tab[i].f /\ tab'[i].count = tab[i].count
                        /\ tab'[i].lock = tab[i].lock /\ tab'[i].links = tab[i].links
                        /\ tab'[i].zone = tab[i].zone /\ (~tab'[i].dirt => ~tab[i].dirt)
                        /\ Stored(i)' = Stored(i)
  BY <1>1 DEF Stored
<1>5. TypeOK'  BY <1>1, <1>2 DEF TypeOK, EntryType, LocType
<1>6. LocOK'
  <2>1. \A q \in Procs : q # p /\ pc[q] \in {"get", "scan"} => loc[q].f \in named' \cup {top}
    BY DEF LocOK, LocOf
  <2> QED  BY <2>1, LocStep
<1>7. Lasting' = Lasting  BY DEF Lasting
<1>8. EntryOK'
  <2>1. \A i, j \in Inodes : tab'[i].f = tab'[j].f /\ tab'[i].f # none => i = j  BY <1>4 DEF EntryOK
  <2>2. ASSUME NEW i \in Inodes
        PROVE  /\ tab'[i].f = none => ~tab'[i].lock /\ ~tab'[i].dirt
               /\ tab'[i].count = 0 => ~tab'[i].lock /\ ~tab'[i].dirt
    <3>1. CASE i = e  BY <1>1, <3>1, Names
    <3>2. CASE i # e  BY <1>1, <3>2 DEF EntryOK
    <3> QED  BY <3>1, <3>2
  <2>3. ASSUME NEW i \in Inodes
        PROVE  /\ tab'[i].f # none => tab'[i].f \in imap'
               /\ tab'[i].count = 0 => tab'[i].f \in Lasting' \cup {none}
               /\ tab'[i].f \in Lasting' /\ ~Read(i)' => tab'[i].links = 1
               /\ tab'[i].f # none /\ ~Read(i)' /\ ~tab'[i].dirt /\ tab'[i].links = 1 =>
                     disk'[tab'[i].f] = Stored(i)'
    BY <1>3, <1>4, <1>7 DEF EntryOK
  <2> QED  BY <2>1, <2>2, <2>3 DEF EntryOK
<1>9. FileOK'
  <2>1. \A q \in Procs : pc[q] = "create" => pc'[q] = "create" /\ loc'[q] = loc[q]  BY <1>2
  <2> QED  BY <1>3, <1>4, <1>7, <2>1 DEF FileOK
<1>10. PlaceOK'
  <2> SUFFICES ASSUME NEW q \in Procs, q # p PROVE PlaceOf(q)'
    BY DEF PlaceOK
  <2>1. pc'[q] = pc[q] /\ loc'[q] = loc[q] /\ PlaceOf(q) /\ (Frees(q)' <=> Frees(q))
    BY <1>2 DEF PlaceOK, Frees
  <2>2. pc[q] = "scan" => tab'[loc[q].empty] = tab[loc[q].empty]
    <3>1. pc[q] = "scan" => loc[q].empty # e  BY <2>1, EmptyFields, Names DEF PlaceOf
    <3>2. pc[q] = "scan" => loc[q].empty \in Inodes  BY Types DEF LocOK, LocOf, LocType
    <3> QED  BY <1>1, <3>1, <3>2
  <2>3. pc[q] \in UserPCs \cup LockerPCs => loc[q].ino \in Inodes
    BY Types DEF LocOK, LocOf, LocType, UserPCs, LockerPCs
  <2> QED  BY <1>3, <1>4, <2>1, <2>2, <2>3 DEF PlaceOf, UserPCs, LockerPCs, Frees
<1>11. AloneOK'  BY AloneStep
<1>12. BlocksOK'
  <2>1. \A q \in Procs : loc'[q].zone = loc[q].zone  BY <1>2
  <2> QED  BY <1>3, <1>4, <1>5, <1>8, <2>1, ZonesSame
<1> QED  BY <1>5, <1>6, <1>8, <1>9, <1>10, <1>11, <1>12

\* mount(): the super block gets the reference.
LEMMA MountDone ==
    ASSUME Inv, NEW p \in Procs, At(p, "mounting"), super.imount = NoInode,
           ~tab[loc[p].ino].mount, super' = [super EXCEPT !.imount = loc[p].ino],
           Set(loc[p].ino, [tab[loc[p].ino] EXCEPT !.mount = TRUE, !.dirt = TRUE]),
           Sleep(p, "user", NoLoc), UNCHANGED <<disk, bitmaps, named, panicked>>
    PROVE  Inv'
<1> USE DEF Inv
<1>1. PICK e \in Inodes : e = loc[p].ino  BY UserFacts DEF At, UserPCs
<1>2. /\ Moves(p, "user", NoLoc) /\ pc[p] = "mounting" /\ cpu \in {p, NoProc}
      /\ tab' = [tab EXCEPT ![e] = [tab[e] EXCEPT !.mount = TRUE, !.dirt = TRUE]]
      /\ disk' = disk /\ imap' = imap /\ zmap' = zmap /\ lost' = lost /\ named' = named
      /\ panicked' = panicked /\ super' = [super EXCEPT !.imount = e]
  BY <1>1 DEF At, Set, Moves, Sleep, bitmaps
<1>3. pc[p] \in UserPCs  BY <1>2 DEF UserPCs
<1>4. /\ loc[p].empty = NoInode /\ loc[p].zone = NoBlock /\ ~Read(e) /\ tab[e].count >= 1
      /\ tab[e].count \in Nat /\ loc[p].ret = "user" /\ tab[e].f = dir
  <2>1. tab[e].f = dir  BY <1>1, <1>2 DEF PlaceOK, PlaceOf
  <2> QED  BY <1>1, <1>2, <1>3, <2>1, UserFacts
<1>5. super.here /\ ~super.lock /\ Unmounting = {} /\ Entering = {}
  BY <1>2 DEF SuperOK, MountOK, Mounted
<1>6. PICK s \in EntryType :
         /\ tab' = [tab EXCEPT ![e] = s] /\ s.f = tab[e].f /\ s.count = tab[e].count
         /\ s.lock = tab[e].lock /\ s.dirt = TRUE /\ s.mount = TRUE
         /\ s.links = tab[e].links /\ s.zone = tab[e].zone
  <2> DEFINE t == [tab[e] EXCEPT !.mount = TRUE]
             s == [t EXCEPT !.dirt = TRUE]
  <2>1. /\ t \in EntryType /\ t.f = tab[e].f /\ t.count = tab[e].count /\ t.lock = tab[e].lock
        /\ t.mount = TRUE /\ t.links = tab[e].links /\ t.zone = tab[e].zone
    BY Types, EntryFlags
  <2>2. tab' = [tab EXCEPT ![e] = s]  BY <1>2
  <2> HIDE DEF t
  <2>3. /\ s \in EntryType /\ s.f = t.f /\ s.count = t.count /\ s.lock = t.lock
        /\ s.dirt = TRUE /\ s.mount = t.mount /\ s.links = t.links /\ s.zone = t.zone
    BY <2>1, EntryFlags
  <2> HIDE DEF s
  <2> QED  BY <2>1, <2>2, <2>3
<1>7. tab'[e] = s /\ \A i \in Inodes : i # e => tab'[i] = tab[i]  BY <1>6 DEF TypeOK
<1>8. /\ pc'[p] = "user" /\ loc'[p] = NoLoc
      /\ \A q \in Procs : q # p => pc'[q] = pc[q] /\ loc'[q] = loc[q]
  BY <1>2, Moved
<1>9. /\ super'.here = super.here /\ super'.lock = super.lock /\ super'.imount = e
      /\ super' \in [here : BOOLEAN, lock : BOOLEAN, imount : Inodes \cup {NoInode}]
  BY <1>2 DEF TypeOK
<1>10. \A i : Read(i)' <=> Read(i)  BY <1>2, ReadAfter
<1>11. Unmounting' = {} /\ Entering' = {} /\ ~Dropped /\ ~Dropped'
  <2>1. \A q \in Procs : loc[q].ret # "put_super" /\ pc[q] # "put_super"  BY <1>5 DEF Unmounting
  <2>2. \A q \in Procs : loc'[q].ret # "put_super" /\ pc'[q] # "put_super"
    BY <1>8, <2>1, NoLocFields
  <2> QED  BY <1>5, <1>8, <2>1, <2>2 DEF Unmounting, Entering, Dropped
<1>12. LocOf(p)'  BY <1>8, NoLocFields DEF LocOf
<1>13. PlaceOf(p)'  BY <1>8 DEF PlaceOf, UserPCs, LockerPCs, Frees
<1>14. \A q \in Procs : q # p => Apart(p, q)' /\ Apart(q, p)'
  BY <1>2, ApartFrom DEF UserPCs, LockerPCs
<1>15. SuperOK'
  <2>1. \A q \in Procs : loc'[q].ret # "put_super"  BY <1>11 DEF Unmounting
  <2>2. \A q \in Procs : pc'[q] # "rsuper"  BY <1>5, <1>8 DEF SuperOK
  <2> QED  BY <1>5, <1>9, <1>11, <2>1, <2>2 DEF SuperOK
<1>16. MountOK'
  <2>1. \A i \in Inodes : tab'[i].mount <=> super'.imount = i
    BY <1>6, <1>7, <1>9, Names DEF MountOK
  <2>2. \A i \in Inodes : ~(tab'[i].f = top /\ tab'[i].count > 0)
    BY <1>6, <1>7 DEF MountOK, Mounted
  <2> QED  BY <1>4, <1>6, <1>7, <1>9, <1>10, <1>11, <2>1, <2>2 DEF MountOK
<1>17. CountExact'
  <2>1. ASSUME NEW i \in Inodes
        PROVE  tab'[i].count = tab[i].count + Num(Empty(p, i))' - Num(Empty(p, i))
                               + Num(Counts(p, i))' - Num(Counts(p, i))
                               + Num(MountRef(i))' - Num(MountRef(i))
    <3>1. /\ ~Empty(p, i)' /\ ~Empty(p, i) /\ ~Counts(p, i)' /\ (Counts(p, i) <=> i = e)
          /\ ~MountRef(i)
          /\ MountRef(i)' <=> i = e
      BY <1>1, <1>2, <1>4, <1>8, <1>9, <1>11, NoLocFields, Names DEF Empty, Counts, MountRef
    <3>2. /\ Num(Empty(p, i))' = 0 /\ Num(Empty(p, i)) = 0 /\ Num(Counts(p, i))' = 0
          /\ Num(Counts(p, i)) = (IF i = e THEN 1 ELSE 0) /\ Num(MountRef(i)) = 0
          /\ Num(MountRef(i))' = IF i = e THEN 1 ELSE 0
      BY <3>1 DEF Num
    <3>3. tab[i].count \in Nat /\ tab'[i].count = tab[i].count  BY <1>6, <1>7 DEF TypeOK
    <3> QED  BY <3>2, <3>3
  <2> QED  BY <1>2, <2>1, CountsStep
<1>18. "user" \in PCs  BY DEF PCs
<1>19. Marked(e, s)
  <2>1. s.f = dir /\ s.count >= 1 /\ (~s.dirt => ~tab[e].dirt)  BY <1>4, <1>6
  <2> QED  BY <1>2, <1>6, <1>9, <2>1 DEF Marked
<1> QED  BY <1>2, <1>4, <1>12, <1>13, <1>14, <1>15, <1>16, <1>17, <1>18, <1>19,
            NoLocFields, MarkedStep

\* umount(): nobody else unmounts, and nobody waits for the root.
LEMMA UmountKeeps ==
    ASSUME Inv, Safe, NEW p \in Procs, Umount(p) PROVE Inv'
<1> USE DEF Inv
<1>1. PICK e \in Inodes : e = super.imount  BY Types DEF Umount
<1> DEFINE q0 == [NoLoc EXCEPT !.ino = e]
           r == [q0 EXCEPT !.ret = "put_super"]
<1>2. /\ Moves(p, "iput", r) /\ pc[p] = "user" /\ cpu \in {p, NoProc}
      /\ tab' = [tab EXCEPT ![e] = [tab[e] EXCEPT !.mount = FALSE]]
      /\ disk' = disk /\ imap' = imap /\ zmap' = zmap /\ lost' = lost /\ named' = named
      /\ panicked' = panicked /\ super' = super
      /\ super.here /\ ~super.lock /\ Unmounting = {} /\ Entering = {}
      /\ \A i \in Inodes : tab[i].f = top => tab[i].count = 0
  BY <1>1 DEF Umount, Safe, At, Set, Moves, Goto, bitmaps
<1>3. /\ loc[p].ino = NoInode /\ loc[p].empty = NoInode /\ loc[p].zone = NoBlock
      /\ loc[p].ret = "user"
  BY <1>2, Types DEF LocOK, LocOf, LocType
<1>4. /\ r \in LocType /\ r.f = none /\ r.ino = e /\ r.empty = NoInode /\ r.zone = NoBlock
      /\ r.ret = "put_super"
  <2>1. /\ q0 \in LocType /\ q0.f = none /\ q0.ino = e /\ q0.empty = NoInode
        /\ q0.zone = NoBlock
    BY NoLocFields, LocFields
  <2> HIDE DEF q0
  <2> QED  BY <2>1, LocFields
<1> HIDE DEF q0, r
<1>5. ~Dropped  BY <1>2 DEF Dropped, Unmounting
<1>6. tab[e].f = dir /\ ~Read(e) /\ tab[e].count >= 1
  <2>1. MountRef(e)  BY <1>1, <1>5 DEF MountRef
  <2>2. tab[e].count >= 1  BY <2>1, Counted
  <2> QED  BY <1>1, <1>5, <2>2, Names DEF MountOK
<1>7. PICK s \in EntryType :
         /\ tab' = [tab EXCEPT ![e] = s] /\ s.f = tab[e].f /\ s.count = tab[e].count
         /\ s.lock = tab[e].lock /\ s.dirt = tab[e].dirt /\ s.mount = FALSE
         /\ s.links = tab[e].links /\ s.zone = tab[e].zone
  <2> DEFINE s == [tab[e] EXCEPT !.mount = FALSE]
  <2>1. tab' = [tab EXCEPT ![e] = s]  BY <1>2
  <2>2. /\ s \in EntryType /\ s.f = tab[e].f /\ s.count = tab[e].count
        /\ s.lock = tab[e].lock /\ s.dirt = tab[e].dirt /\ s.mount = FALSE
        /\ s.links = tab[e].links /\ s.zone = tab[e].zone
    BY Types, EntryFlags
  <2> HIDE DEF s
  <2> QED  BY <2>1, <2>2
<1>8. tab'[e] = s /\ \A i \in Inodes : i # e => tab'[i] = tab[i]  BY <1>7 DEF TypeOK
<1>9. /\ pc'[p] = "iput" /\ loc'[p] = r
      /\ \A q \in Procs : q # p => pc'[q] = pc[q] /\ loc'[q] = loc[q]
  BY <1>2, Moved
<1>10. \A i : Read(i)' <=> Read(i)  BY <1>2, ReadAfter
<1>11. \A q \in Procs : loc[q].ret # "put_super" /\ pc[q] # "put_super"  BY <1>2 DEF Unmounting
<1>12. /\ Entering' = {} /\ ~Dropped'
       /\ \A q \in Procs : q \in Unmounting' <=> q = p
       /\ Unmounting' \subseteq Procs
  <2>1. \A q \in Procs : loc'[q].ret = "put_super" \/ pc'[q] = "put_super" <=> q = p
    BY <1>4, <1>9, <1>11
  <2> QED  BY <1>2, <1>9, <1>11, <2>1 DEF Unmounting, Entering, Dropped
<1>13. LocOf(p)'  BY <1>4, <1>9, Names DEF LocOf
<1>14. PlaceOf(p)'
  BY <1>4, <1>6, <1>7, <1>8, <1>9, <1>10, Names DEF PlaceOf, UserPCs, LockerPCs, Frees
<1>15. \A q \in Procs : q # p => Apart(p, q)' /\ Apart(q, p)'
  <2>1. \A q \in Procs : loc[q].ino = e => pc[q] # "create" /\ ~Frees(q)
    BY <1>6, Names DEF PlaceOK, PlaceOf, Frees
  <2> QED  BY <1>2, <1>4, <2>1, ApartFrom DEF LockerPCs
<1>16. SuperOK'
  <2>1. \A q \in Procs : loc'[q].ret = "put_super" => q = p  BY <1>12 DEF Unmounting
  <2>2. \A q \in Procs : pc'[q] # "rsuper"  BY <1>2, <1>9 DEF SuperOK
  <2>3. super'.here /\ ~super'.lock /\ super'.imount = e /\ e # NoInode  BY <1>1, <1>2, Names
  <2>4. \A q \in Procs : loc'[q].ret = "put_super" => loc'[q].ino = super'.imount
    BY <1>4, <1>9, <2>1, <2>3
  <2> QED  BY <1>12, <2>2, <2>3, <2>4 DEF SuperOK
<1>17. MountOK'
  <2>1. \A i \in Inodes : ~tab'[i].mount  BY <1>1, <1>7, <1>8 DEF MountOK
  <2>2. \A i \in Inodes : ~(tab'[i].f = top /\ tab'[i].count > 0)  BY <1>2, <1>7, <1>8
  <2>3. Unmounting' # {}  BY <1>12
  <2> QED  BY <1>1, <1>2, <1>6, <1>7, <1>8, <1>10, <1>12, <2>1, <2>2, <2>3 DEF MountOK
<1>18. CountExact'
  <2>1. ASSUME NEW i \in Inodes
        PROVE  tab'[i].count = tab[i].count + Num(Empty(p, i))' - Num(Empty(p, i))
                               + Num(Counts(p, i))' - Num(Counts(p, i))
                               + Num(MountRef(i))' - Num(MountRef(i))
    <3>1. /\ ~Empty(p, i)' /\ ~Empty(p, i) /\ ~Counts(p, i)' /\ ~Counts(p, i)
          /\ MountRef(i)' <=> MountRef(i)
      BY <1>2, <1>3, <1>4, <1>5, <1>9, <1>12, Names DEF Empty, Counts, MountRef
    <3>2. /\ Num(Empty(p, i))' = 0 /\ Num(Empty(p, i)) = 0 /\ Num(Counts(p, i))' = 0
          /\ Num(Counts(p, i)) = 0 /\ Num(MountRef(i))' = Num(MountRef(i))
          /\ Num(MountRef(i)) \in Int
      BY <3>1 DEF Num
    <3>3. tab[i].count \in Nat /\ tab'[i].count = tab[i].count  BY <1>7, <1>8 DEF TypeOK
    <3> QED  BY <3>2, <3>3
  <2> QED  BY <1>2, <2>1, CountsStep
<1>19. /\ "iput" \in PCs
       /\ super' \in [here : BOOLEAN, lock : BOOLEAN, imount : Inodes \cup {NoInode}]
  BY <1>2 DEF PCs, TypeOK
<1>20. Marked(e, s)
  <2>1. s.f = dir /\ s.count >= 1 /\ (~s.dirt => ~tab[e].dirt)  BY <1>6, <1>7
  <2> QED  BY <1>2, <1>7, <1>19, <2>1 DEF Marked
<1> QED  BY <1>2, <1>3, <1>4, <1>13, <1>14, <1>15, <1>16, <1>17, <1>18, <1>19, <1>20,
            MarkedStep

----------------------------------------------------------------------------
(* All steps together.                                                     *)

\* get_empty_inode() finds the table full.
Full == /\ panic /\ \A e \in Inodes : tab[e].count > 0
        /\ \E p \in Procs : pc[p] = "get"

LEMMA IputKeeps ==
    ASSUME Inv, NEW p \in Procs, iput(p) PROVE Inv'
<1> DEFINE e == loc[p].ino
<1>1. At(p, "iput") /\ pc[p] = "iput"  BY DEF iput, At
<1>2. tab[e].count # 0
  <2>1. tab[e].count \in Nat /\ tab[e].count >= 1  BY <1>1, UserFacts DEF UserPCs
  <2> HIDE DEF e
  <2> QED  BY <2>1
<1>3. CASE tab[e].lock /\ Waits(p)  BY <1>1, <1>3, WaitsKeeps
<1>4. CASE /\ ~tab[e].lock
           /\ \/ tab[e].count > 1
              \/ tab[e].count = 1 /\ tab[e].links = 1 /\ ~tab[e].dirt
           /\ Set(e, [tab[e] EXCEPT !.count = @ - 1])
           /\ Returns(p)
           /\ UNCHANGED <<disk, bitmaps, named, super, panicked>>
  BY <1>1, <1>4, IputReturnsKeeps
<1>5. CASE /\ ~tab[e].lock /\ tab[e].count = 1 /\ tab[e].links = 0
           /\ Goto(p, "truncate", loc[p])
           /\ UNCHANGED <<tab, disk, bitmaps, named, super, panicked>>
  BY <1>1, <1>5, FreesKeeps
<1>6. CASE ~tab[e].lock /\ tab[e].count = 1 /\ Lock(p, e, "iwrite")  BY <1>1, <1>6, IputLocksKeeps
<1> QED  BY <1>2, <1>3, <1>4, <1>5, <1>6 DEF iput

LEMMA SyncLockKeeps ==
    ASSUME Inv, Safe, NEW p \in Procs, SyncLocks(p) PROVE Inv'
<1> DEFINE e == loc[p].ino
<1>1. At(p, "sync") /\ pc[p] = "sync"  BY DEF SyncLocks, At
<1>2. CASE Waits(p)  BY <1>1, <1>2, WaitsKeeps
<1>3. CASE ~tab[e].lock /\ tab[e].dirt /\ ~Freeing(e) /\ Lock(p, e, "syncwrite")
  BY <1>1, <1>3, SyncLocksKeeps
<1>4. CASE /\ Sleep(p, "user", NoLoc)
           /\ UNCHANGED <<tab, disk, bitmaps, named, super, panicked>>
  BY <1>1, <1>4, SyncLeavesKeeps
<1> QED  BY <1>2, <1>3, <1>4 DEF SyncLocks

LEMMA MountKeeps ==
    ASSUME Inv, NEW p \in Procs, Mount(p) \/ Mounting(p) PROVE Inv'
<1>1. CASE Mount(p)
  <2>1. CASE super.here  BY <1>1, <2>1, MountFinds DEF Mount
  <2>2. CASE ~super.here  BY <1>1, <2>2, MountReads DEF Mount
  <2> QED  BY <2>1, <2>2
<1>2. CASE Mounting(p)
  <2>1. CASE super.imount # NoInode \/ tab[loc[p].ino].mount  BY <1>2, <2>1, MountFails DEF Mounting
  <2>2. CASE super.imount = NoInode /\ ~tab[loc[p].ino].mount  BY <1>2, <2>2, MountDone DEF Mounting
  <2> QED  BY <2>1, <2>2
<1> QED  BY <1>1, <1>2

LEMMA StepKeeps ==
    ASSUME Inv, Safe, Next PROVE Inv' \/ Full
<1>1. ASSUME NEW p \in Procs,
             \/ \E f \in Files : Open(p, f)
             \/ \E e \in Inodes : Hit(p, e) \/ Cross(p, e) \/ Sync(p, e)
             \/ Miss(p) \/ read_inode(p) \/ SyncLocks(p) \/ SyncDone(p)
      PROVE  Inv'
  BY <1>1, OpenKeeps, HitKeeps, CrossKeeps, SyncKeeps, MissKeeps, ReadInodeKeeps,
     SyncLockKeeps, SyncDoneKeeps
<1>2. ASSUME NEW p \in Procs, Get(p) PROVE Inv' \/ Full
  <2>1. CASE \E d \in Inodes : tab[d].count = 0  BY <1>2, <2>1, GetKeeps
  <2>2. CASE \A d \in Inodes : tab[d].count # 0
    <3>1. \A e \in Inodes : tab[e].count > 0  BY <2>2 DEF Inv, TypeOK
    <3> QED  BY <1>2, <2>2, <3>1 DEF Get, At, get_empty_inode, Idle, Full
  <2> QED  BY <2>1, <2>2
<1>3. ASSUME NEW p \in Procs, ScanWaits(p) \/ Busy(p) PROVE Inv'
  <2>1. Waits(p) /\ pc[p] # "mounting"  BY <1>3 DEF ScanWaits, Busy, At
  <2> QED  BY <2>1, WaitsKeeps
<1>4. ASSUME NEW p \in Procs, Close(p) \/ iput(p) \/ IputWritten(p) \/ Freed(p) PROVE Inv'
  BY <1>4, CloseKeeps, IputKeeps, IputWrittenKeeps, FreedHeldKeeps, FreedUserKeeps
<1>5. ASSUME NEW p \in Procs,
             \/ Change(p) \/ Truncate(p) \/ Extend(p) \/ Extended(p) \/ Unlink(p)
             \/ NewInode(p) \/ Named(p)
      PROVE  Inv'
  <2>1. CASE Named(p)  BY <2>1, NamedKeeps, NotNamedKeeps DEF Named
  <2>2. CASE Change(p) \/ Truncate(p) \/ Extend(p)  BY <2>2, ChangeKeeps, TruncateKeeps, ExtendKeeps
  <2>3. CASE Extended(p)  BY <2>3, ExtendedKeeps
  <2>4. CASE Unlink(p)  BY <2>4, UnlinkGoes
  <2>5. CASE NewInode(p)  BY <2>5, NewInodeKeeps
  <2> QED  BY <1>5, <2>1, <2>2, <2>3, <2>4, <2>5
<1>6. ASSUME NEW p \in Procs,
             Mount(p) \/ read_super(p) \/ Mounting(p) \/ Umount(p) \/ put_super(p)
      PROVE  Inv'
  BY <1>6, MountKeeps, ReadSuperKeeps, UmountKeeps, PutSuperKeeps
<1> QED  BY <1>1, <1>2, <1>3, <1>4, <1>5, <1>6 DEF Next

\* What stays true after a panic too: nothing moves any more.
Kept == /\ TypeOK /\ LocOK /\ EntryOK /\ FileOK /\ PlaceOK /\ AloneOK
        /\ SuperOK /\ MountOK /\ CountExact /\ BlocksOK

LEMMA KeptSame ==
    ASSUME Kept, UNCHANGED <<cpu, tab, disk, bitmaps, named, super, pc, loc>>,
           panicked' \in BOOLEAN
    PROVE  Kept'
<1> USE DEF Kept
<1>1. /\ cpu' = cpu /\ tab' = tab /\ disk' = disk /\ imap' = imap
      /\ zmap' = zmap /\ lost' = lost
      /\ named' = named /\ super' = super /\ pc' = pc /\ loc' = loc
  BY DEF bitmaps
<1>2. TypeOK' /\ LocOK'  BY <1>1 DEF TypeOK, LocOK, LocOf
<1>3. EntryOK' /\ FileOK'  BY <1>1 DEF EntryOK, FileOK, Read, Lasting, Stored
<1>4. PlaceOK' /\ AloneOK'  BY <1>1 DEF PlaceOK, PlaceOf, AloneOK, Apart, Frees, Read
<1>5. SuperOK' /\ MountOK'
  BY <1>1 DEF SuperOK, MountOK, Unmounting, Entering, Mounted, Dropped, Read
<1>6. CountExact'  BY <1>1 DEF CountExact, References
<1>7. BlocksOK'  BY <1>1 DEF BlocksOK, Holder, Current, Found, Stored
<1> QED  BY <1>2, <1>3, <1>4, <1>5, <1>6, <1>7

\* After a panic there is no step.
LEMMA StepAwake == Next => ~panicked
<1> SUFFICES ASSUME Next PROVE ~panicked
  OBVIOUS
<1>1. ASSUME NEW p \in Procs, NEW f, Open(p, f) PROVE ~panicked
  BY <1>1 DEF Open, At
<1>2. ASSUME NEW p \in Procs, NEW e, Hit(p, e) \/ Cross(p, e) \/ Sync(p, e) PROVE ~panicked
  BY <1>2 DEF Hit, Cross, Sync, At
<1>3. ASSUME NEW p \in Procs, Get(p) \/ ScanWaits(p) \/ Miss(p) \/ read_inode(p) PROVE ~panicked
  BY <1>3 DEF Get, ScanWaits, Miss, read_inode, At
<1>4. ASSUME NEW p \in Procs, SyncLocks(p) \/ SyncDone(p) \/ Close(p) \/ iput(p) PROVE ~panicked
  BY <1>4 DEF SyncLocks, SyncDone, Written, Close, iput, At
<1>5. ASSUME NEW p \in Procs, IputWritten(p) \/ Busy(p) \/ Freed(p) PROVE ~panicked
  BY <1>5 DEF IputWritten, Written, Busy, Freed, At
<1>6. ASSUME NEW p \in Procs, \/ Change(p) \/ Truncate(p) \/ Extend(p) \/ Extended(p)
                              \/ Unlink(p) \/ NewInode(p) \/ Named(p)
      PROVE  ~panicked
  BY <1>6 DEF Change, Truncate, Extend, Extended, Unlink, NewInode, Named, Regularly, At
<1>7. ASSUME NEW p \in Procs, \/ Mount(p) \/ read_super(p) \/ Mounting(p) \/ Umount(p)
                              \/ put_super(p)
      PROVE  ~panicked
  BY <1>7 DEF Mount, read_super, Mounting, Umount, put_super, At
<1> QED  BY <1>1, <1>2, <1>3, <1>4, <1>5, <1>6, <1>7 DEF Next

LEMMA KeptStep ==
    ASSUME Kept, Safe, [Next]_vars PROVE Kept'
<1>1. CASE UNCHANGED vars  BY <1>1, KeptSame DEF vars, Kept, TypeOK
<1>2. CASE Next
  <2>1. ~panicked  BY <1>2, StepAwake
  <2>2. Inv  BY <2>1 DEF Inv, Kept
  <2>3. CASE Full  BY <2>3, KeptSame DEF Full, panic
  <2>4. CASE Inv'  BY <2>4 DEF Inv, Kept
  <2> QED  BY <1>2, <2>2, <2>3, <2>4, StepKeeps
<1> QED  BY <1>1, <1>2

LEMMA InvStep ==
    ASSUME Inv, Safe, Enough, [Next]_vars PROVE Inv'
<1>1. CASE UNCHANGED vars
  <2>1. Kept'  BY <1>1, KeptStep DEF Inv, Kept
  <2> QED  BY <1>1, <2>1 DEF Inv, Kept, vars
<1>2. CASE Next
  <2>1. ~Full
    <3>1. \A p \in Procs : pc[p] = "get" => \E e \in Inodes : tab[e].count = 0
      BY RoomInTable DEF Inv
    <3> QED  BY <3>1 DEF Full
  <2> QED  BY <1>2, <2>1, StepKeeps
<1> QED  BY <1>1, <1>2

LEMMA InitInv == Init => Inv
<1> SUFFICES ASSUME Init PROVE Inv
  OBVIOUS
<1> USE DEF Init
<1>1. /\ dir # top /\ First \in Regular /\ NoInode \notin Inodes /\ NoBlock \notin Blocks
      /\ Files = Regular \cup {dir, top} /\ Regular \cap {dir, top, none} = {}
      /\ dir # none /\ top # none
  BY Names, FilesAssumption
<1>2. /\ \A e \in Inodes : tab[e] = Unused
      /\ \A p \in Procs : pc[p] = "user" /\ loc[p] = NoLoc
      /\ super.here = FALSE /\ super.lock = FALSE /\ super.imount = NoInode
  BY DEF NoSuper
<1>3. Lasting = {dir, top, First} /\ imap = {dir, top, First}  BY DEF Lasting
<1>4. TypeOK
  <2>1. tab \in [Inodes -> EntryType] /\ loc \in [Procs -> LocType]  BY NoLocFields, UnusedFields
  <2>2. disk \in [Files -> [links : Links, zone : Blocks \cup {NoBlock}]]  BY DEF Links
  <2>3. /\ imap \subseteq Files /\ zmap \subseteq Blocks /\ lost \subseteq Blocks /\ named \subseteq Files
        /\ super \in [here : BOOLEAN, lock : BOOLEAN, imount : Inodes \cup {NoInode}]
        /\ pc \in [Procs -> PCs] /\ panicked \in BOOLEAN /\ cpu \in Procs \cup {NoProc}
    BY <1>1 DEF NoSuper, PCs
  <2> QED  BY <2>1, <2>2, <2>3 DEF TypeOK, EntryType, LocType
<1>5. LocOK  BY <1>2, NoLocFields DEF LocOK, LocOf
<1>6. EntryOK
  <2>1. none \notin Lasting  BY <1>1, <1>3
  <2>2. /\ \A e \in Inodes : /\ tab[e].f = none /\ ~tab[e].lock /\ ~tab[e].dirt
    BY <1>2, UnusedFields
  <2> QED  BY <2>1, <2>2 DEF EntryOK
<1>7. FileOK
  <2>1. \A f \in Lasting : disk[f].links = 1  BY <1>1, <1>3
  <2> QED  BY <1>1, <1>3, <2>1 DEF FileOK
<1>8. PlaceOK /\ AloneOK  BY <1>2 DEF PlaceOK, PlaceOf, AloneOK, Apart, UserPCs, LockerPCs, Frees
<1>9. Unmounting = {} /\ Entering = {}  BY <1>2, NoLocFields DEF Unmounting, Entering
<1>10. SuperOK  BY <1>2, <1>9, NoLocFields DEF SuperOK
<1>11. MountOK  BY <1>1, <1>2, <1>9, UnusedFields DEF MountOK
<1>12. CountExact
  <2> SUFFICES ASSUME NEW e \in Inodes PROVE tab[e].count = References(e)
    BY DEF CountExact
  <2> DEFINE A == {q \in Procs : Empty(q, e)}
             B == {q \in Procs : Counts(q, e)}
  <2>1. A = {} /\ B = {} /\ ~MountRef(e)  BY <1>1, <1>2, NoLocFields DEF Empty, Counts, MountRef
  <2>2. References(e) = Cardinality(A) + Cardinality(B) + Num(MountRef(e))  BY ReferencesAre
  <2>3. Num(MountRef(e)) = 0  BY <2>1 DEF Num
  <2> HIDE DEF A, B
  <2> QED  BY <1>2, <2>1, <2>2, <2>3, FS_EmptySet, UnusedFields
<1>13. BlocksOK
  <2>1. \A f \in Files, b \in Blocks : ~Holder(f, b)
    <3>1. \A f \in Files : Current(f) = disk[f]
      BY <1>1, <1>2, <1>4, <1>6, UnusedFields, CurrentIs DEF Has
    <3> QED  BY <1>1, <3>1 DEF Holder
  <2>2. \A q \in Procs : loc[q].zone = NoBlock  BY <1>2, NoLocFields
  <2> QED  BY <1>1, <2>1, <2>2 DEF BlocksOK
<1> QED  BY <1>4, <1>5, <1>6, <1>7, <1>8, <1>10, <1>11, <1>12, <1>13 DEF Inv

----------------------------------------------------------------------------
(* What follows for the table, the blocks, the names and the mount.        *)

LEMMA FewElements ==
    ASSUME NEW S, NEW x, S \subseteq {x}
    PROVE  IsFiniteSet(S) /\ Cardinality(S) = IF x \in S THEN 1 ELSE 0
<1>1. CASE x \in S
  <2>1. S = {x}  BY <1>1
  <2> QED  BY <1>1, <2>1, FS_Singleton
<1>2. CASE x \notin S
  <2>1. S = {}  BY <1>2
  <2> QED  BY <1>2, <2>1, FS_EmptySet
<1> QED  BY <1>1, <1>2

LEMMA EntriesOnce == Kept => OneEntry /\ IdleClean
<1> SUFFICES ASSUME Kept PROVE OneEntry /\ IdleClean
  OBVIOUS
<1> USE DEF Kept
<1>1. ASSUME NEW f \in Files PROVE Cardinality({e \in Inodes : tab[e].f = f}) <= 1
  <2> DEFINE S == {e \in Inodes : tab[e].f = f}
  <2>1. PICK x : S \subseteq {x}
    <3>1. \A d, e \in S : d = e  BY Names DEF EntryOK
    <3>2. CASE S = {}  BY <3>2
    <3>3. CASE S # {}  BY <3>1, <3>3
    <3> QED  BY <3>2, <3>3
  <2> HIDE DEF S
  <2>2. Cardinality(S) = IF x \in S THEN 1 ELSE 0  BY <2>1, FewElements
  <2>3. Cardinality(S) <= 1  BY <2>2
  <2> QED  BY <2>3 DEF S
<1>2. ASSUME NEW e \in Inodes, tab[e].count = 0
      PROVE  Idle(e) /\ (tab[e].f # none => disk[tab[e].f] = Stored(e))
  <2>1. ~tab[e].lock /\ ~tab[e].dirt /\ tab[e].f \in Lasting \cup {none}  BY <1>2 DEF EntryOK
  <2>2. ~Read(e)
    <3>1. \A p \in Procs : ~Uses(p, e)  BY <1>2, UsersCounted
    <3> QED  BY <3>1 DEF Uses, Read
  <2>3. tab[e].f # none => tab[e].links = 1  BY <2>1, <2>2 DEF EntryOK
  <2> QED  BY <1>2, <2>1, <2>2, <2>3 DEF EntryOK, Idle
<1> QED  BY <1>1, <1>2 DEF OneEntry, IdleClean

LEMMA OwnersOne == Kept => BlockOwned
<1> SUFFICES ASSUME Kept, NEW b \in Blocks
             PROVE  Owners(b) = IF b \in zmap \ lost THEN 1 ELSE 0
  BY DEF BlockOwned, Kept, BlocksOK
<1> USE DEF Kept
<1> DEFINE F == {f \in imap : Current(f).zone = b}
           P == {p \in Procs : loc[p].zone = b}
<1>1. /\ \A f \in F : f \in Files /\ Holder(f, b)
      /\ \A f \in Files : Holder(f, b) => f \in F
  BY Types DEF Holder
<1>2. /\ \A f, g \in F : f = g
      /\ \A p, q \in P : p = q
      /\ F = {} \/ P = {}
      /\ b \in zmap \ lost <=> F # {} \/ P # {}
  <2>1. \A f, g \in F : f = g  BY <1>1 DEF BlocksOK
  <2>2. \A p, q \in P : p = q  BY DEF BlocksOK
  <2>3. F = {} \/ P = {}
    <3>1. \A f \in F, p \in P : FALSE  BY <1>1 DEF BlocksOK
    <3> HIDE DEF F, P
    <3> QED  BY <3>1
  <2>4. b \in zmap \ lost <=> F # {} \/ P # {}
    <3>1. F # {} <=> \E f \in Files : Holder(f, b)
      <4> HIDE DEF F
      <4> QED  BY <1>1
    <3>2. P # {} <=> \E p \in Procs : loc[p].zone = b  OBVIOUS
    <3> HIDE DEF F, P
    <3> QED  BY <3>1, <3>2 DEF BlocksOK
  <2> HIDE DEF F, P
  <2> QED  BY <2>1, <2>2, <2>3, <2>4
<1>3. Owners(b) = Cardinality(F) + Cardinality(P)  BY DEF Owners
<1> HIDE DEF F, P
<1>4. CASE F = {} /\ P = {}  BY <1>2, <1>3, <1>4, FS_EmptySet
<1>5. CASE F # {}
  <2>1. PICK f : f \in F  BY <1>5
  <2>2. F = {f} /\ P = {}  BY <1>2, <2>1
  <2>3. Cardinality(F) = 1 /\ Cardinality(P) = 0 /\ b \in zmap \ lost
    BY <1>2, <1>5, <2>2, FS_EmptySet, FS_Singleton
  <2> QED  BY <1>3, <2>3
<1>6. CASE P # {}
  <2>1. PICK p : p \in P  BY <1>6
  <2>2. P = {p} /\ F = {}  BY <1>2, <2>1
  <2>3. Cardinality(F) = 0 /\ Cardinality(P) = 1 /\ b \in zmap \ lost
    BY <1>2, <1>6, <2>2, FS_EmptySet, FS_Singleton
  <2> QED  BY <1>3, <2>3
<1> QED  BY <1>4, <1>5, <1>6

LEMMA NamesOK == Kept => NamesLead
<1> SUFFICES ASSUME Kept, NEW f \in Regular
             PROVE  /\ f \in named => f \in imap /\ Current(f).links = 1
                    /\ f \in imap \ named =>
                          \/ Current(f).links = 0
                          \/ \E p \in Procs : pc[p] = "create" /\ tab[loc[p].ino].f = f
  BY DEF NamesLead
<1> USE DEF Kept
<1>1. f \in Files /\ f # none /\ f \notin {dir, top}  BY Names
<1>2. ASSUME NEW e \in Inodes, Has(e, f) PROVE Current(f).links = tab[e].links
  BY <1>1, <1>2, CurrentIs DEF Stored
<1>3. ASSUME f \in named PROVE f \in imap /\ Current(f).links = 1
  <2>1. f \in Lasting /\ f \in imap  BY <1>3 DEF Lasting, FileOK
  <2>2. CASE \E e \in Inodes : Has(e, f)
    <3>1. PICK e \in Inodes : Has(e, f)  BY <2>2
    <3>2. tab[e].links = 1  BY <2>1, <3>1 DEF EntryOK, Has
    <3> QED  BY <1>2, <2>1, <3>1, <3>2
  <2>3. CASE \A e \in Inodes : ~Has(e, f)
    <3>1. disk[f].links = 1  BY <2>1, <2>3 DEF FileOK, Has
    <3> QED  BY <1>1, <2>1, <2>3, <3>1, CurrentIs
  <2> QED  BY <2>2, <2>3
<1>4. ASSUME f \in imap \ named
      PROVE  \/ Current(f).links = 0
             \/ \E p \in Procs : pc[p] = "create" /\ tab[loc[p].ino].f = f
  <2>1. f \in imap \ Lasting  BY <1>1, <1>4 DEF Lasting
  <2>2. PICK e \in Inodes :
          /\ tab[e].f = f
          /\ tab[e].links = 0 \/ \E p \in Procs : pc[p] = "create" /\ loc[p].ino = e
    BY <2>1 DEF FileOK
  <2>3. CASE tab[e].links = 0
    <3>1. ~Read(e)  BY <1>1, <1>4, <2>2 DEF Read, PlaceOK, PlaceOf
    <3> QED  BY <1>2, <2>2, <2>3, <3>1 DEF Has
  <2>4. CASE \E p \in Procs : pc[p] = "create" /\ loc[p].ino = e  BY <2>2, <2>4
  <2> QED  BY <2>2, <2>3, <2>4
<1> QED  BY <1>3, <1>4

LEMMA UsedMounted == Kept => InUseMounted
BY DEF Kept, InUseMounted, Found, MountOK, Mounted, SuperOK

LEMMA KeptAlways == Safe => (Spec => []Kept)
<1>1. CASE Safe
  <2>1. Kept /\ [Next]_vars => Kept'  BY <1>1, KeptStep
  <2>2. Init => Kept  BY InitInv DEF Inv, Kept
  <2> QED  BY <2>1, <2>2, PTL DEF Spec
<1>2. CASE ~Safe  BY <1>2
<1> QED  BY <1>1, <1>2

(* The table of inodes: an inode is in one entry (iget(), inode.c:337, sets*)
(* i_dev and i_num without a sleep since the search), i_count is the       *)
(* number of references, and an entry nobody uses has been written, so     *)
(* that get_empty_inode() may forget it. However few entries there are.    *)
THEOREM EntriesKept == Safe => (Spec => [](OneEntry /\ CountExact /\ IdleClean))
<1>1. Kept => OneEntry /\ CountExact /\ IdleClean  BY EntriesOnce DEF Kept
<1> QED  BY <1>1, KeptAlways, PTL

(* That, and nothing in inode.c, super.c and bitmap.c panics: with enough  *)
(* entries for everybody get_empty_inode() finds one, and no block or      *)
(* inode is freed twice.                                                   *)
THEOREM TableKept == Safe /\ Enough => (Spec => []TableOK)
<1>1. CASE Safe /\ Enough
  <2>1. Inv /\ [Next]_vars => Inv'  BY <1>1, InvStep
  <2>2. Inv => TableOK
    <3>1. Inv => Kept /\ ~panicked  BY DEF Inv, Kept
    <3> QED  BY <3>1, EntriesOnce DEF TableOK, Kept, NoPanic
  <2> QED  BY <2>1, <2>2, InitInv, PTL DEF Spec
<1>2. CASE ~(Safe /\ Enough)  BY <1>2
<1> QED  BY <1>1, <1>2

(* A block whose bit is set belongs to exactly one file, or to the process *)
(* that has it from new_block() and sleeps, or to nobody for good: it is   *)
(* one that two processes allocated for the same place in a file at once   *)
(* (_bmap(), inode.c:111), of which one was overwritten. One whose bit is  *)
(* clear, which new_block() may give away, belongs to nobody: neither an   *)
(* inode in the table nor one on the disk still has it. So that race loses *)
(* blocks, and never makes two files share one.                            *)
THEOREM BlocksOwned == Safe => (Spec => []BlockOwned)
BY KeptAlways, OwnersOne, PTL

(* A name leads to an inode that is allocated and has its link; what is    *)
(* allocated without a name is about to be freed by iput() or to be named  *)
(* by creat().                                                             *)
THEOREM NamesLeadOn == Safe => (Spec => []NamesLead)
BY KeptAlways, NamesOK, PTL

(* umount() does not take the super block from under an inode: as long as  *)
(* the mounted root is in use the directory is mounted on, whatever sleeps *)
(* there are between iget() and the tests of sys_umount() (super.c:257).   *)
THEOREM MountStays == Safe => (Spec => []InUseMounted)
BY KeptAlways, UsedMounted, PTL

----------------------------------------------------------------------------
(* Names                                                                   *)
CONSTANTS Inos, Root, NoIno, EntryNames, Paths, NSlots, Races
VARIABLES inode, at, frame

N == INSTANCE Names WITH
        Names <- EntryNames, Risks <- Races, pc <- at, loc <- frame

\* What Names assumes of its constants.
Directories == N!InosAssumption /\ N!PathsAssumption /\ N!SlotsAssumption

\* The operators of the libraries, as Names sees them.
LEMMA CardinalityIs ==
    ASSUME NEW S PROVE N!Cardinality(S) = Cardinality(S)
BY DEF N!Cardinality, Cardinality

LEMMA MinIs ==
    ASSUME NEW S PROVE N!Min(S) = Min(S)
BY DEF N!Min, Min

LEMMA FiniteIs ==
    ASSUME NEW S PROVE N!IsFiniteSet(S) <=> IsFiniteSet(S)
BY DEF N!IsFiniteSet, IsFiniteSet

LEMMA InosIs ==
    ASSUME Directories PROVE IsFiniteSet(Inos) /\ Root \in Inos /\ NoIno \notin Inos
BY FiniteIs DEF Directories, N!InosAssumption

LEMMA PathsAre ==
    ASSUME Directories
    PROVE  /\ EntryNames \cap N!dots = {}
           /\ Paths \subseteq Seq(EntryNames \cup N!dots) \ {<<>>}
BY DEF Directories, N!PathsAssumption

LEMMA SlotsAre ==
    ASSUME Directories PROVE NSlots \in Nat
BY DEF Directories, N!SlotsAssumption

Inode == [kind : N!Kinds \cup {"free"}, nlinks : Nat, count : Nat, ent : [N!Slots -> N!Entries],
          up : Inos \cup {NoIno}, to : EntryNames \cup {"."}]
Frames == [op : N!Ops \cup {"none", "link"}, path : Seq(EntryNames \cup N!dots), dir : Inos \cup {NoIno},
           ino : Inos \cup {NoIno}, slot : N!Slots \cup {0}, old : Inos \cup {NoIno},
           follow : BOOLEAN]

\* The entries of the table t that lead to i, and the directories whose ".." does
\* that have a name of their own: all but those in m.
Leading(t, i) == {e \in Inos \X N!Slots : t[e[1]].ent[e[2]].ino = i}
IsDir(t, i) == t[i].kind = "dir"
Under(t, m, i) == {d \in Inos \ ({Root} \cup m) : IsDir(t, d) /\ t[d].up = i}
One(b) == IF b THEN 1 ELSE 0
NamesOf(t, m, i) ==
    Cardinality(Leading(t, i)) + One(i \in m)
    + (IF IsDir(t, i) THEN 1 + Cardinality(Under(t, m, i)) + One(i = Root) ELSE 0)

\* The table t when h[i] hold the inode i, those in m have no name yet, and n[i]
\* names of i are not counted yet.
Typed(t, h, m, n) ==
    /\ t \in [Inos -> Inode] /\ h \in [Inos -> Nat] /\ n \in [Inos -> Nat] /\ m \subseteq Inos
    /\ IsDir(t, Root) /\ t[Root].up = Root /\ h[Root] > 0
    /\ \A i \in Inos : /\ t[i].count = h[i] /\ n[i] <= h[i]
                       /\ t[i].kind = "free" => t[i] = N!Free
Tree(t, m) ==
    /\ \A i \in Inos : IF IsDir(t, i) THEN t[i].up \in Inos \ m /\ IsDir(t, t[i].up)
                      ELSE t[i].up = NoIno /\ \A s \in N!Slots : t[i].ent[s] = N!NoEntry
    /\ \A i \in Inos, s \in N!Slots :
          t[i].ent[s].ino # NoIno => t[t[i].ent[s].ino].kind # "free" /\ t[i].ent[s].ino \notin m
    /\ "create" \notin Races =>
          \A i \in Inos, s, r \in N!Slots :
             s # r /\ t[i].ent[s].ino # NoIno => t[i].ent[s].name # t[i].ent[r].name
    /\ \A i \in Inos \ ({Root} \cup m) :
          IsDir(t, i) => \E s \in N!Slots : Leading(t, i) = {<<t[i].up, s>>}
Fresh(t, h, m, n) ==
    \A i \in m : /\ t[i].kind # "free" /\ h[i] = 1 /\ n[i] = 0 /\ i # Root
                 /\ \A s \in N!Slots : t[i].ent[s] = N!NoEntry
\* A link() that is late with its count can only leave too many.
Matches(links, c, exact) == links = c \/ ("link" \in Races /\ ~exact /\ links > c)
Exact(t, m, n) ==
    \A i \in Inos :
       t[i].kind # "free" => Matches(t[i].nlinks + n[i], NamesOf(t, m, i), IsDir(t, i) \/ i \in m)
Table(t, h, m, n) == Typed(t, h, m, n) /\ Tree(t, m) /\ Fresh(t, h, m, n) /\ Exact(t, m, n)

\* What a process at c with locals l holds, makes and links.
Share(c, l, i) == One(l.dir = i) + One(l.ino = i /\ c \in {"search", "add", "empty", "held"})
                  + One(l.old = i)
MadeBy(c, l) == IF c \in {"search", "add"} THEN {l.ino} \ {NoIno} ELSE {}
LinkedBy(c, l, i) == One(c = "linked" /\ l.old = i)

Held == [i \in Inos |-> N!Holding(i)]
Made == {i \in Inos : N!Making(i) # {}}
Pending == [i \in Inos |-> Cardinality(N!Linking(i))]

Points == {"user", "walk", "get", "search", "add", "remove", "empty", "linked", "held"}
Nm(l) == Head(l.path)
\* Where a process can be, with which locals.
Frame(c, l) ==
    /\ l \in Frames
    /\ c \in Points
    /\ c = "user" => l = N!NoLoc
    /\ c \in {"held", "linked"} => l.op = "none" /\ l.dir = NoIno
    /\ c = "held" => l.ino # NoIno /\ l.old = NoIno
    /\ c = "linked" => l.ino = NoIno /\ l.old # NoIno
    /\ c \notin {"user", "held", "linked"} =>
          /\ l.path # <<>> /\ l.dir # NoIno /\ l.op # "none"
          /\ l.op = "link" <=> l.old # NoIno
    /\ c = "walk" => l.ino = NoIno
    /\ c \in {"get", "search", "remove", "empty"} => l.ino # NoIno
    /\ c = "search" => l.op = "symlink"
    /\ c = "add" => l.op \in N!Makes \cup {"link"} /\ (l.ino = NoIno <=> l.op = "link")
    /\ c \in {"remove", "empty"} => l.op \in {"unlink", "rmdir"}
    /\ c = "get" /\ l.op = "link" => Len(l.path) > 1

KindOf(op) == CASE op = "mkdir" -> "dir" [] op = "symlink" -> "symlink" [] OTHER -> "file"
\* What it relies on in the table.
Place(t, c, l) ==
    /\ c \in {"get", "search", "add", "remove", "empty"} => IsDir(t, l.dir)
    /\ c \in {"get", "remove", "empty"} =>
          IF l.slot = 0 THEN l.ino \in {l.dir, t[l.dir].up}
                        ELSE t[l.dir].ent[l.slot].ino = l.ino
    /\ c = "add" => /\ Nm(l) \in EntryNames
                    /\ "create" \notin Races =>
                          \A s \in N!Slots :
                             t[l.dir].ent[s].ino # NoIno => t[l.dir].ent[s].name # Nm(l)
    /\ c \in {"search", "add"} /\ l.op # "link" =>
          t[l.ino].kind = KindOf(l.op) /\ (l.op = "mkdir" => t[l.ino].up = l.dir)
    /\ c = "empty" => IsDir(t, l.ino) /\ l.ino # l.dir
    /\ l.old # NoIno => ~IsDir(t, l.old)

\* No two do the same at once.
Differ(c, l, d, r) ==
    /\ c \in {"remove", "empty"} /\ d \in {"remove", "empty"} /\ l.dir = r.dir => l.slot # r.slot
    /\ c = "add" /\ d = "add" /\ l.dir = r.dir /\ "create" \notin Races => Nm(l) # Nm(r)
\* The inductive invariant of Names when nobody looks at an entry that goes.
NInv == /\ at \in [Procs -> Points] /\ frame \in [Procs -> Frames]
        /\ Table(inode, Held, Made, Pending)
        /\ \A p \in Procs : Frame(at[p], frame[p]) /\ Place(inode, at[p], frame[p])
        /\ \A p, q \in Procs : p # q => Differ(at[p], frame[p], at[q], frame[q])

LEMMA LeastIn ==
    ASSUME NEW S, S \subseteq Nat, S # {} PROVE \E m \in S : \A y \in S : m <= y
<1> DEFINE R == {x \in Nat \X Nat : x[1] < x[2]}
<1>1. IsWellFoundedOn(R, Nat)  BY NatLessThanWellFounded DEF OpToRel
<1> HIDE DEF R
<1>2. PICK m \in S : \A y \in S : <<y, m>> \notin R  BY <1>1, WFMin
<1>3. ASSUME NEW y \in S PROVE m <= y
  <2>1. <<y, m>> \in Nat \X Nat /\ <<y, m>> \notin R  BY <1>2
  <2>2. ~(y < m)  BY <2>1 DEF R
  <2> QED  BY <2>2
<1> QED  BY <1>3

LEMMA MinIn ==
    ASSUME NEW S, S \subseteq Nat, S # {} PROVE Min(S) \in S
BY LeastIn DEF Min

----------------------------------------------------------------------------
(* The empty inode and the empty entry                                     *)

LEMMA FreeIs ==
    /\ N!Free \in Inode /\ N!Free.kind = "free" /\ N!Free.nlinks = 0 /\ N!Free.count = 0
    /\ N!Free.up = NoIno /\ N!Free.to = "."
    /\ \A s \in N!Slots : N!Free.ent[s] = N!NoEntry
    /\ N!NoEntry \in N!Entries /\ N!NoEntry.ino = NoIno
BY DEF N!Free, Inode, N!Entries, N!NoEntry

LEMMA EntryIs ==
    ASSUME NEW e \in N!Entries, e.ino # NoIno
    PROVE  e.name \in EntryNames /\ e.ino \in Inos
BY DEF N!Entries, N!NoEntry

LEMMA NoEntryIs ==
    ASSUME Directories, NEW e \in N!Entries, e.ino = NoIno PROVE e = N!NoEntry
BY InosIs DEF N!Entries, N!NoEntry

LEMMA Recounted ==
    ASSUME NEW r \in Inode, NEW c \in Nat
    PROVE  /\ [r EXCEPT !.count = c] \in Inode
           /\ LET w == [r EXCEPT !.count = c] IN
              w.ent = r.ent /\ w.kind = r.kind /\ w.up = r.up /\ w.to = r.to
              /\ w.nlinks = r.nlinks /\ w.count = c
BY DEF Inode

LEMMA Sets ==
    ASSUME Directories, NEW t, NEW m, NEW i
    PROVE  /\ IsFiniteSet(Leading(t, i)) /\ Cardinality(Leading(t, i)) \in Nat
           /\ IsFiniteSet(Under(t, m, i)) /\ Cardinality(Under(t, m, i)) \in Nat
<1>1. IsFiniteSet(N!Slots)  BY SlotsAre, FS_Interval DEF N!Slots
<1>2. IsFiniteSet(Inos \X N!Slots)  BY <1>1, InosIs, FS_Product
<1>3. IsFiniteSet(Leading(t, i))  BY <1>2, FS_Subset DEF Leading
<1>4. IsFiniteSet(Under(t, m, i))  BY InosIs, FS_Subset DEF Under
<1> QED  BY <1>3, <1>4, FS_CardinalityType

LEMMA NamesNat ==
    ASSUME Directories, NEW t, NEW m, NEW i
    PROVE  /\ NamesOf(t, m, i) \in Nat
           /\ NamesOf(t, m, i) = 0 => Leading(t, i) = {} /\ ~IsDir(t, i) /\ i \notin m
<1>1. Cardinality(Leading(t, i)) = 0 => Leading(t, i) = {}  BY Sets, FS_EmptySet
<1> QED  BY <1>1, Sets DEF NamesOf, One

----------------------------------------------------------------------------
(* Steps of the table that leave the names alone                           *)

LEMMA Quiet ==
    ASSUME Directories, NEW t, NEW h, NEW m, NEW n, Table(t, h, m, n), NEW u, NEW k,
           u \in [Inos -> Inode], k \in [Inos -> Nat], k[Root] > 0,
           \A x \in Inos :
              /\ u[x].ent = t[x].ent /\ u[x].count = k[x] /\ n[x] <= k[x]
              /\ \/ u[x].kind = t[x].kind /\ u[x].up = t[x].up /\ u[x].nlinks = t[x].nlinks
                 \/ u[x] = N!Free /\ ~IsDir(t, x) /\ Leading(t, x) = {} /\ x \notin m
              /\ u[x].kind = "free" => u[x] = N!Free
              /\ x \in m => k[x] = 1
    PROVE  Table(u, k, m, n)
<1>1. \A x \in Inos : IsDir(u, x) <=> IsDir(t, x)  BY FreeIs DEF IsDir
<1>2. \A x \in Inos : IsDir(t, x) => u[x].up = t[x].up  BY FreeIs DEF IsDir
<1>3. \A x : Leading(u, x) = Leading(t, x)  BY DEF Leading
<1>4. \A x : Under(u, m, x) = Under(t, m, x)  BY <1>1, <1>2 DEF Under
<1>5. Typed(u, k, m, n)
  <2>1. n \in [Inos -> Nat] /\ m \subseteq Inos /\ Root \in Inos /\ IsDir(t, Root) /\ t[Root].up = Root
    BY InosIs DEF Table, Typed
  <2>2. IsDir(u, Root) /\ u[Root].up = Root  BY <1>1, <1>2, <2>1
  <2> QED  BY <2>1, <2>2 DEF Typed
<1>6. Tree(u, m)
  <2>1. \A i \in Inos : IF IsDir(u, i) THEN u[i].up \in Inos \ m /\ IsDir(u, u[i].up)
                                       ELSE u[i].up = NoIno /\ \A s \in N!Slots : u[i].ent[s] = N!NoEntry
    <3> SUFFICES ASSUME NEW i \in Inos
                 PROVE  IF IsDir(u, i) THEN u[i].up \in Inos \ m /\ IsDir(u, u[i].up)
                        ELSE u[i].up = NoIno /\ \A s \in N!Slots : u[i].ent[s] = N!NoEntry
      OBVIOUS
    <3>1. IsDir(t, i) => t[i].up \in Inos \ m /\ IsDir(t, t[i].up)  BY DEF Tree, Table
    <3>2. ~IsDir(t, i) => t[i].up = NoIno /\ \A s \in N!Slots : t[i].ent[s] = N!NoEntry
      BY DEF Tree, Table
    <3>3. u[i].up = t[i].up \/ u[i].up = NoIno  BY FreeIs
    <3>4. u[i].ent = t[i].ent  OBVIOUS
    <3>5. CASE IsDir(t, i)  BY <1>1, <1>2, <3>1, <3>5
    <3>6. CASE ~IsDir(t, i)  BY <1>1, <3>2, <3>3, <3>4, <3>6
    <3> QED  BY <3>5, <3>6
  <2>2. ASSUME NEW i \in Inos, NEW s \in N!Slots, u[i].ent[s].ino # NoIno
        PROVE  u[u[i].ent[s].ino].kind # "free" /\ u[i].ent[s].ino \notin m
    <3> DEFINE j == u[i].ent[s].ino
    <3>1. j = t[i].ent[s].ino /\ t[j].kind # "free" /\ j \notin m  BY <2>2 DEF Tree, Table
    <3>2. <<i, s>> \in Leading(t, j)  BY <3>1 DEF Leading
    <3>3. t[i].ent[s] \in N!Entries  BY DEF Table, Typed, Inode
    <3>4. j \in Inos  BY <2>2, <3>1, <3>3, EntryIs
    <3> QED  BY <3>1, <3>2, <3>4
  <2>3. "create" \notin Races => \A i \in Inos, s, r \in N!Slots :
          s # r /\ u[i].ent[s].ino # NoIno => u[i].ent[s].name # u[i].ent[r].name
    BY DEF Tree, Table
  <2>4. \A i \in Inos \ ({Root} \cup m) :
          IsDir(u, i) => \E s \in N!Slots : Leading(u, i) = {<<u[i].up, s>>}
    BY <1>1, <1>2, <1>3 DEF Tree, Table
  <2> QED  BY <2>1, <2>2, <2>3, <2>4 DEF Tree
<1>7. Fresh(u, k, m, n)  BY DEF Fresh, Table, Typed
<1>8. Exact(u, m, n)  BY <1>1, <1>3, <1>4, FreeIs DEF Exact, Matches, Table, NamesOf
<1> QED  BY <1>5, <1>6, <1>7, <1>8 DEF Table

LEMMA GetT ==
    ASSUME Directories, NEW t, NEW h, NEW m, NEW n, Table(t, h, m, n),
           NEW i \in Inos, t[i].kind # "free", i \notin m
    PROVE  /\ Table(N!Get(t, i), [h EXCEPT ![i] = @ + 1], m, n)
           /\ \A x \in Inos : N!Get(t, i)[x].ent = t[x].ent /\ N!Get(t, i)[x].kind = t[x].kind
                              /\ N!Get(t, i)[x].up = t[x].up /\ N!Get(t, i)[x].to = t[x].to
                              /\ N!Get(t, i)[x].nlinks = t[x].nlinks
<1> DEFINE u == N!Get(t, i)  k == [h EXCEPT ![i] = @ + 1]
<1>1. t \in [Inos -> Inode] /\ h \in [Inos -> Nat] /\ n \in [Inos -> Nat]
      /\ \A x \in Inos : t[x].count = h[x] /\ n[x] <= h[x] /\ (t[x].kind = "free" => t[x] = N!Free)
      /\ h[Root] > 0 /\ Root \in Inos
  BY InosIs DEF Table, Typed
<1>2. \A x \in Inos : k[x] = IF x = i THEN h[x] + 1 ELSE h[x]  BY <1>1
<1> DEFINE r == [t[i] EXCEPT !.count = h[i] + 1]
<1>3. u = [t EXCEPT ![i] = r] /\ t[i] \in Inode /\ h[i] + 1 \in Nat
  <2>1. t[i].count = h[i]  BY <1>1
  <2>2. N!Get(t, i) = [t EXCEPT ![i] = [t[i] EXCEPT !.count = t[i].count + 1]]  BY DEF N!Get
  <2> QED  BY <1>1, <2>1, <2>2
<1>4. r \in Inode /\ r.ent = t[i].ent /\ r.count = h[i] + 1 /\ r.kind = t[i].kind /\ r.up = t[i].up
      /\ r.nlinks = t[i].nlinks /\ r.to = t[i].to
  BY <1>3, Recounted
<1> HIDE DEF r
<1>5. u \in [Inos -> Inode] /\ u[i] = r /\ \A x \in Inos \ {i} : u[x] = t[x]  BY <1>1, <1>3, <1>4
<1>6. \A x \in m : h[x] = 1  BY DEF Table, Fresh
<1>7. k \in [Inos -> Nat]  BY <1>1
<1> HIDE DEF u, k
<1>8. Table(u, k, m, n)  BY <1>1, <1>2, <1>4, <1>5, <1>6, <1>7, Quiet
<1> QED  BY <1>4, <1>5, <1>8 DEF u, k

LEMMA PutT ==
    ASSUME Directories, NEW t, NEW h, NEW m, NEW n, Table(t, h, m, n),
           NEW i \in Inos, i \notin m, n[i] < h[i], i = Root => h[i] > 1
    PROVE  /\ Table(N!Put(t, i), [h EXCEPT ![i] = @ - 1], m, n)
           /\ \A x \in Inos :
                /\ N!Put(t, i)[x].ent = t[x].ent
                /\ \/ N!Put(t, i)[x].kind = t[x].kind /\ N!Put(t, i)[x].up = t[x].up
                      /\ N!Put(t, i)[x].to = t[x].to /\ N!Put(t, i)[x].nlinks = t[x].nlinks
                   \/ N!Put(t, i)[x] = N!Free /\ ~IsDir(t, x) /\ Leading(t, x) = {} /\ x \notin m
<1> DEFINE u == N!Put(t, i)  k == [h EXCEPT ![i] = @ - 1]
<1>1. t \in [Inos -> Inode] /\ h \in [Inos -> Nat] /\ n \in [Inos -> Nat]
      /\ \A x \in Inos : t[x].count = h[x] /\ n[x] <= h[x] /\ (t[x].kind = "free" => t[x] = N!Free)
      /\ h[Root] > 0 /\ Root \in Inos /\ i # NoIno
  BY InosIs DEF Table, Typed
<1>2. \A x \in Inos : k[x] = IF x = i THEN h[x] - 1 ELSE h[x]  BY <1>1
<1>3. k \in [Inos -> Nat]  BY <1>1
<1>4. h[i] \in Nat /\ n[i] \in Nat /\ h[i] > 0 /\ t[i].kind # "free"  BY <1>1, FreeIs
<1>5. \A x \in m : h[x] = 1  BY DEF Table, Fresh
<1>6. CASE t[i].count = 1 /\ t[i].nlinks = 0
  <2>1. u = [t EXCEPT ![i] = N!Free]  BY <1>1, <1>6 DEF N!Put
  <2>2. NamesOf(t, m, i) = 0  BY <1>1, <1>4, <1>6, NamesNat DEF Table, Exact, Matches
  <2>3. ~IsDir(t, i) /\ Leading(t, i) = {}  BY <2>2, NamesNat
  <2>4. N!Free.ent = t[i].ent
    <3>1. \A s \in N!Slots : t[i].ent[s] = N!Free.ent[s]  BY <2>3, FreeIs DEF Table, Tree
    <3>2. t[i].ent \in [N!Slots -> N!Entries] /\ N!Free.ent \in [N!Slots -> N!Entries]
      BY <1>1, FreeIs DEF Inode
    <3> QED  BY <3>1, <3>2
  <2>5. u \in [Inos -> Inode]  BY <1>1, <2>1, FreeIs
  <2>6. u[i] = N!Free /\ \A x \in Inos \ {i} : u[x] = t[x]  BY <1>1, <2>1
  <2> HIDE DEF u, k
  <2>7. Table(u, k, m, n)
    BY <1>1, <1>2, <1>3, <1>4, <1>5, <1>6, <2>3, <2>4, <2>5, <2>6, FreeIs, Quiet
  <2> QED  BY <2>3, <2>4, <2>6, <2>7 DEF u, k
<1>7. CASE ~(t[i].count = 1 /\ t[i].nlinks = 0)
  <2> DEFINE r == [t[i] EXCEPT !.count = h[i] - 1]
  <2>1. u = [t EXCEPT ![i] = r] /\ t[i] \in Inode /\ h[i] - 1 \in Nat
    <3>1. t[i].count = h[i]  BY <1>1
    <3>2. N!Put(t, i) = [t EXCEPT ![i] = [t[i] EXCEPT !.count = t[i].count - 1]]
      BY <1>1, <1>7 DEF N!Put
    <3> QED  BY <1>1, <1>4, <3>1, <3>2
  <2>2. r \in Inode /\ r.ent = t[i].ent /\ r.count = h[i] - 1 /\ r.kind = t[i].kind
        /\ r.up = t[i].up /\ r.nlinks = t[i].nlinks /\ r.to = t[i].to
    BY <2>1, Recounted
  <2> HIDE DEF r
  <2>3. u \in [Inos -> Inode] /\ u[i] = r /\ \A x \in Inos \ {i} : u[x] = t[x]  BY <1>1, <2>1, <2>2
  <2> HIDE DEF u, k
  <2>4. Table(u, k, m, n)  BY <1>1, <1>2, <1>3, <1>4, <1>5, <2>2, <2>3, Quiet
  <2> QED  BY <2>2, <2>3, <2>4 DEF u, k
<1> QED  BY <1>6, <1>7

----------------------------------------------------------------------------
(* Steps of the table that make and drop inodes without names              *)

LEMMA TableIs ==
    ASSUME Directories, NEW t, NEW h, NEW m, NEW n, Table(t, h, m, n)
    PROVE  /\ t \in [Inos -> Inode] /\ h \in [Inos -> Nat] /\ n \in [Inos -> Nat]
           /\ m \subseteq Inos /\ Root \in Inos /\ NoIno \notin Inos
           /\ IsDir(t, Root) /\ t[Root].up = Root /\ h[Root] > 0
           /\ \A x \in Inos : /\ t[x].count = h[x] /\ n[x] <= h[x]
                              /\ t[x].kind = "free" => t[x] = N!Free
                              /\ t[x].nlinks \in Nat /\ t[x].ent \in [N!Slots -> N!Entries]
           /\ \A x \in m : /\ t[x].kind # "free" /\ h[x] = 1 /\ n[x] = 0 /\ x # Root
                           /\ \A s \in N!Slots : t[x].ent[s] = N!NoEntry
BY InosIs DEF Table, Typed, Fresh, Inode

LEMMA LedTo ==
    ASSUME Directories, NEW t, NEW h, NEW m, NEW n, Table(t, h, m, n), NEW x \in Inos,
           Leading(t, x) # {}
    PROVE  t[x].kind # "free" /\ x \notin m
<1>1. PICK i \in Inos, s \in N!Slots : t[i].ent[s].ino = x  BY DEF Leading
<1> QED  BY <1>1, InosIs DEF Table, Tree

LEMMA FreshNames ==
    ASSUME Directories, NEW t, NEW h, NEW m, NEW n, Table(t, h, m, n), NEW i \in Inos,
           t[i].kind = "free" \/ i \in m
    PROVE  /\ Leading(t, i) = {}
           /\ \A x \in Inos : IsDir(t, x) => t[x].up # i
           /\ \A k : Under(t, k, i) = {}
<1>1. Leading(t, i) = {}  BY LedTo
<1>2. \A x \in Inos : IsDir(t, x) => t[x].up # i  BY DEF Table, Tree, IsDir
<1> QED  BY <1>1, <1>2 DEF Under

LEMMA NewT ==
    ASSUME Directories, NEW t, NEW h, NEW m, NEW n, Table(t, h, m, n),
           NEW i \in Inos, t[i].kind = "free",
           NEW r \in Inode, r.kind # "free", r.count = 1, r.ent = N!Free.ent,
           r.nlinks = 1 + One(r.kind = "dir"),
           IF r.kind = "dir" THEN r.up \in Inos \ m /\ IsDir(t, r.up) ELSE r.up = NoIno
    PROVE  Table([t EXCEPT ![i] = r], [h EXCEPT ![i] = 1], m \cup {i}, n)
<1> DEFINE u == [t EXCEPT ![i] = r]  k == [h EXCEPT ![i] = 1]  f == m \cup {i}
<1>1. /\ t \in [Inos -> Inode] /\ h \in [Inos -> Nat] /\ n \in [Inos -> Nat] /\ m \subseteq Inos
      /\ t[i] = N!Free /\ h[i] = 0 /\ n[i] = 0 /\ i # Root /\ i \notin m
      /\ \A x \in Inos : t[x].count = h[x] /\ n[x] <= h[x]
  <2>1. t[i] = N!Free /\ h[i] = t[i].count /\ n[i] <= h[i] /\ n[i] \in Nat  BY TableIs
  <2> QED  BY <2>1, TableIs, FreeIs DEF IsDir
<1>2. u \in [Inos -> Inode] /\ u[i] = r /\ \A x \in Inos \ {i} : u[x] = t[x]  BY <1>1
<1>3. k \in [Inos -> Nat] /\ k[i] = 1 /\ \A x \in Inos \ {i} : k[x] = h[x]  BY <1>1
<1> HIDE DEF u, k
<1>4. \A x \in Inos : u[x].ent = t[x].ent  BY <1>1, <1>2
<1>5. \A x : Leading(u, x) = Leading(t, x)  BY <1>4 DEF Leading
<1>6. ~IsDir(t, i) /\ (\A x \in Inos \ {i} : IsDir(u, x) <=> IsDir(t, x))
      /\ (IsDir(u, i) <=> r.kind = "dir")
  BY <1>1, <1>2, FreeIs DEF IsDir
<1>7. Leading(t, i) = {} /\ (\A x \in Inos : IsDir(t, x) => t[x].up # i)  BY FreshNames
<1>8. \A x : Under(u, f, x) = Under(t, m, x)  BY <1>2, <1>6 DEF Under
<1>9. Under(t, m, i) = {}  BY FreshNames
<1>10. Typed(u, k, f, n)
  <2>1. IsDir(u, Root) /\ u[Root].up = Root /\ k[Root] > 0 /\ Root \in Inos
    BY <1>1, <1>2, <1>3, <1>6, TableIs
  <2>2. ASSUME NEW x \in Inos
        PROVE  u[x].count = k[x] /\ n[x] <= k[x] /\ (u[x].kind = "free" => u[x] = N!Free)
    BY <1>1, <1>2, <1>3, TableIs
  <2> QED  BY <1>1, <1>2, <1>3, <2>1, <2>2 DEF Typed
<1>11. Tree(u, f)
  <2>1. ASSUME NEW x \in Inos
        PROVE  IF IsDir(u, x) THEN u[x].up \in Inos \ f /\ IsDir(u, u[x].up)
                              ELSE u[x].up = NoIno /\ \A s \in N!Slots : u[x].ent[s] = N!NoEntry
    <3>1. CASE x = i  BY <1>1, <1>2, <1>6, <3>1, FreeIs
    <3>2. CASE x # i  BY <1>2, <1>6, <1>7, <3>2 DEF Table, Tree
    <3> QED  BY <3>1, <3>2
  <2>2. ASSUME NEW x \in Inos, NEW s \in N!Slots, u[x].ent[s].ino # NoIno
        PROVE  u[u[x].ent[s].ino].kind # "free" /\ u[x].ent[s].ino \notin f
    <3> DEFINE j == u[x].ent[s].ino
    <3>1. j = t[x].ent[s].ino  BY <1>4
    <3>2. t[x].ent[s] \in N!Entries  BY TableIs
    <3>3. j \in Inos /\ t[j].kind # "free" /\ j \notin m
      BY <2>2, <3>1, <3>2, EntryIs DEF Table, Tree
    <3> QED  BY <1>1, <1>2, <3>3
  <2>3. "create" \notin Races => \A x \in Inos, s, q \in N!Slots :
          s # q /\ u[x].ent[s].ino # NoIno => u[x].ent[s].name # u[x].ent[q].name
    BY <1>4 DEF Table, Tree
  <2>4. \A x \in Inos \ ({Root} \cup f) :
          IsDir(u, x) => \E s \in N!Slots : Leading(u, x) = {<<u[x].up, s>>}
    BY <1>2, <1>5, <1>6 DEF Table, Tree
  <2> QED  BY <2>1, <2>2, <2>3, <2>4 DEF Tree
<1>12. Fresh(u, k, f, n)  BY <1>1, <1>2, <1>3, <1>4, TableIs, FreeIs DEF Fresh
<1>13. Exact(u, f, n)
  <2> SUFFICES ASSUME NEW x \in Inos, u[x].kind # "free"
               PROVE  Matches(u[x].nlinks + n[x], NamesOf(u, f, x), IsDir(u, x) \/ x \in f)
    BY DEF Exact, Matches
  <2>1. CASE x = i
    <3>1. Cardinality(Leading(u, i)) = 0 /\ Cardinality(Under(u, f, i)) = 0
      BY <1>5, <1>7, <1>8, <1>9, FS_EmptySet
    <3>2. NamesOf(u, f, i) = 1 + One(r.kind = "dir")  BY <1>1, <1>6, <3>1 DEF NamesOf, One
    <3> QED  BY <1>1, <1>2, <2>1, <3>2 DEF One, Matches
  <2>2. CASE x # i
    <3>1. NamesOf(u, f, x) = NamesOf(t, m, x)  BY <1>5, <1>6, <1>8, <2>2 DEF NamesOf, One
    <3>2. Matches(t[x].nlinks + n[x], NamesOf(t, m, x), IsDir(t, x) \/ x \in m)
      BY <1>2, <2>2 DEF Table, Exact
    <3> QED  BY <1>2, <1>6, <2>2, <3>1, <3>2
  <2> QED  BY <2>1, <2>2
<1> QED  BY <1>10, <1>11, <1>12, <1>13 DEF Table, u, k

LEMMA DropT ==
    ASSUME Directories, NEW t, NEW h, NEW m, NEW n, Table(t, h, m, n), NEW i \in m
    PROVE  Table([t EXCEPT ![i] = N!Free], [h EXCEPT ![i] = 0], m \ {i}, n)
<1> DEFINE u == [t EXCEPT ![i] = N!Free]  k == [h EXCEPT ![i] = 0]  f == m \ {i}
<1>1. /\ t \in [Inos -> Inode] /\ h \in [Inos -> Nat] /\ n \in [Inos -> Nat] /\ m \subseteq Inos
      /\ i \in Inos /\ n[i] = 0 /\ i # Root
      /\ \A x \in Inos : t[x].count = h[x] /\ n[x] <= h[x]
      /\ \A s \in N!Slots : t[i].ent[s] = N!NoEntry
  BY TableIs
<1>2. u \in [Inos -> Inode] /\ u[i] = N!Free /\ \A x \in Inos \ {i} : u[x] = t[x]  BY <1>1, FreeIs
<1>3. k \in [Inos -> Nat] /\ k[i] = 0 /\ \A x \in Inos \ {i} : k[x] = h[x]  BY <1>1
<1> HIDE DEF u, k
<1>4. \A x \in Inos, s \in N!Slots : u[x].ent[s] = t[x].ent[s]  BY <1>1, <1>2, FreeIs
<1>5. \A x : Leading(u, x) = Leading(t, x)  BY <1>4 DEF Leading
<1>6. ~IsDir(u, i) /\ (\A x \in Inos \ {i} : IsDir(u, x) <=> IsDir(t, x))  BY <1>2, FreeIs DEF IsDir
<1>7. Leading(t, i) = {} /\ (\A x \in Inos : IsDir(t, x) => t[x].up # i)  BY <1>1, FreshNames
<1>8. \A x : Under(u, f, x) = Under(t, m, x)  BY <1>2, <1>6 DEF Under
<1>10. Typed(u, k, f, n)
  <2>1. IsDir(u, Root) /\ u[Root].up = Root /\ k[Root] > 0 /\ Root \in Inos
    BY <1>1, <1>2, <1>3, <1>6, TableIs
  <2>2. ASSUME NEW x \in Inos
        PROVE  u[x].count = k[x] /\ n[x] <= k[x] /\ (u[x].kind = "free" => u[x] = N!Free)
    BY <1>1, <1>2, <1>3, TableIs, FreeIs
  <2> QED  BY <1>1, <1>2, <1>3, <2>1, <2>2 DEF Typed
<1>11. Tree(u, f)
  <2>1. ASSUME NEW x \in Inos
        PROVE  IF IsDir(u, x) THEN u[x].up \in Inos \ f /\ IsDir(u, u[x].up)
                              ELSE u[x].up = NoIno /\ \A s \in N!Slots : u[x].ent[s] = N!NoEntry
    <3>1. CASE x = i  BY <1>1, <1>2, <1>6, <3>1, FreeIs
    <3>2. CASE x # i  BY <1>2, <1>6, <1>7, <3>2 DEF Table, Tree
    <3> QED  BY <3>1, <3>2
  <2>2. ASSUME NEW x \in Inos, NEW s \in N!Slots, u[x].ent[s].ino # NoIno
        PROVE  u[u[x].ent[s].ino].kind # "free" /\ u[x].ent[s].ino \notin f
    <3> DEFINE j == u[x].ent[s].ino
    <3>1. j = t[x].ent[s].ino  BY <1>4
    <3>2. t[x].ent[s] \in N!Entries  BY TableIs
    <3>3. j \in Inos /\ t[j].kind # "free" /\ j \notin m
      BY <2>2, <3>1, <3>2, EntryIs DEF Table, Tree
    <3> QED  BY <1>1, <1>2, <3>3
  <2>3. "create" \notin Races => \A x \in Inos, s, q \in N!Slots :
          s # q /\ u[x].ent[s].ino # NoIno => u[x].ent[s].name # u[x].ent[q].name
    BY <1>4 DEF Table, Tree
  <2>4. \A x \in Inos \ ({Root} \cup f) :
          IsDir(u, x) => \E s \in N!Slots : Leading(u, x) = {<<u[x].up, s>>}
    BY <1>2, <1>5, <1>6 DEF Table, Tree
  <2> QED  BY <2>1, <2>2, <2>3, <2>4 DEF Tree
<1>12. Fresh(u, k, f, n)  BY <1>1, <1>2, <1>3, TableIs DEF Fresh
<1>13. Exact(u, f, n)
  <2> SUFFICES ASSUME NEW x \in Inos, u[x].kind # "free"
               PROVE  Matches(u[x].nlinks + n[x], NamesOf(u, f, x), IsDir(u, x) \/ x \in f)
    BY DEF Exact, Matches
  <2>1. x # i  BY <1>2, FreeIs
  <2>2. NamesOf(u, f, x) = NamesOf(t, m, x)  BY <1>5, <1>6, <1>8, <2>1 DEF NamesOf, One
  <2>3. Matches(t[x].nlinks + n[x], NamesOf(t, m, x), IsDir(t, x) \/ x \in m)
    BY <1>2, <2>1 DEF Table, Exact
  <2> QED  BY <1>2, <1>6, <2>1, <2>2, <2>3
<1> QED  BY <1>10, <1>11, <1>12, <1>13 DEF Table, u, k

----------------------------------------------------------------------------
(* Steps of the table that add an entry                                    *)

\* u is t with the entry s of the directory d, which was free, leading to i.
AddsTo(t, u, d, s, nm, i) ==
    /\ u \in [Inos -> Inode] /\ d \in Inos /\ i \in Inos /\ d # i /\ s \in N!Slots
    /\ IsDir(t, d) /\ t[i].kind # "free" /\ t[d].ent[s].ino = NoIno /\ nm \in EntryNames
    /\ "create" \notin Races =>
          \A r \in N!Slots : t[d].ent[r].ino # NoIno => t[d].ent[r].name # nm
    /\ \A x \in Inos \ {d, i} : u[x] = t[x]
    /\ \A x \in {d, i} : u[x].kind = t[x].kind /\ u[x].up = t[x].up /\ u[x].count = t[x].count
    /\ u[i].ent = t[i].ent
    /\ u[d].ent[s].name = nm /\ u[d].ent[s].ino = i
    /\ \A r \in N!Slots \ {s} : u[d].ent[r] = t[d].ent[r]

LEMMA AddsIs ==
    ASSUME Directories, NEW t, NEW h, NEW m, NEW n, Table(t, h, m, n),
           NEW u, NEW d, NEW s, NEW nm, NEW i, AddsTo(t, u, d, s, nm, i), d \notin m,
           IsDir(t, i) => i \in m /\ t[i].up = d
    PROVE  /\ \A x \in Inos \ {i} : Leading(u, x) = Leading(t, x)
           /\ Leading(u, i) = Leading(t, i) \cup {<<d, s>>} /\ <<d, s>> \notin Leading(t, i)
           /\ \A x \in Inos : IsDir(u, x) <=> IsDir(t, x)
           /\ \A x \in Inos : u[x].up = t[x].up /\ u[x].kind = t[x].kind
           /\ Typed(u, h, m \ {i}, n) /\ Fresh(u, h, m \ {i}, n) /\ Tree(u, m \ {i})
<1> DEFINE f == m \ {i}
<1>1. \A x \in Inos : u[x].up = t[x].up /\ u[x].kind = t[x].kind /\ u[x].count = t[x].count
  BY DEF AddsTo
<1>2. \A x \in Inos : IsDir(u, x) <=> IsDir(t, x)  BY <1>1 DEF IsDir
<1>3. i # NoIno /\ d \in Inos /\ i \in Inos /\ s \in N!Slots /\ d # i  BY InosIs DEF AddsTo
<1>4. \A x \in Inos, r \in N!Slots : <<x, r>> # <<d, s>> => u[x].ent[r] = t[x].ent[r]  BY DEF AddsTo
<1>5. t[d].ent[s].ino = NoIno /\ u[d].ent[s].ino = i /\ u[d].ent[s].name = nm /\ nm \in EntryNames
      /\ IsDir(t, d) /\ t[i].kind # "free"
  BY DEF AddsTo
<1>6. ASSUME NEW x \in Inos
      PROVE  Leading(u, x) = IF x = i THEN Leading(t, i) \cup {<<d, s>>} ELSE Leading(t, x)
  <2>1. x # NoIno  BY InosIs
  <2>2. ASSUME NEW a \in Inos, NEW r \in N!Slots
        PROVE  u[a].ent[r].ino = x <=> t[a].ent[r].ino = x \/ (x = i /\ a = d /\ r = s)
    <3>1. CASE a = d /\ r = s  BY <1>5, <2>1, <3>1
    <3>2. CASE ~(a = d /\ r = s)  BY <1>4, <3>2
    <3> QED  BY <3>1, <3>2
  <2>3. CASE x = i  BY <1>3, <2>2, <2>3 DEF Leading
  <2>4. CASE x # i  BY <2>2, <2>4 DEF Leading
  <2> QED  BY <2>3, <2>4
<1>7. <<d, s>> \notin Leading(t, i)  BY <1>3, <1>5 DEF Leading
<1>8. Typed(u, h, f, n)
  <2>1. \A x \in Inos : u[x].kind = "free" => u[x] = t[x]  BY <1>1, <1>5 DEF AddsTo, IsDir
  <2>2. IsDir(u, Root) /\ u[Root].up = Root  BY <1>1, <1>2, TableIs
  <2> QED  BY <1>1, <2>1, <2>2, TableIs DEF Typed, AddsTo
<1>9. Fresh(u, h, f, n)
  <2> SUFFICES ASSUME NEW x \in f
               PROVE  /\ u[x].kind # "free" /\ h[x] = 1 /\ n[x] = 0 /\ x # Root
                      /\ \A r \in N!Slots : u[x].ent[r] = N!NoEntry
    BY DEF Fresh
  <2>1. x \in Inos /\ x # d  BY TableIs
  <2> QED  BY <1>1, <1>4, <2>1, TableIs
<1>10. Tree(u, f)
  <2>1. ASSUME NEW x \in Inos
        PROVE  IF IsDir(u, x) THEN u[x].up \in Inos \ f /\ IsDir(u, u[x].up)
                              ELSE u[x].up = NoIno /\ \A r \in N!Slots : u[x].ent[r] = N!NoEntry
    <3>1. CASE IsDir(u, x)  BY <1>1, <1>2, <3>1 DEF Table, Tree
    <3>2. CASE ~IsDir(u, x)  BY <1>1, <1>2, <1>4, <1>5, <3>2 DEF Table, Tree
    <3> QED  BY <3>1, <3>2
  <2>2. ASSUME NEW x \in Inos, NEW r \in N!Slots, u[x].ent[r].ino # NoIno
        PROVE  u[u[x].ent[r].ino].kind # "free" /\ u[x].ent[r].ino \notin f
    <3>1. CASE x = d /\ r = s  BY <1>1, <1>3, <1>5, <3>1
    <3>2. CASE ~(x = d /\ r = s)
      <4> DEFINE j == u[x].ent[r].ino
      <4>1. j = t[x].ent[r].ino  BY <1>4, <3>2
      <4>2. t[x].ent[r] \in N!Entries  BY TableIs
      <4>3. j \in Inos /\ t[j].kind # "free" /\ j \notin m
        BY <2>2, <4>1, <4>2, EntryIs DEF Table, Tree
      <4> QED  BY <1>1, <4>3
    <3> QED  BY <3>1, <3>2
  <2>3. ASSUME "create" \notin Races, NEW x \in Inos, NEW r \in N!Slots, NEW q \in N!Slots,
             r # q, u[x].ent[r].ino # NoIno
        PROVE  u[x].ent[r].name # u[x].ent[q].name
    <3>1. CASE x = d /\ r = s
      <4>1. u[x].ent[q] = t[x].ent[q] /\ t[x].ent[q] \in N!Entries  BY <1>4, <2>3, <3>1, TableIs
      <4>2. CASE t[x].ent[q].ino = NoIno
        <5>1. t[x].ent[q].name = "."  BY <4>1, <4>2, NoEntryIs DEF N!NoEntry
        <5> QED  BY <1>5, <3>1, <4>1, <5>1, PathsAre DEF N!dots
      <4>3. CASE t[x].ent[q].ino # NoIno  BY <1>5, <2>3, <3>1, <4>1, <4>3 DEF AddsTo
      <4> QED  BY <4>2, <4>3
    <3>2. CASE x = d /\ q = s
      <4>1. u[x].ent[r] = t[x].ent[r]  BY <1>4, <2>3, <3>2
      <4> QED  BY <1>5, <2>3, <3>2, <4>1 DEF AddsTo
    <3>3. CASE ~(x = d /\ (r = s \/ q = s))
      <4>1. u[x].ent[r] = t[x].ent[r] /\ u[x].ent[q] = t[x].ent[q]  BY <1>4, <3>3
      <4> QED  BY <2>3, <4>1 DEF Table, Tree
    <3> QED  BY <3>1, <3>2, <3>3
  <2>4. ASSUME NEW x \in Inos \ ({Root} \cup f), IsDir(u, x)
        PROVE  \E r \in N!Slots : Leading(u, x) = {<<u[x].up, r>>}
    <3>1. CASE x = i
      <4>1. i \in m /\ t[i].up = d  BY <1>2, <2>4, <3>1
      <4>2. Leading(t, i) = {}  BY <1>3, <4>1, FreshNames
      <4>3. Leading(u, i) = {<<d, s>>}  BY <1>3, <1>6, <4>2
      <4> QED  BY <1>1, <1>3, <3>1, <4>1, <4>3
    <3>2. CASE x # i
      <4>1. x \in Inos \ ({Root} \cup m) /\ IsDir(t, x) /\ Leading(u, x) = Leading(t, x)
            /\ u[x].up = t[x].up
        BY <1>1, <1>2, <1>6, <2>4, <3>2
      <4> QED  BY <4>1 DEF Table, Tree
    <3> QED  BY <3>1, <3>2
  <2> QED  BY <2>1, <2>2, <2>3, <2>4 DEF Tree
<1> QED  BY <1>1, <1>2, <1>3, <1>6, <1>7, <1>8, <1>9, <1>10

\* The inode i, just made, gets its name.
LEMMA NameT ==
    ASSUME Directories, NEW t, NEW h, NEW m, NEW n, Table(t, h, m, n),
           NEW u, NEW d, NEW s, NEW nm, NEW i, AddsTo(t, u, d, s, nm, i), d \notin m, i \in m,
           IsDir(t, i) => t[i].up = d,
           u[i].nlinks = t[i].nlinks, u[d].nlinks = t[d].nlinks + One(IsDir(t, i))
    PROVE  Table(u, h, m \ {i}, n)
<1> DEFINE f == m \ {i}
<1>1. i \in Inos /\ d \in Inos /\ d # i /\ i # Root /\ IsDir(t, d)  BY TableIs DEF AddsTo
<1>2. /\ \A x \in Inos \ {i} : Leading(u, x) = Leading(t, x)
      /\ Leading(u, i) = Leading(t, i) \cup {<<d, s>>} /\ <<d, s>> \notin Leading(t, i)
      /\ \A x \in Inos : IsDir(u, x) <=> IsDir(t, x)
      /\ \A x \in Inos : u[x].up = t[x].up /\ u[x].kind = t[x].kind
      /\ Typed(u, h, f, n) /\ Fresh(u, h, f, n) /\ Tree(u, f)
  BY AddsIs
<1>3. Cardinality(Leading(u, i)) = Cardinality(Leading(t, i)) + 1  BY <1>2, Sets, FS_AddElement
<1>4. \A x \in Inos : Under(u, f, x) = IF x = d /\ IsDir(t, i) THEN Under(t, m, d) \cup {i}
                                                              ELSE Under(t, m, x)
  <2> SUFFICES ASSUME NEW x \in Inos
               PROVE  \A y : y \in Under(u, f, x) <=>
                               y \in Under(t, m, x) \/ (y = i /\ x = d /\ IsDir(t, i))
    OBVIOUS
  <2> QED  BY <1>1, <1>2 DEF Under
<1>5. i \notin Under(t, m, d)  BY DEF Under
<1>6. IsDir(t, i) => Cardinality(Under(u, f, d)) = Cardinality(Under(t, m, d)) + 1
  BY <1>1, <1>4, <1>5, Sets, FS_AddElement
<1>7. Exact(u, f, n)
  <2> SUFFICES ASSUME NEW x \in Inos, u[x].kind # "free"
               PROVE  Matches(u[x].nlinks + n[x], NamesOf(u, f, x), IsDir(u, x) \/ x \in f)
    BY DEF Exact, Matches
  <2>1. Matches(t[x].nlinks + n[x], NamesOf(t, m, x), IsDir(t, x) \/ x \in m)
        /\ t[x].nlinks \in Nat /\ n[x] \in Nat
    BY <1>2, TableIs DEF Table, Exact, Matches
  <2>2. Cardinality(Leading(t, x)) \in Nat /\ Cardinality(Under(t, m, x)) \in Nat  BY Sets
  <2>3. CASE x = i
    <3>1. Under(u, f, i) = Under(t, m, i)  BY <1>1, <1>4
    <3>2. NamesOf(u, f, i) = NamesOf(t, m, i)
      BY <1>1, <1>2, <1>3, <2>2, <2>3, <3>1 DEF NamesOf, One
    <3> QED  BY <2>1, <2>3, <3>2 DEF Matches
  <2>4. CASE x = d
    <3>1. NamesOf(u, f, d) = NamesOf(t, m, d) + One(IsDir(t, i))
      <4>1. Cardinality(Under(u, f, d)) = Cardinality(Under(t, m, d)) + One(IsDir(t, i))
        BY <1>1, <1>4, <1>6, <2>2, <2>4 DEF One
      <4>2. Leading(u, d) = Leading(t, d) /\ IsDir(u, d) /\ One(d \in f) = One(d \in m)
        BY <1>1, <1>2
      <4>3. One(IsDir(t, i)) \in Nat /\ One(d \in m) \in Nat /\ One(d = Root) \in Nat  BY DEF One
      <4> QED  BY <1>1, <2>2, <2>4, <4>1, <4>2, <4>3 DEF NamesOf
    <3> QED  BY <1>1, <2>1, <2>4, <3>1 DEF One, Matches
  <2>5. CASE x # i /\ x # d
    <3>1. NamesOf(u, f, x) = NamesOf(t, m, x)  BY <1>2, <1>4, <2>5 DEF NamesOf, One
    <3>2. u[x] = t[x]  BY <2>5 DEF AddsTo
    <3> QED  BY <1>2, <2>1, <2>5, <3>1, <3>2
  <2> QED  BY <2>3, <2>4, <2>5
<1> QED  BY <1>2, <1>7 DEF Table

\* The inode i gets a name that is not yet counted.
LEMMA LinkT ==
    ASSUME Directories, NEW t, NEW h, NEW m, NEW n, Table(t, h, m, n),
           NEW u, NEW d, NEW s, NEW nm, NEW i, AddsTo(t, u, d, s, nm, i), d \notin m, i \notin m,
           ~IsDir(t, i), n[i] < h[i],
           u[i].nlinks = t[i].nlinks, u[d].nlinks = t[d].nlinks
    PROVE  Table(u, h, m, [n EXCEPT ![i] = @ + 1])
<1> DEFINE k == [n EXCEPT ![i] = @ + 1]
<1>1. i \in Inos /\ d \in Inos /\ d # i /\ IsDir(t, d) /\ m \ {i} = m  BY DEF AddsTo
<1>2. /\ \A x \in Inos \ {i} : Leading(u, x) = Leading(t, x)
      /\ Leading(u, i) = Leading(t, i) \cup {<<d, s>>} /\ <<d, s>> \notin Leading(t, i)
      /\ \A x \in Inos : IsDir(u, x) <=> IsDir(t, x)
      /\ \A x \in Inos : u[x].up = t[x].up /\ u[x].kind = t[x].kind
      /\ Typed(u, h, m, n) /\ Fresh(u, h, m, n) /\ Tree(u, m)
  <2>1. /\ \A x \in Inos \ {i} : Leading(u, x) = Leading(t, x)
        /\ Leading(u, i) = Leading(t, i) \cup {<<d, s>>} /\ <<d, s>> \notin Leading(t, i)
        /\ \A x \in Inos : IsDir(u, x) <=> IsDir(t, x)
        /\ \A x \in Inos : u[x].up = t[x].up /\ u[x].kind = t[x].kind
        /\ Typed(u, h, m \ {i}, n) /\ Fresh(u, h, m \ {i}, n) /\ Tree(u, m \ {i})
    BY AddsIs
  <2> QED  BY <1>1, <2>1
<1>3. Cardinality(Leading(u, i)) = Cardinality(Leading(t, i)) + 1  BY <1>2, Sets, FS_AddElement
<1>4. \A x : Under(u, m, x) = Under(t, m, x)  BY <1>2 DEF Under
<1>5. k \in [Inos -> Nat] /\ k[i] = n[i] + 1 /\ \A x \in Inos \ {i} : k[x] = n[x]  BY <1>1, TableIs
<1> HIDE DEF k
<1>6. Typed(u, h, m, k)
  <2>1. \A x \in Inos : n[x] \in Nat /\ h[x] \in Nat  BY TableIs
  <2>2. \A x \in Inos : k[x] <= h[x]  BY <1>1, <1>2, <1>5, <2>1 DEF Typed
  <2> QED  BY <1>2, <1>5, <2>2 DEF Typed
<1>7. Fresh(u, h, m, k)  BY <1>2, <1>5, TableIs DEF Fresh
<1>8. Exact(u, m, k)
  <2> SUFFICES ASSUME NEW x \in Inos, u[x].kind # "free"
               PROVE  Matches(u[x].nlinks + k[x], NamesOf(u, m, x), IsDir(u, x) \/ x \in m)
    BY DEF Exact, Matches
  <2>1. Matches(t[x].nlinks + n[x], NamesOf(t, m, x), IsDir(t, x) \/ x \in m)
        /\ t[x].nlinks \in Nat /\ n[x] \in Nat
    BY <1>2, TableIs DEF Table, Exact, Matches
  <2>2. Cardinality(Leading(t, x)) \in Nat  BY Sets
  <2>3. u[x].nlinks = t[x].nlinks  BY DEF AddsTo
  <2>4. CASE x = i
    <3>1. NamesOf(u, m, i) = NamesOf(t, m, i) + 1
      BY <1>1, <1>2, <1>3, <1>4, <2>2, <2>4 DEF NamesOf, One
    <3> QED  BY <1>1, <1>2, <1>5, <2>1, <2>3, <2>4, <3>1, NamesNat DEF Matches
  <2>5. CASE x # i
    <3>1. NamesOf(u, m, x) = NamesOf(t, m, x)  BY <1>2, <1>4, <2>5 DEF NamesOf, One
    <3> QED  BY <1>2, <1>5, <2>1, <2>3, <2>5, <3>1
  <2> QED  BY <2>4, <2>5
<1> QED  BY <1>2, <1>6, <1>7, <1>8 DEF Table, k

\* link() counts the name.
LEMMA CountT ==
    ASSUME Directories, NEW t, NEW h, NEW m, NEW n, Table(t, h, m, n), NEW u, NEW i \in Inos,
           n[i] > 0,
           u \in [Inos -> Inode], u[i].nlinks = t[i].nlinks + 1, u[i].ent = t[i].ent,
           u[i].kind = t[i].kind, u[i].up = t[i].up, u[i].count = t[i].count,
           \A x \in Inos \ {i} : u[x] = t[x]
    PROVE  Table(u, h, m, [n EXCEPT ![i] = @ - 1])
<1> DEFINE k == [n EXCEPT ![i] = @ - 1]
<1>1. /\ n \in [Inos -> Nat] /\ h \in [Inos -> Nat] /\ i \notin m /\ t[i].kind # "free"
      /\ \A x \in Inos : n[x] <= h[x]
  <2>1. n[i] <= h[i] /\ h[i] = t[i].count /\ n[i] \in Nat  BY TableIs
  <2> QED  BY <2>1, TableIs, FreeIs
<1>2. k \in [Inos -> Nat] /\ k[i] = n[i] - 1 /\ \A x \in Inos \ {i} : k[x] = n[x]  BY <1>1
<1> HIDE DEF k
<1>3. \A x \in Inos : u[x].ent = t[x].ent /\ u[x].kind = t[x].kind /\ u[x].up = t[x].up
                      /\ u[x].count = t[x].count
  OBVIOUS
<1>4. \A x \in Inos : IsDir(u, x) <=> IsDir(t, x)  BY <1>3 DEF IsDir
<1>5. \A x : Leading(u, x) = Leading(t, x) /\ Under(u, m, x) = Under(t, m, x)
  BY <1>3, <1>4 DEF Leading, Under
<1>6. Typed(u, h, m, k)
  <2>1. \A x \in Inos : k[x] <= h[x]  BY <1>1, <1>2
  <2>2. IsDir(u, Root) /\ u[Root].up = Root  BY <1>3, <1>4, TableIs
  <2>3. \A x \in Inos : u[x].kind = "free" => u[x] = N!Free  BY <1>1, <1>3, TableIs
  <2> QED  BY <1>2, <1>3, <2>1, <2>2, <2>3, TableIs DEF Typed
<1>7. Fresh(u, h, m, k)  BY <1>1, <1>2, TableIs DEF Fresh
<1>8. Tree(u, m)
  <2>1. \A x \in Inos : IF IsDir(u, x) THEN u[x].up \in Inos \ m /\ IsDir(u, u[x].up)
                                       ELSE u[x].up = NoIno /\ \A s \in N!Slots : u[x].ent[s] = N!NoEntry
    BY <1>3, <1>4 DEF Tree, Table
  <2>2. ASSUME NEW x \in Inos, NEW s \in N!Slots, u[x].ent[s].ino # NoIno
        PROVE  u[u[x].ent[s].ino].kind # "free" /\ u[x].ent[s].ino \notin m
    <3>1. t[x].ent[s] \in N!Entries /\ u[x].ent[s] = t[x].ent[s]  BY <1>3, TableIs
    <3> QED  BY <1>3, <2>2, <3>1, EntryIs DEF Tree, Table
  <2>3. "create" \notin Races => \A x \in Inos, s, r \in N!Slots :
          s # r /\ u[x].ent[s].ino # NoIno => u[x].ent[s].name # u[x].ent[r].name
    BY <1>3 DEF Tree, Table
  <2>4. \A x \in Inos \ ({Root} \cup m) :
          IsDir(u, x) => \E s \in N!Slots : Leading(u, x) = {<<u[x].up, s>>}
    BY <1>3, <1>4, <1>5 DEF Tree, Table
  <2> QED  BY <2>1, <2>2, <2>3, <2>4 DEF Tree
<1>9. Exact(u, m, k)
  <2> SUFFICES ASSUME NEW x \in Inos, u[x].kind # "free"
               PROVE  Matches(u[x].nlinks + k[x], NamesOf(u, m, x), IsDir(u, x) \/ x \in m)
    BY DEF Exact, Matches
  <2>1. Matches(t[x].nlinks + n[x], NamesOf(t, m, x), IsDir(t, x) \/ x \in m)
        /\ t[x].nlinks \in Nat /\ n[x] \in Nat
    BY <1>3, TableIs DEF Table, Exact, Matches
  <2>2. NamesOf(u, m, x) = NamesOf(t, m, x)  BY <1>4, <1>5 DEF NamesOf, One
  <2>3. u[x].nlinks + k[x] = t[x].nlinks + n[x]  BY <1>1, <1>2, <2>1
  <2> QED  BY <1>4, <2>1, <2>2, <2>3
<1> QED  BY <1>6, <1>7, <1>8, <1>9 DEF Table, k

----------------------------------------------------------------------------
(* Steps of the table that take an entry away                              *)

\* u is t without the entry s of the directory d.
Takes(t, u, d, s) ==
    /\ u \in [Inos -> Inode] /\ d \in Inos /\ s \in N!Slots
    /\ \A x \in Inos, r \in N!Slots : <<x, r>> # <<d, s>> => u[x].ent[r] = t[x].ent[r]
    /\ u[d].ent[s] = N!NoEntry

LEMMA TakesIs ==
    ASSUME Directories, NEW t, NEW h, NEW m, NEW n, Table(t, h, m, n), NEW u, NEW d, NEW s,
           Takes(t, u, d, s)
    PROVE  /\ \A x \in Inos : Leading(u, x) = Leading(t, x) \ {<<d, s>>}
           /\ \A x \in Inos, r \in N!Slots : u[x].ent[r] = t[x].ent[r] \/ u[x].ent[r] = N!NoEntry
           /\ "create" \notin Races => \A x \in Inos, r, q \in N!Slots :
                r # q /\ u[x].ent[r].ino # NoIno => u[x].ent[r].name # u[x].ent[q].name
<1>1. ASSUME NEW x \in Inos
      PROVE  Leading(u, x) = Leading(t, x) \ {<<d, s>>}
  <2>1. ASSUME NEW a \in Inos, NEW r \in N!Slots
        PROVE  u[a].ent[r].ino = x <=> t[a].ent[r].ino = x /\ <<a, r>> # <<d, s>>
    <3>1. CASE <<a, r>> = <<d, s>>  BY <3>1, FreeIs, InosIs DEF Takes
    <3>2. CASE <<a, r>> # <<d, s>>  BY <3>2 DEF Takes
    <3> QED  BY <3>1, <3>2
  <2> QED  BY <2>1 DEF Leading
<1>2. ASSUME NEW x \in Inos, NEW r \in N!Slots
      PROVE  u[x].ent[r] = t[x].ent[r] \/ u[x].ent[r] = N!NoEntry
  BY DEF Takes
<1>3. ASSUME "create" \notin Races, NEW x \in Inos, NEW r \in N!Slots, NEW q \in N!Slots,
             r # q, u[x].ent[r].ino # NoIno
      PROVE  u[x].ent[r].name # u[x].ent[q].name
  <2>1. u[x].ent[r] = t[x].ent[r] /\ t[x].ent[r] \in N!Entries  BY <1>2, <1>3, FreeIs, TableIs
  <2>2. CASE u[x].ent[q] = t[x].ent[q]  BY <1>3, <2>1, <2>2 DEF Table, Tree
  <2>3. CASE u[x].ent[q] = N!NoEntry
    <3>1. u[x].ent[r].name \in EntryNames  BY <1>3, <2>1, EntryIs
    <3> QED  BY <2>3, <3>1, PathsAre DEF N!NoEntry, N!dots
  <2> QED  BY <1>2, <2>2, <2>3
<1> QED  BY <1>1, <1>2, <1>3

LEMMA Leads ==
    ASSUME Directories, NEW t, NEW h, NEW m, NEW n, Table(t, h, m, n),
           NEW d \in Inos, NEW s \in N!Slots, NEW i \in Inos, t[d].ent[s].ino = i
    PROVE  /\ IsDir(t, d) /\ d \notin m /\ i \notin m /\ t[i].kind # "free"
           /\ <<d, s>> \in Leading(t, i)
<1>1. i # NoIno  BY InosIs
<1>2. IsDir(t, d)  BY <1>1, FreeIs DEF Table, Tree
<1>3. d \notin m  BY <1>1, TableIs, FreeIs
<1>4. <<d, s>> \in Leading(t, i)  BY DEF Leading
<1> QED  BY <1>2, <1>3, <1>4, LedTo

\* unlink(): the file i loses a name.
LEMMA GoneT ==
    ASSUME Directories, NEW t, NEW h, NEW m, NEW n, Table(t, h, m, n), NEW u, NEW d, NEW s,
           Takes(t, u, d, s),
           NEW i \in Inos, t[d].ent[s].ino = i, ~IsDir(t, i),
           \A x \in Inos \ {d, i} : u[x] = t[x],
           \A x \in Inos : u[x].kind = t[x].kind /\ u[x].up = t[x].up /\ u[x].count = t[x].count,
           u[d].nlinks = t[d].nlinks,
           IF t[i].nlinks = 0 THEN u[i].nlinks = 0 /\ "link" \in Races
                              ELSE u[i].nlinks = t[i].nlinks - 1
    PROVE  Table(u, h, m, n)
<1>1. d \in Inos /\ s \in N!Slots /\ u \in [Inos -> Inode]  BY DEF Takes
<1>2. IsDir(t, d) /\ d # i /\ d \notin m /\ i \notin m /\ t[i].kind # "free" /\ <<d, s>> \in Leading(t, i)
  BY <1>1, Leads
<1>3. /\ \A x \in Inos : Leading(u, x) = Leading(t, x) \ {<<d, s>>}
      /\ \A x \in Inos, r \in N!Slots : u[x].ent[r] = t[x].ent[r] \/ u[x].ent[r] = N!NoEntry
      /\ "create" \notin Races => \A x \in Inos, r, q \in N!Slots :
           r # q /\ u[x].ent[r].ino # NoIno => u[x].ent[r].name # u[x].ent[q].name
  BY TakesIs
<1>4. \A x \in Inos : IsDir(u, x) <=> IsDir(t, x)  BY DEF IsDir
<1>5. \A x : Under(u, m, x) = Under(t, m, x)  BY <1>4 DEF Under
<1>6. ASSUME NEW x \in Inos, x # i PROVE Leading(u, x) = Leading(t, x)
  <2>1. <<d, s>> \notin Leading(t, x)  BY <1>1, <1>6 DEF Leading
  <2> QED  BY <1>3, <2>1
<1>7. Typed(u, h, m, n)
  <2>1. IsDir(u, Root) /\ u[Root].up = Root  BY <1>4, TableIs
  <2>2. \A x \in Inos : u[x].kind = "free" => u[x] = t[x]  BY <1>2 DEF IsDir
  <2> QED  BY <1>1, <2>1, <2>2, TableIs DEF Typed
<1>8. Fresh(u, h, m, n)  BY <1>2, TableIs DEF Fresh
<1>9. Tree(u, m)
  <2>1. ASSUME NEW x \in Inos
        PROVE  IF IsDir(u, x) THEN u[x].up \in Inos \ m /\ IsDir(u, u[x].up)
                              ELSE u[x].up = NoIno /\ \A r \in N!Slots : u[x].ent[r] = N!NoEntry
    <3>1. CASE IsDir(u, x)  BY <1>4, <3>1 DEF Table, Tree
    <3>2. CASE ~IsDir(u, x)  BY <1>3, <1>4, <3>2 DEF Table, Tree
    <3> QED  BY <3>1, <3>2
  <2>2. ASSUME NEW x \in Inos, NEW r \in N!Slots, u[x].ent[r].ino # NoIno
        PROVE  u[u[x].ent[r].ino].kind # "free" /\ u[x].ent[r].ino \notin m
    <3>1. u[x].ent[r] = t[x].ent[r] /\ t[x].ent[r] \in N!Entries  BY <1>3, <2>2, FreeIs, TableIs
    <3> QED  BY <2>2, <3>1, EntryIs DEF Table, Tree
  <2>3. ASSUME NEW x \in Inos \ ({Root} \cup m), IsDir(u, x)
        PROVE  \E r \in N!Slots : Leading(u, x) = {<<u[x].up, r>>}
    <3>1. x # i /\ IsDir(t, x)  BY <1>4, <2>3
    <3> QED  BY <1>6, <3>1 DEF Table, Tree
  <2> QED  BY <1>3, <2>1, <2>2, <2>3 DEF Tree
<1>10. Exact(u, m, n)
  <2> SUFFICES ASSUME NEW x \in Inos, u[x].kind # "free"
               PROVE  Matches(u[x].nlinks + n[x], NamesOf(u, m, x), IsDir(u, x) \/ x \in m)
    BY DEF Exact, Matches
  <2>1. Matches(t[x].nlinks + n[x], NamesOf(t, m, x), IsDir(t, x) \/ x \in m)
        /\ t[x].nlinks \in Nat /\ n[x] \in Nat
    BY TableIs DEF Table, Exact, Matches
  <2>2. CASE x = i
    <3>1. Cardinality(Leading(u, i)) = Cardinality(Leading(t, i)) - 1
      <4>1. Leading(u, i) = Leading(t, i) \ {<<d, s>>}  BY <1>3
      <4>2. IsFiniteSet(Leading(t, i)) /\ <<d, s>> \in Leading(t, i)  BY <1>2, Sets
      <4> QED  BY <4>1, <4>2, FS_RemoveElement
    <3>2. Cardinality(Leading(t, i)) \in Nat  BY Sets
    <3>3. NamesOf(u, m, i) = NamesOf(t, m, i) - 1  BY <1>2, <1>4, <3>1, <3>2 DEF NamesOf, One
    <3>4. NamesOf(t, m, i) \in Nat  BY NamesNat
    <3> QED  BY <1>2, <1>4, <2>1, <2>2, <3>3, <3>4 DEF Matches
  <2>3. CASE x # i
    <3>1. NamesOf(u, m, x) = NamesOf(t, m, x)  BY <1>4, <1>5, <1>6, <2>3 DEF NamesOf, One
    <3>2. u[x].nlinks = t[x].nlinks  BY <2>3
    <3> QED  BY <1>4, <2>1, <3>1, <3>2
  <2> QED  BY <2>2, <2>3
<1> QED  BY <1>7, <1>8, <1>9, <1>10 DEF Table

\* rmdir(): the directory i goes, which nobody else uses, and its name in d.
LEMMA GoneDirT ==
    ASSUME Directories, NEW t, NEW h, NEW m, NEW n, Table(t, h, m, n), NEW u, NEW d, NEW s,
           Takes(t, u, d, s),
           NEW i \in Inos, t[d].ent[s].ino = i, IsDir(t, i), d # i, i # Root, h[i] = 1, n[i] = 0,
           \A r \in N!Slots : t[i].ent[r] = N!NoEntry,
           \A x \in m : IsDir(t, x) => t[x].up # i,
           \A x \in Inos \ {d, i} : u[x] = t[x], u[i] = N!Free,
           u[d].kind = t[d].kind, u[d].up = t[d].up, u[d].count = t[d].count,
           u[d].nlinks = t[d].nlinks - 1
    PROVE  Table(u, [h EXCEPT ![i] = 0], m, n)
<1> DEFINE k == [h EXCEPT ![i] = 0]
<1>1. d \in Inos /\ s \in N!Slots /\ u \in [Inos -> Inode]  BY DEF Takes
<1>2. IsDir(t, d) /\ d \notin m /\ i \notin m /\ <<d, s>> \in Leading(t, i)  BY <1>1, Leads
<1>3. /\ \A x \in Inos : Leading(u, x) = Leading(t, x) \ {<<d, s>>}
      /\ \A x \in Inos, r \in N!Slots : u[x].ent[r] = t[x].ent[r] \/ u[x].ent[r] = N!NoEntry
      /\ "create" \notin Races => \A x \in Inos, r, q \in N!Slots :
           r # q /\ u[x].ent[r].ino # NoIno => u[x].ent[r].name # u[x].ent[q].name
  BY TakesIs
<1>4. ~IsDir(u, i) /\ \A x \in Inos \ {i} : IsDir(u, x) <=> IsDir(t, x)  BY FreeIs DEF IsDir
<1>5. \A x \in Inos \ {i} : u[x].kind = t[x].kind /\ u[x].up = t[x].up /\ u[x].count = t[x].count
  OBVIOUS
<1>6. k \in [Inos -> Nat] /\ k[i] = 0 /\ \A x \in Inos \ {i} : k[x] = h[x]  BY TableIs
<1> HIDE DEF k
<1>7. PICK w \in N!Slots : Leading(t, i) = {<<t[i].up, w>>}  BY <1>2 DEF Table, Tree
<1>8. t[i].up = d /\ Leading(t, i) = {<<d, s>>}  BY <1>2, <1>7
<1>9. Leading(u, i) = {}  BY <1>3, <1>8
<1>10. ASSUME NEW x \in Inos, IsDir(t, x) PROVE t[x].up # i
  <2>1. CASE x = Root  BY <2>1, TableIs
  <2>2. CASE x \in m  BY <1>10, <2>2
  <2>3. CASE x \notin {Root} \cup m
    <3>1. PICK r \in N!Slots : Leading(t, x) = {<<t[x].up, r>>}  BY <1>10, <2>3 DEF Table, Tree
    <3>2. t[t[x].up].ent[r].ino = x
      <4>1. <<t[x].up, r>> \in Leading(t, x)  BY <3>1
      <4> QED  BY <4>1 DEF Leading
    <3> QED  BY <3>2, FreeIs, InosIs
  <2> QED  BY <2>1, <2>2, <2>3
<1>11. ASSUME NEW x \in Inos, x # i PROVE Leading(u, x) = Leading(t, x)
  <2>1. <<d, s>> \notin Leading(t, x)  BY <1>1, <1>11 DEF Leading
  <2>2. Leading(u, x) = Leading(t, x) \ {<<d, s>>}  BY <1>3
  <2> QED  BY <2>1, <2>2
<1>12. \A x \in Inos : Under(u, m, x) = IF x = d THEN Under(t, m, d) \ {i} ELSE Under(t, m, x)
  <2> SUFFICES ASSUME NEW x \in Inos
               PROVE  \A y : y \in Under(u, m, x) <=> y \in Under(t, m, x) /\ ~(y = i /\ x = d)
    OBVIOUS
  <2> QED  BY <1>4, <1>5, <1>8 DEF Under
<1>13. i \in Under(t, m, d)  BY <1>2, <1>8 DEF Under
<1>14. Typed(u, k, m, n)
  <2>1. IsDir(u, Root) /\ u[Root].up = Root /\ k[Root] > 0  BY <1>4, <1>5, <1>6, TableIs
  <2>2. ASSUME NEW x \in Inos
        PROVE  u[x].count = k[x] /\ n[x] <= k[x] /\ (u[x].kind = "free" => u[x] = N!Free)
    <3>1. CASE x = i  BY <1>6, <3>1, FreeIs
    <3>2. CASE x = d  BY <1>2, <1>5, <1>6, <3>2, TableIs DEF IsDir
    <3>3. CASE x # i /\ x # d  BY <1>6, <3>3, TableIs
    <3> QED  BY <3>1, <3>2, <3>3
  <2> QED  BY <1>1, <1>6, <2>1, <2>2, TableIs DEF Typed
<1>15. Fresh(u, k, m, n)  BY <1>2, <1>6, TableIs DEF Fresh
<1>16. Tree(u, m)
  <2>1. ASSUME NEW x \in Inos
        PROVE  IF IsDir(u, x) THEN u[x].up \in Inos \ m /\ IsDir(u, u[x].up)
                              ELSE u[x].up = NoIno /\ \A r \in N!Slots : u[x].ent[r] = N!NoEntry
    <3>1. CASE x = i  BY <1>4, <3>1, FreeIs
    <3>2. CASE x # i /\ IsDir(u, x)  BY <1>4, <1>5, <1>10, <3>2 DEF Table, Tree
    <3>3. CASE x # i /\ ~IsDir(u, x)  BY <1>3, <1>4, <3>3 DEF Table, Tree
    <3> QED  BY <3>1, <3>2, <3>3
  <2>2. ASSUME NEW x \in Inos, NEW r \in N!Slots, u[x].ent[r].ino # NoIno
        PROVE  u[u[x].ent[r].ino].kind # "free" /\ u[x].ent[r].ino \notin m
    <3> DEFINE j == u[x].ent[r].ino
    <3>1. u[x].ent[r] = t[x].ent[r] /\ t[x].ent[r] \in N!Entries  BY <1>3, <2>2, FreeIs, TableIs
    <3>2. j \in Inos /\ t[j].kind # "free" /\ j \notin m  BY <2>2, <3>1, EntryIs DEF Table, Tree
    <3>3. <<x, r>> \in Leading(u, j)  BY DEF Leading
    <3>4. j # i  BY <1>9, <3>3
    <3> QED  BY <1>5, <3>2, <3>4
  <2>3. ASSUME NEW x \in Inos \ ({Root} \cup m), IsDir(u, x)
        PROVE  \E r \in N!Slots : Leading(u, x) = {<<u[x].up, r>>}
    <3>1. x # i /\ IsDir(t, x)  BY <1>4, <2>3
    <3> QED  BY <1>5, <1>11, <3>1 DEF Table, Tree
  <2> QED  BY <1>3, <2>1, <2>2, <2>3 DEF Tree
<1>17. Exact(u, m, n)
  <2> SUFFICES ASSUME NEW x \in Inos, u[x].kind # "free"
               PROVE  Matches(u[x].nlinks + n[x], NamesOf(u, m, x), IsDir(u, x) \/ x \in m)
    BY DEF Exact, Matches
  <2>1. x # i  BY FreeIs
  <2>2. Matches(t[x].nlinks + n[x], NamesOf(t, m, x), IsDir(t, x) \/ x \in m)
        /\ t[x].nlinks \in Nat /\ n[x] \in Nat
    BY <1>5, <2>1, TableIs DEF Table, Exact, Matches
  <2>3. CASE x = d
    <3>1. Cardinality(Under(u, m, d)) = Cardinality(Under(t, m, d)) - 1
      BY <1>1, <1>12, <1>13, Sets, FS_RemoveElement
    <3>2. Cardinality(Under(t, m, d)) \in Nat /\ Cardinality(Leading(t, d)) \in Nat  BY Sets
    <3>3. NamesOf(u, m, d) = NamesOf(t, m, d) - 1
      BY <1>1, <1>2, <1>4, <1>11, <3>1, <3>2 DEF NamesOf, One
    <3> QED  BY <1>2, <2>2, <2>3, <3>3 DEF Matches
  <2>4. CASE x # d
    <3>1. NamesOf(u, m, x) = NamesOf(t, m, x)  BY <1>4, <1>11, <1>12, <2>1, <2>4 DEF NamesOf, One
    <3>2. u[x] = t[x]  BY <2>1, <2>4
    <3> QED  BY <1>4, <2>1, <2>2, <3>1, <3>2
  <2> QED  BY <2>3, <2>4
<1> QED  BY <1>14, <1>15, <1>16, <1>17 DEF Table, k

----------------------------------------------------------------------------
(* What the processes hold                                                 *)

LEMMA RemoveOne ==
    ASSUME NEW A, IsFiniteSet(A), NEW p
    PROVE  /\ Cardinality(A \ {p}) = Cardinality(A) - One(p \in A)
           /\ Cardinality(A) \in Nat /\ Cardinality(A \ {p}) \in Nat
<1>1. IsFiniteSet(A \ {p})  BY FS_Subset
<1>2. Cardinality(A) \in Nat /\ Cardinality(A \ {p}) \in Nat  BY <1>1, FS_CardinalityType
<1>3. CASE p \in A  BY <1>2, <1>3, FS_RemoveElement DEF One
<1>4. CASE p \notin A
  <2>1. A \ {p} = A  BY <1>4
  <2>2. One(p \in A) = 0  BY <1>4 DEF One
  <2>3. Cardinality(A \ {p}) = Cardinality(A)  BY <2>1
  <2> QED  BY <1>2, <2>2, <2>3
<1> QED  BY <1>2, <1>3, <1>4

LEMMA Recount ==
    ASSUME NEW p, NEW A \in SUBSET Procs, NEW B \in SUBSET Procs,
           \A q \in Procs \ {p} : q \in A <=> q \in B
    PROVE  /\ Cardinality(B) = Cardinality(A) - One(p \in A) + One(p \in B)
           /\ Cardinality(A) \in Nat /\ Cardinality(B) \in Nat
<1>1. IsFiniteSet(A) /\ IsFiniteSet(B) /\ IsFiniteSet(A \ {p})  BY ProcsAssumption, FS_Subset
<1>2. A \ {p} = B \ {p}  OBVIOUS
<1>3. Cardinality(A) \in Nat /\ Cardinality(B) \in Nat  BY <1>1, FS_CardinalityType
<1>4. Cardinality(A \ {p}) = Cardinality(A) - One(p \in A)  BY <1>1, RemoveOne
<1>5. Cardinality(B \ {p}) = Cardinality(B) - One(p \in B)  BY <1>1, RemoveOne
<1> QED  BY <1>2, <1>3, <1>4, <1>5 DEF One

LEMMA TwoIn ==
    ASSUME NEW p, NEW q, p # q, NEW A \in SUBSET Procs
    PROVE  Cardinality(A) >= One(p \in A) + One(q \in A)
<1> DEFINE B == A \ {p}
           C == B \ {q}
<1>1. Cardinality(B) = Cardinality(A) - One(p \in A) + One(p \in B) /\ Cardinality(A) \in Nat
  BY Recount
<1>2. Cardinality(C) = Cardinality(B) - One(q \in B) + One(q \in C) /\ Cardinality(B) \in Nat
      /\ Cardinality(C) \in Nat
  BY Recount
<1> QED  BY <1>1, <1>2 DEF One

\* Those who hold i as the directory, the inode or the old inode.
InDir(i) == {p \in Procs : frame[p].dir = i}
WithIno(i) == {p \in Procs : frame[p].ino = i /\ at[p] \in {"search", "add", "empty", "held"}}
WithOld(i) == {p \in Procs : frame[p].old = i}

LEMMA HoldingIs ==
    ASSUME NEW i \in Inos
    PROVE  /\ Held[i] = Cardinality(InDir(i)) + Cardinality(WithIno(i)) + Cardinality(WithOld(i))
                        + One(i = Root)
           /\ Pending[i] = Cardinality(N!Linking(i))
BY CardinalityIs DEF Held, N!Holding, InDir, WithIno, WithOld, One, Pending

LEMMA HeldStep ==
    ASSUME NEW p \in Procs, NEW c, NEW l, at \in [Procs -> Points], frame \in [Procs -> Frames],
           N!Goto(p, c, l), NEW i \in Inos
    PROVE  /\ Held'[i] = Held[i] - Share(at[p], frame[p], i) + Share(c, l, i)
           /\ Pending'[i] = Pending[i] - LinkedBy(at[p], frame[p], i) + LinkedBy(c, l, i)
           /\ Held[i] \in Nat /\ Pending[i] \in Nat /\ Held'[i] \in Nat /\ Pending'[i] \in Nat
<1>1. /\ \A q \in Procs \ {p} : at'[q] = at[q] /\ frame'[q] = frame[q]
      /\ at'[p] = c /\ frame'[p] = l
  BY DEF N!Goto
<1> DEFINE A1 == {q \in Procs : frame[q].dir = i}
           B1 == {q \in Procs : frame'[q].dir = i}
<1> DEFINE A2 == {q \in Procs : frame[q].ino = i /\ at[q] \in {"search", "add", "empty", "held"}}
           B2 == {q \in Procs : frame'[q].ino = i /\ at'[q] \in {"search", "add", "empty", "held"}}
<1> DEFINE A3 == {q \in Procs : frame[q].old = i}
           B3 == {q \in Procs : frame'[q].old = i}
<1> DEFINE A4 == {q \in Procs : at[q] = "linked" /\ frame[q].old = i}
           B4 == {q \in Procs : at'[q] = "linked" /\ frame'[q].old = i}
<1>2. /\ Cardinality(B1) = Cardinality(A1) - One(frame[p].dir = i)
                              + One(l.dir = i)
      /\ Cardinality(A1) \in Nat /\ Cardinality(B1) \in Nat
  <2>1. /\ A1 \in SUBSET Procs /\ B1 \in SUBSET Procs
        /\ \A q \in Procs \ {p} : q \in A1 <=> q \in B1
        /\ One(p \in A1) = One(frame[p].dir = i)
        /\ One(p \in B1) = One(l.dir = i)
    BY <1>1 DEF One
  <2> HIDE DEF A1, B1
  <2> QED  BY <2>1, Recount
<1>3. /\ Cardinality(B2) = Cardinality(A2) - One(frame[p].ino = i /\ at[p] \in {"search", "add", "empty", "held"})
                              + One(l.ino = i /\ c \in {"search", "add", "empty", "held"})
      /\ Cardinality(A2) \in Nat /\ Cardinality(B2) \in Nat
  <2>1. /\ A2 \in SUBSET Procs /\ B2 \in SUBSET Procs
        /\ \A q \in Procs \ {p} : q \in A2 <=> q \in B2
        /\ One(p \in A2) = One(frame[p].ino = i /\ at[p] \in {"search", "add", "empty", "held"})
        /\ One(p \in B2) = One(l.ino = i /\ c \in {"search", "add", "empty", "held"})
    BY <1>1 DEF One
  <2> HIDE DEF A2, B2
  <2> QED  BY <2>1, Recount
<1>4. /\ Cardinality(B3) = Cardinality(A3) - One(frame[p].old = i)
                              + One(l.old = i)
      /\ Cardinality(A3) \in Nat /\ Cardinality(B3) \in Nat
  <2>1. /\ A3 \in SUBSET Procs /\ B3 \in SUBSET Procs
        /\ \A q \in Procs \ {p} : q \in A3 <=> q \in B3
        /\ One(p \in A3) = One(frame[p].old = i)
        /\ One(p \in B3) = One(l.old = i)
    BY <1>1 DEF One
  <2> HIDE DEF A3, B3
  <2> QED  BY <2>1, Recount
<1>5. /\ Cardinality(B4) = Cardinality(A4) - One(at[p] = "linked" /\ frame[p].old = i)
                              + One(c = "linked" /\ l.old = i)
      /\ Cardinality(A4) \in Nat /\ Cardinality(B4) \in Nat
  <2>1. /\ A4 \in SUBSET Procs /\ B4 \in SUBSET Procs
        /\ \A q \in Procs \ {p} : q \in A4 <=> q \in B4
        /\ One(p \in A4) = One(at[p] = "linked" /\ frame[p].old = i)
        /\ One(p \in B4) = One(c = "linked" /\ l.old = i)
    BY <1>1 DEF One
  <2> HIDE DEF A4, B4
  <2> QED  BY <2>1, Recount
<1>6. /\ Held[i] = Cardinality(A1) + Cardinality(A2) + Cardinality(A3) + One(i = Root)
      /\ Held'[i] = Cardinality(B1) + Cardinality(B2) + Cardinality(B3) + One(i = Root)
      /\ Pending[i] = Cardinality(A4) /\ Pending'[i] = Cardinality(B4)
  BY CardinalityIs DEF Held, N!Holding, One, Pending, N!Linking
<1>7. One(i = Root) \in Nat  BY DEF One
<1> HIDE DEF A1, A2, A3, A4, B1, B2, B3, B4
<1> QED  BY <1>2, <1>3, <1>4, <1>5, <1>6, <1>7 DEF Share, LinkedBy, One

LEMMA Holders ==
    ASSUME at \in [Procs -> Points], frame \in [Procs -> Frames], NEW i \in Inos, NEW p \in Procs
    PROVE  /\ Share(at[p], frame[p], i) + One(i = Root) <= Held[i]
           /\ Pending[i] + Share(at[p], frame[p], i) <= Held[i] + LinkedBy(at[p], frame[p], i)
           /\ \A q \in Procs \ {p} :
                Share(at[p], frame[p], i) + Share(at[q], frame[q], i) + One(i = Root) <= Held[i]
           /\ Held[i] \in Nat /\ Pending[i] \in Nat
<1>1. /\ InDir(i) \in SUBSET Procs /\ WithIno(i) \in SUBSET Procs /\ WithOld(i) \in SUBSET Procs
      /\ N!Linking(i) \in SUBSET WithOld(i) /\ N!Linking(i) \in SUBSET Procs
  BY DEF InDir, WithIno, WithOld, N!Linking
<1>2. /\ IsFiniteSet(InDir(i)) /\ IsFiniteSet(WithIno(i)) /\ IsFiniteSet(WithOld(i))
      /\ IsFiniteSet(N!Linking(i))
  BY <1>1, ProcsAssumption, FS_Subset
<1>3. /\ Cardinality(InDir(i)) \in Nat /\ Cardinality(WithIno(i)) \in Nat
      /\ Cardinality(WithOld(i)) \in Nat /\ Cardinality(N!Linking(i)) \in Nat
  BY <1>2, FS_CardinalityType
<1>4. ASSUME NEW q \in Procs
      PROVE  Share(at[q], frame[q], i) = One(q \in InDir(i)) + One(q \in WithIno(i)) + One(q \in WithOld(i))
  BY DEF Share, InDir, WithIno, WithOld
<1>5. ASSUME NEW q, q # p, NEW A \in SUBSET Procs
      PROVE  Cardinality(A) >= One(p \in A) + One(q \in A)
  BY <1>5, TwoIn
<1>6. ASSUME NEW q \in Procs \ {p}
      PROVE  Share(at[p], frame[p], i) + Share(at[q], frame[q], i) + One(i = Root) <= Held[i]
  <2>1. /\ Cardinality(InDir(i)) >= One(p \in InDir(i)) + One(q \in InDir(i))
        /\ Cardinality(WithIno(i)) >= One(p \in WithIno(i)) + One(q \in WithIno(i))
        /\ Cardinality(WithOld(i)) >= One(p \in WithOld(i)) + One(q \in WithOld(i))
    BY <1>1, <1>5
  <2> QED  BY <1>3, <1>4, <2>1, HoldingIs DEF One
<1>7. ASSUME NEW A \in SUBSET Procs
      PROVE  Cardinality(A) >= One(p \in A)
  <2>1. Cardinality(A \ {p}) = Cardinality(A) - One(p \in A) + One(p \in A \ {p})
        /\ Cardinality(A) \in Nat /\ Cardinality(A \ {p}) \in Nat
    BY Recount
  <2> QED  BY <2>1 DEF One
<1>8. Share(at[p], frame[p], i) + One(i = Root) <= Held[i]
  <2>1. /\ Cardinality(InDir(i)) >= One(p \in InDir(i))
        /\ Cardinality(WithIno(i)) >= One(p \in WithIno(i))
        /\ Cardinality(WithOld(i)) >= One(p \in WithOld(i))
    BY <1>1, <1>7
  <2> QED  BY <1>3, <1>4, <2>1, HoldingIs DEF One
<1>9. Cardinality(N!Linking(i)) + One(p \in WithOld(i)) <= Cardinality(WithOld(i)) + One(p \in N!Linking(i))
  <2>1. N!Linking(i) \ {p} \in SUBSET (WithOld(i) \ {p}) /\ IsFiniteSet(WithOld(i) \ {p})
    BY <1>1, <1>2, FS_Subset
  <2>2. Cardinality(N!Linking(i) \ {p}) <= Cardinality(WithOld(i) \ {p})  BY <2>1, FS_Subset
  <2>3. /\ Cardinality(N!Linking(i) \ {p}) = Cardinality(N!Linking(i)) - One(p \in N!Linking(i))
        /\ Cardinality(WithOld(i) \ {p}) = Cardinality(WithOld(i)) - One(p \in WithOld(i))
    BY <1>2, RemoveOne
  <2> QED  BY <1>3, <2>2, <2>3 DEF One
<1>10. Pending[i] + Share(at[p], frame[p], i) <= Held[i] + LinkedBy(at[p], frame[p], i)
  <2>1. LinkedBy(at[p], frame[p], i) = One(p \in N!Linking(i))  BY DEF LinkedBy, N!Linking
  <2>2. /\ Cardinality(InDir(i)) >= One(p \in InDir(i))
        /\ Cardinality(WithIno(i)) >= One(p \in WithIno(i))
    BY <1>1, <1>7
  <2> QED  BY <1>3, <1>4, <1>9, <2>1, <2>2, HoldingIs DEF One
<1>11. Held[i] \in Nat /\ Pending[i] \in Nat  BY <1>3, HoldingIs DEF One
<1> QED  BY <1>6, <1>8, <1>10, <1>11

----------------------------------------------------------------------------
(* A step of one process                                                   *)

\* What q relies on in the entries is still there.
Undisturbed(q) ==
    /\ at[q] \in {"get", "remove", "empty"} /\ frame[q].slot # 0 =>
          inode'[frame[q].dir].ent[frame[q].slot].ino = frame[q].ino
    /\ at[q] = "add" /\ "create" \notin Races => \A s \in N!Slots :
          inode'[frame[q].dir].ent[s].ino # NoIno => inode'[frame[q].dir].ent[s].name # Nm(frame[q])
Same(t, u) == \A i \in Inos : t[i].kind # "free" /\ u[i].kind # "free" =>
                                u[i].kind = t[i].kind /\ u[i].up = t[i].up

LEMMA LocIs ==
    ASSUME NInv, NEW p \in Procs
    PROVE  /\ at[p] \in Points /\ frame[p] \in Frames /\ Frame(at[p], frame[p])
           /\ Place(inode, at[p], frame[p])
           /\ frame[p].dir \in Inos \cup {NoIno} /\ frame[p].ino \in Inos \cup {NoIno}
           /\ frame[p].old \in Inos \cup {NoIno} /\ frame[p].slot \in N!Slots \cup {0}
           /\ at[p] \notin {"user", "held", "linked"} => frame[p].dir \in Inos
BY DEF NInv, Frames, Frame

LEMMA MakersOne ==
    ASSUME Directories, NInv, NEW p \in Procs, NEW i \in Inos, i \in MadeBy(at[p], frame[p])
    PROVE  i \in Made /\ \A q \in Procs \ {p} : i \notin MadeBy(at[q], frame[q])
<1>1. i \in Made  BY DEF Made, N!Making, MadeBy
<1>2. Held[i] = 1  BY <1>1, TableIs DEF NInv
<1>3. ASSUME NEW q \in Procs \ {p}, i \in MadeBy(at[q], frame[q]) PROVE FALSE
  <2>1. Share(at[p], frame[p], i) + Share(at[q], frame[q], i) + One(i = Root) <= Held[i]
    BY Holders DEF NInv
  <2>2. Share(at[p], frame[p], i) >= 1 /\ Share(at[q], frame[q], i) >= 1
        /\ Share(at[p], frame[p], i) \in Nat /\ Share(at[q], frame[q], i) \in Nat
    BY <1>3 DEF MadeBy, Share, One
  <2> QED  BY <1>2, <2>1, <2>2 DEF One
<1> QED  BY <1>1, <1>3

LEMMA MadeIs ==
    ASSUME Directories, NEW i
    PROVE  i \in Made <=> i \in Inos /\ \E q \in Procs : i \in MadeBy(at[q], frame[q])
BY InosIs DEF Made, N!Making, MadeBy

\* A process of whom nothing changes keeps its place.
LEMMA OthersStay ==
    ASSUME Directories, NInv, NEW q \in Procs, at'[q] = at[q], frame'[q] = frame[q], NEW h, NEW m,
           NEW n,
           Table(inode', h, m, n), \A i \in Inos : h[i] >= Share(at[q], frame[q], i),
           Same(inode, inode'), Undisturbed(q)
    PROVE  Frame(at'[q], frame'[q]) /\ Place(inode', at'[q], frame'[q])
<1> DEFINE c == at[q]  l == frame[q]
<1>1. Frame(c, l) /\ Place(inode, c, l) /\ l \in Frames
      /\ l.dir \in Inos \cup {NoIno} /\ l.ino \in Inos \cup {NoIno} /\ l.old \in Inos \cup {NoIno}
  BY LocIs
<1>2. Table(inode, Held, Made, Pending)  BY DEF NInv
<1>3. ASSUME NEW i \in Inos, Share(c, l, i) >= 1
      PROVE  /\ inode'[i].kind = inode[i].kind /\ inode'[i].up = inode[i].up
             /\ inode[i].kind # "free"
  <2>1. Held[i] >= 1 /\ h[i] >= 1
    <3>1. Share(c, l, i) + One(i = Root) <= Held[i] /\ Held[i] \in Nat /\ h[i] \in Nat
      BY Holders, TableIs DEF NInv
    <3>2. Share(c, l, i) \in Nat /\ One(i = Root) \in Nat  BY DEF Share, One
    <3> QED  BY <1>3, <3>1, <3>2
  <2>2. inode[i].kind # "free" /\ inode'[i].kind # "free"  BY <1>2, <2>1, TableIs, FreeIs
  <2> QED  BY <2>2 DEF Same
<1>4. /\ l.dir \in Inos => Share(c, l, l.dir) >= 1
      /\ l.ino \in Inos /\ c \in {"search", "add", "empty", "held"} => Share(c, l, l.ino) >= 1
      /\ l.old \in Inos => Share(c, l, l.old) >= 1
  BY DEF Share, One
<1> HIDE DEF c, l
<1>5. c \in {"get", "search", "add", "remove", "empty"} => l.dir \in Inos  BY <1>1 DEF Frame
<1>6. c \in {"get", "search", "add", "remove", "empty"} =>
        IsDir(inode', l.dir) /\ inode'[l.dir].up = inode[l.dir].up
  BY <1>1, <1>3, <1>4, <1>5 DEF Place, IsDir
<1>7. c \in {"get", "remove", "empty"} =>
          IF l.slot = 0 THEN l.ino \in {l.dir, inode'[l.dir].up}
                        ELSE inode'[l.dir].ent[l.slot].ino = l.ino
  BY <1>1, <1>6 DEF Place, Undisturbed, c, l
<1>8. c = "add" => /\ Nm(l) \in EntryNames
                   /\ "create" \notin Races =>
                         \A s \in N!Slots : inode'[l.dir].ent[s].ino # NoIno
                                                 => inode'[l.dir].ent[s].name # Nm(l)
  BY <1>1 DEF Place, Undisturbed, c, l
<1>9. c \in {"search", "add"} /\ l.op # "link" =>
          inode'[l.ino].kind = KindOf(l.op) /\ (l.op = "mkdir" => inode'[l.ino].up = l.dir)
  <2>1. c \in {"search", "add"} /\ l.op # "link" => l.ino \in Inos  BY <1>1 DEF Frame
  <2> QED  BY <1>1, <1>3, <1>4, <2>1 DEF Place
<1>10. c = "empty" => IsDir(inode', l.ino) /\ l.ino # l.dir
  <2>1. c = "empty" => l.ino \in Inos  BY <1>1 DEF Frame
  <2> QED  BY <1>1, <1>3, <1>4, <2>1 DEF Place, IsDir
<1>11. l.old # NoIno => ~IsDir(inode', l.old)  BY <1>1, <1>3, <1>4 DEF Place, IsDir
<1>12. Place(inode', c, l)  BY <1>6, <1>7, <1>8, <1>9, <1>10, <1>11 DEF Place
<1> QED  BY <1>1, <1>12 DEF c, l

LEMMA Stepped ==
    ASSUME Directories, NInv, NEW p \in Procs, NEW c, NEW l, N!Goto(p, c, l), NEW h, NEW m, NEW n,
           Table(inode', h, m, n),
           \A i \in Inos : h[i] = Held[i] - Share(at[p], frame[p], i) + Share(c, l, i),
           m = (Made \ MadeBy(at[p], frame[p])) \cup MadeBy(c, l),
           \A i \in Inos : n[i] = Pending[i] - LinkedBy(at[p], frame[p], i) + LinkedBy(c, l, i),
           Frame(c, l), Place(inode', c, l), Same(inode, inode'),
           \A q \in Procs \ {p} : Undisturbed(q) /\ Differ(c, l, at[q], frame[q])
    PROVE  NInv'
<1>1. /\ \A q \in Procs \ {p} : at'[q] = at[q] /\ frame'[q] = frame[q]
      /\ at'[p] = c /\ frame'[p] = l /\ c \in Points /\ l \in Frames
      /\ at' \in [Procs -> Points] /\ frame' \in [Procs -> Frames]
  BY DEF NInv, N!Goto, Frame
<1>2. Held' = h
  <2>1. \A i \in Inos : Held'[i] = h[i]  BY HeldStep DEF NInv
  <2>2. h \in [Inos -> Nat]  BY TableIs
  <2> QED  BY <2>1, <2>2 DEF Held
<1>3. Pending' = n
  <2>1. \A i \in Inos : Pending'[i] = n[i]  BY HeldStep DEF NInv
  <2>2. n \in [Inos -> Nat]  BY TableIs
  <2> QED  BY <2>1, <2>2 DEF Pending
<1>4. Made' = m
  <2>1. m \subseteq Inos  BY TableIs
  <2>2. ASSUME NEW i \in Inos
        PROVE  i \in Made' <=> \E q \in Procs : i \in MadeBy(at'[q], frame'[q])
    BY InosIs DEF Made, N!Making, MadeBy
  <2>3. ASSUME NEW i \in Inos, i \in m PROVE i \in Made'
    <3>1. CASE i \in MadeBy(c, l)  BY <1>1, <2>2, <3>1
    <3>2. CASE i \in Made /\ i \notin MadeBy(at[p], frame[p])
      <4>1. PICK q \in Procs : i \in MadeBy(at[q], frame[q])  BY <3>2, MadeIs
      <4> QED  BY <1>1, <2>2, <3>2, <4>1
    <3> QED  BY <2>3, <3>1, <3>2
  <2>4. ASSUME NEW i \in Inos, i \in Made' PROVE i \in m
    <3>1. PICK q \in Procs : i \in MadeBy(at'[q], frame'[q])  BY <2>2, <2>4
    <3>2. CASE q = p  BY <1>1, <3>1, <3>2
    <3>3. CASE q # p
      <4>1. i \in MadeBy(at[q], frame[q])  BY <1>1, <3>1, <3>3
      <4>2. i \in Made /\ i \notin MadeBy(at[p], frame[p])  BY <3>3, <4>1, MakersOne, MadeIs
      <4> QED  BY <4>2
    <3> QED  BY <3>2, <3>3
  <2>5. Made' \subseteq Inos  BY DEF Made
  <2> QED  BY <2>1, <2>3, <2>4, <2>5
<1>5. Table(inode', Held', Made', Pending')  BY <1>2, <1>3, <1>4
<1>6. ASSUME NEW q \in Procs
      PROVE  Frame(at'[q], frame'[q]) /\ Place(inode', at'[q], frame'[q])
  <2>1. CASE q = p  BY <1>1, <2>1
  <2>2. CASE q # p
    <3>1. \A i \in Inos : h[i] >= Share(at[q], frame[q], i)
      <4> SUFFICES ASSUME NEW i \in Inos PROVE h[i] >= Share(at[q], frame[q], i)
        OBVIOUS
      <4>1. Share(at[p], frame[p], i) + Share(at[q], frame[q], i) + One(i = Root) <= Held[i]
            /\ Held[i] \in Nat
        BY <2>2, Holders DEF NInv
      <4>2. Share(at[p], frame[p], i) \in Nat /\ Share(at[q], frame[q], i) \in Nat
            /\ Share(c, l, i) \in Nat /\ One(i = Root) \in Nat
        BY DEF Share, One
      <4>3. h[i] = Held[i] - Share(at[p], frame[p], i) + Share(c, l, i)  OBVIOUS
      <4> QED  BY <4>1, <4>2, <4>3
    <3>2. at'[q] = at[q] /\ frame'[q] = frame[q] /\ Undisturbed(q)  BY <1>1, <2>2
    <3> QED  BY <3>1, <3>2, OthersStay
  <2> QED  BY <2>1, <2>2
<1>7. ASSUME NEW q \in Procs, NEW r \in Procs, q # r
      PROVE  Differ(at'[q], frame'[q], at'[r], frame'[r])
  <2>1. CASE q = p  BY <1>1, <1>7, <2>1
  <2>2. CASE r = p
    <3>1. Differ(c, l, at[q], frame[q])  BY <1>7, <2>2
    <3>2. Differ(at[q], frame[q], c, l)  BY <3>1 DEF Differ
    <3> QED  BY <1>1, <1>7, <2>2, <3>2
  <2>3. CASE q # p /\ r # p
    <3>1. Differ(at[q], frame[q], at[r], frame[r])  BY <1>7 DEF NInv
    <3> QED  BY <1>1, <2>3, <3>1
  <2> QED  BY <2>1, <2>2, <2>3
<1> QED  BY <1>1, <1>5, <1>6, <1>7 DEF NInv

LEMMA EntriesSame ==
    ASSUME NInv, \A x \in Inos, s \in N!Slots : inode'[x].ent[s] = inode[x].ent[s],
           NEW q \in Procs
    PROVE  Undisturbed(q)
<1>1. at[q] \in {"get", "remove", "empty", "add"} => frame[q].dir \in Inos  BY LocIs
<1>2. Place(inode, at[q], frame[q]) /\ (frame[q].slot # 0 => frame[q].slot \in N!Slots)  BY LocIs
<1> QED  BY <1>1, <1>2 DEF Undisturbed, Place

LEMMA EntryAdded ==
    ASSUME NInv, NEW d \in Inos, NEW s \in N!Slots, NEW nm, inode[d].ent[s].ino = NoIno,
           \A x \in Inos, r \in N!Slots : <<x, r>> # <<d, s>> => inode'[x].ent[r] = inode[x].ent[r],
           inode'[d].ent[s].name = nm,
           NEW q \in Procs,
           at[q] = "add" /\ frame[q].dir = d /\ "create" \notin Races => Nm(frame[q]) # nm
    PROVE  Undisturbed(q)
<1> DEFINE e == frame[q].dir  r == frame[q].slot
<1>1. at[q] \in {"get", "remove", "empty", "add"} => e \in Inos  BY LocIs
<1>2. Place(inode, at[q], frame[q]) /\ Frame(at[q], frame[q]) /\ (r # 0 => r \in N!Slots)
      /\ frame[q].ino \in Inos \cup {NoIno}
  BY LocIs
<1>3. ASSUME at[q] \in {"get", "remove", "empty"}, r # 0
      PROVE  inode'[e].ent[r].ino = frame[q].ino
  <2>1. inode[e].ent[r].ino = frame[q].ino  BY <1>2, <1>3 DEF Place
  <2>2. frame[q].ino # NoIno  BY <1>2, <1>3 DEF Frame
  <2>3. <<e, r>> # <<d, s>>  BY <2>1, <2>2
  <2> QED  BY <1>1, <1>2, <1>3, <2>1, <2>3
<1>4. ASSUME "create" \notin Races, at[q] = "add", NEW w \in N!Slots, inode'[e].ent[w].ino # NoIno
      PROVE  inode'[e].ent[w].name # Nm(frame[q])
  <2>1. CASE <<e, w>> = <<d, s>>  BY <1>4, <2>1
  <2>2. CASE <<e, w>> # <<d, s>>  BY <1>1, <1>2, <1>4, <2>2 DEF Place
  <2> QED  BY <2>1, <2>2
<1> QED  BY <1>3, <1>4 DEF Undisturbed

LEMMA EntryTaken ==
    ASSUME NInv, NEW d \in Inos, NEW s \in N!Slots,
           \A x \in Inos, r \in N!Slots : <<x, r>> # <<d, s>> => inode'[x].ent[r] = inode[x].ent[r],
           inode'[d].ent[s] = N!NoEntry,
           NEW q \in Procs,
           ~(at[q] \in {"get", "remove", "empty"} /\ frame[q].dir = d /\ frame[q].slot = s)
    PROVE  Undisturbed(q)
<1> DEFINE e == frame[q].dir  r == frame[q].slot
<1>1. at[q] \in {"get", "remove", "empty", "add"} => e \in Inos  BY LocIs
<1>2. Place(inode, at[q], frame[q]) /\ (r # 0 => r \in N!Slots)  BY LocIs
<1>3. ASSUME at[q] \in {"get", "remove", "empty"}, r # 0
      PROVE  inode'[e].ent[r].ino = frame[q].ino
  <2>1. inode[e].ent[r].ino = frame[q].ino  BY <1>2, <1>3 DEF Place
  <2>2. <<e, r>> # <<d, s>>  BY <1>3
  <2> QED  BY <1>1, <1>2, <1>3, <2>1, <2>2
<1>4. ASSUME "create" \notin Races, at[q] = "add", NEW w \in N!Slots, inode'[e].ent[w].ino # NoIno
      PROVE  inode'[e].ent[w].name # Nm(frame[q])
  <2>1. <<e, w>> # <<d, s>>  BY <1>4, FreeIs
  <2> QED  BY <1>1, <1>2, <1>4, <2>1 DEF Place
<1> QED  BY <1>3, <1>4 DEF Undisturbed

----------------------------------------------------------------------------
(* Getting and putting inodes                                              *)

\* No entry changes, and an inode that goes was no directory.
Quietly(t, u) ==
    \A x \in Inos :
        /\ \A s \in N!Slots : u[x].ent[s] = t[x].ent[s]
        /\ \/ u[x].kind = t[x].kind /\ u[x].up = t[x].up
           \/ u[x].kind = "free" /\ ~IsDir(t, x)

LEMMA QuietlyTwice ==
    ASSUME NEW t, NEW u, NEW v, Quietly(t, u), Quietly(u, v) PROVE Quietly(t, v)
BY DEF Quietly, IsDir

LEMMA QuietlyIs ==
    ASSUME NEW t, NEW u, Quietly(t, u)
    PROVE  /\ Same(t, u) /\ \A x \in Inos, s \in N!Slots : u[x].ent[s] = t[x].ent[s]
           /\ \A x \in Inos : IsDir(t, x) <=> IsDir(u, x)
           /\ \A x \in Inos : IsDir(t, x) => u[x].up = t[x].up
BY DEF Quietly, Same, IsDir

LEMMA GetOne ==
    ASSUME Directories, NEW t, NEW h, NEW m, NEW n, Table(t, h, m, n),
           NEW i \in Inos, t[i].kind # "free", i \notin m
    PROVE  \E k \in [Inos -> Nat] :
             /\ Table(N!Get(t, i), k, m, n) /\ Quietly(t, N!Get(t, i))
             /\ N!Get(t, i)[i].kind = t[i].kind
             /\ \A x \in Inos : k[x] = h[x] + One(x = i)
<1> DEFINE k == [h EXCEPT ![i] = @ + 1]
<1>1. k \in [Inos -> Nat] /\ \A x \in Inos : k[x] = h[x] + One(x = i)  BY TableIs DEF One
<1>2. Table(N!Get(t, i), k, m, n) /\ Quietly(t, N!Get(t, i)) /\ N!Get(t, i)[i].kind = t[i].kind
  <2>1. /\ Table(N!Get(t, i), k, m, n)
        /\ \A x \in Inos : N!Get(t, i)[x].ent = t[x].ent /\ N!Get(t, i)[x].kind = t[x].kind
                            /\ N!Get(t, i)[x].up = t[x].up
    BY GetT
  <2> HIDE DEF k
  <2> QED  BY <2>1 DEF Quietly
<1> HIDE DEF k
<1> QED  BY <1>1, <1>2

LEMMA PutOne ==
    ASSUME Directories, NEW t, NEW h, NEW m, NEW n, Table(t, h, m, n),
           NEW a \in Inos \cup {NoIno}, a \notin m,
           \A i \in Inos : n[i] + One(a = i) <= h[i] /\ One(a = i) + One(i = Root) <= h[i]
    PROVE  \E k \in [Inos -> Nat] :
             /\ Table(N!Put(t, a), k, m, n) /\ Quietly(t, N!Put(t, a))
             /\ \A x \in Inos : k[x] = h[x] - One(a = x)
<1>1. CASE a = NoIno
  <2>1. N!Put(t, a) = t  BY <1>1 DEF N!Put
  <2>2. \A x \in Inos : h[x] = h[x] - One(a = x)  BY <1>1, TableIs DEF One
  <2>3. Quietly(t, t)  BY DEF Quietly
  <2>4. h \in [Inos -> Nat]  BY TableIs
  <2> QED  BY <2>1, <2>2, <2>3, <2>4
<1>2. CASE a \in Inos
  <2> DEFINE k == [h EXCEPT ![a] = @ - 1]
  <2>1. n[a] < h[a] /\ (a = Root => h[a] > 1) /\ h[a] \in Nat
    <3>1. n[a] + One(a = a) <= h[a] /\ One(a = a) + One(a = Root) <= h[a]
          /\ h[a] \in Nat /\ n[a] \in Nat
      BY <1>2, TableIs
    <3> QED  BY <3>1 DEF One
  <2>2. k \in [Inos -> Nat] /\ \A x \in Inos : k[x] = h[x] - One(a = x)
    BY <1>2, <2>1, TableIs DEF One
  <2>3. Table(N!Put(t, a), k, m, n) /\ Quietly(t, N!Put(t, a))
    <3>1. /\ Table(N!Put(t, a), k, m, n)
          /\ \A x \in Inos :
                /\ N!Put(t, a)[x].ent = t[x].ent
                /\ \/ N!Put(t, a)[x].kind = t[x].kind /\ N!Put(t, a)[x].up = t[x].up
                   \/ N!Put(t, a)[x] = N!Free /\ ~IsDir(t, x)
      BY <1>2, <2>1, PutT
    <3> QED  BY <3>1, FreeIs DEF Quietly
  <2> HIDE DEF k
  <2> QED  BY <2>2, <2>3
<1> QED  BY <1>1, <1>2

LEMMA PutBoth ==
    ASSUME Directories, NEW t, NEW h, NEW m, NEW n, Table(t, h, m, n),
           NEW a \in Inos \cup {NoIno}, NEW b \in Inos \cup {NoIno}, a \notin m, b \notin m,
           \A i \in Inos : /\ n[i] + One(a = i) + One(b = i) <= h[i]
                           /\ One(a = i) + One(b = i) + One(i = Root) <= h[i]
    PROVE  \E k \in [Inos -> Nat] :
             /\ Table(N!Put(N!Put(t, a), b), k, m, n) /\ Quietly(t, N!Put(N!Put(t, a), b))
             /\ \A x \in Inos : k[x] = h[x] - One(a = x) - One(b = x)
<1>1. \A x \in Inos : h[x] \in Nat /\ n[x] \in Nat  BY TableIs
<1>2. ASSUME NEW i \in Inos
      PROVE  One(a = i) \in Nat /\ One(b = i) \in Nat /\ One(i = Root) \in Nat
  BY DEF One
<1>3. \A i \in Inos : n[i] + One(a = i) <= h[i] /\ One(a = i) + One(i = Root) <= h[i]
  <2> SUFFICES ASSUME NEW i \in Inos
               PROVE  n[i] + One(a = i) <= h[i] /\ One(a = i) + One(i = Root) <= h[i]
    OBVIOUS
  <2>1. /\ n[i] + One(a = i) + One(b = i) <= h[i]
        /\ One(a = i) + One(b = i) + One(i = Root) <= h[i]
    OBVIOUS
  <2> QED  BY <1>1, <1>2, <2>1
<1>4. PICK k \in [Inos -> Nat] :
             /\ Table(N!Put(t, a), k, m, n) /\ Quietly(t, N!Put(t, a))
             /\ \A x \in Inos : k[x] = h[x] - One(a = x)
  BY <1>3, PutOne
<1>5. \A i \in Inos : n[i] + One(b = i) <= k[i] /\ One(b = i) + One(i = Root) <= k[i]
  <2> SUFFICES ASSUME NEW i \in Inos
               PROVE  n[i] + One(b = i) <= k[i] /\ One(b = i) + One(i = Root) <= k[i]
    OBVIOUS
  <2>1. /\ n[i] + One(a = i) + One(b = i) <= h[i]
        /\ One(a = i) + One(b = i) + One(i = Root) <= h[i]
        /\ k[i] = h[i] - One(a = i)
    BY <1>4
  <2> QED  BY <1>1, <1>2, <2>1
<1> DEFINE u == N!Put(t, a)
<1>6. Table(u, k, m, n) /\ Quietly(t, u)  BY <1>4
<1> HIDE DEF u
<1>7. PICK j \in [Inos -> Nat] :
             /\ Table(N!Put(u, b), j, m, n) /\ Quietly(u, N!Put(u, b))
             /\ \A x \in Inos : j[x] = k[x] - One(b = x)
  BY <1>5, <1>6, PutOne
<1>8. \A x \in Inos : j[x] = h[x] - One(a = x) - One(b = x)  BY <1>4, <1>7
<1>9. Quietly(t, N!Put(u, b))  BY <1>6, <1>7, QuietlyTwice
<1> QED  BY <1>7, <1>8, <1>9 DEF u

----------------------------------------------------------------------------
(* What a process knows                                                    *)

LEMMA NotMade ==
    ASSUME Directories, NInv, NEW p \in Procs, NEW i \in Inos, Share(at[p], frame[p], i) >= 1,
           i \notin MadeBy(at[p], frame[p]) \/ Share(at[p], frame[p], i) >= 2
    PROVE  i \notin Made /\ inode[i].kind # "free"
<1>1. Table(inode, Held, Made, Pending)  BY DEF NInv
<1>2. Share(at[p], frame[p], i) + One(i = Root) <= Held[i] /\ Held[i] \in Nat  BY Holders DEF NInv
<1>3. Share(at[p], frame[p], i) \in Nat /\ One(i = Root) \in Nat  BY DEF Share, One
<1>4. ASSUME i \in Made PROVE FALSE
  <2>1. Held[i] = 1  BY <1>1, <1>4, TableIs
  <2>2. PICK q \in Procs : i \in MadeBy(at[q], frame[q])  BY <1>4, MadeIs
  <2>3. q # p  BY <1>2, <1>3, <2>1, <2>2
  <2>4. Share(at[p], frame[p], i) + Share(at[q], frame[q], i) + One(i = Root) <= Held[i]
    BY <2>3, Holders DEF NInv
  <2>5. Share(at[q], frame[q], i) >= 1 /\ Share(at[q], frame[q], i) \in Nat
    BY <2>2 DEF MadeBy, Share, One
  <2> QED  BY <1>3, <2>1, <2>4, <2>5
<1>5. inode[i].kind # "free"
  <2>1. inode[i].count = Held[i]  BY <1>1, TableIs
  <2>2. Held[i] # 0  BY <1>2, <1>3
  <2> QED  BY <1>1, <2>1, <2>2, TableIs, FreeIs
<1> QED  BY <1>4, <1>5

\* The directory and the old inode of a process have their names.
LEMMA DirIs ==
    ASSUME Directories, NInv, NEW p \in Procs
    PROVE  /\ frame[p].dir \in Inos \cup {NoIno} /\ frame[p].dir \notin Made
           /\ frame[p].old \in Inos \cup {NoIno} /\ frame[p].old \notin Made
           /\ frame[p].dir \in Inos => inode[frame[p].dir].kind # "free"
           /\ frame[p].old \in Inos => inode[frame[p].old].kind # "free"
           /\ Made \subseteq Inos
<1>1. ASSUME NEW i \in Inos, frame[p].dir = i \/ frame[p].old = i
      PROVE  i \notin Made /\ inode[i].kind # "free"
  <2>1. Share(at[p], frame[p], i) >= 1  BY <1>1 DEF Share, One
  <2>2. i \notin MadeBy(at[p], frame[p]) \/ Share(at[p], frame[p], i) >= 2
    BY <1>1 DEF MadeBy, Share, One
  <2> QED  BY <2>1, <2>2, NotMade
<1>2. Made \subseteq Inos  BY DEF Made
<1> QED  BY <1>1, <1>2, LocIs, InosIs

\* Where an entry, "." or ".." leads.
LEMMA ReachIs ==
    ASSUME Directories, NInv, NEW d \in Inos, IsDir(inode, d), d \notin Made,
           NEW s \in N!Slots \cup {0},
           NEW i, i # NoIno,
           IF s = 0 THEN i \in {d, inode[d].up} ELSE inode[d].ent[s].ino = i
    PROVE  i \in Inos /\ inode[i].kind # "free" /\ i \notin Made
<1>1. Table(inode, Held, Made, Pending)  BY DEF NInv
<1>2. CASE s = 0  BY <1>1, <1>2 DEF Table, Tree, IsDir
<1>3. CASE s # 0
  <2>1. inode[d].ent[s] \in N!Entries  BY <1>1, <1>3, TableIs
  <2> QED  BY <1>1, <1>3, <2>1, EntryIs DEF Table, Tree
<1> QED  BY <1>2, <1>3

LEMMA FindIs ==
    ASSUME Directories, NInv, NEW d \in Inos, IsDir(inode, d), NEW nm
    PROVE  /\ N!find_entry(d, nm) # NoIno =>
                LET s == Min(N!Places(d, nm))  i == N!find_entry(d, nm) IN
                /\ s \in N!Slots \cup {0}
                /\ IF s = 0 THEN i \in {d, inode[d].up} ELSE inode[d].ent[s].ino = i
           /\ N!find_entry(d, nm) = NoIno =>
                /\ nm \notin N!dots
                /\ \A s \in N!Slots : inode[d].ent[s].ino # NoIno => inode[d].ent[s].name # nm
<1> DEFINE S == N!Places(d, nm)
<1>1. Table(inode, Held, Made, Pending) /\ NoIno \notin Inos  BY InosIs DEF NInv
<1>2. S = IF nm \in N!dots THEN {0}
          ELSE {s \in N!Slots : inode[d].ent[s].ino # NoIno /\ inode[d].ent[s].name = nm}
  BY DEF N!Places
<1>3. S \subseteq N!Slots \cup {0} /\ S \subseteq Nat /\ 0 \notin N!Slots
  BY <1>2, SlotsAre DEF N!Slots
<1>4. S # {} => Min(S) \in S  BY <1>3, MinIn
<1>5. N!find_entry(d, nm) = IF S = {} THEN NoIno ELSE N!Target(d, nm, Min(S))
  BY MinIs DEF N!find_entry
<1>6. nm \in N!dots /\ S # {} => N!Target(d, nm, Min(S)) \in {d, inode[d].up} /\ inode[d].up \in Inos
  <2>1. inode[d].up \in Inos  BY <1>1 DEF Table, Tree
  <2> QED  BY <2>1 DEF N!Target, N!dots
<1>7. nm \notin N!dots => N!Target(d, nm, Min(S)) = inode[d].ent[Min(S)].ino
  BY DEF N!Target, N!dots
<1> HIDE DEF S
<1>8. ASSUME S # {}
      PROVE  /\ N!find_entry(d, nm) # NoIno
             /\ IF Min(S) = 0 THEN N!find_entry(d, nm) \in {d, inode[d].up}
                              ELSE inode[d].ent[Min(S)].ino = N!find_entry(d, nm)
  <2>1. CASE nm \in N!dots  BY <1>1, <1>2, <1>4, <1>5, <1>6, <1>8, <2>1
  <2>2. CASE nm \notin N!dots  BY <1>2, <1>3, <1>4, <1>5, <1>7, <1>8, <2>2
  <2> QED  BY <2>1, <2>2
<1>9. S = {} => /\ nm \notin N!dots
                /\ \A s \in N!Slots : inode[d].ent[s].ino # NoIno => inode[d].ent[s].name # nm
  BY <1>2
<1> QED  BY <1>3, <1>4, <1>5, <1>8, <1>9 DEF S

LEMMA PathIs ==
    ASSUME NInv, NEW p \in Procs, frame[p].path # <<>>
    PROVE  /\ N!Name(p) \in EntryNames \cup N!dots /\ N!Name(p) = Nm(frame[p])
           /\ Tail(frame[p].path) \in Seq(EntryNames \cup N!dots)
           /\ Len(frame[p].path) \in Nat /\ Len(frame[p].path) >= 1
           /\ ~N!Last(p) => Tail(frame[p].path) # <<>>
<1>1. frame[p].path \in Seq(EntryNames \cup N!dots)  BY LocIs DEF Frames
<1> DEFINE s == frame[p].path
<1>2. s \in Seq(EntryNames \cup N!dots) /\ s # <<>>  BY <1>1
<1> HIDE DEF s
<1>3. Head(s) \in EntryNames \cup N!dots /\ Tail(s) \in Seq(EntryNames \cup N!dots)
      /\ Len(Tail(s)) = Len(s) - 1 /\ Len(s) \in Nat \ {0}
  BY <1>2, HeadTailProperties, EmptySeq
<1>4. Len(s) # 1 => Tail(s) # <<>>
  <2>1. Len(<<>>) = 0  BY EmptySeq
  <2>2. Len(s) # 1 => Len(Tail(s)) # 0  BY <1>3
  <2> QED  BY <2>1, <2>2
<1>5. Len(s) >= 1  BY <1>3
<1> QED  BY <1>3, <1>4, <1>5 DEF N!Name, Nm, N!Last, s

----------------------------------------------------------------------------
(* Calls that end                                                          *)

LEMMA NoLocIs ==
    /\ N!NoLoc \in Frames /\ N!NoLoc.op = "none" /\ N!NoLoc.path = <<>> /\ N!NoLoc.dir = NoIno
    /\ N!NoLoc.ino = NoIno /\ N!NoLoc.old = NoIno /\ N!NoLoc.slot = 0
BY DEF N!NoLoc, Frames

LEMMA ShareIs ==
    ASSUME NInv, NEW p \in Procs
    PROVE  /\ at[p] \in {"user", "walk", "get", "remove", "linked"} =>
                \A i \in Inos : Share(at[p], frame[p], i) = One(frame[p].dir = i) + One(frame[p].old = i)
           /\ at[p] \in {"search", "add", "empty", "held"} =>
                \A i \in Inos : Share(at[p], frame[p], i) =
                                  One(frame[p].dir = i) + One(frame[p].ino = i) + One(frame[p].old = i)
           /\ at[p] \notin {"search", "add"} => MadeBy(at[p], frame[p]) = {}
           /\ at[p] # "linked" => \A i \in Inos : LinkedBy(at[p], frame[p], i) = 0
           /\ \A i \in Inos : LinkedBy(at[p], frame[p], i) = One(at[p] = "linked" /\ frame[p].old = i)
BY DEF Share, MadeBy, LinkedBy, One

LEMMA Released ==
    ASSUME Directories, NInv, NEW p \in Procs, NEW u, N!Return(p, u), NEW h, NEW m, NEW n,
           Table(u, h, m, n),
           \A i \in Inos : h[i] = Held[i] - Share(at[p], frame[p], i),
           m = Made \ MadeBy(at[p], frame[p]),
           \A i \in Inos : n[i] = Pending[i] - LinkedBy(at[p], frame[p], i),
           Same(inode, u), \A q \in Procs \ {p} : Undisturbed(q)
    PROVE  NInv'
<1>1. inode' = u /\ N!Goto(p, "user", N!NoLoc)  BY DEF N!Return
<1>2. Frame("user", N!NoLoc)  BY NoLocIs DEF Frame, Points
<1>3. Place(inode', "user", N!NoLoc)  BY NoLocIs DEF Place
<1>4. ASSUME NEW i \in Inos
      PROVE  /\ h[i] = Held[i] - Share(at[p], frame[p], i) + Share("user", N!NoLoc, i)
             /\ n[i] = Pending[i] - LinkedBy(at[p], frame[p], i) + LinkedBy("user", N!NoLoc, i)
  <2>1. Share("user", N!NoLoc, i) = 0 /\ LinkedBy("user", N!NoLoc, i) = 0
    BY NoLocIs, InosIs DEF Share, LinkedBy, One
  <2>2. h[i] \in Int /\ n[i] \in Int /\ Held[i] \in Int /\ Pending[i] \in Int
    BY TableIs, Holders DEF NInv
  <2>3. h[i] = Held[i] - Share(at[p], frame[p], i)
        /\ n[i] = Pending[i] - LinkedBy(at[p], frame[p], i)
    OBVIOUS
  <2> QED  BY <2>1, <2>2, <2>3 DEF Share, LinkedBy, One
<1>5. m = (Made \ MadeBy(at[p], frame[p])) \cup MadeBy("user", N!NoLoc)  BY DEF MadeBy
<1>6. \A q \in Procs \ {p} : Differ("user", N!NoLoc, at[q], frame[q])  BY DEF Differ
<1> QED  BY <1>1, <1>2, <1>3, <1>4, <1>5, <1>6, Stepped

\* What p holds is a and b: it puts them.
LEMMA PutsAway ==
    ASSUME Directories, NInv, NEW p \in Procs, NEW a \in Inos \cup {NoIno},
           NEW b \in Inos \cup {NoIno},
           N!Return(p, N!Put(N!Put(inode, a), b)), MadeBy(at[p], frame[p]) = {}, at[p] # "linked",
           \A i \in Inos : Share(at[p], frame[p], i) = One(a = i) + One(b = i)
    PROVE  NInv'
<1> DEFINE u == N!Put(N!Put(inode, a), b)
<1>1. Table(inode, Held, Made, Pending) /\ Made \subseteq Inos  BY DirIs DEF NInv
<1>2. a \notin Made /\ b \notin Made
  <2>1. ASSUME NEW i \in {a, b}, i \in Made PROVE FALSE
    <3>1. i \in Inos /\ Share(at[p], frame[p], i) >= 1  BY <1>1, <2>1 DEF One
    <3> QED  BY <2>1, <3>1, NotMade
  <2> QED  BY <2>1
<1>3. ASSUME NEW i \in Inos
      PROVE  /\ Pending[i] + One(a = i) + One(b = i) <= Held[i]
             /\ One(a = i) + One(b = i) + One(i = Root) <= Held[i]
  <2>1. /\ Share(at[p], frame[p], i) + One(i = Root) <= Held[i]
        /\ Pending[i] + Share(at[p], frame[p], i) <= Held[i] + LinkedBy(at[p], frame[p], i)
        /\ Held[i] \in Nat /\ Pending[i] \in Nat
    BY Holders DEF NInv
  <2>2. LinkedBy(at[p], frame[p], i) = 0 /\ Share(at[p], frame[p], i) = One(a = i) + One(b = i)
        /\ One(a = i) \in Nat /\ One(b = i) \in Nat
    BY DEF LinkedBy, One
  <2> QED  BY <2>1, <2>2
<1>4. PICK k \in [Inos -> Nat] :
         /\ Table(u, k, Made, Pending) /\ Quietly(inode, u)
         /\ \A x \in Inos : k[x] = Held[x] - One(a = x) - One(b = x)
  BY <1>1, <1>2, <1>3, PutBoth
<1> HIDE DEF u
<1>5. N!Return(p, u)  BY DEF u
<1>6. ASSUME NEW i \in Inos
      PROVE  /\ k[i] = Held[i] - Share(at[p], frame[p], i)
             /\ Pending[i] = Pending[i] - LinkedBy(at[p], frame[p], i)
  <2>1. k[i] = Held[i] - One(a = i) - One(b = i)
        /\ Share(at[p], frame[p], i) = One(a = i) + One(b = i)
    BY <1>4
  <2>2. Held[i] \in Nat /\ Pending[i] \in Nat /\ One(a = i) \in Nat /\ One(b = i) \in Nat
        /\ LinkedBy(at[p], frame[p], i) = 0
    BY Holders DEF NInv, One, LinkedBy
  <2> QED  BY <2>1, <2>2
<1>7. Same(inode, u) /\ \A q \in Procs \ {p} : Undisturbed(q)
  BY <1>4, <1>5, QuietlyIs, EntriesSame DEF N!Return
<1>8. Made = Made \ MadeBy(at[p], frame[p])  OBVIOUS
<1> QED  BY <1>4, <1>5, <1>6, <1>7, <1>8, Released

LEMMA Closes ==
    ASSUME Directories, NInv, NEW p \in Procs, at[p] \in {"walk", "add"},
           at[p] = "add" => frame[p].ino = NoIno,
           N!Return(p, N!Put(N!Put(inode, frame[p].dir), frame[p].old))
    PROVE  NInv'
<1>1. MadeBy(at[p], frame[p]) = {}  BY DEF MadeBy
<1>2. \A i \in Inos : Share(at[p], frame[p], i) = One(frame[p].dir = i) + One(frame[p].old = i)
  BY InosIs DEF Share, One
<1> QED  BY <1>1, <1>2, LocIs, PutsAway

LEMMA HeldCloses ==
    ASSUME Directories, NInv, NEW p \in Procs, N!Close(p) PROVE NInv'
<1>1. at[p] = "held" /\ N!Return(p, N!Put(inode, frame[p].ino))  BY DEF N!Close
<1>2. frame[p].dir = NoIno /\ frame[p].old = NoIno /\ frame[p].ino \in Inos \cup {NoIno}
  BY <1>1, LocIs DEF Frame
<1>3. N!Put(N!Put(inode, frame[p].ino), NoIno) = N!Put(inode, frame[p].ino)  BY DEF N!Put
<1>4. \A i \in Inos : Share(at[p], frame[p], i) = One(frame[p].ino = i) + One(NoIno = i)
  BY <1>1, <1>2, InosIs DEF Share, One
<1>5. MadeBy(at[p], frame[p]) = {}  BY <1>1 DEF MadeBy
<1> QED  BY <1>1, <1>2, <1>3, <1>4, <1>5, PutsAway

LEMMA NotEmptyKeeps ==
    ASSUME Directories, NInv, NEW p \in Procs, N!NotEmpty(p) PROVE NInv'
<1>1. at[p] = "empty" /\ N!Return(p, N!Put(N!Put(inode, frame[p].ino), frame[p].dir))
  BY DEF N!NotEmpty
<1>2. frame[p].old = NoIno  BY <1>1, LocIs DEF Frame
<1>3. \A i \in Inos : Share(at[p], frame[p], i) = One(frame[p].ino = i) + One(frame[p].dir = i)
  BY <1>1, <1>2, InosIs DEF Share, One
<1>4. MadeBy(at[p], frame[p]) = {}  BY <1>1 DEF MadeBy
<1> QED  BY <1>1, <1>3, <1>4, LocIs, PutsAway

\* The call ends where no inode has been found or made.
LEMMA GivesUp ==
    ASSUME Directories, NInv, NEW p \in Procs, at[p] = "walk", frame[p].op # "link",
           N!Return(p, N!Put(inode, frame[p].dir))
    PROVE  NInv'
<1>1. frame[p].old = NoIno  BY LocIs DEF Frame
<1>2. N!Put(N!Put(inode, frame[p].dir), frame[p].old) = N!Put(inode, frame[p].dir)
  BY <1>1 DEF N!Put
<1>3. N!Return(p, N!Put(N!Put(inode, frame[p].dir), frame[p].old))  BY <1>2
<1>4. MadeBy(at[p], frame[p]) = {} /\ at[p] # "linked"  BY DEF MadeBy
<1>5. \A i \in Inos : Share(at[p], frame[p], i) = One(frame[p].dir = i) + One(frame[p].old = i)
  BY ShareIs
<1> QED  BY <1>3, <1>4, <1>5, LocIs, PutsAway

----------------------------------------------------------------------------
(* Walking along a path                                                    *)

\* The inode that has been found in the directory.
LEMMA FoundIs ==
    ASSUME Directories, NInv, NEW p \in Procs, at[p] \in {"get", "remove"}
    PROVE  frame[p].ino \in Inos /\ inode[frame[p].ino].kind # "free" /\ frame[p].ino \notin Made
           /\ frame[p].dir \in Inos
<1>1. /\ frame[p].dir \in Inos /\ frame[p].dir \notin Made /\ IsDir(inode, frame[p].dir)
      /\ frame[p].slot \in N!Slots \cup {0} /\ frame[p].ino # NoIno
      /\ IF frame[p].slot = 0 THEN frame[p].ino \in {frame[p].dir, inode[frame[p].dir].up}
         ELSE inode[frame[p].dir].ent[frame[p].slot].ino = frame[p].ino
  BY LocIs, DirIs DEF Frame, Place
<1> QED  BY <1>1, ReachIs

LEMMA EntersIs ==
    ASSUME Directories, NInv, NEW p \in Procs, at[p] \in {"get", "remove"}
    PROVE  \E k \in [Inos -> Nat] :
             /\ Table(N!Entered(p), k, Made, Pending) /\ Quietly(inode, N!Entered(p))
             /\ \A x \in Inos : k[x] = Held[x] + One(x = frame[p].ino) - One(frame[p].dir = x)
<1> DEFINE i == frame[p].ino  d == frame[p].dir  u == N!Get(inode, i)
<1>1. i \in Inos /\ inode[i].kind # "free" /\ i \notin Made /\ d \in Inos  BY FoundIs
<1>2. Table(inode, Held, Made, Pending)  BY DEF NInv
<1>3. PICK k \in [Inos -> Nat] :
         /\ Table(u, k, Made, Pending) /\ Quietly(inode, u)
         /\ \A x \in Inos : k[x] = Held[x] + One(x = i)
  BY <1>1, <1>2, GetOne
<1> HIDE DEF u, d, i
<1>4. ASSUME NEW x \in Inos
      PROVE  Pending[x] + One(d = x) <= k[x] /\ One(d = x) + One(x = Root) <= k[x]
  <2>1. /\ Share(at[p], frame[p], x) + One(x = Root) <= Held[x]
        /\ Pending[x] + Share(at[p], frame[p], x) <= Held[x] + LinkedBy(at[p], frame[p], x)
        /\ Held[x] \in Nat /\ Pending[x] \in Nat
    BY Holders DEF NInv
  <2>2. LinkedBy(at[p], frame[p], x) = 0 /\ Share(at[p], frame[p], x) >= One(d = x)
        /\ Share(at[p], frame[p], x) \in Nat /\ One(d = x) \in Nat /\ One(x = i) \in Nat
        /\ One(x = Root) \in Nat
    BY DEF LinkedBy, One, Share, d
  <2>3. k[x] = Held[x] + One(x = i)  BY <1>3
  <2> QED  BY <2>1, <2>2, <2>3
<1>5. d \in Inos \cup {NoIno} /\ d \notin Made  BY DirIs DEF d
<1>6. PICK j \in [Inos -> Nat] :
         /\ Table(N!Put(u, d), j, Made, Pending) /\ Quietly(u, N!Put(u, d))
         /\ \A x \in Inos : j[x] = k[x] - One(d = x)
  BY <1>3, <1>4, <1>5, PutOne
<1>7. ASSUME NEW x \in Inos
      PROVE  j[x] = Held[x] + One(x = i) - One(d = x)
  <2>1. j[x] = k[x] - One(d = x) /\ k[x] = Held[x] + One(x = i)  BY <1>3, <1>6
  <2>2. Held[x] \in Nat  BY Holders DEF NInv
  <2> QED  BY <2>1, <2>2 DEF One
<1>9. Quietly(inode, N!Put(u, d))  BY <1>3, <1>6, QuietlyTwice
<1>8. N!Put(u, d) = N!Entered(p)  BY DEF N!Entered, u, d, i
<1> QED  BY <1>6, <1>7, <1>8, <1>9 DEF i, d

\* A step in which names and links stay and an inode is at most got or put.
LEMMA GoesTo ==
    ASSUME Directories, NInv, NEW p \in Procs, NEW c, NEW l, N!Goto(p, c, l), NEW k,
           Table(inode', k, Made, Pending), Quietly(inode, inode'),
           \A x \in Inos : k[x] = Held[x] - Share(at[p], frame[p], x) + Share(c, l, x),
           MadeBy(c, l) = MadeBy(at[p], frame[p]),
           at[p] # "linked", c # "linked",
           Frame(c, l), Place(inode', c, l),
           \A q \in Procs \ {p} : Differ(c, l, at[q], frame[q])
    PROVE  NInv'
<1>1. Made = (Made \ MadeBy(at[p], frame[p])) \cup MadeBy(c, l)
  <2>1. \A i \in MadeBy(at[p], frame[p]) : i \in Made
    <3> SUFFICES ASSUME NEW i \in MadeBy(at[p], frame[p]) PROVE i \in Made
      OBVIOUS
    <3>1. i \in Inos  BY LocIs DEF MadeBy
    <3> QED  BY <3>1, MadeIs
  <2> QED  BY <2>1
<1>2. ASSUME NEW i \in Inos
      PROVE  Pending[i] = Pending[i] - LinkedBy(at[p], frame[p], i) + LinkedBy(c, l, i)
  <2>1. LinkedBy(at[p], frame[p], i) = 0 /\ LinkedBy(c, l, i) = 0 /\ Pending[i] \in Nat
    BY Holders DEF LinkedBy, One, NInv
  <2> QED  BY <2>1
<1>3. Same(inode, inode') /\ \A q \in Procs \ {p} : Undisturbed(q)  BY QuietlyIs, EntriesSame
<1> QED  BY <1>1, <1>2, <1>3, Stepped

LEMMA QuietlyKept ==
    ASSUME NInv PROVE Table(inode, Held, Made, Pending) /\ Quietly(inode, inode)
BY DEF NInv, Quietly

LEMMA CallKeeps ==
    ASSUME Directories, NInv, NEW p \in Procs, N!Call(p) PROVE NInv'
<1>1. PICK op \in N!Ops, path \in Paths :
         N!Goto(p, "walk", [N!NoLoc EXCEPT !.op = op, !.path = path, !.dir = Root])
  BY DEF N!Call
<1> DEFINE l == [N!NoLoc EXCEPT !.op = op, !.path = path, !.dir = Root]
<1>2. at[p] = "user" /\ inode' = N!Get(inode, Root)  BY DEF N!Call
<1>3. frame[p] = N!NoLoc  BY <1>2, LocIs DEF Frame
<1>4. path \in Seq(EntryNames \cup N!dots) /\ path # <<>>  BY PathsAre
<1>5. /\ l \in Frames /\ l.op = op /\ l.path = path /\ l.dir = Root /\ l.ino = NoIno
      /\ l.old = NoIno
  BY <1>4, InosIs DEF N!NoLoc, Frames
<1>6. N!Goto(p, "walk", l)  BY <1>1
<1> HIDE DEF l
<1>7. op # "link" /\ op # "none"  BY DEF N!Ops, N!Makes
<1>8. Frame("walk", l)  BY <1>4, <1>5, <1>7, InosIs DEF Frame, Points
<1>9. inode[Root].kind # "free" /\ Root \notin Made /\ Root \in Inos
  BY TableIs, QuietlyKept DEF IsDir
<1>10. PICK k \in [Inos -> Nat] :
         /\ Table(inode', k, Made, Pending) /\ Quietly(inode, inode')
         /\ \A x \in Inos : k[x] = Held[x] + One(x = Root)
  BY <1>2, <1>9, GetOne, QuietlyKept
<1>11. Place(inode', "walk", l)  BY <1>5 DEF Place
<1>12. ASSUME NEW x \in Inos
       PROVE  k[x] = Held[x] - Share(at[p], frame[p], x) + Share("walk", l, x)
  <2>1. Share(at[p], frame[p], x) = 0  BY <1>2, <1>3, NoLocIs, InosIs DEF Share, One
  <2>2. Share("walk", l, x) = One(x = Root)  BY <1>5, InosIs DEF Share, One
  <2>3. Held[x] \in Nat /\ k[x] = Held[x] + One(x = Root)  BY <1>10, Holders DEF NInv
  <2> QED  BY <2>1, <2>2, <2>3 DEF One
<1>13. MadeBy("walk", l) = MadeBy(at[p], frame[p])  BY <1>2 DEF MadeBy
<1>14. \A q \in Procs \ {p} : Differ("walk", l, at[q], frame[q])  BY DEF Differ
<1> QED  BY <1>2, <1>6, <1>8, <1>10, <1>11, <1>12, <1>13, <1>14, GoesTo

LEMMA ComponentKeeps ==
    ASSUME Directories, NInv, NEW p \in Procs, N!Step(p) PROVE NInv'
<1> DEFINE d == frame[p].dir  i == N!find_entry(d, N!Name(p))  s == Min(N!Places(d, N!Name(p)))
           l == [frame[p] EXCEPT !.ino = i, !.slot = s]
<1>1. /\ at[p] = "walk" /\ IsDir(inode, d) /\ N!ToInode(p) /\ i # NoIno /\ N!Goto(p, "get", l)
      /\ inode' = inode
  BY MinIs DEF N!Step, N!Open, IsDir
<1>2. /\ frame[p] \in Frames /\ Frame(at[p], frame[p]) /\ Place(inode, at[p], frame[p])
      /\ d \in Inos /\ d \notin Made
  BY <1>1, LocIs, DirIs
<1>3. /\ s \in N!Slots \cup {0}
      /\ IF s = 0 THEN i \in {d, inode[d].up} ELSE inode[d].ent[s].ino = i
  BY <1>1, <1>2, FindIs
<1> HIDE DEF i, s
<1>4. i \in Inos  BY <1>1, <1>2, <1>3, ReachIs
<1>5. /\ l \in Frames /\ l.op = frame[p].op /\ l.path = frame[p].path /\ l.dir = d /\ l.ino = i
      /\ l.old = frame[p].old /\ l.slot = s
  BY <1>2, <1>3, <1>4 DEF Frames
<1> HIDE DEF l
<1>6. frame[p].op = "link" => Len(frame[p].path) > 1
  <2>1. frame[p].path # <<>>  BY <1>1, <1>2 DEF Frame
  <2>2. Len(frame[p].path) \in Nat /\ Len(frame[p].path) >= 1  BY <2>1, PathIs
  <2>3. frame[p].op = "link" => Len(frame[p].path) # 1  BY <1>1 DEF N!ToInode, N!Last
  <2> DEFINE n == Len(frame[p].path)
  <2>4. n \in Nat /\ n >= 1 /\ (frame[p].op = "link" => n # 1)  BY <2>2, <2>3
  <2> HIDE DEF n
  <2>5. frame[p].op = "link" => n > 1  BY <2>4
  <2> QED  BY <2>5 DEF n
<1>7. Frame("get", l)  BY <1>1, <1>2, <1>4, <1>5, <1>6, InosIs DEF Frame, Points
<1>8. Place(inode', "get", l)  BY <1>1, <1>2, <1>3, <1>5 DEF Place
<1>9. ASSUME NEW x \in Inos
      PROVE  Held[x] = Held[x] - Share(at[p], frame[p], x) + Share("get", l, x)
  <2>1. Share(at[p], frame[p], x) = Share("get", l, x) /\ Share("get", l, x) \in Nat
    BY <1>1, <1>5 DEF Share, One
  <2>2. Held[x] \in Nat  BY Holders DEF NInv
  <2> QED  BY <2>1, <2>2
<1>10. MadeBy("get", l) = MadeBy(at[p], frame[p])  BY <1>1 DEF MadeBy
<1>11. \A q \in Procs \ {p} : Differ("get", l, at[q], frame[q])  BY DEF Differ
<1>12. Table(inode', Held, Made, Pending) /\ Quietly(inode, inode')  BY <1>1, QuietlyKept
<1> QED  BY <1>1, <1>7, <1>8, <1>9, <1>10, <1>11, <1>12, GoesTo

LEMMA FollowKeeps ==
    ASSUME Directories, NInv, NEW p \in Procs, N!Follow(p) PROVE NInv'
<1> DEFINE i == frame[p].ino
           w == <<inode[i].to>> \o Tail(frame[p].path)
           l == [frame[p] EXCEPT !.path = w, !.ino = NoIno, !.slot = 0, !.follow = FALSE]
<1>1. at[p] = "get" /\ N!Goto(p, "walk", l) /\ inode' = inode  BY DEF N!Follow
<1>2. /\ frame[p] \in Frames /\ Frame(at[p], frame[p]) /\ Place(inode, at[p], frame[p])
      /\ i \in Inos
  BY <1>1, LocIs, FoundIs
<1>3. w \in Seq(EntryNames \cup N!dots) /\ w # <<>>
  <2>1. Tail(frame[p].path) \in Seq(EntryNames \cup N!dots)  BY <1>1, <1>2, PathIs DEF Frame
  <2>2. inode[i].to \in EntryNames \cup N!dots
    <3>1. inode[i] \in Inode  BY <1>2, TableIs, QuietlyKept
    <3> QED  BY <3>1 DEF Inode, N!dots
  <2> DEFINE a == <<inode[i].to>>  b == Tail(frame[p].path)
  <2>3. a \in Seq(EntryNames \cup N!dots) /\ Len(a) = 1  BY <2>2
  <2> HIDE DEF a, b
  <2>4. a \o b \in Seq(EntryNames \cup N!dots) /\ Len(a \o b) = 1 + Len(b) /\ Len(b) \in Nat
    BY <2>1, <2>3, ConcatProperties, LenProperties DEF b
  <2>5. a \o b # <<>>  BY <2>4, EmptySeq
  <2> QED  BY <2>4, <2>5 DEF a, b
<1> HIDE DEF w
<1>4. /\ l \in Frames /\ l.op = frame[p].op /\ l.path = w /\ l.dir = frame[p].dir
      /\ l.ino = NoIno /\ l.old = frame[p].old /\ l.slot = 0
  BY <1>2, <1>3 DEF Frames
<1> HIDE DEF l
<1>5. Frame("walk", l)  BY <1>1, <1>2, <1>3, <1>4 DEF Frame, Points
<1>6. Place(inode', "walk", l)  BY <1>1, <1>2, <1>4 DEF Place
<1>7. ASSUME NEW x \in Inos
      PROVE  Held[x] = Held[x] - Share(at[p], frame[p], x) + Share("walk", l, x)
  <2>1. Share(at[p], frame[p], x) = Share("walk", l, x) /\ Share("walk", l, x) \in Nat
    BY <1>1, <1>4 DEF Share, One
  <2>2. Held[x] \in Nat  BY Holders DEF NInv
  <2> QED  BY <2>1, <2>2
<1>8. MadeBy("walk", l) = MadeBy(at[p], frame[p])  BY <1>1 DEF MadeBy
<1>9. \A q \in Procs \ {p} : Differ("walk", l, at[q], frame[q])  BY DEF Differ
<1>10. Table(inode', Held, Made, Pending) /\ Quietly(inode, inode')  BY <1>1, QuietlyKept
<1> QED  BY <1>1, <1>5, <1>6, <1>7, <1>8, <1>9, <1>10, GoesTo

LEMMA EnterKeeps ==
    ASSUME Directories, NInv, NEW p \in Procs, N!Enter(p) PROVE NInv'
<1> DEFINE i == frame[p].ino
           w == Tail(frame[p].path)
           l == [frame[p] EXCEPT !.path = w, !.dir = i, !.ino = NoIno, !.slot = 0, !.follow = TRUE]
<1>1. at[p] = "get" /\ ~N!Last(p) /\ N!Goto(p, "walk", l) /\ inode' = N!Entered(p)
  BY DEF N!Enter, N!Reached
<1>2. /\ frame[p] \in Frames /\ Frame(at[p], frame[p]) /\ Place(inode, at[p], frame[p])
      /\ i \in Inos
  BY <1>1, LocIs, FoundIs
<1>3. w \in Seq(EntryNames \cup N!dots) /\ w # <<>>  BY <1>1, <1>2, PathIs DEF Frame
<1> HIDE DEF w
<1>4. /\ l \in Frames /\ l.op = frame[p].op /\ l.path = w /\ l.dir = i
      /\ l.ino = NoIno /\ l.old = frame[p].old /\ l.slot = 0
  BY <1>2, <1>3 DEF Frames
<1> HIDE DEF l
<1>5. Frame("walk", l)  BY <1>1, <1>2, <1>3, <1>4, InosIs DEF Frame, Points
<1>6. PICK k \in [Inos -> Nat] :
         /\ Table(inode', k, Made, Pending) /\ Quietly(inode, inode')
         /\ \A x \in Inos : k[x] = Held[x] + One(x = i) - One(frame[p].dir = x)
  BY <1>1, EntersIs
<1>7. Place(inode', "walk", l)  BY <1>1, <1>2, <1>4, <1>6, QuietlyIs, LocIs DEF Place
<1>8. ASSUME NEW x \in Inos
      PROVE  k[x] = Held[x] - Share(at[p], frame[p], x) + Share("walk", l, x)
  <2>1. Share(at[p], frame[p], x) = One(frame[p].dir = x) + One(frame[p].old = x)  BY <1>1, ShareIs
  <2>2. Share("walk", l, x) = One(x = i) + One(frame[p].old = x)  BY <1>4 DEF Share, One
  <2>3. Held[x] \in Nat /\ k[x] = Held[x] + One(x = i) - One(frame[p].dir = x)
    BY <1>6, Holders DEF NInv
  <2> QED  BY <2>1, <2>2, <2>3 DEF One
<1>9. MadeBy("walk", l) = MadeBy(at[p], frame[p])  BY <1>1 DEF MadeBy
<1>10. \A q \in Procs \ {p} : Differ("walk", l, at[q], frame[q])  BY DEF Differ
<1> QED  BY <1>1, <1>5, <1>6, <1>7, <1>8, <1>9, <1>10, GoesTo

LEMMA EntersAndPuts ==
    ASSUME Directories, NInv, NEW p \in Procs, at[p] = "get", frame[p].old = NoIno,
           N!Return(p, N!Put(N!Entered(p), frame[p].ino))
    PROVE  NInv'
<1> DEFINE i == frame[p].ino  d == frame[p].dir  t == N!Entered(p)  u == N!Put(t, i)
<1>1. i \in Inos /\ i \notin Made /\ d \in Inos  BY FoundIs
<1>2. PICK k \in [Inos -> Nat] :
         /\ Table(t, k, Made, Pending) /\ Quietly(inode, t)
         /\ \A x \in Inos : k[x] = Held[x] + One(x = i) - One(d = x)
  BY EntersIs
<1> HIDE DEF t
<1>3. ASSUME NEW x \in Inos
      PROVE  /\ Share(at[p], frame[p], x) = One(d = x)
             /\ Held[x] \in Nat /\ Pending[x] \in Nat
             /\ One(d = x) + One(x = Root) <= Held[x] /\ Pending[x] + One(d = x) <= Held[x]
  <2>1. Share(at[p], frame[p], x) = One(d = x)  BY InosIs DEF Share, One
  <2>2. /\ Share(at[p], frame[p], x) + One(x = Root) <= Held[x]
        /\ Pending[x] + Share(at[p], frame[p], x) <= Held[x] + LinkedBy(at[p], frame[p], x)
        /\ Held[x] \in Nat /\ Pending[x] \in Nat
    BY Holders DEF NInv
  <2>3. LinkedBy(at[p], frame[p], x) = 0  BY DEF LinkedBy, One
  <2> QED  BY <2>1, <2>2, <2>3
<1>4. ASSUME NEW x \in Inos
      PROVE  Pending[x] + One(i = x) <= k[x] /\ One(i = x) + One(x = Root) <= k[x]
  <2>1. k[x] = Held[x] + One(x = i) - One(d = x)  BY <1>2
  <2>2. One(x = i) = One(i = x)  BY DEF One
  <2>3. One(x = i) \in Nat /\ One(d = x) \in Nat /\ One(x = Root) \in Nat  BY DEF One
  <2> QED  BY <1>3, <2>1, <2>2, <2>3
<1>5. PICK j \in [Inos -> Nat] :
         /\ Table(u, j, Made, Pending) /\ Quietly(t, u)
         /\ \A x \in Inos : j[x] = k[x] - One(i = x)
  BY <1>1, <1>2, <1>4, PutOne
<1> HIDE DEF u
<1>6. ASSUME NEW x \in Inos
      PROVE  /\ j[x] = Held[x] - Share(at[p], frame[p], x)
             /\ Pending[x] = Pending[x] - LinkedBy(at[p], frame[p], x)
  <2>1. j[x] = k[x] - One(i = x) /\ k[x] = Held[x] + One(x = i) - One(d = x)  BY <1>2, <1>5
  <2>2. One(x = i) = One(i = x) /\ One(i = x) \in Nat /\ One(d = x) \in Nat
        /\ LinkedBy(at[p], frame[p], x) = 0
    BY DEF One, LinkedBy
  <2> QED  BY <1>3, <2>1, <2>2
<1>7. Quietly(inode, u) /\ N!Return(p, u)  BY <1>2, <1>5, QuietlyTwice DEF t, u
<1>8. Same(inode, u) /\ \A q \in Procs \ {p} : Undisturbed(q)
  BY <1>7, QuietlyIs, EntriesSame DEF N!Return
<1>9. Made = Made \ MadeBy(at[p], frame[p])  BY DEF MadeBy
<1> QED  BY <1>5, <1>6, <1>7, <1>8, <1>9, Released

LEMMA OpenedKeeps ==
    ASSUME Directories, NInv, NEW p \in Procs, N!Opened(p) PROVE NInv'
<1> DEFINE i == frame[p].ino  d == frame[p].dir  l == [N!NoLoc EXCEPT !.ino = i]
<1>1. at[p] = "get" /\ frame[p].op \in {"open", "creat"}  BY DEF N!Opened, N!Reached
<1>2. frame[p].old = NoIno /\ i \in Inos  BY <1>1, LocIs, FoundIs DEF Frame
<1>3. CASE N!Return(p, N!Put(N!Entered(p), i))  BY <1>1, <1>2, <1>3, EntersAndPuts
<1>4. CASE inode' = N!Entered(p) /\ N!Goto(p, "held", l)
  <2>1. /\ l \in Frames /\ l.op = "none" /\ l.dir = NoIno
        /\ l.ino = i /\ l.old = NoIno
    BY <1>2, NoLocIs DEF Frames
  <2> HIDE DEF l
  <2>2. Frame("held", l)  BY <1>2, <2>1, InosIs DEF Frame, Points
  <2>3. Place(inode', "held", l)  BY <2>1 DEF Place
  <2>4. PICK k \in [Inos -> Nat] :
           /\ Table(inode', k, Made, Pending) /\ Quietly(inode, inode')
           /\ \A x \in Inos : k[x] = Held[x] + One(x = i) - One(frame[p].dir = x)
    BY <1>1, <1>4, EntersIs
  <2>5. ASSUME NEW x \in Inos
        PROVE  k[x] = Held[x] - Share(at[p], frame[p], x) + Share("held", l, x)
    <3>1. Share(at[p], frame[p], x) = One(d = x)  BY <1>1, <1>2, InosIs DEF Share, One
    <3>2. Share("held", l, x) = One(x = i)  BY <2>1, InosIs DEF Share, One
    <3>3. Held[x] \in Nat /\ k[x] = Held[x] + One(x = i) - One(d = x)  BY <2>4, Holders DEF NInv
    <3> QED  BY <3>1, <3>2, <3>3 DEF One
  <2>6. MadeBy("held", l) = MadeBy(at[p], frame[p])  BY <1>1 DEF MadeBy
  <2>7. \A q \in Procs \ {p} : Differ("held", l, at[q], frame[q])  BY DEF Differ
  <2>8. N!Goto(p, "held", l)  BY <1>4
  <2> QED  BY <1>1, <2>2, <2>3, <2>4, <2>5, <2>6, <2>7, <2>8, GoesTo
<1> QED  BY <1>3, <1>4 DEF N!Opened

LEMMA OldFoundKeeps ==
    ASSUME Directories, NInv, NEW p \in Procs, N!OldFound(p) PROVE NInv'
<1> DEFINE i == frame[p].ino  d == frame[p].dir  t == N!Entered(p)
<1>1. at[p] = "get" /\ frame[p].op = "oldname"  BY DEF N!OldFound, N!Reached
<1>2. frame[p].old = NoIno /\ i \in Inos /\ inode[i].kind # "free" /\ i \notin Made
  BY <1>1, LocIs, FoundIs DEF Frame
<1>3. CASE IsDir(inode, i)
  <2>1. N!Return(p, N!Put(N!Entered(p), i))  BY <1>3 DEF N!OldFound, IsDir
  <2> QED  BY <1>1, <1>2, <2>1, EntersAndPuts
<1>4. CASE ~IsDir(inode, i)
  <2>1. PICK path \in Paths :
            N!Goto(p, "walk", [N!NoLoc EXCEPT !.op = "link", !.path = path,
                                              !.dir = Root, !.old = i])
    BY <1>4 DEF N!OldFound, IsDir
  <2> DEFINE l == [N!NoLoc EXCEPT !.op = "link", !.path = path, !.dir = Root, !.old = i]
  <2>2. inode' = N!Get(t, Root)  BY <1>4 DEF N!OldFound, IsDir
  <2>3. path \in Seq(EntryNames \cup N!dots) /\ path # <<>>  BY PathsAre
  <2>4. /\ l \in Frames /\ l.op = "link" /\ l.path = path /\ l.dir = Root /\ l.ino = NoIno
        /\ l.old = i
    BY <1>2, <2>3, InosIs DEF N!NoLoc, Frames
  <2>5. N!Goto(p, "walk", l)  BY <2>1
  <2> HIDE DEF l
  <2>6. Frame("walk", l)  BY <1>2, <2>3, <2>4, InosIs DEF Frame, Points
  <2>7. PICK k \in [Inos -> Nat] :
           /\ Table(t, k, Made, Pending) /\ Quietly(inode, t)
           /\ \A x \in Inos : k[x] = Held[x] + One(x = i) - One(d = x)
    BY <1>1, EntersIs
  <2> HIDE DEF t
  <2>8. t[Root].kind # "free" /\ Root \notin Made /\ Root \in Inos  BY <2>7, TableIs DEF IsDir
  <2>9. PICK j \in [Inos -> Nat] :
           /\ Table(inode', j, Made, Pending) /\ Quietly(t, inode')
           /\ \A x \in Inos : j[x] = k[x] + One(x = Root)
    BY <2>2, <2>7, <2>8, GetOne
  <2>10. Quietly(inode, inode')  BY <2>7, <2>9, QuietlyTwice
  <2>11. Place(inode', "walk", l)
    <3>1. ~IsDir(inode', i)  BY <1>2, <1>4, <2>10, QuietlyIs
    <3> QED  BY <2>4, <3>1 DEF Place
  <2>12. ASSUME NEW x \in Inos
         PROVE  j[x] = Held[x] - Share(at[p], frame[p], x) + Share("walk", l, x)
    <3>1. Share(at[p], frame[p], x) = One(d = x)  BY <1>1, <1>2, InosIs DEF Share, One
    <3>2. Share("walk", l, x) = One(x = Root) + One(x = i)  BY <2>4, InosIs DEF Share, One
    <3>3. Held[x] \in Nat /\ k[x] = Held[x] + One(x = i) - One(d = x)
          /\ j[x] = k[x] + One(x = Root)
      BY <2>7, <2>9, Holders DEF NInv
    <3>4. One(x = i) \in Nat /\ One(d = x) \in Nat /\ One(x = Root) \in Nat  BY DEF One
    <3> QED  BY <3>1, <3>2, <3>3, <3>4
  <2>13. MadeBy("walk", l) = MadeBy(at[p], frame[p])  BY <1>1 DEF MadeBy
  <2>14. \A q \in Procs \ {p} : Differ("walk", l, at[q], frame[q])  BY DEF Differ
  <2> QED  BY <1>1, <2>5, <2>6, <2>9, <2>10, <2>11, <2>12, <2>13, <2>14, GoesTo
<1> QED  BY <1>3, <1>4

LEMMA AloneIs ==
    ASSUME "lookup" \notin Races, "rmdir" \notin Races,
           NEW p \in Procs, N!Alone(p), NEW l, l.dir = frame[p].dir,
           l.path = frame[p].path
    PROVE  \A q \in Procs : Differ("add", l, at[q], frame[q])
BY DEF N!Alone, N!Adding, Differ, Nm, N!Name

LEMMA LinkSearchKeeps ==
    ASSUME Directories, "lookup" \notin Races, "rmdir" \notin Races,
           NInv, NEW p \in Procs, N!LinkSearch(p)
    PROVE  NInv'
<1> DEFINE d == frame[p].dir  l == frame[p]
<1>1. /\ at[p] = "walk" /\ IsDir(inode, d) /\ l.op = "link" /\ N!Goto(p, "add", l)
      /\ N!find_entry(d, N!Name(p)) = NoIno /\ N!Alone(p) /\ inode' = inode
  BY DEF N!LinkSearch, N!Open, IsDir
<1>2. l \in Frames /\ Frame("walk", l) /\ Place(inode, "walk", l) /\ d \in Inos  BY <1>1, LocIs
<1>3. Frame("add", l)  BY <1>1, <1>2 DEF Frame, Points
<1>4. /\ N!Name(p) \notin N!dots
      /\ \A s \in N!Slots : inode[d].ent[s].ino # NoIno => inode[d].ent[s].name # N!Name(p)
  BY <1>1, <1>2, FindIs
<1>5. Place(inode', "add", l)
  <2>1. N!Name(p) \in EntryNames /\ N!Name(p) = Nm(l)  BY <1>2, <1>4, PathIs DEF Frame
  <2> QED  BY <1>1, <1>2, <1>4, <2>1 DEF Place
<1>6. ASSUME NEW x \in Inos
      PROVE  Held[x] = Held[x] - Share(at[p], frame[p], x) + Share("add", l, x)
  <2>1. l.ino = NoIno  BY <1>2 DEF Frame
  <2>2. Share(at[p], frame[p], x) = Share("add", l, x) /\ Share("add", l, x) \in Nat
    BY <1>1, <2>1, InosIs DEF Share, One
  <2>3. Held[x] \in Nat  BY Holders DEF NInv
  <2> QED  BY <2>2, <2>3
<1>7. MadeBy("add", l) = MadeBy(at[p], frame[p])  BY <1>1, <1>2 DEF MadeBy, Frame
<1>8. \A q \in Procs \ {p} : Differ("add", l, at[q], frame[q])  BY <1>1, AloneIs
<1>9. Table(inode', Held, Made, Pending) /\ Quietly(inode, inode')  BY <1>1, QuietlyKept
<1> QED  BY <1>1, <1>3, <1>5, <1>6, <1>7, <1>8, <1>9, GoesTo

LEMMA NewIs ==
    ASSUME NEW d \in Inos, NEW op \in N!Makes, NEW r \in N!New(d, op)
    PROVE  /\ r \in Inode /\ r.kind = KindOf(op) /\ r.kind # "free" /\ r.count = 1
           /\ r.ent = N!Free.ent /\ r.nlinks = 1 + One(r.kind = "dir")
           /\ r.up = IF r.kind = "dir" THEN d ELSE NoIno
           /\ op = "mkdir" => r.kind = "dir"
<1>1. CASE op = "mkdir"
  <2>1. r = N!NewDir(d)  BY <1>1 DEF N!New
  <2> DEFINE f == N!Free
  <2>2. r = [f EXCEPT !.kind = "dir", !.nlinks = 2, !.count = 1, !.up = d] /\ f \in Inode /\ f.up = NoIno
    BY <2>1, FreeIs DEF N!NewDir
  <2>3. r.ent = f.ent  BY <2>2 DEF Inode
  <2> HIDE DEF f
  <2>4. /\ r \in Inode /\ r.kind = "dir" /\ r.count = 1 /\ r.nlinks = 2 /\ r.up = d
    BY <2>2 DEF Inode, N!Kinds
  <2>5. KindOf(op) = "dir" /\ One(r.kind = "dir") = 1  BY <1>1, <2>4 DEF KindOf, One
  <2> QED  BY <1>1, <2>3, <2>4, <2>5 DEF f
<1>2. CASE op = "symlink"
  <2>1. PICK n \in EntryNames : r = N!NewLink(n)  BY <1>2 DEF N!New
  <2> DEFINE f == N!Free
  <2>2. r = [f EXCEPT !.kind = "symlink", !.nlinks = 1, !.count = 1, !.to = n] /\ f \in Inode /\ f.up = NoIno
    BY <2>1, FreeIs DEF N!NewLink
  <2>3. r.ent = f.ent  BY <2>2 DEF Inode
  <2> HIDE DEF f
  <2>4. /\ r \in Inode /\ r.kind = "symlink" /\ r.count = 1 /\ r.nlinks = 1 /\ r.up = NoIno
    BY <2>2 DEF Inode, N!Kinds
  <2>5. KindOf(op) = "symlink" /\ One(r.kind = "dir") = 0  BY <1>2, <2>4 DEF KindOf, One
  <2> QED  BY <1>2, <2>3, <2>4, <2>5 DEF f
<1>3. CASE op \notin {"mkdir", "symlink"}
  <2>1. r = N!NewFile  BY <1>3 DEF N!New
  <2> DEFINE f == N!Free
  <2>2. r = [f EXCEPT !.kind = "file", !.nlinks = 1, !.count = 1] /\ f \in Inode /\ f.up = NoIno
    BY <2>1, FreeIs DEF N!NewFile
  <2>3. r.ent = f.ent  BY <2>2 DEF Inode
  <2> HIDE DEF f
  <2>4. /\ r \in Inode /\ r.kind = "file" /\ r.count = 1 /\ r.nlinks = 1 /\ r.up = NoIno
    BY <2>2 DEF Inode, N!Kinds
  <2>5. KindOf(op) = "file" /\ One(r.kind = "dir") = 0  BY <1>3, <2>4 DEF KindOf, One
  <2> QED  BY <1>3, <2>3, <2>4, <2>5 DEF f
<1> QED  BY <1>1, <1>2, <1>3

LEMMA NewInodeStays ==
    ASSUME Directories, "lookup" \notin Races, "rmdir" \notin Races,
           NInv, NEW p \in Procs, N!NewInode(p)
    PROVE  NInv'
<1> DEFINE d == frame[p].dir  op == frame[p].op
<1>1. /\ at[p] = "walk" /\ IsDir(inode, d) /\ op \in N!Makes
      /\ op # "symlink" => N!find_entry(d, N!Name(p)) = NoIno /\ N!Alone(p)
  BY DEF N!NewInode, N!Open, IsDir
<1>2. /\ frame[p] \in Frames /\ Frame("walk", frame[p]) /\ Place(inode, "walk", frame[p])
      /\ d \in Inos /\ d \notin Made /\ op # "link" /\ frame[p].old = NoIno
  <2>1. frame[p] \in Frames /\ Frame("walk", frame[p]) /\ Place(inode, "walk", frame[p])
      /\ d \in Inos /\ d \notin Made
    BY <1>1, LocIs, DirIs
  <2> QED  BY <1>1, <2>1 DEF Frame, N!Makes
<1>3. CASE N!Return(p, N!Put(inode, d))  BY <1>1, <1>2, <1>3, GivesUp
<1>4. ASSUME NEW i \in Inos, NEW r \in N!New(d, op), inode[i].kind = "free",
             inode' = [inode EXCEPT ![i] = r],
             N!Goto(p, IF op = "symlink" THEN "search" ELSE "add", [frame[p] EXCEPT !.ino = i])
      PROVE  NInv'
  <2> DEFINE c == IF op = "symlink" THEN "search" ELSE "add"  l == [frame[p] EXCEPT !.ino = i]
             h == [Held EXCEPT ![i] = 1]  m == Made \cup {i}
  <2>1. N!Goto(p, c, l)  BY <1>4
  <2>2. /\ l \in Frames /\ l.op = op /\ l.path = frame[p].path /\ l.dir = d /\ l.ino = i
        /\ l.old = NoIno
    BY <1>2 DEF Frames
  <2>3. /\ c \in {"search", "add"}
        /\ c = "search" => op = "symlink"
        /\ c = "add" => op # "symlink"
    OBVIOUS
  <2> HIDE DEF c, l
  <2>4. Table(inode, Held, Made, Pending)  BY QuietlyKept
  <2>5. /\ r \in Inode /\ r.kind = KindOf(op) /\ r.kind # "free" /\ r.count = 1
        /\ r.ent = N!Free.ent /\ r.nlinks = 1 + One(r.kind = "dir")
        /\ r.up = IF r.kind = "dir" THEN d ELSE NoIno
        /\ op = "mkdir" => r.kind = "dir"
    BY <1>1, <1>2, <1>4, NewIs
  <2>6. Table(inode', h, m, Pending)  BY <1>1, <1>2, <1>4, <2>4, <2>5, NewT
  <2>7. inode[i] = N!Free /\ Held[i] = 0 /\ i # d  BY <1>1, <1>4, <2>4, TableIs, FreeIs DEF IsDir
  <2>8. /\ inode'[i] = r /\ \A x \in Inos \ {i} : inode'[x] = inode[x]  BY <1>4, <2>4, TableIs
  <2>9. ASSUME NEW x \in Inos
        PROVE  /\ h[x] = Held[x] - Share(at[p], frame[p], x) + Share(c, l, x)
               /\ Pending[x] = Pending[x] - LinkedBy(at[p], frame[p], x) + LinkedBy(c, l, x)
    <3>1. Share(at[p], frame[p], x) = One(d = x)  BY <1>1, <1>2, InosIs DEF Share, One
    <3>2. Share(c, l, x) = One(d = x) + One(i = x)  BY <2>2, <2>3, InosIs DEF Share, One
    <3>3. h[x] = IF x = i THEN 1 ELSE Held[x]  BY <2>4, TableIs
    <3>4. Held[x] \in Nat /\ Pending[x] \in Nat  BY Holders DEF NInv
    <3>5. LinkedBy(at[p], frame[p], x) = 0 /\ LinkedBy(c, l, x) = 0  BY <1>1, <2>3 DEF LinkedBy, One
    <3> QED  BY <2>7, <3>1, <3>2, <3>3, <3>4, <3>5 DEF One
  <2>10. m = (Made \ MadeBy(at[p], frame[p])) \cup MadeBy(c, l)
    BY <1>1, <2>2, <2>3, InosIs DEF MadeBy
  <2>11. Frame(c, l)  BY <1>1, <1>2, <1>4, <2>2, <2>3, InosIs DEF Frame, Points
  <2>12. Same(inode, inode')  BY <1>4, <2>8 DEF Same
  <2>13. \A x \in Inos, s \in N!Slots : inode'[x].ent[s] = inode[x].ent[s]  BY <2>5, <2>7, <2>8
  <2>14. Place(inode', c, l)
    <3>1. IsDir(inode', d)  BY <1>1, <1>2, <2>7, <2>8 DEF IsDir
    <3>2. inode'[l.ino].kind = KindOf(l.op) /\ (l.op = "mkdir" => inode'[l.ino].up = l.dir)
      BY <2>2, <2>5, <2>8
    <3>3. c = "add" => /\ Nm(l) \in EntryNames
                       /\ \A s \in N!Slots : inode'[l.dir].ent[s].ino # NoIno
                                               => inode'[l.dir].ent[s].name # Nm(l)
      <4> SUFFICES ASSUME c = "add"
                   PROVE  /\ Nm(l) \in EntryNames
                          /\ \A s \in N!Slots : inode'[l.dir].ent[s].ino # NoIno
                                               => inode'[l.dir].ent[s].name # Nm(l)
        OBVIOUS
      <4>1. /\ N!Name(p) \notin N!dots
            /\ \A s \in N!Slots : inode[d].ent[s].ino # NoIno => inode[d].ent[s].name # N!Name(p)
        BY <1>1, <1>2, <2>3, FindIs
      <4>2. N!Name(p) \in EntryNames /\ N!Name(p) = Nm(l)
        <5>1. frame[p].path # <<>>  BY <1>2 DEF Frame
        <5> QED  BY <2>2, <4>1, <5>1, PathIs DEF Nm
      <4> QED  BY <1>2, <2>2, <2>13, <4>1, <4>2
    <3> QED  BY <2>2, <2>3, <3>1, <3>2, <3>3 DEF Place
  <2>15. \A q \in Procs \ {p} : Undisturbed(q)  BY <2>13, EntriesSame
  <2>16. \A q \in Procs \ {p} : Differ(c, l, at[q], frame[q])
    <3>1. CASE c = "search"  BY <3>1 DEF Differ
    <3>2. CASE c = "add"  BY <1>1, <2>2, <2>3, <3>2, AloneIs
    <3> QED  BY <2>3, <3>1, <3>2
  <2> HIDE DEF h, m
  <2> QED  BY <2>1, <2>6, <2>9, <2>10, <2>11, <2>12, <2>14, <2>15, <2>16, Stepped
<1> QED  BY <1>3, <1>4 DEF N!NewInode

\* A new inode that gets no name goes.
LEMMA Drops ==
    ASSUME Directories, NInv, NEW p \in Procs, NEW i \in Inos, i \in MadeBy(at[p], frame[p]),
           frame[p].old = NoIno,
           N!Return(p, N!Put([inode EXCEPT ![i] = N!Free], frame[p].dir))
    PROVE  NInv'
<1> DEFINE d == frame[p].dir  v == [inode EXCEPT ![i] = N!Free]  h == [Held EXCEPT ![i] = 0]
           m == Made \ {i}  u == N!Put(v, d)
<1>1. at[p] \in {"search", "add"} /\ frame[p].ino = i  BY DEF MadeBy
<1>2. i \in Made /\ d \in Inos /\ d \notin Made /\ Table(inode, Held, Made, Pending)
  BY <1>1, MakersOne, LocIs, DirIs, QuietlyKept
<1>3. Table(v, h, m, Pending)  BY <1>2, DropT
<1>4. Held[i] = 1 /\ i # Root /\ d # i /\ i \notin m /\ d \notin m /\ Pending[i] = 0
  BY <1>2, TableIs
<1>5. v[i] = N!Free /\ \A x \in Inos \ {i} : v[x] = inode[x]  BY <1>2, TableIs
<1>6. h[i] = 0 /\ \A x \in Inos \ {i} : h[x] = Held[x]  BY <1>2, TableIs
<1> HIDE DEF v, h, m
<1>7. ASSUME NEW x \in Inos
      PROVE  /\ Share(at[p], frame[p], x) = One(d = x) + One(i = x)
             /\ LinkedBy(at[p], frame[p], x) = 0 /\ Held[x] \in Nat /\ Pending[x] \in Nat
             /\ Pending[x] + One(d = x) <= h[x] /\ One(d = x) + One(x = Root) <= h[x]
  <2>1. Share(at[p], frame[p], x) = One(d = x) + One(i = x)  BY <1>1, InosIs DEF Share, One
  <2>2. /\ Share(at[p], frame[p], x) + One(x = Root) <= Held[x]
        /\ Pending[x] + Share(at[p], frame[p], x) <= Held[x] + LinkedBy(at[p], frame[p], x)
        /\ Held[x] \in Nat /\ Pending[x] \in Nat
    BY Holders DEF NInv
  <2>3. LinkedBy(at[p], frame[p], x) = 0  BY <1>1 DEF LinkedBy, One
  <2>4. CASE x = i  BY <1>4, <1>6, <2>1, <2>2, <2>3, <2>4 DEF One
  <2>5. CASE x # i
    <3>1. h[x] = Held[x] /\ One(i = x) = 0  BY <1>6, <2>5 DEF One
    <3>2. One(d = x) \in Nat /\ One(x = Root) \in Nat  BY DEF One
    <3> QED  BY <2>1, <2>2, <2>3, <3>1, <3>2
  <2> QED  BY <2>4, <2>5
<1>8. PICK k \in [Inos -> Nat] :
         /\ Table(u, k, m, Pending) /\ Quietly(v, u)
         /\ \A x \in Inos : k[x] = h[x] - One(d = x)
  BY <1>2, <1>3, <1>4, <1>7, PutOne
<1> HIDE DEF u
<1>9. ASSUME NEW x \in Inos
      PROVE  /\ k[x] = Held[x] - Share(at[p], frame[p], x)
             /\ Pending[x] = Pending[x] - LinkedBy(at[p], frame[p], x)
  <2>1. k[x] = h[x] - One(d = x)  BY <1>8
  <2>2. h[x] = Held[x] - One(i = x)  BY <1>4, <1>6, <1>7 DEF One
  <2>3. One(d = x) \in Nat /\ One(i = x) \in Nat  BY DEF One
  <2> QED  BY <1>7, <2>1, <2>2, <2>3
<1>10. m = Made \ MadeBy(at[p], frame[p])  BY <1>1, InosIs DEF MadeBy, m
<1>11. N!Return(p, u)  BY DEF u, v
<1>12. Same(inode, u)  BY <1>5, <1>8, FreeIs DEF Same, Quietly
<1>13. \A q \in Procs \ {p} : Undisturbed(q)
  <2>1. \A x \in Inos, s \in N!Slots : u[x].ent[s] = inode[x].ent[s]
    <3> SUFFICES ASSUME NEW x \in Inos, NEW s \in N!Slots PROVE u[x].ent[s] = inode[x].ent[s]
      OBVIOUS
    <3>1. u[x].ent[s] = v[x].ent[s]  BY <1>8, QuietlyIs
    <3>2. inode[i].ent[s] = N!NoEntry /\ N!Free.ent[s] = N!NoEntry  BY <1>2, TableIs, FreeIs
    <3> QED  BY <1>5, <3>1, <3>2
  <2>2. inode' = u  BY <1>11 DEF N!Return
  <2> QED  BY <2>1, <2>2, EntriesSame
<1> QED  BY <1>8, <1>9, <1>10, <1>11, <1>12, <1>13, Released

\* An inode one has made and not named has one link, and goes when it is put.
LEMMA MakerIs ==
    ASSUME Directories, NInv, NEW p \in Procs, at[p] \in {"search", "add"}, frame[p].op # "link"
    PROVE  LET i == frame[p].ino IN
           /\ i \in Inos /\ i \in MadeBy(at[p], frame[p]) /\ i \in Made /\ frame[p].old = NoIno
           /\ N!Put([inode EXCEPT ![i].nlinks = 0], i) = [inode EXCEPT ![i] = N!Free]
           /\ inode[i].kind = "symlink" => N!Unlinked(inode, i) = [inode EXCEPT ![i].nlinks = 0]
<1> DEFINE i == frame[p].ino
<1>1. i \in Inos /\ frame[p].old = NoIno  BY LocIs DEF Frame
<1>2. i \in MadeBy(at[p], frame[p]) /\ i \in Made
  <2>1. i \in MadeBy(at[p], frame[p])  BY <1>1, InosIs DEF MadeBy
  <2> QED  BY <1>1, <2>1, MakersOne
<1> HIDE DEF i
<1>3. Table(inode, Held, Made, Pending)  BY QuietlyKept
<1>4. inode[i].count = 1 /\ inode \in [Inos -> Inode] /\ Pending[i] = 0 /\ inode[i].kind # "free"
      /\ inode[i].nlinks \in Nat
  BY <1>1, <1>2, <1>3, TableIs
<1>5. N!Put([inode EXCEPT ![i].nlinks = 0], i) = [inode EXCEPT ![i] = N!Free]
  <2> DEFINE r == [inode[i] EXCEPT !.nlinks = 0]
             w == [inode EXCEPT ![i].nlinks = 0]
  <2>1. w = [inode EXCEPT ![i] = r]  OBVIOUS
  <2>2. r.nlinks = 0 /\ r.count = 1  BY <1>1, <1>4 DEF Inode
  <2> HIDE DEF r, w
  <2>3. w[i] = r  BY <1>1, <1>4, <2>1
  <2>4. N!Put(w, i) = [w EXCEPT ![i] = N!Free]  BY <1>1, <2>2, <2>3, InosIs DEF N!Put
  <2>5. [w EXCEPT ![i] = N!Free] = [inode EXCEPT ![i] = N!Free]  BY <1>1, <1>4, <2>1
  <2> QED  BY <2>4, <2>5 DEF w
<1>6. inode[i].kind = "symlink" => N!Unlinked(inode, i) = [inode EXCEPT ![i].nlinks = 0]
  <2> SUFFICES ASSUME inode[i].kind = "symlink"
               PROVE  N!Unlinked(inode, i) = [inode EXCEPT ![i].nlinks = 0]
    OBVIOUS
  <2>1. Leading(inode, i) = {} /\ inode[i].nlinks + Pending[i] = NamesOf(inode, Made, i)
    BY <1>1, <1>2, <1>3, <1>4, FreshNames DEF Table, Exact, Matches
  <2>2. NamesOf(inode, Made, i) = 1
    <3>1. ~IsDir(inode, i) /\ One(i \in Made) = 1  BY <1>2 DEF IsDir, One
    <3>2. Cardinality(Leading(inode, i)) = 0  BY <2>1, FS_EmptySet
    <3> QED  BY <3>1, <3>2 DEF NamesOf
  <2>3. inode[i].nlinks - 1 = 0  BY <1>4, <2>1, <2>2
  <2> QED  BY <2>3 DEF N!Unlinked
<1> QED  BY <1>1, <1>2, <1>5, <1>6 DEF i

LEMMA SearchKeeps ==
    ASSUME Directories, "lookup" \notin Races, "rmdir" \notin Races,
           NInv, NEW p \in Procs, N!Search(p)
    PROVE  NInv'
<1> DEFINE d == frame[p].dir  l == frame[p]  i == frame[p].ino
<1>1. at[p] = "search"  BY DEF N!Search
<1>2. l \in Frames /\ Frame("search", l) /\ Place(inode, "search", l) /\ d \in Inos  BY <1>1, LocIs
<1>3. l.op = "symlink" /\ IsDir(inode, d) /\ inode[i].kind = "symlink" /\ i # NoIno
  BY <1>2 DEF Frame, Place, KindOf
<1>4. CASE N!find_entry(d, N!Name(p)) = NoIno
  <2>1. N!Alone(p) /\ N!Goto(p, "add", l) /\ inode' = inode  BY <1>4 DEF N!Search
  <2>2. Frame("add", l)  BY <1>2, <1>3 DEF Frame, Points, N!Makes
  <2>3. /\ N!Name(p) \notin N!dots
        /\ \A s \in N!Slots : inode[d].ent[s].ino # NoIno => inode[d].ent[s].name # N!Name(p)
    BY <1>2, <1>3, <1>4, FindIs
  <2>4. Place(inode', "add", l)
    <3>1. N!Name(p) \in EntryNames /\ N!Name(p) = Nm(l)  BY <1>2, <2>3, PathIs DEF Frame
    <3> QED  BY <1>2, <2>1, <2>3, <3>1 DEF Place
  <2>5. ASSUME NEW x \in Inos
        PROVE  Held[x] = Held[x] - Share(at[p], frame[p], x) + Share("add", l, x)
    <3>1. Share(at[p], frame[p], x) = Share("add", l, x) /\ Share("add", l, x) \in Nat
      BY <1>1 DEF Share, One
    <3>2. Held[x] \in Nat  BY Holders DEF NInv
    <3> QED  BY <3>1, <3>2
  <2>6. MadeBy("add", l) = MadeBy(at[p], frame[p])  BY <1>1 DEF MadeBy
  <2>7. \A q \in Procs \ {p} : Differ("add", l, at[q], frame[q])  BY <2>1, AloneIs
  <2>8. Table(inode', Held, Made, Pending) /\ Quietly(inode, inode')  BY <2>1, QuietlyKept
  <2> QED  BY <1>1, <2>1, <2>2, <2>4, <2>5, <2>6, <2>7, <2>8, GoesTo
<1>5. CASE N!find_entry(d, N!Name(p)) # NoIno
  <2>1. N!Return(p, N!Put(N!Put(N!Unlinked(inode, i), i), d))  BY <1>5 DEF N!Search
  <2>2. /\ i \in Inos /\ i \in MadeBy(at[p], frame[p]) /\ frame[p].old = NoIno
        /\ N!Put(N!Unlinked(inode, i), i) = [inode EXCEPT ![i] = N!Free]
    BY <1>1, <1>3, MakerIs
  <2> QED  BY <2>1, <2>2, Drops
<1> QED  BY <1>4, <1>5

LEMMA NoRoomKeeps ==
    ASSUME Directories, NInv, NEW p \in Procs, N!NoRoom(p) PROVE NInv'
<1>1. at[p] = "add" /\ Frame("add", frame[p])  BY LocIs DEF N!NoRoom
<1>2. CASE frame[p].op = "link"
  <2>1. N!Return(p, N!Put(N!Put(inode, frame[p].dir), frame[p].old)) /\ frame[p].ino = NoIno
    BY <1>1, <1>2 DEF N!NoRoom, Frame
  <2> QED  BY <1>1, <2>1, Closes
<1>3. CASE frame[p].op # "link"
  <2> DEFINE i == frame[p].ino
  <2>1. N!Return(p, N!Put(N!Put([inode EXCEPT ![i].nlinks = 0], i), frame[p].dir))
    BY <1>3 DEF N!NoRoom
  <2>2. /\ i \in Inos /\ i \in MadeBy(at[p], frame[p]) /\ frame[p].old = NoIno
        /\ N!Put([inode EXCEPT ![i].nlinks = 0], i) = [inode EXCEPT ![i] = N!Free]
    BY <1>1, <1>3, MakerIs
  <2> QED  BY <2>1, <2>2, Drops
<1> QED  BY <1>2, <1>3

----------------------------------------------------------------------------
(* Adding the entry                                                        *)

LEMMA EntryIsAdded ==
    ASSUME Directories, NInv, NEW p \in Procs, at[p] = "add", N!Room(frame[p].dir) # {},
           NEW i \in Inos,
           i = IF frame[p].op = "link" THEN frame[p].old ELSE frame[p].ino
    PROVE  LET d == frame[p].dir  s == Min(N!Room(d))  u == N!Entry(p, i) IN
           /\ AddsTo(inode, u, d, s, N!Name(p), i)
           /\ u[i].nlinks = inode[i].nlinks /\ u[d].nlinks = inode[d].nlinks
<1> DEFINE d == frame[p].dir  s == Min(N!Room(d))  u == N!Entry(p, i)
           e == [name |-> N!Name(p), ino |-> i]  r == [inode[d].ent EXCEPT ![s] = e]
           w == [inode[d] EXCEPT !.ent = r]
<1>1. /\ d \in Inos /\ d \notin Made /\ IsDir(inode, d) /\ Frame("add", frame[p])
      /\ Place(inode, "add", frame[p]) /\ Table(inode, Held, Made, Pending) /\ frame[p].path # <<>>
  BY LocIs, DirIs, QuietlyKept DEF Place, Frame
<1>2. s \in N!Slots /\ inode[d].ent[s].ino = NoIno
  <2>1. N!Room(d) \subseteq Nat /\ N!Room(d) \subseteq N!Slots  BY SlotsAre DEF N!Room, N!Slots
  <2>2. s \in N!Room(d)  BY <2>1, MinIn
  <2> QED  BY <2>1, <2>2 DEF N!Room
<1>3. /\ N!Name(p) \in EntryNames
      /\ "create" \notin Races =>
            \A x \in N!Slots : inode[d].ent[x].ino # NoIno => inode[d].ent[x].name # N!Name(p)
  BY <1>1, PathIs DEF Place
<1>4. d # i /\ inode[i].kind # "free"
  <2>1. CASE frame[p].op = "link"  BY <1>1, <2>1, DirIs, InosIs DEF Place, IsDir
  <2>2. CASE frame[p].op # "link"
    <3>1. i \in Made  BY <2>2, MakerIs
    <3> QED  BY <1>1, <3>1, TableIs
  <2> QED  BY <2>1, <2>2
<1> HIDE DEF s
<1>5. u = [inode EXCEPT ![d] = w]  BY MinIs DEF N!Entry, s
<1> HIDE DEF u
<1>6. e \in N!Entries /\ e.name = N!Name(p) /\ e.ino = i  BY <1>3 DEF N!Entries
<1> HIDE DEF e
<1>7. inode \in [Inos -> Inode] /\ inode[d] \in Inode /\ inode[d].ent \in [N!Slots -> N!Entries]
  BY <1>1, TableIs DEF Inode
<1>8. r \in [N!Slots -> N!Entries] /\ r[s] = e /\ \A x \in N!Slots \ {s} : r[x] = inode[d].ent[x]
  BY <1>2, <1>6, <1>7
<1> HIDE DEF r
<1>9. /\ w \in Inode /\ w.ent = r /\ w.kind = inode[d].kind /\ w.up = inode[d].up
      /\ w.count = inode[d].count /\ w.nlinks = inode[d].nlinks
  BY <1>7, <1>8 DEF Inode
<1> HIDE DEF w
<1>10. u \in [Inos -> Inode] /\ u[d] = w /\ \A x \in Inos \ {d} : u[x] = inode[x]
  BY <1>1, <1>5, <1>7, <1>9
<1>11. AddsTo(inode, u, d, s, N!Name(p), i)
  BY <1>1, <1>2, <1>3, <1>4, <1>6, <1>8, <1>9, <1>10 DEF AddsTo
<1> QED  BY <1>4, <1>9, <1>10, <1>11 DEF u, s

\* What the others rely on stays when an entry has been added.
LEMMA AfterAdd ==
    ASSUME NInv, NEW p \in Procs, at[p] = "add", NEW v, NEW s, NEW i,
           AddsTo(inode, v, frame[p].dir, s, N!Name(p), i), Quietly(v, inode')
    PROVE  Same(inode, inode') /\ \A q \in Procs \ {p} : Undisturbed(q)
<1> DEFINE d == frame[p].dir
<1>1. /\ d \in Inos /\ s \in N!Slots /\ inode[d].ent[s].ino = NoIno /\ v[d].ent[s].name = N!Name(p)
      /\ \A x \in Inos, r \in N!Slots : <<x, r>> # <<d, s>> => v[x].ent[r] = inode[x].ent[r]
      /\ \A x \in Inos : v[x].kind = inode[x].kind /\ v[x].up = inode[x].up
  BY DEF AddsTo
<1>2. /\ inode'[d].ent[s].name = N!Name(p)
      /\ \A x \in Inos, r \in N!Slots : <<x, r>> # <<d, s>> => inode'[x].ent[r] = inode[x].ent[r]
  BY <1>1, QuietlyIs
<1>3. Same(inode, inode')  BY <1>1, QuietlyIs DEF Same
<1>4. ASSUME NEW q \in Procs \ {p} PROVE Undisturbed(q)
  <2>1. at[q] = "add" /\ frame[q].dir = d /\ "create" \notin Races => Nm(frame[q]) # N!Name(p)
    <3>1. Differ(at[p], frame[p], at[q], frame[q])  BY DEF NInv
    <3> QED  BY <3>1 DEF Differ, Nm, N!Name
  <2> QED  BY <1>1, <1>2, <2>1, EntryAdded
<1> QED  BY <1>3, <1>4

\* What p holds when it adds an entry for i.
LEMMA AdderIs ==
    ASSUME Directories, NInv, NEW p \in Procs, at[p] = "add", N!Room(frame[p].dir) # {}
    PROVE  LET d == frame[p].dir
               i == IF frame[p].op = "link" THEN frame[p].old ELSE frame[p].ino IN
           /\ d \in Inos /\ i \in Inos /\ d # i /\ d \notin Made
           /\ Table(inode, Held, Made, Pending)
           /\ \A x \in Inos : /\ Share(at[p], frame[p], x) = One(d = x) + One(i = x)
                              /\ LinkedBy(at[p], frame[p], x) = 0
                              /\ Pending[x] + One(d = x) + One(i = x) <= Held[x]
                              /\ One(d = x) + One(i = x) + One(x = Root) <= Held[x]
                              /\ Held[x] \in Nat /\ Pending[x] \in Nat
           /\ frame[p].op # "link" => MadeBy(at[p], frame[p]) = {i} /\ i \in Made
           /\ frame[p].op = "link" => MadeBy(at[p], frame[p]) = {} /\ i \notin Made /\ ~IsDir(inode, i)
<1> DEFINE d == frame[p].dir
           i == IF frame[p].op = "link" THEN frame[p].old ELSE frame[p].ino
<1>1. /\ d \in Inos /\ d \notin Made /\ Frame("add", frame[p])
      /\ Place(inode, "add", frame[p]) /\ Table(inode, Held, Made, Pending)
      /\ frame[p].old \notin Made
      /\ frame[p].ino \in Inos \cup {NoIno} /\ frame[p].old \in Inos \cup {NoIno}
  BY LocIs, DirIs, QuietlyKept
<1>2. /\ i \in Inos
      /\ frame[p].op # "link" => frame[p].old = NoIno /\ frame[p].ino = i
      /\ frame[p].op = "link" => frame[p].ino = NoIno /\ frame[p].old = i
  BY <1>1 DEF Frame
<1>3. /\ frame[p].op # "link" => MadeBy(at[p], frame[p]) = {i} /\ i \in Made
      /\ frame[p].op = "link" => MadeBy(at[p], frame[p]) = {} /\ i \notin Made /\ ~IsDir(inode, i)
  <2>1. frame[p].op # "link" => MadeBy(at[p], frame[p]) = {i}  BY <1>2, InosIs DEF MadeBy
  <2>2. frame[p].op # "link" => i \in Made  BY <1>2, MakerIs
  <2>3. frame[p].op = "link" => MadeBy(at[p], frame[p]) = {} /\ i \notin Made /\ ~IsDir(inode, i)
    BY <1>1, <1>2, InosIs DEF MadeBy, Place
  <2> QED  BY <2>1, <2>2, <2>3
<1>4. d # i
  <2>1. IsDir(inode, d)  BY <1>1 DEF Place
  <2> QED  BY <1>1, <1>3, <2>1
<1> HIDE DEF d, i
<1>5. ASSUME NEW x \in Inos
      PROVE  /\ Share(at[p], frame[p], x) = One(d = x) + One(i = x)
             /\ LinkedBy(at[p], frame[p], x) = 0
             /\ Pending[x] + One(d = x) + One(i = x) <= Held[x]
             /\ One(d = x) + One(i = x) + One(x = Root) <= Held[x]
             /\ Held[x] \in Nat /\ Pending[x] \in Nat
  <2>1. Share(at[p], frame[p], x) = One(d = x) + One(i = x)
    <3>1. Share(at[p], frame[p], x) = One(d = x) + One(frame[p].ino = x) + One(frame[p].old = x)
      BY ShareIs DEF d
    <3>2. CASE frame[p].op = "link"  BY <1>2, <3>1, <3>2, InosIs DEF One
    <3>3. CASE frame[p].op # "link"  BY <1>2, <3>1, <3>3, InosIs DEF One
    <3> QED  BY <3>2, <3>3
  <2>2. /\ Share(at[p], frame[p], x) + One(x = Root) <= Held[x]
        /\ Pending[x] + Share(at[p], frame[p], x) <= Held[x] + LinkedBy(at[p], frame[p], x)
        /\ Held[x] \in Nat /\ Pending[x] \in Nat
    BY Holders DEF NInv
  <2>3. LinkedBy(at[p], frame[p], x) = 0  BY DEF LinkedBy, One
  <2>4. One(d = x) \in Nat /\ One(i = x) \in Nat /\ One(x = Root) \in Nat  BY DEF One
  <2> QED  BY <2>1, <2>2, <2>3, <2>4
<1> QED  BY <1>1, <1>2, <1>3, <1>4, <1>5 DEF d, i

LEMMA CreatedKeeps ==
    ASSUME Directories, NInv, NEW p \in Procs, N!Created(p) PROVE NInv'
<1> DEFINE d == frame[p].dir  i == frame[p].ino  s == Min(N!Room(d))  v == N!Entry(p, i)
           m == Made \ {i}  l == [N!NoLoc EXCEPT !.ino = i]
<1>1. /\ at[p] = "add" /\ N!Room(d) # {} /\ frame[p].op = "creat"
      /\ inode' = N!Put(v, d) /\ N!Goto(p, "held", l)
  BY DEF N!Created, N!Adds
<1>2. /\ d \in Inos /\ i \in Inos /\ d # i /\ d \notin Made
      /\ Table(inode, Held, Made, Pending) /\ MadeBy(at[p], frame[p]) = {i} /\ i \in Made
  BY <1>1, AdderIs
<1>3. ASSUME NEW x \in Inos
      PROVE  /\ Share(at[p], frame[p], x) = One(d = x) + One(i = x)
             /\ LinkedBy(at[p], frame[p], x) = 0
             /\ Pending[x] + One(d = x) + One(i = x) <= Held[x]
             /\ One(d = x) + One(i = x) + One(x = Root) <= Held[x]
             /\ Held[x] \in Nat /\ Pending[x] \in Nat
  BY <1>1, AdderIs
<1>4. /\ AddsTo(inode, v, d, s, N!Name(p), i)
      /\ v[i].nlinks = inode[i].nlinks /\ v[d].nlinks = inode[d].nlinks
  BY <1>1, <1>2, EntryIsAdded
<1>5. inode[i].kind = "file"
  <2>1. Place(inode, "add", frame[p])  BY <1>1, LocIs
  <2> QED  BY <1>1, <2>1 DEF Place, KindOf
<1> HIDE DEF v, s
<1>6. Table(v, Held, m, Pending)
  <2>1. ~IsDir(inode, i) /\ One(IsDir(inode, i)) = 0  BY <1>5 DEF IsDir, One
  <2>2. v[d].nlinks = inode[d].nlinks + One(IsDir(inode, i))  BY <1>2, <1>4, <2>1, TableIs
  <2> QED  BY <1>2, <1>4, <2>1, <2>2, NameT
<1>7. \A x \in Inos : Pending[x] + One(d = x) <= Held[x] /\ One(d = x) + One(x = Root) <= Held[x]
  <2> SUFFICES ASSUME NEW x \in Inos
               PROVE  Pending[x] + One(d = x) <= Held[x] /\ One(d = x) + One(x = Root) <= Held[x]
    OBVIOUS
  <2>1. One(i = x) \in Nat /\ One(d = x) \in Nat /\ One(x = Root) \in Nat  BY DEF One
  <2> QED  BY <1>3, <2>1
<1>8. PICK k \in [Inos -> Nat] :
         /\ Table(inode', k, m, Pending) /\ Quietly(v, inode')
         /\ \A x \in Inos : k[x] = Held[x] - One(d = x)
  BY <1>1, <1>2, <1>6, <1>7, PutOne
<1>9. Same(inode, inode') /\ \A q \in Procs \ {p} : Undisturbed(q)  BY <1>1, <1>4, <1>8, AfterAdd
<1>10. /\ l \in Frames /\ l.op = "none" /\ l.dir = NoIno
       /\ l.ino = i /\ l.old = NoIno
  BY <1>2, NoLocIs DEF Frames
<1> HIDE DEF l
<1>11. Frame("held", l) /\ Place(inode', "held", l)
       /\ \A q \in Procs \ {p} : Differ("held", l, at[q], frame[q])
  BY <1>2, <1>10, InosIs DEF Frame, Place, Differ, Points
<1>12. ASSUME NEW x \in Inos
       PROVE  /\ k[x] = Held[x] - Share(at[p], frame[p], x) + Share("held", l, x)
              /\ Pending[x] = Pending[x] - LinkedBy(at[p], frame[p], x) + LinkedBy("held", l, x)
  <2>1. Share("held", l, x) = One(i = x) /\ LinkedBy("held", l, x) = 0
    BY <1>10, InosIs DEF Share, LinkedBy, One
  <2>2. k[x] = Held[x] - One(d = x) /\ One(i = x) \in Nat /\ One(d = x) \in Nat  BY <1>8 DEF One
  <2> QED  BY <1>3, <2>1, <2>2
<1>13. m = (Made \ MadeBy(at[p], frame[p])) \cup MadeBy("held", l)  BY <1>2 DEF MadeBy
<1> HIDE DEF m
<1> QED  BY <1>1, <1>8, <1>9, <1>11, <1>12, <1>13, Stepped

\* The new inode has its name: it is put, and the directory.
LEMMA NamedPuts ==
    ASSUME Directories, NInv, NEW p \in Procs, at[p] = "add", N!Room(frame[p].dir) # {},
           frame[p].op # "link",
           NEW v, NEW s, AddsTo(inode, v, frame[p].dir, s, N!Name(p), frame[p].ino),
           v[frame[p].ino].nlinks = inode[frame[p].ino].nlinks,
           v[frame[p].dir].nlinks = inode[frame[p].dir].nlinks + One(IsDir(inode, frame[p].ino)),
           N!Return(p, N!Put(N!Put(v, frame[p].dir), frame[p].ino))
    PROVE  NInv'
<1> DEFINE d == frame[p].dir  i == frame[p].ino  m == Made \ {i}  u == N!Put(N!Put(v, d), i)
<1>1. /\ d \in Inos /\ i \in Inos /\ d # i /\ d \notin Made
      /\ Table(inode, Held, Made, Pending) /\ MadeBy(at[p], frame[p]) = {i} /\ i \in Made
  BY AdderIs
<1>2. ASSUME NEW x \in Inos
      PROVE  /\ Share(at[p], frame[p], x) = One(d = x) + One(i = x)
             /\ LinkedBy(at[p], frame[p], x) = 0
             /\ Pending[x] + One(d = x) + One(i = x) <= Held[x]
             /\ One(d = x) + One(i = x) + One(x = Root) <= Held[x]
             /\ Held[x] \in Nat /\ Pending[x] \in Nat
  BY AdderIs
<1>3. IsDir(inode, i) => inode[i].up = d
  <2>1. Place(inode, "add", frame[p])  BY LocIs
  <2>2. inode[i].kind = KindOf(frame[p].op) /\ (frame[p].op = "mkdir" => inode[i].up = d)
    BY <2>1 DEF Place
  <2>3. KindOf(frame[p].op) = "dir" => frame[p].op = "mkdir"  BY DEF KindOf
  <2> QED  BY <2>2, <2>3 DEF IsDir
<1>4. Table(v, Held, m, Pending)  BY <1>1, <1>3, NameT
<1>10. d \notin m /\ i \notin m  BY <1>1
<1>11. \A x \in Inos : /\ Pending[x] + One(d = x) + One(i = x) <= Held[x]
                       /\ One(d = x) + One(i = x) + One(x = Root) <= Held[x]
  BY <1>2
<1>13. d \in Inos \cup {NoIno} /\ i \in Inos \cup {NoIno}  BY <1>1
<1> HIDE DEF m, d, i
<1>12. \E k \in [Inos -> Nat] :
         /\ Table(N!Put(N!Put(v, d), i), k, m, Pending) /\ Quietly(v, N!Put(N!Put(v, d), i))
         /\ \A x \in Inos : k[x] = Held[x] - One(d = x) - One(i = x)
  BY <1>4, <1>10, <1>11, <1>13, PutBoth
<1>5. PICK k \in [Inos -> Nat] :
         /\ Table(u, k, m, Pending) /\ Quietly(v, u)
         /\ \A x \in Inos : k[x] = Held[x] - One(d = x) - One(i = x)
  BY <1>12
<1> HIDE DEF u
<1>6. inode' = u /\ N!Return(p, u)  BY DEF u, N!Return, d, i
<1>7. Same(inode, u) /\ \A q \in Procs \ {p} : Undisturbed(q)  BY <1>5, <1>6, AfterAdd DEF d, i
<1>8. ASSUME NEW x \in Inos
      PROVE  /\ k[x] = Held[x] - Share(at[p], frame[p], x)
             /\ Pending[x] = Pending[x] - LinkedBy(at[p], frame[p], x)
  <2>1. k[x] = Held[x] - One(d = x) - One(i = x) /\ One(i = x) \in Nat /\ One(d = x) \in Nat
    BY <1>5 DEF One
  <2> QED  BY <1>2, <2>1
<1>9. m = Made \ MadeBy(at[p], frame[p])  BY <1>1 DEF m
<1> QED  BY <1>5, <1>6, <1>7, <1>8, <1>9, Released

LEMMA AddedKeeps ==
    ASSUME Directories, NInv, NEW p \in Procs, N!Added(p) PROVE NInv'
<1> DEFINE d == frame[p].dir  i == frame[p].ino  v == N!Entry(p, i)  s == Min(N!Room(d))
<1>1. /\ at[p] = "add" /\ N!Room(d) # {} /\ frame[p].op \in {"mknod", "symlink"}
      /\ N!Return(p, N!Put(N!Put(v, d), i))
  BY DEF N!Added, N!Adds
<1>2. d \in Inos /\ i \in Inos /\ Table(inode, Held, Made, Pending)  BY <1>1, AdderIs
<1>3. /\ AddsTo(inode, v, d, s, N!Name(p), i)
      /\ v[i].nlinks = inode[i].nlinks /\ v[d].nlinks = inode[d].nlinks
  BY <1>1, <1>2, EntryIsAdded
<1>4. Place(inode, "add", frame[p])  BY <1>1, LocIs
<1>5. One(IsDir(inode, i)) = 0  BY <1>1, <1>4 DEF Place, KindOf, IsDir, One
<1> HIDE DEF v, s
<1>6. v[d].nlinks = inode[d].nlinks + One(IsDir(inode, i))  BY <1>2, <1>3, <1>5, TableIs
<1> QED  BY <1>1, <1>3, <1>6, NamedPuts

LEMMA DirAddedKeeps ==
    ASSUME Directories, NInv, NEW p \in Procs, N!DirAdded(p) PROVE NInv'
<1> DEFINE d == frame[p].dir  i == frame[p].ino  v == N!Entry(p, i)  s == Min(N!Room(d))
           w == [v EXCEPT ![d].nlinks = @ + 1]
<1>1. /\ at[p] = "add" /\ N!Room(d) # {} /\ frame[p].op = "mkdir"
      /\ N!Return(p, N!Put(N!Put(w, d), i))
  BY DEF N!DirAdded, N!Adds
<1>2. d \in Inos /\ i \in Inos /\ d # i /\ Table(inode, Held, Made, Pending)  BY <1>1, AdderIs
<1>3. /\ AddsTo(inode, v, d, s, N!Name(p), i)
      /\ v[i].nlinks = inode[i].nlinks /\ v[d].nlinks = inode[d].nlinks
  BY <1>1, <1>2, EntryIsAdded
<1>4. Place(inode, "add", frame[p])  BY <1>1, LocIs
<1>5. One(IsDir(inode, i)) = 1  BY <1>1, <1>4 DEF Place, KindOf, IsDir, One
<1> HIDE DEF v, s
<1> DEFINE r == [v[d] EXCEPT !.nlinks = v[d].nlinks + 1]
<1>6. v \in [Inos -> Inode] /\ v[d] \in Inode /\ v[d].nlinks \in Nat
  <2>1. v \in [Inos -> Inode] /\ v[d] \in Inode  BY <1>2, <1>3 DEF AddsTo
  <2> QED  BY <1>2, <1>3, <2>1, TableIs
<1>7. /\ r \in Inode /\ r.nlinks = v[d].nlinks + 1 /\ r.ent = v[d].ent /\ r.kind = v[d].kind
      /\ r.up = v[d].up /\ r.count = v[d].count
  BY <1>6 DEF Inode
<1>8. w = [v EXCEPT ![d] = r]  OBVIOUS
<1> HIDE DEF r, w
<1>9. w \in [Inos -> Inode] /\ w[d] = r /\ \A x \in Inos \ {d} : w[x] = v[x]
  BY <1>2, <1>6, <1>7, <1>8
<1>10. AddsTo(inode, w, d, s, N!Name(p), i)  BY <1>2, <1>3, <1>7, <1>9 DEF AddsTo
<1>11. w[i].nlinks = inode[i].nlinks /\ w[d].nlinks = inode[d].nlinks + One(IsDir(inode, i))
  BY <1>2, <1>3, <1>5, <1>7, <1>9
<1> QED  BY <1>1, <1>10, <1>11, NamedPuts DEF w

LEMMA LinkAddedKeeps ==
    ASSUME Directories, NInv, NEW p \in Procs, N!LinkAdded(p) PROVE NInv'
<1> DEFINE d == frame[p].dir  i == frame[p].old  s == Min(N!Room(d))  v == N!Entry(p, i)
           n == [Pending EXCEPT ![i] = @ + 1]  l == [N!NoLoc EXCEPT !.old = i]
<1>1. /\ at[p] = "add" /\ N!Room(d) # {} /\ frame[p].op = "link"
      /\ inode' = N!Put(v, d) /\ N!Goto(p, "linked", l)
  BY DEF N!LinkAdded, N!Adds
<1>2. /\ d \in Inos /\ i \in Inos /\ d # i /\ d \notin Made
      /\ Table(inode, Held, Made, Pending) /\ MadeBy(at[p], frame[p]) = {} /\ i \notin Made
      /\ ~IsDir(inode, i)
  BY <1>1, AdderIs
<1>3. ASSUME NEW x \in Inos
      PROVE  /\ Share(at[p], frame[p], x) = One(d = x) + One(i = x)
             /\ LinkedBy(at[p], frame[p], x) = 0
             /\ Pending[x] + One(d = x) + One(i = x) <= Held[x]
             /\ One(d = x) + One(i = x) + One(x = Root) <= Held[x]
             /\ Held[x] \in Nat /\ Pending[x] \in Nat
  BY <1>1, AdderIs
<1>4. /\ AddsTo(inode, v, d, s, N!Name(p), i)
      /\ v[i].nlinks = inode[i].nlinks /\ v[d].nlinks = inode[d].nlinks
  BY <1>1, <1>2, EntryIsAdded
<1> HIDE DEF v, s
<1>5. Pending[i] < Held[i]
  <2>1. Pending[i] + One(d = i) + One(i = i) <= Held[i] /\ Held[i] \in Nat /\ Pending[i] \in Nat
    BY <1>2, <1>3
  <2>2. One(d = i) = 0 /\ One(i = i) = 1  BY <1>2 DEF One
  <2> QED  BY <2>1, <2>2
<1>6. Table(v, Held, Made, n)  BY <1>2, <1>4, <1>5, LinkT
<1>7. \A x \in Inos : n[x] = Pending[x] + One(i = x)  BY <1>2, <1>3, TableIs DEF One
<1>8. \A x \in Inos : n[x] + One(d = x) <= Held[x] /\ One(d = x) + One(x = Root) <= Held[x]
  <2> SUFFICES ASSUME NEW x \in Inos
               PROVE  n[x] + One(d = x) <= Held[x] /\ One(d = x) + One(x = Root) <= Held[x]
    OBVIOUS
  <2>1. One(i = x) \in Nat /\ One(d = x) \in Nat /\ One(x = Root) \in Nat
        /\ n[x] = Pending[x] + One(i = x)
    BY <1>7 DEF One
  <2> HIDE DEF n
  <2> QED  BY <1>3, <2>1
<1> HIDE DEF n
<1>9. PICK k \in [Inos -> Nat] :
         /\ Table(inode', k, Made, n) /\ Quietly(v, inode')
         /\ \A x \in Inos : k[x] = Held[x] - One(d = x)
  BY <1>1, <1>2, <1>6, <1>8, PutOne
<1>10. Same(inode, inode') /\ \A q \in Procs \ {p} : Undisturbed(q)  BY <1>1, <1>4, <1>9, AfterAdd
<1>11. /\ l \in Frames /\ l.op = "none" /\ l.dir = NoIno
       /\ l.ino = NoIno /\ l.old = i
  BY <1>2, NoLocIs DEF Frames
<1> HIDE DEF l
<1>12. ~IsDir(inode', i)
  <2>1. v[i].kind = inode[i].kind  BY <1>4 DEF AddsTo
  <2> QED  BY <1>2, <1>9, <2>1, QuietlyIs DEF IsDir
<1>13. Frame("linked", l) /\ Place(inode', "linked", l)
       /\ \A q \in Procs \ {p} : Differ("linked", l, at[q], frame[q])
  BY <1>2, <1>11, <1>12, InosIs DEF Frame, Place, Differ, Points
<1>14. ASSUME NEW x \in Inos
       PROVE  /\ k[x] = Held[x] - Share(at[p], frame[p], x) + Share("linked", l, x)
              /\ n[x] = Pending[x] - LinkedBy(at[p], frame[p], x) + LinkedBy("linked", l, x)
  <2>1. Share("linked", l, x) = One(i = x) /\ LinkedBy("linked", l, x) = One(i = x)
    BY <1>11, InosIs DEF Share, LinkedBy, One
  <2>2. k[x] = Held[x] - One(d = x) /\ One(i = x) \in Nat /\ One(d = x) \in Nat
        /\ n[x] = Pending[x] + One(i = x)
    BY <1>7, <1>9 DEF One
  <2> QED  BY <1>3, <2>1, <2>2
<1>15. Made = (Made \ MadeBy(at[p], frame[p])) \cup MadeBy("linked", l)  BY <1>2 DEF MadeBy
<1> QED  BY <1>1, <1>9, <1>10, <1>13, <1>14, <1>15, Stepped

LEMMA LinkedKeeps ==
    ASSUME Directories, NInv, NEW p \in Procs, N!Linked(p) PROVE NInv'
<1> DEFINE i == frame[p].old  r == [inode[i] EXCEPT !.nlinks = inode[i].nlinks + 1]
           v == [inode EXCEPT ![i].nlinks = @ + 1]  n == [Pending EXCEPT ![i] = @ - 1]
           u == N!Put(v, i)
<1>1. at[p] = "linked" /\ N!Return(p, u)  BY DEF N!Linked
<1>2. /\ i \in Inos /\ i \notin Made /\ frame[p].dir = NoIno /\ frame[p].ino = NoIno
      /\ Table(inode, Held, Made, Pending)
  BY <1>1, LocIs, DirIs, QuietlyKept DEF Frame
<1>3. Pending[i] > 0
  <2>1. p \in N!Linking(i) /\ N!Linking(i) \subseteq Procs  BY <1>1 DEF N!Linking
  <2>2. Cardinality(N!Linking(i)) # 0 /\ Cardinality(N!Linking(i)) \in Nat
    BY <2>1, ProcsAssumption, FS_Subset, FS_EmptySet, FS_CardinalityType
  <2> QED  BY <1>2, <2>2, HoldingIs
<1>4. ASSUME NEW x \in Inos
      PROVE  /\ Share(at[p], frame[p], x) = One(i = x) /\ LinkedBy(at[p], frame[p], x) = One(i = x)
             /\ One(i = x) + One(x = Root) <= Held[x] /\ Pending[x] <= Held[x]
             /\ Held[x] \in Nat /\ Pending[x] \in Nat
  <2>1. Share(at[p], frame[p], x) = One(i = x) /\ LinkedBy(at[p], frame[p], x) = One(i = x)
    BY <1>1, <1>2, InosIs DEF Share, LinkedBy, One
  <2>2. Share(at[p], frame[p], x) + One(x = Root) <= Held[x] /\ Pending[x] <= Held[x]
        /\ Held[x] \in Nat /\ Pending[x] \in Nat
    BY <1>2, Holders, TableIs DEF NInv
  <2> QED  BY <2>1, <2>2
<1>5. inode[i] \in Inode /\ inode[i].nlinks \in Nat /\ inode \in [Inos -> Inode]  BY <1>2, TableIs
<1>6. /\ r \in Inode /\ r.nlinks = inode[i].nlinks + 1 /\ r.ent = inode[i].ent
      /\ r.kind = inode[i].kind /\ r.up = inode[i].up /\ r.count = inode[i].count
  BY <1>5 DEF Inode
<1>7. v = [inode EXCEPT ![i] = r]  OBVIOUS
<1> HIDE DEF r, v
<1>8. v \in [Inos -> Inode] /\ v[i] = r /\ \A x \in Inos \ {i} : v[x] = inode[x]
  BY <1>2, <1>5, <1>6, <1>7
<1>9. Table(v, Held, Made, n)  BY <1>2, <1>3, <1>6, <1>8, CountT
<1>10. \A x \in Inos : n[x] = Pending[x] - One(i = x)  BY <1>2, <1>4, TableIs DEF One
<1> HIDE DEF n, u
<1>11. \A x \in Inos : n[x] + One(i = x) <= Held[x] /\ One(i = x) + One(x = Root) <= Held[x]
  <2> SUFFICES ASSUME NEW x \in Inos
               PROVE  n[x] + One(i = x) <= Held[x] /\ One(i = x) + One(x = Root) <= Held[x]
    OBVIOUS
  <2>1. One(i = x) \in Nat /\ n[x] = Pending[x] - One(i = x)  BY <1>10 DEF One
  <2> QED  BY <1>4, <2>1
<1>12. \E k \in [Inos -> Nat] :
         /\ Table(N!Put(v, i), k, Made, n) /\ Quietly(v, N!Put(v, i))
         /\ \A x \in Inos : k[x] = Held[x] - One(i = x)
  BY <1>2, <1>9, <1>11, PutOne
<1>13. PICK k \in [Inos -> Nat] :
         /\ Table(u, k, Made, n) /\ Quietly(v, u)
         /\ \A x \in Inos : k[x] = Held[x] - One(i = x)
  BY <1>12 DEF u
<1>14. Quietly(inode, u) /\ inode' = u
  <2>1. Quietly(inode, v)  BY <1>6, <1>8 DEF Quietly
  <2> QED  BY <1>1, <1>13, <2>1, QuietlyTwice DEF N!Return
<1>15. Same(inode, u) /\ \A q \in Procs \ {p} : Undisturbed(q)  BY <1>14, QuietlyIs, EntriesSame
<1>16. ASSUME NEW x \in Inos
       PROVE  /\ k[x] = Held[x] - Share(at[p], frame[p], x)
              /\ n[x] = Pending[x] - LinkedBy(at[p], frame[p], x)
  BY <1>4, <1>10, <1>13
<1>17. Made = Made \ MadeBy(at[p], frame[p])  BY <1>1 DEF MadeBy
<1> QED  BY <1>1, <1>13, <1>15, <1>16, <1>17, Released

----------------------------------------------------------------------------
(* Removing a name                                                         *)

LEMMA FindKeeps ==
    ASSUME Directories, "lookup" \notin Races, "rmdir" \notin Races,
           NInv, NEW p \in Procs, N!Find(p)
    PROVE  NInv'
<1> DEFINE d == frame[p].dir  i == N!find_entry(d, N!Name(p))  s == Min(N!Places(d, N!Name(p)))
           l == [frame[p] EXCEPT !.ino = i, !.slot = s]
<1>1. at[p] = "walk" /\ IsDir(inode, d) /\ frame[p].op \in {"unlink", "rmdir"}
  BY DEF N!Find, N!Open, IsDir
<1>2. CASE i = NoIno
  <2>1. N!Return(p, N!Put(inode, d))  BY <1>2 DEF N!Find
  <2> QED  BY <1>1, <2>1, GivesUp
<1>3. CASE i # NoIno
  <2>1. N!Clearing(d, s) = {} /\ N!Goto(p, "remove", l) /\ inode' = inode  BY <1>3, MinIs DEF N!Find
  <2>2. /\ frame[p] \in Frames /\ Frame(at[p], frame[p]) /\ Place(inode, at[p], frame[p])
        /\ d \in Inos /\ d \notin Made
    BY <1>1, LocIs, DirIs
  <2>3. /\ s \in N!Slots \cup {0}
        /\ IF s = 0 THEN i \in {d, inode[d].up} ELSE inode[d].ent[s].ino = i
    BY <1>1, <1>3, <2>2, FindIs
  <2> HIDE DEF i, s
  <2>4. i \in Inos  BY <1>1, <1>3, <2>2, <2>3, ReachIs
  <2>5. /\ l \in Frames /\ l.op = frame[p].op /\ l.path = frame[p].path /\ l.dir = d /\ l.ino = i
        /\ l.old = frame[p].old /\ l.slot = s
    BY <2>2, <2>3, <2>4 DEF Frames
  <2> HIDE DEF l
  <2>6. Frame("remove", l)  BY <1>1, <2>2, <2>4, <2>5, InosIs DEF Frame, Points
  <2>7. Place(inode', "remove", l)  BY <1>1, <2>1, <2>2, <2>3, <2>5 DEF Place
  <2>8. ASSUME NEW x \in Inos
        PROVE  Held[x] = Held[x] - Share(at[p], frame[p], x) + Share("remove", l, x)
    <3>1. Share(at[p], frame[p], x) = Share("remove", l, x) /\ Share("remove", l, x) \in Nat
      BY <1>1, <2>5 DEF Share, One
    <3>2. Held[x] \in Nat  BY Holders DEF NInv
    <3> QED  BY <3>1, <3>2
  <2>9. MadeBy("remove", l) = MadeBy(at[p], frame[p])  BY <1>1 DEF MadeBy
  <2>10. \A q \in Procs \ {p} : Differ("remove", l, at[q], frame[q])
    BY <2>1, <2>5 DEF Differ, N!Clearing
  <2>11. Table(inode', Held, Made, Pending) /\ Quietly(inode, inode')  BY <2>1, QuietlyKept
  <2> QED  BY <1>1, <2>1, <2>6, <2>7, <2>8, <2>9, <2>10, <2>11, GoesTo
<1> QED  BY <1>2, <1>3

\* The inode of the entry, got by who is about to remove it.
LEMMA RemoverIs ==
    ASSUME Directories, NInv, NEW p \in Procs, at[p] = "remove"
    PROVE  LET i == frame[p].ino  d == frame[p].dir  t == N!Get(inode, i) IN
           /\ i \in Inos /\ d \in Inos /\ i \notin Made /\ d \notin Made /\ IsDir(inode, d)
           /\ Table(inode, Held, Made, Pending)
           /\ \A x \in Inos : /\ Share(at[p], frame[p], x) = One(d = x)
                              /\ LinkedBy(at[p], frame[p], x) = 0
                              /\ Pending[x] + One(d = x) <= Held[x]
                              /\ One(d = x) + One(x = Root) <= Held[x]
                              /\ Held[x] \in Nat /\ Pending[x] \in Nat
           /\ \E k \in [Inos -> Nat] :
                 /\ Table(t, k, Made, Pending) /\ Quietly(inode, t)
                 /\ \A x \in Inos : k[x] = Held[x] + One(x = i)
<1> DEFINE i == frame[p].ino  d == frame[p].dir
<1>1. /\ i \in Inos /\ d \in Inos /\ i \notin Made /\ d \notin Made /\ IsDir(inode, d)
      /\ Table(inode, Held, Made, Pending) /\ inode[i].kind # "free" /\ frame[p].old = NoIno
  BY LocIs, DirIs, FoundIs, QuietlyKept DEF Place, Frame
<1>2. \E k \in [Inos -> Nat] :
                 /\ Table(N!Get(inode, i), k, Made, Pending) /\ Quietly(inode, N!Get(inode, i))
                 /\ \A x \in Inos : k[x] = Held[x] + One(x = i)
  BY <1>1, GetOne
<1>3. ASSUME NEW x \in Inos
      PROVE  /\ Share(at[p], frame[p], x) = One(d = x)
             /\ LinkedBy(at[p], frame[p], x) = 0
             /\ Pending[x] + One(d = x) <= Held[x]
             /\ One(d = x) + One(x = Root) <= Held[x]
             /\ Held[x] \in Nat /\ Pending[x] \in Nat
  <2>1. Share(at[p], frame[p], x) = One(d = x)  BY <1>1, InosIs DEF Share, One
  <2>2. /\ Share(at[p], frame[p], x) + One(x = Root) <= Held[x]
        /\ Pending[x] + Share(at[p], frame[p], x) <= Held[x] + LinkedBy(at[p], frame[p], x)
        /\ Held[x] \in Nat /\ Pending[x] \in Nat
    BY Holders DEF NInv
  <2>3. LinkedBy(at[p], frame[p], x) = 0  BY DEF LinkedBy, One
  <2>4. One(d = x) \in Nat  BY DEF One
  <2> QED  BY <2>1, <2>2, <2>3, <2>4
<1> QED  BY <1>1, <1>2, <1>3

\* Both are put, after what was done to the table with the inode in it.
LEMMA RemoverPuts ==
    ASSUME Directories, NInv, NEW p \in Procs, at[p] = "remove", NEW t, NEW k,
           Table(t, k, Made, Pending), \A x \in Inos : k[x] = Held[x] + One(x = frame[p].ino),
           Same(inode, t),
           N!Return(p, N!Put(N!Put(t, frame[p].ino), frame[p].dir)),
           Quietly(t, inode') => \A q \in Procs \ {p} : Undisturbed(q)
    PROVE  NInv'
<1> DEFINE i == frame[p].ino  d == frame[p].dir  u == N!Put(N!Put(t, i), d)
<1>1. /\ i \in Inos \cup {NoIno} /\ d \in Inos \cup {NoIno} /\ i \notin Made /\ d \notin Made
  BY RemoverIs
<1>2. ASSUME NEW x \in Inos
      PROVE  /\ Share(at[p], frame[p], x) = One(d = x)
             /\ LinkedBy(at[p], frame[p], x) = 0
             /\ Pending[x] + One(d = x) <= Held[x]
             /\ One(d = x) + One(x = Root) <= Held[x]
             /\ Held[x] \in Nat /\ Pending[x] \in Nat
             /\ k[x] = Held[x] + One(i = x)
             /\ One(i = x) \in Nat /\ One(d = x) \in Nat /\ One(x = Root) \in Nat
  <2>1. One(x = i) = One(i = x) /\ One(i = x) \in Nat /\ One(d = x) \in Nat
        /\ One(x = Root) \in Nat
    BY DEF One
  <2>2. k[x] = Held[x] + One(x = i)  OBVIOUS
  <2> QED  BY <2>1, <2>2, RemoverIs
<1>3. N!Return(p, u)  OBVIOUS
<1> HIDE DEF i, d
<1>4. \A x \in Inos : /\ Pending[x] + One(i = x) + One(d = x) <= k[x]
                      /\ One(i = x) + One(d = x) + One(x = Root) <= k[x]
  <2> SUFFICES ASSUME NEW x \in Inos
               PROVE  /\ Pending[x] + One(i = x) + One(d = x) <= k[x]
                      /\ One(i = x) + One(d = x) + One(x = Root) <= k[x]
    OBVIOUS
  <2> QED  BY <1>2
<1>5. \E j \in [Inos -> Nat] :
         /\ Table(N!Put(N!Put(t, i), d), j, Made, Pending) /\ Quietly(t, N!Put(N!Put(t, i), d))
         /\ \A x \in Inos : j[x] = k[x] - One(i = x) - One(d = x)
  BY <1>1, <1>4, PutBoth
<1>6. PICK j \in [Inos -> Nat] :
         /\ Table(u, j, Made, Pending) /\ Quietly(t, u)
         /\ \A x \in Inos : j[x] = k[x] - One(i = x) - One(d = x)
  BY <1>5
<1> HIDE DEF u
<1>7. inode' = u  BY <1>3 DEF N!Return
<1>8. \A q \in Procs \ {p} : Undisturbed(q)  BY <1>6, <1>7
<1>9. Same(inode, u)
  <2> SUFFICES ASSUME NEW x \in Inos, inode[x].kind # "free", u[x].kind # "free"
               PROVE  u[x].kind = inode[x].kind /\ u[x].up = inode[x].up
    BY DEF Same
  <2>1. u[x].kind = t[x].kind /\ u[x].up = t[x].up  BY <1>6 DEF Quietly
  <2> QED  BY <2>1 DEF Same
<1>10. ASSUME NEW x \in Inos
       PROVE  /\ j[x] = Held[x] - Share(at[p], frame[p], x)
              /\ Pending[x] = Pending[x] - LinkedBy(at[p], frame[p], x)
  <2>1. j[x] = k[x] - One(i = x) - One(d = x)  BY <1>6
  <2> QED  BY <1>2, <2>1
<1>11. Made = Made \ MadeBy(at[p], frame[p])  BY DEF MadeBy
<1> QED  BY <1>3, <1>6, <1>8, <1>9, <1>10, <1>11, Released

LEMMA RefusedKeeps ==
    ASSUME Directories, NInv, NEW p \in Procs, N!Refused(p) PROVE NInv'
<1> DEFINE i == frame[p].ino  d == frame[p].dir  t == N!Get(inode, i)
<1>1. at[p] = "remove" /\ N!Return(p, N!Put(N!Put(t, i), d))  BY DEF N!Refused
<1>2. PICK k \in [Inos -> Nat] :
         /\ Table(t, k, Made, Pending) /\ Quietly(inode, t)
         /\ \A x \in Inos : k[x] = Held[x] + One(x = i)
  BY <1>1, RemoverIs
<1> HIDE DEF t
<1>3. Same(inode, t)  BY <1>2, QuietlyIs
<1>4. Quietly(t, inode') => \A q \in Procs \ {p} : Undisturbed(q)
  BY <1>2, QuietlyTwice, QuietlyIs, EntriesSame
<1> QED  BY <1>1, <1>2, <1>3, <1>4, RemoverPuts

\* Nobody else is at the entry that goes.
LEMMA NobodyElse ==
    ASSUME "lookup" \notin Races, "rmdir" \notin Races,
           NInv, NEW p \in Procs, at[p] \in {"remove", "empty"}, N!NobodyLooks(p),
           NEW q \in Procs \ {p}
    PROVE  ~(at[q] \in {"get", "remove", "empty"} /\ frame[q].dir = frame[p].dir
                /\ frame[q].slot = frame[p].slot)
<1>1. Differ(at[p], frame[p], at[q], frame[q])  BY DEF NInv
<1>2. N!Looking(frame[p].dir, frame[p].slot) = {}  BY DEF N!NobodyLooks
<1>3. ~(at[q] = "get" /\ frame[q].dir = frame[p].dir /\ frame[q].slot = frame[p].slot)
  BY <1>2 DEF N!Looking
<1> QED  BY <1>1, <1>3 DEF Differ

LEMMA unlinkKeeps ==
    ASSUME Directories, "lookup" \notin Races, "rmdir" \notin Races,
           NInv, NEW p \in Procs, N!unlink(p)
    PROVE  NInv'
<1> DEFINE i == frame[p].ino  d == frame[p].dir  s == frame[p].slot  t == N!Get(inode, i)
           g == N!Gone(t, d, s)
           v == [g EXCEPT ![i].nlinks = (IF @ = 0 THEN 1 ELSE @) - 1]
<1>1. /\ at[p] = "remove" /\ inode[i].kind # "dir" /\ N!NobodyLooks(p) /\ N!Counted(i)
      /\ N!Return(p, N!Put(N!Put(v, i), d))
  BY DEF N!unlink
<1>2. /\ i \in Inos /\ d \in Inos /\ i \notin Made /\ d \notin Made /\ IsDir(inode, d)
      /\ Table(inode, Held, Made, Pending) /\ NoIno \notin Inos /\ i # d
  BY <1>1, RemoverIs, InosIs DEF IsDir
<1>3. s \in N!Slots /\ inode[d].ent[s].ino = i
  <2>1. Place(inode, "remove", frame[p]) /\ s \in N!Slots \cup {0}  BY <1>1, LocIs
  <2>2. IsDir(inode, inode[d].up)  BY <1>2 DEF Table, Tree
  <2>3. s # 0  BY <1>1, <1>2, <2>1, <2>2 DEF Place, IsDir
  <2> QED  BY <2>1, <2>3 DEF Place
<1>4. PICK k \in [Inos -> Nat] :
         /\ Table(t, k, Made, Pending) /\ Quietly(inode, t)
         /\ \A x \in Inos : k[x] = Held[x] + One(x = i)
  BY <1>1, RemoverIs
<1>5. t[i].nlinks = inode[i].nlinks
  <2>1. inode[i].kind # "free"  BY <1>1, FoundIs
  <2>2. inode \in [Inos -> Inode] /\ inode[i] \in Inode  BY <1>2, TableIs
  <2> DEFINE b == inode[i]
  <2>3. t = [inode EXCEPT ![i] = [b EXCEPT !.count = b.count + 1]]  BY DEF N!Get
  <2>4. [b EXCEPT !.count = b.count + 1].nlinks = b.nlinks  BY <2>2 DEF Inode
  <2> HIDE DEF b, t
  <2>5. t[i] = [b EXCEPT !.count = b.count + 1]  BY <1>2, <2>2, <2>3
  <2> QED  BY <2>4, <2>5 DEF b
<1> HIDE DEF t, g
<1>6. inode[i].nlinks \in Nat /\ (inode[i].nlinks = 0 => "link" \in Races)
  <2>1. inode[i].nlinks \in Nat /\ inode[i].kind # "free"  BY <1>1, <1>2, TableIs, FoundIs
  <2>2. CASE N!Linking(i) # {}
    <3>1. PICK q \in Procs : at[q] = "linked" /\ frame[q].old = i  BY <2>2 DEF N!Linking
    <3>2. "link" \in Races \/ inode[i].nlinks > 0  BY <1>1, <3>1 DEF N!Counted
    <3> QED  BY <2>1, <3>2
  <2>3. CASE N!Linking(i) = {}
    <3>1. Pending[i] = 0  BY <1>2, <2>3, HoldingIs, FS_EmptySet
    <3>2. \/ inode[i].nlinks + Pending[i] = NamesOf(inode, Made, i)
          \/ inode[i].nlinks + Pending[i] > NamesOf(inode, Made, i)
      BY <1>2, <2>1 DEF Table, Exact, Matches
    <3>3. NamesOf(inode, Made, i) # 0
      <4>1. <<d, s>> \in Leading(inode, i)  BY <1>2, <1>3 DEF Leading
      <4> QED  BY <4>1, NamesNat
    <3>4. NamesOf(inode, Made, i) \in Nat  BY NamesNat
    <3> QED  BY <2>1, <3>1, <3>2, <3>3, <3>4
  <2> QED  BY <2>1, <2>2, <2>3
<1>7. /\ t \in [Inos -> Inode] /\ t[i] \in Inode /\ t[d] \in Inode /\ t[d].ent \in [N!Slots -> N!Entries]
      /\ t[d].ent[s].ino = i /\ ~IsDir(t, i)
  <2>1. t \in [Inos -> Inode] /\ t[d].ent \in [N!Slots -> N!Entries]  BY <1>2, <1>4, TableIs
  <2>2. t[d].ent[s].ino = i /\ ~IsDir(t, i)  BY <1>1, <1>2, <1>3, <1>4, QuietlyIs DEF IsDir
  <2> QED  BY <1>2, <2>1, <2>2
<1> DEFINE e == [t[d].ent EXCEPT ![s] = N!NoEntry]  w == [t[d] EXCEPT !.ent = e]
           c == (IF t[i].nlinks = 0 THEN 1 ELSE t[i].nlinks) - 1
           r == [t[i] EXCEPT !.nlinks = c]
<1>8. e \in [N!Slots -> N!Entries] /\ e[s] = N!NoEntry /\ \A x \in N!Slots \ {s} : e[x] = t[d].ent[x]
  BY <1>3, <1>7, FreeIs
<1>9. g = [t EXCEPT ![d] = w]  BY DEF N!Gone, g
<1> HIDE DEF e
<1>10. /\ w \in Inode /\ w.ent = e /\ w.kind = t[d].kind /\ w.up = t[d].up
       /\ w.count = t[d].count /\ w.nlinks = t[d].nlinks
  BY <1>7, <1>8 DEF Inode
<1> HIDE DEF w
<1>11. g \in [Inos -> Inode] /\ g[d] = w /\ \A x \in Inos \ {d} : g[x] = t[x]
  BY <1>2, <1>7, <1>9, <1>10
<1>12. /\ c \in Nat
       /\ IF t[i].nlinks = 0 THEN c = 0 /\ "link" \in Races ELSE c = t[i].nlinks - 1
  BY <1>5, <1>6
<1> HIDE DEF c
<1>13. /\ r \in Inode /\ r.nlinks = c /\ r.ent = t[i].ent /\ r.kind = t[i].kind
       /\ r.up = t[i].up /\ r.count = t[i].count
  BY <1>7, <1>12 DEF Inode
<1>14. v = [g EXCEPT ![i] = r]
  <2>1. g[i] = t[i]  BY <1>2, <1>11
  <2> QED  BY <2>1 DEF c
<1> HIDE DEF r, v
<1>15. /\ v \in [Inos -> Inode] /\ v[d] = w /\ v[i] = r
       /\ \A x \in Inos \ {d, i} : v[x] = t[x]
  BY <1>2, <1>11, <1>13, <1>14
<1>16. Takes(t, v, d, s)  BY <1>2, <1>3, <1>8, <1>10, <1>13, <1>15 DEF Takes
<1>17. \A x \in Inos : v[x].kind = t[x].kind /\ v[x].up = t[x].up /\ v[x].count = t[x].count
  BY <1>2, <1>10, <1>13, <1>15
<1>18. Table(v, k, Made, Pending)
  BY <1>2, <1>4, <1>7, <1>10, <1>12, <1>13, <1>15, <1>16, <1>17, GoneT
<1>19. Same(inode, v)  BY <1>4, <1>17, QuietlyIs DEF Same
<1>20. ASSUME Quietly(v, inode'), NEW q \in Procs \ {p} PROVE Undisturbed(q)
  <2>1. \A x \in Inos, y \in N!Slots : inode'[x].ent[y] = v[x].ent[y]  BY <1>20, QuietlyIs
  <2>2. \A x \in Inos, y \in N!Slots : t[x].ent[y] = inode[x].ent[y]  BY <1>4, QuietlyIs
  <2>3. /\ \A x \in Inos, y \in N!Slots : <<x, y>> # <<d, s>> => inode'[x].ent[y] = inode[x].ent[y]
        /\ inode'[d].ent[s] = N!NoEntry
    BY <1>2, <1>3, <1>16, <2>1, <2>2 DEF Takes
  <2>4. ~(at[q] \in {"get", "remove", "empty"} /\ frame[q].dir = d /\ frame[q].slot = s)
    BY <1>1, NobodyElse
  <2> QED  BY <1>2, <1>3, <2>3, <2>4, EntryTaken
<1> QED  BY <1>1, <1>4, <1>18, <1>19, <1>20, RemoverPuts

LEMMA rmdirKeeps ==
    ASSUME Directories, NInv, NEW p \in Procs, N!rmdir(p) PROVE NInv'
<1> DEFINE i == frame[p].ino  d == frame[p].dir  l == frame[p]
<1>1. /\ at[p] = "remove" /\ IsDir(inode, i) /\ i # d /\ inode' = N!Get(inode, i)
      /\ N!Goto(p, "empty", l)
  BY DEF N!rmdir, IsDir
<1>2. /\ i \in Inos /\ d \in Inos /\ Frame("remove", l) /\ Place(inode, "remove", l)
      /\ IsDir(inode, d)
  BY <1>1, RemoverIs, LocIs
<1>3. PICK k \in [Inos -> Nat] :
         /\ Table(inode', k, Made, Pending) /\ Quietly(inode, inode')
         /\ \A x \in Inos : k[x] = Held[x] + One(x = i)
  BY <1>1, RemoverIs
<1>4. Frame("empty", l)  BY <1>2 DEF Frame, Points
<1>5. Place(inode', "empty", l)
  <2>1. l.old = NoIno  BY <1>2 DEF Frame
  <2>2. IsDir(inode', d) /\ IsDir(inode', i) /\ inode'[d].up = inode[d].up
    BY <1>1, <1>2, <1>3, QuietlyIs
  <2>3. l.slot # 0 => inode'[d].ent[l.slot].ino = inode[d].ent[l.slot].ino
    <3>1. l.slot \in N!Slots \cup {0}  BY LocIs
    <3> QED  BY <1>2, <1>3, <3>1, QuietlyIs
  <2> QED  BY <1>1, <1>2, <2>1, <2>2, <2>3 DEF Place
<1>6. ASSUME NEW x \in Inos
      PROVE  k[x] = Held[x] - Share(at[p], frame[p], x) + Share("empty", l, x)
  <2>1. Share("empty", l, x) = One(d = x) + One(i = x)  BY <1>2, InosIs DEF Share, One, Frame
  <2>2. Share(at[p], frame[p], x) = One(d = x) /\ Held[x] \in Nat  BY <1>1, RemoverIs
  <2>3. k[x] = Held[x] + One(x = i)  BY <1>3
  <2> QED  BY <2>1, <2>2, <2>3 DEF One
<1>7. MadeBy("empty", l) = MadeBy(at[p], frame[p])  BY <1>1 DEF MadeBy
<1>8. ASSUME NEW q \in Procs \ {p} PROVE Differ("empty", l, at[q], frame[q])
  <2>1. Differ(at[p], frame[p], at[q], frame[q])  BY DEF NInv
  <2> QED  BY <1>1, <2>1 DEF Differ
<1> QED  BY <1>1, <1>3, <1>4, <1>5, <1>6, <1>7, <1>8, GoesTo

\* An inode that goes can be put before the directory it was in, or after.
LEMMA PutOrder ==
    ASSUME Directories, NEW w \in [Inos -> Inode], NEW d \in Inos, NEW i \in Inos, d # i,
           w[i].count = 1, w[i].nlinks = 0
    PROVE  N!Put(N!Put(w, d), i) = N!Put([w EXCEPT ![i] = N!Free], d)
<1> DEFINE y == [w EXCEPT ![i] = N!Free]  c == [w[d] EXCEPT !.count = w[d].count - 1]
<1>1. NoIno \notin Inos  BY InosIs
<1>2. y[d] = w[d]  OBVIOUS
<1>3. CASE w[d].count = 1 /\ w[d].nlinks = 0
  <2> DEFINE x == [w EXCEPT ![d] = N!Free]
  <2>1. N!Put(w, d) = x /\ x[i] = w[i] /\ N!Put(y, d) = [y EXCEPT ![d] = N!Free]
    BY <1>1, <1>2, <1>3 DEF N!Put
  <2> HIDE DEF x
  <2>2. N!Put(x, i) = [x EXCEPT ![i] = N!Free]  BY <1>1, <2>1 DEF N!Put
  <2>3. [x EXCEPT ![i] = N!Free] = [y EXCEPT ![d] = N!Free]  BY DEF x
  <2> QED  BY <2>1, <2>2, <2>3
<1>4. CASE ~(w[d].count = 1 /\ w[d].nlinks = 0)
  <2> DEFINE x == [w EXCEPT ![d] = c]
  <2>1. N!Put(w, d) = x /\ N!Put(y, d) = [y EXCEPT ![d] = c]
    <3>1. N!Put(w, d) = x  BY <1>1, <1>4 DEF N!Put
    <3>2. N!Put(y, d) = [y EXCEPT ![d] = [y[d] EXCEPT !.count = y[d].count - 1]]
      <4> HIDE DEF y
      <4> QED  BY <1>1, <1>2, <1>4 DEF N!Put
    <3> QED  BY <1>2, <3>1, <3>2
  <2> HIDE DEF c
  <2>2. x[i] = w[i]  OBVIOUS
  <2>3. [x EXCEPT ![i] = N!Free] = [y EXCEPT ![d] = c]  OBVIOUS
  <2> HIDE DEF x
  <2>4. N!Put(x, i) = [x EXCEPT ![i] = N!Free]  BY <1>1, <2>2 DEF N!Put
  <2> QED  BY <2>1, <2>3, <2>4
<1> QED  BY <1>3, <1>4

LEMMA RemovedKeeps ==
    ASSUME Directories, "lookup" \notin Races, "rmdir" \notin Races,
           NInv, NEW p \in Procs, N!Removed(p)
    PROVE  NInv'
<1> DEFINE i == frame[p].ino  d == frame[p].dir  s == frame[p].slot
           g == N!Gone(inode, d, s)  t == [g EXCEPT ![i].nlinks = 0]
           w == N!Unlinked(t, d)  v == [w EXCEPT ![i] = N!Free]  h == [Held EXCEPT ![i] = 0]
           u == N!Put(v, d)
<1>1. /\ at[p] = "empty" /\ N!empty_dir(i) /\ N!NobodyLooks(p) /\ inode[i].count = 1
      /\ N!Return(p, N!Put(N!Put(w, d), i))
  BY DEF N!Removed
<1>2. /\ frame[p] \in Frames /\ Frame("empty", frame[p]) /\ Place(inode, "empty", frame[p])
      /\ d \in Inos /\ d \notin Made /\ s \in N!Slots \cup {0} /\ i \in Inos
      /\ Table(inode, Held, Made, Pending) /\ NoIno \notin Inos
  BY <1>1, LocIs, DirIs, QuietlyKept, InosIs DEF Frame
<1>3. /\ IsDir(inode, d) /\ IsDir(inode, i) /\ i # d /\ frame[p].old = NoIno
      /\ IF s = 0 THEN i = inode[d].up ELSE inode[d].ent[s].ino = i
  BY <1>2 DEF Frame, Place
<1>4. /\ inode \in [Inos -> Inode] /\ \A x \in Inos : inode[x].nlinks \in Nat
      /\ inode[i].count = Held[i] /\ inode[Root].up = Root
      /\ \A x \in Inos : inode[x].ent \in [N!Slots -> N!Entries]
  BY <1>2, TableIs
<1>5. ASSUME NEW x \in Inos
      PROVE  /\ Share(at[p], frame[p], x) = One(d = x) + One(i = x)
             /\ LinkedBy(at[p], frame[p], x) = 0
             /\ Pending[x] + One(d = x) + One(i = x) <= Held[x]
             /\ One(d = x) + One(i = x) + One(x = Root) <= Held[x]
             /\ Held[x] \in Nat /\ Pending[x] \in Nat
  <2>1. Share(at[p], frame[p], x) = One(d = x) + One(i = x)  BY <1>1, <1>3, InosIs DEF Share, One
  <2>2. /\ Share(at[p], frame[p], x) + One(x = Root) <= Held[x]
        /\ Pending[x] + Share(at[p], frame[p], x) <= Held[x] + LinkedBy(at[p], frame[p], x)
        /\ Held[x] \in Nat /\ Pending[x] \in Nat
    BY Holders DEF NInv
  <2>3. LinkedBy(at[p], frame[p], x) = 0  BY <1>1 DEF LinkedBy, One
  <2>4. One(d = x) \in Nat /\ One(i = x) \in Nat  BY DEF One
  <2> QED  BY <2>1, <2>2, <2>3, <2>4
<1>6. Held[i] = 1 /\ i # Root /\ Pending[i] = 0
  <2>1. Held[i] = 1  BY <1>1, <1>4
  <2>2. /\ Pending[i] + One(d = i) + One(i = i) <= Held[i]
        /\ One(d = i) + One(i = i) + One(i = Root) <= Held[i] /\ Pending[i] \in Nat
    BY <1>2, <1>5
  <2>3. One(d = i) = 0 /\ One(i = i) = 1  BY <1>3 DEF One
  <2> QED  BY <2>1, <2>2, <2>3 DEF One
<1>7. \A r \in N!Slots : inode[i].ent[r] = N!NoEntry
  <2>1. \A r \in N!Slots : inode[i].ent[r] \in N!Entries /\ inode[i].ent[r].ino = NoIno
    BY <1>1, <1>2, <1>4 DEF N!empty_dir
  <2> QED  BY <2>1, NoEntryIs
\* The parent of the directory it starts from is not empty.
<1>8. s \in N!Slots /\ inode[d].ent[s].ino = i
  <2>1. ASSUME s = 0 PROVE FALSE
    <3>1. inode[d].up = i /\ d # Root  BY <1>3, <1>4, <1>6, <2>1
    <3>2. PICK r \in N!Slots : Leading(inode, d) = {<<inode[d].up, r>>}
      BY <1>2, <1>3, <3>1 DEF Table, Tree
    <3>3. inode[i].ent[r].ino = d
      <4>1. <<inode[d].up, r>> \in Leading(inode, d)  BY <3>2
      <4> QED  BY <3>1, <4>1 DEF Leading
    <3> QED  BY <1>2, <1>7, <3>3, FreeIs
  <2> QED  BY <1>2, <1>3, <2>1
<1>9. \A x \in Made : IsDir(inode, x) => inode[x].up # i
  <2> SUFFICES ASSUME NEW x \in Made, IsDir(inode, x), inode[x].up = i PROVE FALSE
    OBVIOUS
  <2>1. PICK q \in Procs : x \in MadeBy(at[q], frame[q])  BY MadeIs
  <2>2. at[q] \in {"search", "add"} /\ frame[q].ino = x /\ q # p /\ x # NoIno
    BY <1>1, <2>1 DEF MadeBy
  <2>3. Frame(at[q], frame[q]) /\ Place(inode, at[q], frame[q])  BY LocIs
  <2>4. frame[q].op # "link"  BY <2>2, <2>3 DEF Frame
  <2>5. inode[x].kind = KindOf(frame[q].op) /\ (frame[q].op = "mkdir" => inode[x].up = frame[q].dir)
    BY <2>2, <2>3, <2>4 DEF Place
  <2>6. frame[q].dir = i  BY <2>5 DEF IsDir, KindOf
  <2>7. Share(at[p], frame[p], i) + Share(at[q], frame[q], i) + One(i = Root) <= Held[i]
    BY <1>2, <2>2, Holders DEF NInv
  <2>8. /\ Share(at[p], frame[p], i) >= 1 /\ Share(at[q], frame[q], i) >= 1
        /\ Share(at[p], frame[p], i) \in Nat /\ Share(at[q], frame[q], i) \in Nat
        /\ One(i = Root) \in Nat
    BY <1>1, <2>6 DEF Share, One
  <2> QED  BY <1>6, <2>7, <2>8
<1> DEFINE e == [inode[d].ent EXCEPT ![s] = N!NoEntry]  c == [inode[d] EXCEPT !.ent = e]
           r == [inode[i] EXCEPT !.nlinks = 0]  b == [c EXCEPT !.nlinks = c.nlinks - 1]
<1>10. e \in [N!Slots -> N!Entries] /\ e[s] = N!NoEntry /\ \A x \in N!Slots \ {s} : e[x] = inode[d].ent[x]
  BY <1>2, <1>4, <1>8, FreeIs
<1>11. g = [inode EXCEPT ![d] = c]  BY DEF N!Gone
<1> HIDE DEF e, g
<1>12. /\ c \in Inode /\ c.ent = e /\ c.kind = inode[d].kind /\ c.up = inode[d].up
       /\ c.count = inode[d].count /\ c.nlinks = inode[d].nlinks
  <2>1. inode[d] \in Inode  BY <1>2, <1>4, TableIs
  <2> QED  BY <1>10, <2>1 DEF Inode
<1> HIDE DEF c
<1>13. inode[d].nlinks - 1 \in Nat
  <2>1. inode[d].nlinks + Pending[d] = NamesOf(inode, Made, d)
    BY <1>2, <1>3 DEF Table, Exact, Matches, IsDir
  <2>2. N!Linking(d) = {}
    <3> SUFFICES ASSUME NEW q \in Procs, at[q] = "linked", frame[q].old = d PROVE FALSE
      BY DEF N!Linking
    <3>1. Place(inode, at[q], frame[q])  BY LocIs
    <3> QED  BY <1>2, <1>3, <3>1 DEF Place
  <2>3. Pending[d] = 0  BY <1>2, <2>2, HoldingIs, FS_EmptySet
  <2>4. NamesOf(inode, Made, d) # 0 /\ NamesOf(inode, Made, d) \in Nat  BY <1>3, NamesNat
  <2>5. inode[d].nlinks \in Nat  BY <1>2, <1>4
  <2> QED  BY <2>1, <2>3, <2>4, <2>5
<1>14. g \in [Inos -> Inode] /\ g[d] = c /\ \A x \in Inos \ {d} : g[x] = inode[x]
  BY <1>2, <1>4, <1>11, <1>12
<1>15. r \in Inode /\ r.nlinks = 0 /\ r.count = 1  BY <1>1, <1>2, <1>4 DEF Inode
<1>16. t = [g EXCEPT ![i] = r]
  <2>1. g[i] = inode[i]  BY <1>2, <1>3, <1>14
  <2> QED  BY <2>1
<1>17. /\ b \in Inode /\ b.ent = e /\ b.kind = inode[d].kind /\ b.up = inode[d].up
       /\ b.count = inode[d].count /\ b.nlinks = inode[d].nlinks - 1
  BY <1>12, <1>13 DEF Inode
<1> HIDE DEF r, t
<1>18. t \in [Inos -> Inode] /\ t[d] = c /\ t[i] = r /\ \A x \in Inos \ {d, i} : t[x] = inode[x]
  BY <1>2, <1>3, <1>14, <1>15, <1>16
<1>19. w = [t EXCEPT ![d] = b]  BY <1>18 DEF N!Unlinked
<1> HIDE DEF b, w
<1>20. w \in [Inos -> Inode] /\ w[d] = b /\ w[i] = r /\ \A x \in Inos \ {d, i} : w[x] = inode[x]
  BY <1>2, <1>3, <1>17, <1>18, <1>19
<1>21. v \in [Inos -> Inode] /\ v[d] = b /\ v[i] = N!Free /\ \A x \in Inos \ {d, i} : v[x] = inode[x]
  BY <1>2, <1>3, <1>20, FreeIs
<1>22. N!Put(N!Put(w, d), i) = u  BY <1>2, <1>3, <1>15, <1>20, PutOrder
<1> HIDE DEF v, u
<1>23. Takes(inode, v, d, s)
  <2>1. ASSUME NEW x \in Inos, NEW y \in N!Slots, <<x, y>> # <<d, s>>
        PROVE  v[x].ent[y] = inode[x].ent[y]
    <3>1. CASE x = i  BY <1>7, <1>21, <3>1, FreeIs
    <3>2. CASE x = d  BY <1>10, <1>17, <1>21, <2>1, <3>2
    <3>3. CASE x # i /\ x # d  BY <1>21, <3>3
    <3> QED  BY <3>1, <3>2, <3>3
  <2> QED  BY <1>2, <1>8, <1>10, <1>17, <1>21, <2>1 DEF Takes
<1>24. Table(v, h, Made, Pending)
  BY <1>2, <1>3, <1>6, <1>7, <1>8, <1>9, <1>17, <1>21, <1>23, GoneDirT
<1>25. h[i] = 0 /\ \A x \in Inos \ {i} : h[x] = Held[x]  BY <1>2, TableIs
<1> HIDE DEF h
<1>26. ASSUME NEW x \in Inos
       PROVE  /\ Pending[x] + One(d = x) <= h[x] /\ One(d = x) + One(x = Root) <= h[x]
              /\ h[x] = Held[x] - One(i = x) /\ One(i = x) \in Nat /\ One(d = x) \in Nat
  <2>1. One(i = x) \in Nat /\ One(d = x) \in Nat /\ One(x = Root) \in Nat  BY DEF One
  <2>2. h[x] = Held[x] - One(i = x)  BY <1>5, <1>6, <1>25 DEF One
  <2>3. CASE x = i  BY <1>3, <1>6, <1>25, <2>1, <2>2, <2>3 DEF One
  <2>4. CASE x # i
    <3>1. One(i = x) = 0  BY <2>4 DEF One
    <3> QED  BY <1>5, <2>1, <2>2, <3>1
  <2> QED  BY <2>3, <2>4
<1>27. d \in Inos \cup {NoIno}
       /\ \A x \in Inos : Pending[x] + One(d = x) <= h[x] /\ One(d = x) + One(x = Root) <= h[x]
  BY <1>2, <1>26
<1> HIDE DEF d, i
<1>28. \E k \in [Inos -> Nat] :
         /\ Table(N!Put(v, d), k, Made, Pending) /\ Quietly(v, N!Put(v, d))
         /\ \A x \in Inos : k[x] = h[x] - One(d = x)
  BY <1>2, <1>24, <1>27, PutOne
<1>29. PICK k \in [Inos -> Nat] :
         /\ Table(u, k, Made, Pending) /\ Quietly(v, u)
         /\ \A x \in Inos : k[x] = h[x] - One(d = x)
  BY <1>28 DEF u
<1>30. N!Return(p, u) /\ inode' = u  BY <1>1, <1>22 DEF N!Return
<1>31. ASSUME NEW x \in Inos
       PROVE  /\ k[x] = Held[x] - Share(at[p], frame[p], x)
              /\ Pending[x] = Pending[x] - LinkedBy(at[p], frame[p], x)
  <2>1. k[x] = h[x] - One(d = x)  BY <1>29
  <2> QED  BY <1>5, <1>26, <2>1
<1>32. Same(inode, u)
  <2> SUFFICES ASSUME NEW x \in Inos, inode[x].kind # "free", u[x].kind # "free"
               PROVE  u[x].kind = inode[x].kind /\ u[x].up = inode[x].up
    BY DEF Same
  <2>1. u[x].kind = v[x].kind /\ u[x].up = v[x].up  BY <1>29 DEF Quietly
  <2>2. x # i  BY <1>21, <2>1, FreeIs
  <2> QED  BY <1>17, <1>21, <2>1, <2>2
<1>33. ASSUME NEW q \in Procs \ {p} PROVE Undisturbed(q)
  <2>1. /\ \A x \in Inos, y \in N!Slots : <<x, y>> # <<d, s>> => inode'[x].ent[y] = inode[x].ent[y]
        /\ inode'[d].ent[s] = N!NoEntry
    BY <1>2, <1>8, <1>23, <1>29, <1>30, QuietlyIs DEF Takes
  <2>2. ~(at[q] \in {"get", "remove", "empty"} /\ frame[q].dir = d /\ frame[q].slot = s)
    BY <1>1, NobodyElse DEF d
  <2> QED  BY <1>2, <1>8, <2>1, <2>2, EntryTaken
<1>34. Made = Made \ MadeBy(at[p], frame[p])  BY <1>1 DEF MadeBy
<1> QED  BY <1>29, <1>30, <1>31, <1>32, <1>33, <1>34, Released

----------------------------------------------------------------------------
(* The invariant                                                           *)

LEMMA NInvInit ==
    ASSUME Directories PROVE N!Init => NInv
<1> SUFFICES ASSUME N!Init PROVE NInv
  OBVIOUS
<1>1. /\ at = [p \in Procs |-> "user"] /\ frame = [p \in Procs |-> N!NoLoc]
      /\ N!NoLoc \in Frames /\ N!NoLoc.dir = NoIno /\ N!NoLoc.ino = NoIno /\ N!NoLoc.old = NoIno
      /\ Root \in Inos /\ NoIno \notin Inos /\ NoIno # Root
  BY NoLocIs, InosIs DEF N!Init
<1> DEFINE f == N!Free
           r == [f EXCEPT !.kind = "dir", !.nlinks = 2, !.count = 1, !.up = Root]
<1>2. inode = [i \in Inos |-> IF i = Root THEN r ELSE f]  BY DEF N!Init
<1>3. /\ f \in Inode /\ f.kind = "free" /\ f.up = NoIno /\ f.count = 0
      /\ \A s \in N!Slots : f.ent[s] = N!NoEntry /\ N!NoEntry.ino = NoIno
  BY FreeIs
<1> HIDE DEF f
<1>4. /\ r \in Inode /\ r.kind = "dir" /\ r.nlinks = 2 /\ r.count = 1 /\ r.up = Root
      /\ r.ent = f.ent
  BY <1>1, <1>3 DEF Inode, N!Kinds
<1> HIDE DEF r
<1>5. inode[Root] = r /\ (\A i \in Inos \ {Root} : inode[i] = f) /\ inode \in [Inos -> Inode]
  BY <1>1, <1>2, <1>3, <1>4
<1>6. \A i \in Inos, s \in N!Slots : inode[i].ent[s] = N!NoEntry  BY <1>3, <1>4, <1>5
<1>7. \A i \in Inos : InDir(i) = {} /\ WithIno(i) = {} /\ WithOld(i) = {} /\ N!Linking(i) = {}
                      /\ N!Making(i) = {}
  BY <1>1 DEF InDir, WithIno, WithOld, N!Linking, N!Making
<1>8. ASSUME NEW i \in Inos PROVE Held[i] = One(i = Root) /\ Pending[i] = 0
  <2>1. /\ Held[i] = Cardinality(InDir(i)) + Cardinality(WithIno(i)) + Cardinality(WithOld(i))
                     + One(i = Root)
        /\ Pending[i] = Cardinality(N!Linking(i))
    BY HoldingIs
  <2>2. One(i = Root) \in Nat /\ Cardinality({}) = 0  BY FS_EmptySet DEF One
  <2> QED  BY <1>7, <2>1, <2>2
<1>9. Made = {} /\ Held \in [Inos -> Nat] /\ Pending \in [Inos -> Nat]
  <2>1. Held = [i \in Inos |-> Held[i]] /\ Pending = [i \in Inos |-> Pending[i]]
    BY DEF Held, Pending
  <2> QED  BY <1>7, <1>8, <2>1 DEF Made, One
<1>10. Typed(inode, Held, Made, Pending)
  <2>1. ASSUME NEW i \in Inos
        PROVE  inode[i].count = Held[i] /\ Pending[i] <= Held[i]
               /\ (inode[i].kind = "free" => inode[i] = N!Free)
    <3>1. CASE i = Root  BY <1>4, <1>5, <1>8, <3>1 DEF One
    <3>2. CASE i # Root  BY <1>3, <1>5, <1>8, <3>2 DEF One, f
    <3> QED  BY <3>1, <3>2
  <2>2. IsDir(inode, Root) /\ inode[Root].up = Root /\ Held[Root] > 0
    BY <1>1, <1>4, <1>5, <1>8 DEF IsDir, One
  <2> QED  BY <1>5, <1>9, <2>1, <2>2 DEF Typed
<1>11. \A i \in Inos : IsDir(inode, i) <=> i = Root  BY <1>1, <1>3, <1>4, <1>5 DEF IsDir
<1>12. Tree(inode, Made)  BY <1>1, <1>3, <1>4, <1>5, <1>6, <1>9, <1>11 DEF Tree
<1>13. Fresh(inode, Held, Made, Pending)  BY <1>9 DEF Fresh
<1>14. Exact(inode, Made, Pending)
  <2>1. Leading(inode, Root) = {} /\ Under(inode, Made, Root) = {}
    BY <1>1, <1>3, <1>6, <1>11 DEF Leading, Under
  <2>2. NamesOf(inode, Made, Root) = 2
    <3>1. Cardinality({}) = 0 /\ One(Root \in Made) = 0 /\ One(Root = Root) = 1
      BY <1>9, FS_EmptySet DEF One
    <3>2. IsDir(inode, Root)  BY <1>1, <1>11
    <3> HIDE DEF One
    <3> QED  BY <2>1, <3>1, <3>2 DEF NamesOf
  <2> QED  BY <1>1, <1>3, <1>4, <1>5, <1>8, <2>2 DEF Exact, Matches
<1>15. \A p \in Procs : Frame(at[p], frame[p]) /\ Place(inode, at[p], frame[p])
  BY <1>1, NoLocIs DEF Frame, Place, Points
<1>16. \A p, q \in Procs : p # q => Differ(at[p], frame[p], at[q], frame[q])  BY <1>1 DEF Differ
<1>17. at \in [Procs -> Points] /\ frame \in [Procs -> Frames]  BY <1>1 DEF Points
<1> QED  BY <1>10, <1>12, <1>13, <1>14, <1>15, <1>16, <1>17 DEF NInv, Table

LEMMA NInvNext ==
    ASSUME Directories, "lookup" \notin Races, "rmdir" \notin Races,
           NInv, [N!Next]_(N!vars)
    PROVE  NInv'
<1>1. CASE UNCHANGED N!vars
  <2>1. inode' = inode /\ at' = at /\ frame' = frame  BY <1>1 DEF N!vars
  <2>2. Held' = Held /\ Made' = Made /\ Pending' = Pending
    BY <2>1 DEF Held, Made, Pending, N!Holding, N!Making, N!Linking
  <2> QED  BY <2>1, <2>2 DEF NInv
<1>2. CASE N!Next
  <2>1. PICK p \in Procs :
            \/ N!Call(p) \/ N!Closed(p) \/ N!Step(p) \/ N!Missing(p) \/ N!Follow(p) \/ N!Enter(p)
            \/ N!Opened(p) \/ N!Close(p) \/ N!OldFound(p)
            \/ N!Exists(p) \/ N!NewInode(p) \/ N!Search(p) \/ N!LinkSearch(p)
            \/ N!NoRoom(p) \/ N!Created(p) \/ N!DirAdded(p) \/ N!Added(p) \/ N!LinkAdded(p) \/ N!Linked(p)
            \/ N!Find(p) \/ N!Refused(p) \/ N!unlink(p)
            \/ N!rmdir(p) \/ N!NotEmpty(p) \/ N!Removed(p)
    BY <1>2 DEF N!Next
  <2>2. ASSUME N!Closed(p) \/ N!Missing(p) \/ N!Exists(p) PROVE NInv'
    <3>1. at[p] = "walk" /\ N!Return(p, N!Put(N!Put(inode, frame[p].dir), frame[p].old))
      BY <2>2 DEF N!Closed, N!Missing, N!Exists, N!Open
    <3> QED  BY <3>1, Closes
  <2>3. ASSUME N!Call(p) \/ N!Step(p) \/ N!Follow(p) \/ N!Enter(p) PROVE NInv'
    BY <2>3, CallKeeps, ComponentKeeps, FollowKeeps, EnterKeeps
  <2>4. ASSUME N!Opened(p) \/ N!Close(p) \/ N!OldFound(p) PROVE NInv'
    BY <2>4, OpenedKeeps, HeldCloses, OldFoundKeeps
  <2>5. ASSUME N!NewInode(p) \/ N!Search(p) \/ N!LinkSearch(p) \/ N!NoRoom(p) PROVE NInv'
    BY <2>5, NewInodeStays, SearchKeeps, LinkSearchKeeps, NoRoomKeeps
  <2>6. ASSUME N!Created(p) \/ N!DirAdded(p) \/ N!Added(p) \/ N!LinkAdded(p) \/ N!Linked(p) PROVE NInv'
    BY <2>6, CreatedKeeps, DirAddedKeeps, AddedKeeps, LinkAddedKeeps, LinkedKeeps
  <2>7. ASSUME N!Find(p) \/ N!Refused(p) \/ N!unlink(p) PROVE NInv'
    BY <2>7, FindKeeps, RefusedKeeps, unlinkKeeps
  <2>8. ASSUME N!rmdir(p) \/ N!NotEmpty(p) \/ N!Removed(p) PROVE NInv'
    BY <2>8, rmdirKeeps, NotEmptyKeeps, RemovedKeeps
  <2> QED  BY <2>1, <2>2, <2>3, <2>4, <2>5, <2>6, <2>7, <2>8
<1> QED  BY <1>1, <1>2

\* A directory has a link: "." is one.
LEMMA DirLinks ==
    ASSUME Directories, NInv, NEW i \in Inos, IsDir(inode, i)
    PROVE  inode[i].nlinks > 0 /\ Pending[i] = 0
<1>1. Table(inode, Held, Made, Pending) /\ NoIno \notin Inos  BY InosIs DEF NInv
<1>2. inode[i].nlinks + Pending[i] = NamesOf(inode, Made, i) /\ inode[i].nlinks \in Nat
  BY <1>1, TableIs DEF Table, Exact, Matches, IsDir
<1>3. N!Linking(i) = {}
  <2> SUFFICES ASSUME NEW q \in Procs, at[q] = "linked", frame[q].old = i PROVE FALSE
    BY DEF N!Linking
  <2>1. Place(inode, at[q], frame[q])  BY LocIs
  <2> QED  BY <1>1, <2>1 DEF Place
<1>4. Pending[i] = 0  BY <1>3, HoldingIs, FS_EmptySet
<1>5. NamesOf(inode, Made, i) # 0  BY NamesNat
<1> QED  BY <1>2, <1>4, <1>5

LEMMA NInvDirs ==
    ASSUME Directories PROVE NInv => N!DirsOK
<1> SUFFICES ASSUME NInv PROVE N!DirsOK
  OBVIOUS
<1>1. Table(inode, Held, Made, Pending)  BY DEF NInv
<1>2. N!TypeOK  BY <1>1, TableIs DEF NInv, N!TypeOK, Inode, Frames, Points
<1>3. "create" \notin Races => N!UniqueNames  BY <1>1 DEF N!UniqueNames, N!Used, Table, Tree
<1>4. N!NoDangling
  <2> SUFFICES ASSUME NEW d \in Inos
               PROVE  /\ \A s \in N!Slots : inode[d].ent[s].ino \in N!Used \cup {NoIno}
                      /\ inode[d].kind = "dir"
                             => inode[d].up \in N!Used /\ inode[inode[d].up].nlinks > 0
    BY DEF N!NoDangling, N!Used
  <2>1. ASSUME NEW s \in N!Slots, inode[d].ent[s].ino # NoIno
        PROVE  inode[d].ent[s].ino \in N!Used
    <3>1. inode[d].ent[s] \in N!Entries  BY <1>1, TableIs
    <3>2. inode[d].ent[s].ino \in Inos  BY <2>1, <3>1, EntryIs
    <3> QED  BY <1>1, <2>1, <3>2 DEF Table, Tree, N!Used
  <2>2. ASSUME inode[d].kind = "dir"
        PROVE  inode[d].up \in N!Used /\ inode[inode[d].up].nlinks > 0
    <3>1. inode[d].up \in Inos /\ IsDir(inode, inode[d].up)  BY <1>1, <2>2 DEF Table, Tree, IsDir
    <3>2. inode[inode[d].up].nlinks > 0  BY <3>1, DirLinks
    <3> QED  BY <3>1, <3>2 DEF N!Used, IsDir
  <2> QED  BY <2>1, <2>2
<1>5. N!TreeOK
  <2> SUFFICES ASSUME NEW d \in Inos, inode[d].kind = "dir"
               PROVE  /\ d # Root /\ N!Making(d) = {} =>
                             \E s \in N!Slots : N!Naming(d) = {<<inode[d].up, s>>}
                      /\ inode[d].nlinks # 0
    BY DEF N!TreeOK, N!Used
  <2>1. inode[d].nlinks # 0  BY DirLinks DEF IsDir
  <2>2. ASSUME d # Root, N!Making(d) = {}
        PROVE  \E s \in N!Slots : N!Naming(d) = {<<inode[d].up, s>>}
    <3>1. d \notin Made  BY <2>2 DEF Made
    <3>2. \E s \in N!Slots : Leading(inode, d) = {<<inode[d].up, s>>}
      BY <1>1, <2>2, <3>1 DEF Table, Tree, IsDir
    <3> QED  BY <3>2 DEF Leading, N!Naming
  <2> QED  BY <2>1, <2>2
<1> QED  BY <1>2, <1>3, <1>4, <1>5 DEF N!DirsOK

LEMMA NInvCounts ==
    ASSUME Directories PROVE NInv => N!CountsExact
<1> SUFFICES ASSUME NInv PROVE N!CountsExact
  OBVIOUS
<1>1. Table(inode, Held, Made, Pending) /\ NoIno \notin Inos  BY InosIs DEF NInv
<1>2. N!CountExact
  <2> SUFFICES ASSUME NEW i \in Inos PROVE inode[i].count = N!Holding(i)
    BY DEF N!CountExact
  <2>1. inode[i].count = Held[i]  BY <1>1, TableIs
  <2> QED  BY <2>1 DEF Held
<1>3. N!LinksExact
  <2> SUFFICES ASSUME NEW i \in Inos, inode[i].kind # "free"
               PROVE  Matches(inode[i].nlinks + Cardinality(N!Linking(i)), N!NameCount(i),
                              inode[i].kind = "dir")
    BY CardinalityIs DEF N!LinksExact, N!Used, Matches
  <2>0. N!NameCount(i) =
          Cardinality(N!Naming(i)) + Cardinality(N!Making(i))
          + (IF inode[i].kind = "dir" /\ inode[i].nlinks > 0
             THEN 1 + Cardinality({d \in N!Below(i) : N!Making(d) = {}})
                  + (IF i = Root THEN 1 ELSE 0)
             ELSE 0)
    BY CardinalityIs DEF N!NameCount
  <2>1. Matches(inode[i].nlinks + Pending[i], NamesOf(inode, Made, i), inode[i].kind = "dir")
        /\ Pending[i] = Cardinality(N!Linking(i))
    BY <1>1, HoldingIs DEF Table, Exact, Matches, IsDir
  <2>2. N!Naming(i) = Leading(inode, i)  BY DEF N!Naming, Leading
  <2>3. Cardinality(N!Making(i)) = One(i \in Made)
    <3>1. CASE N!Making(i) = {}  BY <3>1, FS_EmptySet DEF Made, One
    <3>2. CASE N!Making(i) # {}
      <4>1. PICK p \in N!Making(i) : TRUE  BY <3>2
      <4>2. p \in Procs /\ i \in MadeBy(at[p], frame[p])  BY <1>1, <4>1 DEF N!Making, MadeBy
      <4>3. ASSUME NEW q \in N!Making(i), q # p PROVE FALSE
        <5>1. q \in Procs /\ i \in MadeBy(at[q], frame[q])  BY <1>1, <4>3 DEF N!Making, MadeBy
        <5> QED  BY <4>2, <4>3, <5>1, MakersOne
      <4>4. N!Making(i) = {p}  BY <4>1, <4>3
      <4> QED  BY <3>2, <4>4, FS_Singleton DEF Made, One
    <3> QED  BY <3>1, <3>2
  <2>4. IsDir(inode, i) => inode[i].nlinks > 0  BY DirLinks
  <2>5. {d \in N!Below(i) : N!Making(d) = {}} = Under(inode, Made, i)
    <3> SUFFICES ASSUME NEW d
                 PROVE  d \in N!Below(i) /\ N!Making(d) = {} <=> d \in Under(inode, Made, i)
      OBVIOUS
    <3>1. d \in Under(inode, Made, i)
            <=> d \in Inos /\ d # Root /\ d \notin Made /\ IsDir(inode, d) /\ inode[d].up = i
      BY DEF Under
    <3>2. d \in N!Below(i) <=> d \in Inos /\ inode[d].kind # "free" /\ d # Root
                               /\ inode[d].up = i /\ inode[d].nlinks > 0
      BY DEF N!Below, N!Used
    <3>3. d \in Inos => (d \notin Made <=> N!Making(d) = {})  BY DEF Made
    <3>4. d \in Inos /\ IsDir(inode, d) => inode[d].nlinks > 0 /\ inode[d].kind # "free"
      BY DirLinks DEF IsDir
    <3>5. d \in Inos /\ ~IsDir(inode, d) => inode[d].up # i  BY <1>1 DEF Table, Tree
    <3> QED  BY <3>1, <3>2, <3>3, <3>4, <3>5
  <2>6. NamesOf(inode, Made, i) =
          Cardinality(N!Naming(i)) + Cardinality(N!Making(i))
          + (IF IsDir(inode, i) THEN 1 + Cardinality({d \in N!Below(i) : N!Making(d) = {}}) + One(i = Root)
             ELSE 0)
    BY <2>2, <2>3, <2>5 DEF NamesOf
  <2>7. One(i = Root) = IF i = Root THEN 1 ELSE 0  BY DEF One
  <2>8. CASE IsDir(inode, i)
    <3>1. inode[i].kind = "dir" /\ inode[i].nlinks > 0  BY <2>4, <2>8 DEF IsDir
    <3> QED  BY <2>0, <2>1, <2>6, <2>7, <2>8, <3>1
  <2>9. CASE ~IsDir(inode, i)
    <3>1. inode[i].kind # "dir"  BY <2>9 DEF IsDir
    <3> QED  BY <2>0, <2>1, <2>6, <2>9, <3>1
  <2> QED  BY <2>8, <2>9
<1> QED  BY <1>2, <1>3 DEF N!CountsExact

(* A name leads to an inode that is there, a directory is itself named     *)
(* once, in its parent, and iput() frees no file that has a name or a user *)
(* (inode.c:249): i_count is exact, i_nlinks is the number of names or, of *)
(* a file that was linked while its last name went (namei.c:1251), more.   *)
(* Two processes that make the same name at once (namei.c:624, 1167, 1240) *)
(* harm nothing but that it is there twice. Not so with a lookup, or an    *)
(* rmdir(), between whose search and use of an entry the entry goes.       *)
THEOREM NamesSafe ==
    ASSUME Directories, "lookup" \notin Races, "rmdir" \notin Races
    PROVE  N!Spec => [](N!DirsOK /\ N!CountsExact)
<1>1. NInv /\ [N!Next]_(N!vars) => NInv'  BY NInvNext
<1>2. NInv => N!DirsOK /\ N!CountsExact  BY NInvDirs, NInvCounts
<1> QED  BY <1>1, <1>2, NInvInit, PTL DEF N!Spec
=============================================================================
