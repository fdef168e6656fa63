-------------------------------- MODULE Names --------------------------------
(***************************************************************************)
(* Directories and names: fs/namei.c.                                      *)
(*                                                                         *)
(* Inodes are in memory, whole: iget() and iput() count references, and an *)
(* inode without links and references is freed.  A process can sleep in    *)
(* each read of a directory block or an inode, so between the search of a  *)
(* name and what is done with what was found; it does not sleep between    *)
(* add_entry() and the entry.  Everybody is the super-user, so that        *)
(* permission() refuses only what has been deleted.                        *)
(***************************************************************************)
EXTENDS Integers, FiniteSets, FiniteSetsExt, Sequences

CONSTANTS Procs,
          Inos, Root,   \* the inodes, and that of the root directory
          NoIno,
          Names,        \* without "." and ".."
          Paths,        \* the path names processes use
          NSlots,       \* the room for entries in a directory
          Risks         \* what may happen although the code does not allow for
                        \* it: "lookup": an entry goes while another process
                        \* is between it and its inode, "create": two processes
                        \* add the same name, "rmdir": a directory is entered
                        \* after rmdir() has found that nobody uses it, "link":
                        \* both names of a file go before link() counts a link

Slots == 1..NSlots
dots == {".", ".."}

ASSUME InosAssumption == IsFiniteSet(Inos) /\ Root \in Inos /\ NoIno \notin Inos
ASSUME PathsAssumption ==
    /\ Names \cap dots = {}
    /\ Paths \subseteq Seq(Names \cup dots) \ {<<>>}
ASSUME SlotsAssumption == NSlots \in Nat
ASSUME ProcsAssumption == IsFiniteSet(Procs)
ASSUME RisksAssumption == Risks \subseteq {"lookup", "create", "rmdir", "link"}

VARIABLES inode,   \* the inodes
          pc, loc  \* where each process is, its local variables

vars == <<inode, pc, loc>>

NoEntry == [name |-> ".", ino |-> NoIno]
Entries == {NoEntry} \cup [name : Names, ino : Inos]
\* up: the ".." of a directory; to: where a symbolic link leads.
Free == [kind |-> "free", nlinks |-> 0, count |-> 0,
         ent |-> [s \in Slots |-> NoEntry], up |-> NoIno, to |-> "."]
\* path: what is left of the path; dir: the directory it starts from; ino, slot:
\* what was found there, or the new inode; old: the oldinode of link(); follow:
\* what is found is followed when it is a symbolic link.
NoLoc == [op |-> "none", path |-> <<>>, dir |-> NoIno, ino |-> NoIno, slot |-> 0,
          old |-> NoIno, follow |-> TRUE]

Makes == {"creat", "mknod", "mkdir", "symlink"}
Ops == Makes \cup {"open", "oldname", "unlink", "rmdir"}
Kinds == {"file", "dir", "symlink"}

TypeOK ==
    /\ inode \in [Inos -> [kind : Kinds \cup {"free"}, nlinks : Nat, count : Nat,
                           ent : [Slots -> Entries], up : Inos \cup {NoIno},
                           to : Names \cup {"."}]]
    /\ pc \in [Procs -> {"user", "walk", "get", "search", "add", "remove",
                         "empty", "linked", "held"}]
    /\ loc \in [Procs -> [op : Ops \cup {"none", "link"},
                          path : Seq(Names \cup dots), dir : Inos \cup {NoIno},
                          ino : Inos \cup {NoIno}, slot : Slots \cup {0},
                          old : Inos \cup {NoIno}, follow : BOOLEAN]]

Init ==
    /\ inode = [i \in Inos |->
                  IF i = Root THEN [Free EXCEPT !.kind = "dir", !.nlinks = 2,
                                                !.count = 1, !.up = Root]
                  ELSE Free]
    /\ pc = [p \in Procs |-> "user"] /\ loc = [p \in Procs |-> NoLoc]

----------------------------------------------------------------------------
(* Inodes                                                                  *)

Get(t, i) == [t EXCEPT ![i].count = @ + 1]
\* iput(): what has no links and no user is freed (inode.c:249).
Put(t, i) ==
    IF i = NoIno THEN t
    ELSE IF t[i].count = 1 /\ t[i].nlinks = 0 THEN [t EXCEPT ![i] = Free]
    ELSE [t EXCEPT ![i].count = @ - 1]
Unlinked(t, i) == [t EXCEPT ![i].nlinks = @ - 1]

\* permission(): not even root can use what has been deleted.
permission(i) == inode[i].nlinks > 0

Goto(p, l, r) == pc' = [pc EXCEPT ![p] = l] /\ loc' = [loc EXCEPT ![p] = r]
\* A system call ends, with every inode put.
Return(p, t) == inode' = t /\ Goto(p, "user", NoLoc)

----------------------------------------------------------------------------
(* Looking a name up                                                       *)

\* find_entry(): where the name is (0: "." and ".."), or nowhere.
Places(d, n) == IF n \in dots THEN {0}
                ELSE {s \in Slots : inode[d].ent[s].ino # NoIno
                                    /\ inode[d].ent[s].name = n}
Target(d, n, s) ==
    CASE n = "."  -> d
      [] n = ".." -> IF d = Root THEN d ELSE inode[d].up
      [] OTHER    -> inode[d].ent[s].ino
find_entry(d, n) == IF Places(d, n) = {} THEN NoIno
                    ELSE Target(d, n, Min(Places(d, n)))

\* Those between an entry and its inode, and those about to clear an entry.
Looking(d, s) == {p \in Procs : pc[p] = "get" /\ loc[p].dir = d /\ loc[p].slot = s}
Clearing(d, s) == {p \in Procs : pc[p] \in {"remove", "empty"} /\ loc[p].dir = d
                                 /\ loc[p].slot = s}

Name(p) == Head(loc[p].path)
Last(p) == Len(loc[p].path) = 1

Call(p) ==
    /\ pc[p] = "user"
    /\ \E op \in Ops, path \in Paths :
          Goto(p, "walk", [NoLoc EXCEPT !.op = op, !.path = path, !.dir = Root])
    /\ inode' = Get(inode, Root)

\* get_dir() cannot go on: not a directory, or one that has been deleted.
Closed(p) ==
    /\ pc[p] = "walk"
    /\ inode[loc[p].dir].kind # "dir" \/ ~permission(loc[p].dir)
    /\ Return(p, Put(Put(inode, loc[p].dir), loc[p].old))
Open(p) == pc[p] = "walk" /\ inode[loc[p].dir].kind = "dir" /\ permission(loc[p].dir)

\* The next component, or the last one if the call is about its inode.
ToInode(p) == ~Last(p) \/ loc[p].op \in {"open", "creat", "oldname"}
Step(p) ==
    LET d == loc[p].dir  i == find_entry(d, Name(p)) IN
    /\ Open(p) /\ ToInode(p) /\ i # NoIno
    /\ Goto(p, "get", [loc[p] EXCEPT !.ino = i, !.slot = Min(Places(d, Name(p)))])
    /\ UNCHANGED inode

\* There is no such name; creat() makes it, but not what a link leads to.  An error
\* return: _namei(), for the old name of link(), uses the NULL that follow_link()
\* returns for a link that leads nowhere (namei.c:523-528), which is left out.
Missing(p) ==
    /\ Open(p) /\ ToInode(p) /\ find_entry(loc[p].dir, Name(p)) = NoIno
    /\ ~Last(p) \/ loc[p].op # "creat" \/ ~loc[p].follow
    /\ Return(p, Put(Put(inode, loc[p].dir), loc[p].old))

\* iget(), and follow_link(): a link's name is looked up in the same directory
\* and what is found there is not followed again.
Follow(p) ==
    LET i == loc[p].ino IN
    /\ pc[p] = "get" /\ inode[i].kind = "symlink" /\ loc[p].follow
    /\ Goto(p, "walk", [loc[p] EXCEPT !.path = <<inode[i].to>> \o Tail(@), !.ino = NoIno,
                                      !.slot = 0, !.follow = FALSE])
    /\ UNCHANGED inode
Reached(p) == pc[p] = "get" /\ ~(inode[loc[p].ino].kind = "symlink" /\ loc[p].follow)
Entered(p) == Put(Get(inode, loc[p].ino), loc[p].dir)
Enter(p) ==
    /\ Reached(p) /\ ~Last(p)
    /\ inode' = Entered(p)
    /\ Goto(p, "walk", [loc[p] EXCEPT !.path = Tail(@), !.dir = loc[p].ino,
                                      !.ino = NoIno, !.slot = 0, !.follow = TRUE])

\* open_namei(): it may have asked for O_EXCL, or want to write a directory, or
\* find that the file was deleted meanwhile.
Opened(p) ==
    /\ Reached(p) /\ Last(p) /\ loc[p].op \in {"open", "creat"}
    /\ \/ /\ permission(loc[p].ino)
          /\ inode' = Entered(p)
          /\ Goto(p, "held", [NoLoc EXCEPT !.ino = loc[p].ino])
       \/ Return(p, Put(Entered(p), loc[p].ino))

Close(p) == pc[p] = "held" /\ Return(p, Put(inode, loc[p].ino))

\* link(): the old name has been found; the new one is looked up.
OldFound(p) ==
    /\ Reached(p) /\ Last(p) /\ loc[p].op = "oldname"
    /\ IF inode[loc[p].ino].kind = "dir" THEN Return(p, Put(Entered(p), loc[p].ino))
       ELSE /\ inode' = Get(Entered(p), Root)
            /\ \E path \in Paths :
                  Goto(p, "walk", [NoLoc EXCEPT !.op = "link", !.path = path,
                                                !.dir = Root, !.old = loc[p].ino])

----------------------------------------------------------------------------
(* Making names: open() with O_CREAT, mknod(), mkdir(), symlink(), link()  *)

Adding(d, n) == {q \in Procs : pc[q] = "add" /\ loc[q].dir = d /\ Name(q) = n}
Alone(p) == "create" \in Risks \/ Adding(loc[p].dir, Name(p)) = {}

Exists(p) ==
    /\ Open(p) /\ Last(p) /\ loc[p].op \in {"mknod", "mkdir", "link"}
    /\ find_entry(loc[p].dir, Name(p)) # NoIno
    /\ Return(p, Put(Put(inode, loc[p].dir), loc[p].old))

\* The new inode; the block of a directory or a link is allocated and written.
\* There may be no inode or no block left.
NewFile == [Free EXCEPT !.kind = "file", !.nlinks = 1, !.count = 1]
NewDir(d) == [Free EXCEPT !.kind = "dir", !.nlinks = 2, !.count = 1, !.up = d]
NewLink(n) == [Free EXCEPT !.kind = "symlink", !.nlinks = 1, !.count = 1, !.to = n]
New(d, op) == CASE op = "mkdir"   -> {NewDir(d)}
                [] op = "symlink" -> {NewLink(n) : n \in Names}
                [] OTHER          -> {NewFile}
NewInode(p) ==
    LET d == loc[p].dir  op == loc[p].op IN
    /\ Open(p) /\ Last(p) /\ op \in Makes
    /\ op # "symlink" => find_entry(d, Name(p)) = NoIno /\ Alone(p)
    /\ op = "creat" => loc[p].follow
    /\ \/ \E i \in Inos, r \in New(d, op) :
              /\ inode[i].kind = "free"
              /\ inode' = [inode EXCEPT ![i] = r]
              /\ Goto(p, IF op = "symlink" THEN "search" ELSE "add",
                      [loc[p] EXCEPT !.ino = i])
       \/ Return(p, Put(inode, d))

\* symlink() looks for the name when it has made the inode.
Search(p) ==
    /\ pc[p] = "search"
    /\ IF find_entry(loc[p].dir, Name(p)) = NoIno
       THEN Alone(p) /\ Goto(p, "add", loc[p]) /\ UNCHANGED inode
       ELSE Return(p, Put(Put(Unlinked(inode, loc[p].ino), loc[p].ino), loc[p].dir))
LinkSearch(p) ==
    /\ Open(p) /\ Last(p) /\ loc[p].op = "link"
    /\ find_entry(loc[p].dir, Name(p)) = NoIno /\ Alone(p)
    /\ Goto(p, "add", loc[p]) /\ UNCHANGED inode

\* add_entry(): the first entry that is free.
Room(d) == {s \in Slots : inode[d].ent[s].ino = NoIno}
\* The last entry is the first of another block, for which there may be no room.
NoRoom(p) ==
    /\ pc[p] = "add" /\ Room(loc[p].dir) \subseteq {NSlots}
    /\ IF loc[p].op = "link"
       THEN Return(p, Put(Put(inode, loc[p].dir), loc[p].old))
       ELSE Return(p, Put(Put([inode EXCEPT ![loc[p].ino].nlinks = 0], loc[p].ino),
                          loc[p].dir))
Entry(p, i) ==
    [inode EXCEPT ![loc[p].dir].ent[Min(Room(loc[p].dir))] = [name |-> Name(p), ino |-> i]]
Adds(p, ops) == pc[p] = "add" /\ Room(loc[p].dir) # {} /\ loc[p].op \in ops
Created(p) ==
    LET d == loc[p].dir  i == loc[p].ino IN
    /\ Adds(p, {"creat"})
    /\ inode' = Put(Entry(p, i), d) /\ Goto(p, "held", [NoLoc EXCEPT !.ino = i])
DirAdded(p) ==
    LET d == loc[p].dir  i == loc[p].ino IN
    /\ Adds(p, {"mkdir"})
    /\ Return(p, Put(Put([Entry(p, i) EXCEPT ![d].nlinks = @ + 1], d), i))
Added(p) ==
    LET d == loc[p].dir  i == loc[p].ino IN
    /\ Adds(p, {"mknod", "symlink"})
    /\ Return(p, Put(Put(Entry(p, i), d), i))

\* link() puts the directory, which may be written, before it counts the link.
LinkAdded(p) ==
    /\ Adds(p, {"link"})
    /\ inode' = Put(Entry(p, loc[p].old), loc[p].dir)
    /\ Goto(p, "linked", [NoLoc EXCEPT !.old = loc[p].old])
Linked(p) ==
    LET i == loc[p].old IN
    /\ pc[p] = "linked"
    /\ Return(p, Put([inode EXCEPT ![i].nlinks = @ + 1], i))

----------------------------------------------------------------------------
(* Removing names: unlink(), rmdir()                                       *)

Find(p) ==
    LET d == loc[p].dir  i == find_entry(d, Name(p)) IN
    /\ Open(p) /\ Last(p) /\ loc[p].op \in {"unlink", "rmdir"}
    /\ IF i = NoIno THEN Return(p, Put(inode, d))
       ELSE LET s == Min(Places(d, Name(p))) IN
            /\ "lookup" \in Risks \/ Clearing(d, s) = {}
            /\ Goto(p, "remove", [loc[p] EXCEPT !.ino = i, !.slot = s])
            /\ UNCHANGED inode

\* The inode is there; it is not what the call removes.
Refused(p) ==
    LET t == Get(inode, loc[p].ino) IN
    /\ pc[p] = "remove"
    /\ \/ loc[p].op = "unlink" /\ t[loc[p].ino].kind = "dir"
       \/ /\ loc[p].op = "rmdir"
          /\ t[loc[p].ino].kind # "dir" \/ t[loc[p].ino].count > 1 \/ loc[p].ino = loc[p].dir
    /\ Return(p, Put(Put(t, loc[p].ino), loc[p].dir))

NobodyLooks(p) == "lookup" \in Risks \/ Looking(loc[p].dir, loc[p].slot) = {}
\* A file between the entry and the count of link() keeps one of its names.
Counted(i) ==
    \/ "link" \in Risks
    \/ \A q \in Procs : pc[q] = "linked" /\ loc[q].old = i => inode[i].nlinks > 0
Gone(t, d, s) == [t EXCEPT ![d].ent[s] = NoEntry]

\* a mutant: unlink() takes directories.
unlinkDir(p) ==
    LET d == loc[p].dir  i == loc[p].ino
        t == [Gone(Get(inode, i), d, loc[p].slot) EXCEPT
                 ![i].nlinks = (IF @ = 0 THEN 1 ELSE @) - 1]
    IN  /\ pc[p] = "remove" /\ loc[p].op = "unlink"
        /\ NobodyLooks(p) /\ Counted(i)
        /\ Return(p, Put(Put(t, i), d))
\* "Deleting nonexistent file": then there was one link.
unlink(p) ==
    LET d == loc[p].dir  i == loc[p].ino
        t == [Gone(Get(inode, i), d, loc[p].slot) EXCEPT
                 ![i].nlinks = (IF @ = 0 THEN 1 ELSE @) - 1]
    IN  /\ pc[p] = "remove" /\ loc[p].op = "unlink" /\ inode[i].kind # "dir"
        /\ NobodyLooks(p) /\ Counted(i)
        /\ Return(p, Put(Put(t, i), d))

\* Nobody uses the directory; its block is read.
rmdir(p) ==
    LET i == loc[p].ino IN
    /\ pc[p] = "remove" /\ loc[p].op = "rmdir" /\ inode[i].kind = "dir"
    /\ inode[i].count = 0 /\ i # loc[p].dir /\ NobodyLooks(p)
    /\ inode' = Get(inode, i)
    /\ Goto(p, "empty", loc[p])

empty_dir(i) == \A s \in Slots : inode[i].ent[s].ino = NoIno
NotEmpty(p) ==
    /\ pc[p] = "empty" /\ ~empty_dir(loc[p].ino)
    /\ Return(p, Put(Put(inode, loc[p].ino), loc[p].dir))

\* a mutant: the parent keeps the link.
RemovedCounted(p) ==
    LET d == loc[p].dir  i == loc[p].ino
        t == [Gone(inode, d, loc[p].slot) EXCEPT ![i].nlinks = 0]
    IN  /\ pc[p] = "empty" /\ empty_dir(i) /\ NobodyLooks(p) /\ inode[i].count = 1
        /\ Return(p, Put(Put(t, d), i))
Removed(p) ==
    LET d == loc[p].dir  i == loc[p].ino
        t == [Gone(inode, d, loc[p].slot) EXCEPT ![i].nlinks = 0]
    IN  /\ pc[p] = "empty" /\ empty_dir(i) /\ NobodyLooks(p)
        /\ "rmdir" \in Risks \/ inode[i].count = 1
        /\ Return(p, Put(Put(Unlinked(t, d), d), i))

----------------------------------------------------------------------------
Next ==
    \E p \in Procs :
        \/ Call(p) \/ Closed(p) \/ Step(p) \/ Missing(p) \/ Follow(p) \/ Enter(p)
        \/ Opened(p) \/ Close(p) \/ OldFound(p)
        \/ Exists(p) \/ NewInode(p) \/ Search(p) \/ LinkSearch(p)
        \/ NoRoom(p) \/ Created(p) \/ DirAdded(p) \/ Added(p) \/ LinkAdded(p) \/ Linked(p)
        \/ Find(p) \/ Refused(p) \/ unlink(p)
        \/ rmdir(p) \/ NotEmpty(p) \/ Removed(p)

Spec == Init /\ [][Next]_vars

----------------------------------------------------------------------------
(* Properties                                                              *)

Used == {i \in Inos : inode[i].kind # "free"}
Naming(i) == {e \in Inos \X Slots : inode[e[1]].ent[e[2]].ino = i}
Below(i) == {d \in Used \ {Root} : inode[d].up = i /\ inode[d].nlinks > 0}
\* Those who have made an inode or an entry and not yet the other.
Making(i) == {p \in Procs : pc[p] \in {"search", "add"} /\ loc[p].ino = i}
Linking(i) == {p \in Procs : pc[p] = "linked" /\ loc[p].old = i}

\* i_nlinks is the number of names: entries, for a directory also "." and the
\* ".." of those below (namei.c:642, 830, 997, 1001, 1082, 1251), so that no file
\* is freed under a name and none stays without one.  A link() that is late with
\* its count (namei.c:1251) can only leave a file with too many.
NameCount(i) ==
    Cardinality(Naming(i)) + Cardinality(Making(i))
    + (IF inode[i].kind = "dir" /\ inode[i].nlinks > 0
       THEN 1 + Cardinality({d \in Below(i) : Making(d) = {}})
            + (IF i = Root THEN 1 ELSE 0)
       ELSE 0)
LinksExact ==
    \A i \in Used :
        LET links == inode[i].nlinks + Cardinality(Linking(i)) IN
        \/ links = NameCount(i)
        \/ "link" \in Risks /\ inode[i].kind # "dir" /\ links > NameCount(i)

\* A directory has a name once: find_entry() was called before add_entry() and
\* the process slept in between (namei.c:624, 1167, 1240).
UniqueNames ==
    \A d \in Used : \A s, t \in Slots :
        s # t /\ inode[d].ent[s].ino # NoIno => inode[d].ent[s].name # inode[d].ent[t].name

\* A name leads to an inode, and ".." to a directory that is still there.
NoDangling ==
    \A d \in Used :
        /\ \A s \in Slots : inode[d].ent[s].ino \in Used \cup {NoIno}
        /\ inode[d].kind = "dir" /\ inode[d].nlinks > 0
               => inode[d].up \in Used /\ inode[inode[d].up].nlinks > 0

\* A directory has one name, in its parent; a deleted one has no entries, so
\* that nothing goes with it (empty_dir(), permission()).
TreeOK ==
    \A d \in Used : inode[d].kind = "dir" =>
        /\ d # Root /\ inode[d].nlinks > 0 /\ Making(d) = {} =>
               \E s \in Slots : Naming(d) = {<<inode[d].up, s>>}
        /\ inode[d].nlinks = 0 => \A s \in Slots : inode[d].ent[s] = NoEntry

(* The directories are a tree, in which every name leads to an inode that   *)
(* is there.  It stays one although two processes may make the same name,   *)
(* which the code does not prevent (namei.c:611-632): that costs only that  *)
(* the name is there twice.                                                 *)
DirsOK ==
    /\ TypeOK /\ NoDangling /\ TreeOK
    /\ "create" \notin Risks => UniqueNames

\* Each path through the calls, also when one fails, puts the inodes it got.
Holding(i) ==
    Cardinality({p \in Procs : loc[p].dir = i})
    + Cardinality({p \in Procs : loc[p].ino = i /\ pc[p] \in {"search", "add", "empty", "held"}})
    + Cardinality({p \in Procs : loc[p].old = i})
    + (IF i = Root THEN 1 ELSE 0)
CountExact == \A i \in Inos : inode[i].count = Holding(i)

\* Both counts of an inode are right: of its names and of those who hold it.
CountsExact == LinksExact /\ CountExact
=============================================================================
