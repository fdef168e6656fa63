------------------------------- MODULE Inodes -------------------------------
(***************************************************************************)
(* The inode table with what it is read from and freed to: fs/inode.c,     *)
(* fs/super.c, fs/bitmap.c and fs/truncate.c.                              *)
(*                                                                         *)
(* The root file system has a directory, which can be mounted on, and      *)
(* regular files with one direct block; the other device has its root.     *)
(* The kernel is not preempted: a process keeps the processor (`cpu') from *)
(* one point where it may sleep to the next: a read or write of an inode's *)
(* block, a locked inode, a busy block, the buffer of a new block, and     *)
(* what a caller does between these functions.                             *)
(***************************************************************************)
EXTENDS Integers, FiniteSets

CONSTANTS Procs, NoProc,
          Inodes, NoInode,  \* the entries of inode_table
          Regular,          \* the regular files there can be
          First,            \* the one there is in the beginning
          Blocks, NoBlock,  \* the zones of the root file system
          Risks             \* what may happen although the code does not allow
                            \* for it: "unlink": a last link goes while another
                            \* process is between the name and the inode,
                            \* "sync": an inode is written while it is freed,
                            \* "umount": another process unmounts too,
                            \* or waits for the root of what is unmounted

dir == "directory"
top == "root of the mounted device"
none == "none"
Files == Regular \cup {dir, top}
Links == 0..1

ASSUME ProcsAssumption == IsFiniteSet(Procs) /\ NoProc \notin Procs
ASSUME TableAssumption == IsFiniteSet(Inodes) /\ NoInode \notin Inodes
ASSUME FilesAssumption == First \in Regular /\ Regular \cap {dir, top, none} = {}
ASSUME BlocksAssumption == NoBlock \notin Blocks
ASSUME RisksAssumption == Risks \subseteq {"unlink", "sync", "umount"}

VARIABLES
    cpu,      \* the process in the kernel, or NoProc
    tab,      \* inode_table
    disk,     \* the inodes on disk (in the buffer cache)
    imap,     \* the inodes that are allocated
    zmap,     \* the blocks that are allocated
    lost,     \* those that two processes extending one file have left behind
    named,    \* the files with a directory entry
    super,    \* the super block of the second device
    pc, loc,  \* where each process is, its local variables
    panicked

bitmaps == <<imap, zmap, lost>>
vars == <<cpu, tab, disk, bitmaps, named, super, pc, loc, panicked>>

\* An entry of the table; f stands for i_dev and i_num.
Unused == [f |-> none, count |-> 0, lock |-> FALSE, dirt |-> FALSE,
           mount |-> FALSE, links |-> 0, zone |-> NoBlock]
NoSuper == [here |-> FALSE, lock |-> FALSE, imount |-> NoInode]
\* f: the file iget() wants; ino: the inode it works on; empty: the one from
\* get_empty_inode(); zone: the block new_block() found; ret: where iput() or
\* truncate() returns to.
NoLoc == [f |-> none, ino |-> NoInode, empty |-> NoInode, zone |-> NoBlock,
          ret |-> "user"]

PCs == {"user", "get", "scan", "reading", "held", "create", "block", "iput",
        "iwrite", "truncate", "sync", "syncwrite", "mount", "rsuper", "mounting",
        "put_super"}

TypeOK ==
    /\ cpu \in Procs \cup {NoProc}
    /\ tab \in [Inodes -> [f : Files \cup {none}, count : Nat, lock : BOOLEAN,
                           dirt : BOOLEAN, mount : BOOLEAN, links : Links,
                           zone : Blocks \cup {NoBlock}]]
    /\ disk \in [Files -> [links : Links, zone : Blocks \cup {NoBlock}]]
    /\ imap \subseteq Files /\ zmap \subseteq Blocks /\ lost \subseteq Blocks /\ named \subseteq Files
    /\ super \in [here : BOOLEAN, lock : BOOLEAN, imount : Inodes \cup {NoInode}]
    /\ pc \in [Procs -> PCs]
    /\ loc \in [Procs -> [f : Files \cup {none}, ino : Inodes \cup {NoInode},
                          empty : Inodes \cup {NoInode},
                          zone : Blocks \cup {NoBlock},
                          ret : {"user", "held", "put_super"}]]
    /\ panicked \in BOOLEAN

\* mount_root(); the entry of the root directory itself is left out.
Init ==
    /\ cpu = NoProc
    /\ tab = [e \in Inodes |-> Unused]
    /\ named = {dir, First} /\ imap = {dir, top, First} /\ zmap = {} /\ lost = {}
    /\ disk = [f \in Files |-> [links |-> IF f \in imap THEN 1 ELSE 0,
                                zone |-> NoBlock]]
    /\ super = NoSuper
    /\ pc = [p \in Procs |-> "user"] /\ loc = [p \in Procs |-> NoLoc]
    /\ panicked = FALSE

----------------------------------------------------------------------------
(* Processes                                                               *)

At(p, l) == ~panicked /\ cpu \in {p, NoProc} /\ pc[p] = l

Goto(p, l, r) ==
    /\ pc' = [pc EXCEPT ![p] = l] /\ loc' = [loc EXCEPT ![p] = r] /\ cpu' = p
Sleep(p, l, r) ==
    /\ pc' = [pc EXCEPT ![p] = l] /\ loc' = [loc EXCEPT ![p] = r]
    /\ cpu' = NoProc
\* wait_on_inode() or lock_inode() finds the inode locked: p sleeps.
Waits(p) ==
    /\ cpu = p /\ cpu' = NoProc
    /\ UNCHANGED <<tab, disk, bitmaps, named, super, pc, loc, panicked>>

panic == panicked' = TRUE /\ UNCHANGED <<cpu, tab, disk, bitmaps, named, super, pc, loc>>

Set(e, r) == tab' = [tab EXCEPT ![e] = r]
\* The inode as a record of the disk, and the entry with what the disk has.
Stored(e) == [links |-> tab[e].links, zone |-> tab[e].zone]
Loaded(e, f) == [tab[e] EXCEPT !.links = disk[f].links, !.zone = disk[f].zone]

----------------------------------------------------------------------------
(* iget()                                                                  *)

\* A process looks a name up; the mounted root is found through the directory.
Open(p, f) ==
    /\ At(p, "user") /\ f \in named
    /\ Goto(p, "get", [NoLoc EXCEPT !.f = f])
    /\ UNCHANGED <<tab, disk, bitmaps, named, super, panicked>>

\* get_empty_inode(): an entry with i_count 0.  It is clean and unlocked
\* (IdleClean), so that the loop that writes it never runs.
Idle(e) == tab[e].count = 0 /\ ~tab[e].dirt /\ ~tab[e].lock
get_empty_inode(e) == Idle(e) /\ Set(e, [Unused EXCEPT !.count = 1])

Get(p) ==
    /\ At(p, "get")
    /\ \/ /\ \E e \in Inodes :
              /\ get_empty_inode(e)
              /\ Goto(p, "scan", [loc[p] EXCEPT !.empty = e])
          /\ UNCHANGED <<disk, bitmaps, named, super, panicked>>
       \/ /\ \A e \in Inodes : tab[e].count > 0   \* "No free inodes in mem"
          /\ panic

\* a mutant: an inode without users is looked up as if it were gone.
FoundUsed(f) == {e \in Inodes : tab[e].f = f /\ tab[e].count > 0}

Found(f) == {e \in Inodes : tab[e].f = f}

\* The inode is in the table: one more reference; the empty entry is put back.
Hit(p, e) ==
    /\ At(p, "scan") /\ e \in Found(loc[p].f) /\ ~tab[e].lock /\ ~tab[e].mount
    /\ tab' = [tab EXCEPT ![e].count = @ + 1, ![loc[p].empty].count = @ - 1]
    /\ Sleep(p, "held", [NoLoc EXCEPT !.ino = e])
    /\ UNCHANGED <<disk, bitmaps, named, super, panicked>>

\* Something is mounted on it: the reference is put, the search starts again.
Cross(p, e) ==
    /\ At(p, "scan") /\ e \in Found(loc[p].f) /\ ~tab[e].lock /\ tab[e].mount
    /\ Goto(p, "scan", [loc[p] EXCEPT !.f = top])
    /\ UNCHANGED <<tab, disk, bitmaps, named, super, panicked>>

\* The inode is locked: it may be another one when p runs again.
ScanWaits(p) ==
    /\ At(p, "scan") /\ \E e \in Found(loc[p].f) : tab[e].lock
    /\ Waits(p)

\* It is not there: the empty entry becomes it, read_inode() locks it and sleeps.
Miss(p) ==
    LET f == loc[p].f  e == loc[p].empty IN
    /\ At(p, "scan") /\ Found(f) = {}
    /\ \/ /\ f = top => super.here
          /\ Set(e, [tab[e] EXCEPT !.f = f, !.lock = TRUE])
          /\ Sleep(p, "reading", [NoLoc EXCEPT !.ino = e])
          /\ UNCHANGED <<disk, bitmaps, named, super, panicked>>
       \/ f = top /\ ~super.here /\ panic   \* "trying to read inode without dev"

read_inode(p) ==
    LET e == loc[p].ino IN
    /\ At(p, "reading")
    /\ Set(e, [Loaded(e, tab[e].f) EXCEPT !.lock = FALSE])
    /\ Sleep(p, "held", loc[p])
    /\ UNCHANGED <<disk, bitmaps, named, super, panicked>>

----------------------------------------------------------------------------
(* write_inode(): by iput() and by sync_inodes()                           *)

\* The inode is locked and its block is read.
Lock(p, e, l) ==
    /\ Set(e, [tab[e] EXCEPT !.lock = TRUE])
    /\ Sleep(p, l, loc[p])
    /\ UNCHANGED <<disk, bitmaps, named, super, panicked>>

\* The block is there; what is in the entry now is copied to it.
Written(p, l, next) ==
    LET e == loc[p].ino IN
    /\ At(p, l)
    /\ disk' = [f \in Files |-> IF f = tab[e].f THEN Stored(e) ELSE disk[f]]
    /\ Set(e, [tab[e] EXCEPT !.dirt = FALSE, !.lock = FALSE])
    /\ next
    /\ UNCHANGED <<bitmaps, named, super, panicked>>

\* Without that risk nobody syncs an inode that iput() is freeing.
Freeing(e) == "sync" \notin Risks /\ \E q \in Procs :
                  pc[q] = "truncate" /\ loc[q].ino = e /\ loc[q].ret # "held"
Sync(p, e) ==
    /\ At(p, "user") /\ tab[e].dirt
    /\ Goto(p, "sync", [NoLoc EXCEPT !.ino = e])
    /\ UNCHANGED <<tab, disk, bitmaps, named, super, panicked>>
SyncLocks(p) ==
    LET e == loc[p].ino IN
    /\ At(p, "sync")
    /\ \/ (tab[e].lock \/ Freeing(e)) /\ Waits(p)
       \/ ~tab[e].lock /\ tab[e].dirt /\ ~Freeing(e) /\ Lock(p, e, "syncwrite")
       \/ /\ ~tab[e].lock /\ ~tab[e].dirt /\ ~Freeing(e)
          /\ Sleep(p, "user", NoLoc)
          /\ UNCHANGED <<tab, disk, bitmaps, named, super, panicked>>
SyncDone(p) == Written(p, "syncwrite", Sleep(p, "user", NoLoc))

----------------------------------------------------------------------------
(* The bitmaps.  A bit is tested and changed without a sleep, and a caller *)
(* that finds it the wrong way round panics or complains.                  *)

\* new_block() then clears the block in a buffer, for which getblk() may sleep.
new_block(b) == b \notin zmap /\ zmap' = zmap \cup {b}
free_block(b) == zmap' = zmap \ {b}

new_inode(e, f) ==
    /\ Idle(e) /\ f \notin imap
    /\ imap' = imap \cup {f}
    /\ Set(e, [Unused EXCEPT !.f = f, !.count = 1, !.dirt = TRUE, !.links = 1])
\* "trying to free inode with count"
free_inode(e) ==
    /\ imap' = imap \ {tab[e].f}
    /\ panicked' = (tab[e].count > 1)
    /\ Set(e, Unused)

----------------------------------------------------------------------------
(* iput()                                                                  *)

Returns(p) == Sleep(p, loc[p].ret, NoLoc)

Close(p) ==
    /\ At(p, "held") /\ Goto(p, "iput", [loc[p] EXCEPT !.ret = "user"])
    /\ UNCHANGED <<tab, disk, bitmaps, named, super, panicked>>

\* The last link and the last reference are gone: truncate() and free_inode().
iput(p) ==
    LET e == loc[p].ino IN
    /\ At(p, "iput")
    /\ \/ tab[e].lock /\ Waits(p)
       \/ ~tab[e].lock /\ tab[e].count = 0 /\ panic  \* "trying to free free inode"
       \/ /\ ~tab[e].lock
          /\ \/ tab[e].count > 1
             \/ tab[e].count = 1 /\ tab[e].links = 1 /\ ~tab[e].dirt
          /\ Set(e, [tab[e] EXCEPT !.count = @ - 1])
          /\ Returns(p)
          /\ UNCHANGED <<disk, bitmaps, named, super, panicked>>
       \/ /\ ~tab[e].lock /\ tab[e].count = 1 /\ tab[e].links = 0
          /\ Goto(p, "truncate", loc[p])
          /\ UNCHANGED <<tab, disk, bitmaps, named, super, panicked>>
       \/ /\ ~tab[e].lock /\ tab[e].count = 1 /\ tab[e].links = 1 /\ tab[e].dirt
          /\ Lock(p, e, "iwrite")

\* "we can sleep - so do again".
IputWritten(p) == Written(p, "iwrite", Goto(p, "iput", loc[p]))

\* truncate(): free_block() fails while somebody uses the buffer of the block.
Busy(p) ==
    /\ At(p, "truncate") /\ tab[loc[p].ino].zone # NoBlock
    /\ Waits(p)

\* The block is free; the inode is too, if iput() asked for it.
Freed(p) ==
    LET e == loc[p].ino IN
    /\ At(p, "truncate")
    /\ free_block(tab[e].zone)
    /\ IF loc[p].ret = "held"
       THEN /\ Set(e, [tab[e] EXCEPT !.zone = NoBlock, !.dirt = TRUE])
            /\ Sleep(p, "held", [NoLoc EXCEPT !.ino = e])
            /\ UNCHANGED <<imap, panicked>>
       ELSE free_inode(e) /\ Returns(p)
    /\ UNCHANGED <<disk, lost, named, super>>

----------------------------------------------------------------------------
(* What callers do with an inode they hold                                 *)

Regularly(p) == At(p, "held") /\ tab[loc[p].ino].f \in Regular

\* Another write(), link(), chmod(): something in the inode changes.
Change(p) ==
    /\ Regularly(p) /\ ~tab[loc[p].ino].dirt
    /\ Set(loc[p].ino, [tab[loc[p].ino] EXCEPT !.dirt = TRUE])
    /\ UNCHANGED <<cpu, disk, bitmaps, named, super, pc, loc, panicked>>

\* open() with O_TRUNC.
Truncate(p) ==
    /\ Regularly(p)
    /\ Goto(p, "truncate", [loc[p] EXCEPT !.ret = "held"])
    /\ UNCHANGED <<tab, disk, bitmaps, named, super, panicked>>

\* create_block(): new_block() takes a bit and sleeps in getblk(), while
\* another process may do the same for the same place in the file.
\* a mutant: new_block() does not take the bit.
ExtendFree(p) ==
    LET e == loc[p].ino IN
    /\ Regularly(p) /\ tab[e].zone = NoBlock
    /\ \E b \in Blocks \ zmap : Sleep(p, "block", [loc[p] EXCEPT !.zone = b])
    /\ UNCHANGED <<tab, disk, bitmaps, named, super, panicked>>

Extend(p) ==
    LET e == loc[p].ino IN
    /\ Regularly(p) /\ tab[e].zone = NoBlock
    /\ \E b \in Blocks :
        /\ new_block(b)
        /\ Sleep(p, "block", [loc[p] EXCEPT !.zone = b])
    /\ UNCHANGED <<tab, disk, imap, lost, named, super, panicked>>
Extended(p) ==
    LET e == loc[p].ino IN
    /\ At(p, "block")
    /\ Set(e, [tab[e] EXCEPT !.zone = loc[p].zone, !.dirt = TRUE])
    /\ lost' = lost \cup ({tab[e].zone} \ {NoBlock})
    /\ Sleep(p, "held", [loc[p] EXCEPT !.zone = NoBlock])
    /\ UNCHANGED <<disk, imap, zmap, named, super, panicked>>

\* a mutant: the link is not taken away.
UnlinkKeeps(p) ==
    LET e == loc[p].ino IN
    /\ Regularly(p) /\ tab[e].f \in named
    /\ \A q \in Procs : pc[q] \in {"get", "scan"} => loc[q].f # tab[e].f
    /\ named' = named \ {tab[e].f}
    /\ Set(e, [tab[e] EXCEPT !.dirt = TRUE])
    /\ Goto(p, "iput", [loc[p] EXCEPT !.ret = "user"])
    /\ UNCHANGED <<disk, bitmaps, super, panicked>>

\* unlink(): the directory entry and the link go, the reference is put.
Unlink(p) ==
    LET e == loc[p].ino IN
    /\ Regularly(p) /\ tab[e].f \in named
    /\ \/ "unlink" \in Risks
       \/ \A q \in Procs : pc[q] \in {"get", "scan"} => loc[q].f # tab[e].f
    /\ named' = named \ {tab[e].f}
    /\ Set(e, [tab[e] EXCEPT !.links = 0, !.dirt = TRUE])
    /\ Goto(p, "iput", [loc[p] EXCEPT !.ret = "user"])
    /\ UNCHANGED <<disk, bitmaps, super, panicked>>

\* creat(): new_inode(), with no inode left or a new one, and add_entry().
NewInode(p) ==
    /\ At(p, "user")
    /\ \E e \in Inodes, f \in Regular :
        /\ new_inode(e, f)
        /\ Sleep(p, "create", [NoLoc EXCEPT !.ino = e])
    /\ UNCHANGED <<disk, zmap, lost, named, super, panicked>>
Named(p) ==
    LET e == loc[p].ino IN
    /\ At(p, "create")
    /\ \/ /\ named' = named \cup {tab[e].f}
          /\ Sleep(p, "held", loc[p])
          /\ UNCHANGED <<tab, disk, bitmaps, super, panicked>>
       \/ /\ Set(e, [tab[e] EXCEPT !.links = 0])    \* no room in the directory
          /\ Goto(p, "iput", loc[p])
          /\ UNCHANGED <<disk, bitmaps, named, super, panicked>>

----------------------------------------------------------------------------
(* mount() and umount()                                                    *)

\* The directory must have one user; read_super() may find the super block.
Mount(p) ==
    LET e == loc[p].ino IN
    /\ At(p, "held") /\ tab[e].f = dir /\ tab[e].count = 1
    /\ ~super.lock
    /\ IF super.here
       THEN Goto(p, "mounting", loc[p]) /\ UNCHANGED super
       ELSE /\ super' = [NoSuper EXCEPT !.here = TRUE, !.lock = TRUE]
            /\ Sleep(p, "rsuper", loc[p])
    /\ UNCHANGED <<tab, disk, bitmaps, named, panicked>>

\* The super block and the bitmaps have been read, or not.
read_super(p) ==
    /\ At(p, "rsuper")
    /\ \/ /\ super' = [super EXCEPT !.lock = FALSE]
          /\ Goto(p, "mounting", loc[p])
       \/ /\ super' = NoSuper
          /\ Goto(p, "iput", [loc[p] EXCEPT !.ret = "user"])
    /\ UNCHANGED <<tab, disk, bitmaps, named, panicked>>

Mounting(p) ==
    LET e == loc[p].ino IN
    /\ At(p, "mounting")
    /\ \/ /\ super.imount # NoInode \/ tab[e].mount
          /\ Goto(p, "iput", [loc[p] EXCEPT !.ret = "user"])
          /\ UNCHANGED <<tab, super>>
       \/ /\ super.imount = NoInode /\ ~tab[e].mount
          /\ super' = [super EXCEPT !.imount = e]
          /\ Set(e, [tab[e] EXCEPT !.mount = TRUE, !.dirt = TRUE])
          /\ Sleep(p, "user", NoLoc)
    /\ UNCHANGED <<disk, bitmaps, named, panicked>>

\* Nobody uses the device; the directory is put before s_imount is cleared.
Unmounting == {q \in Procs : loc[q].ret = "put_super" \/ pc[q] = "put_super"}
Entering == {q \in Procs : pc[q] = "scan" /\ loc[q].f = top}
\* a mutant: files of the device are not looked for.
UmountBusy(p) ==
    /\ At(p, "user") /\ super.here /\ ~super.lock /\ super.imount # NoInode
    /\ Unmounting \cup Entering = {}
    /\ Set(super.imount, [tab[super.imount] EXCEPT !.mount = FALSE])
    /\ Goto(p, "iput", [NoLoc EXCEPT !.ino = super.imount, !.ret = "put_super"])
    /\ UNCHANGED <<disk, bitmaps, named, super, panicked>>

Umount(p) ==
    /\ At(p, "user") /\ super.here /\ ~super.lock /\ super.imount # NoInode
    /\ \A e \in Inodes : tab[e].f = top => tab[e].count = 0
    /\ "umount" \in Risks \/ Unmounting \cup Entering = {}
    /\ Set(super.imount, [tab[super.imount] EXCEPT !.mount = FALSE])
    /\ Goto(p, "iput", [NoLoc EXCEPT !.ino = super.imount, !.ret = "put_super"])
    /\ UNCHANGED <<disk, bitmaps, named, super, panicked>>

put_super(p) ==
    /\ At(p, "put_super")
    /\ super' = NoSuper
    /\ Sleep(p, "user", NoLoc)
    /\ UNCHANGED <<tab, disk, bitmaps, named, panicked>>

----------------------------------------------------------------------------
Next ==
    \E p \in Procs :
        \/ \E f \in Files : Open(p, f)
        \/ \E e \in Inodes : Hit(p, e) \/ Cross(p, e) \/ Sync(p, e)
        \/ Get(p) \/ ScanWaits(p) \/ Miss(p) \/ read_inode(p)
        \/ SyncLocks(p) \/ SyncDone(p)
        \/ Close(p) \/ iput(p) \/ IputWritten(p) \/ Busy(p) \/ Freed(p)
        \/ Change(p) \/ Truncate(p) \/ Extend(p) \/ Extended(p) \/ Unlink(p)
        \/ NewInode(p) \/ Named(p)
        \/ Mount(p) \/ read_super(p) \/ Mounting(p) \/ Umount(p) \/ put_super(p)

Spec == Init /\ [][Next]_vars

----------------------------------------------------------------------------
(* Properties                                                              *)

\* An inode is in the table once: iget() (inode.c:337) sets i_dev and i_num
\* with no sleep since the search, and those who find it locked look again.
OneEntry == \A f \in Files : Cardinality({e \in Inodes : tab[e].f = f}) <= 1

\* i_count is the number of references: of the processes that hold the inode or
\* are about to, of get_empty_inode()'s callers and of the mount.
References(e) ==
    Cardinality({p \in Procs : loc[p].empty = e})
    + Cardinality({p \in Procs : loc[p].ino = e /\ pc[p] \notin {"sync", "syncwrite"}
                                 /\ loc[p].ret # "put_super"})
    + (IF super.imount = e /\ \A p \in Procs : pc[p] # "put_super" THEN 1 ELSE 0)
CountExact == \A e \in Inodes : tab[e].count = References(e)

\* An inode nobody refers to has been written and is not locked, so that
\* get_empty_inode() may forget it (inode.c:285) and umount() may drop the
\* super block it would be written with.
IdleClean ==
    \A e \in Inodes : tab[e].count = 0 =>
        /\ Idle(e)
        /\ tab[e].f # none => disk[tab[e].f] = Stored(e)

Current(f) ==
    IF \E e \in Found(f) : ~(\E p \in Procs : pc[p] = "reading" /\ loc[p].ino = e)
    THEN Stored(CHOOSE e \in Found(f) : TRUE)
    ELSE disk[f]
\* How many files and processes have the block.
Owners(b) == Cardinality({f \in imap : Current(f).zone = b})
             + Cardinality({p \in Procs : loc[p].zone = b})

(* A block is never in two files, nor in one and on its way into another,   *)
(* and is not free while it is (new_block(), free_block()); this holds      *)
(* although _bmap() (inode.c:111) lets two processes extend one file at the *)
(* same time.  What that costs is the block of the first of them: it stays  *)
(* allocated and nobody has it.  No other block is ever left like that.     *)
BlockOwned ==
    /\ \A b \in Blocks : Owners(b) = IF b \in zmap \ lost THEN 1 ELSE 0
    /\ lost \subseteq zmap

\* A name leads to an inode that is allocated and has a link; one without a
\* name has none, or is just being made (free_inode(), new_inode()).
NamesLead ==
    \A f \in Regular :
        /\ f \in named => f \in imap /\ Current(f).links = 1
        /\ f \in imap \ named =>
              \/ Current(f).links = 0
              \/ \E p \in Procs : pc[p] = "create" /\ tab[loc[p].ino].f = f

\* None of the panics of these files: an inode without a device (inode.c:410,
\* 453), a free inode put or freed while in use (inode.c:215, bitmap.c:173), a
\* table without a free entry (inode.c:294).
NoPanic == ~panicked

\* The table of inodes is right: each inode once, counted, written when it is no
\* longer used, and never one that makes the kernel panic.
TableOK == TypeOK /\ OneEntry /\ CountExact /\ IdleClean /\ NoPanic

\* While an inode of the mounted device is in use its super block stays.
InUseMounted ==
    (\E e \in Found(top) : tab[e].count > 0) => super.here /\ super.imount # NoInode
=============================================================================
