--------------------------------- MODULE FatFs ---------------------------------
(***************************************************************************)
(* The FAT32 file system of kernel_fs/src/fs/fatfs.rs under the part of    *)
(* the VFS that keeps its tree.  The disk is the allocation table and the  *)
(* clusters; a cluster holds ClusterSize units, each a directory entry or  *)
(* a piece of a file, and a zeroed unit is both an unused entry and zero   *)
(* data.  Every operation is the sequence of disk writes the code issues:  *)
(* it ends well, stops where no cluster is left, or is cut after any write *)
(* by a power failure, after which the disk is mounted again.              *)
(*                                                                         *)
(* A name is <<n, 0>> as a user gives it, or the alias <<n, k>> (n~k) that *)
(* stands beside a long name.  Long names fit one long-name entry.  The    *)
(* second copy of the table, which is written and never read, is left out; *)
(* a write of a cluster is one write.                                      *)
(***************************************************************************)
EXTENDS Integers, Sequences, FiniteSets, FiniteSetsExt, SequencesExt, Functions

CONSTANTS
    LastCluster,    \* data clusters are numbered 2 .. LastCluster, the root is 2
    ClusterSize,    \* units in a cluster
    ShortNames,     \* names that to_short_name accepts
    LongNames,      \* names that need a long-name entry
    Upper,          \* [ShortNames \cup LongNames -> their upper case]
    Extents,        \* the <<offset, length>> of the writes that are tried
    MaxCalls,       \* bound on the calls made
    MaxCrashes      \* bound on the power failures

VARIABLES
    disk,       \* [fat, unit]: the table and the units of each cluster
    tree,       \* the nodes of the VFS below and with the mount point, number 0
    text,       \* what each file should hold: ghost
    odd,        \* what has happened that some promises exclude: ghost
    last,       \* how the last step ended: ghost
    calls,      \* calls made so far
    crashes     \* power failures so far

vars == <<disk, tree, text, odd, last, calls, crashes>>

Clusters == 2 .. LastCluster
EOC == LastCluster + 1
Units == 1 .. ClusterSize
Names == ShortNames \cup LongNames
Values == {"x", "y"}

ASSUME FatFsAssumption ==
    /\ LastCluster \in Nat /\ LastCluster >= 2 /\ ClusterSize \in Nat /\ ClusterSize >= 2
    /\ Upper \in [Names -> Names] /\ ShortNames \cap LongNames = {}
    /\ Extents \subseteq Nat \X (Nat \ {0}) /\ MaxCalls \in Nat /\ MaxCrashes \in Nat
-----------------------------------------------------------------------------
(* Units and single writes. *)

Zero == [k |-> "zero"]
Datum(v) == [k |-> "data", v |-> v]
Entry(short, dir, first, size) ==
    [k |-> "short", name |-> short, dir |-> dir, first |-> first, size |-> size, del |-> FALSE]
LongEntry(name, short) == [k |-> "lfn", name |-> name, sum |-> short, del |-> FALSE]

IsFree(u) == u.k = "zero" \/ (u.k \in {"short", "lfn"} /\ u.del)

FatWrite(c, v) == [k |-> "fat", c |-> c, v |-> v]
UnitWrite(s, u) == [k |-> "unit", s |-> s, u |-> u]
ClusterWrite(c, us) == [k |-> "cluster", c |-> c, us |-> us]
ZeroWrite(c) == ClusterWrite(c, [i \in Units |-> Zero])

Do(d, w) ==
    CASE w.k = "fat" -> [d EXCEPT !.fat[w.c] = w.v]
      [] w.k = "unit" -> [d EXCEPT !.unit[w.s[1]][w.s[2]] = w.u]
      [] w.k = "cluster" -> [d EXCEPT !.unit[w.c] = w.us]

DoAll(d, ws) == FoldLeft(Do, d, ws)

\* A call under way: the disk so far, the writes so far, and its error.
Begin(d) == [d |-> d, w |-> <<>>, err |-> "", c |-> 0, f |-> 0, s |-> <<0, 0>>]
Put(r, ws) == [r EXCEPT !.d = DoAll(r.d, ws), !.w = r.w \o ws]
Fail(r, e) == [r EXCEPT !.err = e]
-----------------------------------------------------------------------------
(* Chains, allocation, directories. *)

RECURSIVE Chain(_, _, _)
Chain(fat, c, n) ==
    IF c \notin Clusters \/ n = 0 THEN <<>> ELSE <<c>> \o Chain(fat, fat[c], n - 1)

ChainOf(d, c) == Chain(d.fat, c, LastCluster)

AllocateUnmarked(r) ==
    LET free == {c \in Clusters : r.d.fat[c] = 0}
    IN  IF free = {} THEN Fail(r, "NoDev")
        ELSE [Put(r, <<ZeroWrite(Min(free))>>) EXCEPT !.c = Min(free)]

AllocateUnzeroed(r) ==
    LET free == {c \in Clusters : r.d.fat[c] = 0}
    IN  IF free = {} THEN Fail(r, "NoDev")
        ELSE [Put(r, <<FatWrite(Min(free), EOC)>>) EXCEPT !.c = Min(free)]

\* allocate_cluster: the first free cluster, marked as an end and zeroed.
Allocate(r) ==
    LET free == {c \in Clusters : r.d.fat[c] = 0}
    IN  IF free = {} THEN Fail(r, "NoDev")
        ELSE [Put(r, <<FatWrite(Min(free), EOC), ZeroWrite(Min(free))>>) EXCEPT !.c = Min(free)]

\* A new cluster behind the last one of a chain; linked once it is an end.
LinkAfter(r, end) ==
    IF r.err # "" THEN r ELSE Put(r, <<FatWrite(end, r.c), FatWrite(r.c, EOC)>>)

FreeChainShort(d, c) ==
    LET ch == ChainOf(d, c) IN [i \in 1 .. Len(ch) - 1 |-> FatWrite(ch[i], 0)]

\* free_chain reads the link before it clears it.
FreeChain(d, c) == LET ch == ChainOf(d, c) IN [i \in 1 .. Len(ch) |-> FatWrite(ch[i], 0)]

DirSlots(d, c) ==
    LET ch == ChainOf(d, c)
    IN  [i \in 1 .. Len(ch) * ClusterSize |->
            <<ch[(i - 1) \div ClusterSize + 1], ((i - 1) % ClusterSize) + 1>>]

UnitAt(d, s) == d.unit[s[1]][s[2]]

\* Both listings stop at the first unused entry of the directory.
ListedSlots(d, c) ==
    LET sl == DirSlots(d, c)
        ends == {i \in 1 .. Len(sl) : UnitAt(d, sl[i]).k = "zero"}
    IN  IF ends = {} THEN sl ELSE SubSeq(sl, 1, Min(ends) - 1)

\* list_dir_shortnames, the dot entries included.
ShortnamesIn(d, c) ==
    {UnitAt(d, s).name : s \in {t \in Range(ListedSlots(d, c)) :
        UnitAt(d, t).k = "short" /\ ~UnitAt(d, t).del}}

Dots == {<<".", 0>>, <<"..", 0>>}

\* list_dir_entries: a live long-name entry right before a short entry names
\* it, whatever short entry it was written for.
Listing(d, c) ==
    LET sl == ListedSlots(d, c)
        u(i) == UnitAt(d, sl[i])
        named(i) == IF i > 1 /\ u(i - 1).k = "lfn" /\ ~u(i - 1).del THEN u(i - 1).name ELSE u(i).name
        live == SelectSeq([i \in 1 .. Len(sl) |-> i],
                          LAMBDA i : u(i).k = "short" /\ ~u(i).del /\ named(i) \notin Dots)
    IN  [j \in 1 .. Len(live) |->
            [name |-> named(live[j]), dir |-> u(live[j]).dir, first |-> u(live[j]).first,
             size |-> u(live[j]).size, at |-> sl[live[j]]]]

\* name_eq compares without regard to case.
NameEq(m, n) == m[2] = n[2] /\ Upper[m[1]] = Upper[n[1]]

Exists(d, c, name) == \E i \in DOMAIN Listing(d, c) : NameEq(Listing(d, c)[i].name, name)

\* to_short_name, or to_short_name_auto for a name that needs a long entry.
ShortName(d, c, name) ==
    IF name[1] \in ShortNames THEN <<Upper[name[1]], 0>>
    ELSE <<name[1], Min({k \in 1 .. Cardinality(ShortnamesIn(d, c)) + 1 :
                            <<name[1], k>> \notin ShortnamesIn(d, c)})>>

EntryCount(name) == IF name[1] \in ShortNames THEN 1 ELSE 2
-----------------------------------------------------------------------------
(* Creating, writing, deleting and renaming, each up to its last write. *)

Windows(d, c, n) ==
    {i \in Units : i + n - 1 <= ClusterSize /\ \A j \in i .. i + n - 1 : IsFree(d.unit[c][j])}

Extend(r, end) ==
    IF r.err # "" THEN r ELSE [Put(LinkAfter(r, end), <<ZeroWrite(r.c)>>) EXCEPT !.s = <<r.c, 1>>]

\* find_free_dir_entries: n entries in a row in one cluster, the chain grown
\* by a cluster when there is no such row.
FindFree(r, dir, n) ==
    LET ch == ChainOf(r.d, dir)
        fit == {j \in DOMAIN ch : Windows(r.d, ch[j], n) # {}}
    IN  IF fit # {} THEN [r EXCEPT !.s = <<ch[Min(fit)], Min(Windows(r.d, ch[Min(fit)], n))>>]
        ELSE Extend(Allocate(r), Last(ch))

\* write_dot_entries in the new directory's cluster.
WithDots(r, parent) ==
    IF r.err # "" THEN r
    ELSE Put(r, <<UnitWrite(<<r.c, 1>>, Entry(<<".", 0>>, TRUE, r.c, 0)),
                  UnitWrite(<<r.c, 2>>, Entry(<<"..", 0>>, TRUE, parent, 0))>>)

WriteEntriesFirstOffset(r, name, entry) ==
    CASE r.err # "" -> r
      [] EntryCount(name) = 1 -> Put(r, <<UnitWrite(r.s, entry)>>)
      [] OTHER -> Put(r, <<UnitWrite(r.s, LongEntry(name, entry.name)),
                           UnitWrite(<<r.s[1], r.s[2] + 1>>, entry)>>)

\* The long-name entry first, the short entry that makes the file exist last.
WriteEntries(r, name, entry) ==
    CASE r.err # "" -> r
      [] EntryCount(name) = 1 -> Put(r, <<UnitWrite(r.s, entry)>>)
      [] OTHER -> [Put(r, <<UnitWrite(r.s, LongEntry(name, entry.name)),
                            UnitWrite(<<r.s[1], r.s[2] + 1>>, entry)>>)
                      EXCEPT !.s = <<r.s[1], r.s[2] + 1>>]

CreatedIn(r, parent, name, short, dir) ==
    IF dir THEN WriteEntries(WithDots(Allocate(r), parent), name,
                             Entry(short, TRUE, Allocate(r).c, 0))
    ELSE WriteEntries(r, name, Entry(short, FALSE, 0, 0))

\* create_entry; vfs_mkdir and vfs_mkfile have found no such name.
CreateEntry(r, parent, name, dir) ==
    LET found == FindFree(r, parent, EntryCount(name))
    IN  IF found.err # "" THEN found
        ELSE CreatedIn(found, parent, name, ShortName(r.d, parent, name), dir)

EnsureFirst(r) ==
    CASE r.f # 0 -> r
      [] Allocate(r).err # "" -> Allocate(r)
      [] OTHER -> [Allocate(r) EXCEPT !.f = Allocate(r).c]

\* ensure_cluster_for_index: the chain from r.f reaches cluster idx.
RECURSIVE Ensure(_, _)
Ensure(r, idx) ==
    IF r.err # "" \/ Len(ChainOf(r.d, r.f)) > idx THEN r
    ELSE Ensure(LinkAfter(Allocate(r), Last(ChainOf(r.d, r.f))), idx)

\* One cluster is read, changed where the write covers it, and written.
Overlay(r, idx, off, len, v) ==
    LET c == ChainOf(r.d, r.f)[idx + 1]
        covers(i) == idx * ClusterSize + i - 1 \in off .. off + len - 1
    IN  Put(r, <<ClusterWrite(c, [i \in Units |->
                    IF covers(i) THEN Datum(v) ELSE r.d.unit[c][i]])>>)

RECURSIVE WriteFrom(_, _, _, _, _)
WriteFrom(r, idx, off, len, v) ==
    CASE r.err # "" \/ idx * ClusterSize >= off + len -> r
      [] Ensure(EnsureFirst(r), idx).err # "" -> Ensure(EnsureFirst(r), idx)
      [] OTHER -> WriteFrom(Overlay(Ensure(EnsureFirst(r), idx), idx, off, len, v), idx + 1, off, len, v)

NewSize(n, off, len) == IF off + len > n.size THEN off + len ELSE n.size

\* The directory entry is brought up to date after the data.
UpdateEntry(r, n, size) ==
    IF r.err # "" THEN r
    ELSE Put(r, <<UnitWrite(n.at, [UnitAt(r.d, n.at) EXCEPT !.first = r.f, !.size = size])>>)

WriteFile(r, n, off, len, v) ==
    UpdateEntry(WriteFrom([r EXCEPT !.f = n.first], off \div ClusterSize, off, len, v),
                n, NewSize(n, off, len))

Deleted(d, s) == UnitWrite(s, [UnitAt(d, s) EXCEPT !.del = TRUE])

\* delete: the entry goes first, then the chain; long-name entries stay.
DeleteEntry(r, n) ==
    Put(r, <<Deleted(r.d, n.at)>> \o (IF n.first # 0 THEN FreeChain(r.d, n.first) ELSE <<>>))

\* delete_lfn_chain walks back on the disk, not along the directory.
RECURSIVE LfnBefore(_, _, _)
LfnBefore(d, s, sum) ==
    LET p == IF s[2] > 1 THEN <<s[1], s[2] - 1>> ELSE <<s[1] - 1, ClusterSize>>
    IN  IF p[1] < 2 \/ UnitAt(d, p).k # "lfn" \/ UnitAt(d, p).sum # sum THEN <<>>
        ELSE <<p>> \o LfnBefore(d, p, sum)

RemoveOld(r, s) ==
    IF r.err # "" THEN r
    ELSE LET long == LfnBefore(r.d, s, UnitAt(r.d, s).name)
         IN  Put(r, [i \in DOMAIN long |-> Deleted(r.d, long[i])] \o <<Deleted(r.d, s)>>)

\* rename: the new entry is complete before the old one goes.
RenameEntry(r, n, parent, name) ==
    LET placed == FindFree(r, parent, EntryCount(name))
    IN  RemoveOld(WriteEntries(placed, name, Entry(ShortName(r.d, parent, name), n.dir, n.first, n.size)),
                  n.at)
-----------------------------------------------------------------------------
(* The tree of the VFS: create_node, populate_dir and mount. *)

Node(name, par, e) ==
    [name |-> name, par |-> par, h |-> TRUE, dir |-> e.dir, first |-> e.first, size |-> e.size, at |-> e.at]
RootNode == Node(<<"/", 0>>, -1, [dir |-> TRUE, first |-> 2, size |-> 0, at |-> <<0, 0>>])

Kids(t, p) == {i \in DOMAIN t : t[i].par = p}
Called(t, p, name) == {i \in Kids(t, p) : t[i].name = name}
Fresh(t) == Max(DOMAIN t) + 1

RECURSIVE Populate(_, _, _, _)
Populate(d, t, p, es) ==
    IF es = <<>> THEN t
    ELSE LET e == Head(es)
             found == Called(t, p, e.name)
             id == IF found = {} THEN Fresh(t) ELSE Min(found)
             grown == IF found = {} THEN t @@ (id :> Node(e.name, p, e)) ELSE t
         IN  Populate(d, IF e.dir THEN Populate(d, grown, id, Listing(d, e.first)) ELSE grown, p, Tail(es))

Mount(d) == Populate(d, (0 :> RootNode), 0, Listing(d, 2))

\* unmount drops the handles and keeps the nodes; mount gives a handle to the
\* mount point and to names it does not find.
MountAgain(d, t) ==
    Populate(d, [i \in DOMAIN t |-> IF i = 0 THEN t[0] ELSE [t[i] EXCEPT !.h = FALSE]], 0, Listing(d, 2))
-----------------------------------------------------------------------------
(* The calls. *)

Dirs == {p \in DOMAIN tree : tree[p].h /\ tree[p].dir}
Nodes == {n \in DOMAIN tree \ {0} : tree[n].h}
Files == {n \in Nodes : ~tree[n].dir}

\* The calls that reach the disk: sys_open creates only what vfs_open does
\* not find, vfs_delete turns away a directory with children, rename a name
\* that is taken.
Creates ==
    {o \in [k : {"create"}, p : Dirs, name : Names \X {0}, dir : BOOLEAN] :
        Called(tree, o.p, o.name) = {} /\ ~Exists(disk, tree[o.p].first, o.name)}
Writes == [k : {"write"}, n : Files, ext : Extents, v : Values]
Deletes ==
    {o \in [k : {"delete"}, n : Nodes] :
        tree[o.n].dir => Kids(tree, o.n) = {} /\ Listing(disk, tree[o.n].first) = <<>>}
Renames ==
    {o \in [k : {"rename"}, n : Nodes, name : Names \X {0}] :
        /\ tree[tree[o.n].par].h
        /\ ~Exists(disk, tree[tree[o.n].par].first, o.name)}

Outcome(o) ==
    CASE o.k = "create" -> CreateEntry(Begin(disk), tree[o.p].first, o.name, o.dir)
      [] o.k = "write" -> WriteFile(Begin(disk), tree[o.n], o.ext[1], o.ext[2], o.v)
      [] o.k = "delete" -> DeleteEntry(Begin(disk), tree[o.n])
      [] o.k = "rename" -> RenameEntry(Begin(disk), tree[o.n], tree[tree[o.n].par].first, o.name)

Unknown == <<"?">>

\* What a file should hold after a write, the gap before it zero.
Written(old, off, len, v) ==
    IF old = Unknown THEN Unknown
    ELSE [i \in 1 .. (IF off + len > Len(old) THEN off + len ELSE Len(old)) |->
            IF i \in off + 1 .. off + len THEN v ELSE IF i <= Len(old) THEN old[i] ELSE "0"]

MayCall == calls < MaxCalls /\ odd \cap {"torn", "alias"} = {}

Ends(r) == /\ disk' = r.d
           /\ last' = IF r.err = "" THEN "ok" ELSE r.err
           /\ calls' = calls + 1
           /\ UNCHANGED crashes

Marks(name) == IF name[1] \in LongNames THEN {"long"} ELSE {}

\* vfs_mkdir and vfs_mkfile add the node before the file system is asked; it
\* stays, without a handle, when there was no room.
Create ==
    /\ MayCall
    /\ \E o \in Creates : \E r \in {Outcome(o)} :
        /\ Ends(r)
        /\ tree' = tree @@ (Fresh(tree) :>
               [Node(o.name, o.p, [dir |-> o.dir, first |-> IF o.dir THEN r.c ELSE 0, size |-> 0, at |-> r.s])
                    EXCEPT !.h = (r.err = "")])
        /\ text' = IF r.err = "" /\ ~o.dir THEN (r.s :> <<>>) @@ text ELSE text
        /\ odd' = odd \cup Marks(o.name)

Write ==
    /\ MayCall
    /\ \E o \in Writes : \E r \in {Outcome(o)} :
        /\ Ends(r)
        /\ IF r.err = ""
           THEN /\ tree' = [tree EXCEPT ![o.n].first = r.f,
                                        ![o.n].size = NewSize(tree[o.n], o.ext[1], o.ext[2])]
                /\ text' = [text EXCEPT ![tree[o.n].at] = Written(@, o.ext[1], o.ext[2], o.v)]
           ELSE tree' = tree /\ text' = [text EXCEPT ![tree[o.n].at] = Unknown]
        /\ UNCHANGED odd

Delete ==
    /\ MayCall
    /\ \E o \in Deletes : \E r \in {Outcome(o)} :
        /\ Ends(r)
        /\ tree' = Restrict(tree, DOMAIN tree \ {o.n})
        /\ text' = Restrict(text, DOMAIN text \ {tree[o.n].at})
        /\ UNCHANGED odd

MovedText(from, to) ==
    IF from \in DOMAIN text THEN (to :> text[from]) @@ Restrict(text, DOMAIN text \ {from}) ELSE text

Rename ==
    /\ MayCall
    /\ \E o \in Renames : \E r \in {Outcome(o)} :
        /\ Ends(r)
        /\ IF r.err = ""
           THEN /\ tree' = [tree EXCEPT ![o.n].name = o.name, ![o.n].at = r.s]
                /\ text' = MovedText(tree[o.n].at, r.s)
           ELSE UNCHANGED <<tree, text>>
        /\ odd' = odd \cup Marks(o.name)

HasAlias(t) == \E m, n \in DOMAIN t : m # n /\ t[m].h /\ t[n].h /\ t[m].at = t[n].at

\* vfs_open of a name the tree lacks and the directory has, in other letters.
Open ==
    /\ MayCall
    /\ \E p \in Dirs, name \in Names \X {0} : \E i \in DOMAIN Listing(disk, tree[p].first) :
        LET e == Listing(disk, tree[p].first)[i]
            grown == tree @@ (Fresh(tree) :> Node(name, p, e))
        IN  /\ Called(tree, p, name) = {} /\ NameEq(e.name, name)
            /\ tree' = IF e.dir THEN Populate(disk, grown, Fresh(tree), Listing(disk, e.first)) ELSE grown
            /\ odd' = IF HasAlias(tree') THEN odd \cup {"alias"} ELSE odd
    /\ last' = "open" /\ calls' = calls + 1
    /\ UNCHANGED <<disk, text, crashes>>

Remount ==
    /\ MayCall
    /\ tree' = MountAgain(disk, tree)
    /\ odd' = odd \cup {"remount"}
    /\ last' = "mount" /\ calls' = calls + 1
    /\ UNCHANGED <<disk, text, crashes>>

Live(d, s) == UnitAt(d, s).k = "short" /\ ~UnitAt(d, s).del

\* The power fails after some of the writes of a call; the disk is mounted.
PowerFailure ==
    /\ MayCall /\ crashes < MaxCrashes
    /\ \E o \in Creates \cup Writes \cup Deletes \cup Renames : \E r \in {Outcome(o)} :
       \E k \in 1 .. Len(r.w) - 1 : \E d \in {DoAll(disk, SubSeq(r.w, 1, k))} :
        /\ disk' = d /\ tree' = Mount(d)
        /\ text' = LET kept == Restrict(text, {s \in DOMAIN text : Live(d, s)})
                   IN  IF o.k = "write" THEN [kept EXCEPT ![tree[o.n].at] = Unknown] ELSE kept
        /\ odd' = (odd \ {"remount"}) \cup (IF "name" \in DOMAIN o THEN Marks(o.name) ELSE {}) \cup
                  IF o.k = "rename" /\ r.err = "" /\ Live(d, r.s) THEN {"torn"} ELSE {}
    /\ last' = "crash" /\ calls' = calls + 1 /\ crashes' = crashes + 1

Init ==
    /\ disk = [fat |-> [c \in Clusters |-> IF c = 2 THEN EOC ELSE 0],
               unit |-> [c \in Clusters |-> [i \in Units |-> Zero]]]
    /\ tree = Mount(disk)
    /\ text = << >> /\ odd = {} /\ last = "mount" /\ calls = 0 /\ crashes = 0

Next == Create \/ Write \/ Delete \/ Rename \/ Open \/ Remount \/ PowerFailure

Spec == Init /\ [][Next]_vars
-----------------------------------------------------------------------------
(* Properties. *)

\* Every variable has its type.
TypeOK ==
    /\ disk.fat \in [Clusters -> {0} \cup Clusters \cup {EOC}]
    /\ DOMAIN disk.unit = Clusters /\ \A c \in Clusters : DOMAIN disk.unit[c] = Units
    /\ 0 \in DOMAIN tree /\ \A n \in DOMAIN tree \ {0} : tree[n].par \in DOMAIN tree
    /\ odd \subseteq {"long", "torn", "alias", "remount"}
    /\ calls \in 0 .. MaxCalls /\ crashes \in 0 .. MaxCrashes

HasChain(n) == tree[n].h /\ tree[n].first # 0
ChainOfNode(n) == ChainOf(disk, tree[n].first)

\* The chain of every file and directory the kernel knows is made of
\* allocated clusters, visits none twice and runs into an end mark, and it
\* is long enough for the size in the entry: what free_chain, read and the
\* directory walks rely on when they follow links without a check.  It also
\* holds after a power failure between any two writes of any call.
ChainsSound ==
    \A n \in {m \in DOMAIN tree : HasChain(m)} :
        LET ch == ChainOfNode(n)
        IN  /\ ch # <<>> /\ disk.fat[Last(ch)] = EOC
            /\ \A i, j \in DOMAIN ch : i # j => ch[i] # ch[j]
            /\ tree[n].size <= Len(ch) * ClusterSize

\* No cluster belongs to two files: allocate_cluster never hands out a
\* cluster a chain still holds, whatever call was cut short before.  A rename
\* cut between its two entry writes, and a file opened under two spellings,
\* are the exceptions, and they are recorded when they happen.
NoCrossLinks ==
    odd \cap {"torn", "alias"} = {} =>
        \A m, n \in {k \in DOMAIN tree : HasChain(k)} :
            m # n => Range(ChainOfNode(m)) \cap Range(ChainOfNode(n)) = {}

\* The handle the kernel keeps for a file agrees with the directory entry it
\* points at, and that entry lies in the directory the tree says it is in:
\* write, delete and rename go through this offset without looking again.
HandleMatchesEntry ==
    \A n \in Nodes :
        LET u == UnitAt(disk, tree[n].at)
        IN  /\ tree[n].at[1] \in Range(ChainOf(disk, tree[tree[n].par].first))
            /\ Live(disk, tree[n].at)
            /\ u.dir = tree[n].dir /\ u.first = tree[n].first /\ u.size = tree[n].size

\* FatFs::read from offset 0 to the end of the file.
FileText(d, n) ==
    LET ch == ChainOf(d, n.first)
        unit(i) == UnitAt(d, <<ch[(i - 1) \div ClusterSize + 1], ((i - 1) % ClusterSize) + 1>>)
        held == Len(ch) * ClusterSize
    IN  [i \in 1 .. (IF n.size < held THEN n.size ELSE held) |->
            IF unit(i).k = "data" THEN unit(i).v ELSE IF unit(i).k = "zero" THEN "0" ELSE "entry"]

\* A file reads back as it was written, gaps as zeros, through every call on
\* other files, renames, and power failures in the middle of other calls.
ReadsBack ==
    odd \cap {"torn", "alias"} = {} =>
        \A n \in Files : tree[n].at \in DOMAIN text /\ text[tree[n].at] # Unknown =>
            FileText(disk, tree[n]) = text[tree[n].at]

\* As long as no long name was used, the children the kernel lists are the
\* entries a fresh mount would find: nothing is lost behind an unused entry
\* and nothing deleted comes back.
TreeIsOnDisk ==
    odd \subseteq {"torn"} =>
        \A p \in Dirs :
            {<<Upper[tree[n].name[1]], tree[n].at>> : n \in Kids(tree, p) \cap Nodes}
              = {<<Upper[e.name[1]], e.at>> : e \in Range(Listing(disk, tree[p].first))}

\* The clusters that list_dir_entries leads to from directory c.
RECURSIVE Listed(_, _)
Listed(d, c) ==
    Range(ChainOf(d, c)) \cup
    UNION {IF e.first = 0 THEN {} ELSE IF e.dir THEN Listed(d, e.first) ELSE Range(ChainOf(d, e.first)) :
              e \in Range(Listing(d, c))}

\* The same for all entries in use, those behind an unused entry included, where
\* the listings do not come.
InUse(d, c) ==
    {UnitAt(d, s) : s \in {t \in Range(DirSlots(d, c)) :
        Live(d, t) /\ UnitAt(d, t).name \notin Dots /\ UnitAt(d, t).first # 0}}
RECURSIVE Owned(_, _)
Owned(d, c) ==
    Range(ChainOf(d, c)) \cup
    UNION {IF u.dir THEN Owned(d, u.first) ELSE Range(ChainOf(d, u.first)) : u \in InUse(d, c)}

Hidden(d) == Owned(d, 2) \ Listed(d, 2)
Lost(d) == {c \in Clusters : d.fat[c] # 0} \ Owned(d, 2)

\* What a full disk or a power failure does not explain: a call that succeeds
\* loses only clusters that were hidden, whatever names were used and however
\* often the disk was mounted; what it allocates belongs to an entry in use, and
\* what it frees is free.  Clusters are hidden by a long name that has no room
\* behind the last entry of a cluster: it goes to the next cluster, past an
\* unused entry where the listings stop, and delete takes its directory for
\* empty.  Without long names nothing is hidden.
LeaksExplained ==
    [][/\ last' = "ok" /\ calls' > calls => Lost(disk') \subseteq Lost(disk) \cup Hidden(disk)
       /\ "long" \notin odd => Hidden(disk) = {}]_vars

\* The chains on the disk are whole and disjoint, whatever call was cut short.
ChainsKept == TypeOK /\ ChainsSound /\ NoCrossLinks

\* The tree in memory and the directories on the disk describe the same files.
TreeAgrees == HandleMatchesEntry /\ TreeIsOnDisk
================================================================================
