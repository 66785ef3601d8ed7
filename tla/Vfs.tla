---------------------------------- MODULE Vfs ----------------------------------
(***************************************************************************)
(* The virtual file system of kernel_fs: the tree of nodes, path lookup    *)
(* with symbolic links, and the two file systems that live in it, tmpfs    *)
(* and devtmpfs, with the archive that is unpacked at boot and the calls   *)
(* of kernel_syscall.                                                      *)
(*                                                                         *)
(* A node's handle is a raw pointer to a heap box that only the file       *)
(* system that made it may look into; boxes are numbered, and a freed one  *)
(* is gone from box.  Which file system is asked is decided by the number  *)
(* kept in the node, or in its parent.  When one is handed a box of the    *)
(* other's, or a freed one, ub is set and nothing more is explored.        *)
(*                                                                         *)
(* System calls run with interrupts disabled on the one processor that     *)
(* runs tasks, so each is one step.                                        *)
(***************************************************************************)
EXTENDS Integers, Sequences, FiniteSets, FiniteSetsExt, SequencesExt, Functions

CONSTANTS
    Paths,      \* the paths calls are made with: sequences of parts
    NewNames,   \* the names rename is given
    Devices,    \* names of the registered devices
    Archives,   \* the archives the boot may unpack
    Budget,     \* links one lookup follows at most: 8 in the code
    MaxFiles,   \* files open at a time
    Values,     \* what is written
    MaxOffset,  \* bound on the offsets of seeks and writes
    MaxCalls    \* bound on the calls

VARIABLES
    node,       \* the nodes that are in the tree or held by an open file
    box,        \* the boxes allocated by a file system and not freed
    files,      \* open files: [n: node, off: offset]
    archive,    \* the entries still to unpack
    text,       \* what was written to each file: ghost
    ub,         \* a file system was handed a box that is not its own
    last,       \* the last call: ghost
    calls       \* calls made so far

vars == <<node, box, files, archive, text, ub, last, calls>>

Root == 1
NoBox == 0
NoLink == <<>>
FileSystems == {"tmpfs", "devtmpfs"}
NotFound == -1
Invalid == -2
NotDir == -3
Exists == -4
Endless == -6   \* not an error of the code: the lookup never returns

ASSUME VfsAssumption ==
    /\ Budget \in Nat /\ MaxFiles \in Nat /\ MaxOffset \in Nat /\ MaxCalls \in Nat
    /\ \A p \in Paths : p \in Seq(STRING)
-----------------------------------------------------------------------------
(* Paths and lookup. *)

\* normalize_path: parts are kept, dropped, or drop the part before them.
Normalize(path) ==
    LET step(acc, p) == CASE p \in {"", "."} -> acc
                          [] p = ".." -> IF acc = <<>> THEN acc ELSE Front(acc)
                          [] OTHER -> Append(acc, p)
    IN  FoldLeft(step, <<>>, path)

\* vfs_child_find: the first child of the name, 0 when there is none.
ChildNamed(nd, n, name) ==
    LET found == {i \in DOMAIN nd[n].kids : nd[nd[n].kids[i]].name = name}
    IN  IF found = {} THEN 0 ELSE nd[n].kids[Min(found)]

\* A lookup deeper than this in links that lead to links does not return.
MaxNesting == 4

\* vfs_open, with vfs_resolve_symlink: a link is looked up by a call of
\* vfs_open that counts its links anew.
RECURSIVE Walk(_, _, _, _, _)
Walk(nd, n, parts, budget, nest) ==
    IF parts = <<>> THEN n
    ELSE LET c == ChildNamed(nd, n, Head(parts))
         IN  CASE c = 0 -> NotFound
               [] c # 0 /\ nd[c].type # "Symlink" -> Walk(nd, c, Tail(parts), budget, nest)
               [] c # 0 /\ nd[c].type = "Symlink" /\ budget = 0 -> Invalid
               [] c # 0 /\ nd[c].type = "Symlink" /\ budget > 0 /\ nest = 0 -> Endless
               [] OTHER ->
                    LET t == Walk(nd, Root, Normalize(nd[c].link), Budget, nest - 1)
                    IN  IF t < 0 THEN t ELSE Walk(nd, t, Tail(parts), budget - 1, nest)

Lookup(nd, path) == Walk(nd, Root, Normalize(path), Budget, MaxNesting)
-----------------------------------------------------------------------------
(* Making nodes.  A call under way is [nd, bx, err]. *)

Fresh(f) == IF DOMAIN f = {} THEN 1 ELSE Max(DOMAIN f) + 1

NewBox(fs, kind) == [fs |-> fs, kind |-> kind, data |-> <<>>]

BareNode(name, par, fs, type) ==
    [name |-> name, par |-> par, kids |-> <<>>, fs |-> fs, type |-> type, box |-> NoBox,
     link |-> NoLink, mnt |-> FALSE, size |-> 0]

\* vfs_child_append, then set_handle with a fresh box of the parent's file
\* system, which mkdir and mkfile of both file systems come down to.
AddChild(s, p, name, type, kind) ==
    LET id == Fresh(s.nd)
        b == Fresh(s.bx)
        fs == s.nd[p].fs
    IN  [s EXCEPT !.nd = [s.nd EXCEPT ![p].kids = Append(@, id)]
                          @@ (id :> [BareNode(name, p, fs, type) EXCEPT !.box = b]),
                  !.bx = s.bx @@ (b :> NewBox(fs, kind))]

\* vfs_mkdir makes every missing directory on the way and follows no link.
RECURSIVE Mkdir(_, _, _)
Mkdir(s, n, parts) ==
    IF parts = <<>> THEN s
    ELSE LET c == ChildNamed(s.nd, n, Head(parts))
         IN  CASE c = 0 -> Mkdir(AddChild(s, n, Head(parts), "Dir", "Dir"), Fresh(s.nd), Tail(parts))
               [] c # 0 /\ s.nd[c].type # "Dir" -> [s EXCEPT !.err = NotDir]
               [] OTHER -> Mkdir(s, c, Tail(parts))

\* vfs_mkfile: the parent may be a file, which then has children.
Mkfile(s, path) ==
    LET p == Lookup(s.nd, Front(Normalize(path)))
        name == Last(Normalize(path))
    IN  CASE p < 0 -> [s EXCEPT !.err = p]
          [] p > 0 /\ ChildNamed(s.nd, p, name) # 0 -> [s EXCEPT !.err = Exists]
          [] OTHER -> AddChild(s, p, name, "None", "File")

\* vfs_symlink: a file that is then called a link.
Symlink(s, target, path) ==
    LET made == Mkfile(s, path)
    IN  IF made.err # 0 THEN made
        ELSE [made EXCEPT !.nd[Fresh(s.nd)].type = "Symlink", !.nd[Fresh(s.nd)].link = target]

\* DevTmpFs::create_devices: a node for each device whose name is not taken.
AddDevices(s, n) ==
    FoldLeft(LAMBDA acc, d : IF ChildNamed(acc.nd, n, d) # 0 THEN acc
                             ELSE AddChild(acc, n, d, "Stream", "Device"),
             s, Devices)

\* vfs_mount: the file system's number and a new root box; the old box of the
\* node is forgotten, its children stay.
MountOn(s, n, fs) ==
    LET b == Fresh(s.bx)
        on == [s EXCEPT !.nd[n].fs = fs, !.nd[n].mnt = TRUE, !.nd[n].box = b, !.nd[n].type = "Dir",
                        !.bx = s.bx @@ (b :> NewBox(fs, "Dir"))]
    IN  IF fs = "devtmpfs" THEN AddDevices(on, n) ELSE on
-----------------------------------------------------------------------------
(* Removing nodes. *)

RECURSIVE Below(_, _)
Below(nd, n) == {n} \cup UNION {Below(nd, k) : k \in Range(nd[n].kids)}

Held(fl) == {fl[i].n : i \in DOMAIN fl}

\* A node lives as long as the tree or an open file holds it or what is
\* above it: the count of its Arc.
Collect(nd, fl) ==
    Restrict(nd, UNION {Below(nd, n) : n \in {Root} \cup (Held(fl) \cap DOMAIN nd)})

Free(bx, bs) == Restrict(bx, DOMAIN bx \ bs)

\* The boxes Tmpfs::unmount frees: the whole subtree's, whoever made them.
Unmounted(nd, n) ==
    IF nd[n].fs = "tmpfs" THEN {k \in Below(nd, n) : nd[k].box # NoBox} ELSE {k \in {n} : nd[k].box # NoBox}

DropHandles(nd, ns) == [k \in DOMAIN nd |-> IF k \in ns THEN [nd[k] EXCEPT !.box = NoBox] ELSE nd[k]]

Foreign(nd, bx, ns, fs) == \E k \in ns : nd[k].box \notin DOMAIN bx \/ bx[nd[k].box].fs # fs
-----------------------------------------------------------------------------
(* Actions. *)

Start == [nd |-> node, bx |-> box, err |-> 0]

\* The state after init_vfs: tmpfs on the root, devtmpfs on dev.
Booted ==
    LET bare == (Root :> [BareNode("/", 0, "none", "Dir") EXCEPT !.kids = <<>>])
        rooted == MountOn([nd |-> bare, bx |-> <<>>, err |-> 0], Root, "tmpfs")
        withDev == [rooted EXCEPT !.nd = [rooted.nd EXCEPT ![Root].kids = <<2>>]
                                         @@ (2 :> BareNode("dev", Root, "tmpfs", "Dir"))]
    IN  MountOn(withDev, 2, "devtmpfs")

Init ==
    /\ node = Booted.nd /\ box = Booted.bx
    /\ files = <<>> /\ text = <<>> /\ ub = FALSE /\ last = "boot" /\ calls = 0
    /\ archive \in Archives

Stored(old, off, v) ==
    [i \in 1 .. Max({Len(old), off + 1}) |->
        IF i = off + 1 THEN v ELSE IF i <= Len(old) THEN old[i] ELSE "0"]

\* Tmpfs::write of one unit: the file grows with zeros up to the offset.
TmpWrite(s, n, off, v) ==
    LET data == Stored(s.bx[s.nd[n].box].data, off, v)
    IN  [s EXCEPT !.bx[s.nd[n].box].data = data, !.nd[n].size = Len(data)]

Writable(nd, bx, n) == nd[n].box # NoBox /\ bx[nd[n].box].kind = "File" /\ nd[n].fs = "tmpfs"

FileWritten(s, n) == IF n > 0 /\ Writable(s.nd, s.bx, n) THEN TmpWrite(s, n, 0, "z") ELSE s

\* One entry of the archive; for a link the path and the contents are handed
\* to vfs_symlink in this order, as target and as path of the link.
Unpacked(s, e) ==
    CASE e.k = "dir" -> Mkdir(s, Root, Normalize(e.path))
      [] e.k = "link" -> Symlink(s, e.path, e.to)
      [] e.k = "file" -> FileWritten(Mkfile(s, e.path), Lookup(Mkfile(s, e.path).nd, e.path))

Unpack ==
    /\ archive # <<>>
    /\ \E s \in {Unpacked(Start, Head(archive))} :
        /\ node' = s.nd /\ box' = s.bx
        /\ text' = [n \in {k \in DOMAIN s.nd : Writable(s.nd, s.bx, k)} |-> s.bx[s.nd[n].box].data]
    /\ archive' = Tail(archive)
    /\ last' = "unpack"
    /\ UNCHANGED <<files, ub, calls>>

MayCall == archive = <<>> /\ calls < MaxCalls /\ ~ub

Called(call) == last' = call /\ calls' = calls + 1 /\ UNCHANGED archive

\* The file that is new since s0 holds nothing yet.
TextOf(nd, bx) ==
    [n \in {k \in DOMAIN nd : Writable(nd, bx, k)} |-> IF n \in DOMAIN text THEN text[n] ELSE <<>>]

\* sys_open: what is not found is made, if asked, and looked up again; it
\* stays when there is no descriptor left for it.
Opened(path, create, dir) ==
    LET n == Lookup(node, path)
    IN  IF n # NotFound \/ ~create THEN Start
        ELSE IF dir THEN Mkdir(Start, Root, Normalize(path)) ELSE Mkfile(Start, path)

Open ==
    /\ MayCall
    /\ \E path \in Paths, create, dir \in BOOLEAN : \E s \in {Opened(path, create, dir)} :
        LET n == Lookup(s.nd, path)
        IN  /\ (create \/ ~dir) /\ n # Endless
            /\ ((n > 0 /\ Len(files) < MaxFiles) \/ s.nd # node)
            /\ node' = s.nd /\ box' = s.bx /\ text' = TextOf(s.nd, s.bx)
            /\ files' = IF s.err = 0 /\ n > 0 /\ Len(files) < MaxFiles THEN Append(files, [n |-> n, off |-> 0]) ELSE files
    /\ Called("open")
    /\ UNCHANGED ub

Close ==
    /\ MayCall
    /\ \E i \in DOMAIN files :
        /\ files' = RemoveAt(files, i)
        /\ node' = Collect(node, files')
    /\ text' = Restrict(text, DOMAIN text \cap DOMAIN node')
    /\ Called("close")
    /\ UNCHANGED <<box, ub>>

\* FileHandle::write through VfsFile and vfs_write; a device answers for
\* itself, a directory, a dropped handle or a plain file of devtmpfs fails.
Write ==
    /\ MayCall
    /\ \E i \in DOMAIN files, v \in Values :
        LET f == files[i]
        IN  /\ f.off <= MaxOffset /\ Writable(node, box, f.n)
            /\ \E s \in {TmpWrite(Start, f.n, f.off, v)} : node' = s.nd /\ box' = s.bx
            /\ text' = [text EXCEPT ![f.n] = Stored(@, f.off, v)]
            /\ files' = [files EXCEPT ![i].off = f.off + 1]
    /\ Called("write")
    /\ UNCHANGED ub

Seek ==
    /\ MayCall
    /\ \E i \in DOMAIN files, off \in 0 .. MaxOffset :
        files[i].off # off /\ files' = [files EXCEPT ![i].off = off]
    /\ Called("seek")
    /\ UNCHANGED <<node, box, text, ub>>

NotChild(nd, p, n) == [nd EXCEPT ![p].kids = SelectSeq(@, LAMBDA k : k # n)]

DeleteKeepsHandle(s, n) == [s EXCEPT !.nd = NotChild(s.nd, s.nd[n].par, n), !.bx = Free(s.bx, {s.nd[n].box})]

DeleteNoFree(s, n) == [s EXCEPT !.nd = DropHandles(NotChild(s.nd, s.nd[n].par, n), {n})]

\* vfs_delete: the parent's file system drops the handle.
DeleteNode(s, n) ==
    [s EXCEPT !.nd = DropHandles(NotChild(s.nd, s.nd[n].par, n), {n}), !.bx = Free(s.bx, {s.nd[n].box})]

CanDelete(n) ==
    /\ n > 0 /\ n # Root /\ node[n].par \in DOMAIN node
    /\ node[n].type = "Dir" => node[n].kids = <<>>

Unlink ==
    /\ MayCall
    /\ \E path \in Paths :
        LET n == Lookup(node, path)
        IN  /\ CanDelete(n)
            /\ ub' = (node[n].box # NoBox /\ Foreign(node, box, {n}, node[node[n].par].fs))
            /\ IF ub' THEN UNCHANGED <<node, box, text>>
               ELSE \E s \in {DeleteNode(Start, n)} :
                        /\ node' = Collect(s.nd, files) /\ box' = s.bx
                        /\ text' = Restrict(text, (DOMAIN text \cap DOMAIN node') \ {n})
    /\ Called("unlink")
    /\ UNCHANGED files

\* vfs_rename: the node the path leads to gets the name, whoever has it.
Rename ==
    /\ MayCall
    /\ \E path \in Paths, name \in NewNames :
        LET n == Lookup(node, path)
        IN  n > 0 /\ node[n].name # name /\ node' = [node EXCEPT ![n].name = name]
    /\ Called("rename")
    /\ UNCHANGED <<box, files, text, ub>>

Mount ==
    /\ MayCall
    /\ \E path \in Paths, fs \in FileSystems :
        LET n == Lookup(node, path)
        IN  /\ n > 0
            /\ \E s \in {MountOn(Start, n, fs)} :
                node' = s.nd /\ box' = s.bx /\ text' = Restrict(text, DOMAIN text \ {n})
    /\ Called("mount")
    /\ UNCHANGED <<files, ub>>

Umount ==
    /\ MayCall
    /\ \E path \in Paths :
        LET n == Lookup(node, path)
            gone == Unmounted(node, n)
        IN  /\ n > 0
            /\ ub' = Foreign(node, box, gone, node[n].fs)
            /\ IF ub' THEN UNCHANGED <<node, box, text>>
               ELSE /\ node' = [DropHandles(node, gone) EXCEPT ![n].mnt = FALSE]
                    /\ box' = Free(box, {node[k].box : k \in gone})
                    /\ text' = Restrict(text, DOMAIN text \ gone)
    /\ Called("umount")
    /\ UNCHANGED files

Next == Unpack \/ Open \/ Close \/ Write \/ Seek \/ Unlink \/ Rename \/ Mount \/ Umount

Spec == Init /\ [][Next]_vars
-----------------------------------------------------------------------------
(* Properties. *)

\* Every variable has its type.
TypeOK ==
    /\ Root \in DOMAIN node
    /\ \A n \in DOMAIN node : Range(node[n].kids) \subseteq DOMAIN node /\ node[n].fs \in FileSystems
    /\ \A b \in DOMAIN box : box[b].fs \in FileSystems
    /\ Held(files) \subseteq DOMAIN node /\ Len(files) <= MaxFiles
    /\ ub \in BOOLEAN /\ calls \in 0 .. MaxCalls

\* The handle of every node that a path or an open file can reach is a live
\* box made by the file system that the node's number names: vfs_read and
\* vfs_write never hand a file system a pointer that is not its own, whatever
\* was mounted, unmounted, removed or renamed before.
HandleFits ==
    \A n \in DOMAIN node : node[n].box # NoBox =>
        node[n].box \in DOMAIN box /\ box[node[n].box].fs = node[n].fs

\* No two nodes hold the same box, so that no box is freed twice.
SoleOwner ==
    \A m, n \in DOMAIN node : m # n /\ node[m].box # NoBox => node[m].box # node[n].box

\* A file holds what was written to it through any of its open files, zeros
\* where a seek left a gap, and its size in the node, which stat reports, is
\* the length of that: never the data of another file, also when names were
\* exchanged and files removed and made again in between.
ReadsOwn ==
    \A n \in DOMAIN node : Writable(node, box, n) =>
        /\ n \in DOMAIN text /\ box[node[n].box].data = text[n]
        /\ node[n].size = Len(text[n])

\* The tree is a tree: a node in a list of children names the owner of that
\* list as its parent, which unlink relies on to find the list, and is in it
\* once.
TreeShape ==
    \A p \in DOMAIN node : \A i \in DOMAIN node[p].kids :
        LET k == node[p].kids[i]
        IN  /\ node[k].par = p
            /\ \A j \in DOMAIN node[p].kids : j # i => node[p].kids[j] # k

Twins(nd, p) == {name \in {nd[k].name : k \in Range(nd[p].kids)} :
                    Cardinality({k \in Range(nd[p].kids) : nd[k].name = name}) > 1}

Unowned(nd, bx) == DOMAIN bx \ {nd[n].box : n \in DOMAIN nd}

\* A box is lost only by a mount over a node that has one, or by removing a
\* file that was used as a directory: every other call frees what it detaches.
LostOnlyByMount ==
    [][Unowned(node', box') \subseteq Unowned(node, box) \/ last' = "mount"
        \/ \E n \in DOMAIN node \ DOMAIN node' : node[n].type # "Dir" /\ node[n].kids # <<>>]_vars

\* Nodes, handles and data belong together: the tree is a tree, each handle is a
\* live box of its node's file system and of no other node, and a file holds what
\* was written to it.
FilesKept == TypeOK /\ TreeShape /\ HandleFits /\ SoleOwner /\ ReadsOwn
================================================================================
