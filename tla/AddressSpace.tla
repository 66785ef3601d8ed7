---------------------------- MODULE AddressSpace ----------------------------
(***************************************************************************)
(* User address spaces: the page tables (mm/src/mapper.rs), the reverse    *)
(* map (rmap.rs), the memory sets built on them (memory_set/), and the     *)
(* callers: sbrk, fork, exec, the page fault hook, page migration and the  *)
(* drop of a reaped task.                                                  *)
(*                                                                         *)
(* Each runs on the bootstrap processor with interrupts off, as a system   *)
(* call or an exception, so each is one step.  Frames come from an         *)
(* allocator that follows Frames; since free frames differ in nothing the  *)
(* code reads, it hands out the lowest.  A page table is the frame it      *)
(* lives in; the tables of the kernel half, shared by all spaces, are left *)
(* out, and so are huge pages, which no caller maps.                       *)
(***************************************************************************)
EXTENDS Areas, SequencesExt

CONSTANTS
    Tasks,       \* task control blocks
    Boot,        \* the first task
    NFrames,     \* physical frames
    PageSize,    \* addresses per page (4096)
    NPages,      \* user pages
    Path,        \* page -> its indices <<p4, p3, p2, p1>>
    Images,      \* ELF files: [segs: Seq([lo, hi, file, flags]), heap: <<lo, hi>>]
    StackTop, StackBottom, StackLimit,   \* of every task at from_elf
    HeapMax,     \* heap_max
    Increments,  \* the arguments of sbrk
    Stores,      \* the pages tasks store to
    Accesses,    \* the addresses tasks touch
    MaxCalls     \* bound: system calls and faults in a behaviour

None == 0
Frame == 1 .. NFrames
UserPages == 0 .. NPages - 1
PathLength == 4

ASSUME AddressSpaceAssumption ==
    /\ Boot \in Tasks /\ NFrames \in Nat /\ PageSize \in Nat \ {0} /\ NPages \in Nat
    /\ \A p \in UserPages : Len(Path[p]) = PathLength
    /\ StackLimit <= StackBottom /\ StackBottom < StackTop /\ StackTop <= NPages * PageSize

VARIABLES
    mem,    \* frames and page tables: see EmptyMemory
    task,   \* the memory set and heap of each task: see NoTask
    calls   \* system calls and faults so far

vars == <<mem, task, calls>>

EmptyMemory ==
    [free |-> Frame,
     entry |-> <<>>,                         \* <<table, index>> -> [to, flags]
     count |-> [f \in Frame |-> 0],          \* PAGE_TABLE_COUNTS
     rmap |-> {},                            \* [frame, p4, page, flags]
     data |-> [f \in Frame |-> "zero"],      \* what a frame holds
     lost |-> {},        \* history: frames given up because they could not be mapped
     left |-> {},        \* history: <<p4, page>> left mapped by a growth that failed
     wild |-> FALSE]     \* a freed table has been walked

NoTask == [state |-> "none", p4 |-> None, vma |-> {}, bottom |-> None,
           heapStart |-> 0, heapEnd |-> 0]

AlignUp(a) == ((a + PageSize - 1) \div PageSize) * PageSize

\* The pages of [lo, hi), rounded outwards, in ascending order.
PageSeq(lo, hi) ==
    LET first == lo \div PageSize
    IN [i \in 1 .. (AlignUp(hi) \div PageSize) - first |-> first + i - 1]

(***************************************************************************)
(* Frames                                                                  *)
(***************************************************************************)
\* allocate_frame: the memory afterwards and the frame, None when none is free.
Alloc(m) ==
    IF m.free = {} THEN [m |-> m, f |-> None]
    ELSE [m |-> [m EXCEPT !.free = @ \ {Min(m.free)}], f |-> Min(m.free)]

\* deallocate_frame
Dealloc(m, f) ==
    [m EXCEPT !.free = @ \cup {f},
              !.entry = RestrictDomain(@, LAMBDA e : e[1] # f)]

(***************************************************************************)
(* Page tables (mapper.rs)                                                 *)
(***************************************************************************)
SetEntry(m, table, index, f, flags) ==
    [m EXCEPT !.entry = (<<table, index>> :> [to |-> f, flags |-> flags]) @@ @]
ClearEntry(m, table, index) ==
    [m EXCEPT !.entry = RestrictDomain(@, LAMBDA e : e # <<table, index>>)]

\* The table whose count get_next_table_by_index raises.  The new table
\* shadows the variable that named its parent: it is counted itself.
Counted(parent, child) == child

\* A table in the newly allocated frame a.f; r = [m, at, ok].
NewTable(r, index, a) ==
    IF a.f = None THEN [r EXCEPT !.m = a.m, !.ok = FALSE]
    ELSE [m |-> [SetEntry(a.m, r.at, index, a.f, {"W", "U"})
                    EXCEPT !.count[Counted(r.at, a.f)] = @ + 1, !.data[a.f] = "table"],
          at |-> a.f, ok |-> TRUE]

\* get_next_table_by_index
NextTable(r, index) ==
    IF ~r.ok THEN r
    ELSE IF <<r.at, index>> \in DOMAIN r.m.entry
    THEN [r EXCEPT !.at = r.m.entry[<<r.at, index>>].to]
    ELSE NewTable(r, index, Alloc(r.m))

\* The P1 on the way to a page, made where it is missing.
ReachP1(m, p4, page) ==
    NextTable(NextTable(NextTable([m |-> m, at |-> p4, ok |-> TRUE], Path[page][1]),
                        Path[page][2]), Path[page][3])

\* The entry of a page in the P1 that r reached.
MapIn(r, p4, page, f, flags) ==
    IF ~r.ok \/ <<r.at, Path[page][PathLength]>> \in DOMAIN r.m.entry
    THEN [m |-> r.m, ok |-> FALSE]
    ELSE [m |-> [SetEntry(r.m, r.at, Path[page][PathLength], f, flags)
                    EXCEPT !.count[r.at] = @ + 1,
                           !.rmap = @ \cup {[frame |-> f, p4 |-> p4, page |-> page,
                                             flags |-> flags]}],
          ok |-> TRUE]

\* map_page_inner.  Tables made on the way stay when the mapping fails.
MapPage(m, p4, page, f, flags) == MapIn(ReachP1(m, p4, page), p4, page, f, flags)

Step(m, at, index) ==
    IF <<at, index>> \in DOMAIN m.entry THEN m.entry[<<at, index>>].to ELSE None

\* The table at level k on the way to a page: 0 is the P4, 3 the P1, and 4
\* the page's own frame.
TableAt(m, p4, page, k) ==
    LET p3 == Step(m, p4, Path[page][1])
        p2 == Step(m, p3, Path[page][2])
        p1 == Step(m, p2, Path[page][3])
    IN CASE k = 0 -> p4 [] k = 1 -> p3 [] k = 2 -> p2 [] k = 3 -> p1
         [] k = 4 -> Step(m, p1, Path[page][4])

\* translate
Translate(m, p4, page) == TableAt(m, p4, page, PathLength)

EntryFlags(m, leaf) == IF leaf \in DOMAIN m.entry THEN m.entry[leaf].flags ELSE {}
LeafFlags(m, p4, page) ==
    EntryFlags(m, <<TableAt(m, p4, page, PathLength - 1), Path[page][PathLength]>>)

\* Tables found empty are freed, from the P1 up; r = [m, go].
ReclaimIn(r, table, parent, index) ==
    IF ~r.go \/ r.m.count[table] # 0 THEN [r EXCEPT !.go = FALSE]
    ELSE [m |-> [ClearEntry(Dealloc(r.m, table), parent, index) EXCEPT !.count[parent] = @ - 1],
          go |-> TRUE]
ReclaimTable(p4, page, r, k) ==
    ReclaimIn(r, TableAt(r.m, p4, page, k), TableAt(r.m, p4, page, k - 1), Path[page][k])

\* Mutant of ClearPage: the reverse map keeps the page.
ClearPageKeepsRmap(m, p4, page, f, p1) ==
    [ClearEntry(m, p1, Path[page][PathLength]) EXCEPT !.count[p1] = @ - 1]

\* The entry of a page goes, and with it its place in the reverse map.
ClearPage(m, p4, page, f, p1) ==
    [ClearEntry(m, p1, Path[page][PathLength])
        EXCEPT !.count[p1] = @ - 1,
               !.rmap = {e \in @ : <<e.frame, e.p4, e.page>> # <<f, p4, page>>}]

\* unmap_page_inner for a page in frame f, whose P1 is p1
UnmapIn(m, p4, page, f, p1) ==
    IF f = None THEN [m |-> m, f |-> None]
    ELSE [m |-> ReclaimTable(p4, page, ReclaimTable(p4, page, ReclaimTable(p4, page,
                     [m |-> ClearPage(m, p4, page, f, p1), go |-> TRUE], 3), 2), 1).m,
          f |-> f]
UnmapPage(m, p4, page) ==
    UnmapIn(m, p4, page, Translate(m, p4, page), TableAt(m, p4, page, PathLength - 1))

\* Frame f could not be mapped, and nobody frees it.
Lost(m, f) == [m EXCEPT !.lost = @ \cup {f}]

\* Pages that stay mapped below p4 although no area will hold them.
Left(m, p4, pages) == [m EXCEPT !.left = @ \cup {<<p4, pages[i]>> : i \in DOMAIN pages}]

\* Mutant of GiveBack: the frame is not freed.
GiveBackNot(m, u) == u.m

\* The frame of a page unmapped by u, if it was mapped.
GiveBack(m, u) == IF u.f = None THEN m ELSE Dealloc(u.m, u.f)
UnmapFree(m, p4, page) == GiveBack(m, UnmapPage(m, p4, page))

(***************************************************************************)
(* Memory sets                                                             *)
(***************************************************************************)
\* Mutant of FillPage: the frame is mapped as it is.
FillPageStale(m, f, content) == IF content = "zero" THEN m ELSE [m EXCEPT !.data[f] = content]

\* A frame is zeroed, then filled from the file or the parent's page.
FillPage(m, f, content) == [m EXCEPT !.data[f] = content]

RolledBack(m, p4, pages) ==
    FoldLeft(LAMBDA n, page : UnmapFree(n, p4, page), m, Reverse(pages))

\* The loops of push and from_elf over a range; r = [m, ok, done].  Frame f has
\* been mapped, as p says.  When it could not be, the pages before it are
\* unmapped, and f is not freed.
MapEnd(r, p4, page, f, p, content) ==
    IF ~p.ok THEN [r EXCEPT !.m = RolledBack(Lost(p.m, f), p4, r.done), !.ok = FALSE]
    ELSE [m |-> FillPage(p.m, f, content), ok |-> TRUE, done |-> Append(r.done, page)]

\* No frame left: the error is returned at once and the pages mapped so far stay.
MapNext(r, p4, page, a, flags, content) ==
    IF a.f = None THEN [r EXCEPT !.m = Left(a.m, p4, r.done), !.ok = FALSE]
    ELSE MapEnd(r, p4, page, a.f, MapPage(a.m, p4, page, a.f, flags), content)

\* A page holds what the file has for it, up to the address fileEnd, or zeros.
PageContent(page, fileEnd) == IF page * PageSize < fileEnd THEN "elf" ELSE "zero"

MapRange(m, p4, pages, flags, fileEnd) ==
    FoldLeft(LAMBDA r, page :
                IF r.ok THEN MapNext(r, p4, page, Alloc(r.m), flags, PageContent(page, fileEnd))
                ELSE r,
             [m |-> m, ok |-> TRUE, done |-> <<>>], pages)

\* The pages of the areas, in the order of for_each_in_order.
AreaPages(vma) ==
    SelectSeq(PageSeq(0, NPages * PageSize), LAMBDA p : Covered(vma, p * PageSize))

\* Drop: the pages of the areas, then the P4, whose entries are forgotten.
DropSet(m, p4, vma) ==
    Dealloc(FoldLeft(LAMBDA n, page : UnmapFree(n, p4, page), m, AreaPages(vma)), p4)

SegArea(seg) == Area((seg.lo \div PageSize) * PageSize, AlignUp(seg.hi), seg.flags)

\* A segment is mapped and becomes an area; r = [m, ok, vma].
AddSegment(p4, r, seg, mapped, ins) ==
    IF ~mapped.ok THEN [r EXCEPT !.m = mapped.m, !.ok = FALSE]
    ELSE [m |-> IF ins.ok THEN mapped.m ELSE RolledBack(mapped.m, p4, PageSeq(seg.lo, seg.hi)),
          ok |-> ins.ok, vma |-> ins.vma]

\* One loadable segment of from_elf.
LoadSegment(p4, r, seg) ==
    IF ~r.ok THEN r
    ELSE AddSegment(p4, r, seg,
                    MapRange(r.m, p4, PageSeq(seg.lo, seg.hi), seg.flags, seg.lo + seg.file),
                    InsertArea(r.vma, SegArea(seg)))

Stack == [lo |-> StackBottom, hi |-> StackTop, file |-> 0, flags |-> {"W", "U"}]

\* The segments and the stack, which is mapped like a segment with nothing from
\* the file, below a new P4.
LoadImage(m, p4, image) ==
    FoldLeft(LAMBDA acc, seg : LoadSegment(p4, acc, seg),
             [m |-> [m EXCEPT !.data[p4] = "table"], ok |-> TRUE, vma |-> {}],
             Append(image.segs, Stack))

\* Where the heap starts and ends: after the last segment without a section.
HeapOf(image) ==
    LET maxEnd == Max({0} \cup {image.segs[i].hi : i \in DOMAIN image.segs})
    IN IF image.heap[2] = 0 THEN <<AlignUp(maxEnd), AlignUp(maxEnd)>> ELSE image.heap

\* On an error the set built so far is dropped.
Built(p4, r, image) ==
    IF ~r.ok THEN [m |-> DropSet(r.m, p4, r.vma), ok |-> FALSE]
    ELSE [m |-> r.m, ok |-> TRUE,
          t |-> [state |-> "live", p4 |-> p4, vma |-> r.vma, bottom |-> StackBottom,
                 heapStart |-> HeapOf(image)[1], heapEnd |-> HeapOf(image)[2]]]

\* from_elf
FromElf(m, image) ==
    LET a == Alloc(m)
    IN IF a.f = None THEN [m |-> a.m, ok |-> FALSE]
       ELSE Built(a.f, LoadImage(a.m, a.f, image), image)

\* The copy of a page into frame f, which p has mapped.
CopyTo(p, f, content) ==
    IF p.ok THEN [m |-> FillPage(p.m, f, content), ok |-> TRUE]
    ELSE [m |-> Lost(p.m, f), ok |-> FALSE]
Content(m, f) == IF f = None THEN "zero" ELSE m.data[f]

\* One page of t copied below p4; acc = [m, ok].
CopyPage(acc, t, p4, page) ==
    LET b == Alloc(acc.m)
        area == CHOOSE x \in t.vma : InArea(x, page * PageSize)
    IN IF ~acc.ok THEN acc
       ELSE IF b.f = None THEN [m |-> b.m, ok |-> FALSE]
       ELSE CopyTo(MapPage(b.m, p4, page, b.f, area.flags), b.f,
                   Content(acc.m, Translate(acc.m, t.p4, page)))

\* fork: the areas are copied first, then every page of them, so that the
\* drop of a copy that ran out of frames finds the pages it has.
Forked(r, p4, t) ==
    IF ~r.ok THEN [m |-> DropSet(r.m, p4, t.vma), ok |-> FALSE]
    ELSE [m |-> r.m, ok |-> TRUE, t |-> [t EXCEPT !.p4 = p4]]
ForkSet(m, t) ==
    LET a == Alloc(m)
    IN IF a.f = None THEN [m |-> a.m, ok |-> FALSE]
       ELSE Forked(FoldLeft(LAMBDA acc, page : CopyPage(acc, t, a.f, page),
                            [m |-> [a.m EXCEPT !.data[a.f] = "table"], ok |-> TRUE],
                            AreaPages(t.vma)),
                   a.f, t)

(***************************************************************************)
(* System calls and exceptions                                             *)
(***************************************************************************)
Live(t) == task[t].state = "live"
Exists(t) == task[t].state # "none"

Init ==
    /\ \E image \in Images :
          \E r \in {FromElf(EmptyMemory, image)} :
             /\ r.ok
             /\ mem = r.m
             /\ task = [t \in Tasks |-> IF t = Boot THEN r.t ELSE NoTask]
    /\ calls = 0

\* The bound, and the memory still makes sense.
Call ==
    /\ calls < MaxCalls /\ calls' = calls + 1
    /\ ~mem.wild

\* sys_fork: TaskControlBlock::fork, whose heap values are the parent's.
Fork(t, c) ==
    /\ Call
    /\ Live(t) /\ ~Exists(c)
    /\ \E r \in {ForkSet(mem, task[t])} :
          /\ mem' = r.m
          /\ task' = IF r.ok THEN [task EXCEPT ![c] = r.t] ELSE task

\* sys_exec: the new set is complete and active before the old is dropped.
Exec(t, image) ==
    /\ Call
    /\ Live(t)
    /\ \E r \in {FromElf(mem, image)} :
          /\ mem' = IF r.ok THEN DropSet(r.m, task[t].p4, task[t].vma) ELSE r.m
          /\ task' = IF r.ok THEN [task EXCEPT ![t] = r.t] ELSE task

\* The growing half of sys_sbrk: map_user_range and push, which returns at once
\* when the area cannot be inserted.
Grown(t, newEnd, mapped, ins) ==
    /\ mem' = IF mapped.ok /\ ~ins.ok THEN Left(mapped.m, task[t].p4, mapped.done) ELSE mapped.m
    /\ task' = IF ~mapped.ok THEN task
               ELSE IF ~ins.ok THEN [task EXCEPT ![t].vma = ins.vma]
               ELSE [task EXCEPT ![t].vma = ins.vma, ![t].heapEnd = newEnd]
Grow(t, newEnd) ==
    LET first == AlignUp(task[t].heapEnd)
        flags == {"W", "U", "NX"}
    IN IF AlignUp(newEnd) = first
       THEN mem' = mem /\ task' = [task EXCEPT ![t].heapEnd = newEnd]
       ELSE \E mapped \in {MapRange(mem, task[t].p4, PageSeq(first, AlignUp(newEnd)), flags, 0)} :
               Grown(t, newEnd, mapped,
                     InsertArea(task[t].vma, Area(first, AlignUp(newEnd), flags)))

\* After a page that was not mapped, those already unmapped are mapped again
\* to fresh frames, as long as there are any.
Remapped(m, p4, pages) ==
    FoldLeft(LAMBDA r, page :
                LET a == Alloc(r.m) IN
                IF ~r.ok \/ a.f = None THEN [m |-> a.m, ok |-> FALSE]
                ELSE LET p == MapPage(FillPage(a.m, a.f, "zero"), p4, page, a.f, {"W", "U", "NX"})
                     IN [m |-> IF p.ok THEN p.m ELSE Lost(p.m, a.f), ok |-> TRUE],
             [m |-> m, ok |-> TRUE], Reverse(pages)).m

\* Mutant of ShrinkPages: the page the new break lies in goes too.
ShrinkPagesDown(t, newEnd) == PageSeq(newEnd, AlignUp(task[t].heapEnd))

ShrinkPages(t, newEnd) == PageSeq(AlignUp(newEnd), AlignUp(task[t].heapEnd))

\* The shrinking half.  The areas are left as they are.
ShrinkNext(acc, p4, page) ==
    IF ~acc.ok THEN acc
    ELSE IF Translate(acc.m, p4, page) = None
    THEN [acc EXCEPT !.m = Remapped(@, p4, acc.done), !.ok = FALSE]
    ELSE [m |-> UnmapFree(acc.m, p4, page), ok |-> TRUE, done |-> Append(acc.done, page)]
Shrink(t, newEnd) ==
    \E r \in {FoldLeft(LAMBDA acc, page : ShrinkNext(acc, task[t].p4, page),
                       [m |-> mem, ok |-> TRUE, done |-> <<>>], ShrinkPages(t, newEnd))} :
       /\ mem' = r.m
       /\ task' = IF r.ok THEN [task EXCEPT ![t].heapEnd = newEnd] ELSE task

Saturated(a) == IF a < 0 THEN 0 ELSE a

\* sys_sbrk
Sbrk(t, inc) ==
    LET newEnd == Saturated(task[t].heapEnd + inc) IN
    /\ Call
    /\ Live(t) /\ inc # 0
    /\ newEnd >= task[t].heapStart /\ newEnd <= HeapMax
    /\ IF inc > 0 THEN Grow(t, newEnd) ELSE Shrink(t, newEnd)

\* What the page tables refuse.
Faults(t, page, access) ==
    \/ Translate(mem, task[t].p4, page) = None
    \/ access = "write" /\ "W" \notin LeafFlags(mem, task[t].p4, page)
    \/ access = "fetch" /\ "NX" \in LeafFlags(mem, task[t].p4, page)

\* What handle_page_fault allows in an area.
Allows(area, access) ==
    /\ access = "write" => "W" \in area.flags
    /\ access = "fetch" => "NX" \notin area.flags

\* A zeroed frame at a page, for a fault; when it cannot be mapped it is lost.
FaultIn(page, p4, flags) ==
    LET a == Alloc(mem)
    IN IF a.f = None THEN [m |-> a.m, ok |-> FALSE]
       ELSE LET p == MapPage(FillPage(a.m, a.f, "zero"), p4, page, a.f, flags)
            IN IF p.ok THEN p ELSE [m |-> Lost(p.m, a.f), ok |-> FALSE]

\* The areas after the stack has grown down to a page.
GrownStack(t, page) ==
    InsertArea(task[t].vma, Area(page * PageSize, task[t].bottom, {"W", "U"}))

Refused(t, m, vma) == [m |-> m, ok |-> FALSE, vma |-> vma, bottom |-> task[t].bottom]

\* try_grow_stack: one page is mapped and everything from it up to the old
\* bottom becomes stack.
StackGrown(t, page, r, ins) ==
    IF ~r.ok THEN Refused(t, r.m, task[t].vma)
    ELSE IF ~ins.ok THEN Refused(t, UnmapFree(r.m, task[t].p4, page), ins.vma)
    ELSE [m |-> r.m, ok |-> TRUE, vma |-> ins.vma, bottom |-> page * PageSize]
StackFault(t, addr) ==
    IF addr >= StackTop \/ addr < StackLimit \/ addr >= task[t].bottom
    THEN Refused(t, mem, task[t].vma)
    ELSE StackGrown(t, addr \div PageSize, FaultIn(addr \div PageSize, task[t].p4, {"W", "U"}),
                    GrownStack(t, addr \div PageSize))

Filled(t, r) == [m |-> r.m, ok |-> r.ok, vma |-> task[t].vma, bottom |-> task[t].bottom]

\* handle_page_fault
Resolve(t, addr, access) ==
    LET page == addr \div PageSize
        areas == FindContaining(task[t].vma, addr)
        area == CHOOSE a \in areas : TRUE
    IN IF Translate(mem, task[t].p4, page) # None THEN Refused(t, mem, task[t].vma)
       ELSE IF areas = {} THEN StackFault(t, addr)
       ELSE IF ~Allows(area, access) THEN Refused(t, mem, task[t].vma)
       ELSE Filled(t, FaultIn(page, task[t].p4, area.flags))

\* The fault and the hook: a fault that cannot be resolved kills the task.
PageFault(t, addr, access) ==
    /\ Call
    /\ Live(t) /\ Faults(t, addr \div PageSize, access)
    /\ \E r \in {Resolve(t, addr, access)} :
          /\ mem' = r.m
          /\ task' = [task EXCEPT ![t].vma = r.vma, ![t].bottom = r.bottom,
                                  ![t].state = IF r.ok THEN "live" ELSE "dead"]

\* The task stores to one of its pages.
Write(t, page) ==
    /\ Call
    /\ Live(t) /\ ~Faults(t, page, "write")
    /\ mem.data[Translate(mem, task[t].p4, page)] # "own"
    /\ mem' = FillPage(mem, Translate(mem, task[t].p4, page), "own")
    /\ UNCHANGED task

\* sys_exit; the memory set stays until the parent has waited.
Exit(t) ==
    /\ Call
    /\ Live(t)
    /\ task' = [task EXCEPT ![t].state = "dead"]
    /\ UNCHANGED mem

\* The last reference to a task goes: MemorySet::drop.
Drop(t) ==
    /\ Call
    /\ task[t].state = "dead"
    /\ mem' = DropSet(mem, task[t].p4, task[t].vma)
    /\ task' = [task EXCEPT ![t] = NoTask]

Roots == {task[t].p4 : t \in {u \in Tasks : Exists(u)}}

\* The page of e, unmapped by u, is mapped to frame f, or else where it was.
Moved(e, f, u, p) ==
    IF p.ok THEN Dealloc(p.m, u.f) ELSE Dealloc(MapPage(p.m, e.p4, e.page, u.f, e.flags).m, f)
MoveTo(e, f, u) ==
    IF u.f = None THEN Dealloc(u.m, f)
    ELSE Moved(e, f, u, MapPage(u.m, e.p4, e.page, f, e.flags))

\* sys_migrate_one: migrate_one_user_page moves the page in the lowest frame
\* the reverse map knows, unless that frame is free, wherever the reverse map
\* says it is mapped.
MigrateOne ==
    LET e == CHOOSE x \in mem.rmap : \A y \in mem.rmap : x.frame <= y.frame
        a == Alloc(mem)
    IN /\ Call
       /\ mem.rmap # {}
       /\ mem' = IF e.frame \in mem.free \/ a.f = None THEN mem
                 ELSE IF e.p4 \notin Roots THEN [mem EXCEPT !.wild = TRUE]
                 ELSE MoveTo(e, a.f, UnmapPage(FillPage(a.m, a.f, mem.data[e.frame]),
                                               e.p4, e.page))
       /\ UNCHANGED task

Next ==
    \/ \E t, c \in Tasks : Fork(t, c)
    \/ \E t \in Tasks, image \in Images : Exec(t, image)
    \/ \E t \in Tasks, inc \in Increments : Sbrk(t, inc)
    \/ \E t \in Tasks, addr \in Accesses, access \in {"read", "write", "fetch"} :
          PageFault(t, addr, access)
    \/ \E t \in Tasks, page \in Stores : Write(t, page)
    \/ \E t \in Tasks : Exit(t)
    \/ \E t \in Tasks : Drop(t)
    \/ MigrateOne

Spec == Init /\ [][Next]_vars

(***************************************************************************)
(* Properties                                                              *)
(***************************************************************************)
Existing == {t \in Tasks : Exists(t)}
Mapped(t) == {p \in UserPages : Translate(mem, task[t].p4, p) # None}

\* What a space uses its frames for; a table serves many pages.
Uses(t) ==
    LET tables == {TableAt(mem, task[t].p4, p, k) : p \in UserPages, k \in 0 .. 3} \ {None}
    IN {[task |-> t, frame |-> f, page |-> -1] : f \in tables}
       \cup {[task |-> t, frame |-> Translate(mem, task[t].p4, p), page |-> p] : p \in Mapped(t)}

TypeOK ==
    /\ mem.free \subseteq Frame
    /\ \A e \in DOMAIN mem.entry : e[1] \in Frame \ mem.free /\ mem.entry[e].to \in Frame
    /\ mem.count \in [Frame -> Nat]
    /\ \A t \in Tasks : task[t].state \in {"none", "live", "dead"} /\ (Exists(t) <=> task[t].p4 \in Frame)

\* No frame serves twice: not as page tables or pages of two spaces, not as a
\* table and a page, not as two pages, and never while it is free.  Forking,
\* migrating, rolling back and dropping move frames between all of these.
FramesDistinct ==
    LET uses == UNION {Uses(t) : t \in Existing} IN
    /\ Cardinality({u.frame : u \in uses}) = Cardinality(uses)
    /\ \A u \in uses : u.frame \notin mem.free

\* What the reverse map should list, and what it lists beyond that.
Exact ==
    UNION {{[frame |-> Translate(mem, task[t].p4, p), p4 |-> task[t].p4, page |-> p,
             flags |-> LeafFlags(mem, task[t].p4, p)] : p \in Mapped(t)} : t \in Existing}
Stale == mem.rmap \ Exact

\* The reverse map lists every mapped page, also after loads, forks, faults and
\* growths that failed.  What else it lists are pages that push or from_elf left
\* mapped outside every area when frames ran out, so that the drop of their
\* space did not find them: only through these does migration, which trusts the
\* reverse map, touch a space that is gone.
RmapExact ==
    /\ Exact \subseteq mem.rmap
    /\ \A e \in Stale : <<e.p4, e.page>> \in mem.left
    /\ mem.wild => mem.left # {}

\* Every mapped page lies in an area with the flags of its mapping, except those
\* that push or from_elf left when frames ran out or the area was refused: all
\* the other failures leave nothing behind that a drop would not find.
MappedInArea ==
    \A t \in Existing : \A p \in Mapped(t) :
        \/ <<task[t].p4, p>> \in mem.left
        \/ \E a \in task[t].vma :
              InArea(a, p * PageSize) /\ a.flags = LeafFlags(mem, task[t].p4, p)

\* Every page of the heap below the break is mapped, whatever has failed, so
\* that the break can always be lowered.
HeapMapped ==
    \A t \in Existing :
        /\ task[t].heapStart <= task[t].heapEnd
        /\ ToSet(PageSeq(task[t].heapStart, task[t].heapEnd)) \subseteq Mapped(t)

\* From its bottom to its top the stack is covered by areas, however far below
\* the bottom a fault made it grow.
StackCovered ==
    \A t \in Existing :
        /\ StackLimit <= task[t].bottom /\ task[t].bottom <= StackBottom
        /\ \A a \in task[t].bottom .. StackTop - 1 : Covered(task[t].vma, a)

\* The frames in use by no space, and not free.
Unused == (Frame \ mem.free) \ UNION {{u.frame : u \in Uses(t)} : t \in Existing}

\* Whatever has failed, a frame that is neither free nor used by a space is a
\* page table, a frame given up because it could not be mapped, or the frame of
\* a page that a failed growth left to a space since dropped: no other page of
\* data is ever lost.  Page tables are left by every drop (see TablesFreed).
DataNotLost ==
    Unused \subseteq {f \in Frame : mem.data[f] = "table"} \cup mem.lost \cup {e.frame : e \in Stale}

\* MemorySet::drop frees the page tables of its space: "Unmap all user areas;
\* unmap_page now cleans up empty page tables."  It frees none of them, since a
\* new table is counted as an entry of itself and so never becomes empty.
TablesFreed == \A f \in Unused : mem.data[f] # "table"

\* What each task reads at each page.
View ==
    [t \in Tasks |-> [p \in UserPages |->
        LET f == IF Exists(t) THEN Translate(mem, task[t].p4, p) ELSE None
        IN IF f = None THEN "none" ELSE mem.data[f]]]

\* As long as the reverse map lists no page of a space that is gone, what a task
\* reads at a page changes only because it wrote there, and then nobody else's
\* page changes; migration and other tasks are invisible to it, also when calls
\* fail.  A page that appears is zero, or a copy of another task's page when the
\* space is new.
DataFollowsPage ==
    [][Stale = {} =>
        LET was == View
            is == View'
        IN \A t \in Tasks, p \in UserPages :
              is[t][p] \notin {was[t][p], "none"} =>
                 \/ was[t][p] # "none"
                    /\ is = [was EXCEPT ![t][p] = "own"]
                 \/ was[t][p] = "none" /\ is[t][p] = "zero"
                 \/ task[t].p4 # task'[t].p4
                    /\ is[t][p] \in {"zero", "elf"} \cup {was[u][p] : u \in Tasks}]_vars

\* Every frame is free, serves one purpose of one space, or was lost in a known way.
FramesAccounted == TypeOK /\ FramesDistinct /\ DataNotLost

\* The reverse map and the areas know every mapped page.
PagesAccounted == RmapExact /\ MappedInArea

\* The heap up to the break is mapped and the stack down to its bottom covered.
HeapAndStackKept == HeapMapped /\ StackCovered
==============================================================================
