---------------------------- MODULE FrameAllocator ----------------------------
(***************************************************************************)
(* The lazy buddy allocator of physical frames                             *)
(* (mm/src/frame_allocator/allocator_core.rs) with its free lists, its     *)
(* per-CPU cache, the emergency reserve, and the memory not yet handed to  *)
(* the buddy system.                                                       *)
(*                                                                         *)
(* Every entry point disables interrupts and only the bootstrap processor  *)
(* allocates, so an operation is one step and there is one cache.  A       *)
(* linked list of frames is the sequence of their numbers, head first.     *)
(***************************************************************************)
EXTENDS Integers, SequencesExt

CONSTANTS
    MaxOrder,        \* MAX_ORDER: orders are 0..MaxOrder-1
    ShardCount,      \* SHARD_COUNT
    FramesPerBlock,  \* frames described by one block of metadata
    Regions,         \* the usable regions <<start_pfn, end_pfn>>, in order
    CacheLimit,      \* per_cpu_limit
    CacheBatch,      \* per_cpu_batch
    ReserveMax,      \* frames kept for emergencies (32)
    Orders           \* the orders callers ask for

AllOrders == 0 .. MaxOrder - 1
Shards == 0 .. ShardCount - 1
Usable == UNION {Regions[i][1] .. Regions[i][2] - 1 : i \in DOMAIN Regions}
TotalFrames == Max({Regions[i][2] : i \in DOMAIN Regions})
Frames == 0 .. TotalFrames - 1
None == -1

ASSUME FrameAllocatorAssumption ==
    /\ MaxOrder \in Nat \ {0} /\ ShardCount \in Nat \ {0} /\ FramesPerBlock \in Nat \ {0}
    /\ CacheLimit \in Nat /\ CacheBatch \in Nat \ {0} /\ ReserveMax \in Nat
    /\ Orders \subseteq AllOrders
    /\ \A i \in DOMAIN Regions : Regions[i][1] < Regions[i][2]

VARIABLES
    pmm,        \* the allocator: see Boot
    allocated,  \* allocated_frames
    owned,      \* the blocks <<pfn, order>> callers hold
    failed      \* the order of the allocation that failed last step, or None

pmmVars == <<pmm, allocated, owned, failed>>

\* process_range fills in the metadata blocks that usable ranges touch; the
\* others stay null.
HasMetadata(pfn) ==
    \E f \in Usable : f \div FramesPerBlock = pfn \div FramesPerBlock

(***************************************************************************)
(* The free lists                                                          *)
(***************************************************************************)
Shard(pfn) == pfn % ShardCount

\* push_to_global
PushGlobal(m, pfn, o) ==
    [m EXCEPT !.order[pfn] = o, !.state[pfn] = "FreeGlobal",
              !.lists[o][Shard(pfn)] = <<pfn>> \o @]

\* remove_from_list_with_list, and the state its callers set.
RemoveFromList(m, pfn, o) ==
    [m EXCEPT !.state[pfn] = "Allocated",
              !.lists[o][Shard(pfn)] = SelectSeq(@, LAMBDA f : f # pfn)]

\* pop_from_global takes the head of the first shard that is not empty.
InLists(m, o) == {s \in Shards : m.lists[o][s] # <<>>}
FirstGlobal(m, o) == Head(m.lists[o][Min(InLists(m, o))])

\* alloc_from_list: the block of the lowest order that has one, split in
\* halves down to the order asked for; the upper halves are free again.
Halves(m, pfn, o, from) ==
    FoldLeft(LAMBDA acc, i : PushGlobal(acc, pfn + 2^(from - i), from - i),
             m, [i \in 1 .. from - o |-> i])

SplitBlock(m, pfn, o, from) ==
    [pmm |-> [Halves(RemoveFromList(m, pfn, from), pfn, o, from) EXCEPT !.order[pfn] = o], pfn |-> pfn]

AllocFromList(m, o) ==
    LET higher == {k \in o .. MaxOrder - 1 : InLists(m, k) # {}}
    IN IF higher = {} THEN [pmm |-> m, pfn |-> None]
       ELSE SplitBlock(m, FirstGlobal(m, Min(higher)), o, Min(higher))

Buddy(pfn, o) == IF (pfn \div 2^o) % 2 = 0 THEN pfn + 2^o ELSE pfn - 2^o
Base(pfn, o) == pfn - (pfn % 2^o)

\* Mutants of Merges: the order of the buddy is not compared; nothing merges.
MergesAnyOrder(m, pfn, o) ==
    LET b == Buddy(Base(pfn, o), o) IN
    b < TotalFrames /\ HasMetadata(b) /\ m.state[b] = "FreeGlobal"
MergesNever(m, pfn, o) == FALSE

\* Whether free_and_merge, holding the block of order o around pfn, takes in
\* its buddy.
Merges(m, pfn, o) ==
    LET b == Buddy(Base(pfn, o), o) IN
    b < TotalFrames /\ HasMetadata(b) /\ m.state[b] = "FreeGlobal" /\ m.order[b] = o

\* free_and_merge: buddies are taken off their lists for as long as they are
\* free, and the merged block is put on its own.  The metadata of a buddy is
\* read without a test for null.
MergeTo(m, pfn, o, top) ==
    FoldLeft(LAMBDA acc, i : RemoveFromList(acc, Buddy(Base(pfn, i), i), i),
             m, [i \in 1 .. top - o |-> o + i - 1])
FreeMerged(merged, pfn, top) ==
    LET last == Buddy(Base(pfn, top), top)
    IN IF top < MaxOrder - 1 /\ last < TotalFrames /\ ~HasMetadata(last)
       THEN [merged EXCEPT !.fault = TRUE]
       ELSE PushGlobal(merged, Base(pfn, top), top)
FreeUpTo(m, pfn, o, top) == FreeMerged(MergeTo(m, pfn, o, top), pfn, top)
FreeAndMerge(m, pfn, o) ==
    FreeUpTo(m, pfn, o, Min({k \in o .. MaxOrder - 1 : k = MaxOrder - 1 \/ ~Merges(m, pfn, k)}))

(***************************************************************************)
(* Memory that is not in the buddy system yet                              *)
(***************************************************************************)
\* Mutant of AlignUp: the start of a region is taken as it is.
AlignUpNot(pfn, o) == pfn

AlignUp(pfn, o) == IF pfn % 2^o = 0 THEN pfn ELSE Base(pfn, o) + 2^o

\* The frames skipped to align an allocation go to the free lists, in the
\* largest blocks that fit.
RECURSIVE FreeGap(_, _, _)
FreeGap(m, cursor, upto) ==
    IF cursor >= upto THEN m
    ELSE LET o == Max({k \in AllOrders : 2^k <= upto - cursor /\ cursor % 2^k = 0})
         IN FreeGap(FreeAndMerge(m, cursor, o), cursor + 2^o, upto)

\* The block of order o at start is taken from region i.
TakeFrom(m, o, i, start) ==
    [pmm |-> [FreeGap(m, m.regions[i][1], start) EXCEPT
                !.regions[i][1] = start + 2^o, !.lastRegion = i - 1, !.order[start] = o],
     pfn |-> start]

\* alloc_from_uninit: the regions are tried in turn, from the one used last.
RegionAt(m, offset) == ((m.lastRegion + offset) % Len(m.regions)) + 1
Fits(m, o, i) == AlignUp(m.regions[i][1], o) + 2^o <= m.regions[i][2]
TakeAt(m, o, i) == TakeFrom(m, o, i, AlignUp(m.regions[i][1], o))
AllocFromUninit(m, o) ==
    LET fits == {offset \in 0 .. Len(m.regions) - 1 : Fits(m, o, RegionAt(m, offset))}
    IN IF fits = {} THEN [pmm |-> m, pfn |-> None] ELSE TakeAt(m, o, RegionAt(m, Min(fits)))

\* alloc_global
OrElseUninit(m, o, r) == IF r.pfn # None THEN r ELSE AllocFromUninit(m, o)
AllocGlobal(m, o) == OrElseUninit(m, o, AllocFromList(m, o))

(***************************************************************************)
(* The cache and the reserve                                               *)
(***************************************************************************)
CachePush(m, pfn, o) ==
    [m EXCEPT !.order[pfn] = o, !.state[pfn] = "FreePerCpu", !.cache[o] = <<pfn>> \o @]

CachePop(m, o) ==
    [m EXCEPT !.state[Head(m.cache[o])] = "Allocated", !.cache[o] = Tail(@)]

\* percpu_refill: the first block is the caller's, the others, r, are cached.
RefillWith(acc, o, r) ==
    IF acc.pfn = None THEN r
    ELSE IF r.pfn = None THEN acc
    ELSE [acc EXCEPT !.pmm = CachePush(r.pmm, r.pfn, o)]
Refill(m, o) ==
    FoldLeft(LAMBDA acc, i : RefillWith(acc, o, AllocGlobal(acc.pmm, o)),
             AllocGlobal(m, o), [i \in 2 .. CacheBatch |-> i])

ReservePush(m, pfn) ==
    [m EXCEPT !.order[pfn] = 0, !.state[pfn] = "Allocated", !.reserve = <<pfn>> \o @]

\* drain_percpu_all, the whole effect of compact on memory.
Drain(m) ==
    FoldLeft(LAMBDA acc, o :
                FoldLeft(LAMBDA a, i : FreeAndMerge(CachePop(a, o), Head(a.cache[o]), o),
                         acc, [i \in 1 .. Len(acc.cache[o]) |-> i]),
             m, [i \in 1 .. MaxOrder |-> i - 1])

\* max_free_order < o
NothingAsLarge(m, o) ==
    \A k \in o .. MaxOrder - 1 : m.cache[k] = <<>> /\ InLists(m, k) = {}

(***************************************************************************)
(* allocate and deallocate                                                 *)
(***************************************************************************)
\* The outcome of allocate(o).  rested: 1024 calls have passed since the last
\* compaction.
AfterRefill(r, o, rested) ==
    IF r.pfn = None /\ o = 0 /\ r.pmm.reserve # <<>>
    THEN [pmm |-> [r.pmm EXCEPT !.reserve = Tail(@)], pfn |-> Head(r.pmm.reserve)]
    ELSE IF r.pfn = None /\ o > 0 /\ rested /\ NothingAsLarge(r.pmm, o)
    THEN AllocGlobal(Drain(r.pmm), o)
    ELSE r
AllocateFrom(m, o, rested) ==
    IF m.cache[o] # <<>> THEN [pmm |-> CachePop(m, o), pfn |-> Head(m.cache[o])]
    ELSE AfterRefill(Refill(m, o), o, rested)

\* percpu_push: what exceeds the limit goes to the free lists.
CachePushDrain(m, pfn, o) ==
    IF Len(m.cache[o]) >= CacheLimit
    THEN FreeAndMerge(CachePop(CachePush(m, pfn, o), o), pfn, o)
    ELSE CachePush(m, pfn, o)

\* What deallocate does with a frame it accepts.
Release(m, pfn) ==
    IF m.order[pfn] = 0 /\ Len(m.reserve) < ReserveMax
    THEN ReservePush(m, pfn)
    ELSE CachePushDrain(m, pfn, m.order[pfn])

ReserveFrom(m, r) == IF r.pfn = None THEN m ELSE ReservePush(r.pmm, r.pfn)

\* init: the memory map as uninitialised regions, then init_reserve.
Boot ==
    FoldLeft(LAMBDA acc, i :
                ReserveFrom(acc, AllocGlobal(acc, 0)),
             [order |-> [f \in Frames |-> 0],
              state |-> [f \in Frames |-> "Allocated"],
              lists |-> [o \in AllOrders |-> [s \in Shards |-> <<>>]],
              cache |-> [o \in AllOrders |-> <<>>],
              regions |-> Regions, lastRegion |-> 0,
              reserve |-> <<>>,
              fault |-> FALSE],
             [i \in 1 .. ReserveMax |-> i])
-----------------------------------------------------------------------------
PmmInit ==
    /\ pmm = Boot
    /\ allocated = 0
    /\ owned = {}
    /\ failed = None

Allocate(o) ==
    /\ ~pmm.fault
    /\ \E rested \in BOOLEAN : \E r \in {AllocateFrom(pmm, o, rested)} :
        /\ pmm' = r.pmm
        /\ \/ /\ r.pfn = None
              /\ failed' = o
              /\ UNCHANGED <<allocated, owned>>
           \/ /\ r.pfn # None
              /\ allocated' = allocated + 2^o
              /\ owned' = owned \cup {<<r.pfn, o>>}
              /\ failed' = None

Deallocate(b) ==
    /\ ~pmm.fault
    /\ pmm' = Release(pmm, b[1])
    /\ allocated' = allocated - 2^pmm.order[b[1]]
    /\ owned' = owned \ {b}
    /\ failed' = None

\* compact_now
Compact ==
    /\ ~pmm.fault
    /\ pmm' = Drain(pmm)
    /\ failed' = None
    /\ UNCHANGED <<allocated, owned>>

\* migrate_one_user_page: a frame is allocated for the page in b; once the
\* page is mapped there the old frame is freed, or else the new one.
Migrate(b) ==
    /\ ~pmm.fault /\ b[2] = 0
    /\ \E r \in {AllocateFrom(pmm, 0, FALSE)} :
        /\ r.pfn # None
        /\ \/ /\ pmm' = Release(r.pmm, b[1])
              /\ owned' = (owned \ {b}) \cup {<<r.pfn, 0>>}
           \/ /\ pmm' = Release(r.pmm, r.pfn)
              /\ UNCHANGED owned
    /\ failed' = None
    /\ UNCHANGED allocated

PmmNext ==
    \/ \E o \in Orders : Allocate(o)
    \/ \E b \in owned : Deallocate(b) \/ Migrate(b)
    \/ Compact

PmmSpec == PmmInit /\ [][PmmNext]_pmmVars
-----------------------------------------------------------------------------
BlockAt(pfn, o) == pfn .. pfn + 2^o - 1

OnLists == {<<f, o>> \in Frames \X AllOrders : f \in ToSet(pmm.lists[o][Shard(f)])}
Cached == {<<f, o>> \in Frames \X AllOrders : f \in ToSet(pmm.cache[o])}
Reserved == {<<f, 0>> : f \in ToSet(pmm.reserve)}

\* What holds the frame f: blocks by where they are, and untouched regions.
Holders(f) ==
    {<<place, b>> \in {"owned"} \X owned \cup {"list"} \X OnLists
                      \cup {"cache"} \X Cached \cup {"reserve"} \X Reserved :
        f \in BlockAt(b[1], b[2])}
    \cup {<<"region", <<i, 0>>>> : i \in {k \in DOMAIN pmm.regions :
                f \in pmm.regions[k][1] .. pmm.regions[k][2] - 1}}

PmmTypeOK ==
    /\ pmm.order \in [Frames -> AllOrders]
    /\ pmm.state \in [Frames -> {"Allocated", "FreeGlobal", "FreePerCpu"}]
    /\ \A o \in AllOrders, s \in Shards : \A f \in ToSet(pmm.lists[o][s]) : Shard(f) = s
    /\ \A o \in AllOrders : Len(pmm.cache[o]) <= Max({CacheLimit, CacheBatch - 1})
    /\ Len(pmm.reserve) <= ReserveMax
    /\ failed \in Orders \cup {None}

\* Conservation: every usable frame is in exactly one place (held by a caller,
\* on a free list, in the cache, in the reserve or untouched), once, and no
\* other frame is anywhere: none is lost, none is handed out twice.
EveryFrameOnce ==
    /\ \A f \in Frames : Cardinality(Holders(f)) = IF f \in Usable THEN 1 ELSE 0
    /\ \A o \in AllOrders : /\ \A s \in Shards : IsInjective(pmm.lists[o][s])
                            /\ IsInjective(pmm.cache[o])
    /\ IsInjective(pmm.reserve)

\* The metadata of the first frame of a block agrees with where the block is.
MetadataAgrees ==
    \A f \in Usable, o \in AllOrders :
        /\ <<f, o>> \in OnLists => pmm.state[f] = "FreeGlobal" /\ pmm.order[f] = o
        /\ <<f, o>> \in Cached => pmm.state[f] = "FreePerCpu" /\ pmm.order[f] = o
        /\ <<f, o>> \in owned => pmm.state[f] = "Allocated" /\ pmm.order[f] = o
        /\ pmm.state[f] = "FreeGlobal" => <<f, pmm.order[f]>> \in OnLists

\* Free memory is coalesced: no two buddies lie on the free lists unmerged.
Coalesced ==
    \A b \in OnLists : b[2] < MaxOrder - 1 => <<Buddy(b[1], b[2]), b[2]>> \notin OnLists

\* allocated_frames is the number of frames callers hold.
CountsOwned == allocated = Cardinality(UNION {BlockAt(b[1], b[2]) : b \in owned})

\* A page allocation fails only when no frame is left anywhere but inside
\* larger blocks kept in the cache.
FailsWhenFull ==
    failed = 0 => Usable = UNION {BlockAt(b[1], b[2]) : b \in owned \cup {c \in Cached : c[2] > 0}}

AbstractFrames == INSTANCE Frames WITH Usable <- Usable, Orders <- Orders, owned <- owned

\* The allocator does what a frame allocator promises: what the free lists, the
\* cache and the reserve hand out, take back and migrate are steps of Frames.
ImplementsFrames == AbstractFrames!Spec

\* No frame is lost, handed out twice or miscounted, and a page is refused only
\* when none is left to give.
FramesConserved == PmmTypeOK /\ EveryFrameOnce /\ CountsOwned /\ FailsWhenFull

\* The free lists are what the metadata says they are, and no two free buddies
\* are left apart: free_and_merge decides by the metadata alone.
FreeListsSound == MetadataAgrees /\ Coalesced
=============================================================================
