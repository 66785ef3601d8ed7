------------------------------- MODULE MCStores -------------------------------
(* Three stores of the kernel that share no state, each used under a lock of  *)
(* its own: the physical frames, the tree of memory areas and the descriptor  *)
(* tables.  A behaviour is one of one store: the initial state picks the      *)
(* part that moves, the others stay as they start.                            *)
EXTENDS FdTable, FrameAllocator, VmaTree, TLC

VARIABLE part    \* the store that moves

\* Two regions with a frame missing between them; the second starts unaligned.
TwoRegions == <<<<0, 4>>, <<5, 8>>>>

\* Areas between five addresses with two kinds of flags, and every ranking of
\* the start addresses by the hash, ties included.
FiveAddresses == 0 .. 4
TwoFlags == {{"U"}, {"U", "W"}}
FourPrios == 0 .. 3

\* Nothing tells one handle from another.
HandleSymmetry == Permutations(Handles)

allVars == <<vars, pmmVars, areasVars, part>>

\* One hash for the tree that does not move.
AnyPrio == CHOOSE f \in [Starts -> Prios] : TRUE

StoresInit ==
    /\ part \in {"frames", "areas", "descriptors"}
    /\ Init /\ PmmInit /\ AreasInit
    /\ part # "areas" => prio = AnyPrio

FramesStep == part = "frames" /\ PmmNext /\ UNCHANGED <<vars, areasVars, part>>
AreasStep == part = "areas" /\ AreasNext /\ UNCHANGED <<vars, pmmVars, part>>
DescriptorsStep == part = "descriptors" /\ Next /\ UNCHANGED <<pmmVars, areasVars, part>>

StoresNext == FramesStep \/ AreasStep \/ DescriptorsStep

StoresSpec == StoresInit /\ [][StoresNext]_allVars
-----------------------------------------------------------------------------
\* No frame is lost, handed out twice or miscounted, and a page is refused only
\* when none is left to give: FramesConserved of the allocator, whatever order
\* blocks are allocated, freed, migrated and compacted in.
FramesKept == part = "frames" => FramesConserved

\* The free lists hold what the metadata says, and no two free buddies stay
\* apart: FreeListsSound of the allocator.
ListsKept == part = "frames" => FreeListsSound

\* The tree stays a treap of disjoint areas, merged where they can be: TreeKept
\* of the tree of areas, under every ranking by the hash.
AreasKept == part = "areas" => TreeKept

\* The operations on the tree compute what the set of areas means:
\* OperationsAgree of the tree of areas.
AreasAgree == part = "areas" => OperationsAgree
=============================================================================
