-------------------------------- MODULE Frames --------------------------------
(***************************************************************************)
(* What a physical frame allocator promises its callers: a block it hands  *)
(* out is naturally aligned, lies in usable memory and overlaps no block   *)
(* that is still owned.                                                    *)
(***************************************************************************)
EXTENDS Integers

CONSTANTS
    Usable,     \* page frame numbers the memory map calls usable
    Orders      \* orders that are asked for: a block of order o is 2^o frames

VARIABLE owned  \* the blocks <<pfn, order>> callers hold

Block(b) == b[1] .. b[1] + 2^b[2] - 1

Overlap(b, c) == Block(b) \cap Block(c) # {}

\* b may be handed out while the blocks in held are not available.
Grantable(b, held) ==
    /\ b[1] % 2^b[2] = 0
    /\ Block(b) \subseteq Usable
    /\ \A c \in held : ~Overlap(b, c)

Init == owned = {}

Allocate ==
    \E b \in Usable \X Orders :
        /\ owned' = owned \cup {b}
        /\ Grantable(b, owned)

Deallocate == \E b \in owned : owned' = owned \ {b}

\* The contents of one block move to another, of the same order.
Migrate ==
    \E b \in owned, p \in Usable :
        /\ owned' = (owned \ {b}) \cup {<<p, b[2]>>}
        /\ Grantable(<<p, b[2]>>, owned)

Next == Allocate \/ Deallocate \/ Migrate

Spec == Init /\ [][Next]_owned
=============================================================================
