---------------------------- MODULE MCAddressSpace ----------------------------
(* Eight pages of two addresses each: text in page 1, the heap from page 2 to *)
(* page 3, the stack in page 6 growing down to page 4 under a P1 of its own.  *)
EXTENDS AddressSpace

CONSTANTS t1, t2

TwoTasks == {t1, t2}

TwoP1s == [p \in 0 .. 7 |-> <<0, 0, p \div 4, p % 4>>]

Plain == [segs |-> <<[lo |-> 2, hi |-> 3, file |-> 1, flags |-> {"U"}]>>, heap |-> <<0, 0>>]

\* The heap is a section of a writable segment, its ends inside pages.
HeapSection ==
    [segs |-> <<[lo |-> 2, hi |-> 6, file |-> 1, flags |-> {"U", "W", "NX"}]>>, heap |-> <<3, 5>>]

\* The second segment ends in the page of the first, and cannot be loaded.
SharedPage ==
    [segs |-> <<[lo |-> 3, hi |-> 4, file |-> 1, flags |-> {"U"}],
                [lo |-> 0, hi |-> 3, file |-> 1, flags |-> {"U", "W", "NX"}]>>, heap |-> <<0, 0>>]

AllImages == {Plain, HeapSection, SharedPage}

HeapPage == {2}

\* Inside the heap, and in each page the stack may grow into.
HeapAndStack == {5, 8, 11}

SomeIncrements == {-2, 1, 3}
==============================================================================
