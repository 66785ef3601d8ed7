-------------------------------- MODULE Areas --------------------------------
(***************************************************************************)
(* What the tree of memory areas of an address space means                 *)
(* (mm/src/memory_set/vma_tree.rs): a set of half-open ranges with flags.  *)
(* VmaTree shows that the treap computes these operators; AddressSpace     *)
(* uses them.                                                              *)
(***************************************************************************)
EXTENDS Integers, FiniteSets

Area(start, end, flags) == [start |-> start, end |-> end, flags |-> flags]

Overlaps(a, b) == a.start < b.end /\ b.start < a.end

InArea(a, addr) == a.start <= addr /\ addr < a.end

Covered(vma, addr) == \E a \in vma : InArea(a, addr)

\* The areas a new area is merged with.
Before(vma, a) == {b \in vma : b.end = a.start /\ b.flags = a.flags}
After(vma, a) == {b \in vma : b.start = a.end /\ b.flags = a.flags}

Joined(vma, a) ==
    Area(IF Before(vma, a) = {} THEN a.start ELSE (CHOOSE b \in Before(vma, a) : TRUE).start,
         IF After(vma, a) = {} THEN a.end ELSE (CHOOSE b \in After(vma, a) : TRUE).end,
         a.flags)

\* insert_area.  The predecessor is merged, and removed, before the successor
\* is looked at: a rejection for the sake of the successor forgets it.
InsertArea(vma, a) ==
    LET startsIn == \E b \in vma : InArea(b, a.start)
    IN IF a.start >= a.end \/ startsIn THEN [ok |-> FALSE, vma |-> vma]
       ELSE IF \E b \in vma : Overlaps(a, b) THEN [ok |-> FALSE, vma |-> vma \ Before(vma, a)]
       ELSE [ok |-> TRUE,
             vma |-> (vma \ (Before(vma, a) \cup After(vma, a))) \cup {Joined(vma, a)}]

\* find_containing, find_prev, find_next: the set of at most one answer.
FindContaining(vma, addr) == {a \in vma : InArea(a, addr)}

FindPrev(vma, key) ==
    {a \in vma : a.start <= key /\ \A b \in vma : b.start <= key => b.start <= a.start}

FindNext(vma, key) ==
    {a \in vma : key <= a.start /\ \A b \in vma : key <= b.start => a.start <= b.start}

\* check_range: [addr, addr + size) lies in areas with all the flags required.
CheckRange(vma, addr, size, required) ==
    \A x \in addr .. addr + size - 1 :
        \E a \in vma : InArea(a, x) /\ required \subseteq a.flags
==============================================================================
