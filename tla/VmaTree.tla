------------------------------- MODULE VmaTree -------------------------------
(***************************************************************************)
(* The treap that holds the areas of an address space                      *)
(* (mm/src/memory_set/vma_tree.rs), ordered by start address, heap-ordered *)
(* by a hash of it, each node knowing the greatest end below it.  Areas    *)
(* says what it should compute.                                            *)
(***************************************************************************)
EXTENDS Areas, SequencesExt

CONSTANTS
    Addresses,   \* the addresses areas start and end at: 0 .. n
    Flags,       \* the flag sets areas are given
    Prios        \* the values splitmix64 may hash a start address to

VARIABLES
    root,   \* the tree: Nil or a node
    prio    \* splitmix64, one arbitrary hash per start address

areasVars == <<root, prio>>

Nil == [nil |-> TRUE]
IsNil(t) == "nil" \in DOMAIN t

Inputs == {Area(s, e, f) : s \in Addresses, e \in Addresses, f \in Flags}
Starts == {x \in Addresses : \E y \in Addresses : x < y}

\* A node after recalc.
Node(area, p, l, r) ==
    [area |-> area, prio |-> p, left |-> l, right |-> r,
     maxEnd |-> Max({area.end} \cup (IF IsNil(l) THEN {} ELSE {l.maxEnd})
                               \cup (IF IsNil(r) THEN {} ELSE {r.maxEnd}))]

LeftWins(l, r) == l.prio >= r.prio

RECURSIVE Merge(_, _)
Merge(a, b) ==
    IF IsNil(a) THEN b
    ELSE IF IsNil(b) THEN a
    ELSE IF LeftWins(a, b) THEN Node(a.area, a.prio, a.left, Merge(a.right, b))
    ELSE Node(b.area, b.prio, Merge(a, b.left), b.right)

GoesRight(t, key) == key <= t.area.start

\* split: the nodes below the key, and those at or above it.
RECURSIVE Split(_, _)
Split(t, key) ==
    IF IsNil(t) THEN <<Nil, Nil>>
    ELSE IF GoesRight(t, key)
    THEN LET s == Split(t.left, key) IN <<s[1], Node(t.area, t.prio, s[2], t.right)>>
    ELSE LET s == Split(t.right, key) IN <<Node(t.area, t.prio, t.left, s[1]), s[2]>>

InsertNode(t, node) ==
    LET s == Split(t, node.area.start) IN
    IF IsNil(t) THEN node ELSE Merge(Merge(s[1], node), s[2])

RemoveNode(t, key) ==
    LET s == Split(t, key) IN Merge(s[1], Split(s[2], key + 1)[2])

(***************************************************************************)
(* Lookups: the set of at most one area                                    *)
(***************************************************************************)
RECURSIVE TreePrev(_, _, _)
TreePrev(t, key, res) ==
    IF IsNil(t) THEN res
    ELSE IF key < t.area.start THEN TreePrev(t.left, key, res)
    ELSE TreePrev(t.right, key, {t.area})

RECURSIVE TreeNext(_, _, _)
TreeNext(t, key, res) ==
    IF IsNil(t) THEN res
    ELSE IF key <= t.area.start THEN TreeNext(t.left, key, {t.area})
    ELSE TreeNext(t.right, key, res)

\* Mutant of DescendLeft: the end of an area counts as inside it.
DescendLeftClosed(t, addr) == ~IsNil(t.left) /\ t.left.maxEnd >= addr
DescendLeft(t, addr) == ~IsNil(t.left) /\ t.left.maxEnd > addr

RECURSIVE TreeContaining(_, _)
TreeContaining(t, addr) ==
    IF IsNil(t) THEN {}
    ELSE IF DescendLeft(t, addr) THEN TreeContaining(t.left, addr)
    ELSE IF InArea(t.area, addr) THEN {t.area}
    ELSE TreeContaining(t.right, addr)

\* for_each_in_order
RECURSIVE InOrder(_)
InOrder(t) == IF IsNil(t) THEN <<>> ELSE InOrder(t.left) \o <<t.area>> \o InOrder(t.right)

AreasOf(t) == ToSet(InOrder(t))

\* The loop of check_range, entered with the area that contains cur or else
\* the next one.
RECURSIVE RangeFrom(_, _, _, _, _)
RangeFrom(t, cur, end, required, found) ==
    \/ cur >= end
    \/ \E a \in found :
          /\ a.start <= cur
          /\ required \subseteq a.flags
          /\ RangeFrom(t, a.end, end, required, TreeNext(t, a.end, {}))

TreeCheckRange(t, addr, size, required) ==
    \/ size = 0
    \/ LET at == TreeContaining(t, addr) IN
       RangeFrom(t, addr, addr + size, required, IF at = {} THEN TreeNext(t, addr, {}) ELSE at)

(***************************************************************************)
(* insert_area                                                             *)
(***************************************************************************)
\* Mutant of JoinsNext: only the predecessor is merged.
JoinsNextNever(b, a) == FALSE
JoinsNext(b, a) == b.start = a.end /\ b.flags = a.flags
JoinsPrev(b, a) == b.end = a.start /\ b.flags = a.flags

\* One turn of the loop per call, until nothing merges.
RECURSIVE InsertFrom(_, _)
InsertFrom(t, a) ==
    LET prev == TreePrev(t, a.start, {})
        overPrev == \E b \in prev : b.end > a.start
        joinPrev == \E b \in prev : JoinsPrev(b, a)
        p == CHOOSE b \in prev : TRUE
        t1 == IF joinPrev THEN RemoveNode(t, p.start) ELSE t
        a1 == IF joinPrev THEN [a EXCEPT !.start = p.start] ELSE a
        next == TreeNext(t1, a1.start, {})
        overNext == \E b \in next : b.start < a1.end
        joinNext == \E b \in next : JoinsNext(b, a1)
        n == CHOOSE b \in next : TRUE
        t2 == IF joinNext THEN RemoveNode(t1, n.start) ELSE t1
        a2 == IF joinNext THEN [a1 EXCEPT !.end = n.end] ELSE a1
    IN IF overPrev THEN [ok |-> FALSE, root |-> t]
       ELSE IF overNext THEN [ok |-> FALSE, root |-> t1]
       ELSE IF joinPrev \/ joinNext THEN InsertFrom(t2, a2)
       ELSE [ok |-> TRUE, root |-> InsertNode(t, Node(a, prio[a.start], Nil, Nil))]

TreeInsert(t, a) ==
    IF a.start >= a.end THEN [ok |-> FALSE, root |-> t] ELSE InsertFrom(t, a)

AreasInit ==
    /\ root = Nil
    /\ prio \in [Starts -> Prios]

Insert(a) ==
    /\ root' = TreeInsert(root, a).root
    /\ UNCHANGED prio

\* clear
Clear ==
    /\ root' = Nil
    /\ UNCHANGED prio

AreasNext == (\E a \in Inputs : Insert(a)) \/ Clear

AreasSpec == AreasInit /\ [][AreasNext]_areasVars

(***************************************************************************)
(* Properties                                                              *)
(***************************************************************************)
\* The areas in the tree are nonempty ranges with flags callers use.
AreasTypeOK ==
    /\ \A a \in AreasOf(root) : a \in Inputs /\ a.start < a.end
    /\ prio \in [Starts -> Prios]

\* The tree is a treap: priorities fall from parent to child and every node
\* knows the greatest end at or below it, after any number of splits and
\* merges.
RECURSIVE IsTreap(_)
IsTreap(t) ==
    \/ IsNil(t)
    \/ /\ t.prio = prio[t.area.start]
       /\ t.maxEnd = Max({a.end : a \in AreasOf(t)})
       /\ \A c \in {t.left, t.right} : IsNil(c) \/ (c.prio <= t.prio /\ IsTreap(c))

TreapKept == \A t \in {root} : IsTreap(t)

\* Walked in order the areas ascend, do not overlap, and no two that touch
\* have equal flags: what fork copies and drop unmaps is each page once.
SortedDisjointMerged ==
    LET s == InOrder(root) IN
    \A i \in 1 .. Len(s) - 1 :
        /\ s[i].start < s[i].end
        /\ s[i].end <= s[i + 1].start
        /\ s[i].end = s[i + 1].start => s[i].flags # s[i + 1].flags

\* Every lookup answers what a search of the set of areas would, in
\* particular find_containing, which follows maxEnd and never backtracks.
LookupsAgree ==
    LET vma == AreasOf(root) IN
    \A x \in Addresses :
        /\ TreeContaining(root, x) = FindContaining(vma, x)
        /\ TreePrev(root, x, {}) = FindPrev(vma, x)
        /\ TreeNext(root, x, {}) = FindNext(vma, x)

\* check_range, hopping from area to area, accepts a range exactly when every
\* address of it lies in an area with the flags required.
CheckRangeAgrees ==
    \A x \in Addresses, y \in Addresses, f \in Flags \cup {{}} :
        x <= y => (TreeCheckRange(root, x, y - x, f) <=> CheckRange(AreasOf(root), x, y - x, f))

\* Inserting any area, accepted or not, leaves the areas InsertArea says;
\* when it is accepted, what is covered grows by exactly the new range.
InsertAgrees ==
    \A a \in Inputs :
        LET vma == AreasOf(root)
            tree == TreeInsert(root, a)
            spec == InsertArea(vma, a)
        IN /\ tree.ok = spec.ok
           /\ AreasOf(tree.root) = spec.vma
           /\ spec.ok => \A x \in Addresses :
                 Covered(spec.vma, x) <=> Covered(vma, x) \/ InArea(a, x)

\* The tree is a treap over the areas, and these are in order, disjoint and
\* merged.
TreeKept == AreasTypeOK /\ TreapKept /\ SortedDisjointMerged

\* Every lookup, range check and insertion does to the tree what it should do to
\* the set of its areas.
OperationsAgree == LookupsAgree /\ CheckRangeAgrees /\ InsertAgrees
==============================================================================
