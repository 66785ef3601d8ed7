---------------------------- MODULE FdTableProofs ----------------------------
(***************************************************************************)
(* Proofs that the invariants of FdTable hold for any set of tasks, any    *)
(* handles and any limits.  The inductive invariant is the conjunction of  *)
(* the type invariant, NothingBeyondEnd (the table of a task that does not *)
(* exist yet is empty, so fork_clone overwrites no reference) and          *)
(* RefcountExact.                                                          *)
(***************************************************************************)
EXTENDS FdTable, FiniteSetTheorems, TLAPS

Tables == [Procs -> [Fds -> Handles \cup {Free}]]

\* The references to h in the tables e; Refs(h) is RefsIn(entries, h).
RefsIn(e, h) == {r \in Procs \X Fds : e[r[1]][r[2]] = h}

\* The entries of p's table in e, among fds, that refer to h.
Row(e, p, h, fds) == {fd \in fds : e[p][fd] = h}

RowRefs(e, p, h, fds) == {p} \X Row(e, p, h, fds)

One(b) == IF b THEN 1 ELSE 0

\* How the references to h in f differ from those in e when v replaced old.
Stored(e, f, h, v, old) ==
    /\ f \in Tables
    /\ Cardinality(RefsIn(f, h)) = Cardinality(RefsIn(e, h)) + One(h = v) - One(h = old)
    /\ h # v /\ RefsIn(f, h) # {} => RefsIn(e, h) # {}

\* There are finitely many references, so their number is a natural number.
LEMMA RefsFinite ==
    ASSUME NEW e, NEW h
    PROVE  IsFiniteSet(RefsIn(e, h)) /\ Cardinality(RefsIn(e, h)) \in Nat
<1>1. IsFiniteSet(Fds)
  BY FdTableAssumption, FS_Interval, SMT DEF Fds
<1>2. IsFiniteSet(Procs \X Fds)
  BY <1>1, FS_Product, FdTableAssumption
<1>3. RefsIn(e, h) \in SUBSET (Procs \X Fds)
  BY DEF RefsIn
<1>4. IsFiniteSet(RefsIn(e, h))
  BY <1>2, <1>3, FS_Subset
<1> QED
  BY <1>4, FS_CardinalityType

\* What storing v in entry fd of p's table does to the number of references:
\* one more to v, one less to what was there.
LEMMA StoreCount ==
    ASSUME NEW e \in Tables, NEW p \in Procs, NEW fd \in Fds,
           NEW v \in Handles \cup {Free}, v # e[p][fd],
           NEW f, f = [e EXCEPT ![p] = [@ EXCEPT ![fd] = v]],
           NEW h \in Handles
    PROVE  Stored(e, f, h, v, e[p][fd])
<1> DEFINE at == <<p, fd>>
           A == RefsIn(e, h)
           B == RefsIn(f, h)
<1>1. f \in Tables
  BY DEF Tables
<1>2. \A q \in Procs, g \in Fds : f[q][g] = IF q = p /\ g = fd THEN v ELSE e[q][g]
  BY DEF Tables
<1>3. IsFiniteSet(A) /\ Cardinality(A) \in Nat
  BY RefsFinite
<1>4. at \in Procs \X Fds /\ \A r \in Procs \X Fds : r = <<r[1], r[2]>> /\ r[1] \in Procs /\ r[2] \in Fds
  OBVIOUS
<1>5. \A r \in Procs \X Fds : (r \in A <=> e[r[1]][r[2]] = h) /\ (r \in B <=> f[r[1]][r[2]] = h)
  BY DEF RefsIn
<1>6. \A r : (r \in A => r \in Procs \X Fds) /\ (r \in B => r \in Procs \X Fds)
  BY DEF RefsIn
<1>7. at[1] = p /\ at[2] = fd
  OBVIOUS
<1> HIDE DEF at, A, B
<1>10. CASE h = v
  <2>1. B = A \cup {at} /\ at \notin A
    BY <1>2, <1>4, <1>5, <1>6, <1>7, <1>10
  <2>2. Cardinality(B) = Cardinality(A) + 1
    BY Zenon, <1>3, <2>1, FS_AddElement
  <2>3. Cardinality(B) = Cardinality(A) + One(h = v) - One(h = e[p][fd])
    BY <1>3, <1>10, <2>2 DEF One
  <2> QED
    BY <1>1, <1>10, <2>3 DEF A, B, Stored
<1>11. CASE h # v /\ h = e[p][fd]
  <2>1. B = A \ {at} /\ at \in A
    BY <1>2, <1>4, <1>5, <1>6, <1>7, <1>11
  <2>2. Cardinality(B) = Cardinality(A) - 1
    BY Zenon, <1>3, <2>1, FS_RemoveElement
  <2>3. Cardinality(B) = Cardinality(A) + One(h = v) - One(h = e[p][fd])
    BY <1>3, <1>11, <2>2 DEF One
  <2> QED
    BY <1>1, <2>1, <2>3 DEF A, B, Stored
<1>12. CASE h # v /\ h # e[p][fd]
  <2>0. \A r \in Procs \X Fds : r \in A <=> r \in B
    BY <1>2, <1>4, <1>5, <1>7, <1>12
  <2>1. B = A
    BY Zenon, <1>6, <2>0
  <2>2. Cardinality(B) = Cardinality(A) + One(h = v) - One(h = e[p][fd])
    BY <1>3, <1>12, <2>1 DEF One
  <2> QED
    BY Zenon, <1>1, <2>1, <2>2 DEF A, B, Stored
<1> QED
  BY <1>10, <1>11, <1>12

\* A row of one table, as a set of references, is as large as the row.
LEMMA RowCount ==
    ASSUME NEW e, NEW p \in Procs, NEW h, NEW fds \in SUBSET Fds
    PROVE  /\ Cardinality(Row(e, p, h, fds)) \in Nat
           /\ IsFiniteSet(RowRefs(e, p, h, fds))
           /\ Cardinality(RowRefs(e, p, h, fds)) = Cardinality(Row(e, p, h, fds))
<1> DEFINE row == Row(e, p, h, fds)
<1>1. IsFiniteSet(Fds)
  BY FdTableAssumption, FS_Interval, SMT DEF Fds
<1>2. row \in SUBSET Fds
  BY DEF Row
<1>3. IsFiniteSet(row)
  BY <1>1, <1>2, FS_Subset
<1> HIDE DEF row
<1>4. Cardinality(row) \in Nat
  BY <1>3, FS_CardinalityType
<1>5. IsFiniteSet({p}) /\ Cardinality({p}) = 1
  BY Zenon, FS_Singleton
<1>6. IsFiniteSet({p} \X row) /\ Cardinality({p} \X row) = Cardinality({p}) * Cardinality(row)
  BY <1>3, <1>5, FS_Product
<1>7. Cardinality({p} \X row) = Cardinality(row)
  BY <1>4, <1>5, <1>6
<1> QED
  BY <1>3, <1>4, <1>6, <1>7 DEF row, RowRefs

-----------------------------------------------------------------------------
\* Every variable of the descriptor tables keeps its type, whatever system
\* calls the tasks make.
LEMMA TypeStep == TypeOK /\ [Next]_vars => TypeOK'
<1> SUFFICES ASSUME TypeOK, [Next]_vars PROVE TypeOK'
  OBVIOUS
<1> USE DEF TypeOK
<1>0. /\ Fds \subseteq Nat /\ \A fd \in Fds : fd + 1 \in 0 .. TopFd + 1
      /\ FdLimit + 1 \in 0 .. TopFd + 1
  BY FdTableAssumption DEF Fds
<1>1. \A p \in Procs, fd \in Fds : MaxLen(len[p], fd + 1) \in 0 .. TopFd + 1
  BY <1>0 DEF MaxLen
<1>2. \A p \in Procs : MaxLen(len[p], FdLimit + 1) \in 0 .. TopFd + 1
  BY <1>0 DEF MaxLen
<1>3. ASSUME NEW p \in Procs, NEW fd \in Fds, NEW h \in Handles, Install(p, fd, h)
      PROVE  /\ entries' \in [Procs -> [Fds -> Handles \cup {Free}]]
             /\ len' \in [Procs -> 0 .. TopFd + 1]
             /\ cloexec' \in [Procs -> [Fds -> BOOLEAN]]
  <2>1. entries' \in [Procs -> [Fds -> Handles \cup {Free}]]
    BY <1>3 DEF Install
  <2>2. len' \in [Procs -> 0 .. TopFd + 1]
    BY <1>1, <1>3 DEF Install
  <2>3. cloexec' \in [Procs -> [Fds -> BOOLEAN]]
    BY <1>3 DEF Install
  <2> QED
    BY <2>1, <2>2, <2>3
<1>4. ASSUME NEW p \in Procs, GrowToLimit(p)
      PROVE  len' \in [Procs -> 0 .. TopFd + 1]
  BY <1>2, <1>4 DEF GrowToLimit
<1>5. ASSUME NEW p \in Procs, NEW h, NEW fds \in SUBSET Fds
      PROVE  Count(p, h, fds) \in Nat
  <2>1. Count(p, h, fds) = Cardinality(Row(entries, p, h, fds))
    BY DEF Count, Row
  <2>2. Cardinality(Row(entries, p, h, fds)) \in Nat
    BY RowCount, Zenon
  <2> QED
    BY <2>1, <2>2
<1>6. ASSUME NEW p \in Procs, NEW fds \in SUBSET Fds, CloseEach(p, fds)
      PROVE  /\ entries' \in [Procs -> [Fds -> Handles \cup {Free}]]
             /\ cloexec' \in [Procs -> [Fds -> BOOLEAN]]
             /\ refcount' \in [Handles -> Int]
  <2>1. entries' \in [Procs -> [Fds -> Handles \cup {Free}]]
    BY <1>6 DEF CloseEach
  <2>2. cloexec' \in [Procs -> [Fds -> BOOLEAN]]
    BY <1>6 DEF CloseEach
  <2>3. refcount' \in [Handles -> Int]
    BY <1>5, <1>6 DEF CloseEach
  <2> QED
    BY <2>1, <2>2, <2>3
<1>11. ASSUME NEW p \in Procs, NEW h \in Handles, SysOpen(p, h) PROVE TypeOK'
  <2>1. CASE /\ \E fd \in Fds : LowestFree(p, fd) /\ Install(p, fd, h)
             /\ refcount' = [refcount EXCEPT ![h] = 1]
             /\ leaked' = [leaked EXCEPT ![h] = 0]
             /\ UNCHANGED life
    BY <1>3, <2>1
  <2>2. CASE GrowToLimit(p) /\ UNCHANGED <<entries, cloexec, refcount, leaked, life>>
    BY <1>4, <2>2
  <2> QED
    BY <1>11, <2>1, <2>2 DEF SysOpen
<1>12. ASSUME NEW p \in Procs, NEW h \in Handles, NEW g \in Handles, SysPipe(p, h, g)
       PROVE  TypeOK'
  <2>1. ASSUME NEW fd \in Fds, NEW gd \in Fds,
               entries' = [entries EXCEPT ![p] = [@ EXCEPT ![fd] = h, ![gd] = g]],
               cloexec' = [cloexec EXCEPT ![p] = [@ EXCEPT ![fd] = FALSE, ![gd] = FALSE]],
               len' = [len EXCEPT ![p] = MaxLen(@, gd + 1)],
               refcount' = [refcount EXCEPT ![h] = 1, ![g] = 1],
               leaked' = [leaked EXCEPT ![h] = 0, ![g] = 0],
               UNCHANGED life
        PROVE  TypeOK'
    <3>1. entries' \in [Procs -> [Fds -> Handles \cup {Free}]]
      BY <2>1
    <3>2. cloexec' \in [Procs -> [Fds -> BOOLEAN]]
      BY Zenon, <2>1
    <3>3. len' \in [Procs -> 0 .. TopFd + 1]
      BY <1>1, <2>1
    <3>4. refcount' \in [Handles -> Int] /\ leaked' \in [Handles -> Nat]
      BY <2>1
    <3> QED
      BY Zenon, <2>1, <3>1, <3>2, <3>3, <3>4
  <2>2. ASSUME NEW fd \in Fds,
               cloexec' = [cloexec EXCEPT ![p][fd] = FALSE],
               GrowToLimit(p),
               UNCHANGED <<entries, refcount, leaked, life>>
        PROVE  TypeOK'
    BY <1>4, <2>2
  <2>3. CASE GrowToLimit(p) /\ UNCHANGED <<entries, cloexec, refcount, leaked, life>>
    BY <1>4, <2>3
  <2> QED
    BY Zenon, <1>12, <2>1, <2>2, <2>3 DEF SysPipe
<1>13. ASSUME NEW p \in Procs, NEW fd \in Fds, SysClose(p, fd) PROVE TypeOK'
  BY <1>13 DEF SysClose
<1>14. ASSUME NEW p \in Procs, NEW fd \in Fds, SysDup(p, fd) PROVE TypeOK'
  <2> DEFINE h == entries[p][fd]
  <2>1. h \in Handles /\ refcount' = [refcount EXCEPT ![h] = @ + 1] /\ UNCHANGED life
    BY <1>14 DEF SysDup
  <2> HIDE DEF h
  <2>2. CASE (\E new \in Fds : LowestFree(p, new) /\ Install(p, new, h)) /\ UNCHANGED leaked
    BY <1>3, <2>1, <2>2
  <2>3. CASE /\ GrowToLimit(p)
             /\ leaked' = [leaked EXCEPT ![h] = @ + 1]
             /\ UNCHANGED <<entries, cloexec>>
    BY <1>4, <2>1, <2>3
  <2> QED
    BY <1>14, <2>2, <2>3 DEF SysDup, h
<1>15. ASSUME NEW p \in Procs, NEW fd \in Fds, SysSetCloexec(p, fd) PROVE TypeOK'
  BY <1>15 DEF SysSetCloexec
<1>16. ASSUME NEW p \in Procs, NEW fd \in Fds, NEW new \in Fds, SysDup2(p, fd, new)
       PROVE  TypeOK'
  <2>1. CASE fd = new
    <3>0. cloexec' = [cloexec EXCEPT ![p][fd] = FALSE]
      BY <1>16, <2>1 DEF SysDup2
    <3>1. cloexec' \in [Procs -> [Fds -> BOOLEAN]]
      BY <3>0
    <3> QED
      BY <1>16, <2>1, <3>1 DEF SysDup2
  <2>2. CASE fd # new
    <3>1. entries[p][fd] \in Handles /\ Install(p, new, entries[p][fd])
      BY <1>16, <2>2 DEF SysDup2
    <3>2. refcount' \in [Handles -> Int]
      BY <1>16, <2>2 DEF SysDup2, Recount
    <3> QED
      BY <1>3, <1>16, <3>1, <3>2 DEF SysDup2
  <2> QED
    BY <2>1, <2>2
<1>17. ASSUME NEW p \in Procs, NEW c \in Procs, SysFork(p, c) PROVE TypeOK'
  <2>1. refcount' \in [Handles -> Int]
    BY <1>5, <1>17 DEF SysFork
  <2> QED
    BY <1>17, <2>1 DEF SysFork
<1>18. ASSUME NEW p \in Procs, SysExec(p) PROVE TypeOK'
  BY <1>6, <1>18 DEF SysExec
<1>19. ASSUME NEW p \in Procs, Exit(p) PROVE TypeOK'
  BY <1>6, <1>19 DEF Exit
<1>20. ASSUME NEW p \in Procs, Kill(p) PROVE TypeOK'
  BY <1>20 DEF Kill
<1>21. CASE UNCHANGED vars
  BY <1>21 DEF vars
<1> QED
  BY <1>11, <1>12, <1>13, <1>14, <1>15, <1>16, <1>17, <1>18, <1>19, <1>20, <1>21 DEF Next

\* The type invariant of the descriptor tables.
THEOREM TypeCorrect == Spec => []TypeOK
<1>1. Init => TypeOK
  BY FdTableAssumption DEF Init, TypeOK, EmptyTable, NoFlags, Fds
<1> QED
  BY <1>1, TypeStep, PTL DEF Spec

-----------------------------------------------------------------------------
\* No step puts a handle or a flag beyond the end of a table.
LEMMA EndStep == TypeOK /\ NothingBeyondEnd /\ [Next]_vars => NothingBeyondEnd'
<1> SUFFICES ASSUME TypeOK, NothingBeyondEnd, [Next]_vars PROVE NothingBeyondEnd'
  OBVIOUS
<1> USE DEF TypeOK, NothingBeyondEnd
<1>0. Fds \subseteq Int /\ FdLimit \in Nat /\ \A p \in Procs : len[p] \in Nat
  BY FdTableAssumption DEF Fds
<1>1. ASSUME NEW p \in Procs, NEW fd \in Fds, NEW h, Install(p, fd, h), UNCHANGED life, life[p] = "live"
      PROVE  NothingBeyondEnd'
  BY <1>0, <1>1 DEF Install, MaxLen
<1>2. ASSUME NEW p \in Procs, GrowToLimit(p), UNCHANGED <<entries, cloexec, life>>, life[p] = "live"
      PROVE  NothingBeyondEnd'
  BY <1>0, <1>2 DEF GrowToLimit, MaxLen
<1>3. ASSUME NEW p \in Procs, NEW fds \in SUBSET Fds, CloseEach(p, fds), UNCHANGED len,
             life' = life \/ life' = [life EXCEPT ![p] = "dead"]
      PROVE  NothingBeyondEnd'
  <2>1. \A q \in Procs, fd \in Fds :
            /\ entries'[q][fd] \in {Free, entries[q][fd]}
            /\ cloexec'[q][fd] => cloexec[q][fd]
    BY <1>3 DEF CloseEach
  <2>2. \A q \in Procs : life'[q] = "none" => life[q] = "none"
    BY <1>3
  <2> QED
    BY <1>3, <2>1, <2>2
<1>11. ASSUME NEW p \in Procs, NEW h \in Handles, SysOpen(p, h) PROVE NothingBeyondEnd'
  BY <1>1, <1>2, <1>11 DEF SysOpen
<1>12. ASSUME NEW p \in Procs, NEW h \in Handles, NEW g \in Handles, SysPipe(p, h, g)
       PROVE  NothingBeyondEnd'
  <2>0. life[p] = "live" /\ UNCHANGED life
    BY <1>12 DEF SysPipe
  <2>1. ASSUME NEW fd \in Fds, NEW gd \in Fds, fd < gd,
               entries' = [entries EXCEPT ![p] = [@ EXCEPT ![fd] = h, ![gd] = g]],
               cloexec' = [cloexec EXCEPT ![p] = [@ EXCEPT ![fd] = FALSE, ![gd] = FALSE]],
               len' = [len EXCEPT ![p] = MaxLen(@, gd + 1)]
        PROVE  NothingBeyondEnd'
    BY <1>0, <2>0, <2>1 DEF MaxLen
  <2>2. ASSUME NEW fd \in Fds,
               cloexec' = [cloexec EXCEPT ![p][fd] = FALSE],
               GrowToLimit(p), UNCHANGED entries
        PROVE  NothingBeyondEnd'
    BY <1>0, <2>0, <2>2 DEF GrowToLimit, MaxLen
  <2>3. CASE GrowToLimit(p) /\ UNCHANGED <<entries, cloexec, life>>
    BY <1>2, <2>0, <2>3
  <2> QED
    BY Zenon, <1>12, <2>1, <2>2, <2>3 DEF SysPipe
<1>13. ASSUME NEW p \in Procs, NEW fd \in Fds, SysClose(p, fd) PROVE NothingBeyondEnd'
  BY <1>0, <1>13 DEF SysClose
<1>14. ASSUME NEW p \in Procs, NEW fd \in Fds, SysDup(p, fd) PROVE NothingBeyondEnd'
  BY <1>1, <1>2, <1>14 DEF SysDup
<1>15. ASSUME NEW p \in Procs, NEW fd \in Fds, SysSetCloexec(p, fd) PROVE NothingBeyondEnd'
  BY <1>0, <1>15 DEF SysSetCloexec
<1>16. ASSUME NEW p \in Procs, NEW fd \in Fds, NEW new \in Fds, SysDup2(p, fd, new)
       PROVE  NothingBeyondEnd'
  <2>1. CASE fd = new
    <3>1. cloexec' = [cloexec EXCEPT ![p][fd] = FALSE] /\ UNCHANGED <<entries, len, life>>
      BY <1>16, <2>1 DEF SysDup2
    <3> QED
      BY <1>0, <3>1
  <2>2. CASE fd # new
    BY <1>1, <1>16, <2>2 DEF SysDup2
  <2> QED
    BY <2>1, <2>2
<1>17. ASSUME NEW p \in Procs, NEW c \in Procs, SysFork(p, c) PROVE NothingBeyondEnd'
  BY <1>0, <1>17 DEF SysFork
<1>18. ASSUME NEW p \in Procs, SysExec(p) PROVE NothingBeyondEnd'
  BY Zenon, <1>3, <1>18 DEF SysExec
<1>19. ASSUME NEW p \in Procs, Exit(p) PROVE NothingBeyondEnd'
  BY Zenon, <1>3, <1>19 DEF Exit
<1>20. ASSUME NEW p \in Procs, Kill(p) PROVE NothingBeyondEnd'
  BY <1>20 DEF Kill
<1>21. CASE UNCHANGED vars
  BY <1>21 DEF vars
<1> QED
  BY <1>11, <1>12, <1>13, <1>14, <1>15, <1>16, <1>17, <1>18, <1>19, <1>20, <1>21 DEF Next

\* close_all and close_fd reach every descriptor that is open: nothing lies
\* beyond the end of a table, however dup2, failing allocations and fork grow it.
THEOREM NothingIsBeyondEnd == Spec => []NothingBeyondEnd
<1>1. Init => NothingBeyondEnd
  BY DEF Init, NothingBeyondEnd, EmptyTable, NoFlags
<1> QED
  BY <1>1, EndStep, TypeCorrect, PTL DEF Spec

-----------------------------------------------------------------------------
\* No step leaves a close-on-exec flag on a closed descriptor.
LEMMA CloexecStep == TypeOK /\ CloexecIsOpen /\ [Next]_vars => CloexecIsOpen'
<1> SUFFICES ASSUME TypeOK, CloexecIsOpen, [Next]_vars PROVE CloexecIsOpen'
  OBVIOUS
<1> USE FdTableAssumption DEF TypeOK, CloexecIsOpen
<1>1. ASSUME NEW p \in Procs, NEW fd \in Fds, NEW h, Install(p, fd, h)
      PROVE  CloexecIsOpen'
  BY <1>1 DEF Install
<1>2. ASSUME NEW p \in Procs, NEW fds \in SUBSET Fds, CloseEach(p, fds)
      PROVE  CloexecIsOpen'
  <2>1. \A q \in Procs, fd \in Fds :
            cloexec'[q][fd] => cloexec[q][fd] /\ entries'[q][fd] = entries[q][fd]
    BY Zenon, <1>2 DEF CloseEach
  <2> QED
    BY <2>1
<1>11. ASSUME NEW p \in Procs, NEW h \in Handles, SysOpen(p, h) PROVE CloexecIsOpen'
  BY <1>1, <1>11 DEF SysOpen
<1>12. ASSUME NEW p \in Procs, NEW h \in Handles, NEW g \in Handles, SysPipe(p, h, g)
       PROVE  CloexecIsOpen'
  <2>1. ASSUME NEW fd \in Fds, NEW gd \in Fds,
               entries' = [entries EXCEPT ![p] = [@ EXCEPT ![fd] = h, ![gd] = g]],
               cloexec' = [cloexec EXCEPT ![p] = [@ EXCEPT ![fd] = FALSE, ![gd] = FALSE]]
        PROVE  CloexecIsOpen'
    <3>1. \A q \in Procs : q # p => entries'[q] = entries[q] /\ cloexec'[q] = cloexec[q]
      BY <2>1
    <3>2. /\ entries'[p] = [entries[p] EXCEPT ![fd] = h, ![gd] = g]
          /\ cloexec'[p] = [cloexec[p] EXCEPT ![fd] = FALSE, ![gd] = FALSE]
      BY <2>1
    <3>3. \A x \in Fds : cloexec'[p][x] => cloexec[p][x] /\ entries'[p][x] = entries[p][x]
      BY <3>2
    <3> QED BY <3>1, <3>3
  <2>2. ASSUME NEW fd \in Fds, cloexec' = [cloexec EXCEPT ![p][fd] = FALSE], UNCHANGED entries
        PROVE  CloexecIsOpen'
    BY <2>2
  <2> QED
    BY Zenon, <1>12, <2>1, <2>2 DEF SysPipe
<1>13. ASSUME NEW p \in Procs, NEW fd \in Fds, SysClose(p, fd) PROVE CloexecIsOpen'
  BY <1>13 DEF SysClose
<1>14. ASSUME NEW p \in Procs, NEW fd \in Fds, SysDup(p, fd) PROVE CloexecIsOpen'
  BY <1>1, <1>14 DEF SysDup
<1>15. ASSUME NEW p \in Procs, NEW fd \in Fds, SysSetCloexec(p, fd) PROVE CloexecIsOpen'
  BY <1>15 DEF SysSetCloexec
<1>16. ASSUME NEW p \in Procs, NEW fd \in Fds, NEW new \in Fds, SysDup2(p, fd, new)
       PROVE  CloexecIsOpen'
  <2>1. CASE fd = new
    <3>1. cloexec' = [cloexec EXCEPT ![p][fd] = FALSE] /\ UNCHANGED entries
      BY <1>16, <2>1 DEF SysDup2
    <3> QED
      BY <3>1
  <2>2. CASE fd # new
    BY <1>1, <1>16, <2>2 DEF SysDup2
  <2> QED
    BY <2>1, <2>2
<1>17. ASSUME NEW p \in Procs, NEW c \in Procs, SysFork(p, c) PROVE CloexecIsOpen'
  BY <1>17 DEF SysFork
<1>18. ASSUME NEW p \in Procs, SysExec(p) PROVE CloexecIsOpen'
  BY <1>2, <1>18 DEF SysExec
<1>19. ASSUME NEW p \in Procs, Exit(p) PROVE CloexecIsOpen'
  BY <1>2, <1>19 DEF Exit
<1>20. ASSUME NEW p \in Procs, Kill(p) PROVE CloexecIsOpen'
  BY <1>20 DEF Kill
<1>21. CASE UNCHANGED vars
  BY <1>21 DEF vars
<1> QED
  BY <1>11, <1>12, <1>13, <1>14, <1>15, <1>16, <1>17, <1>18, <1>19, <1>20, <1>21 DEF Next

\* A close-on-exec flag always belongs to an open descriptor, so exec never
\* closes a file that merely took over the number of a closed one.
THEOREM CloexecAlwaysOpen == Spec => []CloexecIsOpen
<1>1. Init => CloexecIsOpen
  BY DEF Init, CloexecIsOpen, NoFlags
<1> QED
  BY <1>1, CloexecStep, TypeCorrect, PTL DEF Spec

-----------------------------------------------------------------------------
\* Refs counts what RefsIn counts, before and after a step.
LEMMA RefsAreRefsIn ==
    \A h : Refs(h) = RefsIn(entries, h) /\ Refs(h)' = RefsIn(entries', h)
BY DEF Refs, RefsIn

\* Closing the descriptors fds of p removes exactly the references in its row.
LEMMA CloseCount ==
    ASSUME TypeOK, NEW p \in Procs, NEW fds \in SUBSET Fds, CloseEach(p, fds),
           NEW h \in Handles
    PROVE  /\ Cardinality(RefsIn(entries', h)) = Cardinality(RefsIn(entries, h)) - Count(p, h, fds)
           /\ RefsIn(entries', h) \subseteq RefsIn(entries, h)
<1> DEFINE A == RefsIn(entries, h)
           B == RefsIn(entries', h)
           row == Row(entries, p, h, fds)
           R == RowRefs(entries, p, h, fds)
<1>1. \A q \in Procs, fd \in Fds :
          entries'[q][fd] = IF q = p /\ fd \in fds THEN Free ELSE entries[q][fd]
  BY DEF TypeOK, CloseEach
<1>2. \A r \in Procs \X Fds : r = <<r[1], r[2]>> /\ r[1] \in Procs /\ r[2] \in Fds
  OBVIOUS
<1>3. \A r \in Procs \X Fds : r \in R <=> r[1] = p /\ r[2] \in fds /\ r \in A
  BY <1>2 DEF Row, RowRefs, RefsIn
<1>4. A \subseteq Procs \X Fds /\ B \subseteq Procs \X Fds /\ R \subseteq Procs \X Fds
  BY DEF Row, RowRefs, RefsIn
<1>5. \A r \in Procs \X Fds : r \in B <=> r \in A /\ r \notin R
  BY <1>1, <1>2, <1>3, FdTableAssumption DEF RefsIn
<1>6. IsFiniteSet(A) /\ Cardinality(A) \in Nat
  BY RefsFinite
<1>7. Cardinality(R) = Cardinality(row) /\ Cardinality(row) \in Nat
  <2>1. Cardinality(RowRefs(entries, p, h, fds)) = Cardinality(Row(entries, p, h, fds))
    BY RowCount, Zenon
  <2>2. Cardinality(Row(entries, p, h, fds)) \in Nat
    BY RowCount, Zenon
  <2> QED
    BY <2>1, <2>2
<1>8. Count(p, h, fds) = Cardinality(row)
  BY DEF Count, Row
<1> HIDE DEF A, B, R, row
<1>9. B = A \ R /\ A \cap R = R
  BY <1>3, <1>4, <1>5
<1>10. Cardinality(A \ R) = Cardinality(A) - Cardinality(A \cap R)
  BY <1>6, FS_Difference, Zenon
<1>11. Cardinality(B) = Cardinality(A) - Count(p, h, fds) /\ B \subseteq A
  BY <1>7, <1>8, <1>9, <1>10
<1> QED
  BY <1>11 DEF A, B

\* fork_clone adds to the empty table of c a copy of p's row.
LEMMA ForkCount ==
    ASSUME TypeOK, NothingBeyondEnd, NEW p \in Procs, NEW c \in Procs, SysFork(p, c),
           NEW h \in Handles
    PROVE  /\ Cardinality(RefsIn(entries', h)) = Cardinality(RefsIn(entries, h)) + Count(p, h, Fds)
           /\ RefsIn(entries', h) # {} => RefsIn(entries, h) # {}
<1> DEFINE A == RefsIn(entries, h)
           B == RefsIn(entries', h)
           row == Row(entries, p, h, Fds)
           rowC == Row(entries', c, h, Fds)
           R == RowRefs(entries', c, h, Fds)
<1>1. p # c /\ \A fd \in Fds : entries[c][fd] = Free
  BY FdTableAssumption DEF SysFork, NothingBeyondEnd, TypeOK, Fds
<1>2. \A q \in Procs, fd \in Fds :
          entries'[q][fd] = IF q = c THEN entries[p][fd] ELSE entries[q][fd]
  BY DEF TypeOK, SysFork
<1>3. \A r \in Procs \X Fds : r = <<r[1], r[2]>> /\ r[1] \in Procs /\ r[2] \in Fds
  OBVIOUS
<1>4. A \subseteq Procs \X Fds /\ B \subseteq Procs \X Fds /\ R \subseteq Procs \X Fds
  BY DEF Row, RowRefs, RefsIn
<1>5. row = rowC
  BY <1>2 DEF Row
<1>6. \A r \in Procs \X Fds : r \in R <=> r[1] = c /\ r \in B
  BY <1>3 DEF Row, RowRefs, RefsIn
<1>7. \A r \in Procs \X Fds : (r \in B <=> r \in A \/ r \in R) /\ ~(r \in A /\ r \in R)
  <2>1. \A r \in Procs \X Fds : r[1] # c => (r \in B <=> r \in A)
    BY <1>2, <1>3 DEF RefsIn
  <2>2. \A r \in Procs \X Fds : r[1] = c => r \notin A
    BY <1>1, <1>3, FdTableAssumption DEF RefsIn
  <2> HIDE DEF A, B, R
  <2> QED
    BY <1>6, <2>1, <2>2
<1>8. B # {} => A # {}
  <2>1. ASSUME NEW r \in B PROVE A # {}
    <3>1. r \in Procs \X Fds /\ entries'[r[1]][r[2]] = h
      BY <2>1 DEF RefsIn
    <3>2. CASE r[1] = c
      <4>1. entries[p][r[2]] = h
        BY <1>2, <1>3, <3>1, <3>2
      <4>2. <<p, r[2]>> \in A
        BY <1>3, <3>1, <4>1 DEF RefsIn
      <4> QED
        BY <4>2
    <3>3. CASE r[1] # c
      BY <1>2, <1>3, <3>1, <3>3 DEF RefsIn
    <3> QED
      BY <3>2, <3>3
  <2> QED
    BY <2>1
<1>9. IsFiniteSet(A) /\ Cardinality(A) \in Nat
  BY RefsFinite
<1>10. IsFiniteSet(R) /\ Cardinality(R) = Cardinality(row) /\ Cardinality(row) \in Nat
  <2>1. Cardinality(RowRefs(entries', c, h, Fds)) = Cardinality(Row(entries', c, h, Fds))
    BY RowCount, Zenon
  <2>2. Cardinality(Row(entries', c, h, Fds)) \in Nat
    BY RowCount, Zenon
  <2>3. IsFiniteSet(RowRefs(entries', c, h, Fds))
    BY RowCount, Zenon
  <2> QED
    BY <1>5, <2>1, <2>2, <2>3
<1>11. Count(p, h, Fds) = Cardinality(row)
  BY DEF Count, Row
<1> HIDE DEF A, B, R, row, rowC
<1>12. B = A \cup R /\ A \cap R = {}
  BY <1>4, <1>7
<1>13. Cardinality(A \cup R) = Cardinality(A) + Cardinality(R) - Cardinality(A \cap R)
  BY <1>9, <1>10, FS_Union, Zenon
<1>14. Cardinality(B) = Cardinality(A) + Count(p, h, Fds)
  <2>1. Cardinality(A \cap R) = 0
    BY <1>12, FS_EmptySet, Zenon
  <2>2. Cardinality(B) = Cardinality(A \cup R)
    BY <1>12, Zenon
  <2> QED
    BY <1>9, <1>10, <1>11, <1>13, <2>1, <2>2
<1> QED
  BY <1>8, <1>14 DEF A, B

-----------------------------------------------------------------------------
CountInv == TypeOK /\ NothingBeyondEnd /\ RefcountExact

\* The counts stay exact over every step.
LEMMA CountStep == CountInv /\ [Next]_vars => RefcountExact'
<1> SUFFICES ASSUME CountInv, [Next]_vars, NEW x \in Handles, RefsIn(entries', x) # {}
             PROVE  refcount'[x] = Cardinality(RefsIn(entries', x)) + leaked'[x]
  BY RefsAreRefsIn DEF RefcountExact
<1> DEFINE n == Cardinality(RefsIn(entries, x))
           m == Cardinality(RefsIn(entries', x))
<1>0. /\ TypeOK /\ NothingBeyondEnd /\ entries \in Tables
      /\ RefsIn(entries, x) # {} => refcount[x] = n + leaked[x]
      /\ refcount \in [Handles -> Int] /\ leaked \in [Handles -> Nat]
  BY RefsAreRefsIn DEF CountInv, TypeOK, Tables, RefcountExact
<1>1. n \in Nat /\ m \in Nat
  BY RefsFinite
<1>2. \A h \in Handles : RefsIn(entries, h) = {} => Cardinality(RefsIn(entries, h)) = 0
  BY FS_EmptySet, Zenon
<1>3. entries' = entries => m = n /\ RefsIn(entries, x) # {}
  OBVIOUS
<1>4. ASSUME NEW p \in Procs, NEW fd \in Fds, NEW h \in Handles, Install(p, fd, h), entries[p][fd] # h
      PROVE  /\ m = n + One(x = h) - One(x = entries[p][fd])
             /\ x # h => RefsIn(entries, x) # {}
  <2>1. entries' = [entries EXCEPT ![p] = [@ EXCEPT ![fd] = h]]
    BY <1>4 DEF Install
  <2> QED
    <3>1. Stored(entries, entries', x, h, entries[p][fd])
      BY <1>0, <1>4, <2>1, StoreCount, Zenon
    <3> QED
      BY <3>1 DEF Stored
<1> HIDE DEF n, m
<1>11. ASSUME NEW p \in Procs, NEW h \in Handles, SysOpen(p, h)
       PROVE  refcount'[x] = m + leaked'[x]
  <2>0. RefsIn(entries, h) = {}
    BY <1>11, RefsAreRefsIn DEF SysOpen
  <2>1. CASE UNCHANGED <<entries, refcount, leaked>>
    BY <1>0, <1>3, <2>1
  <2>2. ASSUME NEW fd \in Fds, LowestFree(p, fd), Install(p, fd, h),
               refcount' = [refcount EXCEPT ![h] = 1], leaked' = [leaked EXCEPT ![h] = 0]
        PROVE  refcount'[x] = m + leaked'[x]
    <3>1. entries[p][fd] = Free /\ Free # h /\ Free # x
      BY <2>2, FdTableAssumption DEF LowestFree
    <3>2. m = n + One(x = h) /\ (x # h => RefsIn(entries, x) # {})
      BY <1>1, <1>4, <2>2, <3>1 DEF One
    <3>3. x = h => n = 0
      BY <1>2, <2>0 DEF n
    <3> QED
      BY <1>0, <1>1, <2>2, <3>2, <3>3 DEF One
  <2> QED
    BY <1>11, <2>1, <2>2 DEF SysOpen
<1>13. ASSUME NEW p \in Procs, NEW fd \in Fds, SysClose(p, fd)
       PROVE  refcount'[x] = m + leaked'[x]
  <2> DEFINE h == entries[p][fd]
  <2>1. CASE h = Free
    <3>1. entries' = entries /\ UNCHANGED <<refcount, leaked>>
      BY <1>0, <1>13, <2>1 DEF SysClose, Tables
    <3> QED
      BY <1>0, <1>3, <3>1
  <2>2. CASE h # Free
    <3>1. /\ entries' = [entries EXCEPT ![p] = [@ EXCEPT ![fd] = Free]]
          /\ refcount' = [refcount EXCEPT ![h] = @ - 1] /\ leaked' = leaked
      BY <1>13, <2>2 DEF SysClose
    <3>2. x # Free
      BY FdTableAssumption
    <3>3. m = n - One(x = h) /\ RefsIn(entries, x) # {}
      <4>1. /\ m = n + One(x = Free) - One(x = h)
            /\ RefsIn(entries, x) # {}
        <5>1. Stored(entries, entries', x, Free, entries[p][fd])
          BY <1>0, <2>2, <3>1, StoreCount, Zenon
        <5> QED
          BY <3>2, <5>1 DEF Stored, n, m
      <4> QED
        BY <1>1, <3>2, <4>1 DEF One
    <3> QED
      BY <1>0, <1>1, <3>1, <3>3 DEF One
  <2> QED
    BY <2>1, <2>2
<1>12. ASSUME NEW p \in Procs, NEW h \in Handles, NEW g \in Handles, SysPipe(p, h, g)
       PROVE  refcount'[x] = m + leaked'[x]
  <2>0. h # g /\ RefsIn(entries, h) = {} /\ RefsIn(entries, g) = {}
    BY <1>12, RefsAreRefsIn DEF SysPipe
  <2>1. CASE UNCHANGED <<entries, refcount, leaked>>
    BY <1>0, <1>3, <2>1
  <2>2. ASSUME NEW fd \in Fds, NEW gd \in Fds, fd # gd,
               entries[p][fd] = Free, entries[p][gd] = Free,
               entries' = [entries EXCEPT ![p] = [@ EXCEPT ![fd] = h, ![gd] = g]],
               refcount' = [refcount EXCEPT ![h] = 1, ![g] = 1],
               leaked' = [leaked EXCEPT ![h] = 0, ![g] = 0]
        PROVE  refcount'[x] = m + leaked'[x]
    <3> DEFINE e == [entries EXCEPT ![p] = [@ EXCEPT ![fd] = h]]
               k == Cardinality(RefsIn(e, x))
    <3>1. e[p][gd] = Free /\ entries' = [e EXCEPT ![p] = [@ EXCEPT ![gd] = g]]
      BY Zenon, <1>0, <2>2 DEF Tables
    <3>2. Free # h /\ Free # g /\ Free # x
      BY FdTableAssumption
    <3>3. Stored(entries, e, x, h, entries[p][fd])
      BY <1>0, <2>2, <3>2, StoreCount, Zenon
    <3>4. e \in Tables
      BY <3>3 DEF Stored
    <3>5. k = n + One(x = h) - One(x = Free) /\ (x # h /\ RefsIn(e, x) # {} => RefsIn(entries, x) # {})
      BY Zenon, <2>2, <3>3 DEF Stored, n
    <3>6. k \in Nat
      BY RefsFinite
    <3> HIDE DEF e
    <3>7. Stored(e, entries', x, g, e[p][gd])
      BY <2>2, <3>1, <3>2, <3>4, StoreCount, Zenon
    <3>8. m = k + One(x = g) - One(x = Free) /\ (x # g => RefsIn(e, x) # {})
      BY ZenonT(60), <3>1, <3>7 DEF Stored, m
    <3> HIDE DEF k
    <3>9. x = h \/ x = g => n = 0
      BY <1>2, <2>0 DEF n
    <3>10. m = n + One(x = h) + One(x = g) /\ (x # h /\ x # g => RefsIn(entries, x) # {})
      BY <1>1, <3>2, <3>5, <3>6, <3>8 DEF One
    <3> QED
      BY <1>0, <1>1, <2>0, <2>2, <3>9, <3>10 DEF One
  <2>3. ASSUME NEW fd \in Fds, NEW gd \in Fds, LowestFree(p, fd), fd < gd
        PROVE  fd # gd /\ entries[p][fd] = Free
    BY <2>3, FdTableAssumption DEF LowestFree, Fds
  <2> QED
    BY <1>12, <2>1, <2>2, <2>3 DEF SysPipe
<1>14. ASSUME NEW p \in Procs, NEW fd \in Fds, SysDup(p, fd)
       PROVE  refcount'[x] = m + leaked'[x]
  <2> DEFINE h == entries[p][fd]
  <2>1. h \in Handles /\ h # Free /\ refcount' = [refcount EXCEPT ![h] = @ + 1]
    BY <1>0, <1>14 DEF SysDup, Tables
  <2>2. RefsIn(entries, h) # {}
    <3>1. <<p, fd>> \in RefsIn(entries, h)
      BY DEF RefsIn
    <3> QED
      BY <3>1
  <2> HIDE DEF h
  <2>3. ASSUME NEW new \in Fds, LowestFree(p, new), Install(p, new, h), UNCHANGED leaked
        PROVE  refcount'[x] = m + leaked'[x]
    <3>1. entries[p][new] = Free /\ Free # x
      BY <2>3, FdTableAssumption DEF LowestFree
    <3>2. m = n + One(x = h) /\ RefsIn(entries, x) # {}
      BY <1>1, <1>4, <2>1, <2>2, <2>3, <3>1 DEF One
    <3> QED
      BY <1>0, <1>1, <2>1, <2>3, <3>2 DEF One
  <2>4. CASE leaked' = [leaked EXCEPT ![h] = @ + 1] /\ UNCHANGED <<entries, cloexec>>
    BY <1>0, <1>1, <1>3, <2>1, <2>4
  <2> QED
    BY <1>14, <2>3, <2>4 DEF SysDup, h
<1>16. ASSUME NEW p \in Procs, NEW fd \in Fds, NEW new \in Fds, SysDup2(p, fd, new)
       PROVE  refcount'[x] = m + leaked'[x]
  <2> DEFINE h == entries[p][fd]
             old == entries[p][new]
  <2>1. h \in Handles /\ leaked' = leaked
    BY <1>0, <1>16 DEF SysDup2, Tables
  <2>2. RefsIn(entries, h) # {}
    <3>1. <<p, fd>> \in RefsIn(entries, h)
      BY DEF RefsIn
    <3> QED
      BY <3>1
  <2>3. CASE fd = new
    BY <1>0, <1>3, <1>16, <2>3 DEF SysDup2
  <2>4. CASE fd # new
    <3>1. Install(p, new, h) /\ refcount'[x] = refcount[x] + One(x = h) - One(x = old)
      BY <1>16, <2>4 DEF SysDup2, Recount, One
    <3> HIDE DEF h
    <3>2. CASE old = h
      <4>1. entries' = entries
        BY <1>0, <3>1, <3>2 DEF Install, Tables
      <4> HIDE DEF old
      <4> QED
        BY <1>0, <1>1, <1>3, <2>1, <3>1, <3>2, <4>1 DEF One
    <3>3. CASE old # h
      <4>1. m = n + One(x = h) - One(x = old) /\ RefsIn(entries, x) # {}
        BY <1>4, <2>1, <2>2, <3>1, <3>3
      <4> HIDE DEF old
      <4> QED
        BY <1>0, <1>1, <2>1, <3>1, <4>1 DEF One
    <3> QED
      BY <3>2, <3>3
  <2> QED
    BY <2>3, <2>4
<1>17. ASSUME NEW p \in Procs, NEW c \in Procs, SysFork(p, c)
       PROVE  refcount'[x] = m + leaked'[x]
  <2>1. m = n + Count(p, x, Fds) /\ RefsIn(entries, x) # {}
    BY <1>0, <1>17, ForkCount DEF n, m
  <2>2. refcount'[x] = refcount[x] + Count(p, x, Fds) /\ leaked' = leaked
    BY <1>17 DEF SysFork
  <2>3. Count(p, x, Fds) \in Nat
    <3>1. Cardinality(Row(entries, p, x, Fds)) \in Nat
      BY RowCount, Zenon
    <3> QED
      BY <3>1 DEF Count, Row
  <2> QED
    BY <1>0, <1>1, <2>1, <2>2, <2>3
<1>18. ASSUME NEW p \in Procs, NEW fds \in SUBSET Fds, CloseEach(p, fds), UNCHANGED leaked
       PROVE  refcount'[x] = m + leaked'[x]
  <2>1. m = n - Count(p, x, fds) /\ RefsIn(entries, x) # {}
    BY <1>0, <1>18, CloseCount DEF n, m
  <2>2. refcount'[x] = refcount[x] - Count(p, x, fds)
    BY <1>18 DEF CloseEach
  <2>3. Count(p, x, fds) \in Nat
    <3>1. Cardinality(Row(entries, p, x, fds)) \in Nat
      BY RowCount, Zenon
    <3> QED
      BY <3>1 DEF Count, Row
  <2> QED
    BY <1>0, <1>1, <1>18, <2>1, <2>2, <2>3
<1>19. ASSUME NEW p \in Procs, SysExec(p) \/ Exit(p)
       PROVE  refcount'[x] = m + leaked'[x]
  BY <1>18, <1>19 DEF SysExec, Exit
<1>20. ASSUME UNCHANGED <<entries, refcount, leaked>>
       PROVE  refcount'[x] = m + leaked'[x]
  BY <1>0, <1>3, <1>20
<1>21. ASSUME NEW p \in Procs, Kill(p) \/ \E fd \in Fds : SysSetCloexec(p, fd)
       PROVE  UNCHANGED <<entries, refcount, leaked>>
  BY <1>21 DEF Kill, SysSetCloexec
<1> QED
  <2>1. refcount'[x] = m + leaked'[x]
    <3>1. CASE UNCHANGED vars
      BY <1>20, <3>1 DEF vars
    <3>2. CASE Next
      BY Zenon, <1>11, <1>12, <1>13, <1>14, <1>16, <1>17, <1>19, <1>20, <1>21, <3>2 DEF Next
    <3> QED
      BY <3>1, <3>2
  <2> QED
    BY <2>1 DEF m

\* FileHandle::refcount is exact for every handle in use: system calls of any
\* number of tasks on shared handles neither lose nor invent a reference,
\* apart from the dups that find no free descriptor.
THEOREM RefcountAlwaysExact == Spec => []RefcountExact
<1>1. Init => RefcountExact
  <2>1. ASSUME Init, NEW h \in Handles PROVE Refs(h) = {}
    BY <2>1, FdTableAssumption DEF Init, Refs, EmptyTable
  <2> QED
    BY <2>1 DEF RefcountExact
<1>2. TypeOK /\ NothingBeyondEnd /\ RefcountExact /\ [Next]_vars => RefcountExact'
  BY CountStep DEF CountInv
<1> QED
  BY <1>1, <1>2, TypeCorrect, NothingIsBeyondEnd, PTL DEF Spec

\* The tables, the flags and the counts agree in every reachable state, for any
\* number of tasks, of handles and of descriptors.
THEOREM TablesAlwaysExact == Spec => []TablesExact
BY TypeCorrect, NothingIsBeyondEnd, CloexecAlwaysOpen, RefcountAlwaysExact, PTL DEF TablesExact
=============================================================================
