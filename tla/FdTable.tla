------------------------------- MODULE FdTable -------------------------------
(***************************************************************************)
(* File descriptor tables (kernel_task/src/fd.rs) and the system calls     *)
(* that use them.  Tables of several tasks share FileHandles: dup, dup2    *)
(* and fork add references, close, exec and exit drop them, and every one  *)
(* of them keeps FileHandle::refcount by hand.                             *)
(*                                                                         *)
(* A handle that no table refers to is freed by its Arc, whatever its      *)
(* refcount says; a later open may find the same memory again.             *)
(***************************************************************************)
EXTENDS Integers, FiniteSets

CONSTANTS
    Procs,      \* tasks
    InitProc,   \* the first of them
    Handles,    \* FileHandles (addresses they may live at)
    Free,       \* an empty entry
    FdLimit,    \* the largest descriptor alloc_fd hands out (1_000_000)
    TopFd,      \* the largest newfd given to dup2, which has no limit
    MaxLeaked   \* how many dups may fail on one handle

ASSUME FdTableAssumption ==
    /\ IsFiniteSet(Procs)
    /\ InitProc \in Procs
    /\ Free \notin Handles
    /\ FdLimit \in Nat /\ TopFd \in Nat /\ FdLimit <= TopFd
    /\ MaxLeaked \in Nat

Fds == 0 .. TopFd

VARIABLES
    entries,    \* FdTable::entries, Free beyond len
    len,        \* the length of both vectors
    cloexec,    \* FdTable::cloexec
    refcount,   \* FileHandle::refcount
    leaked,     \* history: references counted by a dup that then failed
    life        \* "none" (not forked yet), "live", "dead"

vars == <<entries, len, cloexec, refcount, leaked, life>>

EmptyTable == [fd \in Fds |-> Free]
NoFlags == [fd \in Fds |-> FALSE]

Init ==
    /\ entries = [p \in Procs |-> EmptyTable]
    /\ len = [p \in Procs |-> 0]
    /\ cloexec = [p \in Procs |-> NoFlags]
    /\ refcount = [h \in Handles |-> 0]
    /\ leaked = [h \in Handles |-> 0]
    /\ life = [p \in Procs |-> IF p = InitProc THEN "live" ELSE "none"]

\* The entries that refer to h.
Refs(h) == {r \in Procs \X Fds : entries[r[1]][r[2]] = h}

\* ensure_len never shortens a table.
MaxLen(a, b) == IF a < b THEN b ELSE a

\* alloc_fd with min_fd 0, as every caller passes it: the descriptor it
\* returns is the lowest free one up to FdLimit.
LowestFree(p, fd) ==
    /\ fd \in 0 .. FdLimit /\ entries[p][fd] = Free
    /\ \A g \in 0 .. fd - 1 : entries[p][g] # Free

NoSpace(p) == \A fd \in 0 .. FdLimit : entries[p][fd] # Free

\* entries[idx] = Some(handle), cloexec[idx] = false, both grown to hold idx.
Install(p, fd, h) ==
    /\ entries' = [entries EXCEPT ![p][fd] = h]
    /\ cloexec' = [cloexec EXCEPT ![p][fd] = FALSE]
    /\ len' = [len EXCEPT ![p] = MaxLen(@, fd + 1)]

\* The search of a failing alloc_fd grows the table to its limit.
GrowToLimit(p) == len' = [len EXCEPT ![p] = MaxLen(@, FdLimit + 1)]

\* sys_open, sys_socket and sys_accept: a new FileHandle, of refcount 1, gets
\* the lowest free descriptor; without one it is dropped again.
SysOpen(p, h) ==
    /\ life[p] = "live" /\ Refs(h) = {}
    /\ \/ /\ \E fd \in Fds : LowestFree(p, fd) /\ Install(p, fd, h)
          /\ refcount' = [refcount EXCEPT ![h] = 1]
          /\ leaked' = [leaked EXCEPT ![h] = 0]
          /\ UNCHANGED life
       \/ /\ NoSpace(p)
          /\ GrowToLimit(p)
          /\ UNCHANGED <<entries, cloexec, refcount, leaked, life>>

\* sys_pipe: two new handles; when the second gets no descriptor the first is
\* closed again.
SysPipe(p, h, g) ==
    /\ life[p] = "live" /\ h # g /\ Refs(h) = {} /\ Refs(g) = {}
    /\ \/ \E fd, gd \in Fds :
            /\ LowestFree(p, fd)
            /\ fd < gd /\ gd <= FdLimit /\ entries[p][gd] = Free
            /\ \A k \in fd + 1 .. gd - 1 : entries[p][k] # Free
            /\ entries' = [entries EXCEPT ![p] = [@ EXCEPT ![fd] = h, ![gd] = g]]
            /\ cloexec' = [cloexec EXCEPT ![p] = [@ EXCEPT ![fd] = FALSE, ![gd] = FALSE]]
            /\ len' = [len EXCEPT ![p] = MaxLen(@, gd + 1)]
            /\ refcount' = [refcount EXCEPT ![h] = 1, ![g] = 1]
            /\ leaked' = [leaked EXCEPT ![h] = 0, ![g] = 0]
            /\ UNCHANGED life
       \/ \E fd \in Fds :
            /\ LowestFree(p, fd)
            /\ \A k \in fd + 1 .. FdLimit : entries[p][k] # Free
            /\ cloexec' = [cloexec EXCEPT ![p][fd] = FALSE]
            /\ GrowToLimit(p)
            /\ UNCHANGED <<entries, refcount, leaked, life>>
       \/ /\ NoSpace(p)
          /\ GrowToLimit(p)
          /\ UNCHANGED <<entries, cloexec, refcount, leaked, life>>

\* sys_close: close_fd fails beyond the end and succeeds on an empty entry.
SysClose(p, fd) ==
    /\ life[p] = "live" /\ fd < len[p]
    /\ LET h == entries[p][fd] IN
         refcount' = IF h = Free THEN refcount ELSE [refcount EXCEPT ![h] = @ - 1]
    /\ entries' = [entries EXCEPT ![p][fd] = Free]
    /\ cloexec' = [cloexec EXCEPT ![p][fd] = FALSE]
    /\ UNCHANGED <<len, leaked, life>>

\* sys_dup: the count goes up first; a failing alloc_fd drops the Arc only.
SysDup(p, fd) ==
    /\ life[p] = "live" /\ entries[p][fd] # Free
    /\ LET h == entries[p][fd] IN
       /\ refcount' = [refcount EXCEPT ![h] = @ + 1]
       /\ \/ /\ \E new \in Fds : LowestFree(p, new) /\ Install(p, new, h)
             /\ UNCHANGED leaked
          \/ /\ NoSpace(p) /\ leaked[h] < MaxLeaked
             /\ GrowToLimit(p)
             /\ leaked' = [leaked EXCEPT ![h] = @ + 1]
             /\ UNCHANGED <<entries, cloexec>>
    /\ UNCHANGED life

\* Mutant of Recount: the handle in the way is overwritten, not closed.
RecountNotClosed(old, h) == [refcount EXCEPT ![h] = @ + 1]

\* The counts after h is stored over the entry `old` (dup2 closes it first).
Recount(old, h) ==
    [x \in Handles |-> refcount[x] + (IF x = h THEN 1 ELSE 0) - (IF x = old THEN 1 ELSE 0)]

\* sys_dup2: onto itself it only clears the flag.
SysDup2(p, fd, new) ==
    /\ life[p] = "live" /\ entries[p][fd] # Free
    /\ IF fd = new
       THEN /\ cloexec' = [cloexec EXCEPT ![p][fd] = FALSE]
            /\ UNCHANGED <<entries, len, refcount>>
       ELSE /\ Install(p, new, entries[p][fd])
            /\ refcount' = Recount(entries[p][new], entries[p][fd])
    /\ UNCHANGED <<leaked, life>>

\* sys_fcntl F_SETFD
SysSetCloexec(p, fd) ==
    /\ life[p] = "live" /\ entries[p][fd] # Free
    /\ \E on \in BOOLEAN : cloexec' = [cloexec EXCEPT ![p][fd] = on]
    /\ UNCHANGED <<entries, len, refcount, leaked, life>>

\* How many entries of p's table, among fds, refer to h.
Count(p, h, fds) == Cardinality({fd \in fds : entries[p][fd] = h})

\* sys_fork: fork_clone copies the table and counts each entry again.
SysFork(p, c) ==
    /\ life[p] = "live" /\ life[c] = "none"
    /\ life' = [life EXCEPT ![c] = "live"]
    /\ entries' = [entries EXCEPT ![c] = entries[p]]
    /\ len' = [len EXCEPT ![c] = len[p]]
    /\ cloexec' = [cloexec EXCEPT ![c] = cloexec[p]]
    /\ refcount' = [h \in Handles |-> refcount[h] + Count(p, h, Fds)]
    /\ UNCHANGED leaked

\* close_fd for each of fds.
CloseEach(p, fds) ==
    /\ entries' = [entries EXCEPT ![p] = [fd \in Fds |-> IF fd \in fds THEN Free ELSE @[fd]]]
    /\ cloexec' = [cloexec EXCEPT ![p] = [fd \in Fds |-> fd \notin fds /\ @[fd]]]
    /\ refcount' = [h \in Handles |-> refcount[h] - Count(p, h, fds)]

\* TaskControlBlock::exec runs close_on_exec once the new image is in place.
SysExec(p) ==
    /\ life[p] = "live"
    /\ CloseEach(p, {fd \in Fds : cloexec[p][fd]})
    /\ UNCHANGED <<len, leaked, life>>

\* exit_current_and_run_next runs close_all.
Exit(p) ==
    /\ life[p] = "live"
    /\ life' = [life EXCEPT ![p] = "dead"]
    /\ CloseEach(p, Fds)
    /\ UNCHANGED <<len, leaked>>

\* kill_task marks another task exited and leaves its table as it is.
Kill(p) ==
    /\ life[p] = "live"
    /\ life' = [life EXCEPT ![p] = "dead"]
    /\ UNCHANGED <<entries, len, cloexec, refcount, leaked>>

Next ==
    \E p \in Procs :
        \/ \E h \in Handles : SysOpen(p, h)
        \/ \E h, g \in Handles : SysPipe(p, h, g)
        \/ \E fd \in Fds :
            SysClose(p, fd) \/ SysDup(p, fd) \/ SysSetCloexec(p, fd)
        \/ \E fd, new \in Fds : SysDup2(p, fd, new)
        \/ \E c \in Procs : SysFork(p, c)
        \/ SysExec(p) \/ Exit(p) \/ Kill(p)

Spec == Init /\ [][Next]_vars
-----------------------------------------------------------------------------
TypeOK ==
    /\ entries \in [Procs -> [Fds -> Handles \cup {Free}]]
    /\ len \in [Procs -> 0 .. TopFd + 1]
    /\ cloexec \in [Procs -> [Fds -> BOOLEAN]]
    /\ refcount \in [Handles -> Int]
    /\ leaked \in [Handles -> Nat]
    /\ life \in [Procs -> {"none", "live", "dead"}]

\* The hand-kept count of a handle in use is exact: one for every entry of any
\* table that refers to it, and one for each dup that failed on it.
RefcountExact ==
    \A h \in Handles :
        Refs(h) # {} => refcount[h] = Cardinality(Refs(h)) + leaked[h]

\* Nothing lies beyond the end of a table, and a task not yet forked has an
\* empty one: what close_fd cannot reach holds no handle and no flag.
NothingBeyondEnd ==
    \A p \in Procs :
        /\ \A fd \in Fds : fd >= len[p] => entries[p][fd] = Free /\ ~cloexec[p][fd]
        /\ life[p] = "none" => len[p] = 0

\* A close-on-exec flag belongs to an open descriptor: none is left behind to
\* close an unrelated file that later gets the same number.
CloexecIsOpen == \A p \in Procs, fd \in Fds : cloexec[p][fd] => entries[p][fd] # Free

\* What the tables, the flags and the counts say agrees: every count is exact,
\* nothing lies beyond the end of a table, and a close-on-exec flag belongs to an
\* open descriptor, through dups that fail, forks, execs, exits and kills.
TablesExact == TypeOK /\ RefcountExact /\ NothingBeyondEnd /\ CloexecIsOpen
=============================================================================
