------------------------------ MODULE Scheduler ------------------------------
(***************************************************************************)
(* The task scheduler of kernel_task, with the keyboard wait queue that    *)
(* blocks and wakes tasks, as it runs on the bootstrap processor (BSP).    *)
(*                                                                         *)
(* Only the BSP calls run_tasks: application processors halt, so there is  *)
(* one run queue with work in it and at most one task executes.  What      *)
(* interleaves is the task on the CPU, the idle loop, and the interrupt    *)
(* handlers (keyboard and timer) wherever interrupts are enabled.          *)
(*                                                                         *)
(* A task is its pid.  pc[t] is where t's kernel context stands: executing *)
(* there when run = t, saved there by __switch otherwise.  The contents of *)
(* the scancode ring are abstracted to their number.                       *)
(***************************************************************************)
EXTENDS Integers, FiniteSets, Sequences, Functions

CONSTANTS
    MaxPid,     \* pids handed out by allocate_pid are 1..MaxPid
    MaxCalls,   \* system calls made before all tasks must exit
    MaxKeys,    \* scancodes the keyboard sends
    BufSize,    \* BUF_SIZE of the scancode ring
    ReadLen,    \* length of the buffer a read is given
    MaxLag,     \* passes further apart than this are not told apart
    ExitCodes   \* codes tasks exit or are killed with

ASSUME SchedulerAssumption ==
    /\ MaxPid \in Nat \ {0}
    /\ MaxCalls \in Nat
    /\ MaxKeys \in Nat
    /\ BufSize \in Nat \ {0, 1}
    /\ ReadLen \in Nat \ {0}
    /\ MaxLag \in Nat \ {0}
    /\ ExitCodes \subseteq Int

Pids == 1 .. MaxPid
InitProc == 1
NoTask == 0
AnyChild == -1

VARIABLES
    status,       \* TaskControlBlock::task_status
    inRunQueue,   \* TaskControlBlock::in_run_queue
    pass,         \* TaskControlBlock::pass over the least of the living tasks',
                  \* in units of the common stride
    exitCode,     \* TaskControlBlock::exit_code
    parent,       \* TaskControlBlock::parent
    children,     \* TaskControlBlock::children
    allTasks,     \* ALL_TASKS
    nextPid,      \* PID_COUNTER
    readyQueue,   \* TASK_MANAGERS[bsp].ready_queue
    readyCount,   \* READY_COUNTS[bsp]
    needResched,  \* NEED_RESCHED[bsp]
    current,      \* PROCESSORS[bsp].current
    run,          \* the task whose context is on the CPU, NoTask in the idle loop
    picked,       \* the task run_tasks has fetched and not yet switched to
    irqOn,        \* the interrupt flag of the BSP
    pc,           \* where each task's kernel context stands
    waitFor,      \* the pid argument of the waitpid a task is in
    got,          \* bytes the read a task is in has decoded so far
    waiters,      \* KEYBOARD_DEVICE.waitq.waiters
    ring,         \* number of scancodes between TAIL and HEAD
    irqActive,    \* IRQ_INPUT_ACTIVE
    calls,        \* system calls made (bounded by MaxCalls)
    keys          \* scancodes sent (bounded by MaxKeys)

queueVars == <<readyQueue, readyCount, inRunQueue, status, needResched>>
familyVars == <<parent, children, allTasks, nextPid, exitCode>>
cpuVars == <<current, run, picked, irqOn>>
keyVars == <<waiters, ring, irqActive, keys>>
callVars == <<waitFor, got, calls>>
vars == <<queueVars, familyVars, cpuVars, keyVars, callVars, pass, pc>>

Statuses == {"Unborn", "Ready", "Running", "Waiting", "Exited"}

(***************************************************************************)
(* pc values: "user"; "sysret" (system call done, preemption check next);  *)
(* "readLoop" (the loop of sys_read), "pollHardware"; "readBytes" and      *)
(* "pollBytes" (read_bytes, on the interrupt and on the polling path);     *)
(* "waitWhile" (top of WaitQueue::wait_while); "block" (registered  *)
(* as a waiter, not yet switched out); "waitpidScan"; the switched-out     *)
(* points "born", "asleep", "yielded", "preempted", "polled", "waitpid"    *)
(* and "exited"; "spin" (waiting for a lock this CPU holds); "halt" (the   *)
(* loop after exit that is not supposed to be reached).                    *)
(***************************************************************************)
ParkedAt == {"born", "asleep", "yielded", "preempted", "polled", "waitpid", "exited"}
ActiveAt == {"user", "sysret", "readLoop", "pollHardware", "pollBytes", "readBytes",
             "waitWhile", "block", "waitpidScan", "spin", "halt"}

\* Where __switch resumes a context saved at each of the parked points.
ResumeAt(p) == CASE p = "born"      -> "user"
                 [] p = "asleep"    -> "waitWhile"
                 [] p = "yielded"   -> "sysret"
                 [] p = "preempted" -> "user"
                 [] p = "polled"    -> "readLoop"
                 [] p = "waitpid"   -> "waitpidScan"
                 [] p = "exited"    -> "halt"

\* s without its k-th element: VecDeque::remove and Vec::remove.
RemoveAt(s, k) == SubSeq(s, 1, k - 1) \o SubSeq(s, k + 1, Len(s))

\* The set holding the one subsequence of s that keeps the elements in K: what
\* VecDeque::retain leaves, or what a loop over s that skips the others visits.
Retain(s, K) ==
    {r \in UNION {[1 .. n -> K] : n \in 0 .. Len(s)} :
        \E f \in [1 .. Len(r) -> 1 .. Len(s)] :
            /\ \A i, j \in 1 .. Len(r) : i < j => f[i] < f[j]
            /\ \A i \in 1 .. Len(r) : r[i] = s[f[i]]
            /\ \A k \in 1 .. Len(s) : s[k] \in K => \E i \in 1 .. Len(r) : f[i] = k}

Init ==
    /\ status = [t \in Pids |-> IF t = InitProc THEN "Ready" ELSE "Unborn"]
    /\ inRunQueue = [t \in Pids |-> FALSE]
    /\ pass = [t \in Pids |-> 0]
    /\ exitCode = [t \in Pids |-> 0]
    /\ parent = [t \in Pids |-> NoTask]
    /\ children = [t \in Pids |-> <<>>]
    /\ allTasks = {InitProc}
    /\ nextPid = 2
    /\ readyQueue = <<InitProc>>
    /\ readyCount = 1
    /\ needResched = TRUE
    /\ current = NoTask /\ run = NoTask /\ picked = NoTask
    /\ irqOn = TRUE
    /\ pc = [t \in Pids |-> "born"]
    /\ waitFor = [t \in Pids |-> AnyChild]
    /\ got = [t \in Pids |-> 0]
    /\ waiters = <<>>
    /\ ring = 0
    /\ irqActive = FALSE
    /\ calls = 0
    /\ keys = 0
-----------------------------------------------------------------------------
(***************************************************************************)
(* runqueue.rs                                                             *)
(***************************************************************************)

\* Mutant of Enqueues: the Exited test dropped.
EnqueuesExited(t, st, flag) == ~flag[t]

\* Whether enqueue_ready pushes t, given the statuses and the queue flags.
Enqueues(t, st, flag) == ~flag[t] /\ st[t] # "Exited"

\* enqueue_ready(t), and the flag as the caller leaves it.
EnqueueReady(t, resched) ==
    /\ IF Enqueues(t, status, inRunQueue)
       THEN /\ readyQueue' = Append(readyQueue, t)
            /\ readyCount' = readyCount + 1
            /\ status' = [status EXCEPT ![t] = "Ready"]
            /\ inRunQueue' = [inRunQueue EXCEPT ![t] = TRUE]
       ELSE UNCHANGED <<readyQueue, readyCount, status, inRunQueue>>
    /\ needResched' = resched

\* add_task_arc: notify_resched when the task was pushed.
AddTaskArc(t) ==
    EnqueueReady(t, needResched \/ Enqueues(t, status, inRunQueue))

\* The index TaskManager::fetch removes: the first with the smallest pass.
FetchIndex(q) ==
    CHOOSE i \in 1 .. Len(q) :
        \A j \in 1 .. Len(q) :
            /\ pass[q[i]] <= pass[q[j]]
            /\ j < i => pass[q[i]] < pass[q[j]]

Alive == {t \in Pids : status[t] \notin {"Unborn", "Exited"}}

\* The passes after t's has grown by its stride (every task has the same one).
\* Only their order matters, so they are kept relative to the least one of a
\* living task, and at most MaxLag above it.
Advance(t) ==
    LET grown == [pass EXCEPT ![t] = @ + 1]
        least == IF \A u \in Alive : grown[u] > 0 THEN 1 ELSE 0
    IN [u \in Pids |-> IF grown[u] < least THEN 0
                       ELSE IF grown[u] - least > MaxLag THEN MaxLag
                       ELSE grown[u] - least]

\* run_tasks: fetch_next_task takes the next task off the queue.
Fetch ==
    /\ run = NoTask /\ picked = NoTask /\ readyQueue # <<>>
    /\ LET k == FetchIndex(readyQueue)
           t == readyQueue[k]
       IN /\ picked' = t
          /\ readyQueue' = RemoveAt(readyQueue, k)
          /\ readyCount' = readyCount - 1
          /\ inRunQueue' = [inRunQueue EXCEPT ![t] = FALSE]
          /\ pass' = Advance(t)
    /\ UNCHANGED <<status, needResched, current, run, irqOn, pc,
                   familyVars, keyVars, callVars>>

\* run_tasks: set_current_task, then __switch to the task.  The interrupt flag
\* is not part of the saved context, so the task resumes with it set.
SwitchTo ==
    /\ picked # NoTask
    /\ status' = [status EXCEPT ![picked] = "Running"]
    /\ current' = picked
    /\ run' = picked
    /\ picked' = NoTask
    /\ irqOn' = TRUE
    /\ pc' = [pc EXCEPT ![picked] = ResumeAt(@)]
    /\ UNCHANGED <<readyQueue, readyCount, inRunQueue, needResched, pass,
                   familyVars, keyVars, callVars>>

\* run_tasks with nothing to run: hlt until the next interrupt.
IdleHlt ==
    /\ run = NoTask /\ picked = NoTask /\ readyQueue = <<>>
    /\ UNCHANGED vars

\* schedule: t's context is saved at `point` and the idle loop continues,
\* clearing `current` and enabling interrupts.
SwitchOut(t, point) ==
    /\ run' = NoTask
    /\ current' = NoTask
    /\ irqOn' = TRUE
    /\ pc' = [pc EXCEPT ![t] = point]
    /\ UNCHANGED picked

\* suspend_current_and_run_next, called by t.
Suspend(t, point, resched) ==
    /\ EnqueueReady(t, resched)
    /\ SwitchOut(t, point)
-----------------------------------------------------------------------------
(***************************************************************************)
(* System calls.  InUser(t): t executes in user mode and may make one.     *)
(* The syscall entry masks interrupts.                                     *)
(***************************************************************************)
InUser(t) == run = t /\ pc[t] = "user"

Enter(t) ==
    /\ InUser(t)
    /\ calls < MaxCalls
    /\ calls' = calls + 1

\* The end of syscall_handler: check_preempt_from_syscall, then back to user.
SysRet(t) ==
    /\ run = t /\ pc[t] = "sysret"
    /\ IF needResched
       THEN Suspend(t, "preempted", FALSE)
       ELSE /\ pc' = [pc EXCEPT ![t] = "user"]
            /\ irqOn' = TRUE
            /\ UNCHANGED <<queueVars, current, run, picked>>
    /\ UNCHANGED <<pass, familyVars, keyVars, callVars>>

SysYield(t) ==
    /\ Enter(t)
    /\ Suspend(t, "yielded", needResched)
    /\ UNCHANGED <<pass, familyVars, keyVars, waitFor, got>>

\* sys_fork: the pid is taken first, so a failed fork still consumes it.  The
\* child is in its parent's children and in the run queue, not in ALL_TASKS.
SysFork(t) ==
    /\ Enter(t)
    /\ nextPid <= MaxPid
    /\ nextPid' = nextPid + 1
    /\ pc' = [pc EXCEPT ![t] = "sysret"]
    /\ irqOn' = FALSE
    /\ \/ /\ parent' = [parent EXCEPT ![nextPid] = t]
          /\ children' = [children EXCEPT ![t] = Append(@, nextPid)]
          /\ pass' = [pass EXCEPT ![nextPid] = pass[t]]
          /\ AddTaskArc(nextPid)
       \/ UNCHANGED <<parent, children, pass, queueVars>>
    /\ UNCHANGED <<allTasks, exitCode, current, run, picked, keyVars, waitFor, got>>

\* exit_current_and_run_next, by sys_exit, by a fatal page fault or by a task
\* that kills itself.  The parent's status lock is held while enqueue_ready
\* takes it again: when it gets that far, the CPU spins there for good.
Exit(t) ==
    /\ InUser(t)
    /\ \E code \in ExitCodes : exitCode' = [exitCode EXCEPT ![t] = code]
    /\ LET p == parent[t]
           wakes == p # NoTask /\ status[p] = "Waiting"
           relocks == wakes /\ ~inRunQueue[p]
       IN /\ status' = [u \in Pids |-> IF u = t THEN "Exited"
                                       ELSE IF wakes /\ u = p THEN "Ready"
                                       ELSE status[u]]
          /\ inRunQueue' = [u \in Pids |-> inRunQueue[u] \/ (relocks /\ u = p)]
          /\ IF relocks
             THEN /\ pc' = [pc EXCEPT ![t] = "spin"]
                  /\ irqOn' = FALSE
                  /\ UNCHANGED <<current, run, picked>>
             ELSE SwitchOut(t, "exited")
    /\ UNCHANGED <<readyQueue, readyCount, needResched, pass, parent, children,
                   allTasks, nextPid, keyVars, callVars>>

\* Mutant of KillOther: the victim stays in the run queue.
KillOtherKeepsQueued(victim, st, flag) ==
    \E woken \in Retain(waiters, {u \in Pids : Enqueues(u, st, flag)}) :
        /\ status' = [u \in Pids |-> IF u \in Range(woken) THEN "Ready" ELSE st[u]]
        /\ inRunQueue' = [u \in Pids |-> flag[u] \/ u \in Range(woken)]
        /\ readyQueue' = readyQueue \o woken
        /\ readyCount' = Len(readyQueue')
        /\ needResched' = (needResched \/ woken # <<>>)
        /\ waiters' = <<>>

\* What kill_task does to the queues once the victim is marked (st and flag):
\* wake_all on the keyboard queue, wake the victim's parent if it waits, and
\* drop the victim from the run queue.
KillOther(victim, st, flag) ==
    \E woken \in Retain(waiters, {u \in Pids : Enqueues(u, st, flag)}) :
        LET p == parent[victim]
            wakesParent == /\ p # NoTask /\ p \notin Range(woken)
                           /\ st[p] = "Waiting" /\ Enqueues(p, st, flag)
            new == IF wakesParent THEN Append(woken, p) ELSE woken
        IN /\ status' = [u \in Pids |-> IF u \in Range(new) THEN "Ready" ELSE st[u]]
           /\ inRunQueue' = [u \in Pids |-> flag[u] \/ u \in Range(new)]
           /\ readyQueue' \in Retain(readyQueue \o new, Pids \ {victim})
           /\ readyCount' = Len(readyQueue')
           /\ needResched' = (needResched \/ new # <<>>)
           /\ waiters' = <<>>

\* kill_task of another task.  Only tasks in ALL_TASKS are found.  The kill
\* hook (keyboard::wake_readers) wakes every task blocked in a keyboard read.
SysKill(t) ==
    /\ Enter(t)
    /\ pc' = [pc EXCEPT ![t] = "sysret"]
    /\ irqOn' = FALSE
    /\ \E victim \in Pids \ {t}, code \in ExitCodes :
        \/ /\ victim \notin allTasks
           /\ UNCHANGED <<queueVars, exitCode, waiters>>
        \/ /\ victim \in allTasks
           /\ exitCode' = [exitCode EXCEPT ![victim] = code]
           /\ KillOther(victim, [status EXCEPT ![victim] = "Exited"],
                                [inRunQueue EXCEPT ![victim] = FALSE])
    /\ UNCHANGED <<pass, parent, children, allTasks, nextPid, current, run, picked,
                   ring, irqActive, keys, waitFor, got>>
-----------------------------------------------------------------------------
(***************************************************************************)
(* sys_waitpid                                                             *)
(***************************************************************************)
SysWaitpid(t) ==
    /\ Enter(t)
    /\ \E target \in Pids \cup {AnyChild} : waitFor' = [waitFor EXCEPT ![t] = target]
    /\ pc' = [pc EXCEPT ![t] = "waitpidScan"]
    /\ irqOn' = FALSE
    /\ UNCHANGED <<queueVars, familyVars, current, run, picked, keyVars, pass, got>>

Reapable(c) == status[c] = "Exited"

\* One round of the loop of sys_waitpid: reap the first matching child that
\* has exited, or fail when no child matches, or mark the task Waiting and
\* switch away.  `current` is cleared by the idle loop only.
WaitpidScan(t) ==
    /\ run = t /\ pc[t] = "waitpidScan"
    /\ LET kids == children[t]
           matching == {i \in DOMAIN kids : waitFor[t] \in {AnyChild, kids[i]}}
           dead == {i \in matching : Reapable(kids[i])}
       IN \/ \E i \in dead :
             /\ \A j \in dead : i <= j
             /\ children' = [children EXCEPT ![t] = RemoveAt(@, i)]
             /\ pc' = [pc EXCEPT ![t] = "sysret"]
             /\ UNCHANGED <<status, cpuVars>>
          \/ /\ matching = {}
             /\ pc' = [pc EXCEPT ![t] = "sysret"]
             /\ UNCHANGED <<children, status, cpuVars>>
          \/ /\ dead = {} /\ matching # {}
             /\ status' = [status EXCEPT ![t] = "Waiting"]
             /\ SwitchOut(t, "waitpid")
             /\ UNCHANGED children
    /\ UNCHANGED <<readyQueue, readyCount, inRunQueue, needResched, parent, allTasks,
                   nextPid, exitCode, keyVars, callVars, pass>>
-----------------------------------------------------------------------------
(***************************************************************************)
(* Reading the keyboard: sys_read on descriptor 0, KeyboardDevice::read    *)
(* and WaitQueue::wait_while.  Interrupts are enabled throughout, except   *)
(* in the section of wait_while that tests the ring and registers.         *)
(***************************************************************************)
SysRead(t) ==
    /\ Enter(t)
    /\ irqOn' = TRUE
    /\ got' = [got EXCEPT ![t] = 0]
    /\ pc' = [pc EXCEPT ![t] = "readLoop"]
    /\ UNCHANGED <<queueVars, familyVars, current, run, picked, keyVars, pass, waitFor>>

Pushed(r) == IF r + 1 < BufSize THEN r + 1 ELSE r

\* The loop of sys_read: the interrupt path once an interrupt has delivered a
\* scancode, the polling path before.
ReadLoop(t) ==
    /\ run = t /\ pc[t] = "readLoop"
    /\ pc' = [pc EXCEPT ![t] = IF irqActive THEN "readBytes" ELSE "pollHardware"]
    /\ UNCHANGED <<queueVars, familyVars, cpuVars, keyVars, callVars, pass>>

\* poll_hardware_nonblock: push a scancode found in the controller, waking
\* nobody, or find none.
PollHardware(t) ==
    /\ run = t /\ pc[t] = "pollHardware"
    /\ pc' = [pc EXCEPT ![t] = "pollBytes"]
    /\ \/ keys < MaxKeys /\ keys' = keys + 1 /\ ring' = Pushed(ring)
       \/ UNCHANGED <<ring, keys>>
    /\ UNCHANGED <<queueVars, familyVars, cpuVars, waiters, irqActive, callVars, pass>>

HasScancode == ring > 0

\* One scancode of read_bytes: it yields a byte, or none (a prefix, release or
\* modifier code), or is the Ctrl+R that empties the ring.
ReadPop(t) ==
    /\ run = t /\ pc[t] \in {"readBytes", "pollBytes"}
    /\ HasScancode
    /\ \/ /\ ring' = ring - 1
          /\ got' = [got EXCEPT ![t] = @ + 1]
          /\ pc' = IF got[t] + 1 = ReadLen THEN [pc EXCEPT ![t] = "sysret"] ELSE pc
       \/ /\ ring' \in {ring - 1, 0}
          /\ UNCHANGED <<got, pc>>
    /\ UNCHANGED <<queueVars, familyVars, cpuVars, waiters, irqActive, keys, waitFor,
                   calls, pass>>

\* read_bytes finds the ring empty: return what there is; with nothing, wait
\* (interrupt path) or let others run and look again (polling path).
ReadEmpty(t) ==
    /\ run = t /\ ring = 0
    /\ \/ /\ pc[t] \in {"readBytes", "pollBytes"} /\ got[t] > 0
          /\ pc' = [pc EXCEPT ![t] = "sysret"]
          /\ UNCHANGED <<queueVars, cpuVars>>
       \/ /\ pc[t] = "readBytes" /\ got[t] = 0
          /\ pc' = [pc EXCEPT ![t] = "waitWhile"]
          /\ UNCHANGED <<queueVars, cpuVars>>
       \/ /\ pc[t] = "pollBytes" /\ got[t] = 0
          /\ Suspend(t, "polled", needResched)
    /\ UNCHANGED <<familyVars, keyVars, callVars, pass>>

\* Mutant of MustWait: the condition is taken from before interrupts went off.
MustWaitStale == TRUE

\* The condition of the keyboard's wait_while: tail == head.
MustWait == ring = 0

\* wait_while: with interrupts off, test the ring and register as a waiter.
WaitWhile(t) ==
    /\ run = t /\ pc[t] = "waitWhile"
    /\ IF MustWait
       THEN /\ status' = [status EXCEPT ![t] = "Waiting"]
            /\ inRunQueue' = [inRunQueue EXCEPT ![t] = FALSE]
            /\ waiters' = IF t \in Range(waiters) THEN waiters ELSE Append(waiters, t)
            /\ pc' = [pc EXCEPT ![t] = "block"]
       ELSE /\ pc' = [pc EXCEPT ![t] = "readBytes"]
            /\ UNCHANGED <<status, inRunQueue, waiters>>
    /\ UNCHANGED <<readyQueue, readyCount, needResched, familyVars, cpuVars, ring,
                   irqActive, keys, callVars, pass>>

\* block_current_and_schedule
Block(t) ==
    /\ run = t /\ pc[t] = "block"
    /\ SwitchOut(t, "asleep")
    /\ UNCHANGED <<queueVars, familyVars, keyVars, callVars, pass>>

\* Mutant of AfterWake: the waiter is woken but stays registered.
AfterWakePeek(ws) == ws

\* The waiters wake_one leaves: it pops the last one.
AfterWake(ws) == SubSeq(ws, 1, Len(ws) - 1)

\* The keyboard interrupt: irq_scancode pushes the scancode, dropping it when
\* the ring is full, and WaitQueue::wake_one wakes the last waiter.
KeyIrq ==
    /\ irqOn /\ keys < MaxKeys
    /\ keys' = keys + 1
    /\ irqActive' = TRUE
    /\ ring' = Pushed(ring)
    /\ IF waiters = <<>>
       THEN UNCHANGED <<waiters, queueVars>>
       ELSE /\ waiters' = AfterWake(waiters)
            /\ AddTaskArc(waiters[Len(waiters)])
    /\ UNCHANGED <<familyVars, cpuVars, callVars, pass, pc>>

\* The timer interrupt (or a rescheduling IPI): handle_timer sets the flag.
\* ENABLE_INTERRUPT_PREEMPT is false, so it never switches.
TimerIrq ==
    /\ irqOn
    /\ needResched' = TRUE
    /\ UNCHANGED <<readyQueue, readyCount, inRunQueue, status, familyVars, cpuVars,
                   keyVars, callVars, pass, pc>>

\* A CPU waiting for its own lock, or in the loop that follows a returned exit.
Stuck(t) ==
    /\ run = t /\ pc[t] \in {"spin", "halt"}
    /\ UNCHANGED vars
-----------------------------------------------------------------------------
TaskStep(t) ==
    \/ SysRet(t) \/ SysYield(t) \/ SysFork(t) \/ Exit(t) \/ SysKill(t)
    \/ SysWaitpid(t) \/ WaitpidScan(t)
    \/ SysRead(t) \/ ReadLoop(t) \/ PollHardware(t) \/ ReadPop(t) \/ ReadEmpty(t)
    \/ WaitWhile(t) \/ Block(t) \/ Stuck(t)

CpuStep == Fetch \/ SwitchTo \/ IdleHlt \/ \E t \in Pids : TaskStep(t)

Next == CpuStep \/ KeyIrq \/ TimerIrq

\* The CPU keeps executing; user code keeps making system calls and in the
\* end exits.  Nothing makes the keyboard or the timer interrupt.
Spec == Init /\ [][Next]_vars /\ WF_vars(CpuStep)
-----------------------------------------------------------------------------
(***************************************************************************)
(* Properties                                                              *)
(***************************************************************************)

TypeOK ==
    /\ status \in [Pids -> Statuses]
    /\ inRunQueue \in [Pids -> BOOLEAN]
    /\ pass \in [Pids -> 0 .. MaxLag]
    /\ exitCode \in [Pids -> Int]
    /\ parent \in [Pids -> Pids \cup {NoTask}]
    /\ children \in [Pids -> Seq(Pids)]
    /\ allTasks \subseteq Pids
    /\ nextPid \in Nat
    /\ readyQueue \in Seq(Pids)
    /\ readyCount \in Int
    /\ needResched \in BOOLEAN
    /\ current \in Pids \cup {NoTask}
    /\ run \in Pids \cup {NoTask}
    /\ picked \in Pids \cup {NoTask}
    /\ irqOn \in BOOLEAN
    /\ pc \in [Pids -> ParkedAt \cup ActiveAt]
    /\ waitFor \in [Pids -> Pids \cup {AnyChild}]
    /\ got \in [Pids -> Nat]
    /\ waiters \in Seq(Pids)
    /\ ring \in Nat
    /\ irqActive \in BOOLEAN
    /\ calls \in Nat
    /\ keys \in Nat

Queued(t) == t \in Range(readyQueue)
\* The CPU is stuck in t's exit, with the parent's lock held.
StuckOn(p) == \E t \in Pids : pc[t] = "spin" /\ parent[t] = p

\* The run queue holds each task at most once, only tasks that are Ready and
\* off the CPU (or about to leave it), READY_COUNTS is its length, and
\* in_run_queue never claims a task that is not there.
QueueConsistent ==
    /\ IsInjective(readyQueue)
    /\ readyCount = Len(readyQueue)
    /\ \A t \in Pids :
        /\ Queued(t) => /\ status[t] = "Ready" /\ picked # t
                        /\ run = t => pc[t] = "block"
                        /\ run # t => pc[t] \in ParkedAt \ {"exited"}
        /\ inRunQueue[t] => Queued(t) \/ StuckOn(t)

\* No task is lost: one that is alive is in the run queue, about to run or
\* running, registered as a keyboard waiter, or waiting for a child of its own.
NoTaskLost ==
    \A t \in Pids :
        \/ status[t] \in {"Unborn", "Exited"}
        \/ Queued(t) \/ picked = t \/ run = t
        \/ status[t] = "Waiting" /\ pc[t] = "asleep" /\ t \in Range(waiters)
        \/ status[t] = "Waiting" /\ pc[t] = "waitpid" /\ children[t] # <<>>
        \/ StuckOn(t)

\* A wait queue entry belongs to a task that is blocking or blocked on it, and
\* no task is there twice, so a wake-up never hits a task that has moved on.
WaitersBlocked ==
    /\ IsInjective(waiters)
    /\ \A t \in Range(waiters) : /\ pc[t] \in {"block", "asleep"}
                                 /\ status[t] = "Waiting" \/ StuckOn(t)

Awake(t) ==
    /\ status[t] # "Exited"
    /\ \/ pc[t] \in {"readLoop", "pollHardware", "pollBytes", "readBytes", "waitWhile", "polled"}
       \/ pc[t] \in {"block", "asleep"} /\ t \notin Range(waiters)

\* No keystroke is left behind a sleeping reader: while some reader sleeps,
\* at least as many readers are awake as there are scancodes in the ring.
InputCovered == waiters # <<>> => ring <= Cardinality({t \in Pids : Awake(t)})

\* The processor's current task is the one on the CPU, and it is Running, from
\* the switch to it until it leaves (or is caught in its own exit); the idle
\* loop has none.
CurrentIsRunning ==
    /\ run = NoTask => current = NoTask
    /\ run # NoTask /\ pc[run] \notin {"block", "spin"} =>
        current = run /\ status[run] = "Running"

\* An exited task stays exited: nothing queues it, runs it or revives it.
ExitIsFinal ==
    [][\A t \in Pids : status[t] = "Exited" =>
            /\ status'[t] = "Exited"
            /\ run' = t => run = t]_vars

\* A child leaves its parent's list only when it has exited, and one at a time.
ReapsOnlyExited ==
    [][\A t \in Pids : children'[t] # children[t] =>
          \/ Len(children'[t]) = Len(children[t]) + 1
          \/ \E i \in DOMAIN children[t] : /\ status[children[t][i]] = "Exited"
                                           /\ children'[t] = RemoveAt(children[t], i)]_vars

\* A child that t's waitpid asks for has exited.
ChildExited(t) ==
    \E i \in DOMAIN children[t] :
        waitFor[t] \in {AnyChild, children[t][i]} /\ status[children[t][i]] = "Exited"

\* Where the kernel can come to rest: a task that is not on its way has
\* exited, sleeps or polls while the keyboard is silent, or waits for children
\* none of which has exited.
AtRest(t) ==
    \/ status[t] \in {"Unborn", "Exited"}
    \/ pc[t] = "asleep" /\ ring = 0
    \/ ~irqActive /\ pc[t] \in {"readLoop", "pollHardware", "pollBytes", "polled"}
    \/ pc[t] = "waitpid" /\ ~ChildExited(t)

\* Every task that can go on does, in every run in which no task exits under a
\* parent that waits: with user code that makes finitely many system calls, all
\* of them come to rest.  The runs left out are those of ParentWakes.
AllComeToRest == [](\A t \in Pids : pc[t] # "spin") => <>[](\A t \in Pids : AtRest(t))

\* exit_current_and_run_next says "Wake up parent if waiting" and "Add to ready
\* queue": a parent in waitpid runs again once its child has exited.  It does
\* not, since the exit spins on the status lock of the parent that it holds.
ParentWakes ==
    \A t \in Pids :
        pc[t] = "waitpid" /\ ChildExited(t) ~> run = t \/ status[t] = "Exited"

\* The run queue, the keyboard's wait queue and the processor agree about which
\* task is ready, blocked or running.
QueuesAgree == TypeOK /\ QueueConsistent /\ WaitersBlocked /\ CurrentIsRunning

\* An exited task stays exited, and its entry in its parent's list goes only by
\* waitpid, when it has exited.
ExitsAreFinal == ExitIsFinal /\ ReapsOnlyExited
=============================================================================
