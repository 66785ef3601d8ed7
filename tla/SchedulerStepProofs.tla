----------------------- MODULE SchedulerStepProofs -----------------------
(***************************************************************************)
(* What no step of the scheduler does: revive an exited task, drop a child *)
(* that has not exited, or leave a keystroke behind a sleeping reader.     *)
(***************************************************************************)
EXTENDS SchedulerProofs, FiniteSetTheorems

\* enqueue_ready refuses an exited task.
LEMMA EnqueueStays ==
    ASSUME TypeOK, NEW t \in Pids, NEW r, EnqueueReady(t, r), NEW u \in Pids, status[u] = "Exited"
    PROVE  status'[u] = "Exited"
<1>1. CASE Enqueues(t, status, inRunQueue)
  BY <1>1 DEF EnqueueReady, Enqueues, TypeOK
<1>2. CASE ~Enqueues(t, status, inRunQueue)
  BY <1>2 DEF EnqueueReady
<1> QED BY Zenon, <1>1, <1>2

\* No step of the task on the CPU revives an exited task.
LEMMA TaskStepStays ==
    ASSUME IInv, NEW t \in Pids, TaskStep(t), NEW u \in Pids, status[u] = "Exited"
    PROVE  status'[u] = "Exited" /\ (run' = u => run = u)
<1> USE DEF IInv, NoTask
<1>0. 0 \notin Pids
  BY DEF Pids
<1>1. ASSUME NEW x, NEW r, Suspend(t, x, r) PROVE status'[u] = "Exited" /\ run' # u
  <2>1. EnqueueReady(t, r) /\ run' = 0
    BY <1>1 DEF Suspend, SwitchOut
  <2> QED BY <1>0, <2>1, EnqueueStays
<1>2. CASE SysRet(t) \/ SysYield(t) \/ ReadEmpty(t)
  BY Zenon, <1>1, <1>2 DEF SysRet, SysYield, ReadEmpty, queueVars, cpuVars
<1>3. CASE SysWaitpid(t) \/ SysRead(t) \/ ReadLoop(t) \/ PollHardware(t) \/ ReadPop(t)
  BY <1>3 DEF SysWaitpid, SysRead, ReadLoop, PollHardware, ReadPop, queueVars, cpuVars
<1>4. CASE SysFork(t)
  <2>1. nextPid \in Pids
    <3>1. nextPid \in Nat /\ nextPid >= 2 /\ nextPid <= MaxPid
      BY <1>4 DEF SysFork, TypeOK, Core, Family
    <3> QED BY <3>1, SchedulerAssumption DEF Pids
  <2> QED BY <1>4, <2>1, EnqueueStays DEF SysFork, AddTaskArc, queueVars
<1>5. CASE WaitpidScan(t) \/ WaitWhile(t) \/ Block(t)
  <2>1. WaitpidScan(t) \/ WaitWhile(t) => u # t
    BY Zenon, OnTheCpu DEF WaitpidScan, WaitWhile
  <2> QED BY Zenon, <1>0, <1>5, <2>1 DEF WaitpidScan, WaitWhile, Block, SwitchOut, TypeOK, queueVars, cpuVars
<1>6. CASE Exit(t)
  <2>1. status'[u] = "Exited"
    BY <1>6 DEF Exit
  <2>2. run' \in {run, 0}
    BY <1>6 DEF Exit, SwitchOut
  <2> QED BY <1>0, <2>1, <2>2
<1>7. CASE SysKill(t)
  <2>1. run' = run /\ run = t /\ pc[t] = "user"
    BY <1>7 DEF SysKill, Enter, InUser
  <2>2. PICK v \in Pids \ {t} :
          \/ UNCHANGED <<queueVars, waiters>>
          \/ KillOther(v, [status EXCEPT ![v] = "Exited"], [inRunQueue EXCEPT ![v] = FALSE])
    BY Zenon, <1>7 DEF SysKill
  <2>3. CASE KillOther(v, [status EXCEPT ![v] = "Exited"], [inRunQueue EXCEPT ![v] = FALSE])
    <3>1. PICK N \in SUBSET Pids :
              /\ W \ {v} \subseteq N /\ v \notin N /\ t \notin N /\ N \cap Q = {}
              /\ \A w \in N : status[w] = "Waiting" /\ ~inRunQueue[w]
              /\ Q' = (Q \cup N) \ {v} /\ W' = {}
              /\ readyQueue' \in Seq(Pids) /\ IsInjective(readyQueue')
              /\ readyCount' = Len(readyQueue') /\ waiters' = <<>>
              /\ \A w \in Pids :
                    /\ status'[w] = IF w = v THEN "Exited" ELSE IF w \in N THEN "Ready" ELSE status[w]
                    /\ inRunQueue'[w] = IF w = v THEN FALSE ELSE inRunQueue[w] \/ w \in N
      BY Zenon, <2>1, <2>3, KillQueues
    <3> QED BY Zenon, <2>1, <3>1
  <2> QED BY <2>1, <2>2, <2>3 DEF queueVars
<1>8. CASE Stuck(t)
  BY <1>8 DEF Stuck, vars, queueVars, cpuVars
<1> QED BY Zenon, <1>2, <1>3, <1>4, <1>5, <1>6, <1>7, <1>8 DEF TaskStep

\* An exited task is never queued, run or revived again.
THEOREM ExitedForGood == Spec => ExitIsFinal
<1>1. IInv /\ [Next]_vars => [\A t \in Pids : status[t] = "Exited" =>
            /\ status'[t] = "Exited"
            /\ run' = t => run = t]_vars
  <2> SUFFICES ASSUME IInv, Next, NEW u \in Pids, status[u] = "Exited"
               PROVE  status'[u] = "Exited" /\ (run' = u => run = u)
    BY Zenon
  <2> USE DEF IInv
  <2>1. CASE Fetch \/ TimerIrq
    BY <2>1 DEF Fetch, TimerIrq, cpuVars
  <2>2. CASE SwitchTo
    <3>1. picked \in Pids /\ status[picked] = "Ready"
      BY <2>2 DEF SwitchTo, TypeOK, Core, Place
    <3>2. u # picked
      BY <3>1
    <3> QED BY <2>2, <3>1, <3>2 DEF SwitchTo, TypeOK
  <2>3. CASE IdleHlt
    BY <2>3 DEF IdleHlt, vars, queueVars, cpuVars
  <2>4. CASE \E t \in Pids : TaskStep(t)
    BY Zenon, <2>4, TaskStepStays
  <2>5. CASE KeyIrq
    <3>1. run' = run
      BY <2>5 DEF KeyIrq, cpuVars
    <3>2. CASE waiters = <<>>
      BY <2>5, <3>1, <3>2 DEF KeyIrq, queueVars
    <3>3. CASE waiters # <<>>
      <4>1. waiters \in Seq(Pids) /\ IsInjective(waiters)
        BY DEF TypeOK, Core, Queues
      <4>2. waiters[Len(waiters)] \in Pids
        BY <3>3, <4>1, FrontFacts
      <4> QED BY <2>5, <3>1, <3>3, <4>2, EnqueueStays DEF KeyIrq, AddTaskArc
    <3> QED BY <3>2, <3>3
  <2> QED BY <2>1, <2>2, <2>3, <2>4, <2>5 DEF Next, CpuStep
<1> QED BY Inductive, <1>1, PTL DEF Spec, ExitIsFinal

\* No step of the task on the CPU changes a list of children but by adding one
\* or by removing one that has exited.
LEMMA TaskStepReaps ==
    ASSUME IInv, NEW t \in Pids, TaskStep(t), NEW u \in Pids, children'[u] # children[u]
    PROVE  \/ Len(children'[u]) = Len(children[u]) + 1
           \/ \E i \in DOMAIN children[u] : /\ status[children[u][i]] = "Exited"
                                            /\ children'[u] = RemoveAt(children[u], i)
<1>0. children \in [Pids -> Seq(Pids)]
  BY DEF IInv, TypeOK
<1>1. children' # children
  OBVIOUS
<1>2. ~(SysRet(t) \/ SysYield(t) \/ ReadEmpty(t) \/ SysWaitpid(t) \/ SysRead(t) \/ ReadLoop(t))
  BY Zenon, <1>1 DEF SysRet, SysYield, ReadEmpty, SysWaitpid, SysRead, ReadLoop, familyVars
<1>3. ~(PollHardware(t) \/ ReadPop(t) \/ WaitWhile(t) \/ Block(t) \/ Exit(t) \/ SysKill(t) \/ Stuck(t))
  BY Zenon, <1>1 DEF PollHardware, ReadPop, WaitWhile, Block, Exit, SysKill, Stuck, vars, familyVars
<1>4. CASE SysFork(t)
  <2>1. children' = [children EXCEPT ![t] = Append(@, nextPid)]
    BY Zenon, <1>1, <1>4 DEF SysFork
  <2>2. u = t /\ children'[u] = Append(children[u], nextPid)
    BY <1>0, <2>1
  <2> QED BY <1>0, <2>2
<1>5. CASE WaitpidScan(t)
  <2>1. PICK i \in DOMAIN children[t] : /\ Reapable(children[t][i])
                                       /\ children' = [children EXCEPT ![t] = RemoveAt(@, i)]
    BY <1>1, <1>5 DEF WaitpidScan
  <2>2. u = t /\ children'[u] = RemoveAt(children[u], i)
    BY <1>0, <2>1
  <2> QED BY <2>1, <2>2 DEF Reapable
<1> QED BY Zenon, <1>2, <1>3, <1>4, <1>5 DEF TaskStep

\* A child leaves its parent's list by waitpid only, when it has exited.
THEOREM ReapedOnceExited == Spec => ReapsOnlyExited
<1>1. IInv /\ [Next]_vars => [\A t \in Pids : children'[t] # children[t] =>
          \/ Len(children'[t]) = Len(children[t]) + 1
          \/ \E i \in DOMAIN children[t] : /\ status[children[t][i]] = "Exited"
                                           /\ children'[t] = RemoveAt(children[t], i)]_vars
  <2> SUFFICES ASSUME IInv, Next, NEW u \in Pids, children'[u] # children[u]
               PROVE  \/ Len(children'[u]) = Len(children[u]) + 1
                      \/ \E i \in DOMAIN children[u] :
                            /\ status[children[u][i]] = "Exited"
                            /\ children'[u] = RemoveAt(children[u], i)
    BY Zenon
  <2>1. ~(Fetch \/ SwitchTo \/ IdleHlt \/ KeyIrq \/ TimerIrq)
    BY Zenon DEF Fetch, SwitchTo, IdleHlt, KeyIrq, TimerIrq, vars, familyVars
  <2>2. PICK t \in Pids : TaskStep(t)
    BY Zenon, <2>1 DEF Next, CpuStep
  <2> QED BY Zenon, <2>2, TaskStepReaps
<1> QED BY Inductive, <1>1, PTL DEF Spec, ReapsOnlyExited

\* An exit is final: the task is never revived, and stays in its parent's list
\* until waitpid takes it.
THEOREM ExitsAlwaysFinal == Spec => ExitsAreFinal
BY ExitedForGood, ReapedOnceExited, PTL DEF ExitsAreFinal
-----------------------------------------------------------------------------
(***************************************************************************)
(* No keystroke is left behind a sleeping reader.  A reader registers only *)
(* with an empty ring, every scancode pushed afterwards wakes one of the   *)
(* registered readers, and a reader that leaves has taken one.  The        *)
(* polling path pushes without waking anyone: it must have no sleepers.    *)
(***************************************************************************)
Reading == {"readLoop", "pollHardware", "pollBytes", "readBytes", "waitWhile", "polled"}
Sleepy == {"readBytes", "waitWhile", "block", "asleep"}

\* The readers that are awake.
A == {t \in Pids : Awake(t)}

InputInv ==
    /\ ~irqActive => waiters = <<>> /\ \A t \in Pids : pc[t] \notin Sleepy
    /\ \A t \in Pids : pc[t] = "pollHardware" => waiters = <<>>
    /\ \A t \in Pids : t \in W => status[t] # "Exited"
    /\ InputCovered

\* A step that sends no reader u away and takes it to no place to sleep at but
\* on the interrupt path.
Quietly(u) ==
    /\ status'[u] = "Exited" => status[u] = "Exited" \/ pc[u] = "user"
    /\ pc'[u] # pc[u] =>
        /\ pc[u] \in Reading => pc'[u] \in Reading
        /\ pc[u] \in {"block", "asleep"} => pc'[u] \in Reading \cup {"asleep"}
        /\ IF irqActive THEN pc'[u] # "pollHardware" ELSE pc'[u] \notin Sleepy

\* How the number of awake readers follows the set of them.
LEMMA AwakeCounts ==
    /\ Cardinality(A) \in Nat /\ Cardinality(A') \in Nat
    /\ A \subseteq A' => Cardinality(A) <= Cardinality(A')
    /\ \A t : A \ {t} \subseteq A' => Cardinality(A) - 1 <= Cardinality(A')
    /\ \A t : A \subseteq A' /\ t \in A' /\ t \notin A => Cardinality(A) + 1 <= Cardinality(A')
<1>1. IsFiniteSet(Pids)
  BY SchedulerAssumption, FS_Interval DEF Pids
<1>2. A \in SUBSET Pids /\ A' \in SUBSET Pids
  BY DEF A
<1>3. IsFiniteSet(A) /\ IsFiniteSet(A')
  BY <1>1, <1>2, FS_Subset
<1> HIDE DEF A
<1>4. Cardinality(A) \in Nat /\ Cardinality(A') \in Nat
  BY <1>3, FS_CardinalityType
<1>5. A \subseteq A' => Cardinality(A) <= Cardinality(A')
  BY <1>3, FS_Subset
<1>6. ASSUME NEW t, A \ {t} \subseteq A' PROVE Cardinality(A) - 1 <= Cardinality(A')
  <2>1. /\ IsFiniteSet(A \ {t})
        /\ Cardinality(A \ {t}) = IF t \in A THEN Cardinality(A) - 1 ELSE Cardinality(A)
    BY <1>3, FS_RemoveElement
  <2>2. Cardinality(A \ {t}) <= Cardinality(A')
    BY <1>3, <1>6, FS_Subset
  <2> QED BY <1>4, <2>1, <2>2
<1>7. ASSUME NEW t, A \subseteq A', t \in A', t \notin A PROVE Cardinality(A) + 1 <= Cardinality(A')
  <2>1. Cardinality(A \cup {t}) = Cardinality(A) + 1
    BY <1>3, <1>7, FS_AddElement
  <2>2. Cardinality(A \cup {t}) <= Cardinality(A')
    <3>1. A \cup {t} \in SUBSET A'
      BY <1>7
    <3> QED BY <1>3, <3>1, FS_Subset
  <2> QED BY <2>1, <2>2
<1> QED BY <1>4, <1>5, <1>6, <1>7

\* Where the ring and the wait queue do not change and no reader goes away,
\* the keystrokes stay covered.
LEMMA QuietKeeps ==
    ASSUME IInv, InputInv, UNCHANGED <<waiters, ring, irqActive>>, \A u \in Pids : Quietly(u)
    PROVE  InputInv'
<1>1. W' = W
  BY DEF W
<1>2. ASSUME NEW u \in Pids, u \in W PROVE pc[u] \in {"block", "asleep"}
  BY <1>2 DEF IInv, Core, Place
<1>3. \A u \in Pids : u \in W => status'[u] # "Exited"
  BY <1>2 DEF InputInv, Quietly
<1>4. A \subseteq A'
  <2> SUFFICES ASSUME NEW u \in Pids, Awake(u) PROVE Awake(u)'
    BY DEF A
  <2>1. pc[u] \in Reading \/ (pc[u] \in {"block", "asleep"} /\ u \notin W)
    BY DEF Awake, Reading, W
  <2>2. status'[u] # "Exited"
    BY <2>1 DEF Awake, Quietly, Reading
  <2>3. pc'[u] \in Reading \/ (pc'[u] \in {"block", "asleep"} /\ u \notin W')
    BY <1>1, <2>1 DEF Quietly
  <2> QED BY <2>2, <2>3 DEF Awake, Reading, W
<1>5. InputCovered'
  BY <1>4, AwakeCounts DEF InputInv, InputCovered, A, IInv, TypeOK
<1>6. ~irqActive' => waiters' = <<>> /\ \A t \in Pids : pc'[t] \notin Sleepy
  BY DEF InputInv, Quietly
<1>7. \A t \in Pids : pc'[t] = "pollHardware" => waiters' = <<>>
  BY DEF InputInv, Quietly
<1> QED BY <1>1, <1>3, <1>5, <1>6, <1>7 DEF InputInv

\* One task moves to x, and only a task in user mode can have exited.
LEMMA MoveCovers ==
    ASSUME IInv, InputInv, UNCHANGED <<waiters, ring, irqActive>>,
           NEW t \in Pids, NEW x, pc' = [pc EXCEPT ![t] = x],
           \A u \in Pids : status'[u] = "Exited" => status[u] = "Exited" \/ pc[u] = "user",
           pc[t] \in Reading => x \in Reading,
           pc[t] \in {"block", "asleep"} => x \in Reading \cup {"asleep"},
           IF irqActive THEN x # "pollHardware" ELSE x \notin Sleepy
    PROVE  InputInv'
<1>1. \A u \in Pids : pc'[u] = IF u = t THEN x ELSE pc[u]
  BY DEF IInv, TypeOK
<1>2. \A u \in Pids : Quietly(u)
  BY <1>1 DEF Quietly
<1> QED BY <1>2, QuietKeeps

\* enqueue_ready makes no task exited.
LEMMA EnqueueExitsNone ==
    ASSUME TypeOK, NEW t \in Pids, NEW r, EnqueueReady(t, r), NEW u \in Pids, status'[u] = "Exited"
    PROVE  status[u] = "Exited"
<1>1. CASE Enqueues(t, status, inRunQueue)
  BY <1>1 DEF EnqueueReady, TypeOK
<1>2. CASE ~Enqueues(t, status, inRunQueue)
  BY <1>2 DEF EnqueueReady
<1> QED BY Zenon, <1>1, <1>2

\* The steps of a task that leave the ring and the wait queue alone.
LEMMA CallCovers ==
    ASSUME IInv, InputInv, NEW t \in Pids,
           \/ SysRet(t) \/ SysYield(t) \/ SysFork(t) \/ SysWaitpid(t) \/ SysRead(t)
           \/ ReadLoop(t) \/ Block(t) \/ Exit(t) \/ WaitpidScan(t)
    PROVE  InputInv'
<1> USE DEF IInv, Reading, Sleepy
<1>1. UNCHANGED <<waiters, ring, irqActive>>
  BY Zenon DEF SysRet, SysYield, SysFork, SysWaitpid, SysRead, ReadLoop, Block, Exit, WaitpidScan, keyVars
<1>2. CASE SysRet(t) \/ SysYield(t)
  <2>1. PICK x \in {"preempted", "user", "yielded"} : pc' = [pc EXCEPT ![t] = x]
    BY Zenon, <1>2 DEF SysRet, SysYield, Suspend, SwitchOut
  <2>2. pc[t] \in {"sysret", "user"}
    BY Zenon, <1>2 DEF SysRet, SysYield, Enter, InUser
  <2>3. (\E r : EnqueueReady(t, r)) \/ status' = status
    BY Zenon, <1>2 DEF SysRet, SysYield, Suspend, queueVars
  <2>4. \A u \in Pids : status'[u] = "Exited" => status[u] = "Exited"
    BY Zenon, <2>3, EnqueueExitsNone
  <2> QED BY Zenon, <1>1, <2>1, <2>2, <2>4, MoveCovers
<1>3. CASE SysFork(t)
  <2>1. nextPid \in Pids
    <3>1. nextPid \in Nat /\ nextPid >= 2 /\ nextPid <= MaxPid
      BY <1>3 DEF SysFork, TypeOK, Core, Family
    <3> QED BY <3>1, SchedulerAssumption DEF Pids
  <2>2. (\E r : EnqueueReady(nextPid, r)) \/ status' = status
    BY Zenon, <1>3 DEF SysFork, AddTaskArc, queueVars
  <2>3. \A u \in Pids : status'[u] = "Exited" => status[u] = "Exited"
    BY Zenon, <2>1, <2>2, EnqueueExitsNone
  <2>4. pc[t] = "user" /\ pc' = [pc EXCEPT ![t] = "sysret"]
    BY <1>3 DEF SysFork, Enter, InUser
  <2> QED BY Zenon, <1>1, <2>3, <2>4, MoveCovers
<1>4. CASE SysWaitpid(t) \/ SysRead(t)
  <2>1. PICK x \in {"waitpidScan", "readLoop"} : pc' = [pc EXCEPT ![t] = x]
    BY <1>4 DEF SysWaitpid, SysRead
  <2>2. pc[t] = "user" /\ status' = status
    BY <1>4 DEF SysWaitpid, SysRead, Enter, InUser, queueVars
  <2> QED BY Zenon, <1>1, <2>1, <2>2, MoveCovers
<1>5. CASE ReadLoop(t)
  <2>1. /\ pc[t] = "readLoop" /\ status' = status
        /\ pc' = [pc EXCEPT ![t] = IF irqActive THEN "readBytes" ELSE "pollHardware"]
    BY <1>5 DEF ReadLoop, queueVars
  <2> QED BY Zenon, <1>1, <2>1, MoveCovers
<1>6. CASE Block(t)
  <2>1. pc[t] = "block" /\ status' = status /\ pc' = [pc EXCEPT ![t] = "asleep"]
    BY <1>6 DEF Block, SwitchOut, queueVars
  <2>2. irqActive
    BY <2>1 DEF InputInv
  <2> QED BY Zenon, <1>1, <2>1, <2>2, MoveCovers
<1>7. CASE Exit(t)
  <2>1. PICK x \in {"spin", "exited"} : pc' = [pc EXCEPT ![t] = x]
    BY Zenon, <1>7 DEF Exit, SwitchOut
  <2>2. pc[t] = "user"
    BY ZenonT(60), <1>7 DEF Exit, InUser
  <2>3. \A u \in Pids : status'[u] = "Exited" => status[u] = "Exited" \/ u = t
    BY <1>7 DEF Exit
  <2> QED BY ZenonT(60), <1>1, <2>1, <2>2, <2>3, MoveCovers
<1>8. CASE WaitpidScan(t)
  <2>1. PICK x \in {"sysret", "waitpid"} : pc' = [pc EXCEPT ![t] = x]
    BY <1>8 DEF WaitpidScan, SwitchOut
  <2>2. pc[t] = "waitpidScan"
    BY ZenonT(60), <1>8 DEF WaitpidScan
  <2>3. \A u \in Pids : status'[u] = "Exited" => status[u] = "Exited"
    BY <1>8 DEF WaitpidScan, TypeOK
  <2> QED BY ZenonT(60), <1>1, <2>1, <2>2, <2>3, MoveCovers
<1> QED BY ZenonT(60), <1>2, <1>3, <1>4, <1>5, <1>6, <1>7, <1>8

\* The steps of a keyboard read: a reader sleeps only on an empty ring, and one
\* that leaves with its buffer full takes a scancode with it.
LEMMA ReadCovers ==
    ASSUME IInv, InputInv, NEW t \in Pids,
           PollHardware(t) \/ ReadPop(t) \/ ReadEmpty(t) \/ WaitWhile(t)
    PROVE  InputInv'
<1> USE DEF IInv, Sleepy
<1>0. ring \in Nat /\ pc \in [Pids -> ParkedAt \cup ActiveAt] /\ DOMAIN status = Pids
  BY DEF TypeOK
<1>1. CASE PollHardware(t)
  <2>1. /\ pc[t] = "pollHardware" /\ pc' = [pc EXCEPT ![t] = "pollBytes"]
        /\ UNCHANGED <<status, waiters, irqActive>>
    BY <1>1 DEF PollHardware, queueVars
  <2>2. waiters = <<>> /\ W' = W
    BY <2>1 DEF InputInv, W
  <2> QED BY <1>0, <2>1, <2>2 DEF InputInv, InputCovered
<1>2. CASE ReadPop(t)
  <2>1. /\ pc[t] \in {"readBytes", "pollBytes"} /\ ring > 0
        /\ UNCHANGED <<status, waiters, irqActive>>
    BY <1>2 DEF ReadPop, HasScancode, queueVars
  <2>2. /\ ring' <= ring - 1
        /\ pc' = pc \/ pc' = [pc EXCEPT ![t] = "sysret"]
    BY <1>0, <1>2, <2>1 DEF ReadPop
  <2>3. \A u \in Pids : pc'[u] = pc[u] \/ (u = t /\ pc'[u] = "sysret")
    BY <1>0, <2>2
  <2>4. A \ {t} \subseteq A'
    BY <2>1, <2>3 DEF A, Awake
  <2>5. InputCovered'
    <3>1. ring' \in Nat
      BY <1>0, <1>2, <2>1 DEF ReadPop
    <3>2. Cardinality(A) - 1 <= Cardinality(A') /\ Cardinality(A) \in Nat /\ Cardinality(A') \in Nat
      BY <2>4, AwakeCounts
    <3>3. waiters' # <<>> => ring <= Cardinality(A)
      BY <2>1 DEF InputInv, InputCovered, A
    <3>4. waiters' # <<>> => ring' <= Cardinality(A')
      BY <1>0, <2>2, <3>1, <3>2, <3>3
    <3> QED BY <3>4 DEF InputCovered, A
  <2> QED BY <2>1, <2>3, <2>5 DEF InputInv, W
<1>3. CASE ReadEmpty(t)
  <2>1. ring' = 0 /\ UNCHANGED <<waiters, irqActive>> /\ pc[t] \in {"readBytes", "pollBytes"}
    BY <1>3 DEF ReadEmpty, keyVars
  <2>2. PICK x \in {"sysret", "waitWhile", "polled"} :
            /\ pc' = [pc EXCEPT ![t] = x]
            /\ x = "waitWhile" => pc[t] = "readBytes"
    BY <1>3 DEF ReadEmpty, Suspend, SwitchOut
  <2>3. \A u \in Pids : pc'[u] = IF u = t THEN x ELSE pc[u]
    BY <1>0, <2>2
  <2>4. (\E r : EnqueueReady(t, r)) \/ status' = status
    BY Zenon, <1>3 DEF ReadEmpty, Suspend, queueVars
  <2>5. \A u \in Pids : status'[u] = "Exited" => status[u] = "Exited"
    BY Zenon, <2>4, EnqueueExitsNone
  <2>6. InputCovered'
    BY <2>1, AwakeCounts DEF InputCovered, A
  <2> QED BY <2>1, <2>2, <2>3, <2>5, <2>6 DEF InputInv, W
<1>4. CASE WaitWhile(t) /\ ring = 0
  <2>1. /\ pc[t] = "waitWhile" /\ pc' = [pc EXCEPT ![t] = "block"] /\ UNCHANGED <<ring, irqActive>>
        /\ status' = [status EXCEPT ![t] = "Waiting"]
        /\ waiters' = IF t \in Range(waiters) THEN waiters ELSE Append(waiters, t)
    BY <1>4 DEF WaitWhile, MustWait
  <2>2. irqActive
    BY <2>1 DEF InputInv
  <2>3. \A u \in Pids : /\ pc'[u] = IF u = t THEN "block" ELSE pc[u]
                        /\ status'[u] = IF u = t THEN "Waiting" ELSE status[u]
    BY <1>0, <2>1
  <2>4. W' \subseteq W \cup {t}
    BY <2>1, AppendFacts DEF W, TypeOK
  <2>5. run = t
    BY <1>4 DEF WaitWhile
  <2>6. \A u \in Pids : pc'[u] # "pollHardware"
    BY <2>1, <2>3, <2>5, OnTheCpu DEF ParkedAt
  <2>7. InputCovered'
    BY <1>4, <2>1, AwakeCounts DEF InputCovered, A
  <2> QED BY <2>1, <2>2, <2>3, <2>4, <2>6, <2>7 DEF InputInv
<1>5. CASE WaitWhile(t) /\ ring # 0
  <2>1. /\ pc[t] = "waitWhile" /\ pc' = [pc EXCEPT ![t] = "readBytes"]
        /\ UNCHANGED <<ring, irqActive, waiters, status>>
    BY <1>5 DEF WaitWhile, MustWait
  <2>2. irqActive
    BY <2>1 DEF InputInv
  <2> QED BY Zenon, <2>1, <2>2, MoveCovers DEF Reading
<1> QED BY <1>1, <1>2, <1>3, <1>4, <1>5

\* A kill wakes all the readers.
LEMMA KillCovers ==
    ASSUME IInv, InputInv, NEW t \in Pids, SysKill(t)
    PROVE  InputInv'
<1> USE DEF IInv, Sleepy, Reading
<1>1. /\ pc[t] = "user" /\ pc' = [pc EXCEPT ![t] = "sysret"] /\ UNCHANGED <<ring, irqActive>>
  BY DEF SysKill, Enter, InUser
<1>2. CASE UNCHANGED <<status, waiters>>
  BY Zenon, <1>1, <1>2, MoveCovers
<1>3. CASE waiters' = <<>>
  <2>1. \A u \in Pids : pc'[u] = IF u = t THEN "sysret" ELSE pc[u]
    BY <1>1 DEF TypeOK
  <2>2. W' = {}
    BY <1>3 DEF W, Range
  <2> QED BY <1>1, <1>3, <2>1, <2>2 DEF InputInv, InputCovered
<1>4. UNCHANGED <<status, waiters>> \/ waiters' = <<>>
  BY Zenon DEF SysKill, KillOther, queueVars
<1> QED BY <1>2, <1>3, <1>4

\* Every scancode the interrupt pushes wakes a registered reader.
LEMMA KeyCovers ==
    ASSUME IInv, InputInv, KeyIrq
    PROVE  InputInv'
<1> USE DEF IInv
<1>1. irqActive' = TRUE /\ ring' = Pushed(ring) /\ pc' = pc
  BY DEF KeyIrq
<1>2. CASE waiters = <<>>
  <2>1. waiters' = waiters /\ status' = status
    BY <1>2 DEF KeyIrq, queueVars
  <2> QED BY <1>1, <1>2, <2>1 DEF InputInv, InputCovered, W
<1>3. CASE waiters # <<>>
  <2> DEFINE w == waiters[Len(waiters)]
  <2>1. waiters' = SubSeq(waiters, 1, Len(waiters) - 1) /\ AddTaskArc(w)
    BY <1>3 DEF KeyIrq, AfterWake
  <2>2. waiters \in Seq(Pids) /\ IsInjective(waiters)
    BY DEF TypeOK, Core, Queues
  <2>3. w \in Pids /\ w \in W /\ W' = W \ {w}
    BY <1>3, <2>1, <2>2, FrontFacts DEF W
  <2> HIDE DEF w
  <2>4. pc[w] \in {"block", "asleep"} /\ status[w] # "Exited"
    BY <2>3 DEF Core, Place, InputInv
  <2>5. \A u \in Pids : status'[u] = "Exited" => status[u] = "Exited"
    BY <2>1, <2>3, EnqueueExitsNone DEF AddTaskArc
  <2>6. A \subseteq A' /\ w \in A' /\ w \notin A
    BY <1>1, <2>3, <2>4, <2>5 DEF A, Awake, W
  <2>7. ring' <= ring + 1 /\ ring \in Nat /\ ring' \in Nat
    BY <1>1 DEF Pushed, TypeOK
  <2>8. ring <= Cardinality(A)
    BY <1>3 DEF InputInv, InputCovered, A
  <2>9. ring' <= Cardinality(A')
    BY <2>6, <2>7, <2>8, AwakeCounts
  <2>10. \A u \in Pids : pc'[u] # "pollHardware"
    BY <1>1, <1>3 DEF InputInv
  <2> QED BY <1>1, <2>3, <2>5, <2>9, <2>10 DEF InputInv, InputCovered, A
<1> QED BY <1>2, <1>3

\* The idle loop and the timer send no reader away.
LEMMA IdleCovers ==
    ASSUME IInv, InputInv, Fetch \/ SwitchTo \/ TimerIrq
    PROVE  InputInv'
<1> USE DEF IInv, Reading, Sleepy
<1>1. UNCHANGED <<waiters, ring, irqActive>>
  BY DEF Fetch, SwitchTo, TimerIrq, keyVars
<1>2. CASE Fetch \/ TimerIrq
  <2>1. pc' = pc /\ status' = status
    BY <1>2 DEF Fetch, TimerIrq
  <2>2. \A u \in Pids : Quietly(u)
    BY <2>1 DEF Quietly
  <2> QED BY <1>1, <2>2, QuietKeeps
<1>3. CASE SwitchTo
  <2>1. picked \in Pids /\ run = NoTask
    BY <1>3 DEF SwitchTo, TypeOK, Core, Contexts
  <2>2. /\ pc' = [pc EXCEPT ![picked] = ResumeAt(pc[picked])]
        /\ status' = [status EXCEPT ![picked] = "Running"]
    BY <1>3 DEF SwitchTo
  <2>3. \A u \in Pids : status'[u] = "Exited" => status[u] = "Exited"
    BY <2>1, <2>2 DEF TypeOK
  <2>4. pc[picked] \in ParkedAt
    BY <2>1 DEF Core, Contexts, NoTask, Pids
  <2>5. pc[picked] = "asleep" => irqActive
    BY <2>1 DEF InputInv
  <2>6. /\ pc[picked] \in Reading => ResumeAt(pc[picked]) = "readLoop"
        /\ pc[picked] = "asleep" => ResumeAt(pc[picked]) = "waitWhile"
        /\ pc[picked] # "asleep" => ResumeAt(pc[picked]) \notin Sleepy
        /\ pc[picked] # "block"
        /\ ResumeAt(pc[picked]) # "pollHardware"
    BY <2>4 DEF ResumeAt, ParkedAt
  <2> HIDE DEF Reading, Sleepy
  <2>7. pc[picked] = "asleep" => ResumeAt(pc[picked]) \in Reading
    BY <2>6 DEF Reading
  <2>8. pc[picked] \in Reading => ResumeAt(pc[picked]) \in Reading
    BY <2>6 DEF Reading
  <2> QED BY ZenonT(60), <1>1, <2>1, <2>2, <2>3, <2>5, <2>6, <2>7, <2>8, MoveCovers
<1> QED BY <1>2, <1>3

\* Every step keeps the keystrokes covered.
LEMMA InputStep == IInv /\ InputInv /\ [Next]_vars => InputInv'
<1> SUFFICES ASSUME IInv, InputInv, [Next]_vars PROVE InputInv'
  OBVIOUS
<1>1. ASSUME UNCHANGED vars PROVE InputInv'
  <2>1. UNCHANGED <<waiters, ring, irqActive, pc, status>>
    BY <1>1 DEF vars, keyVars, queueVars
  <2>2. \A u \in Pids : Quietly(u)
    BY <2>1 DEF Quietly
  <2> QED BY <2>1, <2>2, QuietKeeps
<1>2. ASSUME NEW t \in Pids, TaskStep(t) PROVE InputInv'
  BY Zenon, <1>1, <1>2, CallCovers, ReadCovers, KillCovers DEF TaskStep, Stuck
<1> QED BY Zenon, <1>1, <1>2, IdleCovers, KeyCovers DEF Next, CpuStep, IdleHlt

\* While a reader sleeps, at least as many readers are awake as there are
\* scancodes in the ring: no keystroke waits for a wake-up that never comes.
THEOREM InputAlwaysCovered == Spec => []InputCovered
<1>1. Init => InputInv
  <2> SUFFICES ASSUME Init PROVE InputInv
    OBVIOUS
  <2>1. waiters = <<>> /\ W = {} /\ \A t \in Pids : pc[t] = "born"
    BY DEF Init, W, Range
  <2> QED BY <2>1 DEF InputInv, InputCovered, Sleepy
<1>2. InputInv => InputCovered
  BY DEF InputInv
<1> QED BY <1>1, <1>2, Inductive, InputStep, PTL DEF Spec
=============================================================================
