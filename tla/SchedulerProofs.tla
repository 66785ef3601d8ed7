-------------------------- MODULE SchedulerProofs --------------------------
(***************************************************************************)
(* The invariants of the scheduler, for any number of tasks, of system     *)
(* calls and of keystrokes.                                                *)
(***************************************************************************)
EXTENDS Scheduler, SequenceFacts, TLAPS

\* The tasks in the run queue and in the keyboard's wait queue.
Q == Range(readyQueue)
W == Range(waiters)

\* One context is on the CPU, all others are saved.
Contexts ==
    /\ \A t \in Pids : IF run = t THEN pc[t] \in ActiveAt ELSE pc[t] \in ParkedAt
    /\ picked # NoTask => run = NoTask

Queues ==
    /\ IsInjective(readyQueue) /\ readyCount = Len(readyQueue)
    /\ IsInjective(waiters)

\* add_task queues the first task without setting its flag; nothing has run yet.
Fresh == run = NoTask /\ picked = NoTask /\ readyQueue = <<InitProc>> /\ waiters = <<>>

\* What being queued, registered, picked, blocking, exited or not yet born
\* means for a task.
Place(t) ==
    /\ t \in Q => /\ status[t] = "Ready"
                  /\ inRunQueue[t] \/ Fresh
                  /\ t \notin W /\ picked # t
                  /\ run = t => pc[t] = "block"
                  /\ pc[t] # "exited"
    /\ inRunQueue[t] => t \in Q \/ StuckOn(t)
    /\ t \in W => /\ pc[t] \in {"block", "asleep"} /\ picked # t
                  /\ status[t] = "Waiting" \/ StuckOn(t)
    /\ picked = t => status[t] = "Ready" /\ pc[t] # "exited"
    /\ pc[t] = "block" => t \in Q \/ t \in W
    /\ pc[t] = "exited" => status[t] = "Exited"
    /\ t >= nextPid => status[t] = "Unborn" /\ pc[t] = "born"

\* Where a task that is alive can be found.
Kept(t) ==
    \/ status[t] \in {"Unborn", "Exited"}
    \/ t \in Q \/ picked = t \/ run = t
    \/ status[t] = "Waiting" /\ pc[t] = "asleep" /\ t \in W
    \/ status[t] = "Waiting" /\ pc[t] = "waitpid" /\ children[t] # <<>>
    \/ StuckOn(t)

Family == allTasks = {InitProc} /\ nextPid >= 2

\* The processor's current task; CurrentIsRunning once more, by cases of run.
OnCpu ==
    /\ run = NoTask => current = NoTask
    /\ \A t \in Pids : run = t /\ pc[t] \notin {"block", "spin"} =>
            current = t /\ status[t] = "Running"

Core == Contexts /\ Queues /\ Family /\ OnCpu /\ \A t \in Pids : Place(t) /\ Kept(t)

IInv == TypeOK /\ Core
-----------------------------------------------------------------------------
\* VecDeque::retain keeps the tasks in K, and repeats none.
LEMMA RetainFacts ==
    ASSUME NEW s \in Seq(Pids), NEW K \in SUBSET Pids, NEW r \in Retain(s, K)
    PROVE  /\ r \in Seq(Pids)
           /\ Range(r) = Range(s) \cap K
           /\ IsInjective(s) => IsInjective(r)
<1>1. PICK n \in 0 .. Len(s) : r \in [1 .. n -> K]
  BY DEF Retain
<1>2. Len(s) \in Nat /\ DOMAIN s = 1 .. Len(s)
  OBVIOUS
<1>3. r \in Seq(K) /\ Len(r) = n /\ DOMAIN r = 1 .. n
  BY <1>1, <1>2
<1>4. r \in Seq(Pids)
  BY <1>3, <1>1, <1>2
<1>5. PICK f \in [1 .. Len(r) -> 1 .. Len(s)] :
            /\ \A i, j \in 1 .. Len(r) : i < j => f[i] < f[j]
            /\ \A i \in 1 .. Len(r) : r[i] = s[f[i]]
            /\ \A k \in 1 .. Len(s) : s[k] \in K => \E i \in 1 .. Len(r) : f[i] = k
  BY DEF Retain
<1>6. Range(r) = Range(s) \cap K
  <2>1. ASSUME NEW x \in Range(r) PROVE x \in Range(s) \cap K
    <3>1. PICK i \in 1 .. n : x = r[i]
      BY <1>3 DEF Range
    <3>2. x \in K
      BY <3>1, <1>1
    <3>3. f[i] \in DOMAIN s /\ x = s[f[i]]
      BY <3>1, <1>2, <1>3, <1>5
    <3> QED BY <3>2, <3>3 DEF Range
  <2>2. ASSUME NEW x \in Range(s) \cap K PROVE x \in Range(r)
    <3>1. PICK k \in DOMAIN s : x = s[k]
      BY DEF Range
    <3>2. PICK i \in 1 .. Len(r) : f[i] = k
      BY <3>1, <1>2, <1>5
    <3> QED BY Zenon, <3>1, <3>2, <1>3, <1>5 DEF Range
  <2> QED BY <2>1, <2>2
<1>7. ASSUME IsInjective(s) PROVE IsInjective(r)
  <2> SUFFICES ASSUME NEW i \in 1 .. n, NEW j \in 1 .. n, r[i] = r[j] PROVE i = j
    BY <1>3 DEF IsInjective
  <2>1. f[i] = f[j] /\ f[i] \in Nat /\ f[j] \in Nat
    BY <1>2, <1>3, <1>5, <1>7 DEF IsInjective
  <2>2. ~(i < j) /\ ~(j < i)
    BY <2>1, <1>3, <1>5
  <2> QED BY <2>2, <1>2
<1> QED BY <1>4, <1>6, <1>7

\* The passes stay within their bound.
LEMMA AdvanceType ==
    ASSUME pass \in [Pids -> 0 .. MaxLag], NEW t \in Pids
    PROVE  Advance(t) \in [Pids -> 0 .. MaxLag]
<1>1. MaxLag \in Nat
  BY SchedulerAssumption
<1> QED BY <1>1 DEF Advance

\* fetch finds a task in a queue that is not empty.
LEMMA FetchIndexType ==
    ASSUME pass \in [Pids -> 0 .. MaxLag], NEW s \in Seq(Pids), s # <<>>
    PROVE  FetchIndex(s) \in 1 .. Len(s)
<1> DEFINE T == {pass[s[i]] : i \in 1 .. Len(s)}
<1>1. MaxLag \in Nat /\ Len(s) \in Nat /\ 1 \in 1 .. Len(s)
  BY SchedulerAssumption
<1>2. \A i \in 1 .. Len(s) : pass[s[i]] \in Nat
  BY <1>1
<1>3. T \in SUBSET Nat /\ T # {}
  BY <1>1, <1>2
<1>4. PICK m \in T : \A y \in T : m <= y
  <2> HIDE DEF T
  <2> QED BY Zenon, <1>3, LeastNatural
<1> DEFINE I == {i \in 1 .. Len(s) : pass[s[i]] = m}
<1>5. I \in SUBSET Nat /\ I # {}
  BY <1>1, <1>4
<1>6. PICK k \in I : \A j \in I : k <= j
  <2> HIDE DEF I
  <2> QED BY <1>5, LeastNatural
<1>7. ASSUME NEW j \in 1 .. Len(s)
      PROVE  pass[s[k]] <= pass[s[j]] /\ (j < k => pass[s[k]] < pass[s[j]])
  <2>1. pass[s[k]] = m /\ m <= pass[s[j]] /\ pass[s[j]] \in Nat /\ m \in Nat
    BY <1>2, <1>3, <1>4, <1>6
  <2>2. j < k => pass[s[j]] # m
    BY <1>5, <1>6
  <2> QED BY <2>1, <2>2
<1>8. k \in 1 .. Len(s)
  BY <1>6
<1> QED BY Zenon, <1>7, <1>8 DEF FetchIndex
-----------------------------------------------------------------------------
(***************************************************************************)
(* Steps that change only where the task on the CPU stands                 *)
(***************************************************************************)
\* No lock is held across steps while the task on the CPU is not stuck.
LEMMA NotStuck ==
    ASSUME Contexts, run \in Pids => pc[run] # "spin", NEW p
    PROVE  ~StuckOn(p)
<1>1. \A t \in Pids : pc[t] # "spin"
  BY DEF Contexts, ParkedAt
<1> QED BY <1>1 DEF StuckOn

\* The task on the CPU moves on inside the kernel, or enters or leaves it.
LEMMA Moves ==
    ASSUME TypeOK, Core, NEW t \in Pids, run = t, pc[t] \notin {"spin", "block"},
           NEW x \in ActiveAt \ {"spin", "block"}, pc' = [pc EXCEPT ![t] = x],
           UNCHANGED <<status, inRunQueue, readyQueue, readyCount, waiters,
                       current, run, picked, parent, allTasks, nextPid>>,
           \A u \in Pids \ {t} : children'[u] = children[u]
    PROVE  Core'
<1>1. Q' = Q /\ W' = W
  BY DEF Q, W
<1>2. \A u \in Pids : pc'[u] = IF u = t THEN x ELSE pc[u]
  BY DEF TypeOK
<1>3. Contexts'
  BY <1>2 DEF Core, Contexts
<1>4. \A u \in Pids : ~StuckOn(u)
  BY NotStuck DEF Core
<1>5. \A u \in Pids : ~StuckOn(u)'
  <2>1. \A u \in Pids : pc'[u] # "spin"
    BY <1>2 DEF Core, Contexts, ParkedAt
  <2> QED BY <2>1 DEF StuckOn
<1>6. ~Fresh
  BY DEF Fresh, NoTask, Pids
<1>7. Queues' /\ Family'
  BY DEF Core, Queues, Family, IsInjective
<1>8. OnCpu'
  BY <1>2 DEF Core, OnCpu
<1>9. x # "exited" /\ x # "asleep" /\ x # "born"
  BY DEF ActiveAt
<1>10. pc[t] \in ActiveAt
  BY DEF Core, Contexts
<1>11. t < nextPid
  BY <1>10 DEF Core, Place, TypeOK, Pids, ActiveAt
<1>12. ASSUME NEW u \in Pids PROVE Place(u)'
  BY <1>1, <1>2, <1>4, <1>5, <1>6, <1>9, <1>10, <1>11 DEF Core, Place, ActiveAt
<1>13. ASSUME NEW u \in Pids PROVE Kept(u)'
  BY <1>1, <1>2, <1>4, <1>5 DEF Core, Kept
<1> QED BY <1>3, <1>7, <1>8, <1>12, <1>13 DEF Core

\* What holds of the task on the CPU as long as it is neither blocking nor
\* stuck: it is Running, and in no queue.
LEMMA OnTheCpu ==
    ASSUME TypeOK, Core, NEW t \in Pids, run = t, pc[t] \notin {"spin", "block"}
    PROVE  /\ current = t /\ status[t] = "Running" /\ picked = NoTask
           /\ t \notin Q /\ t \notin W /\ ~inRunQueue[t] /\ t < nextPid
           /\ ~Fresh /\ \A u \in Pids : ~StuckOn(u)
           /\ \A u \in Pids : u # t => pc[u] \in ParkedAt
<1>1. current = t /\ status[t] = "Running"
  BY DEF Core, OnCpu
<1>2. picked = NoTask /\ \A u \in Pids : u # t => pc[u] \in ParkedAt
  BY DEF Core, Contexts, NoTask, Pids, TypeOK
<1>3. \A u \in Pids : ~StuckOn(u)
  BY NotStuck DEF Core
<1>4. pc[t] \in ActiveAt
  BY DEF Core, Contexts
<1>5. t \notin Q /\ t \notin W /\ ~inRunQueue[t] /\ t < nextPid
  BY <1>1, <1>3, <1>4 DEF Core, Place, ActiveAt, TypeOK, Pids
<1>6. ~Fresh
  BY DEF Fresh, NoTask, Pids
<1> QED BY <1>1, <1>2, <1>3, <1>5, <1>6

\* suspend_current_and_run_next: the task is queued and leaves the CPU.
LEMMA Suspends ==
    ASSUME TypeOK, Core, NEW t \in Pids, run = t, pc[t] \notin {"spin", "block"},
           NEW x \in {"yielded", "preempted", "polled"}, NEW r, Suspend(t, x, r),
           UNCHANGED <<waiters, parent, children, allTasks, nextPid>>
    PROVE  Core'
<1> USE DEF NoTask
<1>0. /\ status[t] = "Running" /\ picked = 0
      /\ t \notin Q /\ t \notin W /\ ~inRunQueue[t] /\ t < nextPid
      /\ ~Fresh /\ \A u \in Pids : ~StuckOn(u)
      /\ \A u \in Pids : u # t => pc[u] \in ParkedAt
  BY OnTheCpu
<1>1. /\ readyQueue' = Append(readyQueue, t) /\ readyCount' = readyCount + 1
      /\ status' = [status EXCEPT ![t] = "Ready"]
      /\ inRunQueue' = [inRunQueue EXCEPT ![t] = TRUE]
      /\ run' = NoTask /\ current' = NoTask /\ pc' = [pc EXCEPT ![t] = x] /\ picked' = NoTask
  BY <1>0 DEF Suspend, EnqueueReady, SwitchOut, Enqueues
<1>2. Q' = Q \cup {t} /\ W' = W /\ IsInjective(readyQueue') /\ Len(readyQueue') = Len(readyQueue) + 1
  BY <1>0, <1>1, AppendFacts DEF Q, W, TypeOK, Core, Queues
<1>3. \A u \in Pids : /\ pc'[u] = IF u = t THEN x ELSE pc[u]
                      /\ status'[u] = IF u = t THEN "Ready" ELSE status[u]
                      /\ inRunQueue'[u] = IF u = t THEN TRUE ELSE inRunQueue[u]
  BY <1>0, <1>1 DEF TypeOK
<1>x. x \in ParkedAt /\ x \notin {"born", "asleep", "block", "exited", "spin"} /\ 0 \notin Pids
  BY DEF ParkedAt, Pids
<1>4. Contexts'
  BY Zenon, <1>0, <1>1, <1>3, <1>x DEF Contexts
<1>5. \A u \in Pids : ~StuckOn(u)'
  <2>1. \A u \in Pids : pc'[u] # "spin"
    BY Zenon, <1>0, <1>3 DEF ParkedAt
  <2> QED BY <2>1 DEF StuckOn
<1>6. Queues' /\ Family'
  BY <1>0, <1>1, <1>2 DEF Core, Queues, Family, IsInjective
<1>7. OnCpu'
  BY <1>0, <1>1 DEF OnCpu, Pids
<1>8. ASSUME NEW u \in Pids PROVE Place(u)'
  <2>1. Place(u)
    BY DEF Core
  <2>2. CASE u = t
    <3>1. ~(t >= nextPid)
      BY <1>0 DEF TypeOK, Pids
    <3> QED BY Zenon, <1>0, <1>1, <1>2, <1>3, <1>5, <1>x, <2>2, <3>1 DEF Place
  <2>3. CASE u # t
    BY <1>0, <1>1, <1>2, <1>3, <1>5, <1>x, <2>1, <2>3 DEF Place
  <2> QED BY <2>2, <2>3
<1>9. ASSUME NEW u \in Pids PROVE Kept(u)'
  BY <1>0, <1>1, <1>2, <1>3, <1>5 DEF Core, Kept, Pids
<1> QED BY <1>4, <1>6, <1>7, <1>8, <1>9 DEF Core

\* block_current_and_schedule: the task stays in the wait queue, or in the run
\* queue when a key has woken it already.
LEMMA BlockKeeps ==
    ASSUME TypeOK, Core, NEW t \in Pids, Block(t)
    PROVE  Core'
<1>1. /\ run = t /\ pc[t] = "block" /\ run' = NoTask /\ current' = NoTask
      /\ pc' = [pc EXCEPT ![t] = "asleep"] /\ picked' = picked
      /\ UNCHANGED <<status, inRunQueue, readyQueue, readyCount, waiters, parent, children,
                     allTasks, nextPid>>
  BY DEF Block, SwitchOut, queueVars, familyVars, keyVars
<1>2. Q' = Q /\ W' = W
  BY <1>1 DEF Q, W
<1>3. \A u \in Pids : pc'[u] = IF u = t THEN "asleep" ELSE pc[u]
  BY <1>1 DEF TypeOK
<1>4. picked = NoTask /\ \A u \in Pids : u # t => pc[u] \in ParkedAt
  BY <1>1 DEF Core, Contexts, NoTask, Pids, TypeOK
<1>5. Contexts'
  BY <1>1, <1>3, <1>4 DEF Contexts, NoTask, Pids, ParkedAt
<1>6. \A u \in Pids : ~StuckOn(u)
  BY <1>1, NotStuck DEF Core
<1>7. \A u \in Pids : ~StuckOn(u)'
  <2>1. \A u \in Pids : pc'[u] # "spin"
    BY <1>3, <1>4 DEF ParkedAt
  <2> QED BY <2>1 DEF StuckOn
<1>8. Queues' /\ Family' /\ OnCpu'
  BY <1>1 DEF Core, Queues, Family, IsInjective, OnCpu, NoTask, Pids
<1>9. ASSUME NEW u \in Pids PROVE Place(u)'
  <2>1. ~Fresh
    BY <1>1 DEF Fresh, NoTask, Pids
  <2>2. t < nextPid
    BY <1>1 DEF Core, Place, TypeOK, Pids
  <2> QED BY <1>1, <1>2, <1>3, <1>4, <1>6, <1>7, <2>1, <2>2 DEF Core, Place, NoTask, Pids, ParkedAt
<1>10. ASSUME NEW u \in Pids PROVE Kept(u)'
  <2>1. t \in Q \/ (t \in W /\ status[t] = "Waiting")
    BY <1>1, <1>6 DEF Core, Place
  <2> QED BY <1>1, <1>2, <1>3, <1>4, <1>6, <2>1 DEF Core, Kept, NoTask, Pids
<1> QED BY <1>5, <1>8, <1>9, <1>10 DEF Core
-----------------------------------------------------------------------------
(***************************************************************************)
(* The idle loop and the interrupts                                        *)
(***************************************************************************)
\* fetch_next_task: the task leaves the queue and is about to run.
LEMMA FetchKeeps ==
    ASSUME TypeOK, Core, Fetch
    PROVE  Core' /\ TypeOK'
<1> USE DEF NoTask
<1> DEFINE k == FetchIndex(readyQueue)
           t == readyQueue[k]
<1>1. k \in 1 .. Len(readyQueue)
  BY FetchIndexType DEF Fetch, TypeOK
<1>2. t \in Pids /\ t \in Q
  <2>1. readyQueue \in Seq(Pids) /\ k \in DOMAIN readyQueue
    BY <1>1 DEF TypeOK
  <2> HIDE DEF k
  <2> QED BY <2>1 DEF Q, Range
<1>3. /\ run = 0 /\ picked = 0 /\ picked' = t /\ readyQueue' = RemoveAt(readyQueue, k)
      /\ readyCount' = readyCount - 1 /\ inRunQueue' = [inRunQueue EXCEPT ![t] = FALSE]
      /\ pass' = Advance(t)
      /\ UNCHANGED <<status, needResched, current, run, irqOn, pc>>
      /\ UNCHANGED <<waiters, ring, irqActive, keys>>
      /\ UNCHANGED <<parent, children, allTasks, nextPid, exitCode>>
      /\ UNCHANGED <<waitFor, got, calls>>
  BY DEF Fetch, familyVars, keyVars, callVars
<1> HIDE DEF k, t
<1>a. readyQueue \in Seq(Pids) /\ IsInjective(readyQueue) /\ readyCount = Len(readyQueue)
  BY DEF TypeOK, Core, Queues
<1>4. /\ Q' = Q \ {t} /\ W' = W /\ IsInjective(readyQueue') /\ readyCount' = Len(readyQueue')
      /\ readyQueue' \in Seq(Pids) /\ readyCount' \in Int
  <2>1. LET r == RemoveAt(readyQueue, k)
        IN  /\ r \in Seq(Pids) /\ Len(r) = Len(readyQueue) - 1
            /\ Range(r) = Range(readyQueue) \ {readyQueue[k]} /\ IsInjective(r)
    BY Zenon, <1>1, <1>a, RemoveFacts DEF RemoveAt
  <2>2. readyQueue[k] = t
    BY DEF t
  <2> QED BY <1>3, <1>a, <2>1, <2>2 DEF Q, W
<1>5. \A u \in Pids : inRunQueue'[u] = IF u = t THEN FALSE ELSE inRunQueue[u]
  BY <1>3 DEF TypeOK
<1>6. \A u \in Pids : StuckOn(u)' = StuckOn(u)
  BY <1>3 DEF StuckOn
<1>7. \A u \in Pids : ~StuckOn(u)
  BY <1>3, NotStuck DEF Core, Pids
<1>8. \A u \in Q' : inRunQueue[u]
  <2>1. CASE Fresh
    <3>1. Q = {InitProc}
      BY <2>1 DEF Fresh, Q, Range
    <3> QED BY <3>1, <1>2, <1>4
  <2>2. CASE ~Fresh
    <3>1. Q \subseteq Pids
      BY DEF TypeOK, Q, Range
    <3> QED BY <3>1, <2>2, <1>4 DEF Core, Place
  <2> QED BY <2>1, <2>2
<1>9. Contexts' /\ Queues' /\ Family'
  BY <1>3, <1>4 DEF Core, Contexts, Queues, Family, IsInjective
<1>10. OnCpu'
  BY <1>3 DEF Core, OnCpu, Pids
<1>11. ASSUME NEW u \in Pids PROVE Place(u)'
  <2>1. Place(u) /\ Place(t) /\ 0 \notin Pids
    BY <1>2 DEF Core, Pids
  <2>a. pc[t] # "block"
    BY <1>2, <1>3, <2>1 DEF Core, Contexts, ParkedAt
  <2>2. CASE u = t
    BY Zenon, <1>2, <1>3, <1>4, <1>5, <1>6, <1>7, <2>1, <2>2, <2>a DEF Place
  <2>3. CASE u # t
    BY <1>2, <1>3, <1>4, <1>5, <1>6, <1>7, <1>8, <2>1, <2>3 DEF Place
  <2> QED BY <2>2, <2>3
<1>12. ASSUME NEW u \in Pids PROVE Kept(u)'
  BY <1>3, <1>4, <1>6, <1>7 DEF Core, Kept, Pids
<1>13. pass' \in [Pids -> 0 .. MaxLag]
  BY <1>2, <1>3, AdvanceType DEF TypeOK
<1>14. TypeOK'
  BY Zenon, <1>2, <1>3, <1>4, <1>13 DEF TypeOK
<1> QED BY <1>9, <1>10, <1>11, <1>12, <1>14 DEF Core

\* __switch resumes the task that was picked: it was parked and is not exited.
LEMMA SwitchToKeeps ==
    ASSUME TypeOK, Core, SwitchTo
    PROVE  Core' /\ TypeOK'
<1> USE DEF NoTask
<1> DEFINE t == picked
           x == ResumeAt(pc[t])
<1>1. /\ t \in Pids /\ run = 0 /\ status' = [status EXCEPT ![t] = "Running"]
      /\ current' = t /\ run' = t /\ picked' = 0 /\ irqOn' = TRUE
      /\ pc' = [pc EXCEPT ![t] = x]
      /\ UNCHANGED <<readyQueue, readyCount, inRunQueue, needResched, pass>>
      /\ UNCHANGED <<waiters, ring, irqActive, keys>>
      /\ UNCHANGED <<parent, children, allTasks, nextPid, exitCode>>
      /\ UNCHANGED <<waitFor, got, calls>>
  BY DEF SwitchTo, TypeOK, Core, Contexts, familyVars, keyVars, callVars
<1>2. pc[t] \in ParkedAt \ {"exited"} /\ status[t] = "Ready" /\ t \notin Q /\ t \notin W
  BY <1>1 DEF Core, Contexts, Place, Pids
<1>3. x \in ActiveAt \ {"spin", "block", "halt"}
  BY <1>2 DEF ParkedAt, ActiveAt, ResumeAt
<1>4. Q' = Q /\ W' = W
  BY <1>1 DEF Q, W
<1>5. ~Fresh /\ t < nextPid /\ ~inRunQueue[t] /\ \A u \in Pids : ~StuckOn(u)
  <2>1. \A u \in Pids : ~StuckOn(u)
    BY <1>1, NotStuck DEF Core, Pids
  <2>2. ~Fresh
    BY <1>1 DEF Fresh, Pids
  <2>3. t < nextPid
    BY <1>1, <1>2 DEF Core, Place, TypeOK, Pids
  <2> QED BY <1>1, <1>2, <2>1, <2>2, <2>3 DEF Core, Place
<1> HIDE DEF t, x
<1>6. \A u \in Pids : /\ pc'[u] = IF u = t THEN x ELSE pc[u]
                      /\ status'[u] = IF u = t THEN "Running" ELSE status[u]
  BY <1>1 DEF TypeOK
<1>7. \A u \in Pids : pc[u] \in ParkedAt
  BY <1>1 DEF Core, Contexts, Pids
<1>8. \A u \in Pids : ~StuckOn(u)'
  <2>1. \A u \in Pids : pc'[u] # "spin"
    BY <1>3, <1>6, <1>7 DEF ParkedAt
  <2> QED BY <2>1 DEF StuckOn
<1>9. Contexts' /\ Queues' /\ Family'
  BY <1>1, <1>3, <1>6, <1>7 DEF Core, Contexts, Queues, Family, IsInjective, Pids
<1>10. OnCpu'
  BY <1>1, <1>6 DEF OnCpu, Pids
<1>11. ASSUME NEW u \in Pids PROVE Place(u)'
  <2>1. Place(u) /\ ~(t >= nextPid) /\ x \notin {"born", "asleep", "exited", "block"}
    BY <1>1, <1>3, <1>5 DEF Core, ActiveAt, TypeOK, Pids
  <2> QED BY <1>1, <1>2, <1>4, <1>5, <1>6, <1>7, <1>8, <2>1 DEF Place, Pids, ParkedAt, t
<1>12. ASSUME NEW u \in Pids PROVE Kept(u)'
  BY Zenon, <1>1, <1>4, <1>5, <1>6 DEF Core, Kept, t
<1>13. TypeOK'
  <2>1. x \in ParkedAt \cup ActiveAt /\ "Running" \in Statuses
    BY <1>3 DEF Statuses
  <2> QED BY <1>1, <2>1 DEF TypeOK
<1> QED BY <1>9, <1>10, <1>11, <1>12, <1>13 DEF Core

\* The keyboard interrupt moves a waiter to the run queue, even one that is on
\* the CPU on its way to sleep.
LEMMA KeyIrqKeeps ==
    ASSUME TypeOK, Core, KeyIrq
    PROVE  Core'
<1>1. UNCHANGED <<parent, children, allTasks, nextPid>> /\ UNCHANGED <<current, run, picked>>
      /\ pc' = pc
  BY DEF KeyIrq, familyVars, cpuVars
<1>2. \A u \in Pids : StuckOn(u)' = StuckOn(u)
  BY <1>1 DEF StuckOn
<1>3. Contexts' /\ Family'
  BY <1>1 DEF Core, Contexts, Family
<1>4. CASE UNCHANGED <<readyQueue, readyCount, inRunQueue, status, waiters>>
  <2>1. Q' = Q /\ W' = W /\ Fresh' = Fresh
    BY <1>1, <1>4 DEF Q, W, Fresh
  <2>2. Queues' /\ OnCpu'
    BY Zenon, <1>1, <1>4 DEF Core, Queues, OnCpu, IsInjective
  <2>3. ASSUME NEW u \in Pids PROVE Place(u)' /\ Kept(u)'
    BY <1>1, <1>2, <1>4, <2>1 DEF Core, Place, Kept
  <2> QED BY <1>3, <2>2, <2>3 DEF Core
<1>5. CASE waiters # <<>>
  <2> DEFINE t == waiters[Len(waiters)]
  <2>1. waiters \in Seq(Pids) /\ IsInjective(waiters) /\ readyQueue \in Seq(Pids)
        /\ IsInjective(readyQueue) /\ readyCount = Len(readyQueue)
    BY DEF TypeOK, Core, Queues
  <2>2. waiters' = SubSeq(waiters, 1, Len(waiters) - 1) /\ EnqueueReady(t, needResched \/ Enqueues(t, status, inRunQueue))
    BY <1>5 DEF KeyIrq, AfterWake, AddTaskArc
  <2>3. t \in Pids /\ t \in W /\ W' = W \ {t} /\ IsInjective(waiters')
    BY <1>5, <2>1, <2>2, FrontFacts DEF W
  <2> HIDE DEF t
  <2>4. ~Fresh
    BY <1>5 DEF Fresh
  <2>5. t \notin Q /\ pc[t] \in {"block", "asleep"} /\ picked # t /\ ~(t >= nextPid)
        /\ (status[t] = "Waiting" \/ StuckOn(t)) /\ (run = t => pc[t] = "block")
    BY <2>3 DEF Core, Place, Contexts, ActiveAt
  <2>6. CASE ~Enqueues(t, status, inRunQueue)
    <3>1. UNCHANGED <<readyQueue, readyCount, inRunQueue, status>> /\ Q' = Q
      BY <2>2, <2>6 DEF EnqueueReady, Q
    <3>2. Queues' /\ OnCpu'
      BY <1>1, <2>3, <3>1 DEF Core, Queues, OnCpu, IsInjective
    <3>3. ASSUME NEW u \in Pids PROVE Place(u)'
      <4>1. Place(u)
        BY DEF Core
      <4>2. pc[t] = "block" => t \in Q'
        <5>1. status[t] # "Exited" => StuckOn(t)
          BY <2>3, <2>5, <2>6 DEF Core, Place, Enqueues
        <5>2. pc[t] = "block" => run = t /\ ~StuckOn(t)
          BY <2>3, NotStuck DEF Core, Contexts, ParkedAt
        <5> QED BY <2>5, <5>1, <5>2
      <4> QED BY <1>1, <1>2, <2>3, <2>4, <3>1, <4>1, <4>2 DEF Place
    <3>4. ASSUME NEW u \in Pids PROVE Kept(u)'
      <4>1. Kept(u) /\ Place(u)
        BY DEF Core
      <4>2. u = t => StuckOn(t) \/ status[t] = "Exited"
        BY <2>3, <2>5, <2>6 DEF Core, Place, Enqueues
      <4> QED BY <1>1, <1>2, <2>3, <3>1, <4>1, <4>2 DEF Kept
    <3> QED BY <1>3, <3>2, <3>3, <3>4 DEF Core
  <2>7. CASE Enqueues(t, status, inRunQueue)
    <3>1. /\ readyQueue' = Append(readyQueue, t) /\ readyCount' = readyCount + 1
          /\ status' = [status EXCEPT ![t] = "Ready"]
          /\ inRunQueue' = [inRunQueue EXCEPT ![t] = TRUE]
      BY <2>2, <2>7 DEF EnqueueReady
    <3>2. Q' = Q \cup {t} /\ IsInjective(readyQueue') /\ readyCount' = Len(readyQueue')
      BY <2>1, <2>3, <2>5, <3>1, AppendFacts DEF Q
    <3>3. \A u \in Pids : /\ status'[u] = IF u = t THEN "Ready" ELSE status[u]
                          /\ inRunQueue'[u] = IF u = t THEN TRUE ELSE inRunQueue[u]
      BY <3>1 DEF TypeOK
    <3>4. Queues'
      BY <2>3, <3>2 DEF Queues
    <3>5. OnCpu'
      BY Zenon, <1>1, <2>5, <3>3 DEF Core, OnCpu
    <3>6. ASSUME NEW u \in Pids PROVE Place(u)'
      <4>1. Place(u)
        BY DEF Core
      <4>2. CASE u = t
        BY Zenon, <1>1, <1>2, <2>3, <2>4, <2>5, <3>2, <3>3, <4>1, <4>2 DEF Place
      <4>3. CASE u # t
        BY Zenon, <1>1, <1>2, <2>3, <2>4, <2>5, <3>2, <3>3, <4>1, <4>3 DEF Place
      <4> QED BY <4>2, <4>3
    <3>7. ASSUME NEW u \in Pids PROVE Kept(u)'
      BY Zenon, <1>1, <1>2, <2>3, <3>2, <3>3 DEF Core, Kept
    <3> QED BY <1>3, <3>4, <3>5, <3>6, <3>7 DEF Core
  <2> QED BY <2>6, <2>7
<1> QED BY <1>4, <1>5 DEF KeyIrq, queueVars
-----------------------------------------------------------------------------
(***************************************************************************)
(* System calls that change more than where their task stands              *)
(***************************************************************************)
\* wait_while registers the task, which is in neither queue, and marks it.
LEMMA WaitWhileKeeps ==
    ASSUME TypeOK, Core, NEW t \in Pids, WaitWhile(t)
    PROVE  Core'
<1> USE DEF NoTask
<1>1. /\ run = t /\ pc[t] = "waitWhile"
      /\ UNCHANGED <<readyQueue, readyCount, parent, children, allTasks, nextPid, current, run, picked>>
  BY DEF WaitWhile, familyVars, cpuVars
<1>2. CASE ~MustWait
  <2>1. /\ pc' = [pc EXCEPT ![t] = "readBytes"] /\ UNCHANGED <<status, inRunQueue, waiters>>
        /\ "readBytes" \in ActiveAt \ {"spin", "block"}
    BY <1>2 DEF WaitWhile, ActiveAt
  <2> QED BY Zenon, <1>1, <2>1, Moves
<1>3. CASE MustWait
  <2>1. /\ status[t] = "Running" /\ current = t /\ picked = 0
        /\ t \notin Q /\ t \notin W /\ ~inRunQueue[t] /\ t < nextPid
        /\ ~Fresh /\ \A u \in Pids : ~StuckOn(u)
        /\ \A u \in Pids : u # t => pc[u] \in ParkedAt
    BY <1>1, OnTheCpu
  <2>2. /\ status' = [status EXCEPT ![t] = "Waiting"]
        /\ inRunQueue' = [inRunQueue EXCEPT ![t] = FALSE]
        /\ waiters' = Append(waiters, t) /\ pc' = [pc EXCEPT ![t] = "block"]
    BY <1>3, <2>1 DEF WaitWhile, W
  <2>3. Q' = Q /\ W' = W \cup {t} /\ IsInjective(waiters')
    BY <1>1, <2>1, <2>2, AppendFacts DEF Q, W, TypeOK, Core, Queues
  <2>4. \A u \in Pids : /\ pc'[u] = IF u = t THEN "block" ELSE pc[u]
                        /\ status'[u] = IF u = t THEN "Waiting" ELSE status[u]
                        /\ inRunQueue'[u] = IF u = t THEN FALSE ELSE inRunQueue[u]
    BY <2>2 DEF TypeOK
  <2>5. Contexts'
    BY Zenon, <1>1, <2>1, <2>4 DEF Contexts, ActiveAt
  <2>6. \A u \in Pids : ~StuckOn(u)'
    <3>1. \A u \in Pids : pc'[u] # "spin"
      BY Zenon, <2>1, <2>4 DEF ParkedAt
    <3> QED BY <3>1 DEF StuckOn
  <2>7. Queues' /\ Family' /\ OnCpu'
    BY Zenon, <1>1, <2>3, <2>4 DEF Core, Queues, Family, OnCpu, IsInjective, Pids
  <2>8. ASSUME NEW u \in Pids PROVE Place(u)'
    <3>1. Place(u) /\ ~(t >= nextPid) /\ 0 \notin Pids
      BY <2>1 DEF Core, TypeOK, Pids
    <3> QED BY Zenon, <1>1, <2>1, <2>3, <2>4, <2>6, <3>1 DEF Place
  <2>9. ASSUME NEW u \in Pids PROVE Kept(u)'
    BY Zenon, <1>1, <2>1, <2>3, <2>4 DEF Core, Kept
  <2> QED BY <2>5, <2>7, <2>8, <2>9 DEF Core
<1> QED BY <1>2, <1>3

\* waitpid reaps, fails, or marks the task and leaves the CPU with a child to
\* wait for.
LEMMA WaitpidScanKeeps ==
    ASSUME TypeOK, Core, NEW t \in Pids, WaitpidScan(t)
    PROVE  Core'
<1> USE DEF NoTask
<1>1. /\ run = t /\ pc[t] = "waitpidScan"
      /\ UNCHANGED <<readyQueue, readyCount, inRunQueue, waiters, parent, allTasks, nextPid>>
  BY Zenon DEF WaitpidScan, keyVars
<1>2. CASE pc' = [pc EXCEPT ![t] = "sysret"]
  <2>1. /\ "sysret" \in ActiveAt \ {"spin", "block"} /\ UNCHANGED <<status, current, run, picked>>
        /\ \A u \in Pids \ {t} : children'[u] = children[u]
    <3>1. pc'[t] = "sysret"
      BY <1>2 DEF TypeOK
    <3>2. ~SwitchOut(t, "waitpid")
      BY <3>1 DEF SwitchOut, TypeOK
    <3> QED BY <3>2 DEF WaitpidScan, ActiveAt, cpuVars, TypeOK
  <2> QED BY Zenon, <1>1, <1>2, <2>1, Moves
<1>3. CASE children[t] # <<>> /\ status' = [status EXCEPT ![t] = "Waiting"] /\ SwitchOut(t, "waitpid")
           /\ children' = children
  <2>1. /\ status[t] = "Running" /\ picked = 0
        /\ t \notin Q /\ t \notin W /\ ~inRunQueue[t] /\ t < nextPid
        /\ ~Fresh /\ \A u \in Pids : ~StuckOn(u)
        /\ \A u \in Pids : u # t => pc[u] \in ParkedAt
    BY <1>1, OnTheCpu
  <2>2. run' = 0 /\ current' = 0 /\ pc' = [pc EXCEPT ![t] = "waitpid"] /\ picked' = 0
    BY <1>3, <2>1 DEF SwitchOut
  <2>3. Q' = Q /\ W' = W
    BY <1>1 DEF Q, W
  <2>4. \A u \in Pids : /\ pc'[u] = IF u = t THEN "waitpid" ELSE pc[u]
                        /\ status'[u] = IF u = t THEN "Waiting" ELSE status[u]
    BY <1>3, <2>2 DEF TypeOK
  <2>5. Contexts'
    BY <2>1, <2>2, <2>4 DEF Contexts, Pids, ParkedAt
  <2>6. \A u \in Pids : ~StuckOn(u)'
    <3>1. \A u \in Pids : pc'[u] # "spin"
      BY <2>1, <2>4 DEF ParkedAt
    <3> QED BY <3>1 DEF StuckOn
  <2>7. Queues' /\ Family' /\ OnCpu'
    BY <1>1, <2>2 DEF Core, Queues, Family, OnCpu, IsInjective, Pids
  <2>8. ASSUME NEW u \in Pids PROVE Place(u)'
    <3>1. Place(u) /\ ~(t >= nextPid) /\ 0 \notin Pids
      BY <2>1 DEF Core, TypeOK, Pids
    <3> QED BY <1>1, <2>1, <2>2, <2>3, <2>4, <2>6, <3>1 DEF Place
  <2>9. ASSUME NEW u \in Pids PROVE Kept(u)'
    BY <1>1, <1>3, <2>1, <2>2, <2>3, <2>4 DEF Core, Kept, Pids
  <2> QED BY <2>5, <2>7, <2>8, <2>9 DEF Core
<1> QED
  <2>1. children[t] = <<>> => DOMAIN children[t] = {}
    OBVIOUS
  <2> QED BY <1>2, <1>3, <2>1 DEF WaitpidScan

\* fork queues a task that was not born, or only uses up its pid.
LEMMA SysForkKeeps ==
    ASSUME TypeOK, Core, NEW t \in Pids, SysFork(t)
    PROVE  Core'
<1> USE DEF NoTask
<1> DEFINE n == nextPid
<1>1. /\ run = t /\ pc[t] = "user" /\ n \in Pids /\ nextPid' = n + 1
      /\ pc' = [pc EXCEPT ![t] = "sysret"]
      /\ UNCHANGED <<waiters, allTasks, current, run, picked>>
  BY DEF SysFork, Enter, InUser, keyVars, TypeOK, Core, Family, Pids
<1>2. /\ status[t] = "Running" /\ current = t /\ picked = 0
      /\ t \notin Q /\ t \notin W /\ ~inRunQueue[t] /\ t < n
      /\ ~Fresh /\ \A u \in Pids : ~StuckOn(u)
      /\ \A u \in Pids : u # t => pc[u] \in ParkedAt
  BY <1>1, OnTheCpu
<1>3. status[n] = "Unborn" /\ pc[n] = "born" /\ n \notin Q /\ n \notin W /\ ~inRunQueue[n]
  BY <1>1, <1>2 DEF Core, Place, TypeOK, Pids
<1>4. \A u \in Pids : pc'[u] = IF u = t THEN "sysret" ELSE pc[u]
  BY <1>1 DEF TypeOK
<1>5. Contexts'
  BY <1>1, <1>2, <1>4 DEF Contexts, ActiveAt, Pids
<1>6. \A u \in Pids : ~StuckOn(u)'
  <2>1. \A u \in Pids : pc'[u] # "spin"
    BY <1>2, <1>4 DEF ParkedAt
  <2> QED BY <2>1 DEF StuckOn
<1>7. n \in Int /\ n # t /\ \A u \in Pids : u \in Int
  BY <1>1, <1>2 DEF Pids
<1>8. Family'
  BY <1>1, <1>7 DEF Core, Family
<1>9. W' = W
  BY <1>1 DEF W
<1>10. CASE UNCHANGED <<parent, children, pass, queueVars>>
  <2>1. UNCHANGED <<parent, children, readyQueue, readyCount, inRunQueue, status>> /\ Q' = Q
    BY <1>10 DEF queueVars, Q
  <2>2. Queues' /\ OnCpu'
    BY <1>1, <1>4, <2>1 DEF Core, Queues, OnCpu, IsInjective
  <2>3. ASSUME NEW u \in Pids PROVE Place(u)'
    <3>1. Place(u) /\ ~(t >= n + 1) /\ (u >= n + 1 => u >= n)
      BY <1>2, <1>7 DEF Core
    <3> QED BY <1>1, <1>2, <1>4, <1>6, <1>9, <2>1, <3>1 DEF Place
  <2>4. ASSUME NEW u \in Pids PROVE Kept(u)'
    BY <1>1, <1>2, <1>4, <1>9, <2>1 DEF Core, Kept
  <2> QED BY <1>5, <1>8, <2>2, <2>3, <2>4 DEF Core
<1>11. CASE children' = [children EXCEPT ![t] = Append(@, n)] /\ AddTaskArc(n)
  <2>1. /\ readyQueue' = Append(readyQueue, n) /\ readyCount' = readyCount + 1
        /\ status' = [status EXCEPT ![n] = "Ready"]
        /\ inRunQueue' = [inRunQueue EXCEPT ![n] = TRUE]
    BY <1>3, <1>11 DEF AddTaskArc, EnqueueReady, Enqueues
  <2>2. Q' = Q \cup {n} /\ IsInjective(readyQueue') /\ Len(readyQueue') = Len(readyQueue) + 1
    BY <1>1, <1>3, <2>1, AppendFacts DEF Q, TypeOK, Core, Queues
  <2>3. \A u \in Pids : /\ status'[u] = IF u = n THEN "Ready" ELSE status[u]
                        /\ inRunQueue'[u] = IF u = n THEN TRUE ELSE inRunQueue[u]
                        /\ u # t => children'[u] = children[u]
    BY <1>11, <2>1 DEF TypeOK
  <2>4. Queues'
    BY <1>1, <2>1, <2>2 DEF Core, Queues, IsInjective
  <2>5. OnCpu'
    BY Zenon, <1>1, <1>2, <1>4, <1>7, <2>3 DEF Core, OnCpu, Pids
  <2>6. ASSUME NEW u \in Pids PROVE Place(u)'
    <3>1. Place(u) /\ ~(t >= n + 1) /\ (u >= n + 1 => u >= n /\ u # n) /\ 0 \notin Pids
      BY <1>2, <1>7 DEF Core, Pids
    <3>2. CASE u = n
      BY Zenon, <1>1, <1>2, <1>3, <1>4, <1>6, <1>7, <1>9, <2>2, <2>3, <3>1, <3>2 DEF Place
    <3>3. CASE u = t
      <4>1. /\ u \notin Q' /\ u \notin W' /\ ~inRunQueue'[u] /\ picked' # u
            /\ pc'[u] = "sysret" /\ ~(u >= nextPid')
        BY Zenon, <1>1, <1>2, <1>4, <1>7, <1>9, <2>2, <2>3, <3>1, <3>3
      <4> QED BY <4>1 DEF Place
    <3>4. CASE u # n /\ u # t
      <4>1. /\ u \in Q' <=> u \in Q
            /\ inRunQueue'[u] = inRunQueue[u] /\ status'[u] = status[u] /\ pc'[u] = pc[u]
        BY Zenon, <1>4, <2>2, <2>3, <3>4
      <4> QED BY Zenon, <1>1, <1>2, <1>6, <1>9, <3>1, <3>4, <4>1 DEF Place
    <3> QED BY <3>2, <3>3, <3>4
  <2>7. ASSUME NEW u \in Pids PROVE Kept(u)'
    BY Zenon, <1>1, <1>2, <1>4, <1>9, <2>2, <2>3 DEF Core, Kept
  <2> QED BY <1>5, <1>8, <2>4, <2>5, <2>6, <2>7 DEF Core
<1> QED BY <1>10, <1>11 DEF SysFork

\* exit leaves the CPU, or is stuck there with the parent it was to wake.
LEMMA ExitKeeps ==
    ASSUME TypeOK, Core, NEW t \in Pids, Exit(t)
    PROVE  Core'
<1> USE DEF NoTask
<1> DEFINE p == parent[t]
           wakes == p # 0 /\ status[p] = "Waiting"
           relocks == wakes /\ ~inRunQueue[p]
<1>1. /\ run = t /\ pc[t] = "user"
      /\ status' = [u \in Pids |-> IF u = t THEN "Exited"
                                   ELSE IF wakes /\ u = p THEN "Ready" ELSE status[u]]
      /\ inRunQueue' = [u \in Pids |-> inRunQueue[u] \/ (relocks /\ u = p)]
      /\ UNCHANGED <<readyQueue, readyCount, parent, children, allTasks, nextPid, waiters>>
  BY DEF Exit, InUser, keyVars
<1>2. /\ status[t] = "Running" /\ current = t /\ picked = 0
      /\ t \notin Q /\ t \notin W /\ ~inRunQueue[t] /\ t < nextPid
      /\ ~Fresh /\ \A u \in Pids : ~StuckOn(u)
      /\ \A u \in Pids : u # t => pc[u] \in ParkedAt
  BY <1>1, OnTheCpu
<1>3. p \in Pids \cup {0}
  BY DEF TypeOK
<1>4. wakes => relocks /\ p \in Pids /\ p # t /\ p \notin Q /\ ~(p >= nextPid) /\ pc[p] # "exited"
  BY Zenon, <1>2, <1>3 DEF Core, Place
<1>5. Q' = Q /\ W' = W
  BY <1>1 DEF Q, W
<1>6. CASE relocks
  <2>1. pc' = [pc EXCEPT ![t] = "spin"] /\ UNCHANGED <<current, run, picked>>
    BY <1>6 DEF Exit
  <2>0. PICK q \in Pids : q = p
    BY <1>4, <1>6
  <2>2. q \in Pids /\ q # t /\ q \notin Q /\ ~(q >= nextPid) /\ pc[q] # "exited"
    BY <1>4, <1>6, <2>0
  <2>3. \A u \in Pids : /\ pc'[u] = IF u = t THEN "spin" ELSE pc[u]
                        /\ status'[u] = IF u = t THEN "Exited" ELSE IF u = q THEN "Ready" ELSE status[u]
                        /\ inRunQueue'[u] = (inRunQueue[u] \/ u = q)
    BY <1>1, <1>6, <2>0, <2>1 DEF TypeOK
  <2>4. StuckOn(q)'
    BY <1>1, <2>0, <2>3 DEF StuckOn
  <2> HIDE DEF p, wakes, relocks
  <2>5. Contexts' /\ Queues' /\ Family' /\ OnCpu'
    BY <1>1, <1>2, <2>1, <2>3 DEF Core, Contexts, Queues, Family, OnCpu, IsInjective, ActiveAt, Pids
  <2>6. ASSUME NEW u \in Pids PROVE Place(u)'
    <3>1. Place(u) /\ Place(q) /\ ~(t >= nextPid) /\ 0 \notin Pids
      BY <1>2, <2>2 DEF Core, TypeOK, Pids
    <3>2. CASE u = t
      <4>1. /\ u \notin Q' /\ u \notin W' /\ ~inRunQueue'[u] /\ picked' # u
            /\ pc'[u] = "spin" /\ ~(u >= nextPid')
        BY Zenon, <1>1, <1>2, <1>5, <2>1, <2>2, <2>3, <3>1, <3>2
      <4> QED BY <4>1 DEF Place
    <3>3. CASE u = q
      BY Zenon, <1>1, <1>2, <1>5, <2>1, <2>2, <2>3, <2>4, <3>1, <3>3 DEF Place
    <3>4. CASE u # t /\ u # q
      BY Zenon, <1>1, <1>2, <1>5, <2>1, <2>2, <2>3, <3>1, <3>4 DEF Place
    <3> QED BY <3>2, <3>3, <3>4
  <2>7. ASSUME NEW u \in Pids PROVE Kept(u)'
    <3>1. Kept(u) /\ ~StuckOn(u)
      BY <1>2 DEF Core
    <3>2. CASE u = q
      BY <2>4, <3>2 DEF Kept
    <3>3. CASE u # q
      BY Zenon, <1>1, <1>2, <1>5, <2>1, <2>3, <3>1, <3>3 DEF Kept
    <3> QED BY <3>2, <3>3
  <2> QED BY <2>5, <2>6, <2>7 DEF Core
<1>7. CASE ~relocks
  <2>1. run' = 0 /\ current' = 0 /\ pc' = [pc EXCEPT ![t] = "exited"] /\ picked' = 0
    BY <1>2, <1>7 DEF Exit, SwitchOut
  <2>2. ~wakes
    BY <1>4, <1>7
  <2>3. \A u \in Pids : /\ pc'[u] = IF u = t THEN "exited" ELSE pc[u]
                        /\ status'[u] = IF u = t THEN "Exited" ELSE status[u]
                        /\ inRunQueue'[u] = inRunQueue[u]
    BY <1>1, <1>7, <2>1, <2>2 DEF TypeOK
  <2> HIDE DEF p, wakes, relocks
  <2>4. \A u \in Pids : ~StuckOn(u)'
    <3>1. \A u \in Pids : pc'[u] # "spin"
      BY Zenon, <1>2, <2>3 DEF ParkedAt
    <3> QED BY <3>1 DEF StuckOn
  <2>5. Contexts' /\ Queues' /\ Family' /\ OnCpu'
    BY <1>1, <1>2, <2>1, <2>3 DEF Core, Contexts, Queues, Family, OnCpu, IsInjective, ParkedAt, Pids
  <2>6. ASSUME NEW u \in Pids PROVE Place(u)'
    <3>1. Place(u) /\ ~(t >= nextPid) /\ 0 \notin Pids
      BY <1>2 DEF Core, TypeOK, Pids
    <3> QED BY <1>1, <1>2, <1>5, <2>1, <2>3, <2>4, <3>1 DEF Place
  <2>7. ASSUME NEW u \in Pids PROVE Kept(u)'
    BY Zenon, <1>1, <1>2, <1>5, <2>1, <2>3 DEF Core, Kept, Pids
  <2> QED BY Zenon, <2>5, <2>6, <2>7 DEF Core
<1> QED BY <1>6, <1>7

\* The queues after a kill: the waiters and the victim's parent are queued, and
\* the victim is not.
LEMMA KillQueues ==
    ASSUME TypeOK, Core, NEW t \in Pids, run = t, pc[t] = "user",
           NEW v \in Pids \ {t}, NEW st, NEW fl,
           st = [status EXCEPT ![v] = "Exited"], fl = [inRunQueue EXCEPT ![v] = FALSE],
           KillOther(v, st, fl)
    PROVE  \E N \in SUBSET Pids :
              /\ W \ {v} \subseteq N /\ v \notin N /\ t \notin N /\ N \cap Q = {}
              /\ \A u \in N : status[u] = "Waiting" /\ ~inRunQueue[u]
              /\ Q' = (Q \cup N) \ {v} /\ W' = {}
              /\ readyQueue' \in Seq(Pids) /\ IsInjective(readyQueue')
              /\ readyCount' = Len(readyQueue') /\ waiters' = <<>>
              /\ \A u \in Pids :
                    /\ status'[u] = IF u = v THEN "Exited" ELSE IF u \in N THEN "Ready" ELSE status[u]
                    /\ inRunQueue'[u] = IF u = v THEN FALSE ELSE inRunQueue[u] \/ u \in N
              /\ DOMAIN status' = Pids /\ DOMAIN inRunQueue' = Pids
              /\ needResched' \in BOOLEAN
<1> USE DEF NoTask
<1> DEFINE E == {u \in Pids : Enqueues(u, st, fl)}
<1>1. PICK woken \in Retain(waiters, E) :
        LET p == parent[v]
            wakesParent == /\ p # 0 /\ p \notin Range(woken)
                           /\ st[p] = "Waiting" /\ Enqueues(p, st, fl)
            new == IF wakesParent THEN Append(woken, p) ELSE woken
        IN /\ status' = [u \in Pids |-> IF u \in Range(new) THEN "Ready" ELSE st[u]]
           /\ inRunQueue' = [u \in Pids |-> fl[u] \/ u \in Range(new)]
           /\ readyQueue' \in Retain(readyQueue \o new, Pids \ {v})
           /\ readyCount' = Len(readyQueue')
           /\ needResched' = (needResched \/ new # <<>>)
           /\ waiters' = <<>>
  BY Zenon DEF KillOther
<1> DEFINE p == parent[v]
           wakesParent == p # 0 /\ p \notin Range(woken) /\ st[p] = "Waiting" /\ Enqueues(p, st, fl)
           new == IF wakesParent THEN Append(woken, p) ELSE woken
           N == Range(new)
<1>2. /\ status' = [u \in Pids |-> IF u \in N THEN "Ready" ELSE st[u]]
      /\ inRunQueue' = [u \in Pids |-> fl[u] \/ u \in N]
      /\ readyQueue' \in Retain(readyQueue \o new, Pids \ {v})
      /\ readyCount' = Len(readyQueue') /\ waiters' = <<>>
      /\ needResched' = (needResched \/ new # <<>>)
  BY <1>1
<1>3. /\ status[t] = "Running" /\ t \notin Q /\ t \notin W /\ \A u \in Pids : ~StuckOn(u)
  BY OnTheCpu
<1>4. \A u \in Pids : /\ st[u] = IF u = v THEN "Exited" ELSE status[u]
                      /\ fl[u] = IF u = v THEN FALSE ELSE inRunQueue[u]
  BY DEF TypeOK
<1>5. waiters \in Seq(Pids) /\ readyQueue \in Seq(Pids) /\ IsInjective(waiters)
      /\ IsInjective(readyQueue) /\ E \in SUBSET Pids
  BY DEF TypeOK, Core, Queues
<1>6. woken \in Seq(Pids) /\ Range(woken) = W \cap E /\ IsInjective(woken)
  <2> HIDE DEF E
  <2> QED BY <1>5, RetainFacts DEF W
<1>7. new \in Seq(Pids) /\ N = Range(woken) \cup (IF wakesParent THEN {p} ELSE {})
      /\ IsInjective(new)
  <2>1. CASE wakesParent
    <3>1. p \in Pids
      BY <2>1 DEF TypeOK
    <3> HIDE DEF p
    <3> QED BY Zenon, <1>6, <2>1, <3>1, AppendFacts
  <2>2. CASE ~wakesParent
    BY Zenon, <1>6, <2>2
  <2> QED BY Zenon, <2>1, <2>2
<1>8. ASSUME NEW u \in W \ {v} PROVE u \in E /\ status[u] = "Waiting" /\ ~inRunQueue[u] /\ u \in Pids
  <2>1. u \in Pids
    BY <1>5 DEF W, Range
  <2>2. status[u] = "Waiting" /\ ~inRunQueue[u]
    BY <1>3, <2>1 DEF Core, Place
  <2> QED BY <1>4, <2>1, <2>2 DEF Enqueues
<1>9. v \notin E
  BY Zenon, <1>4 DEF Enqueues
<1>10. W \ {v} \subseteq N /\ v \notin N
  <2>0. st[v] # "Waiting"
    BY DEF TypeOK
  <2>1. wakesParent => p # v
    <3>1. ASSUME wakesParent, p = v PROVE FALSE
      <4>1. st[p] = "Waiting"
        BY <3>1
      <4> HIDE DEF p
      <4>2. st[v] = "Waiting"
        BY <3>1, <4>1
      <4> QED BY <2>0, <4>2
    <3> QED BY <3>1
  <2> QED BY Zenon, <1>6, <1>7, <1>8, <1>9, <2>1
<1>11. ASSUME NEW u \in N PROVE u \in Pids /\ status[u] = "Waiting" /\ ~inRunQueue[u]
  <2>1. CASE u \in Range(woken)
    BY <1>6, <1>8, <1>9, <2>1
  <2>2. CASE wakesParent /\ u = p
    <3>1. u \in Pids
      BY <2>2 DEF TypeOK
    <3> QED BY Zenon, <1>4, <2>2, <3>1 DEF Enqueues
  <2> QED BY Zenon, <1>7, <2>1, <2>2
<1> HIDE DEF N, new, wakesParent, p, E
<1>12. t \notin N
  BY <1>3, <1>11
<1>13. N \cap Q = {}
  BY <1>11 DEF Core, Place
<1>14. readyQueue \o new \in Seq(Pids) /\ Range(readyQueue \o new) = Q \cup N
       /\ IsInjective(readyQueue \o new)
  BY <1>5, <1>7, <1>13, ConcatFacts DEF Q, N
<1>15. /\ readyQueue' \in Seq(Pids) /\ IsInjective(readyQueue')
       /\ Range(readyQueue') = (Q \cup N) \cap (Pids \ {v})
  BY Zenon, <1>2, <1>14, RetainFacts
<1>16. Q' = (Q \cup N) \ {v} /\ W' = {}
  <2>1. Q \subseteq Pids /\ N \subseteq Pids
    BY <1>5, <1>11 DEF Q, Range
  <2>2. Q' = Range(readyQueue') /\ W' = Range(<<>>)
    BY <1>2 DEF Q, W, Range
  <2>3. Range(<<>>) = {}
    BY DEF Range
  <2> QED BY <1>15, <2>1, <2>2, <2>3
<1>17. \A u \in Pids :
            /\ status'[u] = IF u = v THEN "Exited" ELSE IF u \in N THEN "Ready" ELSE status[u]
            /\ inRunQueue'[u] = IF u = v THEN FALSE ELSE inRunQueue[u] \/ u \in N
  BY Zenon, <1>2, <1>4, <1>10
<1>18. N \in SUBSET Pids
  BY <1>11
<1>19. needResched' \in BOOLEAN
  BY <1>2
<1> QED BY Zenon, <1>19, <1>2, <1>10, <1>11, <1>12, <1>13, <1>15, <1>16, <1>17, <1>18

\* kill_task: the victim leaves the queue, the keyboard's waiters and the
\* victim's parent enter it.
LEMMA SysKillKeeps ==
    ASSUME TypeOK, Core, NEW t \in Pids, SysKill(t)
    PROVE  Core'
<1> USE DEF NoTask
<1>1. /\ run = t /\ pc[t] = "user" /\ pc' = [pc EXCEPT ![t] = "sysret"]
      /\ UNCHANGED <<parent, children, allTasks, nextPid, current, run, picked>>
  BY DEF SysKill, Enter, InUser
<1>2. PICK v \in Pids \ {t} :
        \/ UNCHANGED <<queueVars, waiters>>
        \/ v \in allTasks /\ KillOther(v, [status EXCEPT ![v] = "Exited"], [inRunQueue EXCEPT ![v] = FALSE])
  BY Zenon DEF SysKill
<1>3. CASE UNCHANGED <<queueVars, waiters>>
  <2>1. "sysret" \in ActiveAt \ {"spin", "block"}
    BY DEF ActiveAt
  <2> QED BY Zenon, <1>1, <1>3, <2>1, Moves DEF queueVars
<1>4. CASE v \in allTasks /\ KillOther(v, [status EXCEPT ![v] = "Exited"], [inRunQueue EXCEPT ![v] = FALSE])
  <2>1. PICK N \in SUBSET Pids :
              /\ W \ {v} \subseteq N /\ v \notin N /\ t \notin N /\ N \cap Q = {}
              /\ \A u \in N : status[u] = "Waiting" /\ ~inRunQueue[u]
              /\ Q' = (Q \cup N) \ {v} /\ W' = {}
              /\ readyQueue' \in Seq(Pids) /\ IsInjective(readyQueue')
              /\ readyCount' = Len(readyQueue') /\ waiters' = <<>>
              /\ \A u \in Pids :
                    /\ status'[u] = IF u = v THEN "Exited" ELSE IF u \in N THEN "Ready" ELSE status[u]
                    /\ inRunQueue'[u] = IF u = v THEN FALSE ELSE inRunQueue[u] \/ u \in N
    BY Zenon, <1>1, <1>4, KillQueues
  <2>2. /\ status[t] = "Running" /\ current = t /\ picked = 0
        /\ t \notin Q /\ t \notin W /\ ~inRunQueue[t] /\ t < nextPid
        /\ ~Fresh /\ \A u \in Pids : ~StuckOn(u)
        /\ \A u \in Pids : u # t => pc[u] \in ParkedAt
    BY <1>1, OnTheCpu
  <2>3. \A u \in Pids : pc'[u] = IF u = t THEN "sysret" ELSE pc[u]
    BY <1>1 DEF TypeOK
  <2>4. \A u \in Pids : ~StuckOn(u)'
    <3>1. \A u \in Pids : pc'[u] # "spin"
      BY <2>2, <2>3 DEF ParkedAt
    <3> QED BY <3>1 DEF StuckOn
  <2>5. ~(v >= nextPid) /\ ~(t >= nextPid) /\ 0 \notin Pids
    BY <1>4, <2>2 DEF Core, Family, InitProc, TypeOK, Pids
  <2>6. Contexts' /\ Family'
    BY <1>1, <2>2, <2>3 DEF Core, Contexts, Family, ActiveAt
  <2>7. Queues'
    <3>0. waiters' = <<>>
      BY Zenon, <2>1
    <3>1. IsInjective(waiters')
      BY <3>0 DEF IsInjective
    <3> QED BY Zenon, <2>1, <3>1 DEF Queues, IsInjective
  <2>8. OnCpu'
    BY Zenon, <1>1, <2>1, <2>2, <2>5 DEF OnCpu
  <2>9. ASSUME NEW u \in Pids PROVE Place(u)'
    <3>1. Place(u)
      BY DEF Core
    <3>2. CASE u = t
      <4>1. /\ u \notin Q' /\ u \notin W' /\ ~inRunQueue'[u] /\ picked' # u
            /\ pc'[u] = "sysret" /\ ~(u >= nextPid')
        BY Zenon, <1>1, <2>1, <2>2, <2>3, <2>5, <3>2
      <4> QED BY <4>1 DEF Place
    <3>3. CASE u = v
      <4>1. /\ u \notin Q' /\ u \notin W' /\ ~inRunQueue'[u] /\ picked' # u
            /\ pc'[u] # "block" /\ status'[u] = "Exited" /\ ~(u >= nextPid')
        BY Zenon, <1>1, <2>1, <2>2, <2>3, <2>5, <3>3 DEF ParkedAt
      <4> QED BY <4>1 DEF Place
    <3>4. CASE u \in N
      <4>1. ~(u >= nextPid) /\ pc[u] # "exited" /\ u # t /\ u # v
        BY <2>1, <3>1, <3>4 DEF Place
      <4>2. /\ status'[u] = "Ready" /\ inRunQueue'[u] /\ u \notin W' /\ picked' # u /\ run' # u
            /\ pc'[u] \notin {"exited", "block"} /\ u \in Q' /\ ~(u >= nextPid')
        BY Zenon, <1>1, <2>1, <2>2, <2>3, <2>5, <3>4, <4>1 DEF ParkedAt
      <4> QED BY <4>2 DEF Place
    <3>5. CASE u # t /\ u # v /\ u \notin N
      <4>1. /\ u \notin W' /\ picked' # u /\ run' # u
            /\ pc'[u] = pc[u] /\ status'[u] = status[u] /\ (inRunQueue'[u] <=> inRunQueue[u])
            /\ pc[u] # "block" /\ nextPid' = nextPid
        BY Zenon, <1>1, <2>1, <2>2, <2>3, <2>5, <3>5 DEF ParkedAt
      <4>2. (u \in Q' <=> u \in Q) /\ u \notin W
        BY Zenon, <2>1, <3>5
      <4> QED BY ZenonT(60), <1>1, <2>1, <2>2, <2>3, <2>5, <3>1, <3>5, <4>1, <4>2 DEF Place, ParkedAt
    <3> QED BY <3>2, <3>3, <3>4, <3>5
  <2>10. ASSUME NEW u \in Pids PROVE Kept(u)'
    <3>1. Kept(u) /\ ~StuckOn(u)
      BY <2>2 DEF Core
    <3>2. CASE u \in N \/ u = v \/ u = t
      BY Zenon, <1>1, <2>1, <3>2 DEF Kept
    <3>3. CASE ~(u \in N \/ u = v \/ u = t)
      BY Zenon, <1>1, <2>1, <2>2, <2>3, <3>1, <3>3 DEF Kept
    <3> QED BY <3>2, <3>3
  <2> QED BY <2>6, <2>7, <2>8, <2>9, <2>10 DEF Core
<1> QED BY <1>2, <1>3, <1>4
-----------------------------------------------------------------------------
(***************************************************************************)
(* Types                                                                   *)
(***************************************************************************)
\* enqueue_ready keeps the types of the queue and of the flags.
LEMMA EnqueueType ==
    ASSUME TypeOK, NEW t \in Pids, NEW r \in BOOLEAN, EnqueueReady(t, r)
    PROVE  /\ readyQueue' \in Seq(Pids) /\ readyCount' \in Int /\ needResched' \in BOOLEAN
           /\ status' \in [Pids -> Statuses] /\ inRunQueue' \in [Pids -> BOOLEAN]
<1>1. CASE Enqueues(t, status, inRunQueue)
  <2>1. /\ readyQueue' = Append(readyQueue, t) /\ readyCount' = readyCount + 1
        /\ status' = [status EXCEPT ![t] = "Ready"]
        /\ inRunQueue' = [inRunQueue EXCEPT ![t] = TRUE] /\ needResched' = r
    BY <1>1 DEF EnqueueReady
  <2>2. readyQueue \in Seq(Pids) /\ readyCount \in Int
    BY DEF TypeOK
  <2>3. readyQueue' \in Seq(Pids) /\ readyCount' \in Int
    BY <2>1, <2>2, AppendFacts
  <2>4. status \in [Pids -> Statuses] /\ inRunQueue \in [Pids -> BOOLEAN] /\ "Ready" \in Statuses
    BY DEF TypeOK, Statuses
  <2> QED BY <2>1, <2>3, <2>4
<1>2. CASE ~Enqueues(t, status, inRunQueue)
  BY Zenon, <1>2 DEF TypeOK, EnqueueReady
<1> QED BY <1>1, <1>2

\* The count of system calls.
LEMMA EnterType ==
    ASSUME TypeOK, NEW t \in Pids, Enter(t)
    PROVE  calls' \in Nat
<1>1. calls \in Nat /\ calls' = calls + 1
  BY DEF TypeOK, Enter
<1> QED BY <1>1

\* The system calls that switch away, and the return from one.
LEMMA SuspendType ==
    ASSUME TypeOK, NEW t \in Pids, SysRet(t) \/ SysYield(t) \/ ReadEmpty(t)
    PROVE  TypeOK'
<1> USE DEF NoTask
<1>1. ASSUME NEW x \in ParkedAt, NEW r \in BOOLEAN, Suspend(t, x, r)
      PROVE  /\ readyQueue' \in Seq(Pids) /\ readyCount' \in Int /\ needResched' \in BOOLEAN
             /\ status' \in [Pids -> Statuses] /\ inRunQueue' \in [Pids -> BOOLEAN]
             /\ current' \in Pids \cup {0} /\ run' \in Pids \cup {0} /\ picked' \in Pids \cup {0}
             /\ irqOn' \in BOOLEAN /\ pc' \in [Pids -> ParkedAt \cup ActiveAt]
  <2>1. EnqueueReady(t, r) /\ SwitchOut(t, x)
    BY <1>1 DEF Suspend
  <2>2. /\ current' \in Pids \cup {0} /\ run' \in Pids \cup {0} /\ picked' \in Pids \cup {0}
        /\ irqOn' \in BOOLEAN /\ pc' \in [Pids -> ParkedAt \cup ActiveAt]
    BY <2>1 DEF SwitchOut, TypeOK
  <2> QED BY <2>1, <2>2, EnqueueType
<1>x. "preempted" \in ParkedAt /\ "yielded" \in ParkedAt /\ "polled" \in ParkedAt
  BY DEF ParkedAt
<1>2. CASE SysRet(t)
  <2>1. CASE Suspend(t, "preempted", FALSE)
    BY Zenon, <1>1, <1>2, <1>x, <2>1 DEF SysRet, TypeOK, familyVars, keyVars, callVars
  <2>2. CASE /\ pc' = [pc EXCEPT ![t] = "user"] /\ irqOn' = TRUE
             /\ UNCHANGED <<queueVars, current, run, picked>>
    BY Zenon, <1>2, <2>2 DEF SysRet, TypeOK, ActiveAt, queueVars, familyVars, keyVars, callVars
  <2> QED BY Zenon, <1>2, <2>1, <2>2 DEF SysRet
<1>3. CASE SysYield(t)
  <2>1. Suspend(t, "yielded", needResched) /\ needResched \in BOOLEAN
    BY <1>3 DEF SysYield, TypeOK
  <2>2. calls' \in Nat
    BY <1>3, EnterType DEF SysYield
  <2> QED BY Zenon, <1>1, <1>3, <1>x, <2>1, <2>2 DEF SysYield, TypeOK, familyVars, keyVars
<1>4. CASE ReadEmpty(t)
  <2>0. UNCHANGED <<familyVars, keyVars, callVars, pass>>
    BY <1>4 DEF ReadEmpty
  <2>1. CASE Suspend(t, "polled", needResched)
    <3>1. needResched \in BOOLEAN
      BY DEF TypeOK
    <3> QED BY Zenon, <1>1, <1>x, <2>0, <2>1, <3>1 DEF TypeOK, familyVars, keyVars, callVars
  <2>2. CASE /\ \E x \in {"sysret", "waitWhile"} : pc' = [pc EXCEPT ![t] = x]
             /\ UNCHANGED <<queueVars, cpuVars>>
    BY Zenon, <2>0, <2>2 DEF TypeOK, ActiveAt, queueVars, cpuVars, familyVars, keyVars, callVars
  <2> QED BY <1>4, <2>1, <2>2 DEF ReadEmpty
<1> QED BY <1>2, <1>3, <1>4

\* The steps of a task that change neither the run queue nor a wait queue.
LEMMA CallType ==
    ASSUME TypeOK, NEW t \in Pids,
           SysWaitpid(t) \/ SysRead(t) \/ ReadLoop(t) \/ PollHardware(t) \/ ReadPop(t) \/ Block(t)
    PROVE  TypeOK'
<1> USE DEF NoTask, ActiveAt, ParkedAt
<1>1. CASE SysWaitpid(t)
  <2>1. calls' \in Nat
    BY <1>1, EnterType DEF SysWaitpid
  <2>2. waitFor' \in [Pids -> Pids \cup {AnyChild}]
    <3>1. PICK x \in Pids \cup {AnyChild} : waitFor' = [waitFor EXCEPT ![t] = x]
      BY Zenon, <1>1 DEF SysWaitpid
    <3> QED BY <3>1 DEF TypeOK
  <2> QED BY Zenon, <1>1, <2>1, <2>2 DEF SysWaitpid, TypeOK, queueVars, familyVars, keyVars
<1>2. CASE SysRead(t)
  <2>1. calls' \in Nat
    BY <1>2, EnterType DEF SysRead
  <2> QED BY Zenon, <1>2, <2>1 DEF SysRead, TypeOK, queueVars, familyVars, keyVars
<1>3. CASE ReadLoop(t)
  BY Zenon, <1>3 DEF ReadLoop, TypeOK, queueVars, familyVars, cpuVars, keyVars, callVars
<1>4. CASE PollHardware(t)
  <2>1. ring' \in Nat /\ keys' \in Nat
    <3>1. ring \in Nat /\ keys \in Nat
      BY DEF TypeOK
    <3> QED BY <1>4, <3>1 DEF PollHardware, Pushed
  <2> QED BY Zenon, <1>4, <2>1 DEF PollHardware, TypeOK, queueVars, familyVars, cpuVars, callVars
<1>5. CASE ReadPop(t)
  <2>1. ring' \in Nat /\ got' \in [Pids -> Nat] /\ pc' \in [Pids -> ParkedAt \cup ActiveAt]
    <3>1. ring \in Nat /\ got \in [Pids -> Nat] /\ pc \in [Pids -> ParkedAt \cup ActiveAt]
      BY ZenonT(60) DEF TypeOK
    <3>2. ring' \in {ring - 1, 0} /\ ring > 0
      BY <1>5 DEF ReadPop, HasScancode
    <3>3. got' = got \/ got' = [got EXCEPT ![t] = got[t] + 1]
      BY <1>5 DEF ReadPop
    <3>4. got[t] + 1 \in Nat
      BY <3>1
    <3>5. pc' = pc \/ pc' = [pc EXCEPT ![t] = "sysret"]
      BY <1>5 DEF ReadPop
    <3>6. ring' \in Nat
      BY <3>1, <3>2
    <3>7. got' \in [Pids -> Nat]
      BY <3>1, <3>3, <3>4
    <3> QED BY <3>1, <3>5, <3>6, <3>7
  <2> QED BY Zenon, <1>5, <2>1 DEF ReadPop, TypeOK, queueVars, familyVars, cpuVars
<1>6. CASE Block(t)
  BY Zenon, <1>6 DEF Block, SwitchOut, TypeOK, queueVars, familyVars, keyVars, callVars
<1> QED BY <1>1, <1>2, <1>3, <1>4, <1>5, <1>6

\* fork: the child's pid is one the process table has room for.
LEMMA SysForkType ==
    ASSUME TypeOK, Core, NEW t \in Pids, SysFork(t)
    PROVE  TypeOK'
<1> USE DEF NoTask
<1>1. calls' \in Nat /\ nextPid' \in Nat /\ irqOn' \in BOOLEAN
  <2>1. nextPid \in Nat /\ nextPid' = nextPid + 1 /\ irqOn' = FALSE
    BY DEF SysFork, TypeOK
  <2>2. Enter(t)
    BY DEF SysFork
  <2>3. calls' \in Nat
    BY <2>2, EnterType
  <2>4. nextPid' \in Nat
    BY <2>1
  <2>5. irqOn' \in BOOLEAN
    BY Zenon, <2>1
  <2> QED BY <2>3, <2>4, <2>5
<1>2. nextPid \in Pids
  <2>1. nextPid \in Nat /\ nextPid >= 2 /\ nextPid <= MaxPid
    BY DEF SysFork, TypeOK, Core, Family
  <2> QED BY <2>1, SchedulerAssumption DEF Pids
<1>3. pc' \in [Pids -> ParkedAt \cup ActiveAt]
  BY DEF SysFork, TypeOK, ActiveAt
<1>4. UNCHANGED <<allTasks, exitCode, current, run, picked, waiters, ring, irqActive, keys, waitFor, got>>
  BY DEF SysFork, keyVars
<1>5. CASE /\ parent' = [parent EXCEPT ![nextPid] = t]
           /\ children' = [children EXCEPT ![t] = Append(children[t], nextPid)]
           /\ pass' = [pass EXCEPT ![nextPid] = pass[t]]
           /\ AddTaskArc(nextPid)
  <2>1. children[t] \in Seq(Pids) /\ children \in [Pids -> Seq(Pids)]
    BY DEF TypeOK
  <2>2. Append(children[t], nextPid) \in Seq(Pids)
    BY <1>2, <2>1, AppendFacts
  <2>3. children' \in [Pids -> Seq(Pids)]
    BY <1>5, <2>1, <2>2
  <2>4. parent' \in [Pids -> Pids \cup {0}] /\ pass' \in [Pids -> 0 .. MaxLag]
    BY Zenon, <1>2, <1>5 DEF TypeOK
  <2>5. /\ readyQueue' \in Seq(Pids) /\ readyCount' \in Int /\ needResched' \in BOOLEAN
        /\ status' \in [Pids -> Statuses] /\ inRunQueue' \in [Pids -> BOOLEAN]
    <3>1. (needResched \/ Enqueues(nextPid, status, inRunQueue)) \in BOOLEAN
      BY DEF TypeOK
    <3> QED BY Zenon, <1>2, <1>5, <3>1, EnqueueType DEF AddTaskArc
  <2> QED BY Zenon, <1>1, <1>3, <1>4, <2>3, <2>4, <2>5 DEF TypeOK
<1>6. CASE UNCHANGED <<parent, children, pass, queueVars>>
  BY Zenon, <1>1, <1>3, <1>4, <1>6 DEF TypeOK, queueVars
<1> QED BY <1>5, <1>6 DEF SysFork

\* exit: the code is one of the given ones.
LEMMA ExitType ==
    ASSUME TypeOK, NEW t \in Pids, Exit(t)
    PROVE  TypeOK'
<1> USE DEF NoTask
<1>1. exitCode' \in [Pids -> Int]
  <2>1. PICK c \in ExitCodes : exitCode' = [exitCode EXCEPT ![t] = c]
    BY Zenon DEF Exit
  <2>2. c \in Int
    BY SchedulerAssumption
  <2> QED BY <2>1, <2>2 DEF TypeOK
<1>2. status' \in [Pids -> Statuses]
  BY DEF Exit, TypeOK, Statuses
<1>3. inRunQueue' \in [Pids -> BOOLEAN]
  BY DEF Exit, TypeOK
<1>4. /\ current' \in Pids \cup {0} /\ run' \in Pids \cup {0} /\ picked' \in Pids \cup {0}
      /\ irqOn' \in BOOLEAN /\ pc' \in [Pids -> ParkedAt \cup ActiveAt]
  <2>1. \/ pc' = [pc EXCEPT ![t] = "spin"] /\ irqOn' = FALSE /\ UNCHANGED <<current, run, picked>>
        \/ SwitchOut(t, "exited")
    BY DEF Exit
  <2> QED BY Zenon, <2>1 DEF SwitchOut, TypeOK, ActiveAt, ParkedAt
<1> QED BY Zenon, <1>1, <1>2, <1>3, <1>4 DEF Exit, TypeOK, keyVars, callVars

\* kill: what the queues become is in KillQueues.
LEMMA SysKillType ==
    ASSUME TypeOK, Core, NEW t \in Pids, SysKill(t)
    PROVE  TypeOK'
<1> USE DEF NoTask
<1>1. calls' \in Nat /\ irqOn' \in BOOLEAN /\ pc' \in [Pids -> ParkedAt \cup ActiveAt]
  BY Zenon, EnterType DEF SysKill, TypeOK, ActiveAt
<1>2. PICK v \in Pids \ {t}, c \in ExitCodes :
        \/ UNCHANGED <<queueVars, exitCode, waiters>>
        \/ /\ exitCode' = [exitCode EXCEPT ![v] = c]
           /\ KillOther(v, [status EXCEPT ![v] = "Exited"], [inRunQueue EXCEPT ![v] = FALSE])
  BY Zenon DEF SysKill
<1>3. UNCHANGED <<pass, parent, children, allTasks, nextPid, current, run, picked,
                  ring, irqActive, keys, waitFor, got>>
  BY DEF SysKill
<1>4. CASE UNCHANGED <<queueVars, exitCode, waiters>>
  BY Zenon, <1>1, <1>3, <1>4 DEF TypeOK, queueVars
<1>5. CASE /\ exitCode' = [exitCode EXCEPT ![v] = c]
           /\ KillOther(v, [status EXCEPT ![v] = "Exited"], [inRunQueue EXCEPT ![v] = FALSE])
  <2>1. exitCode' \in [Pids -> Int]
    BY <1>5, SchedulerAssumption DEF TypeOK
  <2>2. run = t /\ pc[t] = "user"
    BY DEF SysKill, Enter, InUser
  <2>3. /\ readyQueue' \in Seq(Pids) /\ readyCount' = Len(readyQueue') /\ waiters' = <<>>
        /\ needResched' \in BOOLEAN
    BY Zenon, <1>5, <2>2, KillQueues
  <2>4. status' \in [Pids -> Statuses] /\ inRunQueue' \in [Pids -> BOOLEAN]
    BY Zenon, <1>5 DEF KillOther, TypeOK, Statuses
  <2>5. readyCount' \in Int /\ waiters' \in Seq(Pids)
    BY <2>3
  <2> QED BY Zenon, <1>1, <1>3, <2>1, <2>3, <2>4, <2>5 DEF TypeOK
<1> QED BY <1>2, <1>4, <1>5

\* The rounds of waitpid and of wait_while.
LEMMA WaitType ==
    ASSUME TypeOK, NEW t \in Pids, WaitpidScan(t) \/ WaitWhile(t)
    PROVE  TypeOK'
<1> USE DEF NoTask, ActiveAt, ParkedAt
<1>1. CASE WaitpidScan(t)
  <2>1. UNCHANGED <<readyQueue, readyCount, inRunQueue, needResched, parent, allTasks,
                    nextPid, exitCode, waiters, ring, irqActive, keys, waitFor, got, calls, pass>>
    BY Zenon, <1>1 DEF WaitpidScan, keyVars, callVars
  <2>2. children[t] \in Seq(Pids) /\ children \in [Pids -> Seq(Pids)]
    BY DEF TypeOK
  <2>3. CASE /\ \E i \in DOMAIN children[t] : children' = [children EXCEPT ![t] = RemoveAt(children[t], i)]
             /\ pc' = [pc EXCEPT ![t] = "sysret"] /\ UNCHANGED <<status, cpuVars>>
    <3>1. PICK i \in DOMAIN children[t] : children' = [children EXCEPT ![t] = RemoveAt(children[t], i)]
      BY Zenon, <2>3
    <3>2. i \in 1 .. Len(children[t])
      BY <2>2
    <3>3. RemoveAt(children[t], i) \in Seq(Pids)
      BY <2>2, <3>2, RemoveFacts DEF RemoveAt
    <3>4. children' \in [Pids -> Seq(Pids)]
      BY <2>2, <3>1, <3>3
    <3> QED BY Zenon, <2>1, <2>3, <3>4 DEF TypeOK, cpuVars
  <2>4. CASE pc' = [pc EXCEPT ![t] = "sysret"] /\ UNCHANGED <<children, status, cpuVars>>
    BY Zenon, <2>1, <2>4 DEF TypeOK, cpuVars
  <2>5. CASE /\ status' = [status EXCEPT ![t] = "Waiting"] /\ SwitchOut(t, "waitpid")
             /\ UNCHANGED children
    BY <2>1, <2>5 DEF TypeOK, SwitchOut, Statuses
  <2> QED BY Zenon, <1>1, <2>3, <2>4, <2>5 DEF WaitpidScan
<1>2. CASE WaitWhile(t)
  <2>1. /\ status' \in [Pids -> Statuses] /\ inRunQueue' \in [Pids -> BOOLEAN]
        /\ pc' \in [Pids -> ParkedAt \cup ActiveAt]
    BY Zenon, <1>2 DEF WaitWhile, TypeOK, Statuses
  <2>2. waiters' \in Seq(Pids)
    <3>1. waiters \in Seq(Pids)
      BY DEF TypeOK
    <3> QED BY <1>2, <3>1, AppendFacts DEF WaitWhile
  <2> QED BY Zenon, <1>2, <2>1, <2>2 DEF WaitWhile, TypeOK, familyVars, cpuVars, callVars
<1> QED BY <1>1, <1>2

\* The keyboard's interrupt.
LEMMA KeyIrqType ==
    ASSUME TypeOK, Core, KeyIrq
    PROVE  TypeOK'
<1>1. ring' \in Nat /\ keys' \in Nat /\ irqActive' \in BOOLEAN
  <2>1. ring \in Nat /\ keys \in Nat
    BY DEF TypeOK
  <2> QED BY <2>1 DEF KeyIrq, Pushed
<1>2. UNCHANGED <<familyVars, cpuVars, callVars, pass, pc>>
  BY DEF KeyIrq
<1>3. CASE UNCHANGED <<waiters, queueVars>>
  BY Zenon, <1>1, <1>2, <1>3 DEF TypeOK, familyVars, cpuVars, callVars, queueVars
<1>4. CASE waiters # <<>> /\ waiters' = SubSeq(waiters, 1, Len(waiters) - 1) /\ AddTaskArc(waiters[Len(waiters)])
  <2>1. waiters \in Seq(Pids) /\ IsInjective(waiters)
    BY DEF TypeOK, Core, Queues
  <2>2. waiters' \in Seq(Pids) /\ waiters[Len(waiters)] \in Pids
    BY <1>4, <2>1, FrontFacts
  <2>3. (needResched \/ Enqueues(waiters[Len(waiters)], status, inRunQueue)) \in BOOLEAN
    BY DEF TypeOK
  <2>4. /\ readyQueue' \in Seq(Pids) /\ readyCount' \in Int /\ needResched' \in BOOLEAN
        /\ status' \in [Pids -> Statuses] /\ inRunQueue' \in [Pids -> BOOLEAN]
    BY Zenon, <1>4, <2>2, <2>3, EnqueueType DEF AddTaskArc
  <2> QED BY Zenon, <1>1, <1>2, <2>2, <2>4 DEF TypeOK, familyVars, cpuVars, callVars
<1> QED BY <1>3, <1>4 DEF KeyIrq, AfterWake
-----------------------------------------------------------------------------
(***************************************************************************)
(* The inductive invariant                                                 *)
(***************************************************************************)
\* The first task is queued and nothing has run.
LEMMA InitHolds == Init => IInv
<1> SUFFICES ASSUME Init PROVE IInv
  OBVIOUS
<1> USE DEF Init, NoTask
<1>1. InitProc \in Pids /\ InitProc = 1 /\ 0 \notin Pids
  BY SchedulerAssumption DEF InitProc, Pids
<1>2. readyQueue \in Seq(Pids) /\ waiters \in Seq(Pids) /\ Len(readyQueue) = 1
  BY <1>1
<1>3. Q = {InitProc} /\ W = {}
  BY DEF Q, W, Range
<1>4. TypeOK
  <2>1. 0 \in 0 .. MaxLag
    BY SchedulerAssumption
  <2>2. <<>> \in Seq(Pids)
    OBVIOUS
  <2>3. /\ status \in [Pids -> Statuses] /\ inRunQueue \in [Pids -> BOOLEAN]
        /\ exitCode \in [Pids -> Int] /\ parent \in [Pids -> Pids \cup {0}]
        /\ pc \in [Pids -> ParkedAt \cup ActiveAt] /\ waitFor \in [Pids -> Pids \cup {AnyChild}]
        /\ got \in [Pids -> Nat] /\ calls \in Nat
    BY DEF Statuses, ParkedAt
  <2>4. pass \in [Pids -> 0 .. MaxLag] /\ children \in [Pids -> Seq(Pids)]
    BY <2>1, <2>2
  <2>5. /\ allTasks \subseteq Pids /\ nextPid \in Nat /\ readyCount \in Int /\ ring \in Nat /\ keys \in Nat
        /\ current \in Pids \cup {0} /\ run \in Pids \cup {0} /\ picked \in Pids \cup {0}
    BY <1>1
  <2>6. needResched \in BOOLEAN /\ irqOn \in BOOLEAN /\ irqActive \in BOOLEAN
    BY Zenon
  <2> QED BY <1>2, <2>3, <2>4, <2>5, <2>6 DEF TypeOK
<1>5. Contexts /\ Family /\ OnCpu
  BY <1>1 DEF Contexts, Family, OnCpu, ParkedAt
<1>6. Queues
  BY <1>2 DEF Queues, IsInjective
<1>7. ASSUME NEW t \in Pids PROVE Place(t) /\ Kept(t)
  <2>1. pc[t] = "born" /\ picked # t /\ run # t /\ ~inRunQueue[t] /\ Fresh
    BY <1>1 DEF Fresh
  <2>2. t \in Q => t = InitProc
    BY <1>3
  <2>3. t >= nextPid => t # InitProc
    BY <1>1
  <2>4. status[t] = IF t = InitProc THEN "Ready" ELSE "Unborn"
    OBVIOUS
  <2>5. Place(t)
    BY <1>3, <2>1, <2>2, <2>3, <2>4 DEF Place
  <2>6. Kept(t)
    BY <1>3, <2>4 DEF Kept
  <2> QED BY <2>5, <2>6
<1> QED BY <1>4, <1>5, <1>6, <1>7 DEF IInv, Core

\* A step that leaves the scheduler's state alone keeps what holds of it.
LEMMA StutterKeeps ==
    ASSUME IInv, UNCHANGED <<readyQueue, readyCount, inRunQueue, status, familyVars, cpuVars,
                             keyVars, callVars, pass, pc>>, needResched' \in BOOLEAN
    PROVE  IInv'
<1> USE DEF familyVars, cpuVars, keyVars, callVars
<1>1. TypeOK'
  BY DEF IInv, TypeOK
<1>2. Q' = Q /\ W' = W /\ (Fresh' <=> Fresh) /\ \A u \in Pids : StuckOn(u)' <=> StuckOn(u)
  BY Zenon DEF Q, W, Fresh, StuckOn
<1>3. Contexts' /\ Queues' /\ Family' /\ OnCpu'
  BY Zenon DEF IInv, Core, Contexts, Queues, Family, OnCpu, IsInjective
<1>4. \A u \in Pids : Place(u)' /\ Kept(u)'
  BY Zenon, <1>2 DEF IInv, Core, Place, Kept
<1> QED BY Zenon, <1>1, <1>3, <1>4 DEF IInv, Core

\* Every step of the task on the CPU keeps the invariant: one case per action.
LEMMA TaskStepKeeps ==
    ASSUME IInv, NEW t \in Pids, TaskStep(t)
    PROVE  IInv'
<1> USE DEF IInv
<1>1. CASE SysRet(t)
  <2>1. CASE needResched
    <3>1. Suspend(t, "preempted", FALSE) /\ UNCHANGED <<waiters, parent, children, allTasks, nextPid>>
      BY Zenon, <1>1, <2>1 DEF SysRet, familyVars, keyVars
    <3> QED BY Zenon, <1>1, <3>1, Suspends, SuspendType DEF SysRet
  <2>2. CASE ~needResched
    <3>1. "user" \in ActiveAt \ {"spin", "block"}
      BY DEF ActiveAt
    <3> QED BY <1>1, <2>2, <3>1, Moves, SuspendType DEF SysRet, queueVars, familyVars, keyVars
  <2> QED BY <2>1, <2>2
<1>2. CASE SysYield(t)
  <2>1. Suspend(t, "yielded", needResched) /\ UNCHANGED <<waiters, parent, children, allTasks, nextPid>>
    BY <1>2 DEF SysYield, familyVars, keyVars
  <2> QED BY <1>2, <2>1, Suspends, SuspendType DEF SysYield, Enter, InUser
<1>3. CASE SysFork(t)
  BY <1>3, SysForkKeeps, SysForkType
<1>4. CASE Exit(t)
  BY <1>4, ExitKeeps, ExitType
<1>5. CASE SysKill(t)
  BY <1>5, SysKillKeeps, SysKillType
<1>6. CASE SysWaitpid(t)
  <2>1. "waitpidScan" \in ActiveAt \ {"spin", "block"}
    BY DEF ActiveAt
  <2> QED BY Zenon, <1>6, <2>1, Moves, CallType DEF SysWaitpid, Enter, InUser, queueVars, familyVars, keyVars
<1>7. CASE WaitpidScan(t)
  BY <1>7, WaitpidScanKeeps, WaitType
<1>8. CASE SysRead(t)
  <2>1. "readLoop" \in ActiveAt \ {"spin", "block"}
    BY DEF ActiveAt
  <2> QED BY Zenon, <1>8, <2>1, Moves, CallType DEF SysRead, Enter, InUser, queueVars, familyVars, keyVars
<1>9. CASE ReadLoop(t)
  <2>1. PICK x \in ActiveAt \ {"spin", "block"} : pc' = [pc EXCEPT ![t] = x]
    <3>1. "readBytes" \in ActiveAt \ {"spin", "block"} /\ "pollHardware" \in ActiveAt \ {"spin", "block"}
      BY DEF ActiveAt
    <3> QED BY Zenon, <1>9, <3>1 DEF ReadLoop
  <2> QED BY Zenon, <1>9, <2>1, Moves, CallType DEF ReadLoop, queueVars, familyVars, cpuVars, keyVars
<1>10. CASE PollHardware(t)
  <2>1. "pollBytes" \in ActiveAt \ {"spin", "block"}
    BY DEF ActiveAt
  <2> QED BY Zenon, <1>10, <2>1, Moves, CallType DEF PollHardware, queueVars, familyVars, cpuVars
<1>11. CASE ReadPop(t)
  <2>0. pc[t] \in {"readBytes", "pollBytes"}
    BY <1>11 DEF ReadPop
  <2>1. pc[t] \in ActiveAt \ {"spin", "block"} /\ "sysret" \in ActiveAt \ {"spin", "block"}
    BY <2>0 DEF ActiveAt
  <2>2. PICK x \in ActiveAt \ {"spin", "block"} : pc' = [pc EXCEPT ![t] = x]
    <3>1. pc' = [pc EXCEPT ![t] = "sysret"] \/ pc' = pc
      BY <1>11 DEF ReadPop
    <3>2. pc = [pc EXCEPT ![t] = pc[t]]
      BY DEF TypeOK
    <3> QED BY <2>1, <3>1, <3>2
  <2> QED BY Zenon, <1>11, <2>1, <2>2, Moves, CallType DEF ReadPop, queueVars, familyVars, cpuVars
<1>12. CASE ReadEmpty(t)
  <2>0. run = t /\ UNCHANGED <<waiters, parent, children, allTasks, nextPid>>
    BY <1>12 DEF ReadEmpty, familyVars, keyVars
  <2>1. CASE pc[t] = "pollBytes" /\ Suspend(t, "polled", needResched)
    BY <1>12, <2>0, <2>1, Suspends, SuspendType
  <2>2. CASE /\ pc[t] \in {"readBytes", "pollBytes"} /\ UNCHANGED <<queueVars, cpuVars>>
             /\ \E x \in {"sysret", "waitWhile"} : pc' = [pc EXCEPT ![t] = x]
    <3>1. PICK x \in ActiveAt \ {"spin", "block"} : pc' = [pc EXCEPT ![t] = x]
      BY Zenon, <2>2 DEF ActiveAt
    <3> QED BY Zenon, <1>12, <2>0, <2>2, <3>1, Moves, SuspendType DEF queueVars, cpuVars
  <2> QED BY <1>12, <2>1, <2>2 DEF ReadEmpty
<1>13. CASE WaitWhile(t)
  BY <1>13, WaitWhileKeeps, WaitType
<1>14. CASE Block(t)
  BY <1>14, BlockKeeps, CallType
<1>15. CASE Stuck(t)
  <2>1. needResched' \in BOOLEAN
    BY <1>15 DEF Stuck, vars, queueVars, TypeOK
  <2> QED BY <1>15, <2>1, StutterKeeps DEF Stuck, vars, queueVars
<1> QED BY <1>1, <1>2, <1>3, <1>4, <1>5, <1>6, <1>7, <1>8, <1>9, <1>10, <1>11, <1>12,
           <1>13, <1>14, <1>15 DEF TaskStep

\* Every step keeps the invariant.
LEMMA NextKeeps == IInv /\ [Next]_vars => IInv'
<1> SUFFICES ASSUME IInv, [Next]_vars PROVE IInv'
  OBVIOUS
<1>1. CASE Fetch
  BY <1>1, FetchKeeps DEF IInv
<1>2. CASE SwitchTo
  BY <1>2, SwitchToKeeps DEF IInv
<1>3. CASE IdleHlt \/ UNCHANGED vars
  <2>1. needResched' \in BOOLEAN
    BY <1>3 DEF IdleHlt, vars, queueVars, TypeOK, IInv
  <2> QED BY <1>3, <2>1, StutterKeeps DEF IdleHlt, vars, queueVars
<1>4. CASE \E t \in Pids : TaskStep(t)
  BY <1>4, TaskStepKeeps
<1>5. CASE KeyIrq
  BY <1>5, KeyIrqKeeps, KeyIrqType DEF IInv
<1>6. CASE TimerIrq
  BY <1>6, StutterKeeps DEF TimerIrq
<1> QED BY <1>1, <1>2, <1>3, <1>4, <1>5, <1>6 DEF Next, CpuStep
-----------------------------------------------------------------------------
(***************************************************************************)
(* The theorems                                                            *)
(***************************************************************************)
\* The inductive invariant holds in every reachable state.
THEOREM Inductive == Spec => []IInv
BY InitHolds, NextKeeps, PTL DEF Spec

\* Types are kept.
THEOREM TypeCorrect == Spec => []TypeOK
<1>1. IInv => TypeOK
  BY DEF IInv
<1> QED BY Inductive, <1>1, PTL

\* The run queue, READY_COUNTS and in_run_queue agree: a task is queued at most
\* once, only while it is Ready and off the CPU.
THEOREM RunQueueConsistent == Spec => []QueueConsistent
<1>1. IInv => QueueConsistent
  <2> SUFFICES ASSUME IInv PROVE QueueConsistent
    OBVIOUS
  <2>1. IsInjective(readyQueue) /\ readyCount = Len(readyQueue)
    BY DEF IInv, Core, Queues
  <2>2. ASSUME NEW t \in Pids, Queued(t)
        PROVE  /\ status[t] = "Ready" /\ picked # t
               /\ run = t => pc[t] = "block"
               /\ run # t => pc[t] \in ParkedAt \ {"exited"}
    <3>1. t \in Q /\ Place(t)
      BY <2>2 DEF Q, Queued, IInv, Core
    <3>2. run # t => pc[t] \in ParkedAt
      BY DEF IInv, Core, Contexts
    <3> QED BY <3>1, <3>2 DEF Place
  <2>3. ASSUME NEW t \in Pids, inRunQueue[t] PROVE Queued(t) \/ StuckOn(t)
    BY <2>3 DEF Q, Queued, IInv, Core, Place
  <2> QED BY Zenon, <2>1, <2>2, <2>3 DEF QueueConsistent
<1> QED BY Inductive, <1>1, PTL

\* A living task is never lost by the queues, the wake-ups and the switches.
THEOREM NoTaskIsLost == Spec => []NoTaskLost
<1>1. IInv => NoTaskLost
  BY ZenonT(60) DEF IInv, Core, Kept, NoTaskLost, Queued, Q, W
<1> QED BY Inductive, <1>1, PTL

\* A registered waiter is blocked, or about to be, and registered once.
THEOREM WaitersAreBlocked == Spec => []WaitersBlocked
<1>1. IInv => WaitersBlocked
  <2> SUFFICES ASSUME IInv PROVE WaitersBlocked
    OBVIOUS
  <2>1. IsInjective(waiters) /\ waiters \in Seq(Pids)
    BY DEF IInv, Core, Queues, TypeOK
  <2>2. ASSUME NEW t \in Range(waiters)
        PROVE  pc[t] \in {"block", "asleep"} /\ (status[t] = "Waiting" \/ StuckOn(t))
    <3>1. t \in W
      BY DEF W
    <3>2. t \in Pids
      BY <2>1, RangeType
    <3> QED BY <3>1, <3>2 DEF IInv, Core, Place
  <2> QED BY <2>1, <2>2 DEF WaitersBlocked
<1> QED BY Inductive, <1>1, PTL

\* The processor's current task is the Running one on the CPU.
THEOREM CurrentRuns == Spec => []CurrentIsRunning
<1>1. IInv => CurrentIsRunning
  BY DEF IInv, Core, OnCpu, CurrentIsRunning, TypeOK, NoTask
<1> QED BY Inductive, <1>1, PTL

\* The run queue, the keyboard's wait queue and the processor agree about which
\* task is ready, blocked or running, whatever the tasks call and whenever the
\* interrupts come.
THEOREM QueuesAlwaysAgree == Spec => []QueuesAgree
BY TypeCorrect, RunQueueConsistent, WaitersAreBlocked, CurrentRuns, PTL DEF QueuesAgree
=============================================================================
