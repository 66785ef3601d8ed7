----------------------------- MODULE Shootdown -----------------------------
(***************************************************************************)
(* TLB shootdown between processors (src/kernel_task/src/smp.rs).          *)
(*                                                                         *)
(* Only the boot processor runs tasks, so it is the only one that changes  *)
(* page tables.  It does so in thread context, where a change calls        *)
(* tlb_shootdown_request, and its LAPIC timer may interrupt that call and  *)
(* run tlb_deferred_poll.  The application processors sleep on the boot    *)
(* page table and serve the shootdown interrupt.  Every atomic access of   *)
(* the request and of the interrupt handler is a step of its own.          *)
(*                                                                         *)
(* Ghost state: "stale", the application processors whose TLB may be older *)
(* than the last change of the page table they run on, and "nested": the   *)
(* timer has begun a send in the middle of the thread's.                   *)
(***************************************************************************)
EXTENDS Naturals, FiniteSets

CONSTANTS NumAPs,       \* application processors, numbered from 1
          Boot, User,   \* physical addresses of page tables: the one the
                        \* application processors run on, and a task's
          MaxTicks,     \* bound: the tick at which LAPIC_TICKS[0] stops growing
          MaxChanges    \* bound: page table changes

ASSUME ShootdownAssumption ==
  /\ Boot # User
  /\ NumAPs \in Nat
  /\ MaxTicks \in Nat
  /\ MaxChanges \in Nat

VARIABLES ticks,     \* LAPIC_TICKS[0]
          slot,      \* TLB_DEFERRED_PENDING, _CR3 and _DEADLINE
          seq,       \* TLB_SEQ
          ack,       \* TLB_ACK
          bit,       \* IPI_PENDING[i] & IPI_TLB_BIT
          ipi,       \* the shootdown vector is requested at the LAPIC
          handler,   \* where lapic_tlb_ipi is on each application processor
          loaded,    \* the TLB_SEQ that handler loaded
          unresp,    \* TLB_UNRESP_MASK
          req,       \* the thread's tlb_shootdown_request
          send,      \* send_tlb_shootdown_target of the thread and of the timer
          irq,       \* RFLAGS.IF of the boot processor's thread
          stale,     \* ghost, see above
          nested,    \* ghost, see above
          changes    \* changes made so far

vars == <<ticks, slot, seq, ack, bit, ipi, handler, loaded, unresp, req, send,
          irq, stale, nested, changes>>
apVars == <<ack, handler, loaded>>

APs == 1 .. NumAPs
P4s == {Boot, User}
Contexts == {"thread", "timer"}
TLB_DEFER_TICKS == 2

\* CURRENT_CR3 of an application processor, set once by ap_entry
CurrentCr3(a) == Boot

NoSend == [at |-> "done", p4 |-> Boot, seq |-> 0, i |-> 1, mask |-> {}]
NoRequest == [at |-> "idle", p4 |-> User, now |-> 0, pending |-> User]
Sending(c) == send[c].at # "done"

\* the thread of the boot processor runs: no timer handler is on top of it
ThreadRuns == ~Sending("timer")

\* wrapping_add(TLB_DEFER_TICKS), within the bound on ticks
Deadline(now) ==
  IF now + TLB_DEFER_TICKS > MaxTicks THEN MaxTicks ELSE now + TLB_DEFER_TICKS

Init ==
  /\ ticks = 0
  /\ slot = [pending |-> FALSE, cr3 |-> User, deadline |-> 0]
  /\ seq = 0
  /\ ack = [a \in APs |-> 0]
  /\ bit = [a \in APs |-> FALSE]
  /\ ipi = [a \in APs |-> FALSE]
  /\ handler = [a \in APs |-> "idle"]
  /\ loaded = [a \in APs |-> 0]
  /\ unresp = {}
  /\ req = NoRequest
  /\ send = [c \in Contexts |-> NoSend]
  /\ irq = TRUE
  /\ stale = {}
  /\ nested = FALSE
  /\ changes = 0
----------------------------------------------------------------------------

\* send_tlb_shootdown_target(p4) entered by context c: takes a sequence number
StartSend(c, p4) ==
  /\ seq' = seq + 1
  /\ send' = [send EXCEPT ![c] =
                [at |-> "loop", p4 |-> p4, seq |-> seq + 1, i |-> 1, mask |-> {}]]

\* The mapper changes an entry below p4, flushes its own TLB and calls the
\* request; system calls run with interrupts disabled, the kernel's own
\* mappings may be made with interrupts enabled.
ChangePte(p4, enabled) ==
  /\ req.at = "idle" /\ ThreadRuns
  /\ changes < MaxChanges
  /\ changes' = changes + 1
  /\ stale' = stale \cup {a \in APs : CurrentCr3(a) = p4}
  /\ irq' = enabled
  /\ req' = [req EXCEPT !.at = IF APs = {} THEN "idle" ELSE "now", !.p4 = p4]
  /\ UNCHANGED <<ticks, slot, seq, apVars, bit, ipi, unresp, send, nested>>

RequestNow ==
  /\ req.at = "now" /\ ThreadRuns
  /\ req' = [req EXCEPT !.at = "pending", !.now = ticks]
  /\ UNCHANGED <<ticks, slot, seq, apVars, bit, ipi, unresp, send, irq, stale, nested, changes>>

RequestPending ==
  /\ req.at = "pending" /\ ThreadRuns
  /\ req' = [req EXCEPT !.at = IF slot.pending THEN "cr3" ELSE "storeCr3"]
  /\ UNCHANGED <<ticks, slot, seq, apVars, bit, ipi, unresp, send, irq, stale, nested, changes>>

RequestCr3 ==
  /\ req.at = "cr3" /\ ThreadRuns
  /\ req' = [req EXCEPT !.at = "deadline", !.pending = slot.cr3]
  /\ UNCHANGED <<ticks, slot, seq, apVars, bit, ipi, unresp, send, irq, stale, nested, changes>>

\* Mutant of Coalesces: any waiting page table will do
CoalescesAny(r) == r.now < slot.deadline

\* the same page table is already waiting for its deadline
Coalesces(r) == r.pending = r.p4 /\ r.now < slot.deadline

RequestDeadline ==
  /\ req.at = "deadline" /\ ThreadRuns
  /\ \/ /\ Coalesces(req)
        /\ req' = NoRequest
        /\ irq' = TRUE
        /\ UNCHANGED <<seq, send>>
     \/ /\ ~Coalesces(req)
        /\ req' = [req EXCEPT !.at = "storeCr3"]
        /\ StartSend("thread", req.pending)
        /\ UNCHANGED irq
  /\ UNCHANGED <<ticks, slot, apVars, bit, ipi, unresp, stale, nested, changes>>

RequestStoreCr3 ==
  /\ req.at = "storeCr3" /\ ThreadRuns /\ ~Sending("thread")
  /\ slot' = [slot EXCEPT !.cr3 = req.p4]
  /\ req' = [req EXCEPT !.at = "storeDeadline"]
  /\ UNCHANGED <<ticks, seq, apVars, bit, ipi, unresp, send, irq, stale, nested, changes>>

RequestStoreDeadline ==
  /\ req.at = "storeDeadline" /\ ThreadRuns
  /\ slot' = [slot EXCEPT !.deadline = Deadline(req.now)]
  /\ req' = [req EXCEPT !.at = "storePending"]
  /\ UNCHANGED <<ticks, seq, apVars, bit, ipi, unresp, send, irq, stale, nested, changes>>

\* Mutant of RequestStorePending: the slot is filled but not marked
RequestStorePendingNot ==
  /\ req.at = "storePending" /\ ThreadRuns
  /\ req' = NoRequest
  /\ irq' = TRUE
  /\ UNCHANGED <<ticks, slot, seq, apVars, bit, ipi, unresp, send, stale, nested, changes>>

RequestStorePending ==
  /\ req.at = "storePending" /\ ThreadRuns
  /\ slot' = [slot EXCEPT !.pending = TRUE]
  /\ req' = NoRequest
  /\ irq' = TRUE
  /\ UNCHANGED <<ticks, seq, apVars, bit, ipi, unresp, send, stale, nested, changes>>
----------------------------------------------------------------------------
\* tlb_deferred_poll: the waiting request has reached its deadline
PollSends(now) == slot.pending /\ now >= slot.deadline

\* lapic_timer_tick on the boot processor: one tick, then tlb_deferred_poll
Tick ==
  /\ irq /\ ThreadRuns
  /\ ticks' = IF ticks < MaxTicks THEN ticks + 1 ELSE ticks
  /\ \/ /\ PollSends(ticks')
        /\ StartSend("timer", slot.cr3)
        /\ nested' = (nested \/ Sending("thread"))
     \/ /\ ~PollSends(ticks')
        /\ UNCHANGED <<seq, send, nested>>
  /\ UNCHANGED <<slot, apVars, bit, ipi, unresp, req, irq, stale, changes>>
----------------------------------------------------------------------------
\* A step of context c's send; the thread's waits while the timer's runs.
CanSend(c) == Sending(c) /\ (c = "thread" => ThreadRuns)

\* When the timer's send returns, tlb_deferred_poll empties the slot.
Returns(c) ==
  /\ send' = [send EXCEPT ![c] = NoSend]
  /\ slot' = IF c = "timer" THEN [slot EXCEPT !.pending = FALSE] ELSE slot

\* fetch_or of the pending bit: a processor on another page table, or whose bit
\* is already set, is skipped
Mark(c) ==
  /\ CanSend(c) /\ send[c].at = "loop" /\ send[c].i \in APs
  /\ LET a == send[c].i
         target == CurrentCr3(a) = send[c].p4
     IN  /\ send' = IF target /\ ~bit[a]
                      THEN [send EXCEPT ![c].at = "ipi", ![c].mask = @ \cup {a}]
                      ELSE [send EXCEPT ![c].i = @ + 1]
         /\ bit' = [bit EXCEPT ![a] = @ \/ target]
  /\ UNCHANGED <<ticks, slot, seq, apVars, ipi, unresp, req, irq, stale, nested, changes>>

\* send_ipi; a vector already requested at the LAPIC is not requested twice
SendIpi(c) ==
  /\ CanSend(c) /\ send[c].at = "ipi"
  /\ ipi' = [ipi EXCEPT ![send[c].i] = TRUE]
  /\ send' = [send EXCEPT ![c].at = "loop", ![c].i = @ + 1]
  /\ UNCHANGED <<ticks, slot, seq, apVars, bit, unresp, req, irq, stale, nested, changes>>

LoopOver(c) == CanSend(c) /\ send[c].at = "loop" /\ send[c].i \notin APs

\* every processor waited for has acknowledged this sequence number or a later one
Answered(c) == \A a \in send[c].mask \ unresp : ack[a] >= send[c].seq

WaitDone(c) ==
  /\ LoopOver(c) /\ Answered(c)
  /\ Returns(c)
  /\ UNCHANGED <<ticks, seq, apVars, bit, ipi, unresp, req, irq, stale, nested, changes>>

\* a million polls without the answers
WaitTimeout(c) ==
  /\ LoopOver(c) /\ ~Answered(c)
  /\ unresp' = unresp \cup {a \in send[c].mask : ack[a] < send[c].seq}
  /\ Returns(c)
  /\ UNCHANGED <<ticks, seq, apVars, bit, ipi, req, irq, stale, nested, changes>>
----------------------------------------------------------------------------
\* lapic_tlb_ipi on application processor a: flush, clear the bit, load, store
Flush(a) ==
  /\ handler[a] = "idle" /\ ipi[a]
  /\ ipi' = [ipi EXCEPT ![a] = FALSE]
  /\ stale' = stale \ {a}
  /\ handler' = [handler EXCEPT ![a] = "flushed"]
  /\ UNCHANGED <<ticks, slot, seq, ack, bit, loaded, unresp, req, send, irq, nested, changes>>

\* Mutant of ClearBit: the pending bit stays set
ClearBitNot(a) ==
  /\ handler[a] = "flushed"
  /\ handler' = [handler EXCEPT ![a] = "cleared"]
  /\ UNCHANGED <<ticks, slot, seq, ack, bit, ipi, loaded, unresp, req, send, irq,
                 stale, nested, changes>>

ClearBit(a) ==
  /\ handler[a] = "flushed"
  /\ bit' = [bit EXCEPT ![a] = FALSE]
  /\ handler' = [handler EXCEPT ![a] = "cleared"]
  /\ UNCHANGED <<ticks, slot, seq, ack, ipi, loaded, unresp, req, send, irq,
                 stale, nested, changes>>

LoadSeq(a) ==
  /\ handler[a] = "cleared"
  /\ loaded' = [loaded EXCEPT ![a] = seq]
  /\ handler' = [handler EXCEPT ![a] = "loaded"]
  /\ UNCHANGED <<ticks, slot, seq, ack, bit, ipi, unresp, req, send, irq, stale, nested, changes>>

StoreAck(a) ==
  /\ handler[a] = "loaded"
  /\ ack' = [ack EXCEPT ![a] = loaded[a]]
  /\ loaded' = [loaded EXCEPT ![a] = 0]
  /\ handler' = [handler EXCEPT ![a] = "idle"]
  /\ UNCHANGED <<ticks, slot, seq, bit, ipi, unresp, req, send, irq, stale, nested, changes>>
----------------------------------------------------------------------------
Request ==
  \/ RequestNow
  \/ RequestPending
  \/ RequestCr3
  \/ RequestDeadline
  \/ RequestStoreCr3
  \/ RequestStoreDeadline
  \/ RequestStorePending

Next ==
  \/ \E p4 \in P4s, enabled \in BOOLEAN : ChangePte(p4, enabled)
  \/ Request
  \/ Tick
  \/ \E c \in Contexts : Mark(c) \/ SendIpi(c) \/ WaitDone(c) \/ WaitTimeout(c)
  \/ \E a \in APs : Flush(a) \/ ClearBit(a) \/ LoadSeq(a) \/ StoreAck(a)

\* The thread and the timer's handler keep running, the timer keeps firing and
\* every application processor serves its interrupts (its only loop is hlt with
\* interrupts enabled); nothing obliges a wait to time out.
Fairness ==
  /\ SF_vars(Request)
  /\ WF_vars(Tick)
  /\ \A c \in Contexts : WF_vars(Mark(c) \/ SendIpi(c) \/ WaitDone(c))
  /\ \A a \in APs : WF_vars(Flush(a) \/ ClearBit(a) \/ LoadSeq(a) \/ StoreAck(a))

Spec == Init /\ [][Next]_vars /\ Fairness
----------------------------------------------------------------------------
\* Type invariant of the shootdown state.
TypeOK ==
  /\ ticks \in 0 .. MaxTicks
  /\ slot \in [pending : BOOLEAN, cr3 : P4s, deadline : 0 .. MaxTicks]
  /\ seq \in Nat
  /\ ack \in [APs -> Nat] /\ loaded \in [APs -> Nat]
  /\ bit \in [APs -> BOOLEAN] /\ ipi \in [APs -> BOOLEAN]
  /\ handler \in [APs -> {"idle", "flushed", "cleared", "loaded"}]
  /\ unresp \subseteq APs /\ stale \subseteq APs
  /\ req \in [at : {"idle", "now", "pending", "cr3", "deadline", "storeCr3",
                    "storeDeadline", "storePending"},
              p4 : P4s, now : 0 .. MaxTicks, pending : P4s]
  /\ send \in [Contexts -> [at : {"done", "loop", "ipi"}, p4 : P4s, seq : Nat,
                            i : 1 .. NumAPs + 1, mask : SUBSET APs]]
  /\ irq \in BOOLEAN /\ nested \in BOOLEAN
  /\ changes \in 0 .. MaxChanges

\* A context is between setting a's pending bit and sending the interrupt.
AboutToSend(a) == \E c \in Contexts : send[c].at = "ipi" /\ send[c].i = a

\* A pending bit is never orphaned: while IPI_TLB_BIT of a processor is set, its
\* interrupt is requested, about to be requested, or its handler has yet to
\* clear the bit.  send_tlb_shootdown_target skips a processor whose bit is set,
\* so an orphaned bit would exclude the processor from every later shootdown.
PendingBitServed ==
  \A a \in APs : bit[a] => ipi[a] \/ handler[a] = "flushed" \/ AboutToSend(a)

\* No wait has timed out, and no send has interrupted another.  An interrupted
\* send is satisfied by the answer to the later one and leaves its own interrupt
\* unanswered; either way a handler may then stand between its flush and its
\* clearing of the bit while the next shootdown skips the processor for it.
Calm == unresp = {} /\ ~nested

\* When the boot processor is outside tlb_shootdown_request and the timer's
\* tlb_deferred_poll and nothing is deferred, every application processor has
\* flushed since the last change of its page table: coalescing, the overwritten
\* slot, the timer interrupting the request at any of its accesses, and the
\* skipped processors lose no shootdown as long as the sends are calm.
QuietMeansFlushed ==
  Calm /\ req.at = "idle" /\ ~Sending("timer") /\ ~slot.pending => stale = {}

\* Every change of a page table reaches every processor that runs on it, as long
\* as the sends are calm: deferral by tlb_shootdown_request is never for good.
EveryChangeFlushed ==
  \A a \in APs : a \in stale ~> (a \notin stale \/ ~Calm)
============================================================================
