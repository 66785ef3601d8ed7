-------------------------- MODULE ShootdownProofs --------------------------
(***************************************************************************)
(* The safety of the shootdown protocol, for any number of processors, of  *)
(* changes and of ticks.                                                   *)
(***************************************************************************)
EXTENDS Shootdown, TLAPS

\* The thread sends from inside its request, the timer what is deferred.
Senders ==
  /\ Sending("thread") => req.at = "storeCr3"
  /\ Sending("timer") => slot.pending /\ send["timer"].p4 = slot.cr3
  /\ req.at = "deadline" => req.pending = slot.cr3
  /\ req.at \in {"storeDeadline", "storePending"} => slot.cr3 = req.p4
  /\ \A c \in Contexts : send[c].at = "ipi" => send[c].i \in APs
  /\ \A a \in APs : ack[a] <= seq /\ loaded[a] <= seq

\* A processor that no send has asked to flush.
Unasked(a) == ~bit[a] /\ ~ipi[a] /\ handler[a] = "idle"

\* How far a processor that the send s waits for has come: bit and interrupt are
\* set until its handler takes them, and it is stale at most until it flushes.
Asked(a, s) ==
  /\ ack[a] = s.seq \/ ack[a] < s.seq
  /\ handler[a] # "idle" => ack[a] < s.seq
  /\ handler[a] = "loaded" => loaded[a] = s.seq
  /\ bit[a] <=> handler[a] = "flushed" \/ (handler[a] = "idle" /\ ack[a] < s.seq)
  /\ ipi[a] <=> handler[a] = "idle" /\ ack[a] < s.seq /\ ~(s.at = "ipi" /\ s.i = a)
  /\ a \in stale => handler[a] = "idle" /\ ack[a] < s.seq

\* A send that alone is under way.
InStep(s) ==
  /\ s.seq = seq
  /\ \A a \in s.mask : Asked(a, s) /\ (a < s.i \/ (a = s.i /\ s.at = "ipi"))
  /\ \A a \in APs \ s.mask : Unasked(a) /\ ack[a] < s.seq
  /\ s.p4 = Boot => \A a \in APs : a < s.i => a \in s.mask
  /\ s.at = "ipi" => s.i \in s.mask /\ bit[s.i] /\ handler[s.i] = "idle"

\* What the processors are in the middle of.
Handshake ==
  /\ ~(Sending("thread") /\ Sending("timer"))
  /\ \A c \in Contexts : Sending(c) => InStep(send[c])
  /\ (\A c \in Contexts : ~Sending(c)) => \A a \in APs : Unasked(a)

\* Who is going to have the stale processors flushed: a send, the deferred
\* slot, or the request that has not filled it yet.
Cover ==
  \/ stale = {}
  \/ \E c \in Contexts : Sending(c) /\ send[c].p4 = Boot
  \/ /\ slot.pending /\ slot.cr3 = Boot
     /\ req.at \in {"idle", "now", "pending", "cr3", "deadline"}
  \/ /\ req.p4 = Boot
     /\ \/ req.at \in {"now", "pending", "storeCr3", "storeDeadline", "storePending"}
        \/ req.at \in {"cr3", "deadline"} /\ slot.cr3 # Boot

IInv == TypeOK /\ Senders /\ PendingBitServed /\ (Calm => Handshake /\ Cover)
-----------------------------------------------------------------------------
Sends == [at : {"done", "loop", "ipi"}, p4 : P4s, seq : Nat, i : 1 .. NumAPs + 1, mask : SUBSET APs]

\* What a step of the send of context c does to the two sends.
LEMMA StartSendType ==
  ASSUME TypeOK, NEW c \in Contexts, NEW p \in P4s, StartSend(c, p)
  PROVE  seq' \in Nat /\ send' \in [Contexts -> Sends]
<1>1. [at |-> "loop", p4 |-> p, seq |-> seq + 1, i |-> 1, mask |-> {}] \in Sends
  BY ShootdownAssumption DEF TypeOK, Sends
<1>2. send \in [Contexts -> Sends]
  BY DEF TypeOK, Sends
<1> QED BY <1>1, <1>2 DEF StartSend, TypeOK

LEMMA NoSendType == NoSend \in Sends
BY ShootdownAssumption DEF NoSend, Sends, P4s

\* The thread's request and the timer keep the types.
LEMMA RequestType ==
  ASSUME TypeOK, Request \/ Tick
  PROVE  TypeOK'
<1> USE ShootdownAssumption
<1>1. CASE RequestNow \/ RequestPending \/ RequestCr3
  <2>1. req' \in [at : {"pending", "cr3", "storeCr3", "deadline"}, p4 : P4s, now : 0 .. MaxTicks, pending : P4s]
    BY ZenonT(60), <1>1 DEF RequestNow, RequestPending, RequestCr3, TypeOK
  <2>2. irq' \in BOOLEAN /\ nested' \in BOOLEAN
    BY Zenon, <1>1 DEF RequestNow, RequestPending, RequestCr3, TypeOK
  <2> QED BY <1>1, <2>1, <2>2 DEF RequestNow, RequestPending, RequestCr3, TypeOK, apVars
<1>2. CASE RequestStoreCr3 \/ RequestStorePending
  <2>1. slot' \in [pending : BOOLEAN, cr3 : P4s, deadline : 0 .. MaxTicks]
    BY Zenon, <1>2 DEF RequestStoreCr3, RequestStorePending, TypeOK
  <2>2. NoRequest \in [at : {"idle"}, p4 : P4s, now : 0 .. MaxTicks, pending : P4s]
    BY DEF NoRequest, P4s
  <2>3. req' = NoRequest \/ req' = [req EXCEPT !.at = "storeDeadline"]
    BY <1>2 DEF RequestStoreCr3, RequestStorePending
  <2>4. irq' \in BOOLEAN
    BY Zenon, <1>2 DEF RequestStoreCr3, RequestStorePending, TypeOK
  <2> QED BY <1>2, <2>1, <2>2, <2>3, <2>4 DEF RequestStoreCr3, RequestStorePending, TypeOK, apVars
<1>3. CASE RequestStoreDeadline
  <2>1. Deadline(req.now) \in 0 .. MaxTicks
    BY DEF Deadline, TLB_DEFER_TICKS, TypeOK
  <2> QED BY <1>3, <2>1 DEF RequestStoreDeadline, TypeOK, apVars
<1>4. CASE RequestDeadline
  <2>1. seq' \in Nat /\ send' \in [Contexts -> Sends]
    <3>1. CASE UNCHANGED <<seq, send>>
      BY <3>1 DEF TypeOK, Sends
    <3>2. CASE StartSend("thread", req.pending)
      BY <3>2, StartSendType DEF TypeOK, Contexts
    <3> QED BY <1>4, <3>1, <3>2 DEF RequestDeadline
  <2>2. req' = NoRequest \/ req' = [req EXCEPT !.at = "storeCr3"]
    BY <1>4 DEF RequestDeadline
  <2>3. irq' \in BOOLEAN
    BY Zenon, <1>4 DEF RequestDeadline, TypeOK
  <2> QED BY <1>4, <2>1, <2>2, <2>3 DEF RequestDeadline, TypeOK, apVars, NoRequest, P4s, Sends
<1>5. CASE Tick
  <2>1. seq' \in Nat /\ send' \in [Contexts -> Sends]
    <3>1. CASE UNCHANGED <<seq, send>>
      BY <3>1 DEF TypeOK, Sends
    <3>2. CASE StartSend("timer", slot.cr3)
      BY <3>2, StartSendType DEF TypeOK, Contexts
    <3> QED BY <1>5, <3>1, <3>2 DEF Tick
  <2>2. ticks' \in 0 .. MaxTicks
    BY <1>5 DEF Tick, TypeOK
  <2>3. nested' \in BOOLEAN
    BY Zenon, <1>5 DEF Tick, TypeOK
  <2> QED BY <1>5, <2>1, <2>2, <2>3 DEF Tick, TypeOK, apVars, Sends
<1> QED BY <1>1, <1>2, <1>3, <1>4, <1>5 DEF Request

\* A step of a send keeps the types.
LEMMA SendType ==
  ASSUME TypeOK, Senders, NEW c \in Contexts, Mark(c) \/ SendIpi(c) \/ WaitDone(c) \/ WaitTimeout(c)
  PROVE  TypeOK'
<1> USE ShootdownAssumption
<1>0. send \in [Contexts -> Sends] /\ send[c] \in Sends
  BY DEF TypeOK, Sends
<1>1. CASE Mark(c)
  <2>1. send[c].i \in APs
    BY <1>1 DEF Mark
  <2>2. [send[c] EXCEPT !.at = "ipi", !.mask = @ \cup {send[c].i}] \in Sends
    BY Zenon, <1>0, <2>1 DEF Sends
  <2>3. [send[c] EXCEPT !.i = @ + 1] \in Sends
    BY <1>0, <2>1 DEF Sends, APs
  <2>4. send' \in [Contexts -> Sends]
    BY <1>0, <1>1, <2>2, <2>3 DEF Mark
  <2>5. bit' \in [APs -> BOOLEAN]
    BY <1>1 DEF Mark, TypeOK
  <2> QED BY <1>1, <2>4, <2>5 DEF Mark, TypeOK, apVars, Sends
<1>2. CASE SendIpi(c)
  <2>1. send[c].i \in APs
    BY <1>2 DEF SendIpi, Senders
  <2>2. [send[c] EXCEPT !.at = "loop", !.i = @ + 1] \in Sends
    <3>1. send[c].i + 1 \in 1 .. NumAPs + 1
      BY <2>1 DEF APs
    <3> QED BY Zenon, <1>0, <3>1 DEF Sends
  <2>3. send' \in [Contexts -> Sends]
    BY <1>0, <1>2, <2>2 DEF SendIpi
  <2> QED BY <1>2, <2>3 DEF SendIpi, TypeOK, apVars, Sends
<1>3. CASE WaitDone(c) \/ WaitTimeout(c)
  <2>1. send' \in [Contexts -> Sends]
    BY <1>0, <1>3, NoSendType DEF WaitDone, WaitTimeout, Returns
  <2>2. slot' \in [pending : BOOLEAN, cr3 : P4s, deadline : 0 .. MaxTicks]
    BY Zenon, <1>3 DEF WaitDone, WaitTimeout, Returns, TypeOK
  <2>3. unresp' \subseteq APs
    BY <1>0, <1>3 DEF WaitDone, WaitTimeout, TypeOK, Sends
  <2> QED BY <1>3, <2>1, <2>2, <2>3 DEF WaitDone, WaitTimeout, TypeOK, apVars, Sends
<1> QED BY <1>1, <1>2, <1>3

\* Types are kept.
LEMMA TypeStep == TypeOK /\ Senders /\ [Next]_vars => TypeOK'
<1> SUFFICES ASSUME TypeOK, Senders, [Next]_vars PROVE TypeOK'
  OBVIOUS
<1>1. ASSUME NEW p4 \in P4s, NEW enabled \in BOOLEAN, ChangePte(p4, enabled) PROVE TypeOK'
  <2>1. /\ changes' \in 0 .. MaxChanges /\ irq' \in BOOLEAN /\ stale' \subseteq APs
    BY <1>1, ShootdownAssumption DEF ChangePte, TypeOK
  <2>2. req' \in [at : {"idle", "now"}, p4 : P4s, now : 0 .. MaxTicks, pending : P4s]
    BY Zenon, <1>1 DEF ChangePte, TypeOK
  <2> QED BY <1>1, <2>1, <2>2 DEF ChangePte, TypeOK, apVars
<1>2. ASSUME NEW a \in APs, Flush(a) \/ ClearBit(a) \/ LoadSeq(a) \/ StoreAck(a) PROVE TypeOK'
  <2>1. handler' \in [APs -> {"idle", "flushed", "cleared", "loaded"}]
    BY <1>2 DEF Flush, ClearBit, LoadSeq, StoreAck, TypeOK
  <2>2. bit' \in [APs -> BOOLEAN] /\ ipi' \in [APs -> BOOLEAN] /\ stale' \subseteq APs
    BY ZenonT(60), <1>2 DEF Flush, ClearBit, LoadSeq, StoreAck, TypeOK
  <2>3. ack' \in [APs -> Nat] /\ loaded' \in [APs -> Nat]
    BY <1>2 DEF Flush, ClearBit, LoadSeq, StoreAck, TypeOK
  <2>4. UNCHANGED <<ticks, slot, seq, unresp, req, send, irq, nested, changes>>
    BY <1>2 DEF Flush, ClearBit, LoadSeq, StoreAck
  <2> QED BY <2>1, <2>2, <2>3, <2>4 DEF TypeOK
<1>3. CASE UNCHANGED vars
  BY <1>3 DEF vars, apVars, TypeOK
<1> QED BY Zenon, <1>1, <1>2, <1>3, RequestType, SendType DEF Next
-----------------------------------------------------------------------------
\* What entering send_tlb_shootdown_target does to the sends.
LEMMA StartSendFacts ==
  ASSUME TypeOK, NEW c \in Contexts, NEW p, StartSend(c, p)
  PROVE  /\ seq' = seq + 1 /\ send'[c].at = "loop" /\ send'[c].p4 = p /\ send'[c].seq = seq + 1
         /\ send'[c].i = 1 /\ send'[c].mask = {}
         /\ \A d \in Contexts : d # c => send'[d] = send[d]
BY DEF StartSend, TypeOK

\* What returning from it does.
LEMMA ReturnsFacts ==
  ASSUME TypeOK, NEW c \in Contexts, Returns(c)
  PROVE  /\ send'[c].at = "done" /\ \A d \in Contexts : d # c => send'[d] = send[d]
         /\ slot'.cr3 = slot.cr3
         /\ slot'.pending = IF c = "timer" THEN FALSE ELSE slot.pending
BY DEF Returns, TypeOK, NoSend

\* What marking the next processor does: its bit is set if the send is for its
\* page table, and it is waited for if the bit was not set before.
LEMMA MarkFacts ==
  ASSUME TypeOK, NEW c \in Contexts, Mark(c)
  PROVE  /\ send[c].at = "loop" /\ send[c].i \in APs
         /\ \A d \in Contexts : d # c => send'[d] = send[d]
         /\ \A b \in APs : b # send[c].i => bit'[b] = bit[b]
         /\ send'[c].p4 = send[c].p4 /\ send'[c].seq = send[c].seq
         /\ \/ /\ send[c].p4 = Boot /\ ~bit[send[c].i] /\ bit'[send[c].i]
               /\ send'[c].at = "ipi" /\ send'[c].i = send[c].i
               /\ send'[c].mask = send[c].mask \cup {send[c].i}
            \/ /\ send[c].p4 = Boot => bit[send[c].i]
               /\ bit'[send[c].i] = bit[send[c].i]
               /\ send'[c].at = "loop" /\ send'[c].i = send[c].i + 1
               /\ send'[c].mask = send[c].mask
<1> DEFINE a == send[c].i
<1>0. send[c].at = "loop" /\ a \in APs
  BY DEF Mark
<1>1. bit' = [bit EXCEPT ![a] = @ \/ send[c].p4 = Boot]
  BY Zenon DEF Mark, CurrentCr3
<1>2. CASE send[c].p4 = Boot /\ ~bit[a]
  <2>1. send' = [send EXCEPT ![c].at = "ipi", ![c].mask = @ \cup {a}]
    BY <1>2 DEF Mark, CurrentCr3
  <2>2. /\ send'[c].at = "ipi" /\ send'[c].i = a /\ send'[c].mask = send[c].mask \cup {a}
        /\ send'[c].p4 = send[c].p4 /\ send'[c].seq = send[c].seq
        /\ \A d \in Contexts : d # c => send'[d] = send[d]
    BY <2>1 DEF TypeOK
  <2>3. bit'[a] /\ \A b \in APs : b # a => bit'[b] = bit[b]
    BY Zenon, <1>0, <1>1, <1>2 DEF TypeOK
  <2> QED BY Zenon, <1>0, <1>2, <2>2, <2>3
<1>3. CASE ~(send[c].p4 = Boot /\ ~bit[a])
  <2>1. send' = [send EXCEPT ![c].i = @ + 1]
    BY <1>3 DEF Mark, CurrentCr3
  <2> QED BY <1>0, <1>1, <1>3, <2>1 DEF TypeOK
<1> QED BY <1>2, <1>3

\* What sending the interrupt does.
LEMMA SendIpiFacts ==
  ASSUME TypeOK, Senders, NEW c \in Contexts, SendIpi(c)
  PROVE  /\ send[c].at = "ipi" /\ send[c].i \in APs
         /\ ipi'[send[c].i] /\ \A b \in APs : b # send[c].i => ipi'[b] = ipi[b]
         /\ \A d \in Contexts : d # c => send'[d] = send[d]
         /\ send'[c].at = "loop" /\ send'[c].i = send[c].i + 1 /\ send'[c].p4 = send[c].p4
         /\ send'[c].seq = send[c].seq /\ send'[c].mask = send[c].mask
<1>1. send[c].at = "ipi" /\ send[c].i \in APs
  BY DEF SendIpi, Senders
<1>2. ipi' = [ipi EXCEPT ![send[c].i] = TRUE]
  BY DEF SendIpi
<1>3. send' = [send EXCEPT ![c].at = "loop", ![c].i = @ + 1]
  BY DEF SendIpi
<1>4. send' = [send EXCEPT ![c] = [send[c] EXCEPT !.at = "loop", !.i = @ + 1]]
  BY <1>3 DEF TypeOK
<1> QED BY <1>1, <1>2, <1>4 DEF TypeOK

\* The thread sends from inside its request, the timer what is deferred.
LEMMA SendersStep == TypeOK /\ Senders /\ [Next]_vars => Senders'
<1> SUFFICES ASSUME TypeOK, Senders, [Next]_vars PROVE Senders'
  OBVIOUS
<1> USE DEF Sending
<1>0. seq \in Nat /\ \A a \in APs : ack[a] \in Nat /\ loaded[a] \in Nat
  BY DEF TypeOK
<1>1. ASSUME NEW p4 \in P4s, NEW enabled \in BOOLEAN, ChangePte(p4, enabled) PROVE Senders'
  <2>1. req'.at \in {"idle", "now"} /\ req.at = "idle"
    BY <1>1 DEF ChangePte, TypeOK
  <2> QED BY <1>1, <2>1 DEF ChangePte, Senders, apVars
<1>2. CASE RequestNow \/ RequestPending \/ RequestCr3
  <2>1. /\ req.at \in {"now", "pending", "cr3"}
        /\ req'.at = "deadline" => req'.pending = slot.cr3
        /\ req'.at \notin {"storeDeadline", "storePending"}
    BY Zenon, <1>2 DEF RequestNow, RequestPending, RequestCr3, TypeOK
  <2> QED BY <1>2, <2>1 DEF RequestNow, RequestPending, RequestCr3, Senders, apVars
<1>3. CASE RequestStoreCr3 \/ RequestStoreDeadline \/ RequestStorePending
  <2>1. /\ req'.at \in {"idle", "storeDeadline", "storePending"} /\ send' = send
        /\ UNCHANGED <<seq, ack, loaded>>
        /\ ~Sending("timer") /\ (req'.at # "idle" => slot'.cr3 = req'.p4)
    BY <1>3 DEF Senders, RequestStoreCr3, RequestStoreDeadline, RequestStorePending, NoRequest, TypeOK,
                ThreadRuns, apVars
  <2>2. ~Sending("thread")
    BY <1>3 DEF RequestStoreCr3, RequestStoreDeadline, RequestStorePending, Senders
  <2> QED BY <2>1, <2>2 DEF Senders
<1>4. CASE RequestDeadline
  <2>1. UNCHANGED <<slot, ack, loaded>> /\ ~Sending("timer")
    BY <1>4 DEF RequestDeadline, apVars, ThreadRuns
  <2>2. CASE req' = NoRequest /\ UNCHANGED <<seq, send>>
    BY <1>4, <2>1, <2>2 DEF RequestDeadline, Senders, NoRequest
  <2>3. CASE req' = [req EXCEPT !.at = "storeCr3"] /\ StartSend("thread", req.pending)
    <3>1. req'.at = "storeCr3"
      BY <2>3 DEF TypeOK
    <3> QED BY <1>0, <2>1, <2>3, <3>1, StartSendFacts DEF Senders, Contexts
  <2> QED BY <1>4, <2>2, <2>3 DEF RequestDeadline
<1>5. CASE Tick
  <2>1. UNCHANGED <<slot, ack, loaded, req>> /\ ~Sending("timer")
    BY <1>5 DEF Tick, apVars, ThreadRuns
  <2>2. CASE UNCHANGED <<seq, send>>
    BY <2>1, <2>2 DEF Senders
  <2>3. CASE PollSends(ticks') /\ StartSend("timer", slot.cr3)
    BY <1>0, <2>1, <2>3, StartSendFacts DEF Senders, Contexts, PollSends
  <2> QED BY <1>5, <2>2, <2>3 DEF Tick
<1>6. ASSUME NEW c \in Contexts, Mark(c) \/ SendIpi(c) PROVE Senders'
  <2>1. /\ \A d \in Contexts : Sending(d)' <=> Sending(d)
        /\ \A d \in Contexts : send'[d].p4 = send[d].p4
        /\ \A d \in Contexts : send'[d].at = "ipi" => send'[d].i \in APs
    BY <1>6, MarkFacts, SendIpiFacts DEF Senders
  <2> QED BY <1>6, <2>1 DEF Mark, SendIpi, Senders, apVars, Contexts
<1>7. ASSUME NEW c \in Contexts, WaitDone(c) \/ WaitTimeout(c) PROVE Senders'
  <2>1. /\ Returns(c) /\ UNCHANGED <<seq, req, ack, loaded>>
        /\ c = "thread" => ~Sending("timer")
    BY <1>7 DEF WaitDone, WaitTimeout, apVars, LoopOver, CanSend, ThreadRuns
  <2> QED BY Zenon, <2>1, ReturnsFacts DEF Senders, Contexts
<1>8. ASSUME NEW a \in APs, Flush(a) \/ ClearBit(a) \/ LoadSeq(a) \/ StoreAck(a) PROVE Senders'
  <2>1. UNCHANGED <<slot, seq, req, send>>
    BY <1>8 DEF Flush, ClearBit, LoadSeq, StoreAck
  <2>2. \A b \in APs : ack'[b] <= seq /\ loaded'[b] <= seq
    BY <1>0, <1>8 DEF Flush, ClearBit, LoadSeq, StoreAck, Senders, TypeOK
  <2> QED BY <2>1, <2>2 DEF Senders
<1>9. CASE UNCHANGED vars
  BY <1>9 DEF vars, apVars, Senders
<1> QED BY Zenon, <1>1, <1>2, <1>3, <1>4, <1>5, <1>6, <1>7, <1>8, <1>9 DEF Next, Request

\* A processor's pending bit is set only together with its interrupt.
LEMMA BitStep == TypeOK /\ Senders /\ PendingBitServed /\ [Next]_vars => PendingBitServed'
<1> SUFFICES ASSUME TypeOK, Senders, PendingBitServed, [Next]_vars PROVE PendingBitServed'
  OBVIOUS
<1> USE DEF Sending, PendingBitServed, AboutToSend
<1>1. ASSUME UNCHANGED <<bit, ipi, handler, send>> PROVE PendingBitServed'
  BY <1>1
<1>2. ASSUME NEW c \in Contexts, NEW p, ~Sending(c), StartSend(c, p), UNCHANGED <<bit, ipi, handler>>
      PROVE  PendingBitServed'
  BY <1>2, StartSendFacts
<1>3. CASE (\E p4 \in P4s, enabled \in BOOLEAN : ChangePte(p4, enabled)) \/ Request
  <2>1. UNCHANGED <<bit, ipi, handler>>
    BY Zenon, <1>3 DEF ChangePte, Request, RequestNow, RequestPending, RequestCr3, RequestDeadline,
                RequestStoreCr3, RequestStoreDeadline, RequestStorePending, apVars
  <2>2. send' = send \/ (~Sending("thread") /\ StartSend("thread", req.pending))
    BY Zenon, <1>3 DEF ChangePte, Request, RequestNow, RequestPending, RequestCr3, RequestDeadline,
                RequestStoreCr3, RequestStoreDeadline, RequestStorePending, Senders
  <2> QED BY Zenon, <1>1, <1>2, <2>1, <2>2 DEF Contexts
<1>4. CASE Tick
  <2>1. UNCHANGED <<bit, ipi, handler>>
    BY <1>4 DEF Tick, apVars
  <2>2. send' = send \/ (~Sending("timer") /\ StartSend("timer", slot.cr3))
    BY <1>4 DEF Tick, ThreadRuns
  <2> QED BY <1>1, <1>2, <2>1, <2>2 DEF Contexts
<1>5. ASSUME NEW c \in Contexts, Mark(c) PROVE PendingBitServed'
  BY <1>5 DEF Mark, TypeOK, apVars
<1>6. ASSUME NEW c \in Contexts, SendIpi(c) PROVE PendingBitServed'
  BY <1>6 DEF SendIpi, TypeOK, apVars, Senders
<1>7. ASSUME NEW c \in Contexts, WaitDone(c) \/ WaitTimeout(c) PROVE PendingBitServed'
  <2>1. Returns(c) /\ send[c].at = "loop" /\ UNCHANGED <<bit, ipi, handler>>
    BY <1>7 DEF WaitDone, WaitTimeout, apVars, LoopOver
  <2>2. \A d \in Contexts : d # c => send'[d] = send[d]
    BY Zenon, <2>1, ReturnsFacts
  <2> QED BY <2>1, <2>2
<1>8. ASSUME NEW a \in APs, Flush(a) \/ ClearBit(a) \/ LoadSeq(a) \/ StoreAck(a)
      PROVE  PendingBitServed'
  BY <1>8 DEF Flush, ClearBit, LoadSeq, StoreAck, TypeOK
<1>9. CASE UNCHANGED vars
  BY <1>9 DEF vars, apVars
<1> QED BY Zenon, <1>3, <1>4, <1>5, <1>6, <1>7, <1>8, <1>9 DEF Next
-----------------------------------------------------------------------------
\* No step makes up for a wait that timed out or a send that was interrupted.
LEMMA CalmBefore == [Next]_vars /\ Calm' => Calm
<1> SUFFICES ASSUME [Next]_vars, Calm' PROVE Calm
  OBVIOUS
<1>1. CASE \E c \in Contexts : WaitTimeout(c)
  BY <1>1 DEF WaitTimeout, Calm
<1>2. CASE Tick
  <2>1. unresp' = unresp
    BY <1>2 DEF Tick
  <2>2. nested => nested'
    BY Zenon, <1>2 DEF Tick
  <2> QED BY <2>1, <2>2 DEF Calm
<1>3. CASE ~Tick /\ ~(\E c \in Contexts : WaitTimeout(c))
  <2>1. UNCHANGED <<unresp, nested>>
    BY Zenon, <1>3 DEF Next, ChangePte, Request, RequestNow, RequestPending, RequestCr3,
                RequestDeadline, RequestStoreCr3, RequestStoreDeadline, RequestStorePending,
                Mark, SendIpi, WaitDone, Flush, ClearBit, LoadSeq, StoreAck, vars
  <2> QED BY <2>1 DEF Calm
<1> QED BY <1>1, <1>2, <1>3

\* A send begins with every processor idle.
LEMMA StartKeepsHandshake ==
  ASSUME TypeOK, Senders, Handshake, \A c \in Contexts : ~Sending(c),
         NEW c \in Contexts, NEW p, StartSend(c, p),
         UNCHANGED <<bit, ipi, handler, loaded, ack, stale>>
  PROVE  Handshake'
<1>1. \A a \in APs : Unasked(a) /\ ack[a] <= seq /\ ack[a] \in Nat /\ seq \in Nat
  BY DEF Handshake, Senders, TypeOK
<1>2. \A d \in Contexts : Sending(d)' <=> d = c
  BY StartSendFacts DEF Sending
<1>3. InStep(send[c])'
  BY <1>1, StartSendFacts DEF InStep, Unasked, APs
<1> QED BY <1>2, <1>3 DEF Handshake, Contexts

\* A send under way marks processors that are idle, and asks each of them.
LEMMA MarkKeepsHandshake ==
  ASSUME TypeOK, Senders, Handshake, NEW c \in Contexts, Mark(c) \/ SendIpi(c)
  PROVE  Handshake'
<1> DEFINE s == send[c]
           a == send[c].i
<1>1. Sending(c) /\ InStep(s) /\ \A d \in Contexts : d # c => ~Sending(d)
  BY DEF Mark, SendIpi, CanSend, Handshake, Contexts
<1>2. \A d \in Contexts : Sending(d)' <=> d = c
  BY <1>1, MarkFacts, SendIpiFacts DEF Sending
<1>3. UNCHANGED <<seq, ack, handler, loaded, stale>>
  BY DEF Mark, SendIpi, apVars
<1>4. s.mask \subseteq APs /\ a \in Nat /\ \A b \in APs : b \in Nat
  BY DEF TypeOK, APs
<1>5. CASE Mark(c)
  <2>1. a \in APs /\ s.at = "loop" /\ ipi' = ipi
    BY Zenon, <1>5 DEF Mark
  <2>2. a \notin s.mask /\ Unasked(a) /\ ack[a] < s.seq
    BY <1>1, <1>4, <2>1 DEF InStep
  <2>3. \A b \in APs : b # a => bit'[b] = bit[b]
    BY Zenon, <1>5, MarkFacts
  <2>4. \A b \in APs \ s.mask : b # a => Unasked(b)' /\ ack'[b] < s.seq
    BY <1>1, <1>3, <2>1, <2>3 DEF InStep, Unasked
  <2>5. CASE /\ s.p4 = Boot /\ ~bit[a] /\ bit'[a]
             /\ send'[c].at = "ipi" /\ send'[c].i = a /\ send'[c].mask = s.mask \cup {a}
             /\ send'[c].p4 = s.p4 /\ send'[c].seq = s.seq
    <3>1. Asked(a, send[c])'
      BY <1>3, <2>1, <2>2, <2>5 DEF Asked, Unasked
    <3>2. ASSUME NEW b \in s.mask PROVE Asked(b, send[c])' /\ b < a
      <4>1. b # a /\ bit'[b] = bit[b] /\ Asked(b, s) /\ b < a
        BY <1>1, <1>4, <2>1, <2>2, <2>3 DEF InStep
      <4> QED BY <1>3, <2>1, <2>5, <4>1 DEF Asked
    <3> QED BY <1>1, <1>2, <1>3, <1>4, <2>1, <2>2, <2>4, <2>5, <3>1, <3>2 DEF Handshake, InStep, Contexts, Unasked
  <2>6. CASE /\ s.p4 = Boot => bit[a]
             /\ bit'[a] = bit[a] /\ send'[c].at = "loop" /\ send'[c].i = a + 1
             /\ send'[c].mask = s.mask /\ send'[c].p4 = s.p4 /\ send'[c].seq = s.seq
    <3>1. s.p4 # Boot /\ \A b \in APs \ s.mask : Unasked(b)' /\ ack'[b] < s.seq
      BY <1>3, <2>1, <2>2, <2>4, <2>6 DEF Unasked
    <3>2. ASSUME NEW b \in s.mask PROVE Asked(b, send[c])' /\ b < a + 1
      <4>1. b # a /\ bit'[b] = bit[b] /\ Asked(b, s) /\ b < a
        BY <1>1, <1>4, <2>1, <2>2, <2>3 DEF InStep
      <4>2. b < a + 1
        <5> HIDE DEF a
        <5> QED BY <1>4, <4>1
      <4> QED BY <1>3, <2>1, <2>6, <4>1, <4>2 DEF Asked
    <3>3. InStep(send[c])'
      BY <1>1, <1>3, <2>6, <3>1, <3>2 DEF InStep
    <3> QED BY <1>2, <3>3 DEF Handshake, Contexts
  <2> QED BY Zenon, <1>5, <2>5, <2>6, MarkFacts
<1>6. CASE SendIpi(c)
  <2>1. /\ a \in APs /\ s.at = "ipi" /\ bit' = bit /\ ipi'[a]
        /\ send'[c].at = "loop" /\ send'[c].i = a + 1 /\ send'[c].mask = s.mask
        /\ send'[c].p4 = s.p4 /\ send'[c].seq = s.seq
    BY Zenon, <1>6, SendIpiFacts DEF SendIpi
  <2>2. \A b \in APs : b # a => ipi'[b] = ipi[b]
    BY Zenon, <1>6, SendIpiFacts
  <2>3. a \in s.mask /\ bit[a] /\ handler[a] = "idle" /\ ack[a] < s.seq
    BY <1>1, <2>1 DEF InStep, Asked
  <2>4. ASSUME NEW b \in s.mask PROVE Asked(b, send[c])' /\ b < a + 1
    <3>1. b < a + 1
      BY <1>1, <1>4, <2>1 DEF InStep
    <3>2. CASE b = a
      BY <1>3, <2>1, <2>3, <3>1, <3>2 DEF Asked
    <3>3. CASE b # a
      BY <1>1, <1>3, <1>4, <2>1, <2>2, <3>1, <3>3 DEF Asked, InStep
    <3> QED BY <3>2, <3>3
  <2>5. \A b \in APs \ s.mask : Unasked(b)' /\ ack'[b] < s.seq
    BY <1>1, <1>3, <2>1, <2>2, <2>3 DEF InStep, Unasked
  <2>6. s.p4 = Boot => \A b \in APs : b < a + 1 => b \in s.mask
    BY <1>1, <1>4, <2>3 DEF InStep
  <2>7. InStep(send[c])'
    BY <1>1, <1>3, <2>1, <2>4, <2>5, <2>6 DEF InStep
  <2> QED BY <1>2, <2>7 DEF Handshake, Contexts
<1> QED BY <1>5, <1>6

\* A processor serves its interrupt for the one send under way.
LEMMA HandlerKeepsHandshake ==
  ASSUME TypeOK, Handshake, NEW a \in APs, Flush(a) \/ ClearBit(a) \/ LoadSeq(a) \/ StoreAck(a)
  PROVE  Handshake'
<1>1. PICK c \in Contexts : Sending(c)
  BY DEF Handshake, Unasked, Flush, ClearBit, LoadSeq, StoreAck
<1> DEFINE s == send[c]
<1>2. InStep(s) /\ \A d \in Contexts : d # c => ~Sending(d)
  BY <1>1 DEF Handshake, Contexts
<1>3. send' = send /\ seq' = seq
  BY DEF Flush, ClearBit, LoadSeq, StoreAck
<1>4. a \in s.mask
  <2>1. ~Unasked(a)
    BY DEF Unasked, Flush, ClearBit, LoadSeq, StoreAck
  <2> QED BY <1>2, <2>1 DEF InStep
<1>5. Asked(a, s) /\ (s.at = "ipi" => bit[s.i] /\ handler[s.i] = "idle")
  BY <1>2, <1>4 DEF InStep
<1>6. s.at = "ipi" => s.i # a
  BY <1>5 DEF Asked, Flush, ClearBit, LoadSeq, StoreAck
<1>7. \A b \in APs : b # a =>
          /\ bit'[b] = bit[b] /\ ipi'[b] = ipi[b] /\ handler'[b] = handler[b]
          /\ ack'[b] = ack[b] /\ loaded'[b] = loaded[b]
          /\ b \in stale' <=> b \in stale
  BY DEF Flush, ClearBit, LoadSeq, StoreAck, TypeOK
<1>8. Asked(a, s)'
  <2>1. s.seq = seq /\ s.seq \in Nat /\ ack[a] \in Nat
    BY <1>2 DEF InStep, TypeOK
  <2>2. CASE Flush(a)
    BY <1>3, <1>5, <1>6, <2>2 DEF Flush, Asked, TypeOK
  <2>3. CASE ClearBit(a)
    BY <1>3, <1>5, <2>3 DEF ClearBit, Asked, TypeOK
  <2>4. CASE LoadSeq(a)
    BY <1>3, <1>5, <2>1, <2>4 DEF LoadSeq, Asked, TypeOK
  <2>5. CASE StoreAck(a)
    BY <1>3, <1>5, <2>5 DEF StoreAck, Asked, TypeOK
  <2> QED BY <2>2, <2>3, <2>4, <2>5
<1>9. ASSUME NEW b \in s.mask PROVE Asked(b, s)'
  <2>1. b \in APs /\ Asked(b, s)
    BY <1>2 DEF InStep, TypeOK
  <2> QED BY <1>3, <1>7, <1>8, <2>1 DEF Asked
<1>10. ASSUME NEW b \in APs \ s.mask PROVE Unasked(b)' /\ ack'[b] < s.seq
  BY <1>2, <1>4, <1>7 DEF InStep, Unasked
<1>11. s.at = "ipi" => bit'[s.i] /\ handler'[s.i] = "idle"
  <2>1. s.at = "ipi" => s.i \in APs
    BY <1>2 DEF InStep, TypeOK
  <2> QED BY <1>5, <1>6, <1>7, <2>1
<1>12. InStep(s)'
  BY <1>2, <1>3, <1>9, <1>10, <1>11 DEF InStep
<1> QED BY <1>1, <1>2, <1>3, <1>12 DEF Handshake, Sending

\* When the send has its answers every processor it waited for has flushed, and
\* all are idle again.
LEMMA WaitDoneFacts ==
  ASSUME TypeOK, Calm, Handshake, NEW c \in Contexts, WaitDone(c)
  PROVE  Handshake' /\ (send[c].p4 = Boot => stale = {})
<1> DEFINE s == send[c]
<1>1. Sending(c) /\ s.i \notin APs /\ Answered(c) /\ Returns(c) /\ UNCHANGED <<bit, ipi, handler>>
  BY DEF WaitDone, LoopOver, CanSend, apVars
<1>2. InStep(s) /\ \A d \in Contexts : d # c => ~Sending(d)
  BY <1>1 DEF Handshake, Contexts
<1>3. \A a \in s.mask : ack[a] >= s.seq /\ ack[a] \in Nat /\ s.seq \in Nat /\ a \in APs
  BY <1>1 DEF Answered, Calm, TypeOK
<1>4. \A a \in s.mask : Unasked(a) /\ a \notin stale
  BY <1>2, <1>3 DEF InStep, Asked, Unasked
<1>5. \A a \in APs : Unasked(a)
  BY <1>2, <1>4 DEF InStep
<1>6. \A d \in Contexts : ~Sending(d)'
  <2>1. send'[c].at = "done" /\ \A d \in Contexts : d # c => send'[d] = send[d]
    BY Zenon, <1>1, ReturnsFacts
  <2> QED BY Zenon, <1>2, <2>1 DEF Sending
<1>7. Handshake'
  BY <1>1, <1>5, <1>6 DEF Handshake, Unasked, Contexts
<1>8. ASSUME s.p4 = Boot PROVE stale = {}
  <2>1. \A a \in APs : a < s.i
    BY <1>1, ShootdownAssumption DEF TypeOK, APs
  <2>2. \A a \in APs : a \in s.mask
    BY <1>2, <1>8, <2>1 DEF InStep
  <2> QED BY <1>4, <2>2 DEF TypeOK
<1> QED BY <1>7, <1>8

\* As long as the sends are calm, the processors answer the one under way.
LEMMA HandshakeStep ==
  ASSUME TypeOK, Senders, Calm, Handshake, [Next]_vars, Calm'
  PROVE  Handshake'
<1>1. ASSUME UNCHANGED <<send, seq, ack, loaded, bit, ipi, handler>>,
             (\E c \in Contexts : Sending(c)) => stale' = stale
      PROVE  Handshake'
  <2>1. \A c \in Contexts : Sending(c)' <=> Sending(c)
    BY <1>1 DEF Sending
  <2>2. \A a \in APs : Unasked(a)' <=> Unasked(a)
    BY <1>1 DEF Unasked
  <2>3. ASSUME NEW c \in Contexts, Sending(c) PROVE InStep(send[c])'
    <3>1. InStep(send[c]) /\ stale' = stale
      BY <1>1, <2>3 DEF Handshake
    <3>2. \A a \in send[c].mask : Asked(a, send[c])'
      BY Zenon, <1>1, <3>1 DEF InStep, Asked
    <3> QED BY <1>1, <2>2, <3>1, <3>2 DEF InStep
  <2> QED BY <2>1, <2>2, <2>3 DEF Handshake, Contexts
<1>2. ASSUME NEW p4 \in P4s, NEW enabled \in BOOLEAN, ChangePte(p4, enabled) PROVE Handshake'
  <2>1. \A c \in Contexts : ~Sending(c)
    BY <1>2 DEF ChangePte, ThreadRuns, Senders, Contexts
  <2> QED BY <1>1, <1>2, <2>1 DEF ChangePte, apVars
<1>3. CASE RequestNow \/ RequestPending \/ RequestCr3 \/ RequestStoreCr3 \/ RequestStoreDeadline
           \/ RequestStorePending
  BY <1>1, <1>3 DEF RequestNow, RequestPending, RequestCr3, RequestStoreCr3, RequestStoreDeadline,
                    RequestStorePending, apVars
<1>4. CASE RequestDeadline
  <2>1. \A c \in Contexts : ~Sending(c)
    BY <1>4 DEF RequestDeadline, ThreadRuns, Senders, Contexts
  <2>2. UNCHANGED <<bit, ipi, handler, loaded, ack, stale>>
    BY <1>4 DEF RequestDeadline, apVars
  <2>3. UNCHANGED <<seq, send>> \/ StartSend("thread", req.pending)
    BY <1>4 DEF RequestDeadline
  <2> QED BY <1>1, <2>1, <2>2, <2>3, StartKeepsHandshake DEF Contexts
<1>5. CASE Tick
  <2>1. UNCHANGED <<bit, ipi, handler, loaded, ack, stale>>
    BY <1>5 DEF Tick, apVars
  <2>2. CASE UNCHANGED <<seq, send>>
    BY <1>1, <2>1, <2>2
  <2>3. CASE StartSend("timer", slot.cr3) /\ nested' = (nested \/ Sending("thread"))
    <3>1. ~Sending("thread")
      BY Zenon, <2>3 DEF Calm
    <3>2. \A c \in Contexts : ~Sending(c)
      BY <1>5, <3>1 DEF Tick, ThreadRuns, Contexts
    <3> QED BY <2>1, <2>3, <3>2, StartKeepsHandshake DEF Contexts
  <2> QED BY <1>5, <2>2, <2>3 DEF Tick
<1>6. ASSUME NEW c \in Contexts PROVE ~WaitTimeout(c)
  <2>1. WaitTimeout(c) => unresp' # {}
    BY DEF WaitTimeout, Answered, TypeOK
  <2> QED BY <2>1 DEF Calm
<1>7. CASE UNCHANGED vars
  BY <1>1, <1>7 DEF vars, apVars
<1> QED BY Zenon, <1>2, <1>3, <1>4, <1>5, <1>6, <1>7, MarkKeepsHandshake, HandlerKeepsHandshake,
           WaitDoneFacts DEF Next, Request
-----------------------------------------------------------------------------
\* The steps of the request: a change is covered by the request until the slot
\* holds it, and what the slot held is sent before it is overwritten.
LEMMA RequestCovers ==
  ASSUME TypeOK, Senders, Cover, Request
  PROVE  Cover'
<1> USE ShootdownAssumption
<1>0. /\ ~Sending("thread") \/ req.at = "storeCr3"
      /\ ~Sending("timer") /\ stale' = stale
  BY DEF Request, RequestNow, RequestPending, RequestCr3, RequestDeadline, RequestStoreCr3,
         RequestStoreDeadline, RequestStorePending, ThreadRuns, Senders
<1>2. CASE RequestNow \/ RequestPending \/ RequestCr3
  <2>1. /\ req'.p4 = req.p4 /\ slot' = slot /\ send' = send
        /\ req.at = "now" => req'.at = "pending"
        /\ req.at = "pending" => req'.at = IF slot.pending THEN "cr3" ELSE "storeCr3"
        /\ req.at = "cr3" => req'.at = "deadline"
        /\ req.at \in {"now", "pending", "cr3"}
    BY ZenonT(60), <1>2 DEF RequestNow, RequestPending, RequestCr3, TypeOK
  <2>2. \A c \in Contexts : ~Sending(c)
    BY <1>0, <2>1 DEF Contexts
  <2> QED BY <1>0, <2>1, <2>2 DEF Cover
<1>3. CASE RequestDeadline
  <2>1. \A c \in Contexts : ~Sending(c)
    BY <1>0, <1>3 DEF RequestDeadline, Contexts
  <2>2. slot' = slot /\ req.at = "deadline" /\ req.pending = slot.cr3
    BY <1>3 DEF RequestDeadline, Senders
  <2>3. CASE Coalesces(req) /\ req' = NoRequest
    BY <1>0, <2>1, <2>2, <2>3 DEF Cover, Coalesces, NoRequest
  <2>4. CASE req' = [req EXCEPT !.at = "storeCr3"] /\ StartSend("thread", req.pending)
    <3>1. req'.at = "storeCr3" /\ req'.p4 = req.p4
      BY <2>4 DEF TypeOK
    <3>2. send'["thread"].p4 = slot.cr3 /\ send'["thread"].at = "loop" /\ "thread" \in Contexts
      BY <2>2, <2>4, StartSendFacts DEF Contexts
    <3> QED BY <1>0, <2>1, <2>2, <3>1, <3>2 DEF Cover, Sending
  <2> QED BY <1>3, <2>3, <2>4 DEF RequestDeadline
<1>4. CASE RequestStoreCr3 \/ RequestStoreDeadline
  <2>1. /\ send' = send /\ req'.p4 = req.p4 /\ req.at \in {"storeCr3", "storeDeadline"}
        /\ req'.at \in {"storeDeadline", "storePending"} /\ ~Sending("thread")
    BY <1>0, <1>4 DEF RequestStoreCr3, RequestStoreDeadline, TypeOK
  <2>2. \A c \in Contexts : ~Sending(c)
    BY <1>0, <2>1 DEF Contexts
  <2> QED BY <1>0, <2>1, <2>2 DEF Cover
<1>5. CASE RequestStorePending
  <2>1. /\ send' = send /\ req.at = "storePending" /\ req'.at = "idle" /\ slot'.pending
        /\ slot'.cr3 = slot.cr3 /\ ~Sending("thread")
    BY <1>0, <1>5 DEF RequestStorePending, TypeOK, NoRequest
  <2>2. \A c \in Contexts : ~Sending(c)
    BY <1>0, <2>1 DEF Contexts
  <2>3. stale = {} \/ slot.cr3 = Boot
    BY <2>1, <2>2 DEF Cover, Senders
  <2> QED BY <1>0, <2>1, <2>3 DEF Cover
<1> QED BY <1>2, <1>3, <1>4, <1>5 DEF Request

\* As long as the sends are calm, something is going to flush what is stale.
LEMMA CoverStep ==
  ASSUME TypeOK, Senders, Calm, Handshake, Cover, [Next]_vars, Calm'
  PROVE  Cover'
<1>1. ASSUME UNCHANGED <<slot, req>>, stale' \subseteq stale,
             \A c \in Contexts : /\ Sending(c) => Sending(c)' 
                                /\ send'[c].p4 = send[c].p4
      PROVE  Cover'
  BY <1>1 DEF Cover
<1>2. ASSUME NEW p4 \in P4s, NEW enabled \in BOOLEAN, ChangePte(p4, enabled) PROVE Cover'
  <2>1. \A c \in Contexts : ~Sending(c)
    BY <1>2 DEF ChangePte, ThreadRuns, Senders, Contexts
  <2>2. /\ slot' = slot /\ req.at = "idle" /\ req'.p4 = p4
        /\ req'.at = IF APs = {} THEN "idle" ELSE "now"
        /\ stale' = stale \cup {a \in APs : Boot = p4}
    BY <1>2 DEF ChangePte, TypeOK, CurrentCr3
  <2>3. CASE APs = {}
    BY <2>2, <2>3 DEF Cover, TypeOK
  <2>4. CASE APs # {} /\ p4 = Boot
    BY <2>2, <2>4 DEF Cover
  <2>5. CASE APs # {} /\ p4 # Boot
    BY <2>1, <2>2, <2>5 DEF Cover
  <2> QED BY <2>3, <2>4, <2>5
<1>3. CASE Tick
  <2>1. UNCHANGED <<slot, req, stale>>
    BY <1>3 DEF Tick
  <2>2. CASE send' = send
    BY <1>1, <2>1, <2>2 DEF Sending
  <2>3. CASE StartSend("timer", slot.cr3)
    <3>1. ~Sending("timer")
      BY <1>3 DEF Tick, ThreadRuns
    <3> QED BY <2>1, <2>3, <3>1, StartSendFacts DEF Cover, Sending, Contexts
  <2> QED BY <1>3, <2>2, <2>3 DEF Tick
<1>4. ASSUME NEW c \in Contexts, Mark(c) \/ SendIpi(c) PROVE Cover'
  <2>1. UNCHANGED <<slot, req, stale>>
    BY ZenonT(60), <1>4 DEF Mark, SendIpi
  <2>2. \A d \in Contexts : (Sending(d) => Sending(d)') /\ send'[d].p4 = send[d].p4
    BY <1>4, MarkFacts, SendIpiFacts DEF Sending
  <2> QED BY <1>1, <2>1, <2>2
<1>5. ASSUME NEW c \in Contexts, WaitDone(c) PROVE Cover'
  <2>1. UNCHANGED <<req, stale>> /\ Returns(c) /\ Sending(c)
    BY <1>5 DEF WaitDone, LoopOver, CanSend
  <2>2. CASE send[c].p4 = Boot
    BY <1>5, <2>1, <2>2, WaitDoneFacts DEF Cover
  <2>3. CASE send[c].p4 # Boot
    <3>1. /\ slot'.cr3 = slot.cr3 /\ slot'.pending = IF c = "timer" THEN FALSE ELSE slot.pending
          /\ \A d \in Contexts : d # c => send'[d] = send[d]
      BY Zenon, <2>1, ReturnsFacts
    <3>2. c = "timer" => slot.cr3 # Boot
      BY <2>1, <2>3 DEF Senders
    <3> QED BY <2>1, <2>3, <3>1, <3>2 DEF Cover, Sending
  <2> QED BY <2>2, <2>3
<1>6. ASSUME NEW c \in Contexts PROVE ~WaitTimeout(c)
  <2>1. WaitTimeout(c) => unresp' # {}
    BY DEF WaitTimeout, Answered, TypeOK
  <2> QED BY <2>1 DEF Calm
<1>7. ASSUME NEW a \in APs, Flush(a) \/ ClearBit(a) \/ LoadSeq(a) \/ StoreAck(a) PROVE Cover'
  BY <1>1, <1>7 DEF Flush, ClearBit, LoadSeq, StoreAck, Sending
<1>8. CASE UNCHANGED vars
  BY Zenon, <1>1, <1>8 DEF vars, Sending
<1> QED BY Zenon, <1>2, <1>3, <1>4, <1>5, <1>6, <1>7, <1>8, RequestCovers DEF Next
-----------------------------------------------------------------------------
\* The inductive invariant: every change of the boot page table is covered by a
\* request, by the deferred slot or by a send, and the handshake of a send
\* with the processors is in step.
THEOREM Inductive == Spec => []IInv
<1>1. Init => IInv
  <2> SUFFICES ASSUME Init PROVE IInv
    OBVIOUS
  <2> USE ShootdownAssumption DEF Init
  <2>1. TypeOK
    <3>1. send \in [Contexts -> Sends]
      BY NoSendType
    <3>2. req \in [at : {"idle"}, p4 : P4s, now : 0 .. MaxTicks, pending : P4s]
      BY DEF NoRequest, P4s
    <3>3. slot \in [pending : BOOLEAN, cr3 : P4s, deadline : 0 .. MaxTicks]
      BY DEF P4s
    <3>4. /\ ack \in [APs -> Nat] /\ loaded \in [APs -> Nat]
          /\ bit \in [APs -> BOOLEAN] /\ ipi \in [APs -> BOOLEAN]
          /\ handler \in [APs -> {"idle", "flushed", "cleared", "loaded"}]
      OBVIOUS
    <3>5. ticks \in 0 .. MaxTicks /\ seq \in Nat /\ changes \in 0 .. MaxChanges
      OBVIOUS
    <3>6. /\ irq \in BOOLEAN /\ nested \in BOOLEAN
          /\ unresp \subseteq APs /\ stale \subseteq APs
      BY Zenon
    <3> HIDE DEF Init
    <3> QED BY <3>1, <3>2, <3>3, <3>4, <3>5, <3>6 DEF TypeOK, Sends
  <2>2. \A c \in Contexts : send[c].at = "done"
    BY DEF NoSend
  <2>3. Senders
    BY <2>2 DEF Senders, Sending, Contexts, NoRequest
  <2>4. PendingBitServed
    BY DEF PendingBitServed
  <2>5. Handshake /\ Cover
    BY <2>2 DEF Handshake, Cover, Sending, Unasked, Contexts
  <2> QED BY <2>1, <2>3, <2>4, <2>5 DEF IInv
<1>2. IInv /\ [Next]_vars => IInv'
  <2> SUFFICES ASSUME IInv, [Next]_vars PROVE IInv'
    OBVIOUS
  <2>1. TypeOK' /\ Senders' /\ PendingBitServed'
    BY TypeStep, SendersStep, BitStep DEF IInv
  <2>2. Calm' => Handshake' /\ Cover'
    BY CalmBefore, HandshakeStep, CoverStep DEF IInv
  <2> QED BY <2>1, <2>2 DEF IInv
<1> QED BY <1>1, <1>2, PTL DEF Spec

\* The types are kept, for any number of processors.
THEOREM TypeCorrect == Spec => []TypeOK
<1>1. IInv => TypeOK
  BY DEF IInv
<1> QED BY Inductive, <1>1, PTL

\* IPI_TLB_BIT is never orphaned, even when waits time out and the timer sends
\* in the middle of the thread's send: no processor is left out of the later
\* shootdowns.
THEOREM BitAlwaysServed == Spec => []PendingBitServed
<1>1. IInv => PendingBitServed
  BY DEF IInv
<1> QED BY Inductive, <1>1, PTL

\* Once tlb_shootdown_request has returned and nothing is deferred, every
\* processor has flushed, as long as the sends are calm.
THEOREM QuietAlwaysFlushed == Spec => []QuietMeansFlushed
<1>1. IInv => QuietMeansFlushed
  <2> SUFFICES ASSUME IInv, Calm, req.at = "idle", ~Sending("timer"), ~slot.pending
               PROVE  stale = {}
    BY DEF QuietMeansFlushed
  <2>1. ~Sending("thread")
    BY DEF IInv, Senders
  <2> QED BY <2>1 DEF IInv, Cover, Contexts
<1> QED BY Inductive, <1>1, PTL
=============================================================================
