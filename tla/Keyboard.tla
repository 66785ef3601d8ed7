------------------------------ MODULE Keyboard ------------------------------
(***************************************************************************)
(* The PS/2 keyboard (src/kernel_driver_hub/src/driver_hub/keyboard.rs):   *)
(* the ring of scancodes that the interrupt handler fills and a reader     *)
(* empties, the decoder, and the fallback of sys_read that polls the       *)
(* controller until the first interrupt has been seen.                     *)
(*                                                                         *)
(* The reader runs with interrupts enabled: the handler may run between    *)
(* any two accesses it makes to what they share.  Tasks give up the        *)
(* processor only where they sleep, so there is one reader at a time.      *)
(*                                                                         *)
(* A scancode is the make or break code of a key, the prefix 0xE0 or the   *)
(* acknowledgement 0xFA; all keys but the modifiers give one character.    *)
(***************************************************************************)
EXTENDS Integers, Sequences

CONSTANTS Keys,        \* the keys there are: "shift", "ctrl", "caps", "r" and others
          Symbols,     \* those with another character when shifted
          Extended,    \* those whose codes have the prefix
          BufSize,     \* BUF_SIZE
          OutLen,      \* the length of the reader's buffer
          MaxEvents    \* bound: keys pressed, repeated and released

ASSUME KeyboardAssumption ==
    /\ Symbols \subseteq Keys /\ Extended \subseteq Keys /\ "none" \notin Keys
    /\ BufSize \in Nat \ {0, 1} /\ OutLen \in Nat \ {0} /\ MaxEvents \in Nat

VARIABLES
    out,        \* the bytes in the controller's output buffer
    last,       \* the byte a read of the empty buffer returns
    irq,        \* the keyboard interrupt is requested
    held,       \* keys held down
    repeats,    \* the key pressed last, while it is held, or None
    lock,       \* ghost: caps lock, as often as its key was pressed
    events,     \* keys pressed, repeated and released so far
    buf, head, tail,   \* BUF, HEAD, TAIL
    active,     \* IRQ_INPUT_ACTIVE
    shift, caps, ctrl, lastMake,   \* SHIFT, CAPS_LOCK, CTRL, LAST_MAKE
    reader,     \* the task in sys_read: [at, code, head, count, poll]
    typed,      \* ghost: the characters typed, by key and variant
    echo,       \* ghost: the characters read
    upset       \* ghost: what has disturbed the input so far

vars == <<out, last, irq, held, repeats, lock, events, buf, head, tail, active, shift, caps, ctrl,
          lastMake, reader, typed, echo, upset>>
hardware == <<out, last, irq, held, repeats, lock, events, typed>>
ring == <<buf, head, tail>>
decoder == <<shift, caps, ctrl, lastMake, echo>>

None == "none"
Modifiers == {"shift", "ctrl", "caps"}

\* scancode_to_ascii: shift decides between two symbols, caps lock between two
\* letters.
Character(k, shiftOn, capsOn) == [key |-> k, other |-> IF k \in Symbols THEN shiftOn ELSE capsOn]

Make(k) == [kind |-> "make", key |-> k]
Break(k) == [kind |-> "break", key |-> k]
Prefix == [kind |-> "prefix", key |-> None]
Ack == [kind |-> "ack", key |-> None]

Idle == [at |-> "idle", code |-> Ack, head |-> 0, count |-> 0, poll |-> FALSE]
Next1(i) == (i + 1) % BufSize

Init ==
    /\ out \in {<<>>, <<Ack>>}
    /\ last = Ack
    /\ irq = (out # <<>>)
    /\ held = {} /\ repeats = None /\ lock = FALSE /\ events = 0
    /\ buf = [i \in 0 .. BufSize - 1 |-> Ack] /\ head = 0 /\ tail = 0
    /\ active \in BOOLEAN
    /\ shift = FALSE /\ caps = FALSE /\ ctrl = FALSE /\ lastMake = None
    /\ reader = Idle
    /\ typed = <<>> /\ echo = <<>>
    /\ upset = {}
-----------------------------------------------------------------------------
(***************************************************************************)
(* The keyboard and its controller                                         *)
(***************************************************************************)
Emit(code) ==
    /\ out' = out \o (IF code.key \in Extended THEN <<Prefix, code>> ELSE <<code>>)
    /\ irq' = TRUE
    /\ events < MaxEvents /\ events' = events + 1
    /\ UNCHANGED <<last, ring, active, decoder, reader, upset>>

Press(k) ==
    /\ k \notin held
    /\ held' = held \cup {k}
    /\ repeats' = k
    /\ lock' = IF k = "caps" THEN ~lock ELSE lock
    /\ typed' = IF k \in Modifiers THEN typed
                ELSE Append(typed, Character(k, "shift" \in held, lock))
    /\ Emit(Make(k))

\* The key pressed last repeats for as long as it is held; those pressed before
\* it do not repeat after its release.
Repeat ==
    /\ repeats # None
    /\ UNCHANGED <<held, repeats, lock, typed>>
    /\ Emit(Make(repeats))

Release(k) ==
    /\ k \in held
    /\ held' = held \ {k}
    /\ repeats' = IF repeats = k THEN None ELSE repeats
    /\ UNCHANGED <<lock, typed>>
    /\ Emit(Break(k))

\* What a read of the data port returns.
Port == IF out = <<>> THEN last ELSE Head(out)

\* The read, after which the next byte moves up and requests an interrupt.
ReadPort(requested) ==
    /\ out' = IF out = <<>> THEN out ELSE Tail(out)
    /\ last' = Port
    /\ irq' = (requested \/ Len(out) > 1)
    /\ UNCHANGED <<held, repeats, lock, events, typed>>
-----------------------------------------------------------------------------
(***************************************************************************)
(* The interrupt                                                           *)
(***************************************************************************)
RingFull(h, t) == Next1(h) = t

\* The reader is between a read of the port, or its status, and the store to
\* HEAD that ends its push.
Polling == reader.at \in {"data", "push", "pushTail", "pushBuf", "pushHead"}

\* irq_scancode: feed_scancode and wake_one
Interrupt ==
    /\ irq
    /\ ReadPort(FALSE)
    /\ LET fed == Port # Ack
           full == RingFull(head, tail)
       IN /\ active' = (active \/ fed)
          /\ IF fed /\ ~full
             THEN buf' = [buf EXCEPT ![head] = Port] /\ head' = Next1(head)
             ELSE UNCHANGED <<buf, head>>
          /\ upset' = upset \cup (IF fed /\ full THEN {"dropped"} ELSE {})
                            \cup (IF fed /\ Polling THEN {"overlapped"} ELSE {})
          /\ reader' = IF fed /\ reader.at = "asleep" THEN [reader EXCEPT !.at = "wait"] ELSE reader
    /\ UNCHANGED <<tail, decoder>>
-----------------------------------------------------------------------------
(***************************************************************************)
(* sys_read on standard input                                              *)
(***************************************************************************)
Goto(at) == reader' = [reader EXCEPT !.at = at]

StartRead ==
    /\ reader.at = "idle"
    /\ Goto("check")
    /\ UNCHANGED <<hardware, ring, active, decoder, upset>>

\* The device is read once interrupts have been seen, else it is polled.
CheckActive ==
    /\ reader.at = "check"
    /\ reader' = [reader EXCEPT !.at = IF active THEN "pop" ELSE "status", !.poll = ~active,
                                !.count = 0]
    /\ UNCHANGED <<hardware, ring, active, decoder, upset>>

\* poll_hardware_nonblock
PollStatus ==
    /\ reader.at = "status"
    /\ Goto(IF out = <<>> THEN "pop" ELSE "data")
    /\ UNCHANGED <<hardware, ring, active, decoder, upset>>

PollData ==
    /\ reader.at = "data"
    /\ ReadPort(irq)
    /\ reader' = [reader EXCEPT !.code = Port, !.at = IF Port = Ack THEN "status" ELSE "push"]
    /\ UNCHANGED <<ring, active, decoder, upset>>

\* push_scancode, access by access
PushHead ==
    /\ reader.at = "push"
    /\ reader' = [reader EXCEPT !.head = head, !.at = "pushTail"]
    /\ UNCHANGED <<hardware, ring, active, decoder, upset>>

PushTail ==
    /\ reader.at = "pushTail"
    /\ \/ /\ RingFull(reader.head, tail)
          /\ Goto("status")
          /\ upset' = upset \cup {"dropped"}
       \/ /\ ~RingFull(reader.head, tail)
          /\ Goto("pushBuf")
          /\ UNCHANGED upset
    /\ UNCHANGED <<hardware, ring, active, decoder>>

PushBuf ==
    /\ reader.at = "pushBuf"
    /\ buf' = [buf EXCEPT ![reader.head] = reader.code]
    /\ Goto("pushHead")
    /\ UNCHANGED <<hardware, head, tail, active, decoder, upset>>

PushStore ==
    /\ reader.at = "pushHead"
    /\ head' = Next1(reader.head)
    /\ Goto("status")
    /\ UNCHANGED <<hardware, buf, tail, active, decoder, upset>>
-----------------------------------------------------------------------------
(***************************************************************************)
(* read_bytes                                                              *)
(***************************************************************************)
\* What follows the last scancode: the buffer is full or the ring is empty.
\* IoDevice::read then sleeps if it read nothing; sys_read yields and looks again.
Stop(count) ==
    reader' = IF count > 0 THEN Idle
              ELSE IF reader.poll THEN [Idle EXCEPT !.at = "check"]
              ELSE [Idle EXCEPT !.at = "wait"]

\* pop_scancode: TAIL has one writer, the reader; HEAD is read once.
PopHead ==
    /\ reader.at = "pop"
    /\ IF tail = head THEN Stop(reader.count) ELSE Goto("popBuf")
    /\ UNCHANGED <<hardware, ring, active, decoder, upset>>

PopBuf ==
    /\ reader.at = "popBuf"
    /\ reader' = [reader EXCEPT !.code = buf[tail], !.at = "popTail"]
    /\ UNCHANGED <<hardware, ring, active, decoder, upset>>

\* One scancode more, n characters of it.
Decoded(n) ==
    IF reader.count + n = OutLen THEN Stop(reader.count + n)
    ELSE reader' = [reader EXCEPT !.at = "pop", !.code = Ack, !.count = @ + n]

\* handle_key_release
KeyRelease(k) ==
    /\ lastMake' = IF lastMake = k THEN None ELSE lastMake
    /\ shift' = (shift /\ k # "shift")
    /\ ctrl' = (ctrl /\ k # "ctrl")

\* Mutant of Debounced: every make code counts.
DebouncedNot(k) == FALSE
Debounced(k) == lastMake = k

\* A make code that is not debounced
KeyPress(k) ==
    /\ lastMake' = k
    /\ shift' = (shift \/ k = "shift")
    /\ ctrl' = (ctrl \/ k = "ctrl")
    /\ caps' = IF k = "caps" THEN ~caps ELSE caps
    /\ echo' = IF k \in Modifiers THEN echo ELSE Append(echo, Character(k, shift, caps))
    /\ Decoded(IF k \in Modifiers THEN 0 ELSE 1)
    /\ UNCHANGED upset

\* Ctrl+R, the first half of reset_input_state
Recover ==
    /\ shift' = FALSE /\ ctrl' = FALSE /\ lastMake' = None
    /\ upset' = upset \cup {"recovered"}
    /\ Goto("resetHead")
    /\ UNCHANGED <<caps, echo>>

Decode(c) ==
    \/ /\ c.kind = "prefix" \/ (c.kind = "make" /\ Debounced(c.key))
       /\ Decoded(0)
       /\ UNCHANGED <<decoder, upset>>
    \/ /\ c.kind = "break"
       /\ KeyRelease(c.key)
       /\ Decoded(0)
       /\ UNCHANGED <<caps, echo, upset>>
    \/ /\ c.kind = "make" /\ ~Debounced(c.key)
       /\ IF c.key = "r" /\ ctrl THEN Recover ELSE KeyPress(c.key)

PopTail ==
    /\ reader.at = "popTail"
    /\ tail' = Next1(tail)
    /\ Decode(reader.code)
    /\ UNCHANGED <<hardware, buf, head, active>>

\* The second half of reset_input_state: HEAD is read, then stored to TAIL.
ResetHead ==
    /\ reader.at = "resetHead"
    /\ reader' = [reader EXCEPT !.head = head, !.at = "resetTail"]
    /\ UNCHANGED <<hardware, ring, active, decoder, upset>>

ResetTail ==
    /\ reader.at = "resetTail"
    /\ tail' = reader.head
    /\ reader' = [reader EXCEPT !.at = "pop", !.code = Ack, !.head = 0]
    /\ UNCHANGED <<hardware, buf, head, active, decoder, upset>>

\* Mutant of Wait: the reader sleeps whatever the ring holds.
WaitAlways ==
    /\ reader.at = "wait"
    /\ Goto("asleep")
    /\ UNCHANGED <<hardware, ring, active, decoder, upset>>
\* wait_while looks at the ring and enqueues the task with interrupts disabled.
Wait ==
    /\ reader.at = "wait"
    /\ Goto(IF tail = head THEN "asleep" ELSE "pop")
    /\ UNCHANGED <<hardware, ring, active, decoder, upset>>
-----------------------------------------------------------------------------
PressSome == \E k \in Keys : Press(k)
ReleaseSome == \E k \in Keys : Release(k)

\* Every step of the task after it has called sys_read.
Read ==
    \/ CheckActive \/ PollStatus \/ PollData
    \/ PushHead \/ PushTail \/ PushBuf \/ PushStore
    \/ PopHead \/ PopBuf \/ PopTail \/ ResetHead \/ ResetTail
    \/ Wait

Next ==
    \/ PressSome \/ Repeat \/ ReleaseSome
    \/ Interrupt
    \/ StartRead
    \/ CheckActive \/ PollStatus \/ PollData
    \/ PushHead \/ PushTail \/ PushBuf \/ PushStore
    \/ PopHead \/ PopBuf \/ PopTail \/ ResetHead \/ ResetTail
    \/ Wait

Spec == Init /\ [][Next]_vars

\* A requested interrupt is served, a task that can run does, and the shell
\* reads its input again and again.
FairSpec == Spec /\ WF_vars(Interrupt) /\ WF_vars(Read) /\ WF_vars(StartRead)
-----------------------------------------------------------------------------
Codes == {Make(k) : k \in Keys} \cup {Break(k) : k \in Keys} \cup {Prefix, Ack}

\* The reader: fewer characters read than its buffer has room for.
Readers ==
    [at : {"idle", "check", "status", "data", "push", "pushTail", "pushBuf", "pushHead",
           "pop", "popBuf", "popTail", "resetHead", "resetTail", "wait", "asleep"},
     code : Codes, head : 0 .. BufSize - 1, count : 0 .. OutLen - 1, poll : BOOLEAN]

\* Everything is of its type: the ring's indices stay inside BUF, and the number
\* of characters read stays inside the reader's buffer.
TypeOK ==
    /\ out \in Seq(Codes) /\ last \in Codes /\ irq \in BOOLEAN
    /\ held \subseteq Keys /\ repeats \in held \cup {None} /\ lock \in BOOLEAN /\ events \in 0 .. MaxEvents
    /\ buf \in [0 .. BufSize - 1 -> Codes]
    /\ head \in 0 .. BufSize - 1 /\ tail \in 0 .. BufSize - 1
    /\ active \in BOOLEAN
    /\ shift \in BOOLEAN /\ caps \in BOOLEAN /\ ctrl \in BOOLEAN
    /\ lastMake \in Keys \cup {None}
    /\ reader \in Readers
    /\ \A s \in {typed, echo} : s \in Seq([key : Keys, other : BOOLEAN])
    /\ upset \subseteq {"dropped", "overlapped", "recovered"}

\* Every byte has been read from the controller, the ring and the decoder.
Quiet ==
    out = <<>> /\ ~irq /\ head = tail /\ reader.at \in {"idle", "check", "status", "pop", "wait", "asleep"}

\* Once the input is quiet the decoder agrees with the keyboard: a modifier is in
\* force, and a key is taken for a repeated one, only while it is held.  No byte
\* was dropped, none recovered from, and no interrupt arrived in a poll.
NoKeySticks ==
    Quiet /\ upset = {} =>
        /\ shift => "shift" \in held
        /\ ctrl => "ctrl" \in held
        /\ lastMake # None => lastMake \in held

\* The characters read are those typed, in order, each once however long its key
\* was held and with shift and caps lock as they were when it was pressed: all of
\* them once the input is quiet.
ReadsWhatIsTyped ==
    upset = {} =>
        /\ Len(echo) <= Len(typed) /\ echo = SubSeq(typed, 1, Len(echo))
        /\ Quiet => Len(echo) = Len(typed)

\* Every byte is read and decoded in the end, whether the task slept, polled or
\* was elsewhere when it arrived.
InputIsRead == (out # <<>> \/ head # tail) ~> Quiet

\* The decoder agrees with the keyboard: what is read is what was typed, and no
\* key sticks.
DecoderAgrees == TypeOK /\ NoKeySticks /\ ReadsWhatIsTyped
=============================================================================
