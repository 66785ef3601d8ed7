--------------------------- MODULE KeyboardProofs ---------------------------
(***************************************************************************)
(* What is typed is what is read, for any ring, any keys and any number of *)
(* events.                                                                 *)
(*                                                                         *)
(* The invariant decodes ahead: running the decoder over the bytes on      *)
(* their way, those in the ring, then the one in the reader's hand, then   *)
(* those in the controller, leads it to the state of the keyboard.  The    *)
(* byte last read from the controller changes nothing when it is decoded   *)
(* again, which is why a byte that a poll and its late interrupt both read *)
(* does no harm.                                                           *)
(***************************************************************************)
EXTENDS Keyboard, TLAPS

Chars == [key : Keys, other : BOOLEAN]

\* A state of the decoder; "dead" once Ctrl+R has thrown bytes away.
States == [shift : BOOLEAN, ctrl : BOOLEAN, caps : BOOLEAN, lastMake : Keys \cup {None},
           echo : Seq(Chars), dead : BOOLEAN]

Decoder == [shift |-> shift, ctrl |-> ctrl, caps |-> caps, lastMake |-> lastMake,
            echo |-> echo, dead |-> FALSE]

\* What decoding a byte does to the decoder.
Ignored(d, c) == d.dead \/ c.kind \in {"prefix", "ack"} \/ (c.kind = "make" /\ d.lastMake = c.key)
Released(d, k) ==
  [shift |-> d.shift /\ k # "shift", ctrl |-> d.ctrl /\ k # "ctrl", caps |-> d.caps,
   lastMake |-> IF d.lastMake = k THEN None ELSE d.lastMake, echo |-> d.echo, dead |-> d.dead]
Pressed(d, k) ==
  [shift |-> d.shift \/ k = "shift", ctrl |-> d.ctrl \/ k = "ctrl",
   caps |-> IF k = "caps" THEN ~d.caps ELSE d.caps, lastMake |-> k,
   echo |-> IF k \in Modifiers THEN d.echo ELSE Append(d.echo, Character(k, d.shift, d.caps)),
   dead |-> d.dead]
Feed(d, c) ==
  IF Ignored(d, c) THEN d
  ELSE IF c.kind = "break" THEN Released(d, c.key)
  ELSE IF c.key = "r" /\ d.ctrl THEN [d EXCEPT !.dead = TRUE]
  ELSE Pressed(d, c.key)

\* Sequence t begins with sequence s.
Starts(s, t) == Len(s) <= Len(t) /\ \A i \in 1 .. Len(s) : s[i] = t[i]

\* Decoding the bytes q leads from d to e, and what has been read only grows.
Run(d, q, e) ==
  \E r \in [0 .. Len(q) -> States] :
     /\ r[0] = d /\ r[Len(q)] = e
     /\ \A i \in 1 .. Len(q) : r[i] = Feed(r[i - 1], q[i])
     /\ \A i \in 0 .. Len(q) : Starts(r[i].echo, e.echo)

\* The bytes the reader has not decoded: those in the ring and the one it is
\* about to push.
Used == IF tail <= head THEN head - tail ELSE head - tail + BufSize
Slot(i) == IF tail + i < BufSize THEN tail + i ELSE tail + i - BufSize
Ring == [i \in 1 .. Used |-> buf[Slot(i - 1)]]
Pushing == reader.at \in {"push", "pushTail", "pushBuf", "pushHead"}
Undecoded == IF Pushing THEN Append(Ring, reader.code) ELSE Ring

\* The keyboard as the decoder sees it when it has caught up, unless it has
\* recovered on the way.
Keyed == [shift |-> "shift" \in held, ctrl |-> "ctrl" \in held, caps |-> lock,
          lastMake |-> repeats, echo |-> typed, dead |-> FALSE]
CaughtUp(e) == IF e.dead THEN Starts(e.echo, typed) ELSE e = Keyed

DecodesAhead ==
  \E m, e \in States : /\ Run(Decoder, Undecoded, m) /\ Feed(m, last) = m
                       /\ Run(m, out, e) /\ CaughtUp(e)

\* What the reader remembers of the ring is still so.
Reading ==
  /\ reader.at \in {"pushTail", "pushBuf", "pushHead"} => reader.head = head
  /\ reader.at \in {"pushBuf", "pushHead"} => ~RingFull(head, tail)
  /\ reader.at = "pushHead" => buf[head] = reader.code
  /\ reader.at \in {"popBuf", "popTail"} => tail # head
  /\ reader.at = "popTail" => reader.code = buf[tail]
  /\ reader.at \notin {"resetHead", "resetTail"}

Ahead == Reading /\ DecodesAhead

IInv == TypeOK /\ (upset = {} => Ahead)
-----------------------------------------------------------------------------
\* Codes are records of a kind and a key.
LEMMA CodeFacts ==
  ASSUME NEW c \in Codes
  PROVE  /\ c.kind \in {"make", "break", "prefix", "ack"}
         /\ c.kind \in {"make", "break"} => c.key \in Keys
BY DEF Codes, Make, Break, Prefix, Ack

\* A sequence begins with what it was before it was extended.
LEMMA StartsLonger ==
  ASSUME NEW s \in Seq(Chars), NEW c \in Chars
  PROVE  Starts(s, Append(s, c)) /\ Append(s, c) \in Seq(Chars)
BY DEF Starts

\* Starting with is transitive.
LEMMA StartsFurther ==
  ASSUME NEW s \in Seq(Chars), NEW t \in Seq(Chars), NEW u \in Seq(Chars), Starts(s, t), Starts(t, u)
  PROVE  Starts(s, u)
BY DEF Starts

\* A sequence begins with itself.
LEMMA StartsSelf == \A s \in Seq(Chars) : Starts(s, s)
BY DEF Starts

\* Decoding a byte keeps the decoder's type and what it has read, and decoding
\* it again changes nothing.
LEMMA FeedFacts ==
  ASSUME NEW d \in States, NEW c \in Codes
  PROVE  /\ Feed(d, c) \in States
         /\ Starts(d.echo, Feed(d, c).echo)
         /\ Feed(Feed(d, c), c) = Feed(d, c)
<1>1. c.kind \in {"make", "break", "prefix", "ack"} /\ (c.kind \in {"make", "break"} => c.key \in Keys)
  BY CodeFacts
<1>2. d.echo \in Seq(Chars) /\ Starts(d.echo, d.echo)
  BY StartsSelf DEF States
<1>3. CASE Ignored(d, c)
  BY <1>2, <1>3 DEF Feed
<1>4. CASE ~Ignored(d, c) /\ c.kind = "break"
  <2> DEFINE e == Released(d, c.key)
  <2>1. Feed(d, c) = e
    BY <1>4 DEF Feed
  <2>2. e \in States /\ e.echo = d.echo /\ e.dead = d.dead
    BY <1>1, <1>4 DEF Released, States
  <2>3. Released(e, c.key) = e
    BY <1>1, <1>4, KeyboardAssumption DEF Released, States, None
  <2>4. Feed(e, c) = e
    BY <1>4, <2>3 DEF Feed
  <2> QED BY <1>2, <2>1, <2>2, <2>4
<1>5. CASE ~Ignored(d, c) /\ c.kind # "break" /\ c.key = "r" /\ d.ctrl
  <2> DEFINE e == [d EXCEPT !.dead = TRUE]
  <2>1. Feed(d, c) = e /\ e \in States /\ e.echo = d.echo /\ e.dead
    BY Zenon, <1>5 DEF Feed, States
  <2>2. Feed(e, c) = e
    BY <2>1 DEF Feed, Ignored
  <2> QED BY <1>2, <2>1, <2>2
<1>6. CASE ~Ignored(d, c) /\ c.kind # "break" /\ ~(c.key = "r" /\ d.ctrl)
  <2> DEFINE e == Pressed(d, c.key)
  <2>1. Feed(d, c) = e /\ c.kind = "make" /\ c.key \in Keys
    BY <1>1, <1>6 DEF Feed, Ignored
  <2>2. Character(c.key, d.shift, d.caps) \in Chars
    BY <2>1 DEF Character, Chars, States
  <2>3. e \in States /\ e.lastMake = c.key
    <3> DEFINE x == IF c.key \in Modifiers THEN d.echo ELSE Append(d.echo, Character(c.key, d.shift, d.caps))
    <3>1. x \in Seq(Chars)
      BY <1>2, <2>2, StartsLonger
    <3> DEFINE a == d.shift \/ c.key = "shift"
               b == d.ctrl \/ c.key = "ctrl"
               l == IF c.key = "caps" THEN ~d.caps ELSE d.caps
    <3>2. a \in BOOLEAN /\ b \in BOOLEAN /\ l \in BOOLEAN /\ d.dead \in BOOLEAN
      BY Zenon DEF States
    <3>3. e = [shift |-> a, ctrl |-> b, caps |-> l, lastMake |-> c.key, echo |-> x, dead |-> d.dead]
      BY DEF Pressed
    <3> HIDE DEF x, e, a, b, l
    <3> QED BY <2>1, <3>1, <3>2, <3>3 DEF States
  <2>4. Starts(d.echo, e.echo)
    <3>1. e.echo = d.echo \/ e.echo = Append(d.echo, Character(c.key, d.shift, d.caps))
      BY <2>1 DEF Pressed, States
    <3> QED BY Zenon, <1>2, <2>2, <3>1, StartsLonger
  <2>5. Feed(e, c) = e
    BY <2>1, <2>3 DEF Feed, Ignored
  <2> QED BY <2>1, <2>3, <2>4, <2>5
<1> QED BY <1>3, <1>4, <1>5, <1>6

\* Nothing to decode.
LEMMA RunNothing ==
  /\ \A d \in States : Run(d, <<>>, d)
  /\ \A d, e : Run(d, <<>>, e) => d = e
<1>1. ASSUME NEW d \in States PROVE Run(d, <<>>, d)
  <2> DEFINE r == [i \in 0 .. 0 |-> d]
  <2>1. Len(<<>>) = 0 /\ r \in [0 .. 0 -> States] /\ r[0] = d
    OBVIOUS
  <2>2. \A i \in 0 .. 0 : Starts(r[i].echo, d.echo)
    BY <2>1, StartsSelf DEF States
  <2> HIDE DEF r
  <2>3. \A i \in 1 .. 0 : r[i] = Feed(r[i - 1], <<>>[i])
    OBVIOUS
  <2> QED BY <2>1, <2>2, <2>3 DEF Run
<1>2. ASSUME NEW d, NEW e, Run(d, <<>>, e) PROVE d = e
  BY <1>2 DEF Run
<1> QED BY <1>1, <1>2

\* The first byte is decoded.
LEMMA RunFirst ==
  ASSUME NEW q \in Seq(Codes), q # <<>>, NEW d, NEW e, Run(d, q, e)
  PROVE  Run(Feed(d, Head(q)), Tail(q), e)
<1>1. PICK r \in [0 .. Len(q) -> States] :
        /\ r[0] = d /\ r[Len(q)] = e
        /\ \A i \in 1 .. Len(q) : r[i] = Feed(r[i - 1], q[i])
        /\ \A i \in 0 .. Len(q) : Starts(r[i].echo, e.echo)
  BY DEF Run
<1> DEFINE n == Len(q) - 1
           t == [i \in 0 .. n |-> r[i + 1]]
<1>2. n \in Nat /\ Len(Tail(q)) = n /\ Len(q) \in Nat /\ Head(q) = q[1] /\ \A i \in 1 .. n : Tail(q)[i] = q[i + 1]
  OBVIOUS
<1>3. t \in [0 .. n -> States] /\ t[n] = e
  BY <1>1, <1>2
<1>4. t[0] = Feed(d, Head(q))
  BY <1>1, <1>2
<1>5. \A i \in 1 .. n : t[i] = Feed(t[i - 1], Tail(q)[i])
  <2> TAKE i \in 1 .. n
  <2>1. i + 1 \in 1 .. Len(q) /\ i - 1 \in 0 .. n /\ i \in 0 .. n
    BY <1>2
  <2>2. r[i + 1] = Feed(r[(i + 1) - 1], q[i + 1]) /\ (i + 1) - 1 = (i - 1) + 1
    BY <1>1, <2>1
  <2> QED BY <1>2, <2>1, <2>2
<1>6. \A i \in 0 .. n : Starts(t[i].echo, e.echo)
  BY <1>1, <1>2
<1> HIDE DEF t, n
<1> QED BY Zenon, <1>2, <1>3, <1>4, <1>5, <1>6 DEF Run

\* Another byte arrives.
LEMMA RunLast ==
  ASSUME NEW q \in Seq(Codes), NEW d, NEW e \in States, Run(d, q, e), NEW c \in Codes
  PROVE  Run(d, Append(q, c), Feed(e, c))
<1>1. PICK r \in [0 .. Len(q) -> States] :
        /\ r[0] = d /\ r[Len(q)] = e
        /\ \A i \in 1 .. Len(q) : r[i] = Feed(r[i - 1], q[i])
        /\ \A i \in 0 .. Len(q) : Starts(r[i].echo, e.echo)
  BY DEF Run
<1> DEFINE n == Len(q)
           f == Feed(e, c)
           p == Append(q, c)
           t == [i \in 0 .. n + 1 |-> IF i = n + 1 THEN f ELSE r[i]]
<1>2. n \in Nat /\ Len(p) = n + 1 /\ p[n + 1] = c /\ \A i \in 1 .. n : p[i] = q[i]
  OBVIOUS
<1>3. f \in States /\ Starts(e.echo, f.echo)
  BY FeedFacts
<1>4. t \in [0 .. n + 1 -> States] /\ t[0] = d /\ t[n + 1] = f
  BY <1>1, <1>2, <1>3
<1>5. \A i \in 1 .. n + 1 : t[i] = Feed(t[i - 1], p[i])
  <2> TAKE i \in 1 .. n + 1
  <2>1. i - 1 \in 0 .. n /\ t[i - 1] = r[i - 1]
    BY <1>2
  <2>2. CASE i = n + 1
    BY <1>1, <1>2, <1>4, <2>1, <2>2
  <2>3. CASE i # n + 1
    BY <1>1, <1>2, <2>1, <2>3
  <2> QED BY <2>2, <2>3
<1>6. \A i \in 0 .. n + 1 : Starts(t[i].echo, f.echo)
  <2> TAKE i \in 0 .. n + 1
  <2>1. CASE i = n + 1
    BY <1>3, <1>4, <2>1, StartsSelf DEF States
  <2>2. CASE i # n + 1
    <3>1. i \in 0 .. n /\ t[i] = r[i] /\ r[i] \in States
      BY <1>2, <2>2
    <3>2. Starts(r[i].echo, e.echo)
      BY <1>1, <3>1
    <3> QED BY <1>3, <3>1, <3>2, StartsFurther DEF States
  <2> QED BY <2>1, <2>2
<1> HIDE DEF t, n, f, p
<1>7. Run(d, p, f)
  BY Zenon, <1>2, <1>4, <1>5, <1>6 DEF Run
<1> QED BY <1>7 DEF p, f
-----------------------------------------------------------------------------
\* The next index without the modulus.
LEMMA NextIndex ==
  ASSUME NEW i \in 0 .. BufSize - 1
  PROVE  Next1(i) = (IF i + 1 = BufSize THEN 0 ELSE i + 1) /\ Next1(i) \in 0 .. BufSize - 1
BY KeyboardAssumption DEF Next1

\* The bytes of the ring are a sequence, empty when the indices meet.
LEMMA RingType ==
  ASSUME TypeOK
  PROVE  /\ Ring \in Seq(Codes) /\ Len(Ring) = Used /\ Used \in Nat
         /\ \A i \in 1 .. Used : Slot(i - 1) \in 0 .. BufSize - 1
         /\ head = tail => Ring = <<>>
<1> USE KeyboardAssumption
<1>1. Used \in Nat /\ Used < BufSize /\ (head = tail => Used = 0)
  BY DEF TypeOK, Used
<1>2. \A i \in 1 .. Used : Slot(i - 1) \in 0 .. BufSize - 1
  BY <1>1 DEF TypeOK, Slot
<1>3. Ring \in [1 .. Used -> Codes]
  BY <1>2 DEF TypeOK, Ring
<1> QED BY <1>1, <1>2, <1>3 DEF Ring

\* A push into a ring that is not full appends a byte.
LEMMA RingPush ==
  ASSUME TypeOK, TypeOK', ~RingFull(head, tail), tail' = tail, head' = Next1(head),
         \A j \in 0 .. BufSize - 1 : j # head => buf'[j] = buf[j]
  PROVE  Ring' = Append(Ring, buf'[head])
<1> USE KeyboardAssumption
<1>1. Next1(head) = (IF head + 1 = BufSize THEN 0 ELSE head + 1) /\ Next1(head) # tail
  <2>1. head \in 0 .. BufSize - 1
    BY DEF TypeOK
  <2> QED BY <2>1, NextIndex, Zenon DEF RingFull
<1>2. PICK n \in Nat : n = Used
  BY RingType
<1>3. Used' = n + 1
  BY <1>1, <1>2 DEF Used, TypeOK
<1>4. \A i \in 1 .. n : Slot(i - 1)' = Slot(i - 1) /\ Slot(i - 1) # head /\ Slot(i - 1) \in 0 .. BufSize - 1
  BY <1>2 DEF Used, Slot, TypeOK
<1>5. Slot(n)' = head
  BY <1>1, <1>2 DEF Used, Slot, TypeOK
<1>6. Ring \in Seq(Codes) /\ Len(Ring) = n
  BY <1>2, RingType
<1>7. Ring' = [i \in 1 .. n + 1 |-> buf'[Slot(i - 1)']]
  BY <1>3 DEF Ring, Slot
<1>8. \A i \in 1 .. n : buf'[Slot(i - 1)'] = Ring[i]
  BY <1>2, <1>4 DEF Ring
<1>9. (n + 1) - 1 = n
  BY <1>2
<1>10. Append(Ring, buf'[head]) = [i \in 1 .. n + 1 |-> IF i = n + 1 THEN buf'[head] ELSE Ring[i]]
  BY <1>6
<1> QED BY <1>2, <1>5, <1>7, <1>8, <1>9, <1>10

\* A sequence is the function of its elements.
LEMMA SequenceAsFunction ==
  ASSUME NEW S, NEW s \in Seq(S)
  PROVE  s = [i \in 1 .. Len(s) |-> s[i]]
OBVIOUS

\* A pop from a ring that is not empty takes its first byte.
LEMMA RingPop ==
  ASSUME TypeOK, head # tail, tail' = Next1(tail), head' = head, buf' = buf
  PROVE  Ring # <<>> /\ Head(Ring) = buf[tail] /\ Ring' = Tail(Ring)
<1> USE KeyboardAssumption
<1>1. Next1(tail) = IF tail + 1 = BufSize THEN 0 ELSE tail + 1
  BY NextIndex DEF TypeOK
<1>2. PICK n \in Nat : n = Used
  BY RingType
<1>3. Used' = n - 1 /\ n >= 1
  BY <1>1, <1>2 DEF Used, TypeOK
<1>4. \A i \in 1 .. n - 1 : Slot(i - 1)' = Slot(i)
  BY <1>1, <1>2 DEF Used, Slot, TypeOK
<1>5. Slot(0) = tail
  BY DEF Slot, TypeOK
<1>6. Ring \in Seq(Codes) /\ Len(Ring) = n
  BY <1>2, RingType
<1>7. Ring[1] = buf[tail]
  BY <1>2, <1>3, <1>5 DEF Ring
<1>8. Ring' = [i \in 1 .. n - 1 |-> buf[Slot(i - 1)']]
  BY <1>3 DEF Ring, Slot
<1>9. \A i \in 1 .. n - 1 : Ring[i + 1] = buf[Slot(i)]
  BY <1>2 DEF Ring
<1>10. Tail(Ring) = [i \in 1 .. n - 1 |-> Ring[i + 1]]
  <2>1. Ring # <<>>
    BY <1>3, <1>6
  <2>2. /\ Tail(Ring) \in Seq(Codes) /\ Len(Tail(Ring)) = n - 1
        /\ \A i \in 1 .. n - 1 : Tail(Ring)[i] = Ring[i + 1]
    BY <1>3, <1>6, <2>1
  <2> DEFINE t == Tail(Ring)
  <2> HIDE DEF t
  <2>3. t = [i \in 1 .. Len(t) |-> t[i]]
    BY Zenon, <2>2, SequenceAsFunction DEF t
  <2> QED BY <1>2, <2>2, <2>3 DEF t
<1>11. Ring' = Tail(Ring)
  BY ZenonT(60), <1>4, <1>8, <1>9, <1>10
<1> QED BY <1>3, <1>6, <1>7, <1>11
-----------------------------------------------------------------------------
\* The bytes of an event are codes.
LEMMA EmitType ==
  ASSUME TypeOK, NEW c \in Codes, Emit(c)
  PROVE  /\ out' \in Seq(Codes) /\ irq' \in BOOLEAN /\ events' \in 0 .. MaxEvents
         /\ UNCHANGED <<last, buf, head, tail, active, shift, caps, ctrl, lastMake, echo, reader, upset>>
<1>1. Prefix \in Codes
  BY DEF Codes
<1>2. out' \in Seq(Codes)
  BY <1>1 DEF Emit, TypeOK
<1>3. irq' \in BOOLEAN
  BY DEF Emit
<1> QED BY <1>2, <1>3, KeyboardAssumption DEF Emit, TypeOK, ring, decoder

\* The keyboard keeps the types.
LEMMA KeyType ==
  ASSUME TypeOK, PressSome \/ Repeat \/ ReleaseSome
  PROVE  TypeOK' /\ UNCHANGED reader
<1>1. ASSUME NEW k \in Keys PROVE Make(k) \in Codes /\ Break(k) \in Codes
  BY DEF Codes
<1>2. CASE Repeat
  <2>1. repeats \in Keys
    BY <1>2 DEF Repeat, TypeOK
  <2>2. Emit(Make(repeats)) /\ UNCHANGED <<held, repeats, lock, typed>>
    BY <1>2 DEF Repeat
  <2> QED BY Zenon, <1>1, <2>1, <2>2, EmitType DEF TypeOK
<1>3. ASSUME NEW k \in Keys, Release(k) PROVE TypeOK' /\ UNCHANGED reader
  <2>1. Emit(Break(k)) /\ UNCHANGED <<lock, typed>>
    BY <1>3 DEF Release
  <2>2. held' \subseteq Keys /\ repeats' \in held' \cup {None}
    BY <1>3 DEF Release, TypeOK
  <2> QED BY Zenon, <1>1, <2>1, <2>2, EmitType DEF TypeOK
<1>4. ASSUME NEW k \in Keys, Press(k) PROVE TypeOK' /\ UNCHANGED reader
  <2>1. Emit(Make(k))
    BY <1>4 DEF Press
  <2>2. held' \subseteq Keys /\ repeats' \in held' \cup {None}
    BY <1>4 DEF Press, TypeOK
  <2>3. lock' \in BOOLEAN
    BY Zenon, <1>4 DEF Press, TypeOK
  <2>4. ASSUME NEW a \in BOOLEAN, NEW b \in BOOLEAN PROVE Character(k, a, b) \in Chars
    BY DEF Character, Chars
  <2>5. typed \in Seq(Chars) /\ lock \in BOOLEAN
    BY DEF TypeOK, Chars
  <2>6. Character(k, "shift" \in held, lock) \in Chars
    <3>1. ("shift" \in held) \in BOOLEAN
      OBVIOUS
    <3> QED BY <2>4, <2>5, <3>1, Zenon
  <2>7. typed' \in Seq(Chars)
    BY <1>4, <2>5, <2>6 DEF Press
  <2> QED BY Zenon, <1>1, <2>1, <2>2, <2>3, <2>7, EmitType DEF TypeOK, Chars
<1> QED BY <1>2, <1>3, <1>4 DEF PressSome, ReleaseSome

\* A read of the port gives a code.
LEMMA PortType ==
  ASSUME TypeOK, NEW b \in BOOLEAN, ReadPort(b)
  PROVE  /\ Port \in Codes /\ last' = Port /\ out' \in Seq(Codes) /\ irq' \in BOOLEAN
         /\ UNCHANGED <<held, repeats, lock, events, typed>>
<1>1. Port \in Codes
  BY DEF Port, TypeOK
<1>2. out' \in Seq(Codes)
  BY DEF ReadPort, TypeOK
<1> QED BY <1>1, <1>2 DEF ReadPort

\* The interrupt keeps the types.
LEMMA InterruptType ==
  ASSUME TypeOK, Interrupt
  PROVE  TypeOK'
<1>1. ReadPort(FALSE) /\ UNCHANGED <<tail, shift, caps, ctrl, lastMake, echo>>
  BY Zenon DEF Interrupt, decoder
<1>2. /\ Port \in Codes /\ last' = Port /\ out' \in Seq(Codes) /\ irq' \in BOOLEAN
      /\ UNCHANGED <<held, repeats, lock, events, typed>>
  BY Zenon, <1>1, PortType
<1>3. active' \in BOOLEAN
  BY Zenon DEF Interrupt, TypeOK
<1>4. buf' \in [0 .. BufSize - 1 -> Codes] /\ head' \in 0 .. BufSize - 1
  BY Zenon, <1>2, NextIndex DEF Interrupt, TypeOK
<1>5. upset' \subseteq {"dropped", "overlapped", "recovered"}
  BY DEF Interrupt, TypeOK
<1>6. reader' \in Readers
  <2>1. reader' = reader \/ reader' = [reader EXCEPT !.at = "wait"]
    BY Zenon DEF Interrupt
  <2> QED BY ZenonT(60), <2>1 DEF TypeOK, Readers
<1> QED BY <1>1, <1>2, <1>3, <1>4, <1>5, <1>6 DEF TypeOK

\* The reader stays a reader wherever it goes next.
LEMMA StopType ==
  ASSUME TypeOK, NEW n, Stop(n)
  PROVE  reader' \in Readers /\ reader'.at \in {"idle", "check", "wait"}
<1>1. Ack \in Codes
  BY DEF Codes
<1>2. Idle \in Readers /\ [Idle EXCEPT !.at = "check"] \in Readers /\ [Idle EXCEPT !.at = "wait"] \in Readers
  <2>1. Idle \in Readers
    BY <1>1, KeyboardAssumption DEF Idle, Readers
  <2>2. \A r \in Readers : [r EXCEPT !.at = "check"] \in Readers /\ [r EXCEPT !.at = "wait"] \in Readers
    BY DEF Readers
  <2> QED BY <2>1, <2>2, Zenon
<1>3. Idle.at = "idle" /\ [Idle EXCEPT !.at = "check"].at = "check" /\ [Idle EXCEPT !.at = "wait"].at = "wait"
  BY DEF Idle
<1>4. reader' = Idle \/ reader' = [Idle EXCEPT !.at = "check"] \/ reader' = [Idle EXCEPT !.at = "wait"]
  BY DEF Stop
<1> QED BY Zenon, <1>2, <1>3, <1>4

\* Another scancode, or the end of the call: the count stays below the buffer's length.
LEMMA DecodedType ==
  ASSUME TypeOK, NEW n \in {0, 1}, Decoded(n)
  PROVE  reader' \in Readers /\ reader'.at \in {"pop", "idle", "check", "wait"}
<1>1. CASE reader.count + n = OutLen
  BY <1>1, StopType DEF Decoded
<1>2. CASE reader.count + n # OutLen
  <2>1. reader' = [reader EXCEPT !.at = "pop", !.code = Ack, !.count = @ + n] /\ Ack \in Codes
    BY <1>2 DEF Decoded, Codes
  <2>2. reader.count + n \in 0 .. OutLen - 1
    BY <1>2, KeyboardAssumption DEF TypeOK, Readers
  <2> QED BY Zenon, <2>1, <2>2 DEF TypeOK, Readers
<1> QED BY <1>1, <1>2

\* The steps of the reader that touch neither controller nor decoder keep the
\* types.
LEMMA ReaderType ==
  ASSUME TypeOK,
         \/ StartRead \/ CheckActive \/ PollStatus \/ PushHead \/ PushTail \/ PushBuf \/ PushStore
         \/ PopHead \/ PopBuf \/ ResetHead \/ ResetTail \/ Wait
  PROVE  TypeOK'
<1> USE DEF hardware, ring, decoder
<1>1. CASE StartRead \/ PollStatus \/ Wait
  <2>1. PICK a \in {"check", "pop", "data", "asleep"} : reader' = [reader EXCEPT !.at = a]
    BY <1>1 DEF StartRead, PollStatus, Wait, Goto
  <2>2. reader' \in Readers
    BY Zenon, <2>1 DEF TypeOK, Readers
  <2> QED BY ZenonT(60), <1>1, <2>2 DEF TypeOK, StartRead, PollStatus, Wait
<1>2. CASE CheckActive
  <2>1. PICK a \in {"pop", "status"}, p \in BOOLEAN :
          reader' = [reader EXCEPT !.at = a, !.poll = p, !.count = 0]
    <3>1. (~active) \in BOOLEAN /\ (IF active THEN "pop" ELSE "status") \in {"pop", "status"}
      OBVIOUS
    <3> QED BY <1>2, <3>1, Zenon DEF CheckActive
  <2>2. reader' \in Readers
    <3>1. 0 \in 0 .. OutLen - 1 /\ reader \in Readers
      BY KeyboardAssumption DEF TypeOK
    <3> QED BY Zenon, <2>1, <3>1 DEF Readers
  <2> QED BY <1>2, <2>2 DEF TypeOK, CheckActive
<1>3. CASE PushHead \/ ResetHead
  <2>1. reader' \in Readers
    BY ZenonT(60), <1>3 DEF PushHead, ResetHead, TypeOK, Readers
  <2> QED BY <1>3, <2>1 DEF TypeOK, PushHead, ResetHead
<1>4. CASE PushTail
  <2>1. reader' \in Readers
    BY <1>4 DEF PushTail, Goto, TypeOK, Readers
  <2>2. upset' \subseteq {"dropped", "overlapped", "recovered"}
    BY Zenon, <1>4 DEF PushTail, TypeOK
  <2> QED BY <1>4, <2>1, <2>2 DEF TypeOK, PushTail
<1>5. CASE PushBuf
  <2>1. reader' \in Readers
    BY Zenon, <1>5 DEF PushBuf, Goto, TypeOK, Readers
  <2>2. buf' \in [0 .. BufSize - 1 -> Codes]
    BY <1>5 DEF PushBuf, TypeOK, Readers
  <2> QED BY <1>5, <2>1, <2>2 DEF TypeOK, PushBuf
<1>6. CASE PushStore
  <2>1. reader' \in Readers
    BY Zenon, <1>6 DEF PushStore, Goto, TypeOK, Readers
  <2>2. reader.head \in 0 .. BufSize - 1
    BY DEF TypeOK, Readers
  <2>3. head' \in 0 .. BufSize - 1
    BY <1>6, <2>2, NextIndex DEF PushStore
  <2> QED BY <1>6, <2>1, <2>3 DEF TypeOK, PushStore
<1>7. CASE PopHead
  <2>1. reader' \in Readers
    BY ZenonT(60), <1>7, StopType DEF PopHead, Goto, TypeOK, Readers
  <2> QED BY <1>7, <2>1 DEF TypeOK, PopHead
<1>8. CASE PopBuf
  <2>1. reader' \in Readers
    BY Zenon, <1>8 DEF PopBuf, TypeOK, Readers
  <2> QED BY <1>8, <2>1 DEF TypeOK, PopBuf
<1>9. CASE ResetTail
  <2>1. reader' \in Readers
    <3>1. Ack \in Codes /\ 0 \in 0 .. BufSize - 1
      BY KeyboardAssumption DEF Codes
    <3> QED BY Zenon, <1>9, <3>1 DEF ResetTail, TypeOK, Readers
  <2>2. reader.head \in 0 .. BufSize - 1
    BY DEF TypeOK, Readers
  <2> QED BY <1>9, <2>1, <2>2 DEF TypeOK, ResetTail
<1> QED BY <1>1, <1>2, <1>3, <1>4, <1>5, <1>6, <1>7, <1>8, <1>9

\* A poll of the port keeps the types.
LEMMA PollDataType ==
  ASSUME TypeOK, PollData
  PROVE  TypeOK'
<1>1. irq \in BOOLEAN /\ ReadPort(irq) /\ UNCHANGED <<ring, active, decoder, upset>>
  BY DEF PollData, TypeOK
<1>2. /\ Port \in Codes /\ last' = Port /\ out' \in Seq(Codes) /\ irq' \in BOOLEAN
      /\ UNCHANGED <<held, repeats, lock, events, typed>>
  BY <1>1, PortType
<1>3. reader' \in Readers
  <2>1. PICK a \in {"status", "push"} : reader' = [reader EXCEPT !.code = Port, !.at = a]
    BY Zenon DEF PollData
  <2> QED BY Zenon, <1>2, <2>1 DEF TypeOK, Readers
<1> QED BY <1>1, <1>2, <1>3 DEF TypeOK, ring, decoder

\* The decoder has a state.
LEMMA DecoderType ==
  TypeOK => Decoder \in States
BY DEF TypeOK, Decoder, States, Chars

\* Decoding a scancode is what Feed says of it, unless it is Ctrl+R.
LEMMA DecodeStep ==
  ASSUME TypeOK, NEW c \in Codes, Decode(c)
  PROVE  /\ shift' \in BOOLEAN /\ caps' \in BOOLEAN /\ ctrl' \in BOOLEAN
         /\ lastMake' \in Keys \cup {None} /\ echo' \in Seq(Chars) /\ reader' \in Readers
         /\ upset' \in {upset, upset \cup {"recovered"}}
         /\ \/ "recovered" \in upset'
            \/ Decoder' = Feed(Decoder, c) /\ reader'.at \in {"pop", "idle", "check", "wait"}
<1>1. c.kind \in {"make", "break", "prefix", "ack"} /\ (c.kind \in {"make", "break"} => c.key \in Keys)
  BY CodeFacts
<1>2. Feed(Decoder, c) \in States
  BY DecoderType, FeedFacts
<1>3. ASSUME Decoder' = Feed(Decoder, c), NEW n \in {0, 1}, Decoded(n), UNCHANGED upset
      PROVE  /\ shift' \in BOOLEAN /\ caps' \in BOOLEAN /\ ctrl' \in BOOLEAN
             /\ lastMake' \in Keys \cup {None} /\ echo' \in Seq(Chars) /\ reader' \in Readers
             /\ upset' \in {upset, upset \cup {"recovered"}}
             /\ \/ "recovered" \in upset'
                \/ Decoder' = Feed(Decoder, c) /\ reader'.at \in {"pop", "idle", "check", "wait"}
  <2>1. Decoder' \in States
    BY <1>2, <1>3
  <2>2. /\ Decoder'.shift = shift' /\ Decoder'.caps = caps' /\ Decoder'.ctrl = ctrl'
        /\ Decoder'.lastMake = lastMake' /\ Decoder'.echo = echo'
    BY DEF Decoder
  <2>3. /\ shift' \in BOOLEAN /\ caps' \in BOOLEAN /\ ctrl' \in BOOLEAN
        /\ lastMake' \in Keys \cup {None} /\ echo' \in Seq(Chars)
    BY <2>1, <2>2 DEF States
  <2> QED BY <1>3, <2>3, DecodedType
<1>8. /\ Decoder.shift = shift /\ Decoder.ctrl = ctrl /\ Decoder.caps = caps
      /\ Decoder.lastMake = lastMake /\ Decoder.echo = echo /\ Decoder.dead = FALSE
  BY DEF Decoder
<1>4. CASE /\ c.kind = "prefix" \/ (c.kind = "make" /\ Debounced(c.key))
           /\ Decoded(0) /\ UNCHANGED <<decoder, upset>>
  <2>1. Decoder' = Decoder
    BY <1>4 DEF Decoder, decoder
  <2>2. Feed(Decoder, c) = Decoder
    BY <1>4 DEF Feed, Ignored, Decoder, Debounced
  <2> QED BY <1>3, <1>4, <2>1, <2>2
<1>5. CASE c.kind = "break" /\ KeyRelease(c.key) /\ Decoded(0) /\ UNCHANGED <<caps, echo, upset>>
  <2>1. Decoder' = Released(Decoder, c.key)
    <3>1. Decoder' = [shift |-> shift', ctrl |-> ctrl', caps |-> caps', lastMake |-> lastMake',
                      echo |-> echo', dead |-> FALSE]
      BY DEF Decoder
    <3> QED BY <1>5, <1>8, <3>1, Zenon DEF KeyRelease, Released
  <2>2. Feed(Decoder, c) = Released(Decoder, c.key)
    BY <1>5 DEF Feed, Ignored, Decoder
  <2> QED BY <1>3, <1>5, <2>1, <2>2
<1>6. CASE c.kind = "make" /\ ~Debounced(c.key) /\ ~(c.key = "r" /\ ctrl) /\ KeyPress(c.key)
  <2>1. Decoder' = Pressed(Decoder, c.key)
    <3>1. Decoder' = [shift |-> shift', ctrl |-> ctrl', caps |-> caps', lastMake |-> lastMake',
                      echo |-> echo', dead |-> FALSE]
      BY DEF Decoder
    <3> QED BY <1>6, <1>8, <3>1, Zenon DEF KeyPress, Pressed
  <2>2. Feed(Decoder, c) = Pressed(Decoder, c.key)
    BY <1>6 DEF Feed, Ignored, Decoder, Debounced
  <2>3. PICK n \in {0, 1} : Decoded(n)
    BY <1>6 DEF KeyPress
  <2> QED BY <1>3, <1>6, <2>1, <2>2, <2>3 DEF KeyPress
<1>7. CASE Recover
  <2>1. reader' \in Readers
    BY Zenon, <1>7 DEF Recover, Goto, TypeOK, Readers
  <2> QED BY Zenon, <1>7, <2>1 DEF Recover, TypeOK, Chars
<1> QED BY <1>4, <1>5, <1>6, <1>7 DEF Decode

\* A step of the decoder keeps the types.
LEMMA PopTailType ==
  ASSUME TypeOK, PopTail
  PROVE  TypeOK'
<1>1. reader.code \in Codes
  BY DEF TypeOK, Readers
<1>2. /\ shift' \in BOOLEAN /\ caps' \in BOOLEAN /\ ctrl' \in BOOLEAN
      /\ lastMake' \in Keys \cup {None} /\ echo' \in Seq(Chars) /\ reader' \in Readers
      /\ upset' \in {upset, upset \cup {"recovered"}}
  BY <1>1, DecodeStep DEF PopTail
<1>3. tail' \in 0 .. BufSize - 1
  BY NextIndex DEF PopTail, TypeOK
<1>4. UNCHANGED <<hardware, buf, head, active>>
  BY DEF PopTail
<1> QED BY <1>2, <1>3, <1>4 DEF TypeOK, Chars, hardware

\* Every step keeps the types.
LEMMA TypeStep ==
  ASSUME TypeOK, [Next]_vars
  PROVE  TypeOK'
<1>1. CASE UNCHANGED vars
  BY <1>1 DEF TypeOK, vars
<1> QED BY <1>1, KeyType, InterruptType, ReaderType, PollDataType, PopTailType, Zenon DEF Next
-----------------------------------------------------------------------------
\* Nothing on its way and nothing typed: the decoder is as far as it was.
LEMMA AheadSteady ==
  ASSUME DecodesAhead, UNCHANGED <<out, last, held, repeats, lock, typed, decoder>>, Undecoded' = Undecoded
  PROVE  DecodesAhead'
<1>1. PICK m \in States, e \in States : /\ Run(Decoder, Undecoded, m) /\ Feed(m, last) = m
                                        /\ Run(m, out, e) /\ CaughtUp(e)
  BY DEF DecodesAhead
<1>2. Decoder' = Decoder
  BY Zenon DEF Decoder, decoder
<1>3. CaughtUp(e)' /\ Feed(m, last') = m /\ Run(m, out', e)
  BY <1>1 DEF CaughtUp, Keyed
<1> QED BY <1>1, <1>2, <1>3, Zenon DEF DecodesAhead

\* What is not decoded is a sequence of codes.
LEMMA UndecodedType ==
  TypeOK => Undecoded \in Seq(Codes)
<1> SUFFICES ASSUME TypeOK PROVE Undecoded \in Seq(Codes)
  OBVIOUS
<1>1. Ring \in Seq(Codes) /\ reader.code \in Codes
  BY RingType DEF TypeOK, Readers
<1> HIDE DEF Ring
<1> QED BY <1>1 DEF Undecoded

\* A byte read from the controller takes the decoder one byte further; the
\* acknowledgement takes it nowhere.
LEMMA AheadRead ==
  ASSUME TypeOK, DecodesAhead, NEW b \in BOOLEAN, ReadPort(b)
  PROVE  \E m, e \in States :
            /\ Run(Decoder, Append(Undecoded, Port), m)
            /\ Port = Ack => Run(Decoder, Undecoded, m)
            /\ Feed(m, last') = m /\ Run(m, out', e) /\ CaughtUp(e)'
<1>1. PICK m \in States, e \in States : /\ Run(Decoder, Undecoded, m) /\ Feed(m, last) = m
                                        /\ Run(m, out, e) /\ CaughtUp(e)
  BY DEF DecodesAhead
<1>2. Port \in Codes /\ last' = Port /\ UNCHANGED <<held, repeats, lock, typed>>
  BY PortType
<1>3. Feed(m, Port) \in States /\ Feed(Feed(m, Port), Port) = Feed(m, Port)
  BY <1>2, FeedFacts
<1>4. Run(Decoder, Append(Undecoded, Port), Feed(m, Port))
  BY <1>1, <1>2, UndecodedType, RunLast
<1>5. Port = Ack => Feed(m, Port) = m
  BY DEF Feed, Ignored, Ack
<1>6. Run(Feed(m, Port), out', e)
  <2>1. CASE out = <<>>
    BY <1>1, <2>1 DEF ReadPort, Port
  <2>2. CASE out # <<>>
    <3>1. Port = Head(out) /\ out' = Tail(out) /\ out \in Seq(Codes)
      <4>1. out \in Seq(Codes)
        BY ZenonT(60) DEF TypeOK
      <4> QED BY <2>2, <4>1, Zenon DEF ReadPort, Port
    <3> QED BY <1>1, <2>2, <3>1, RunFirst
  <2> QED BY <2>1, <2>2
<1>7. CaughtUp(e)'
  BY <1>1, <1>2 DEF CaughtUp, Keyed
<1> QED BY <1>1, <1>2, <1>3, <1>4, <1>5, <1>6, <1>7, Zenon

\* A byte sent by the keyboard is one more to decode.
LEMMA AheadEmit ==
  ASSUME TypeOK, DecodesAhead, NEW c \in Codes, Emit(c),
         ASSUME NEW e \in States, CaughtUp(e) PROVE CaughtUp(Feed(e, c))'
  PROVE  DecodesAhead'
<1>1. PICK m \in States, e \in States : /\ Run(Decoder, Undecoded, m) /\ Feed(m, last) = m
                                        /\ Run(m, out, e) /\ CaughtUp(e)
  BY DEF DecodesAhead
<1>2. UNCHANGED <<last, buf, head, tail, shift, caps, ctrl, lastMake, echo, reader>>
  BY DEF Emit, ring, decoder
<1>3. Decoder' = Decoder /\ Undecoded' = Undecoded
  BY <1>2 DEF Decoder, Undecoded, Ring, Used, Slot, Pushing
<1>4. Feed(e, c) \in States /\ CaughtUp(Feed(e, c))'
  BY <1>1, FeedFacts
<1>5. out \in Seq(Codes) /\ Prefix \in Codes
  BY DEF TypeOK, Codes
<1>6. Run(m, out', Feed(e, c))
  <2>1. CASE c.key \notin Extended
    <3>1. out' = Append(out, c)
      BY <1>5, <2>1 DEF Emit
    <3> QED BY <1>1, <1>5, <3>1, RunLast
  <2>2. CASE c.key \in Extended
    <3>1. out' = Append(Append(out, Prefix), c) /\ Append(out, Prefix) \in Seq(Codes)
      BY <1>5, <2>2 DEF Emit
    <3>2. Feed(e, Prefix) = e
      BY DEF Feed, Ignored, Prefix
    <3>3. Run(m, Append(out, Prefix), e)
      BY <1>1, <1>5, <3>2, RunLast
    <3> QED BY Zenon, <3>1, <3>3, RunLast
  <2> QED BY <2>1, <2>2
<1> QED BY <1>1, <1>2, <1>3, <1>4, <1>6, Zenon DEF DecodesAhead

\* The fields of the keyboard's state.
LEMMA KeyedFields ==
  /\ Keyed.shift = ("shift" \in held) /\ Keyed.ctrl = ("ctrl" \in held) /\ Keyed.caps = lock
  /\ Keyed.lastMake = repeats /\ Keyed.echo = typed /\ Keyed.dead = FALSE
BY DEF Keyed

\* Pressing a key does to the keyboard what decoding its make code does.
LEMMA CaughtUpPress ==
  ASSUME TypeOK, TypeOK', NEW k \in Keys, Press(k), NEW e \in States, CaughtUp(e)
  PROVE  CaughtUp(Feed(e, Make(k)))'
<1>1. typed \in Seq(Chars) /\ typed' \in Seq(Chars) /\ e.echo \in Seq(Chars)
  BY DEF TypeOK, Chars, States
<1>2. Starts(typed, typed')
  <2>1. Character(k, "shift" \in held, lock) \in Chars
    <3>1. ("shift" \in held) \in BOOLEAN /\ lock \in BOOLEAN
      BY DEF TypeOK
    <3>2. ASSUME NEW a \in BOOLEAN, NEW b \in BOOLEAN PROVE Character(k, a, b) \in Chars
      BY DEF Character, Chars
    <3> QED BY <3>1, <3>2, Zenon
  <2>2. typed' = typed \/ typed' = Append(typed, Character(k, "shift" \in held, lock))
    BY DEF Press
  <2> QED BY Zenon, <1>1, <2>1, <2>2, StartsSelf, StartsLonger
<1>3. Make(k).kind = "make" /\ Make(k).key = k
  BY DEF Make
<1>4. CASE e.dead
  <2>1. Feed(e, Make(k)) = e
    BY <1>4 DEF Feed, Ignored
  <2>2. Starts(e.echo, typed')
    BY <1>1, <1>2, <1>4, StartsFurther DEF CaughtUp
  <2> QED BY <1>4, <2>1, <2>2 DEF CaughtUp
<1>5. CASE ~e.dead
  <2>1. e = Keyed
    BY <1>5 DEF CaughtUp
  <2>2. repeats # k
    BY KeyboardAssumption DEF Press, TypeOK, None
  <2>3. ~Ignored(e, Make(k))
    BY <1>3, <1>5, <2>1, <2>2, KeyedFields DEF Ignored
  <2>4. CASE k = "r" /\ e.ctrl
    <3>1. Feed(e, Make(k)) = [e EXCEPT !.dead = TRUE]
      BY <1>3, <2>3, <2>4 DEF Feed
    <3>2. [e EXCEPT !.dead = TRUE].dead = TRUE /\ [e EXCEPT !.dead = TRUE].echo = typed
      BY <2>1, KeyedFields DEF States
    <3> QED BY <1>2, <3>1, <3>2 DEF CaughtUp
  <2>5. CASE ~(k = "r" /\ e.ctrl)
    <3>1. Feed(e, Make(k)) = Pressed(e, k)
      BY <1>3, <2>3, <2>5, Zenon DEF Feed
    <3>2. Keyed' = [shift |-> "shift" \in held', ctrl |-> "ctrl" \in held', caps |-> lock',
                    lastMake |-> repeats', echo |-> typed', dead |-> FALSE]
      BY ZenonT(60) DEF Keyed
    <3>3. /\ ("shift" \in held') = ("shift" \in held \/ k = "shift")
          /\ ("ctrl" \in held') = ("ctrl" \in held \/ k = "ctrl")
      BY DEF Press
    <3>4. /\ lock' = (IF k = "caps" THEN ~lock ELSE lock) /\ repeats' = k
          /\ typed' = IF k \in Modifiers THEN typed ELSE Append(typed, Character(k, "shift" \in held, lock))
      BY DEF Press
    <3>5. Pressed(e, k) = Keyed'
      BY <2>1, <3>2, <3>3, <3>4, KeyedFields, Zenon DEF Pressed
    <3>6. Keyed'.dead = FALSE
      BY KeyedFields, <3>2
    <3> QED BY <3>1, <3>5, <3>6 DEF CaughtUp
  <2> QED BY <2>4, <2>5
<1> QED BY <1>4, <1>5

\* Releasing a key does to the keyboard what decoding its break code does.
LEMMA CaughtUpRelease ==
  ASSUME TypeOK, NEW k \in Keys, Release(k), NEW e \in States, CaughtUp(e)
  PROVE  CaughtUp(Feed(e, Break(k)))'
<1>1. Break(k).kind = "break" /\ Break(k).key = k
  BY DEF Break
<1>2. CASE e.dead
  <2>1. Feed(e, Break(k)) = e
    BY <1>2 DEF Feed, Ignored
  <2> QED BY <1>2, <2>1 DEF CaughtUp, Release
<1>3. CASE ~e.dead
  <2>1. e = Keyed
    BY <1>3 DEF CaughtUp
  <2>2. Feed(e, Break(k)) = Released(e, k)
    BY <1>1, <1>3 DEF Feed, Ignored
  <2>3. Keyed' = [shift |-> "shift" \in held', ctrl |-> "ctrl" \in held', caps |-> lock',
                  lastMake |-> repeats', echo |-> typed', dead |-> FALSE]
    BY DEF Keyed
  <2>4. /\ ("shift" \in held') = ("shift" \in held /\ k # "shift")
        /\ ("ctrl" \in held') = ("ctrl" \in held /\ k # "ctrl")
    BY DEF Release
  <2>5. lock' = lock /\ typed' = typed /\ repeats' = IF repeats = k THEN None ELSE repeats
    BY DEF Release
  <2>6. Released(e, k) = Keyed'
    BY <2>1, <2>3, <2>4, <2>5, KeyedFields, Zenon DEF Released
  <2>7. Keyed'.dead = FALSE
    BY ZenonT(60), <2>3
  <2> QED BY <2>2, <2>6, <2>7 DEF CaughtUp
<1> QED BY <1>2, <1>3

\* The decoder takes a repeated make code for one, as long as it has caught up.
LEMMA CaughtUpRepeat ==
  ASSUME Repeat, NEW k, k = repeats, NEW e \in States, CaughtUp(e)
  PROVE  CaughtUp(Feed(e, Make(k)))'
<1>1. Feed(e, Make(k)) = e
  BY KeyedFields DEF CaughtUp, Feed, Ignored, Make
<1> QED BY Zenon, <1>1 DEF CaughtUp, Keyed, Repeat

\* A store to the free slot changes nothing of what the ring holds.
LEMMA RingStore ==
  ASSUME TypeOK, head' = head, tail' = tail,
         \A j \in 0 .. BufSize - 1 : j # head => buf'[j] = buf[j]
  PROVE  Ring' = Ring
<1> USE KeyboardAssumption
<1>1. PICK n \in Nat : n = Used
  BY RingType
<1>2. Used' = n
  BY <1>1 DEF Used
<1>3. \A i \in 1 .. n : Slot(i - 1)' = Slot(i - 1) /\ Slot(i - 1) # head /\ Slot(i - 1) \in 0 .. BufSize - 1
  BY <1>1 DEF Used, Slot, TypeOK
<1>4. \A i \in 1 .. n : buf'[Slot(i - 1)'] = buf[Slot(i - 1)]
  BY <1>3
<1>5. Ring' = [i \in 1 .. n |-> buf'[Slot(i - 1)']]
  BY <1>2 DEF Ring, Slot
<1>6. Ring = [i \in 1 .. n |-> buf[Slot(i - 1)]]
  BY <1>1 DEF Ring
<1> QED BY <1>4, <1>5, <1>6

\* A key pressed, repeated or released keeps the decoder's way to the keyboard.
LEMMA KeyStep ==
  ASSUME TypeOK, TypeOK', Ahead, PressSome \/ Repeat \/ ReleaseSome
  PROVE  Ahead'
<1>1. ASSUME NEW k \in Keys PROVE Make(k) \in Codes /\ Break(k) \in Codes
  BY DEF Codes
<1>2. ASSUME NEW c \in Codes, Emit(c) PROVE Reading'
  BY <1>2 DEF Ahead, Reading, Emit, ring, RingFull
<1>3. ASSUME NEW k \in Keys, Press(k) PROVE Ahead'
  <2>1. Emit(Make(k)) /\ Make(k) \in Codes
    BY <1>1, <1>3 DEF Press
  <2>2. ASSUME NEW e \in States, CaughtUp(e) PROVE CaughtUp(Feed(e, Make(k)))'
    BY <1>3, <2>2, CaughtUpPress
  <2> QED BY Zenon, <1>2, <2>1, <2>2, AheadEmit DEF Ahead
<1>4. ASSUME NEW k \in Keys, Release(k) PROVE Ahead'
  <2>1. Emit(Break(k)) /\ Break(k) \in Codes
    BY <1>1, <1>4 DEF Release
  <2>2. ASSUME NEW e \in States, CaughtUp(e) PROVE CaughtUp(Feed(e, Break(k)))'
    BY <1>4, <2>2, CaughtUpRelease
  <2> QED BY Zenon, <1>2, <2>1, <2>2, AheadEmit DEF Ahead
<1>5. CASE Repeat
  <2>1. PICK k \in Keys : k = repeats
    BY <1>5 DEF Repeat, TypeOK
  <2>2. Emit(Make(k)) /\ Make(k) \in Codes
    BY <1>1, <1>5, <2>1 DEF Repeat
  <2>3. ASSUME NEW e \in States, CaughtUp(e) PROVE CaughtUp(Feed(e, Make(k)))'
    BY <1>5, <2>1, <2>3, CaughtUpRepeat
  <2> QED BY Zenon, <1>2, <2>2, <2>3, AheadEmit DEF Ahead
<1> QED BY <1>3, <1>4, <1>5 DEF PressSome, ReleaseSome

\* The interrupt that is neither dropped nor finds the reader in a poll moves a
\* byte from the controller to the ring; a late one, whose byte a poll has taken,
\* feeds that byte again.
LEMMA InterruptStep ==
  ASSUME TypeOK, TypeOK', Ahead, Interrupt, upset' = {}
  PROVE  Ahead'
<1>1. ReadPort(FALSE) /\ tail' = tail /\ Decoder' = Decoder
  BY Zenon DEF Interrupt, decoder, Decoder
<1>2. PICK m \in States, e \in States :
            /\ Run(Decoder, Append(Undecoded, Port), m)
            /\ Port = Ack => Run(Decoder, Undecoded, m)
            /\ Feed(m, last') = m /\ Run(m, out', e) /\ CaughtUp(e)'
  BY Zenon, <1>1, AheadRead DEF Ahead
<1>3. CASE Port = Ack
  <2>1. buf' = buf /\ head' = head /\ reader' = reader
    BY <1>3 DEF Interrupt
  <2>2. Undecoded' = Undecoded
    BY <1>1, <2>1 DEF Undecoded, Ring, Used, Slot, Pushing
  <2>3. Reading'
    BY <1>1, <2>1 DEF Ahead, Reading, RingFull
  <2> QED BY <1>1, <1>2, <1>3, <2>2, <2>3 DEF Ahead, DecodesAhead
<1>4. CASE Port # Ack
  <2>1. ~RingFull(head, tail) /\ ~Polling
    BY <1>4 DEF Interrupt
  <2>2. buf' = [buf EXCEPT ![head] = Port] /\ head' = Next1(head)
    BY <1>4, <2>1 DEF Interrupt
  <2>3. buf'[head] = Port /\ \A j \in 0 .. BufSize - 1 : j # head => buf'[j] = buf[j]
    BY <2>2 DEF TypeOK
  <2>4. Ring' = Append(Ring, Port)
    BY <1>1, <2>1, <2>2, <2>3, RingPush
  <2>5. reader' = reader \/ reader'.at = "wait"
    <3>1. reader' = reader \/ reader' = [reader EXCEPT !.at = "wait"]
      BY Zenon DEF Interrupt
    <3> QED BY <3>1 DEF TypeOK, Readers
  <2>6. reader'.at \notin {"data", "push", "pushTail", "pushBuf", "pushHead"}
    BY <2>1, <2>5 DEF Polling
  <2>7. Undecoded' = Append(Undecoded, Port)
    BY <2>1, <2>4, <2>6 DEF Undecoded, Pushing, Polling
  <2>8. Reading'
    <3>1. reader'.at \in {"popBuf", "popTail", "resetHead", "resetTail"} => reader' = reader
      BY <2>5
    <3>2. head' # tail' /\ (tail # head => buf'[tail] = buf[tail])
      BY <1>1, <2>1, <2>2, <2>3 DEF RingFull, TypeOK
    <3> QED BY <1>1, <2>6, <3>1, <3>2 DEF Ahead, Reading
  <2> QED BY <1>1, <1>2, <2>7, <2>8 DEF Ahead, DecodesAhead
<1> QED BY <1>3, <1>4

\* A poll takes a byte from the controller into the reader's hand.
LEMMA PollDataStep ==
  ASSUME TypeOK, TypeOK', Ahead, PollData
  PROVE  Ahead'
<1>1. irq \in BOOLEAN /\ ReadPort(irq) /\ UNCHANGED <<buf, head, tail>> /\ Decoder' = Decoder
  BY DEF PollData, TypeOK, ring, decoder, Decoder
<1>2. PICK m \in States, e \in States :
            /\ Run(Decoder, Append(Undecoded, Port), m)
            /\ Port = Ack => Run(Decoder, Undecoded, m)
            /\ Feed(m, last') = m /\ Run(m, out', e) /\ CaughtUp(e)'
  BY <1>1, AheadRead DEF Ahead
<1>3. Ring' = Ring
  BY <1>1 DEF Ring, Used, Slot
<1>4. Undecoded = Ring
  BY DEF Undecoded, Pushing, PollData
<1>5. reader'.code = Port /\ reader'.at = IF Port = Ack THEN "status" ELSE "push"
  BY DEF PollData, TypeOK, Readers
<1>6. Undecoded' = IF Port = Ack THEN Undecoded ELSE Append(Undecoded, Port)
  BY <1>3, <1>4, <1>5 DEF Undecoded, Pushing
<1>7. Reading'
  BY <1>5 DEF Reading
<1> QED BY <1>1, <1>2, <1>6, <1>7 DEF Ahead, DecodesAhead

\* The push of a polled byte, undisturbed by interrupts.
LEMMA PushStep ==
  ASSUME TypeOK, TypeOK', Ahead, PushHead \/ PushTail \/ PushBuf \/ PushStore, upset' = {}
  PROVE  Ahead'
<1>1. UNCHANGED <<out, last, held, repeats, lock, typed, decoder, tail>>
  BY DEF PushHead, PushTail, PushBuf, PushStore, hardware, ring
<1>2. reader.at \in {"push", "pushTail", "pushBuf", "pushHead"} /\ reader'.code = reader.code
  BY ZenonT(60) DEF PushHead, PushTail, PushBuf, PushStore, Goto, TypeOK, Readers
<1>3. Undecoded = Append(Ring, reader.code)
  BY <1>2 DEF Undecoded, Pushing
<1>4. CASE PushHead
  <2>1. reader'.at = "pushTail" /\ reader'.head = head /\ UNCHANGED <<buf, head>>
    BY <1>4 DEF PushHead, TypeOK, Readers, ring
  <2>2. Undecoded' = Undecoded
    BY ZenonT(60), <1>1, <1>2, <1>3, <2>1 DEF Undecoded, Pushing, Ring, Used, Slot
  <2>3. Reading'
    BY <2>1 DEF Reading
  <2> QED BY <1>1, <2>2, <2>3, AheadSteady DEF Ahead
<1>5. CASE PushTail
  <2>1. ~RingFull(reader.head, tail) /\ Goto("pushBuf")
    BY <1>5 DEF PushTail
  <2>2. reader'.at = "pushBuf" /\ reader'.head = reader.head /\ UNCHANGED <<buf, head>>
    BY <1>5, <2>1 DEF PushTail, Goto, TypeOK, Readers, ring
  <2>3. Undecoded' = Undecoded
    BY Zenon, <1>1, <1>2, <1>3, <2>2 DEF Undecoded, Pushing, Ring, Used, Slot
  <2>4. reader.head = head
    BY <1>5 DEF Ahead, Reading, PushTail
  <2>5. Reading'
    BY <1>1, <2>1, <2>2, <2>4 DEF Reading, RingFull
  <2> QED BY <1>1, <2>3, <2>5, AheadSteady DEF Ahead
<1>6. CASE PushBuf
  <2>1. reader.head = head /\ ~RingFull(head, tail)
    BY <1>6 DEF Ahead, Reading, PushBuf
  <2>2. reader'.at = "pushHead" /\ reader'.head = head /\ head' = head
    BY <1>6, <2>1 DEF PushBuf, Goto, TypeOK, Readers
  <2>3. buf'[head] = reader.code /\ \A j \in 0 .. BufSize - 1 : j # head => buf'[j] = buf[j]
    <3>1. buf' = [buf EXCEPT ![head] = reader.code]
      BY <1>6, <2>1, Zenon DEF PushBuf
    <3>2. buf \in [0 .. BufSize - 1 -> Codes] /\ head \in 0 .. BufSize - 1
      BY Zenon DEF TypeOK
    <3> QED BY <3>1, <3>2
  <2>4. Ring' = Ring
    BY <1>1, <2>2, <2>3, RingStore
  <2>5. Undecoded' = Undecoded
    BY <1>2, <1>3, <2>2, <2>4 DEF Undecoded, Pushing
  <2>6. Reading'
    BY <1>1, <1>2, <2>1, <2>2, <2>3 DEF Reading, RingFull
  <2> QED BY <1>1, <2>5, <2>6, AheadSteady DEF Ahead
<1>7. CASE PushStore
  <2>1. reader.head = head /\ ~RingFull(head, tail) /\ buf[head] = reader.code
    BY <1>7 DEF Ahead, Reading, PushStore
  <2>2. reader'.at = "status" /\ head' = Next1(head) /\ buf' = buf
    BY <1>7, <2>1 DEF PushStore, Goto, TypeOK, Readers
  <2>3. Ring' = Append(Ring, reader.code)
    BY <1>1, <2>1, <2>2, RingPush
  <2>4. Undecoded' = Undecoded
    BY <1>3, <2>2, <2>3 DEF Undecoded, Pushing
  <2>5. Reading'
    BY <2>2 DEF Reading
  <2> QED BY <1>1, <2>4, <2>5, AheadSteady DEF Ahead
<1> QED BY <1>4, <1>5, <1>6, <1>7

\* The reader decodes the first byte of the ring.
LEMMA PopTailStep ==
  ASSUME TypeOK, Ahead, PopTail, upset' = {}
  PROVE  Ahead'
<1>1. PICK m \in States, e \in States : /\ Run(Decoder, Undecoded, m) /\ Feed(m, last) = m
                                        /\ Run(m, out, e) /\ CaughtUp(e)
  BY DEF Ahead, DecodesAhead
<1>2. /\ UNCHANGED <<out, last, held, repeats, lock, typed, buf, head>> /\ tail' = Next1(tail)
      /\ reader.at = "popTail" /\ Decode(reader.code)
  BY DEF PopTail, hardware
<1>3. tail # head /\ reader.code = buf[tail] /\ reader.code \in Codes
  BY <1>2 DEF Ahead, Reading, TypeOK, Readers
<1>4. Ring # <<>> /\ Head(Ring) = reader.code /\ Ring' = Tail(Ring) /\ Ring \in Seq(Codes)
  BY <1>2, <1>3, RingPop, RingType, Zenon
<1>5. Decoder' = Feed(Decoder, reader.code) /\ reader'.at \in {"pop", "idle", "check", "wait"}
  BY <1>2, <1>3, DecodeStep
<1>6. Undecoded = Ring /\ Undecoded' = Ring'
  BY <1>2, <1>5 DEF Undecoded, Pushing
<1>7. Run(Decoder', Undecoded', m)
  <2>1. Run(Feed(Decoder, Head(Ring)), Tail(Ring), m)
    BY <1>1, <1>4, <1>6, RunFirst, Zenon
  <2> QED BY <1>4, <1>5, <1>6, <2>1, Zenon
<1>8. CaughtUp(e)' /\ Feed(m, last') = m /\ Run(m, out', e)
  BY Zenon, <1>1, <1>2 DEF CaughtUp, Keyed
<1>9. Reading'
  BY <1>5 DEF Reading
<1> QED BY <1>7, <1>8, <1>9 DEF Ahead, DecodesAhead

\* The other steps of the reader move nothing.
LEMMA OtherStep ==
  ASSUME TypeOK, Ahead,
         StartRead \/ CheckActive \/ PollStatus \/ PopHead \/ PopBuf \/ ResetHead \/ ResetTail \/ Wait
  PROVE  Ahead'
<1>1. ~ResetHead /\ ~ResetTail
  BY DEF Ahead, Reading, ResetHead, ResetTail
<1>2. UNCHANGED <<out, last, held, repeats, lock, typed, decoder, buf, head, tail>>
  BY <1>1 DEF StartRead, CheckActive, PollStatus, PopHead, PopBuf, Wait, hardware, ring
<1>3. ~Pushing
  BY <1>1 DEF StartRead, CheckActive, PollStatus, PopHead, PopBuf, Wait, Pushing
<1>4. /\ reader'.at \in {"check", "pop", "status", "data", "idle", "wait", "asleep", "popBuf", "popTail"}
      /\ reader'.at \in {"popBuf", "popTail"} => tail # head
      /\ reader'.at = "popTail" => reader'.code = buf[tail]
  <2>1. CASE StartRead \/ PollStatus \/ Wait \/ CheckActive
    BY ZenonT(60), <2>1 DEF StartRead, PollStatus, Wait, CheckActive, Goto, TypeOK, Readers
  <2>2. CASE PopHead
    <3>1. CASE tail = head
      BY <2>2, <3>1, StopType DEF PopHead
    <3>2. CASE tail # head
      BY <2>2, <3>2 DEF PopHead, Goto, TypeOK, Readers
    <3> QED BY <3>1, <3>2
  <2>3. CASE PopBuf
    BY <2>3 DEF PopBuf, Ahead, Reading, TypeOK, Readers
  <2> QED BY <1>1, <2>1, <2>2, <2>3
<1>5. Undecoded' = Undecoded
  BY <1>2, <1>3, <1>4 DEF Undecoded, Pushing, Ring, Used, Slot
<1>6. Reading'
  BY <1>2, <1>4 DEF Reading
<1> QED BY <1>2, <1>5, <1>6, AheadSteady DEF Ahead
-----------------------------------------------------------------------------
\* Initially nothing is on its way, or the acknowledgement is, and nothing is held.
LEMMA InitIInv == Init => IInv
<1> SUFFICES ASSUME Init PROVE IInv
  OBVIOUS
<1> USE KeyboardAssumption
<1>1. Ack \in Codes
  BY DEF Codes
<1>2. TypeOK
  <2>1. Idle \in Readers
    BY <1>1 DEF Idle, Readers
  <2>2. out \in Seq(Codes) /\ last \in Codes /\ irq \in BOOLEAN
    BY <1>1 DEF Init
  <2>3. /\ buf \in [0 .. BufSize - 1 -> Codes] /\ head \in 0 .. BufSize - 1 /\ tail \in 0 .. BufSize - 1
        /\ events \in 0 .. MaxEvents
    BY <1>1 DEF Init
  <2>4. typed \in Seq(Chars) /\ echo \in Seq(Chars)
    BY DEF Init
  <2>5. \A s \in {typed, echo} : s \in Seq([key : Keys, other : BOOLEAN])
    BY <2>4, Zenon DEF Chars
  <2>6. /\ held \subseteq Keys /\ repeats \in held \cup {None} /\ lock \in BOOLEAN /\ active \in BOOLEAN
        /\ shift \in BOOLEAN /\ caps \in BOOLEAN /\ ctrl \in BOOLEAN /\ lastMake \in Keys \cup {None}
        /\ reader \in Readers /\ upset \subseteq {"dropped", "overlapped", "recovered"}
    BY <2>1 DEF Init
  <2> QED BY <2>2, <2>3, <2>5, <2>6, Zenon DEF TypeOK
<1>3. Reading
  BY DEF Init, Reading, Idle
<1>4. Undecoded = <<>>
  <2>1. Ring = <<>>
    BY <1>2, RingType DEF Init
  <2> QED BY <2>1 DEF Undecoded, Pushing, Init, Idle
<1>5. Decoder \in States
  BY <1>2, DecoderType
<1>6. Feed(Decoder, Ack) = Decoder
  BY DEF Feed, Ignored, Ack
<1>7. Run(Decoder, out, Decoder)
  <2>1. Run(Decoder, <<>>, Decoder)
    BY <1>5, RunNothing
  <2>2. Run(Decoder, Append(<<>>, Ack), Feed(Decoder, Ack))
    <3>1. <<>> \in Seq(Codes)
      OBVIOUS
    <3> QED BY <1>1, <1>5, <2>1, <3>1, RunLast, Zenon
  <2>3. Append(<<>>, Ack) = <<Ack>>
    OBVIOUS
  <2> QED BY <1>6, <2>1, <2>2, <2>3 DEF Init
<1>8. CaughtUp(Decoder)
  <2>1. Decoder = Keyed
    <3>1. ("shift" \in held) = FALSE /\ ("ctrl" \in held) = FALSE
      BY DEF Init
    <3> QED BY <3>1, Zenon DEF Decoder, Keyed, Init
  <2>2. Decoder.dead = FALSE
    BY DEF Decoder
  <2> QED BY <2>1, <2>2 DEF CaughtUp
<1>9. DecodesAhead
  <2>1. Run(Decoder, Undecoded, Decoder) /\ last = Ack
    BY <1>4, <1>5, RunNothing DEF Init
  <2> QED BY <1>5, <1>6, <1>7, <1>8, <2>1 DEF DecodesAhead
<1> QED BY <1>2, <1>3, <1>9 DEF IInv, Ahead

\* Every step keeps the invariant; nothing that has disturbed the input is forgotten.
LEMMA NextIInv == IInv /\ [Next]_vars => IInv'
<1> SUFFICES ASSUME IInv, [Next]_vars PROVE IInv'
  OBVIOUS
<1>1. TypeOK /\ TypeOK'
  BY TypeStep DEF IInv
<1> SUFFICES ASSUME upset' = {} PROVE Ahead'
  BY <1>1, Zenon DEF IInv
<1>2. CASE UNCHANGED vars
  BY ZenonT(60), <1>2 DEF IInv, Ahead, Reading, DecodesAhead, Decoder, Undecoded, Ring, Used, Slot, Pushing,
              CaughtUp, Keyed, RingFull, vars
<1>3. CASE PressSome \/ Repeat \/ ReleaseSome
  <2>1. upset' = upset
    BY Zenon, <1>3 DEF PressSome, Press, Repeat, ReleaseSome, Release, Emit
  <2> QED BY <1>1, <1>3, <2>1, KeyStep DEF IInv
<1>4. CASE Interrupt
  <2>1. upset = {}
    BY <1>4 DEF Interrupt
  <2> QED BY <1>1, <1>4, <2>1, InterruptStep DEF IInv
<1>5. CASE PollData
  <2>1. upset = {}
    BY <1>5 DEF PollData
  <2> QED BY <1>1, <1>5, <2>1, PollDataStep DEF IInv
<1>6. CASE PushHead \/ PushTail \/ PushBuf \/ PushStore
  <2>1. upset = {}
    BY <1>6 DEF PushHead, PushTail, PushBuf, PushStore
  <2> QED BY <1>1, <1>6, <2>1, PushStep DEF IInv
<1>7. CASE PopTail
  <2>1. upset = {}
    <3>1. reader.code \in Codes
      BY <1>1 DEF TypeOK, Readers
    <3>2. upset' \in {upset, upset \cup {"recovered"}}
      BY <1>1, <1>7, <3>1, DecodeStep, Zenon DEF PopTail
    <3> QED BY <3>2
  <2> QED BY <1>1, <1>7, <2>1, PopTailStep DEF IInv
<1>8. CASE StartRead \/ CheckActive \/ PollStatus \/ PopHead \/ PopBuf \/ ResetHead \/ ResetTail \/ Wait
  <2>1. upset = {}
    BY <1>8 DEF StartRead, CheckActive, PollStatus, PopHead, PopBuf, ResetHead, ResetTail, Wait
  <2> QED BY <1>1, <1>8, <2>1, OtherStep DEF IInv
<1> QED BY <1>2, <1>3, <1>4, <1>5, <1>6, <1>7, <1>8, Zenon DEF Next

\* What has been read only grows along a run.
LEMMA RunGrows ==
  ASSUME NEW q \in Seq(Codes), NEW d, NEW e, Run(d, q, e)
  PROVE  Starts(d.echo, e.echo)
<1>1. PICK r \in [0 .. Len(q) -> States] : r[0] = d /\ \A i \in 0 .. Len(q) : Starts(r[i].echo, e.echo)
  BY DEF Run
<1>2. 0 \in 0 .. Len(q)
  OBVIOUS
<1> QED BY <1>1, <1>2

\* A decoder with nothing ahead of it has caught up.
LEMMA IInvAgrees == IInv => DecoderAgrees
<1> SUFFICES ASSUME IInv PROVE DecoderAgrees
  OBVIOUS
<1>1. TypeOK
  BY DEF IInv
<1> SUFFICES ASSUME upset = {} PROVE NoKeySticks /\ ReadsWhatIsTyped
  BY <1>1 DEF DecoderAgrees, NoKeySticks, ReadsWhatIsTyped
<1>2. PICK m \in States, e \in States : /\ Run(Decoder, Undecoded, m) /\ Feed(m, last) = m
                                        /\ Run(m, out, e) /\ CaughtUp(e)
  BY DEF IInv, Ahead, DecodesAhead
<1>3. Decoder.echo = echo /\ Decoder.dead = FALSE /\ Decoder \in States
  BY <1>1, DecoderType DEF Decoder
<1>4. echo \in Seq(Chars) /\ typed \in Seq(Chars) /\ m.echo \in Seq(Chars) /\ e.echo \in Seq(Chars)
  BY <1>1 DEF TypeOK, Chars, States
<1>5. Starts(echo, typed)
  <2>1. Starts(echo, m.echo) /\ Starts(m.echo, e.echo)
    BY <1>1, <1>2, <1>3, RunGrows, UndecodedType DEF TypeOK
  <2>2. Starts(e.echo, typed)
    BY <1>2, <1>4, StartsSelf, KeyedFields, Zenon DEF CaughtUp
  <2> QED BY <1>4, <2>1, <2>2, StartsFurther
<1>6. Len(echo) <= Len(typed) /\ echo = SubSeq(typed, 1, Len(echo))
  BY <1>4, <1>5 DEF Starts
<1>7. ASSUME Quiet PROVE Decoder = Keyed
  <2>1. Ring = <<>> /\ out = <<>>
    BY <1>1, <1>7, RingType DEF Quiet
  <2>2. Undecoded = <<>>
    BY <1>7, <2>1 DEF Quiet, Undecoded, Pushing
  <2>3. Decoder = e
    BY <1>2, <2>1, <2>2, RunNothing
  <2> QED BY <1>2, <1>3, <2>3 DEF CaughtUp
<1>8. NoKeySticks
  <2> SUFFICES ASSUME Quiet
               PROVE  /\ shift = ("shift" \in held) /\ ctrl = ("ctrl" \in held) /\ lastMake = repeats
    BY Zenon, <1>1 DEF NoKeySticks, TypeOK
  <2>1. Decoder.shift = shift /\ Decoder.ctrl = ctrl /\ Decoder.lastMake = lastMake
    BY DEF Decoder
  <2> QED BY <1>7, <2>1, KeyedFields, Zenon
<1>9. ReadsWhatIsTyped
  BY <1>3, <1>6, <1>7, KeyedFields DEF ReadsWhatIsTyped
<1> QED BY <1>8, <1>9

\* The decoder agrees with the keyboard in every state the system reaches, for
\* every set of keys, every length of ring and buffer and any number of events:
\* as long as no byte was dropped, none thrown away by Ctrl+R and no interrupt
\* arrived in a poll, the characters read are those typed, each once however
\* long its key was held, and no key sticks once the input is quiet.
THEOREM DecoderAlwaysAgrees == Spec => []DecoderAgrees
<1>1. Init => IInv
  BY InitIInv
<1>2. IInv /\ [Next]_vars => IInv'
  BY NextIInv
<1>3. IInv => DecoderAgrees
  BY IInvAgrees
<1> QED BY <1>1, <1>2, <1>3, PTL DEF Spec
=============================================================================
