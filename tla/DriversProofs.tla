---------------------------- MODULE DriversProofs ----------------------------
(***************************************************************************)
(* The drivers of a machine: transfers of the block devices, and the       *)
(* descriptor rings of the network card, for rings of any size and any     *)
(* number of packets.                                                      *)
(*                                                                         *)
(* Packets are counted from one. The invariant says which packet each      *)
(* descriptor belongs to: packet k to descriptor (k - 1) % RingSize, done  *)
(* or not according to whether the card has come past it.                  *)
(***************************************************************************)
EXTENDS Drivers, TransferProofs

\* The descriptor of the packet after j packets.
Home(j) == j % RingSize

\* A card that is attached.
Nics == [present : {TRUE}, base : {nic.base},
         rx : [Slots -> [dd : BOOLEAN, piece : Seq(Nat)]],
         tx : [Slots -> [dd : BOOLEAN, len : 0 .. BufSize, buf : [1 .. BufSize -> Nat]]],
         rx_cur : Slots, tx_cur : Slots, rdh : Slots, rdt : Slots, tdh : Slots, tdt : Slots,
         in_recv : BOOLEAN]

Types == accepted \in Seq(1 .. BufSize) /\ \A s \in {wire, stored, taken} : s \in Seq(Seq(Nat))

\* Descriptor d holds packet k, padded, and waits for the card.
Waits(d, k) ==
  /\ ~d.dd /\ d.len = SendLength(accepted[k])
  /\ \A i \in 1 .. d.len : d.buf[i] = IF i <= accepted[k] THEN k ELSE 0

\* The packets accepted and not sent wait in their descriptors; the descriptors
\* up to the one the card comes to when it has gone round are done.
Transmits ==
  /\ Len(wire) <= Len(accepted) /\ Len(accepted) <= Len(wire) + RingSize
  /\ nic.tdh = Home(Len(wire))
  /\ nic.tdt = Home(Len(accepted)) /\ nic.tx_cur = nic.tdt
  /\ \A j \in Len(wire) .. Len(accepted) - 1 : Waits(nic.tx[Home(j)], j + 1)
  /\ \A j \in Len(accepted) .. Len(wire) + RingSize - 1 : nic.tx[Home(j)].dd

\* The descriptors that recv has given back: not yet the one it is at.
Given == IF nic.in_recv THEN Len(taken) - 1 ELSE Len(taken)

\* The pieces stored and not taken are in their descriptors, the others are
\* empty, and the card may fill all of those given back but one.
Receives ==
  /\ Given \in Nat
  /\ Len(taken) <= Len(stored) /\ Len(stored) < Given + RingSize
  /\ nic.rdh = Home(Len(stored))
  /\ nic.rx_cur = Home(Given)
  /\ nic.rdt = Home(Given + RingSize - 1)
  /\ \A j \in Len(taken) .. Len(stored) - 1 :
        nic.rx[Home(j)] = [dd |-> TRUE, piece |-> stored[j + 1]]
  /\ \A j \in Len(stored) .. Len(taken) + RingSize - 1 : ~nic.rx[Home(j)].dd

\* What recv returned so far is what the card stored.
Taken ==
  /\ Len(taken) <= Len(stored)
  /\ \A k \in DOMAIN taken : \E n \in RecvLengths :
        taken[k] = SubSeq(stored[k], 1, Lesser(Len(stored[k]), n))

IInv ==
  /\ Types /\ SentAsAccepted /\ Taken
  /\ \/ nic = NoNic /\ NetIdle
     \/ nic \in Nics /\ Transmits /\ Receives
-----------------------------------------------------------------------------
\* A quotient and a remainder are the ones of their number.
LEMMA ModUnique ==
  ASSUME NEW n \in Nat \ {0}, NEW q \in Nat, NEW r \in 0 .. n - 1
  PROVE  (n * q + r) % n = r
OBVIOUS

\* A descriptor further on.
LEMMA ModAdd ==
  ASSUME NEW n \in Nat \ {0}, NEW a \in Nat, NEW k \in 0 .. n
  PROVE  (a + k) % n = (IF (a % n) + k < n THEN (a % n) + k ELSE (a % n) + k - n)
<1> DEFINE q == a \div n
           r == a % n
<1>1. a = n * q + r /\ r \in 0 .. n - 1 /\ q \in Nat
  BY Zenon, DivMod
<1> HIDE DEF q, r
<1>2. CASE r + k < n
  <2>1. r + k \in 0 .. n - 1 /\ a + k = n * q + (r + k)
    BY <1>1, <1>2
  <2>2. (n * q + (r + k)) % n = r + k
    BY <1>1, <2>1, ModUnique
  <2> QED BY <1>2, <2>1, <2>2 DEF r
<1>3. CASE ~(r + k < n)
  <2>1. r + k - n \in 0 .. n - 1 /\ q + 1 \in Nat
    BY <1>1, <1>3
  <2>2. n * (q + 1) = n * q + n
    BY <1>1
  <2>3. a + k = n * (q + 1) + (r + k - n)
    <3>1. n * q \in Nat
      BY <1>1
    <3>2. a + k = (n * q + n) + (r + k - n)
      BY <1>1, <3>1
    <3> QED BY <2>2, <3>2
  <2>4. (n * (q + 1) + (r + k - n)) % n = r + k - n
    BY <2>1, ModUnique
  <2> QED BY Zenon, <1>3, <2>3, <2>4 DEF r
<1> QED BY <1>2, <1>3

\* Fewer descriptors on than the ring has is another one, the ring's length on
\* the same.
LEMMA ModRing ==
  ASSUME NEW n \in Nat \ {0}, NEW a \in Nat
  PROVE  /\ a % n \in 0 .. n - 1
         /\ (a + n) % n = a % n
         /\ \A k \in 1 .. n - 1 : (a + k) % n # a % n
         /\ \A k \in 0 .. n : (a + k) % n = ((a % n) + k) % n
         /\ (a + 1) % n = ((a % n) + 1) % n
<1>1. a % n \in 0 .. n - 1
  BY DivMod
<1>2. ASSUME NEW k \in 0 .. n
      PROVE  (a + k) % n = (IF (a % n) + k < n THEN (a % n) + k ELSE (a % n) + k - n)
  BY Zenon, ModAdd
<1>3. ASSUME NEW k \in 0 .. n PROVE (a + k) % n = ((a % n) + k) % n
  <2>1. (a % n) \in Nat /\ (a % n) % n = a % n
    BY <1>1
  <2>2. ((a % n) + k) % n
          = (IF ((a % n) % n) + k < n THEN ((a % n) % n) + k ELSE ((a % n) % n) + k - n)
    BY Zenon, <2>1, ModAdd
  <2> QED BY ZenonT(60), <1>2, <2>1, <2>2
<1>4. n \in 0 .. n /\ 1 \in 0 .. n /\ 1 .. n - 1 \subseteq 0 .. n
  OBVIOUS
<1>5. (a + n) % n = a % n
  <2>1. (a + n) % n = (IF (a % n) + n < n THEN (a % n) + n ELSE (a % n) + n - n)
    BY Zenon, <1>2, <1>4
  <2> QED BY <1>1, <2>1
<1>6. \A k \in 1 .. n - 1 : (a + k) % n # a % n
  <2> SUFFICES ASSUME NEW k \in 1 .. n - 1
               PROVE  (a + k) % n # a % n
    BY Zenon
  <2>1. (a + k) % n = (IF (a % n) + k < n THEN (a % n) + k ELSE (a % n) + k - n)
    BY ZenonT(60), <1>2, <1>4
  <2> QED BY <1>1, <2>1
<1> QED BY <1>1, <1>3, <1>4, <1>5, <1>6

\* The descriptors of a ring, one after the other.
LEMMA HomeFacts ==
  /\ \A a \in Nat : Home(a) \in Slots /\ Home(a + RingSize) = Home(a) /\ Home(a + 1) = (Home(a) + 1) % RingSize
  /\ \A a, b \in Nat : a < b /\ b < a + RingSize => Home(a) # Home(b)
<1>1. RingSize \in Nat \ {0}
  BY RingLimits
<1>2. ASSUME NEW a \in Nat
      PROVE  Home(a) \in Slots /\ Home(a + RingSize) = Home(a) /\ Home(a + 1) = (Home(a) + 1) % RingSize
  BY Zenon, <1>1, ModRing DEF Home, Slots
<1>3. ASSUME NEW a \in Nat, NEW b \in Nat, a < b, b < a + RingSize PROVE Home(a) # Home(b)
  <2>1. b - a \in 1 .. RingSize - 1 /\ a + (b - a) = b
    BY <1>1, <1>3
  <2>2. (a + (b - a)) % RingSize # a % RingSize
    BY ZenonT(60), <1>1, <2>1, ModRing
  <2> QED BY <2>1, <2>2 DEF Home
<1> QED BY <1>2, <1>3, Zenon

-----------------------------------------------------------------------------
\* What goes over the wire for packet k of length n.
Padded(k, n) == [i \in 1 .. SendLength(n) |-> IF i <= n THEN k ELSE 0]

\* SentAsAccepted in these terms.
LEMMA SentForm ==
  /\ SentAsAccepted <=> /\ Len(wire) <= Len(accepted)
                        /\ \A k \in DOMAIN wire : wire[k] = Padded(k, accepted[k])
  /\ SentAsAccepted' <=> /\ Len(wire') <= Len(accepted')
                         /\ \A k \in DOMAIN wire' : wire'[k] = Padded(k, accepted'[k])
BY Zenon DEF SentAsAccepted, Padded

\* The card after send.
LEMMA SendNic ==
  ASSUME Types, nic \in Nics, NEW len \in SendLengths, send(len)
  PROVE  /\ (nic \in Nics)'
         /\ UNCHANGED <<nic.rx, nic.rx_cur, nic.rdh, nic.rdt, nic.in_recv, nic.tdh>>
         /\ len \in 1 .. BufSize /\ SendLength(len) \in 1 .. BufSize /\ nic.tx[nic.tx_cur].dd
         /\ nic'.tx = [nic.tx EXCEPT ![nic.tx_cur] =
                         [dd |-> FALSE, len |-> SendLength(len),
                          buf |-> Filled(nic.tx[nic.tx_cur].buf, Len(accepted) + 1, len, SendLength(len))]]
         /\ nic'.tdt = (nic.tx_cur + 1) % RingSize /\ nic'.tx_cur = nic'.tdt
<1> DEFINE d == [dd |-> FALSE, len |-> SendLength(len),
                 buf |-> Filled(nic.tx[nic.tx_cur].buf, Len(accepted) + 1, len, SendLength(len))]
           c == (nic.tx_cur + 1) % RingSize
<1>1. len \in 1 .. BufSize /\ SendLength(len) \in 1 .. BufSize /\ nic.tx[nic.tx_cur].dd
  BY RingLimits DEF send, SendLength
<1>2. nic.tx_cur \in Slots /\ nic.tx[nic.tx_cur].buf \in [1 .. BufSize -> Nat]
  BY Zenon DEF Nics
<1>3. Len(accepted) + 1 \in Nat
  BY DEF Types
<1>4. Filled(nic.tx[nic.tx_cur].buf, Len(accepted) + 1, len, SendLength(len)) \in [1 .. BufSize -> Nat]
  BY ZenonT(60), <1>1, <1>2, <1>3 DEF Filled
<1>5. d \in [dd : BOOLEAN, len : 0 .. BufSize, buf : [1 .. BufSize -> Nat]]
  BY <1>1, <1>4
<1>6. c \in Slots
  BY <1>2, RingLimits DEF Slots
<1>7. nic' = [nic EXCEPT !.tx[nic.tx_cur] = d, !.tdt = c, !.tx_cur = c]
  BY Zenon DEF send
<1> HIDE DEF d, c
<1>8. nic' = [nic EXCEPT !.tx = [nic.tx EXCEPT ![nic.tx_cur] = d], !.tdt = c, !.tx_cur = c]
  BY <1>7 DEF Nics
<1>9. [nic.tx EXCEPT ![nic.tx_cur] = d] \in [Slots -> [dd : BOOLEAN, len : 0 .. BufSize, buf : [1 .. BufSize -> Nat]]]
  BY <1>2, <1>5 DEF Nics
<1>10. /\ (nic \in Nics)' /\ UNCHANGED <<nic.rx, nic.rx_cur, nic.rdh, nic.rdt, nic.in_recv, nic.tdh>>
       /\ nic'.tx = [nic.tx EXCEPT ![nic.tx_cur] = d] /\ nic'.tdt = c /\ nic'.tx_cur = c
  BY ZenonT(60), <1>6, <1>8, <1>9 DEF Nics
<1> QED BY <1>1, <1>10 DEF d, c

\* send takes the descriptor after the packets that wait, which is free, and
\* leaves the others alone.
LEMMA SendStep ==
  ASSUME Types, SentAsAccepted, nic \in Nics, Transmits, NEW len \in SendLengths, send(len)
  PROVE  /\ Types' /\ SentAsAccepted' /\ (nic \in Nics)' /\ Transmits'
         /\ UNCHANGED <<nic.rx, nic.rx_cur, nic.rdh, nic.rdt, nic.in_recv, stored, taken>>
<1>1. PICK A \in Nat, W \in Nat : A = Len(accepted) /\ W = Len(wire)
  BY DEF Types
<1>2. /\ (nic \in Nics)' /\ UNCHANGED <<nic.rx, nic.rx_cur, nic.rdh, nic.rdt, nic.in_recv, nic.tdh>>
      /\ len \in 1 .. BufSize /\ SendLength(len) \in 1 .. BufSize /\ nic.tx[nic.tx_cur].dd
      /\ nic'.tx = [nic.tx EXCEPT ![nic.tx_cur] =
                      [dd |-> FALSE, len |-> SendLength(len),
                       buf |-> Filled(nic.tx[nic.tx_cur].buf, Len(accepted) + 1, len, SendLength(len))]]
      /\ nic'.tdt = (nic.tx_cur + 1) % RingSize /\ nic'.tx_cur = nic'.tdt
  BY SendNic
<1>3. UNCHANGED <<wire, stored, taken>> /\ accepted' = Append(accepted, len)
  BY DEF send
<1>4. RingSize \in Nat \ {0} /\ BufSize \in Nat
  BY RingLimits
<1>5. accepted \in Seq(1 .. BufSize) /\ wire \in Seq(Seq(Nat))
  BY DEF Types
<1>6. /\ accepted' \in Seq(1 .. BufSize) /\ Len(accepted') = A + 1
      /\ accepted'[A + 1] = len /\ \A k \in 1 .. A : accepted'[k] = accepted[k]
  BY <1>1, <1>2, <1>3, <1>5
<1>7. Types'
  BY <1>3, <1>6 DEF Types
<1>8. W <= A /\ A <= W + RingSize
  BY <1>1 DEF Transmits
<1>9. nic.tx_cur = Home(A) /\ Home(A) \in Slots /\ nic'.tdt = Home(A + 1)
  BY <1>1, <1>2, HomeFacts DEF Transmits
<1>10. A < W + RingSize
  <2> SUFFICES ASSUME A = W + RingSize PROVE FALSE
    BY <1>1, <1>4, <1>8
  <2>1. Home(A) = Home(W)
    BY <1>1, HomeFacts
  <2>2. W \in W .. A - 1
    BY <1>1, <1>4
  <2>3. ~nic.tx[Home(W)].dd
    BY <1>1, <2>2 DEF Transmits, Waits
  <2> QED BY <1>2, <1>9, <2>1, <2>3
<1>11. \A j \in W .. W + RingSize - 1 : j # A => Home(j) \in Slots /\ nic'.tx[Home(j)] = nic.tx[Home(j)]
  <2> SUFFICES ASSUME NEW j \in W .. W + RingSize - 1, j # A
               PROVE  Home(j) \in Slots /\ nic'.tx[Home(j)] = nic.tx[Home(j)]
    OBVIOUS
  <2>1. j \in Nat /\ ((j < A /\ A < j + RingSize) \/ (A < j /\ j < A + RingSize))
    BY <1>1, <1>4, <1>8, <1>10
  <2>2. Home(j) # Home(A) /\ Home(j) \in Slots
    BY ZenonT(60), <1>1, <2>1, HomeFacts
  <2>3. nic.tx \in [Slots -> [dd : BOOLEAN, len : 0 .. BufSize, buf : [1 .. BufSize -> Nat]]]
    BY DEF Nics
  <2> QED BY <1>2, <1>9, <2>2, <2>3
<1>12. Waits(nic.tx[Home(A)], A + 1)'
  <2> DEFINE b == nic.tx[Home(A)].buf
  <2>1. nic'.tx[Home(A)] = [dd |-> FALSE, len |-> SendLength(len), buf |-> Filled(b, A + 1, len, SendLength(len))]
    <3>1. nic.tx \in [Slots -> [dd : BOOLEAN, len : 0 .. BufSize, buf : [1 .. BufSize -> Nat]]]
      BY DEF Nics
    <3> QED BY <1>1, <1>2, <1>9, <3>1
  <2> HIDE DEF b
  <2>2. \A i \in 1 .. SendLength(len) : Filled(b, A + 1, len, SendLength(len))[i] = IF i <= len THEN A + 1 ELSE 0
    BY <1>2, <1>4 DEF Filled
  <2> QED BY <1>6, <2>1, <2>2 DEF Waits
<1>13. \A j \in W .. A : Waits(nic.tx[Home(j)], j + 1)'
  <2> SUFFICES ASSUME NEW j \in W .. A, j # A PROVE Waits(nic.tx[Home(j)], j + 1)'
    BY <1>12
  <2>1. Waits(nic.tx[Home(j)], j + 1) /\ j \in W .. W + RingSize - 1 /\ j + 1 \in 1 .. A
    <3>1. j \in W .. A - 1 /\ j \in W .. W + RingSize - 1 /\ j + 1 \in 1 .. A
      BY <1>1, <1>4, <1>8, <1>10
    <3> QED BY <1>1, <3>1 DEF Transmits
  <2>2. nic'.tx[Home(j)] = nic.tx[Home(j)] /\ accepted'[j + 1] = accepted[j + 1]
    BY <1>6, <1>11, <2>1
  <2> QED BY <2>1, <2>2 DEF Waits
<1>14. \A j \in A + 1 .. W + RingSize - 1 : nic'.tx[Home(j)].dd
  <2> TAKE j \in A + 1 .. W + RingSize - 1
  <2>1. nic.tx[Home(j)].dd
    BY <1>1, <1>4 DEF Transmits
  <2>2. nic'.tx[Home(j)] = nic.tx[Home(j)]
    BY <1>1, <1>4, <1>8, <1>11
  <2> QED BY <2>1, <2>2
<1>15. Transmits'
  <2>1. Len(wire') = W /\ Len(accepted') = A + 1 /\ nic'.tdh = Home(W)
    BY <1>1, <1>2, <1>3, <1>6 DEF Transmits
  <2>2. W <= A + 1 /\ A + 1 <= W + RingSize /\ (A + 1) - 1 = A
    BY <1>1, <1>4, <1>8, <1>10
  <2> QED BY ZenonT(60), <1>2, <1>9, <1>13, <1>14, <2>1, <2>2 DEF Transmits
<1>16. SentAsAccepted'
  <2>1. \A k \in DOMAIN wire : k \in 1 .. A /\ accepted'[k] = accepted[k]
    BY <1>1, <1>5, <1>6, <1>8
  <2> QED BY <1>1, <1>3, <1>6, <1>8, <2>1 DEF SentAsAccepted
<1> QED BY <1>2, <1>3, <1>7, <1>15, <1>16

\* The card after it has sent a packet.
LEMMA CardSendsNic ==
  ASSUME nic \in Nics, CardSends
  PROVE  /\ (nic \in Nics)'
         /\ UNCHANGED <<nic.rx, nic.rx_cur, nic.rdh, nic.rdt, nic.in_recv, nic.tdt, nic.tx_cur>>
         /\ nic'.tx = [nic.tx EXCEPT ![nic.tdh].dd = TRUE]
         /\ nic'.tdh = (nic.tdh + 1) % RingSize
<1> DEFINE t == [nic.tx EXCEPT ![nic.tdh].dd = TRUE]
           c == (nic.tdh + 1) % RingSize
<1>1. nic.tdh \in Slots /\ nic.tx \in [Slots -> [dd : BOOLEAN, len : 0 .. BufSize, buf : [1 .. BufSize -> Nat]]]
  BY DEF Nics
<1>2. t \in [Slots -> [dd : BOOLEAN, len : 0 .. BufSize, buf : [1 .. BufSize -> Nat]]]
  BY Zenon, <1>1
<1>3. c \in Slots
  BY <1>1, RingLimits DEF Slots
<1>4. nic' = [nic EXCEPT !.tx[nic.tdh].dd = TRUE, !.tdh = c]
  BY DEF CardSends, Nics
<1> HIDE DEF c
<1>5. nic' = [nic EXCEPT !.tx = t, !.tdh = c]
  BY <1>4 DEF Nics
<1> HIDE DEF t
<1>6. /\ (nic \in Nics)' /\ UNCHANGED <<nic.rx, nic.rx_cur, nic.rdh, nic.rdt, nic.in_recv, nic.tdt, nic.tx_cur>>
      /\ nic'.tx = t /\ nic'.tdh = c
  BY ZenonT(60), <1>2, <1>3, <1>5 DEF Nics
<1> QED BY <1>6 DEF t, c

\* The card sends the packet that has waited longest.
LEMMA CardSendsStep ==
  ASSUME Types, SentAsAccepted, nic \in Nics, Transmits, CardSends
  PROVE  /\ Types' /\ SentAsAccepted' /\ (nic \in Nics)' /\ Transmits'
         /\ UNCHANGED <<nic.rx, nic.rx_cur, nic.rdh, nic.rdt, nic.in_recv, stored, taken>>
<1>1. PICK A \in Nat, W \in Nat : A = Len(accepted) /\ W = Len(wire)
  BY DEF Types
<1>2. /\ (nic \in Nics)' /\ UNCHANGED <<nic.rx, nic.rx_cur, nic.rdh, nic.rdt, nic.in_recv, nic.tdt, nic.tx_cur>>
      /\ nic'.tx = [nic.tx EXCEPT ![nic.tdh].dd = TRUE]
      /\ nic'.tdh = (nic.tdh + 1) % RingSize
  BY CardSendsNic
<1>3. /\ UNCHANGED <<accepted, stored, taken>> /\ nic.tdh # nic.tdt
      /\ wire' = Append(wire, SubSeq(nic.tx[nic.tdh].buf, 1, nic.tx[nic.tdh].len))
  BY DEF CardSends
<1>4. RingSize \in Nat \ {0} /\ BufSize \in Nat
  BY RingLimits
<1>5. nic.tx \in [Slots -> [dd : BOOLEAN, len : 0 .. BufSize, buf : [1 .. BufSize -> Nat]]]
  BY DEF Nics
<1>6. accepted \in Seq(1 .. BufSize) /\ wire \in Seq(Seq(Nat))
  BY DEF Types
<1>7. W <= A /\ A <= W + RingSize /\ nic.tdh = Home(W) /\ nic.tdt = Home(A) /\ nic.tx_cur = Home(A)
  BY <1>1 DEF Transmits
<1>8. Home(W) \in Slots /\ nic'.tdh = Home(W + 1) /\ Home(W + RingSize) = Home(W)
  BY <1>1, <1>2, <1>7, HomeFacts
<1>9. W < A
  BY <1>1, <1>3, <1>7
<1>10. Waits(nic.tx[Home(W)], W + 1)
  <2>1. W \in W .. A - 1
    BY <1>1, <1>9
  <2> QED BY <1>1, <2>1 DEF Transmits
<1> DEFINE d == nic.tx[Home(W)]
           p == SubSeq(d.buf, 1, d.len)
<1>11. /\ d.len \in 0 .. BufSize /\ d.buf \in [1 .. BufSize -> Nat] /\ d.len = SendLength(accepted[W + 1])
       /\ \A i \in 1 .. d.len : d.buf[i] = IF i <= accepted[W + 1] THEN W + 1 ELSE 0
  BY <1>5, <1>8, <1>10 DEF Waits
<1> HIDE DEF d
<1>12. p \in Seq(Nat) /\ p = [i \in 1 .. d.len |-> d.buf[i]]
  <2>1. d.buf \in Seq(Nat) /\ Len(d.buf) = BufSize
    BY <1>4, <1>11
  <2> QED BY <1>4, <1>11, <2>1
<1>13. p = [i \in 1 .. SendLength(accepted[W + 1]) |-> IF i <= accepted[W + 1] THEN W + 1 ELSE 0]
  BY <1>11, <1>12
<1> HIDE DEF p
<1>14. wire' = Append(wire, p)
  BY <1>3, <1>7 DEF d, p
<1>15. /\ wire' \in Seq(Seq(Nat)) /\ Len(wire') = W + 1
       /\ wire'[W + 1] = p /\ \A k \in 1 .. W : wire'[k] = wire[k]
  BY <1>1, <1>6, <1>12, <1>14
<1>16. Types'
  BY <1>3, <1>15 DEF Types
<1>17. SentAsAccepted'
  <2>1. DOMAIN wire' = 1 .. W + 1 /\ DOMAIN wire = 1 .. W
    BY <1>1, <1>6, <1>15
  <2>2. \A k \in 1 .. W : wire'[k] = Padded(k, accepted[k])
    BY Zenon, <1>15, <2>1, SentForm
  <2>3. wire'[W + 1] = Padded(W + 1, accepted[W + 1])
    BY <1>13, <1>15, Zenon DEF Padded
  <2>4. \A k \in 1 .. W + 1 : k \in 1 .. W \/ k = W + 1
    BY <1>1
  <2>5. Len(wire') <= Len(accepted')
    BY <1>1, <1>3, <1>9, <1>15
  <2> QED BY ZenonT(60), <1>3, <2>1, <2>2, <2>3, <2>4, <2>5, SentForm, Zenon
<1>18. \A j \in W + 1 .. W + RingSize - 1 : Home(j) \in Slots /\ nic'.tx[Home(j)] = nic.tx[Home(j)]
  <2> TAKE j \in W + 1 .. W + RingSize - 1
  <2>1. j \in Nat /\ W < j /\ j < W + RingSize
    BY <1>1, <1>4
  <2>2. Home(j) # Home(W) /\ Home(j) \in Slots
    BY <1>1, <2>1, HomeFacts
  <2> QED BY <1>2, <1>5, <1>7, <2>2
<1>19. nic'.tx[Home(W)].dd
  BY <1>2, <1>5, <1>7, <1>8
<1>20. \A j \in W + 1 .. A - 1 : Waits(nic.tx[Home(j)], j + 1)'
  <2> TAKE j \in W + 1 .. A - 1
  <2>1. j \in W .. A - 1 /\ j \in W + 1 .. W + RingSize - 1
    BY <1>1, <1>4, <1>7
  <2>2. Waits(nic.tx[Home(j)], j + 1) /\ nic'.tx[Home(j)] = nic.tx[Home(j)]
    BY <1>1, <1>18, <2>1 DEF Transmits
  <2> QED BY <1>3, <2>2 DEF Waits
<1>21. \A j \in A .. W + RingSize : nic'.tx[Home(j)].dd
  <2> TAKE j \in A .. W + RingSize
  <2>1. CASE j = W + RingSize
    BY <1>8, <1>19, <2>1
  <2>2. CASE j # W + RingSize
    <3>1. j \in A .. W + RingSize - 1 /\ j \in W + 1 .. W + RingSize - 1
      BY <1>1, <1>4, <1>9, <2>2
    <3> QED BY <1>1, <1>18, <3>1 DEF Transmits
  <2> QED BY <2>1, <2>2
<1>22. Transmits'
  <2>1. W + 1 <= A /\ A <= (W + 1) + RingSize /\ (W + 1) + RingSize - 1 = W + RingSize
    BY <1>1, <1>4, <1>7, <1>9
  <2>2. Len(accepted') = A /\ Len(wire') = W + 1
    BY <1>1, <1>3, <1>15
  <2> QED BY Zenon, <1>2, <1>7, <1>8, <1>20, <1>21, <2>1, <2>2 DEF Transmits
<1> QED BY <1>2, <1>3, <1>16, <1>17, <1>22

\* The card after the first step of recv.
LEMMA RecvNic ==
  ASSUME nic \in Nics, NEW len \in RecvLengths, recv(len)
  PROVE  /\ (nic \in Nics)'
         /\ UNCHANGED <<nic.tx, nic.tx_cur, nic.tdh, nic.tdt, nic.rdh, nic.rdt, nic.rx_cur>>
         /\ nic'.rx = [nic.rx EXCEPT ![nic.rx_cur].dd = FALSE] /\ nic'.in_recv
<1> DEFINE t == [nic.rx EXCEPT ![nic.rx_cur].dd = FALSE]
<1>1. nic.rx_cur \in Slots /\ nic.rx \in [Slots -> [dd : BOOLEAN, piece : Seq(Nat)]]
  BY DEF Nics
<1>2. t \in [Slots -> [dd : BOOLEAN, piece : Seq(Nat)]]
  BY Zenon, <1>1
<1>3. nic' = [nic EXCEPT !.rx[nic.rx_cur].dd = FALSE, !.in_recv = TRUE]
  BY Zenon DEF recv
<1>4. nic' = [nic EXCEPT !.rx = t, !.in_recv = TRUE]
  BY <1>3 DEF Nics
<1> HIDE DEF t
<1>5. /\ (nic \in Nics)'
      /\ UNCHANGED <<nic.tx, nic.tx_cur, nic.tdh, nic.tdt, nic.rdh, nic.rdt, nic.rx_cur>>
      /\ nic'.rx = t /\ nic'.in_recv
  BY ZenonT(60), <1>1, <1>2, <1>4 DEF Nics
<1> QED BY <1>5 DEF t

\* The card after recv.
LEMMA RecvEndNic ==
  ASSUME nic \in Nics, recv_end
  PROVE  /\ (nic \in Nics)'
         /\ UNCHANGED <<nic.tx, nic.tx_cur, nic.tdh, nic.tdt, nic.rdh, nic.rx>>
         /\ nic'.rdt = nic.rx_cur /\ nic'.rx_cur = (nic.rx_cur + 1) % RingSize /\ ~nic'.in_recv
<1> DEFINE c == (nic.rx_cur + 1) % RingSize
<1>1. nic.rx_cur \in Slots
  BY DEF Nics
<1>2. c \in Slots
  BY <1>1, RingLimits DEF Slots
<1>3. nic' = [nic EXCEPT !.rdt = nic.rx_cur, !.in_recv = FALSE, !.rx_cur = c]
  BY DEF recv_end, Nics
<1> HIDE DEF c
<1>4. /\ (nic \in Nics)' /\ UNCHANGED <<nic.tx, nic.tx_cur, nic.tdh, nic.tdt, nic.rdh, nic.rx>>
      /\ nic'.rdt = nic.rx_cur /\ nic'.rx_cur = c /\ ~nic'.in_recv
  BY ZenonT(60), <1>1, <1>2, <1>3 DEF Nics
<1> QED BY <1>4 DEF c

\* recv gives the descriptor it has cleared back to the card.
LEMMA RecvEndStep ==
  ASSUME Types, Taken, nic \in Nics, Receives, nic.in_recv, recv_end
  PROVE  /\ Types' /\ Taken' /\ (nic \in Nics)' /\ Receives'
         /\ UNCHANGED <<nic.tx, nic.tx_cur, nic.tdh, nic.tdt, accepted, wire>>
<1>1. PICK S \in Nat, T \in Nat : S = Len(stored) /\ T = Len(taken)
  BY DEF Types
<1>2. /\ (nic \in Nics)' /\ UNCHANGED <<nic.tx, nic.tx_cur, nic.tdh, nic.tdt, nic.rdh, nic.rx>>
      /\ nic'.rdt = nic.rx_cur /\ nic'.rx_cur = (nic.rx_cur + 1) % RingSize /\ ~nic'.in_recv
  BY RecvEndNic
<1>3. UNCHANGED <<accepted, wire, stored, taken>>
  BY DEF recv_end
<1>4. RingSize \in Nat \ {0}
  BY RingLimits
<1>5. /\ T - 1 \in Nat /\ T <= S /\ S < (T - 1) + RingSize
      /\ nic.rdh = Home(S) /\ nic.rx_cur = Home(T - 1)
      /\ \A j \in T .. S - 1 : nic.rx[Home(j)] = [dd |-> TRUE, piece |-> stored[j + 1]]
      /\ \A j \in S .. T + RingSize - 1 : ~nic.rx[Home(j)].dd
  BY <1>1 DEF Receives, Given
<1>6. PICK G \in Nat : G = T - 1
  BY <1>5
<1>7. Home(G + RingSize) = Home(G) /\ (Home(G) + 1) % RingSize = Home(G + 1)
  BY <1>6, HomeFacts
<1>8. nic'.rdt = Home(T + RingSize - 1) /\ nic'.rx_cur = Home(T)
  <2>1. G + RingSize = T + RingSize - 1 /\ G + 1 = T
    BY <1>1, <1>4, <1>6
  <2> QED BY <1>2, <1>5, <1>6, <1>7, <2>1
<1>9. Types' /\ Taken'
  BY <1>3 DEF Types, Taken
<1>10. Receives'
  <2>1. S < T + RingSize
    BY <1>1, <1>4, <1>5
  <2>2. Len(stored') = S /\ Len(taken') = T /\ Given' = T
    BY <1>1, <1>2, <1>3 DEF Given
  <2> QED BY <1>2, <1>3, <1>5, <1>8, <2>1, <2>2 DEF Receives
<1> QED BY <1>2, <1>3, <1>9, <1>10

\* recv takes the piece that has waited longest and gives its descriptor back.
LEMMA RecvStep ==
  ASSUME Types, Taken, nic \in Nics, Receives, ~nic.in_recv,
         NEW len \in RecvLengths, recv(len)
  PROVE  /\ Types' /\ Taken' /\ (nic \in Nics)' /\ Receives'
         /\ UNCHANGED <<nic.tx, nic.tx_cur, nic.tdh, nic.tdt, accepted, wire>>
<1>1. PICK S \in Nat, T \in Nat : S = Len(stored) /\ T = Len(taken)
  BY DEF Types
<1>2. /\ (nic \in Nics)'
      /\ UNCHANGED <<nic.tx, nic.tx_cur, nic.tdh, nic.tdt, nic.rdh, nic.rdt, nic.rx_cur>>
      /\ nic'.rx = [nic.rx EXCEPT ![nic.rx_cur].dd = FALSE] /\ nic'.in_recv
  BY RecvNic
<1> DEFINE piece == nic.rx[nic.rx_cur].piece
           part == SubSeq(piece, 1, Lesser(Len(piece), len))
<1>3. UNCHANGED <<accepted, wire, stored>> /\ taken' = Append(taken, part) /\ nic.rx[nic.rx_cur].dd
  BY DEF recv
<1>4. RingSize \in Nat \ {0} /\ len \in Nat
  BY RingLimits
<1>5. nic.rx \in [Slots -> [dd : BOOLEAN, piece : Seq(Nat)]]
  BY DEF Nics
<1>6. stored \in Seq(Seq(Nat)) /\ taken \in Seq(Seq(Nat))
  BY DEF Types
<1>7. /\ T <= S /\ S < T + RingSize /\ nic.rdh = Home(S) /\ nic.rx_cur = Home(T)
      /\ nic.rdt = Home(T + RingSize - 1)
      /\ \A j \in T .. S - 1 : nic.rx[Home(j)] = [dd |-> TRUE, piece |-> stored[j + 1]]
      /\ \A j \in S .. T + RingSize - 1 : ~nic.rx[Home(j)].dd
  BY <1>1 DEF Receives, Given
<1>8. Home(T) \in Slots /\ Home(T + RingSize) = Home(T)
  BY <1>1, <1>2, <1>7, HomeFacts
<1>9. T < S
  <2> SUFFICES ASSUME T = S PROVE FALSE
    BY <1>1, <1>7
  <2>1. T \in S .. T + RingSize - 1
    BY <1>1, <1>4
  <2> QED BY <1>3, <1>7, <2>1
<1>10. piece = stored[T + 1] /\ T + 1 \in 1 .. S
  <2>1. T \in T .. S - 1 /\ T + 1 \in 1 .. S
    BY <1>1, <1>9
  <2>2. nic.rx[Home(T)] = [dd |-> TRUE, piece |-> stored[T + 1]]
    BY ZenonT(60), <1>7, <2>1, Zenon
  <2> QED BY <1>7, <2>1, <2>2
<1>11. part \in Seq(Nat)
  <2>1. piece \in Seq(Nat)
    BY <1>1, <1>6, <1>10
  <2> HIDE DEF piece
  <2>2. Lesser(Len(piece), len) \in 0 .. Len(piece)
    BY <1>4, <2>1 DEF Lesser
  <2> QED BY <2>1, <2>2
<1>12. part = SubSeq(stored[T + 1], 1, Lesser(Len(stored[T + 1]), len))
  BY <1>10
<1> HIDE DEF part, piece
<1>13. /\ taken' \in Seq(Seq(Nat)) /\ Len(taken') = T + 1 /\ DOMAIN taken' = 1 .. T + 1
       /\ taken'[T + 1] = part /\ \A k \in 1 .. T : taken'[k] = taken[k]
  BY <1>1, <1>3, <1>6, <1>11
<1>14. Types'
  BY <1>3, <1>13 DEF Types
<1>15. Taken'
  <2>1. DOMAIN taken = 1 .. T /\ \A k \in 1 .. T + 1 : k \in 1 .. T \/ k = T + 1
    BY <1>1, <1>6
  <2>2. \A k \in 1 .. T + 1 : \E n \in RecvLengths : taken'[k] = SubSeq(stored[k], 1, Lesser(Len(stored[k]), n))
    BY ZenonT(60), <1>12, <1>13, <2>1, Zenon DEF Taken
  <2>3. Len(taken') <= Len(stored')
    BY <1>1, <1>3, <1>9, <1>13
  <2> QED BY ZenonT(60), <1>3, <1>13, <2>2, <2>3, Zenon DEF Taken
<1>16. \A j \in T + 1 .. T + RingSize - 1 : nic'.rx[Home(j)] = nic.rx[Home(j)]
  <2> TAKE j \in T + 1 .. T + RingSize - 1
  <2>1. j \in Nat /\ T < j /\ j < T + RingSize
    BY <1>1, <1>4
  <2>2. Home(j) # Home(T) /\ Home(j) \in Slots
    BY <1>1, <2>1, HomeFacts
  <2> QED BY <1>2, <1>5, <1>7, <2>2
<1>17. ~nic'.rx[Home(T)].dd
  BY <1>2, <1>5, <1>7, <1>8
<1>18. \A j \in T + 1 .. S - 1 : nic'.rx[Home(j)] = [dd |-> TRUE, piece |-> stored[j + 1]]
  <2> TAKE j \in T + 1 .. S - 1
  <2>1. j \in T .. S - 1 /\ j \in T + 1 .. T + RingSize - 1
    BY <1>1, <1>4, <1>7
  <2> QED BY <1>7, <1>16, <2>1
<1>19. \A j \in S .. T + RingSize : ~nic'.rx[Home(j)].dd
  <2> TAKE j \in S .. T + RingSize
  <2>1. CASE j = T + RingSize
    BY <1>8, <1>17, <2>1
  <2>2. CASE j # T + RingSize
    <3>1. j \in S .. T + RingSize - 1 /\ j \in T + 1 .. T + RingSize - 1
      BY <1>1, <1>4, <1>9, <2>2
    <3> QED BY <1>7, <1>16, <3>1
  <2> QED BY <2>1, <2>2
<1>20. Receives'
  <2>1. T + 1 <= S /\ (T + 1) + RingSize - 1 = T + RingSize
    BY <1>1, <1>4, <1>7, <1>9
  <2>2. Len(stored') = S /\ Len(taken') = T + 1 /\ Given' = T
    BY <1>1, <1>2, <1>3, <1>13 DEF Given
  <2> QED BY <1>2, <1>3, <1>7, <1>8, <1>18, <1>19, <2>1, <2>2 DEF Receives
<1> QED BY <1>2, <1>3, <1>14, <1>15, <1>20

\* The card after it has received a piece.
LEMMA CardReceivesNic ==
  ASSUME Types, nic \in Nics, NEW n \in PieceLengths, CardReceives(n)
  PROVE  /\ (nic \in Nics)'
         /\ UNCHANGED <<nic.tx, nic.tx_cur, nic.tdh, nic.tdt, nic.rdt, nic.rx_cur, nic.in_recv>>
         /\ Bytes(Len(stored) + 1, n) \in Seq(Nat)
         /\ nic'.rx = [nic.rx EXCEPT ![nic.rdh] = [dd |-> TRUE, piece |-> Bytes(Len(stored) + 1, n)]]
         /\ nic'.rdh = (nic.rdh + 1) % RingSize
<1> DEFINE d == [dd |-> TRUE, piece |-> Bytes(Len(stored) + 1, n)]
           t == [nic.rx EXCEPT ![nic.rdh] = d]
           c == (nic.rdh + 1) % RingSize
<1>1. nic.rdh \in Slots /\ nic.rx \in [Slots -> [dd : BOOLEAN, piece : Seq(Nat)]]
  BY DEF Nics
<1>2. Bytes(Len(stored) + 1, n) \in Seq(Nat)
  <2>1. n \in Nat /\ Len(stored) + 1 \in Nat
    BY RingLimits DEF Types
  <2> QED BY <2>1 DEF Bytes
<1>3. d \in [dd : BOOLEAN, piece : Seq(Nat)]
  BY <1>2
<1> HIDE DEF d
<1>4. t \in [Slots -> [dd : BOOLEAN, piece : Seq(Nat)]]
  BY <1>1, <1>3
<1>5. c \in Slots
  BY <1>1, RingLimits DEF Slots
<1>6. nic' = [nic EXCEPT !.rx[nic.rdh] = d, !.rdh = c]
  BY DEF CardReceives, Nics, d
<1> HIDE DEF c
<1>7. nic' = [nic EXCEPT !.rx = t, !.rdh = c]
  BY <1>6 DEF Nics
<1> HIDE DEF t
<1>8. /\ (nic \in Nics)' /\ UNCHANGED <<nic.tx, nic.tx_cur, nic.tdh, nic.tdt, nic.rdt, nic.rx_cur, nic.in_recv>>
      /\ nic'.rx = t /\ nic'.rdh = c
  BY ZenonT(60), <1>4, <1>5, <1>7 DEF Nics
<1> QED BY <1>2, <1>8 DEF t, c, d

\* The card fills the descriptor after the pieces that wait, which is empty.
LEMMA CardReceivesStep ==
  ASSUME Types, Taken, nic \in Nics, Receives, NEW n \in PieceLengths, CardReceives(n)
  PROVE  /\ Types' /\ Taken' /\ (nic \in Nics)' /\ Receives'
         /\ UNCHANGED <<nic.tx, nic.tx_cur, nic.tdh, nic.tdt, accepted, wire>>
<1>1. PICK S \in Nat, T \in Nat : S = Len(stored) /\ T = Len(taken)
  BY DEF Types
<1> DEFINE piece == Bytes(S + 1, n)
<1>2. /\ (nic \in Nics)' /\ UNCHANGED <<nic.tx, nic.tx_cur, nic.tdh, nic.tdt, nic.rdt, nic.rx_cur, nic.in_recv>>
      /\ piece \in Seq(Nat)
      /\ nic'.rx = [nic.rx EXCEPT ![nic.rdh] = [dd |-> TRUE, piece |-> piece]]
      /\ nic'.rdh = (nic.rdh + 1) % RingSize
  BY ZenonT(60), <1>1, CardReceivesNic, Zenon
<1>3. UNCHANGED <<accepted, wire, taken>> /\ stored' = Append(stored, piece) /\ nic.rdh # nic.rdt
  BY <1>1, Zenon DEF CardReceives
<1> HIDE DEF piece
<1>4. RingSize \in Nat \ {0}
  BY RingLimits
<1>5. nic.rx \in [Slots -> [dd : BOOLEAN, piece : Seq(Nat)]]
  BY DEF Nics
<1>6. stored \in Seq(Seq(Nat)) /\ taken \in Seq(Seq(Nat))
  BY DEF Types
<1>6a. PICK G \in Nat : G = Given /\ G <= T /\ T <= G + 1
  BY <1>1 DEF Receives, Given
<1>7. /\ T <= S /\ S < G + RingSize /\ S < T + RingSize
      /\ nic.rdh = Home(S) /\ nic.rx_cur = Home(G) /\ nic.rdt = Home(G + RingSize - 1)
      /\ \A j \in T .. S - 1 : nic.rx[Home(j)] = [dd |-> TRUE, piece |-> stored[j + 1]]
      /\ \A j \in S .. T + RingSize - 1 : ~nic.rx[Home(j)].dd
  BY <1>6a, <1>1, <1>4 DEF Receives
<1>8. Home(S) \in Slots /\ nic'.rdh = Home(S + 1)
  BY <1>1, <1>2, <1>7, HomeFacts
<1>9. S < G + RingSize - 1 /\ S < T + RingSize - 1
  <2>1. S # G + RingSize - 1
    BY ZenonT(60), <1>3, <1>7, Zenon
  <2>2. S < G + RingSize /\ G <= T
    BY Zenon, <1>6a, <1>7
  <2> QED BY <1>1, <1>4, <2>1, <2>2
<1>10. /\ stored' \in Seq(Seq(Nat)) /\ Len(stored') = S + 1
       /\ stored'[S + 1] = piece /\ \A k \in 1 .. S : stored'[k] = stored[k]
  BY <1>1, <1>2, <1>3, <1>6
<1>11. Types'
  BY <1>3, <1>10 DEF Types
<1>12. Taken'
  <2>1. \A k \in DOMAIN taken : stored'[k] = stored[k]
    BY <1>1, <1>6, <1>7, <1>10
  <2>2. Len(taken') <= Len(stored')
    BY <1>1, <1>3, <1>7, <1>10
  <2> QED BY ZenonT(60), <1>3, <2>1, <2>2, Zenon DEF Taken
<1>13. \A j \in T .. T + RingSize - 1 : j # S => nic'.rx[Home(j)] = nic.rx[Home(j)]
  <2> SUFFICES ASSUME NEW j \in T .. T + RingSize - 1, j # S PROVE nic'.rx[Home(j)] = nic.rx[Home(j)]
    OBVIOUS
  <2>1. j \in Nat /\ ((j < S /\ S < j + RingSize) \/ (S < j /\ j < S + RingSize))
    BY <1>1, <1>4, <1>7
  <2>2. Home(j) # Home(S) /\ Home(j) \in Slots
    BY ZenonT(60), <1>1, <2>1, HomeFacts
  <2> QED BY <1>2, <1>5, <1>7, <2>2
<1>14. nic'.rx[Home(S)] = [dd |-> TRUE, piece |-> piece]
  BY <1>2, <1>5, <1>7, <1>8
<1>15. \A j \in T .. S : nic'.rx[Home(j)] = [dd |-> TRUE, piece |-> stored'[j + 1]]
  <2> SUFFICES ASSUME NEW j \in T .. S, j # S
               PROVE  nic'.rx[Home(j)] = [dd |-> TRUE, piece |-> stored'[j + 1]]
    BY ZenonT(60), <1>10, <1>14
  <2>1. j \in T .. S - 1 /\ j \in T .. T + RingSize - 1 /\ j + 1 \in 1 .. S
    BY <1>1, <1>4, <1>7
  <2>2. nic'.rx[Home(j)] = nic.rx[Home(j)] /\ stored'[j + 1] = stored[j + 1]
    BY <1>10, <1>13, <2>1
  <2>3. nic.rx[Home(j)] = [dd |-> TRUE, piece |-> stored[j + 1]]
    BY ZenonT(60), <1>7, <2>1, Zenon
  <2> QED BY <2>2, <2>3
<1>16. \A j \in S + 1 .. T + RingSize - 1 : ~nic'.rx[Home(j)].dd
  <2> TAKE j \in S + 1 .. T + RingSize - 1
  <2>1. j \in S .. T + RingSize - 1 /\ j \in T .. T + RingSize - 1 /\ j # S
    BY <1>1, <1>4, <1>7
  <2> QED BY <1>7, <1>13, <2>1
<1>17. Receives'
  <2>1. /\ T <= S + 1 /\ S + 1 < G + RingSize /\ (S + 1) - 1 = S
    BY <1>1, <1>4, <1>7, <1>9
  <2>2. Len(stored') = S + 1 /\ Len(taken') = T /\ Given' = G
    BY <1>6a, <1>1, <1>2, <1>3, <1>10 DEF Given
  <2> QED BY <1>2, <1>7, <1>8, <1>15, <1>16, <2>1, <2>2 DEF Receives
<1> QED BY <1>2, <1>3, <1>11, <1>12, <1>17
-----------------------------------------------------------------------------
\* The rings as attach leaves them.
LEMMA AttachRings ==
  ASSUME NEW b, nic' = init_hw(b), accepted' = <<>>, wire' = <<>>, stored' = <<>>, taken' = <<>>
  PROVE  IInv'
<1>1. RingSize \in Nat \ {0, 1} /\ BufSize \in Nat
  BY RingLimits
<1>2. 0 \in Slots /\ RingSize - 1 \in Slots
  BY <1>1 DEF Slots
<1>3. /\ Len(accepted') = 0 /\ Len(wire') = 0 /\ Len(stored') = 0 /\ Len(taken') = 0
      /\ DOMAIN wire' = {} /\ DOMAIN taken' = {}
  OBVIOUS
<1>4. Types' /\ SentAsAccepted' /\ Taken'
  BY <1>3 DEF Types, SentAsAccepted, Taken
<1>5. Bytes(0, BufSize) \in [1 .. BufSize -> Nat] /\ <<>> \in Seq(Nat)
  BY <1>1 DEF Bytes
<1>6. /\ nic'.base = b /\ nic'.rx = [s \in Slots |-> [dd |-> FALSE, piece |-> <<>>]]
      /\ nic'.tx = [s \in Slots |-> [dd |-> TRUE, len |-> 0, buf |-> Bytes(0, BufSize)]]
      /\ nic'.rx_cur = 0 /\ nic'.tx_cur = 0 /\ nic'.rdh = 0 /\ nic'.rdt = RingSize - 1
      /\ nic'.tdh = 0 /\ nic'.tdt = 0 /\ nic'.in_recv = FALSE
  BY DEF init_hw
<1>7. (nic \in Nics)'
  <2>1. [s \in Slots |-> [dd |-> FALSE, piece |-> <<>>]] \in [Slots -> [dd : BOOLEAN, piece : Seq(Nat)]]
    BY <1>5
  <2>2. [s \in Slots |-> [dd |-> TRUE, len |-> 0, buf |-> Bytes(0, BufSize)]]
          \in [Slots -> [dd : BOOLEAN, len : 0 .. BufSize, buf : [1 .. BufSize -> Nat]]]
    BY <1>1, <1>5
  <2> QED BY <1>2, <1>6, <2>1, <2>2 DEF Nics, init_hw
<1>8. Home(0) = 0 /\ Home(0 + RingSize - 1) = RingSize - 1 /\ \A j \in 0 .. RingSize - 1 : Home(j) \in Slots
  BY <1>1 DEF Home, Slots
<1>9. Transmits'
  <2>1. \A j \in 0 .. 0 + RingSize - 1 : nic'.tx[Home(j)].dd
    BY <1>1, <1>6, <1>8
  <2>2. \A j \in 0 .. 0 - 1 : FALSE
    OBVIOUS
  <2> QED BY <1>1, <1>3, <1>6, <1>8, <2>1, <2>2 DEF Transmits
<1>10. Receives'
  <2>1. \A j \in 0 .. 0 + RingSize - 1 : ~nic'.rx[Home(j)].dd
    BY <1>1, <1>6, <1>8
  <2>2. \A j \in 0 .. 0 - 1 : FALSE
    OBVIOUS
  <2>3. Given' = 0
    BY <1>3, <1>6 DEF Given
  <2> QED BY <1>1, <1>3, <1>6, <1>8, <2>1, <2>2, <2>3 DEF Receives
<1> QED BY <1>4, <1>7, <1>9, <1>10 DEF IInv

\* The card does not change while nothing is done with it.
LEMMA SteadyStep ==
  ASSUME IInv, UNCHANGED <<nic, accepted, wire, stored, taken>>
  PROVE  IInv'
<1>1. Types' /\ SentAsAccepted' /\ Taken'
  BY DEF IInv, Types, SentAsAccepted, Taken
<1>2. CASE nic = NoNic /\ NetIdle
  BY <1>1, <1>2 DEF IInv, NetIdle
<1>3. CASE nic \in Nics /\ Transmits /\ Receives
  <2>1. (nic \in Nics)'
    BY ZenonT(60), <1>3 DEF Nics
  <2>2. Transmits' /\ Receives'
    BY <1>3 DEF Transmits, Receives, Given, Waits
  <2> QED BY <1>1, <2>1, <2>2 DEF IInv
<1> QED BY <1>2, <1>3 DEF IInv

\* attach leaves fresh rings, or what was there.
LEMMA AttachStep ==
  ASSUME IInv, NEW at, attach(at)
  PROVE  IInv'
<1>1. \/ UNCHANGED <<nic, accepted, wire, stored, taken>>
      \/ /\ \E b : nic' = init_hw(b)
         /\ accepted' = <<>> /\ wire' = <<>> /\ stored' = <<>> /\ taken' = <<>>
  BY Zenon DEF attach, netVars
<1> QED BY ZenonT(60), <1>1, SteadyStep, AttachRings, Zenon

\* Only a card that is there sends and receives.
LEMMA Present ==
  ASSUME IInv, nic.present
  PROVE  Types /\ SentAsAccepted /\ Taken /\ nic \in Nics /\ Transmits /\ Receives
BY DEF IInv, NoNic

\* The network keeps the rings.
LEMMA NetworkStep ==
  ASSUME IInv, Network
  PROVE  IInv'
<1>1. CASE sys_net_send
  <2>1. PICK len \in SendLengths : send(len)
    BY <1>1 DEF sys_net_send
  <2>2. Types /\ SentAsAccepted /\ Taken /\ nic \in Nics /\ Transmits /\ Receives
    BY <1>1, Present DEF sys_net_send
  <2>3. /\ Types' /\ SentAsAccepted' /\ (nic \in Nics)' /\ Transmits'
        /\ UNCHANGED <<nic.rx, nic.rx_cur, nic.rdh, nic.rdt, nic.in_recv, stored, taken>>
    BY <2>1, <2>2, SendStep
  <2>4. Taken' /\ Receives'
    BY <2>2, <2>3 DEF Taken, Receives, Given
  <2> QED BY <2>3, <2>4 DEF IInv
<1>2. CASE CardSends
  <2>1. Types /\ SentAsAccepted /\ Taken /\ nic \in Nics /\ Transmits /\ Receives
    BY <1>2, Present DEF CardSends
  <2>2. /\ Types' /\ SentAsAccepted' /\ (nic \in Nics)' /\ Transmits'
        /\ UNCHANGED <<nic.rx, nic.rx_cur, nic.rdh, nic.rdt, nic.in_recv, stored, taken>>
    BY <1>2, <2>1, CardSendsStep
  <2>3. Taken' /\ Receives'
    BY <2>1, <2>2 DEF Taken, Receives, Given
  <2> QED BY <2>2, <2>3 DEF IInv
<1>3. CASE sys_net_recv
  <2>1. Types /\ SentAsAccepted /\ Taken /\ nic \in Nics /\ Transmits /\ Receives
    BY <1>3, Present DEF sys_net_recv
  <2>2. /\ Types' /\ Taken' /\ (nic \in Nics)' /\ Receives'
        /\ UNCHANGED <<nic.tx, nic.tx_cur, nic.tdh, nic.tdt, accepted, wire>>
    <3>1. CASE nic.in_recv
      BY <1>3, <2>1, <3>1, RecvEndStep DEF sys_net_recv
    <3>2. CASE ~nic.in_recv
      <4>1. PICK len \in RecvLengths : recv(len)
        BY <1>3, <3>2 DEF sys_net_recv
      <4> QED BY <2>1, <3>2, <4>1, RecvStep
    <3> QED BY <3>1, <3>2
  <2>3. SentAsAccepted' /\ Transmits'
    BY <2>1, <2>2 DEF SentAsAccepted, Transmits, Waits
  <2> QED BY <2>2, <2>3 DEF IInv
<1>4. ASSUME NEW n \in PieceLengths, CardReceives(n) PROVE IInv'
  <2>1. Types /\ SentAsAccepted /\ Taken /\ nic \in Nics /\ Transmits /\ Receives
    BY <1>4, Present DEF CardReceives
  <2>2. /\ Types' /\ Taken' /\ (nic \in Nics)' /\ Receives'
        /\ UNCHANGED <<nic.tx, nic.tx_cur, nic.tdh, nic.tdt, accepted, wire>>
    BY <1>4, <2>1, CardReceivesStep
  <2>3. SentAsAccepted' /\ Transmits'
    BY <2>1, <2>2 DEF SentAsAccepted, Transmits, Waits
  <2> QED BY <2>2, <2>3 DEF IInv
<1> QED BY ZenonT(60), <1>1, <1>2, <1>3, <1>4, Zenon DEF Network

\* No boot step but the attachment of a card touches the rings.
LEMMA BootStep ==
  ASSUME IInv, HubNext
  PROVE  IInv'
<1>1. CASE AttachDevice
  <2>1. UNCHANGED netVars \/ \E at : attach(at)
    BY ZenonT(60), <1>1, Zenon DEF AttachDevice
  <2> QED BY ZenonT(60), <2>1, SteadyStep, AttachStep, Zenon DEF netVars
<1>2. CASE ~AttachDevice
  <2>1. UNCHANGED netVars
    BY <1>2, Zenon DEF HubNext, InitEarly, InitCore, InitDevices, AttachDone, RegisterRamdisks, init_vfs
  <2> QED BY ZenonT(60), <2>1, SteadyStep, Zenon DEF netVars
<1> QED BY <1>1, <1>2

\* Every step keeps the rings.
LEMMA NextIInv == IInv /\ [Next]_vars => IInv'
<1> SUFFICES ASSUME IInv, [Next]_vars PROVE IInv'
  OBVIOUS
<1>1. CASE Boot
  BY <1>1, BootStep DEF Boot
<1>2. CASE Network
  BY <1>2, NetworkStep
<1>3. CASE BlockCall \/ BlockDriver \/ BlockDrive \/ UNCHANGED vars
  <2>1. UNCHANGED netVars
    BY <1>3, Zenon DEF BlockCall, BlockDriver, BlockDrive, vars
  <2> QED BY ZenonT(60), <2>1, SteadyStep, Zenon DEF netVars
<1> QED BY <1>1, <1>2, <1>3 DEF Next

\* Before the boot there is no card and nothing was sent or received.
LEMMA InitIInv == Init => IInv
<1> SUFFICES ASSUME Init PROVE IInv
  OBVIOUS
<1>1. nic = NoNic /\ NetIdle
  BY DEF Init
<1>2. Types /\ SentAsAccepted /\ Taken
  BY <1>1 DEF NetIdle, Types, SentAsAccepted, Taken
<1> QED BY <1>1, <1>2 DEF IInv

\* The invariant implies what is promised of the transmit ring.
LEMMA IInvTransmits == IInv => TransmitsInOrder
<1> SUFFICES ASSUME IInv PROVE TransmitsInOrder
  OBVIOUS
<1>1. SentAsAccepted
  BY DEF IInv
<1> SUFFICES ASSUME nic.present PROVE TransmitRing
  BY <1>1 DEF TransmitsInOrder, TransmitRing
<1>2. Types /\ nic \in Nics /\ Transmits
  BY Present
<1>3. PICK A \in Nat, W \in Nat : A = Len(accepted) /\ W = Len(wire)
  BY <1>2 DEF Types
<1>4. /\ W <= A /\ A <= W + RingSize /\ nic.tdh = Home(W) /\ nic.tdt = Home(A) /\ nic.tx_cur = Home(A)
      /\ \A j \in W .. A - 1 : ~nic.tx[Home(j)].dd
      /\ \A j \in A .. W + RingSize - 1 : nic.tx[Home(j)].dd
  BY <1>2, <1>3 DEF Transmits, Waits
<1>5. Outstanding = A - W /\ RingSize \in Nat \ {0}
  BY <1>3, RingLimits DEF Outstanding
<1>6. \A k \in 0 .. (RingSize - 1) : nic.tx[(nic.tdh + k) % RingSize].dd <=> k >= Outstanding
  <2> TAKE k \in 0 .. (RingSize - 1)
  <2>1. (nic.tdh + k) % RingSize = Home(W + k)
    <3>1. k \in 0 .. RingSize
      BY <1>5
    <3>2. (W + k) % RingSize = ((W % RingSize) + k) % RingSize
      BY ZenonT(60), <1>3, <1>5, <3>1, ModRing
    <3> QED BY ZenonT(60), <1>4, <3>2, Zenon DEF Home
  <2>2. W + k \in W .. A - 1 <=> ~(k >= Outstanding)
    BY <1>3, <1>5
  <2>3. W + k \in A .. W + RingSize - 1 <=> k >= Outstanding
    BY <1>3, <1>4, <1>5
  <2> QED BY ZenonT(60), <1>4, <2>1, <2>2, <2>3, Zenon
<1>7. nic.tdh = nic.tdt <=> (Outstanding = 0 \/ Wedged)
  <2>1. Wedged <=> A = W + RingSize
    BY <1>3, <1>5 DEF Wedged
  <2>2. A = W + RingSize => Home(A) = Home(W)
    BY <1>3, HomeFacts
  <2>3. W < A /\ A < W + RingSize => Home(W) # Home(A)
    BY <1>3, HomeFacts
  <2>4. Outstanding = 0 <=> A = W
    BY <1>3, <1>5
  <2>5. A = W \/ A = W + RingSize \/ (W < A /\ A < W + RingSize)
    <3>1. W <= A /\ A <= W + RingSize /\ RingSize \in Nat
      BY ZenonT(60), <1>4, <1>5, Zenon
    <3> QED BY <3>1
  <2> QED BY ZenonT(60), <1>4, <2>1, <2>2, <2>3, <2>4, <2>5, Zenon
<1>8. Outstanding \in 0 .. RingSize /\ nic.tx_cur = nic.tdt
  BY <1>3, <1>4, <1>5
<1> QED BY ZenonT(60), <1>6, <1>7, <1>8, Zenon DEF TransmitRing

\* The invariant implies what is promised of the receive ring.
LEMMA IInvReceives == IInv => ReceivedInOrder
<1> SUFFICES ASSUME IInv PROVE ReceivedInOrder
  OBVIOUS
<1>1. Taken
  BY DEF IInv
<1>2. ASSUME nic.present, NEW k \in (Len(taken) + 1) .. Len(stored)
      PROVE  nic.rx[(k - 1) % RingSize] = [dd |-> TRUE, piece |-> stored[k]]
  <2>1. Types /\ Receives
    BY <1>2, Present
  <2>2. k - 1 \in Len(taken) .. Len(stored) - 1 /\ (k - 1) + 1 = k
    BY <1>2, <2>1 DEF Types
  <2>3. nic.rx[Home(k - 1)] = [dd |-> TRUE, piece |-> stored[(k - 1) + 1]]
    BY ZenonT(60), <2>1, <2>2, Zenon DEF Receives
  <2> QED BY <2>2, <2>3 DEF Home
<1> QED BY ZenonT(60), <1>1, <1>2, Zenon DEF ReceivedInOrder, Taken

\* Whatever the size of the ring and however many packets are sent: a descriptor
\* is not done exactly while its packet is outstanding, and what send accepted
\* goes out once, in order, padded with zeros.
THEOREM AlwaysTransmitsInOrder == Spec => []TransmitsInOrder
<1>1. Init => IInv
  BY InitIInv
<1>2. IInv /\ [Next]_vars => IInv'
  BY NextIInv
<1>3. IInv => TransmitsInOrder
  BY IInvTransmits
<1> QED BY <1>1, <1>2, <1>3, PTL DEF Spec

\* recv returns what the card stored, in order and none twice, and the card
\* never overwrites a piece that was not read, whatever the size of the ring.
THEOREM AlwaysReceivedInOrder == Spec => []ReceivedInOrder
<1>1. Init => IInv
  BY InitIInv
<1>2. IInv /\ [Next]_vars => IInv'
  BY NextIInv
<1>3. IInv => ReceivedInOrder
  BY IInvReceives
<1> QED BY <1>1, <1>2, <1>3, PTL DEF Spec

-----------------------------------------------------------------------------
\* The drivers use the block devices only as these allow: the boot and the network
\* leave them alone.
LEMMA BlockSteps == [Next]_vars => [BlockNext]_blockVars
<1> SUFFICES ASSUME [Next]_vars PROVE [BlockNext]_blockVars
  OBVIOUS
<1>1. CASE BlockCall
  <2>1. PICK op \in {"read", "write"}, r \in Requests :
          AtaCall(op, r[1], r[2]) \/ RamCall(op, r[1], r[2])
    BY <1>1 DEF BlockCall
  <2> QED BY <2>1 DEF BlockNext
<1>2. CASE BlockDriver
  BY <1>2 DEF BlockDriver, BlockNext
<1>3. CASE BlockDrive
  BY <1>3 DEF BlockDrive, BlockNext
<1>4. CASE Boot \/ Network \/ UNCHANGED vars
  BY Zenon, <1>4 DEF Boot, Network, vars
<1> QED BY <1>1, <1>2, <1>3, <1>4 DEF Next

\* On every machine, a call of a block device changes no byte outside its request,
\* what it reports as written is stored or was lost by the drive, and what it
\* returns is what is stored.
THEOREM DriversTransferExactly == Spec => []TransfersExact
<1>1. Init => BlockInit
  BY DEF Init
<1>2. Spec => BlockSpec
  BY <1>1, BlockSteps, PTL DEF Spec, BlockSpec
<1> QED BY <1>2, TransfersAlwaysExact, PTL
=============================================================================
