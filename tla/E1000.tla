------------------------------- MODULE E1000 -------------------------------
(***************************************************************************)
(* The e1000 network driver (e1000.rs): its two descriptor rings, shared   *)
(* with a card that reads and writes them on its own, and the attachment   *)
(* that takes the card over.                                               *)
(*                                                                         *)
(* One lock covers every call of the driver, so a call is a step, except   *)
(* for recv, which gives its descriptor back in two; the card takes its    *)
(* steps between any two of them. A byte of a packet is represented by the *)
(* number of the packet it belongs to, zero for padding.                   *)
(***************************************************************************)
EXTENDS Pci

CONSTANTS
    RingSize,       \* RX_DESC_COUNT and TX_DESC_COUNT
    MinFrame,       \* the length short packets are padded to: 60
    BufSize,        \* TX_BUF_SIZE, and the card's receive buffer: 2048
    SendLengths,    \* the lengths of the packets sent
    PieceLengths,   \* the lengths the card stores in one receive buffer
    RecvLengths,    \* the lengths of the buffers given to recv
    MaxPackets      \* bound on packets sent and pieces received

ASSUME RingLimits ==
    /\ RingSize \in Nat \ {0, 1}
    /\ BufSize \in Nat /\ MinFrame \in 1..BufSize
    /\ SendLengths \subseteq Nat
    /\ PieceLengths \subseteq 1..BufSize
    /\ RecvLengths \subseteq Nat
    /\ MaxPackets \in Nat

VARIABLES
    config,         \* the machine's PCI configuration space
    frames,         \* physical frames the allocator can still give
    nic,            \* DEVICE: the card attached, its rings and registers
    accepted,       \* the packets send returned a length for, in order
    wire,           \* what the card has put on the wire, in order
    stored,         \* the pieces the card has put into receive buffers
    taken           \* what recv returned, in order

netVars == <<config, frames, nic, accepted, wire, stored, taken>>

Slots == 0..(RingSize - 1)
NoNic == [present |-> FALSE]

Bytes(id, n) == [i \in 1..n |-> id]
Lesser(m, n) == IF m < n THEN m ELSE n

(* Mutant: the transmit tail set up like the receive tail.                 *)
init_hw_tail(base) ==
    [present |-> TRUE, base |-> base,
     rx |-> [s \in Slots |-> [dd |-> FALSE, piece |-> <<>>]],
     tx |-> [s \in Slots |-> [dd |-> TRUE, len |-> 0,
                              buf |-> Bytes(0, BufSize)]],
     rx_cur |-> 0, tx_cur |-> 0,
     rdh |-> 0, rdt |-> RingSize - 1, tdh |-> 0, tdt |-> RingSize - 1,
     in_recv |-> FALSE]

(* The rings as attach leaves them: every buffer zeroed, every transmit    *)
(* descriptor done, and the card given all receive descriptors but one.    *)
(* in_recv says that recv is between its two steps.                        *)
init_hw(base) ==
    [present |-> TRUE, base |-> base,
     rx |-> [s \in Slots |-> [dd |-> FALSE, piece |-> <<>>]],
     tx |-> [s \in Slots |-> [dd |-> TRUE, len |-> 0,
                              buf |-> Bytes(0, BufSize)]],
     rx_cur |-> 0, tx_cur |-> 0,
     rdh |-> 0, rdt |-> RingSize - 1, tdh |-> 0, tdt |-> 0,
     in_recv |-> FALSE]

(* A frame for each ring and one for each buffer.                          *)
FramesNeeded == 2 + 2 * RingSize

Usable(bar0) == bar0 # <<0, 0, 0, 0>> /\ bar0[1] % 2 = 0

(* attach: without a memory-space BAR 0 nothing happens. Otherwise the     *)
(* card becomes a bus master, and the frames are taken one after another;  *)
(* when they run out the ones taken are not given back. A card attached    *)
(* before is replaced.                                                     *)
Attached(at) ==
    /\ Usable(read_bar0(config, at[1], at[2], at[3]))
    /\ frames >= FramesNeeded

attach(at) ==
    LET bar0 == read_bar0(config, at[1], at[2], at[3])
        base == [bar0 EXCEPT ![1] = @ - (@ % 16)]
    IN  IF ~Usable(bar0) THEN UNCHANGED netVars
        ELSE /\ config' = enable_bus_master(config, at[1], at[2], at[3])
             /\ frames' = IF Attached(at) THEN frames - FramesNeeded ELSE 0
             /\ IF Attached(at)
                THEN /\ nic' = init_hw(base)
                     /\ accepted' = <<>> /\ wire' = <<>>
                     /\ stored' = <<>> /\ taken' = <<>>
                ELSE UNCHANGED <<nic, accepted, wire, stored, taken>>

Budget == Len(accepted) + Len(stored) < MaxPackets

(* The transmit buffer after the copy: the packet, zeros up to the length  *)
(* sent, and what the buffer held before beyond it.                        *)
Filled(buf, id, len, send_len) ==
    [i \in 1..BufSize |-> IF i <= len THEN id
                          ELSE IF i <= send_len THEN 0 ELSE buf[i]]

SendLength(len) == IF len < MinFrame THEN MinFrame ELSE len

(* send, when it does something: a packet that fits, and a descriptor at   *)
(* tx_cur that the card is done with.                                      *)
send(len) ==
    LET idx == nic.tx_cur
        id == Len(accepted) + 1
    IN  /\ len # 0 /\ len <= BufSize
        /\ nic.tx[idx].dd
        /\ nic' = [nic EXCEPT
               !.tx[idx] = [dd |-> FALSE, len |-> SendLength(len),
                            buf |-> Filled(nic.tx[idx].buf, id, len,
                                           SendLength(len))],
               !.tdt = (idx + 1) % RingSize,
               !.tx_cur = (idx + 1) % RingSize]
        /\ accepted' = Append(accepted, len)
        /\ UNCHANGED <<config, frames, wire, stored, taken>>

(* Mutant: the descriptor's status is not cleared.                         *)
RecvUncleared(len) ==
    LET idx == nic.rx_cur
        piece == nic.rx[idx].piece
    IN  /\ nic.rx[idx].dd
        /\ taken' = Append(taken, SubSeq(piece, 1, Lesser(Len(piece), len)))
        /\ nic' = [nic EXCEPT !.in_recv = TRUE]
        /\ UNCHANGED <<config, frames, accepted, wire, stored>>

(* recv, when it does something: the descriptor at rx_cur is done. Its     *)
(* piece is copied and its status cleared. Whether the piece ends a packet *)
(* is not looked at.                                                       *)
recv(len) ==
    LET idx == nic.rx_cur
        piece == nic.rx[idx].piece
    IN  /\ nic.rx[idx].dd
        /\ taken' = Append(taken, SubSeq(piece, 1, Lesser(Len(piece), len)))
        /\ nic' = [nic EXCEPT !.rx[idx].dd = FALSE, !.in_recv = TRUE]
        /\ UNCHANGED <<config, frames, accepted, wire, stored>>

(* The end of recv: the descriptor is given back to the card by moving the *)
(* tail onto it.                                                           *)
recv_end ==
    /\ nic' = [nic EXCEPT !.rdt = nic.rx_cur, !.in_recv = FALSE,
                          !.rx_cur = (@ + 1) % RingSize]
    /\ UNCHANGED <<config, frames, accepted, wire, stored, taken>>

(* The card sends the packet at its head, unless head and tail are equal,  *)
(* and reports the descriptor done.                                        *)
CardSends ==
    /\ nic.present
    /\ nic.tdh # nic.tdt
    /\ wire' = Append(wire, SubSeq(nic.tx[nic.tdh].buf, 1,
                                   nic.tx[nic.tdh].len))
    /\ nic' = [nic EXCEPT !.tx[nic.tdh].dd = TRUE,
                          !.tdh = (@ + 1) % RingSize]
    /\ UNCHANGED <<config, frames, accepted, stored, taken>>

(* The card stores what it receives at its head, unless head and tail are  *)
(* equal: then the packet is lost. A packet longer than a buffer fills     *)
(* several.                                                                *)
CardReceives(n) ==
    /\ nic.present
    /\ nic.rdh # nic.rdt
    /\ Budget
    /\ LET piece == Bytes(Len(stored) + 1, n)
       IN  /\ stored' = Append(stored, piece)
           /\ nic' = [nic EXCEPT
                  !.rx[nic.rdh] = [dd |-> TRUE, piece |-> piece],
                  !.rdh = (@ + 1) % RingSize]
    /\ UNCHANGED <<config, frames, accepted, wire, taken>>

sys_net_send ==
    nic.present /\ ~nic.in_recv /\ Budget /\ \E len \in SendLengths : send(len)
sys_net_recv ==
    /\ nic.present
    /\ \/ ~nic.in_recv /\ \E len \in RecvLengths : recv(len)
       \/ nic.in_recv /\ recv_end

NetIdle ==
    /\ accepted = <<>> /\ wire = <<>> /\ stored = <<>> /\ taken = <<>>

-----------------------------------------------------------------------------
Outstanding == Len(accepted) - Len(wire)

(* All descriptors were handed over with none sent in between: the tail    *)
(* came round to the head, which the card reads as an empty ring.          *)
Wedged == nic.present /\ Outstanding = RingSize

(* What send accepted goes out once, in order, with its own bytes and      *)
(* zeros up to the minimum: a buffer used again shows nothing of an        *)
(* earlier packet.                                                         *)
SentAsAccepted ==
    /\ Len(wire) <= Len(accepted)
    /\ \A k \in DOMAIN wire :
           wire[k] = [i \in 1..SendLength(accepted[k]) |->
                          IF i <= accepted[k] THEN k ELSE 0]

(* A descriptor is not done exactly while its packet is outstanding, and   *)
(* the card sees every outstanding packet unless the ring is wedged: send  *)
(* leaves no descriptor free between tail and head.                        *)
TransmitRing ==
    nic.present =>
        /\ Outstanding \in 0..RingSize
        /\ nic.tx_cur = nic.tdt
        /\ \A k \in 0..(RingSize - 1) :
               nic.tx[(nic.tdh + k) % RingSize].dd <=> k >= Outstanding
        /\ (nic.tdh = nic.tdt) <=> (Outstanding = 0 \/ Wedged)

(* recv returns the card's pieces in the order they arrived, each cut to   *)
(* the caller's buffer, none twice, and the card never overwrites one that *)
(* was not read.                                                           *)
ReceivedInOrder ==
    /\ Len(taken) <= Len(stored)
    /\ \A k \in DOMAIN taken : \E n \in RecvLengths :
           taken[k] = SubSeq(stored[k], 1, Lesser(Len(stored[k]), n))
    /\ nic.present => \A k \in (Len(taken) + 1)..Len(stored) :
           nic.rx[(k - 1) % RingSize] = [dd |-> TRUE, piece |-> stored[k]]

(* An accepted packet is on the wire some day, unless the ring wedges. The *)
(* packets watched are the first and the one that is first to use a        *)
(* descriptor again.                                                       *)
AcceptedIsSent ==
    \A k \in {1, RingSize + 1} :
        (Len(accepted) >= k) ~> (Len(wire) >= k \/ Wedged)

(* The transmit ring and what leaves it.                                   *)
TransmitsInOrder == TransmitRing /\ SentAsAccepted
=============================================================================
