------------------------------- MODULE NetCodec -------------------------------
(***************************************************************************)
(* What the network tools write into frames and read from command lines:   *)
(* addresses as text, names as DNS labels, and the checksums of IP, UDP    *)
(* and TCP.  Bytes are numbers; digits stand for their characters, and     *)
(* loops over a string are folds.                                          *)
(***************************************************************************)
LOCAL INSTANCE Integers
LOCAL INSTANCE Sequences
LOCAL INSTANCE SequencesExt
LOCAL INSTANCE FiniteSetsExt

Dot == 46                                   \* '.'
Failed == [ok |-> FALSE]                    \* None
-----------------------------------------------------------------------------
\* Digits are 48 to 57.  The loop's state is [ok, out, acc].
ParseByte(s, b) ==
    CASE ~s.ok -> Failed
      [] s.ok /\ b = Dot /\ Len(s.out) < 4 -> [s EXCEPT !.out = Append(@, s.acc), !.acc = 0]
      [] s.ok /\ b \in 48 .. 57 /\ s.acc * 10 + b - 48 <= 255 -> [s EXCEPT !.acc = @ * 10 + b - 48]
      [] OTHER -> Failed

ParseEnd(s) == IF s.ok /\ Len(s.out) = 3 THEN [ok |-> TRUE, ip |-> Append(s.out, s.acc)] ELSE Failed

parse_ipv4_str(str) == ParseEnd(FoldLeft(ParseByte, [ok |-> TRUE, out |-> <<>>, acc |-> 0], str))

\* One byte of an address in decimal, without leading zeros.
write_u8(v) ==
    (IF v >= 100 THEN <<48 + v \div 100>> ELSE <<>>)
        \o (IF v >= 10 THEN <<48 + ((v \div 10) % 10)>> ELSE <<>>) \o <<48 + (v % 10)>>

print_ip(ip) ==
    write_u8(ip[1]) \o <<Dot>> \o write_u8(ip[2]) \o <<Dot>> \o write_u8(ip[3]) \o <<Dot>> \o write_u8(ip[4])
-----------------------------------------------------------------------------

MaxLabel == 63

LabelFits(idx, len, room) == idx + 1 + len < room

\* The labels from position start on, each up to the next dot or the end.
RECURSIVE EncodeFrom(_, _, _, _)
EncodeFrom(name, start, out, room) ==
    LET i == Min({j \in start .. Len(name) : j = Len(name) \/ name[j + 1] = Dot})
        len == i - start
        longer == out \o <<len>> \o SubSeq(name, start + 1, i)
    IN  IF len \notin 1 .. MaxLabel \/ ~LabelFits(Len(out), len, room) THEN Failed
        ELSE IF i < Len(name) THEN EncodeFrom(name, i + 1, longer, room)
        ELSE [ok |-> TRUE, out |-> longer]

\* The bytes written into a buffer of size room.
encode_qname(name, room) ==
    LET s == EncodeFrom(name, 0, <<>>, room)
    IN  IF s.ok /\ Len(s.out) < room THEN [s EXCEPT !.out = Append(@, 0)] ELSE Failed

MaxSteps == 255

RECURSIVE SkipFrom(_, _, _)
SkipFrom(buf, off, steps) ==
    IF off >= Len(buf) \/ steps = MaxSteps THEN Failed
    ELSE LET len == buf[off + 1] IN
         CASE len \div 64 = 3 -> IF off + 1 < Len(buf) THEN [ok |-> TRUE, off |-> off + 2] ELSE Failed
           [] len = 0         -> [ok |-> TRUE, off |-> off + 1]
           [] OTHER           -> SkipFrom(buf, off + 1 + len, steps + 1)

\* The offset after the name at off; offsets start at 0.
skip_name(buf, off) == SkipFrom(buf, off, 0)
-----------------------------------------------------------------------------
\* Mutant of WordSum: an odd byte at the end is taken as the low one.
WordSumOdd(data) == FoldLeft(+, 0, [i \in DOMAIN data |->
    IF i % 2 = 1 /\ i # Len(data) THEN data[i] * 256 ELSE data[i]])

\* The sum of the big-endian words; an odd byte at the end is a high one.
WordSum(data) == FoldLeft(+, 0, [i \in DOMAIN data |-> IF i % 2 = 1 THEN data[i] * 256 ELSE data[i]])

\* The carries are added in; twice is enough for every 32-bit sum.
Carried(sum) == (sum % 65536) + sum \div 65536
Complement(sum) == 65535 - Carried(Carried(sum))

checksum16(data) == Complement(WordSum(data))

PseudoSum(src, dst, proto, segment) == WordSum(src \o dst) + proto + (Len(segment) % 65536) + WordSum(segment)
tcp_checksum(src, dst, segment) == Complement(PseudoSum(src, dst, 6, segment))
udp_checksum(src, dst, segment) ==
    LET csum == Complement(PseudoSum(src, dst, 17, segment)) IN IF csum = 0 THEN 65535 ELSE csum

Word(v) == <<v \div 256, v % 256>>
Stored(data, at, csum) == [i \in DOMAIN data |-> IF i \in at .. at + 1 THEN Word(csum)[i - at + 1] ELSE data[i]]

build_ipv4_header(total_len, proto, src, dst, ident) ==
    LET buf == <<69, 0>> \o Word(total_len) \o Word(ident) \o <<64, 0, 64, proto, 0, 0>> \o src \o dst
    IN  Stored(buf, 11, checksum16(buf))
-----------------------------------------------------------------------------
(***************************************************************************)
(* Inputs, and what must hold of them                                      *)
(***************************************************************************)
Joined(parts) == FoldLeft(LAMBDA s, p : s \o <<Dot>> \o p, Head(parts), Tail(parts))

\* Parts of an address: empty, in and out of range, with leading zeros, not a number.
AddressParts ==
    {<<>>, <<48>>, <<50, 53, 53>>, <<50, 53, 54>>, <<48, 48, 48, 55>>, <<57, 57, 57, 57, 57, 57>>, <<49, 97>>}
PartValue(p) == FoldLeft(LAMBDA v, b : IF b \in 48 .. 57 THEN v * 10 + b - 48 ELSE 1000, 0, p)

\* parse_ipv4_str takes exactly the strings of four numbers up to 255 (an empty
\* one is 0) and returns them, and what netcfg and dns print of an address is
\* parsed back to it.
AddressesRead ==
    /\ \A n \in 3 .. 5 : \A parts \in [1 .. n -> AddressParts] :
        LET result == parse_ipv4_str(Joined(parts)) IN
        IF n = 4 /\ \A i \in 1 .. n : PartValue(parts[i]) <= 255
        THEN result.ok /\ result.ip = [i \in 1 .. n |-> PartValue(parts[i])]
        ELSE ~result.ok
    /\ \A ip \in [1 .. 4 -> {0, 9, 10, 100, 255}] : parse_ipv4_str(print_ip(ip)) = [ok |-> TRUE, ip |-> ip]

Labels == {<<>>, <<97>>, <<97, 98, 99>>, [i \in 1 .. 63 |-> 97], [i \in 1 .. 64 |-> 97]}

\* encode_qname takes exactly the names whose labels have 1 to 63 characters and
\* whose encoding fits the buffer, its final zero included; skip_name then finds
\* the end of the name, wherever it stands and whether it is whole or ends in a
\* compression pointer.
NamesRead ==
    \A n \in 1 .. 3 : \A labels \in [1 .. n -> Labels] :
        LET name == Joined(labels)
            good == \A i \in 1 .. n : Len(labels[i]) \in 1 .. 63
        IN \A room \in {1, 2, 3, 4, 5, 8, Len(name) + 1, Len(name) + 2, 200} :
            LET code == encode_qname(name, room) IN
            /\ code.ok <=> good /\ Len(name) + 2 <= room
            /\ code.ok => /\ Len(code.out) = Len(name) + 2
                          /\ skip_name(<<0, 7>> \o code.out \o <<1, 1>>, 2)
                                = [ok |-> TRUE, off |-> 2 + Len(code.out)]
                          /\ skip_name(Front(code.out) \o <<192, 12, 1>>, 0)
                                = [ok |-> TRUE, off |-> Len(code.out) + 1]
                          /\ ~skip_name(Front(code.out), 0).ok

SampleBytes == {0, 1, 254, 255}

\* A receiver's test of what is sent: the words, checksum included, add up to a
\* multiple of 65535 that is not zero; an odd byte at the end is filled with zero.
Verifies(data) ==
    LET even == IF Len(data) % 2 = 0 THEN data ELSE Append(data, 0)
        sum == FoldLeft(+, 0, [i \in 1 .. Len(even) \div 2 |-> even[2 * i - 1] * 256 + even[2 * i]])
    IN  sum > 0 /\ sum % 65535 = 0
Pseudo(src, dst, proto, segment) == src \o dst \o <<0, proto>> \o Word(Len(segment)) \o segment

\* The checksums that ping, dns and getnet put into their headers pass the
\* receiver's test, for even and odd lengths and sums with carries, and that of
\* UDP is never zero, which would mean none.
ChecksumsAccepted ==
    \A n \in 3 .. 5 : \A data \in [1 .. n -> SampleBytes] :
        LET empty == Stored(data, 1, 0)
            src == <<10, 255, 0, data[2]>>
            dst == <<data[1], 255, 255, 1>>
            udp == udp_checksum(src, dst, empty)
        IN  /\ WordSum(empty) > 0 => Verifies(Stored(empty, 1, checksum16(empty)))
            /\ Verifies(Pseudo(src, dst, 6, Stored(empty, 1, tcp_checksum(src, dst, empty))))
            /\ udp # 0 /\ Verifies(Pseudo(src, dst, 17, Stored(empty, 1, udp)))
            /\ Verifies(build_ipv4_header(data[1] * 256 + n, 6, src, dst, data[2] * 257))
=============================================================================
