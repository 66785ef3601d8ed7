------------------------------ MODULE MCNetTools ------------------------------
(* A gateway and a web server on the link, the DNS server behind the gateway. *)
EXTENDS NetTools, NetCodec, Rtc

Me == <<1, 2>>
Gateway == <<1, 1>>
Web == <<1, 5>>
Dns == <<2, 8>>

OnLink == {Gateway, Web}

Class(mask) == [mask |-> mask, gw |-> Gateway, dns |-> Dns]
Right == Class(<<255, 0>>)

\* Two names, the first with a record of another type before its address, and one
\* without an address.
Names ==
    [n \in {"web", "gw", "nil"} |->
        CASE n = "web" -> <<None, Web>> [] n = "gw" -> <<Gateway>> [] n = "nil" -> <<None>>]

Typing ==
    {[op |-> "getnet", ip |-> Web], [op |-> "getnet", name |-> "gw"],
     [op |-> "dns", name |-> "web"], [op |-> "dns", name |-> "nil"],
     [op |-> "dns", name |-> "a..b"], [op |-> "getnet", name |-> "tooLong"],
     [op |-> "ping", ip |-> Web, count |-> 2],
     [op |-> "netdump"], [op |-> "netcfg", config |-> Class(<<255, 255>>)],
     [op |-> "netcfg", config |-> Class(<<0, 0>>)]}

\* The first connection's numbers pass through zero.
InitialNumbers == <<14, 6>>
-----------------------------------------------------------------------------
(***************************************************************************)
(* The conversions, where the tools rely on them                           *)
(***************************************************************************)
\* When a command is typed, parse_ipv4_str takes exactly the texts of four
\* numbers up to 255 (an empty one is 0) and returns them, and what netcfg and
\* dns print of an address is read back as that address.
AddressParses == cmd.at = "idle" => AddressesRead

\* While dns_query_cfg waits: encode_qname has taken exactly the names whose
\* labels have 1 to 63 characters and whose encoding fits the frame, and
\* skip_name finds the end of a name, whole or ended by a compression pointer.
NameSkips == cmd.at = "dns" => NamesRead

\* Frames under way pass the receiver's test of the checksums that ping, dns and
\* getnet put into them, for even and odd lengths and sums with carries, and no
\* checksum of UDP is zero, which would mean none.
ChecksumVerifies == up # <<>> => ChecksumsAccepted

\* A wait that read the clock has a time the clock showed in the last attempt of
\* read_rtc_time, never a mixture of two, whichever registers a change falls
\* between, and however the chip keeps its numbers (with hours up to 12, the time
\* of the morning); and a reading fails only when a change is announced during it.
TimeIsWhole == cmd.at # "idle" => ReadingsWhole

\* Seconds are comparable over the ends of months and years, leap years and 2100,
\* which is none: unix_seconds numbers every day one higher than the day before.
DaysFollow == cmd.at # "idle" => DaysCounted

\* The conversions: addresses, names and checksums, where a command uses them.
ConversionsAgree == AddressParses /\ NameSkips /\ ChecksumVerifies

\* The clock: a reading is one time it showed, and days count up.
ClockAgrees == TimeIsWhole /\ DaysFollow
=============================================================================
