------------------------------- MODULE NetTools -------------------------------
(***************************************************************************)
(* The network tools of the shell (user/src/net.rs and the commands        *)
(* getnet, dns, ping, netdump and netcfg), which carry their own ARP, DNS, *)
(* ICMP and TCP over the frames that sys_net_send and sys_net_recv pass    *)
(* to and from the card, against a network that loses, delays, repeats and *)
(* reorders frames, and servers that follow the protocols.                 *)
(*                                                                         *)
(* Commands run one after another in the shell's own process: they share   *)
(* its pid, hence port numbers and identifiers, and the card's ring, where *)
(* frames of one command await the next.  One round of a receive loop is   *)
(* one step.  A host is named by its address, and its MAC address too.     *)
(*                                                                         *)
(* The clock is read with sys_time_seconds, which fails with -1 while the  *)
(* clock chip updates itself; a wait whose start is -1 has run out at the  *)
(* first look at the clock.  Seconds in which no number is drawn from the  *)
(* clock are not told apart.                                               *)
(***************************************************************************)
EXTENDS Integers, SequencesExt, FiniteSetsExt

CONSTANTS
    MyIp, WebServer,        \* addresses: sequences of bytes
    LinkHosts,              \* the hosts on the same link
    DefaultConfig,          \* [mask, gw, dns]: NET_MASK, NET_GW, NET_DNS
    Zone,                   \* for each name, the records of its DNS answer
    Refused, Unencodable,   \* names of no or too many characters, names with a bad label
    Commands,               \* what is typed
    ArpWait, DnsWait, SynWait, SynTries, ResendAfter, Resends, GetLimit,
    PingWait, DumpWait, DumpCount,   \* limits of the loops
    SeqSpace,                 \* sequence numbers are 0..SeqSpace-1 (2^32)
    Iss,                    \* the web server's initial sequence numbers
    ResponseLen,            \* segments of its response
    RxSlots,                \* frames the card's ring holds
    MaxCommands, MaxFaults, MaxNoisyFaults  \* bounds

None == <<>>

ASSUME NetToolsAssumption ==
    /\ {ArpWait, DnsWait, SynWait, SynTries, ResendAfter, PingWait, DumpWait}
            \subseteq Nat \ {0}
    /\ SeqSpace > ResponseLen + 2 /\ RxSlots > 0

VARIABLES
    config,     \* the configuration that netcfg sets
    cmd,        \* the running command: see Idle
    clock,      \* [now, drawn]: seconds, and whether a number was drawn in this one
    rx,         \* frames in the card's ring, oldest first
    up, down,   \* frames on their way to the hosts, and to us, first one first
    srv,        \* the web server's connection
    faults,     \* what went wrong so far
    seen        \* history: [done, printed, queries, echoed, late]

vars == <<config, cmd, clock, rx, up, down, srv, faults, seen>>
-----------------------------------------------------------------------------
(***************************************************************************)
(* Addresses and frames                                                    *)
(***************************************************************************)
\* Bytes of masks are 0 or 255.
same_subnet(ip, mask, other) == \A i \in DOMAIN mask : mask[i] # 0 => ip[i] = other[i]

NextHop(c, ip) == IF same_subnet(MyIp, c.mask, ip) THEN ip ELSE c.gw

ArpRequest(hop) == [kind |-> "arpq", ip |-> hop]
DnsQuery(mac, ip, id, name) == [kind |-> "dnsq", mac |-> mac, ip |-> ip, id |-> id, name |-> name]
EchoRequest(mac, ip, seq) == [kind |-> "echo", mac |-> mac, ip |-> ip, seq |-> seq]

\* send_tcp_payload; the acknowledgement flag is set for every number but 0.
Segment(c, seq, ack, flags, len) ==
    [kind |-> "tcp", mac |-> c.mac, ip |-> c.dst, seq |-> seq, ack |-> ack,
     flags |-> flags \cup (IF ack # 0 THEN {"ACK"} ELSE {}), len |-> len]

\* No command: what the last one left is kept for the properties.
Idle ==
    [at |-> "idle", op |-> "", name |-> "", dst |-> None, goal |-> "", hop |-> None, mac |-> None,
     id |-> 0, tries |-> 0, waited |-> 0, blind |-> FALSE, since |-> 0, seq |-> 0, ack |-> 0,
     heard |-> FALSE, conn |-> 0, out |-> <<>>, oks |-> {}, end |-> ""]

Fault == faults < MaxFaults /\ faults' = faults + 1

Ended(c, how) == [Idle EXCEPT !.out = c.out, !.conn = c.conn, !.end = how]

\* The clock is read, without success where failures says so.
Reads(failures) ==
    /\ faults' = faults + Cardinality({i \in DOMAIN failures : failures[i]})
    /\ faults' <= MaxFaults

\* A number drawn from the clock: the identifier of a query, and with the port
\* the first sequence number.
Drawn(failed) == IF failed THEN -1 ELSE clock.now
Draws(failed) == clock' = IF failed THEN clock ELSE [clock EXCEPT !.drawn = TRUE]

\* What a look at the clock finds; one that fails never ends the wait.
Expired(limit) == cmd.blind \/ cmd.waited >= limit

\* A wait begins.
Waiting(c, at, failed) == [c EXCEPT !.at = at, !.waited = 0, !.since = 0, !.blind = failed]
-----------------------------------------------------------------------------
(***************************************************************************)
(* Commands, up to the ARP request that each begins with                   *)
(***************************************************************************)
Types == cmd.at = "idle" /\ seen.done < MaxCommands
Typed == Types /\ seen' = [seen EXCEPT !.done = @ + 1]

\* The echoes of earlier commands that may still be answered, or have been.
Echoes(frames) == {p.seq : p \in {q \in ToSet(frames) : q.kind \in {"echo", "reply"}}}

\* resolve_arp broadcasts its request.
Resolve(c, goal, dst, failed) ==
    /\ cmd' = Waiting([c EXCEPT !.goal = goal, !.dst = dst, !.hop = NextHop(config, dst)],
                      "arp", failed)
    /\ up' = Append(up, ArpRequest(NextHop(config, dst)))

\* netcfg set
Configure(c) ==
    /\ Typed /\ c.op = "netcfg"
    /\ config' = c.config
    /\ UNCHANGED <<cmd, clock, rx, up, down, srv, faults>>

\* A name is looked up first: by dns, and by getnet.
Lookup(c) ==
    /\ Typed /\ c.op \in {"dns", "getnet"} /\ "name" \in DOMAIN c /\ c.name \notin Refused
    /\ \E failed \in BOOLEAN :
        /\ Reads(<<failed>>)
        /\ Resolve([Idle EXCEPT !.op = c.op, !.name = c.name], "dns", config.dns, failed)
    /\ UNCHANGED <<config, clock, rx, down, srv>>

LookupRefused(c) ==
    /\ Typed /\ c.op \in {"dns", "getnet"} /\ "name" \in DOMAIN c /\ c.name \in Refused
    /\ cmd' = Ended(Idle, "dns")
    /\ UNCHANGED <<config, clock, rx, up, down, srv, faults>>

Connects(c) ==
    /\ Typed /\ c.op = "getnet" /\ "ip" \in DOMAIN c
    /\ \E failed \in BOOLEAN :
        /\ Reads(<<failed>>)
        /\ Resolve([Idle EXCEPT !.op = c.op], c.op, c.ip, failed)
    /\ UNCHANGED <<config, clock, rx, down, srv>>

Ping(c) ==
    /\ Types /\ c.op = "ping"
    /\ seen' = [seen EXCEPT !.done = @ + 1, !.echoed = {},
                            !.late = Echoes(up) \cup Echoes(down) \cup Echoes(rx)]
    /\ \E failed \in BOOLEAN :
        /\ Reads(<<failed>>)
        /\ Resolve([Idle EXCEPT !.op = c.op, !.tries = c.count], c.op, c.ip, failed)
    /\ UNCHANGED <<config, clock, rx, down, srv>>

Dump(c) ==
    /\ Typed /\ c.op = "netdump"
    /\ \E failed \in BOOLEAN :
        /\ Reads(<<failed>>)
        /\ cmd' = Waiting([Idle EXCEPT !.op = c.op], "dump", failed)
    /\ UNCHANGED <<config, clock, rx, up, down, srv>>
-----------------------------------------------------------------------------
(***************************************************************************)
(* resolve_arp                                                             *)
(***************************************************************************)
GivesUp(how) == cmd' = Ended(cmd, how) /\ UNCHANGED <<config, clock, up, down, srv, faults, seen>>
Pops == rx # <<>> /\ rx' = Tail(rx)

IsArpReply(p) == p.kind = "arpr" /\ p.ip = cmd.hop

\* A frame that does not belong here is dropped without a look at the clock.
ArpSkips ==
    /\ cmd.at = "arp" /\ Pops /\ ~IsArpReply(Head(rx))
    /\ UNCHANGED <<config, cmd, clock, up, down, srv, faults, seen>>

ArpTimeout == cmd.at = "arp" /\ rx = <<>> /\ Expired(ArpWait) /\ GivesUp("arp") /\ UNCHANGED rx

\* dns_query_cfg goes on with its query,
ArpThenDns ==
    /\ cmd.at = "arp" /\ cmd.goal = "dns" /\ Pops /\ IsArpReply(Head(rx))
    /\ cmd.name \notin Unencodable
    /\ \E unnumbered, failed \in BOOLEAN :
        /\ Reads(<<unnumbered, failed>>) /\ Draws(unnumbered)
        /\ cmd' = Waiting([cmd EXCEPT !.mac = Head(rx).mac, !.id = Drawn(unnumbered)], "dns", failed)
        /\ up' = Append(up, DnsQuery(Head(rx).mac, cmd.dst, Drawn(unnumbered), cmd.name))
        /\ seen' = [seen EXCEPT !.queries = @ \cup {<<Drawn(unnumbered), cmd.name>>}]
    /\ UNCHANGED <<config, down, srv>>

\* or ends, when encode_qname does not take the name;
ArpThenNoName ==
    /\ cmd.at = "arp" /\ cmd.goal = "dns" /\ Pops /\ IsArpReply(Head(rx))
    /\ cmd.name \in Unencodable
    /\ \E unnumbered \in BOOLEAN : Reads(<<unnumbered>>) /\ Draws(unnumbered)
    /\ cmd' = Ended(cmd, "dns")
    /\ UNCHANGED <<config, up, down, srv, seen>>

\* getnet with a SYN that bears a number drawn from the clock,
ArpThenSyn ==
    /\ cmd.at = "arp" /\ cmd.goal = "getnet" /\ Pops /\ IsArpReply(Head(rx))
    /\ \E unnumbered, failed \in BOOLEAN : \E c \in {[cmd EXCEPT
                !.mac = Head(rx).mac, !.seq = Drawn(unnumbered) % SeqSpace, !.tries = SynTries]} :
        /\ Reads(<<unnumbered, failed>>) /\ Draws(unnumbered)
        /\ cmd' = Waiting(c, "syn", failed)
        /\ up' = Append(up, Segment(c, c.seq, 0, {"SYN"}, 0))
    /\ UNCHANGED <<config, down, srv, seen>>

\* or ends, when the card does not take the SYN;
ArpThenUnsent ==
    /\ cmd.at = "arp" /\ cmd.goal = "getnet" /\ Pops /\ IsArpReply(Head(rx))
    /\ \E unnumbered \in BOOLEAN : Reads(<<unnumbered, TRUE>>) /\ Draws(unnumbered)
    /\ cmd' = Ended(cmd, "unsent")
    /\ UNCHANGED <<config, up, down, srv, seen>>

\* ping with its first request.
ArpThenPing ==
    /\ cmd.at = "arp" /\ cmd.goal = "ping" /\ Pops /\ IsArpReply(Head(rx))
    /\ \E failed \in BOOLEAN :
        /\ Reads(<<failed>>)
        /\ cmd' = Waiting([cmd EXCEPT !.mac = Head(rx).mac], "ping", failed)
        /\ up' = Append(up, EchoRequest(Head(rx).mac, cmd.dst, 0))
    /\ UNCHANGED <<config, clock, down, srv, seen>>
-----------------------------------------------------------------------------
(***************************************************************************)
(* dns_query_cfg                                                           *)
(***************************************************************************)
\* Mutant of IsDnsReply: the identifier is not compared.
IsDnsReplyAny(p) == p.kind = "dnsr" /\ p.ip = cmd.dst

IsDnsReply(p) == p.kind = "dnsr" /\ p.ip = cmd.dst /\ p.id = cmd.id

\* The first address among the records, if any; an error code comes with none.
Addresses(records) == SelectSeq(records, LAMBDA r : r # None)

DnsSkips ==
    /\ cmd.at = "dns" /\ Pops /\ ~IsDnsReply(Head(rx))
    /\ UNCHANGED <<config, cmd, clock, up, down, srv, faults, seen>>

DnsTimeout == cmd.at = "dns" /\ rx = <<>> /\ Expired(DnsWait) /\ GivesUp("dns") /\ UNCHANGED rx

DnsFails ==
    /\ cmd.at = "dns" /\ Pops /\ IsDnsReply(Head(rx)) /\ Addresses(Head(rx).records) = <<>>
    /\ GivesUp("dns")

\* The dns command prints the address,
DnsPrints ==
    /\ cmd.at = "dns" /\ cmd.op = "dns" /\ Pops /\ IsDnsReply(Head(rx))
    /\ Addresses(Head(rx).records) # <<>>
    /\ cmd' = [Idle EXCEPT !.name = cmd.name, !.id = cmd.id,
                           !.dst = Head(Addresses(Head(rx).records)), !.end = "resolved"]
    /\ UNCHANGED <<config, clock, up, down, srv, faults, seen>>

\* getnet contacts it.
DnsThenGet ==
    /\ cmd.at = "dns" /\ cmd.op = "getnet" /\ Pops /\ IsDnsReply(Head(rx))
    /\ Addresses(Head(rx).records) # <<>>
    /\ \E failed \in BOOLEAN :
        /\ Reads(<<failed>>)
        /\ Resolve(cmd, "getnet", Head(Addresses(Head(rx).records)), failed)
    /\ UNCHANGED <<config, clock, down, srv, seen>>
-----------------------------------------------------------------------------
(***************************************************************************)
(* getnet: the connection                                                  *)
(***************************************************************************)
\* parse_tcp
IsTcp(p) == p.kind = "tcp" /\ p.ip = cmd.dst

IsSynAck(p) == IsTcp(p) /\ "RST" \notin p.flags /\ {"SYN", "ACK"} \subseteq p.flags
IsRst(p) == IsTcp(p) /\ "RST" \in p.flags

\* wait_tcp looks at the clock after every frame it does not want, and when there
\* is none: the end of its wait.
WaitTcpDrops == rx # <<>> /\ ~IsSynAck(Head(rx)) /\ ~IsRst(Head(rx))
WaitTcpOver ==
    /\ Expired(SynWait)
    /\ \/ rx = <<>> /\ UNCHANGED rx
       \/ WaitTcpDrops /\ Pops

SynSkips ==
    /\ cmd.at = "syn" /\ WaitTcpDrops /\ Pops /\ Reads(<<Expired(SynWait)>>)
    /\ UNCHANGED <<config, cmd, clock, up, down, srv, seen>>

\* Mutant of SynAgain: the tries are not counted.
SynAgainForever ==
    /\ cmd.at = "syn" /\ WaitTcpOver /\ cmd.tries > 1
    /\ \E failed \in BOOLEAN : Reads(<<failed>>) /\ cmd' = Waiting(cmd, "syn", failed)
    /\ up' = Append(up, Segment(cmd, cmd.seq, 0, {"SYN"}, 0))
    /\ UNCHANGED <<config, clock, down, srv, seen>>

\* The same SYN again,
SynAgain ==
    /\ cmd.at = "syn" /\ WaitTcpOver /\ cmd.tries > 1
    /\ \E failed \in BOOLEAN :
        Reads(<<failed>>) /\ cmd' = Waiting([cmd EXCEPT !.tries = @ - 1], "syn", failed)
    /\ up' = Append(up, Segment(cmd, cmd.seq, 0, {"SYN"}, 0))
    /\ UNCHANGED <<config, clock, down, srv, seen>>

\* which may fail like the first,
SynUnsent ==
    /\ cmd.at = "syn" /\ WaitTcpOver /\ cmd.tries > 1 /\ Fault
    /\ cmd' = Ended(cmd, "unsent")
    /\ UNCHANGED <<config, clock, up, down, srv, seen>>

\* as often as allowed.
SynTimeout == cmd.at = "syn" /\ WaitTcpOver /\ cmd.tries = 1 /\ GivesUp("syn")

ConnectionRefused == cmd.at = "syn" /\ Pops /\ IsRst(Head(rx)) /\ GivesUp("rst")

Plus(seq, n) == (seq + n) % SeqSpace

\* The connection is acknowledged, and the request follows at once; from here on
\* seq is the number after the request.  The acknowledgement in the SYN's answer
\* is not compared with the SYN.
Connect ==
    /\ cmd.at = "syn" /\ Pops /\ IsSynAck(Head(rx))
    /\ \E failed \in BOOLEAN : \E c \in {[cmd EXCEPT
                !.seq = Plus(@, 2), !.ack = Plus(Head(rx).seq, 1), !.conn = Head(rx).conn,
                !.tries = Resends]} :
        /\ Reads(<<failed>>)
        /\ cmd' = Waiting(c, "get", failed)
        /\ up' = up \o <<Segment(c, Plus(cmd.seq, 1), c.ack, {"ACK"}, 0),
                        Segment(c, Plus(cmd.seq, 1), c.ack, {"PSH", "ACK"}, 1)>>
    /\ UNCHANGED <<config, clock, down, srv, seen>>

\* The card takes the acknowledgement and not the request.
RequestUnsent ==
    /\ cmd.at = "syn" /\ Pops /\ IsSynAck(Head(rx)) /\ Fault
    /\ up' = Append(up, Segment(cmd, Plus(cmd.seq, 1), Plus(Head(rx).seq, 1), {"ACK"}, 0))
    /\ cmd' = Ended(cmd, "unsent")
    /\ UNCHANGED <<config, clock, down, srv, seen>>
-----------------------------------------------------------------------------
(***************************************************************************)
(* getnet: the response                                                    *)
(***************************************************************************)
GetTimeout ==
    /\ cmd.at = "get" /\ rx = <<>> /\ (cmd.blind \/ cmd.waited > GetLimit)
    /\ GivesUp("timeout") /\ UNCHANGED rx

\* While nothing at all has been received the request is sent again, under the
\* number that follows it.
Resend ==
    /\ cmd.at = "get" /\ rx = <<>> /\ ~cmd.blind /\ cmd.waited <= GetLimit
    /\ ~cmd.heard /\ cmd.tries > 0 /\ cmd.since >= ResendAfter
    /\ cmd' = [cmd EXCEPT !.tries = @ - 1, !.since = 0]
    /\ up' = Append(up, Segment(cmd, cmd.seq, cmd.ack, {"PSH", "ACK"}, 1))
    /\ UNCHANGED <<config, clock, rx, down, srv, faults, seen>>

\* Any frame counts as heard.
GetSkips ==
    /\ cmd.at = "get" /\ Pops /\ ~IsTcp(Head(rx))
    /\ cmd' = [cmd EXCEPT !.heard = TRUE]
    /\ UNCHANGED <<config, clock, up, down, srv, faults, seen>>

GetReset == cmd.at = "get" /\ Pops /\ IsRst(Head(rx)) /\ GivesUp("rst")

InSequence(p) == IsTcp(p) /\ "RST" \notin p.flags /\ p.seq = cmd.ack

\* A segment out of sequence is answered with what is expected.
GetDuplicate ==
    /\ cmd.at = "get" /\ Pops /\ IsTcp(Head(rx)) /\ ~IsRst(Head(rx)) /\ ~InSequence(Head(rx))
    /\ cmd' = [cmd EXCEPT !.heard = TRUE]
    /\ up' = Append(up, Segment(cmd, cmd.seq, cmd.ack, {"ACK"}, 0))
    /\ UNCHANGED <<config, clock, down, srv, faults, seen>>

\* Mutant of Acknowledges: the whole ring is acknowledged.
AcknowledgesAhead(c, p) == Plus(c.ack, Len(p.data) + Len(rx) - 1)

Acknowledges(c, p) == Plus(c.ack, Len(p.data))

\* What is printed of p, and the acknowledgement sent for it.
Printed(p) ==
    [cmd EXCEPT !.heard = TRUE, !.out = @ \o p.data, !.ack = Acknowledges(cmd, p)]
AckOf(c, p) == IF p.data = <<>> THEN <<>> ELSE <<Segment(c, c.seq, c.ack, {"ACK"}, 0)>>
Remember(c) ==
    seen' = [seen EXCEPT !.printed[c.conn] = Max({@, Len(c.out)})]

GetData ==
    /\ cmd.at = "get" /\ Pops /\ InSequence(Head(rx)) /\ "FIN" \notin Head(rx).flags
    /\ cmd' = Printed(Head(rx))
    /\ up' = up \o AckOf(cmd', Head(rx))
    /\ Remember(cmd')
    /\ UNCHANGED <<config, clock, down, srv, faults>>

\* The last segment: its data, then the end of both directions.
GetFin ==
    /\ cmd.at = "get" /\ Pops /\ InSequence(Head(rx)) /\ "FIN" \in Head(rx).flags
    /\ \E c \in {Printed(Head(rx))} :
        /\ up' = up \o AckOf(c, Head(rx))
                    \o <<Segment(c, c.seq, Plus(c.ack, 1), {"ACK", "FIN"}, 0)>>
        /\ cmd' = Ended(c, "fin")
        /\ Remember(c)
    /\ UNCHANGED <<config, clock, down, srv, faults>>
-----------------------------------------------------------------------------
(***************************************************************************)
(* ping and netdump look at the clock before every frame                   *)
(***************************************************************************)

IsEchoReply(p) == p.kind = "reply" /\ p.ip = cmd.dst /\ p.seq = cmd.seq

PingSkips ==
    /\ cmd.at = "ping" /\ Reads(<<Expired(PingWait)>>) /\ Pops /\ ~IsEchoReply(Head(rx))
    /\ UNCHANGED <<config, cmd, clock, up, down, srv, seen>>

\* The next request, or the end after the last one.
NextPing(c, unread) ==
    IF c.tries = 1
    THEN /\ cmd' = [Idle EXCEPT !.oks = c.oks, !.end = "pinged"]
         /\ Reads(<<unread>>) /\ UNCHANGED up
    ELSE \E failed \in BOOLEAN :
         /\ Reads(<<unread, failed>>)
         /\ cmd' = Waiting([c EXCEPT !.tries = @ - 1, !.seq = @ + 1], "ping", failed)
         /\ up' = Append(up, EchoRequest(c.mac, c.dst, c.seq + 1))

PingTimeout ==
    /\ cmd.at = "ping" /\ Expired(PingWait)
    /\ NextPing(cmd, FALSE)
    /\ UNCHANGED <<config, clock, rx, down, srv, seen>>

PingOk ==
    /\ cmd.at = "ping" /\ Pops /\ IsEchoReply(Head(rx))
    /\ NextPing([cmd EXCEPT !.oks = @ \cup {cmd.seq}], Expired(PingWait))
    /\ UNCHANGED <<config, clock, down, srv, seen>>

DumpFrame ==
    /\ cmd.at = "dump" /\ Reads(<<Expired(DumpWait)>>) /\ cmd.tries < DumpCount /\ Pops
    /\ cmd' = [cmd EXCEPT !.tries = @ + 1]
    /\ UNCHANGED <<config, clock, up, down, srv, seen>>

DumpEnds ==
    /\ cmd.at = "dump" /\ (Expired(DumpWait) \/ cmd.tries >= DumpCount)
    /\ GivesUp("dumped") /\ UNCHANGED rx

\* One round of the running command.
Round ==
    \/ ArpSkips \/ ArpTimeout \/ ArpThenDns \/ ArpThenNoName \/ ArpThenSyn \/ ArpThenUnsent
    \/ ArpThenPing
    \/ DnsSkips \/ DnsTimeout \/ DnsFails \/ DnsPrints \/ DnsThenGet
    \/ SynSkips \/ SynAgain \/ SynUnsent \/ SynTimeout \/ ConnectionRefused \/ Connect \/ RequestUnsent
    \/ GetTimeout \/ Resend \/ GetSkips \/ GetReset \/ GetDuplicate \/ GetData \/ GetFin
    \/ PingSkips \/ PingTimeout \/ PingOk \/ DumpFrame \/ DumpEnds

\* A second passes in a wait that it can matter to.  Frames of the commands that
\* are slower than that count as faults.
Settled == up = <<>> /\ down = <<>> /\ \A i \in DOMAIN rx : rx[i].kind = "other"
Longest == Max({ArpWait, DnsWait, SynWait, PingWait, DumpWait, GetLimit + 1})
Tick ==
    /\ cmd.at # "idle" /\ ~cmd.blind /\ cmd.waited < Longest
    /\ cmd' = [cmd EXCEPT !.waited = @ + 1, !.since = @ + 1]
    /\ clock' = IF clock.drawn THEN [now |-> clock.now + 1, drawn |-> FALSE] ELSE clock
    /\ (Settled /\ UNCHANGED faults) \/ (~Settled /\ Fault)
    /\ UNCHANGED <<config, rx, up, down, srv, seen>>
-----------------------------------------------------------------------------
(***************************************************************************)
(* The hosts.  A frame reaches a host by the host's own MAC address, or by *)
(* the gateway's.                                                          *)
(***************************************************************************)
Reaches(p) == p.mac = p.ip \/ p.mac = DefaultConfig.gw

\* The next frame is answered.
Answer(frames, s) ==
    /\ up' = Tail(up)
    /\ down' = down \o frames
    /\ srv' = s
    /\ UNCHANGED <<config, cmd, clock, rx, faults>>

ServeArp(p) ==
    /\ p.kind = "arpq"
    /\ Answer(IF p.ip \in LinkHosts THEN <<[kind |-> "arpr", ip |-> p.ip, mac |-> p.ip]>> ELSE <<>>,
              srv)
    /\ UNCHANGED seen

ServeDns(p) ==
    /\ p.kind = "dnsq" /\ Reaches(p)
    /\ Answer(<<[kind |-> "dnsr", ip |-> p.ip, id |-> p.id, records |-> Zone[p.name]]>>, srv)
    /\ UNCHANGED seen

ServeEcho(p) ==
    /\ p.kind = "echo" /\ Reaches(p)
    /\ Answer(<<[kind |-> "reply", ip |-> p.ip, seq |-> p.seq]>>, srv)
    /\ seen' = [seen EXCEPT !.echoed = @ \cup {p.seq}]

(***************************************************************************)
(* The web server's TCP.  Numbers it sends are offsets to Iss: 0 is its    *)
(* SYN, 1..ResponseLen its response, then comes its FIN.                   *)
(***************************************************************************)
FromWeb(s, offset, flags, data) ==
    [kind |-> "tcp", ip |-> WebServer, conn |-> s.conn, seq |-> Plus(Iss[s.conn], offset),
     flags |-> flags, data |-> data]
Reset == [kind |-> "tcp", ip |-> WebServer, conn |-> 0, seq |-> 0, flags |-> {"RST"}, data |-> <<>>]

SynAck(s) == FromWeb(s, 0, {"SYN", "ACK"}, <<>>)
SegmentAt(s, i) ==
    IF i > ResponseLen THEN FromWeb(s, i, {"FIN", "ACK"}, <<>>)
    ELSE FromWeb(s, i, {"ACK"} \cup (IF s.join /\ i = ResponseLen THEN {"FIN"} ELSE {}),
                 <<<<s.conn, i>>>>)
Response(s) == [i \in 1 .. ResponseLen + (IF s.join THEN 0 ELSE 1) |-> SegmentAt(s, i)]
SentUpTo(s) == IF s.asked THEN ResponseLen + 2 ELSE 1
PlainAck(s) == FromWeb(s, SentUpTo(s), {"ACK"}, <<>>)

ServeSyn(p) ==
    /\ p.kind = "tcp" /\ p.ip = WebServer /\ Reaches(p) /\ "SYN" \in p.flags
    /\ \/ /\ srv.st = "listen" /\ srv.conn < Len(Iss)
          /\ \E join \in BOOLEAN : \E s \in {[st |-> "syn", conn |-> srv.conn + 1,
                        rcv |-> Plus(p.seq, 1), una |-> 0, asked |-> FALSE, join |-> join]} :
                Answer(<<SynAck(s)>>, s)
       \/ srv.st = "listen" /\ srv.conn = Len(Iss) /\ Answer(<<Reset>>, srv)
       \/ srv.st = "syn" /\ srv.rcv = Plus(p.seq, 1) /\ Answer(<<SynAck(srv)>>, srv)
       \/ /\ srv.st = "est" \/ (srv.st = "syn" /\ srv.rcv # Plus(p.seq, 1))
          /\ Answer(<<PlainAck(srv)>>, srv)
    /\ UNCHANGED seen

TakeAck(s, offset) ==
    IF offset \in s.una + 1 .. SentUpTo(s) THEN [s EXCEPT !.una = offset, !.st = "est"] ELSE s

ServeSegment(p) ==
    /\ p.kind = "tcp" /\ p.ip = WebServer /\ Reaches(p) /\ "SYN" \notin p.flags
    /\ \/ srv.st = "listen" /\ Answer(<<Reset>>, srv)
       \/ /\ srv.st # "listen"
          /\ \E s \in {TakeAck(srv, (p.ack - Iss[srv.conn]) % SeqSpace)} :
                \/ /\ s.st = "est" /\ p.len > 0 /\ p.seq = s.rcv
                   /\ \E t \in {[s EXCEPT !.rcv = Plus(@, p.len), !.asked = TRUE]} :
                        Answer(IF s.asked THEN <<PlainAck(t)>> ELSE Response(t), t)
                \/ s.st = "est" /\ p.len > 0 /\ p.seq # s.rcv /\ Answer(<<PlainAck(s)>>, s)
                \/ /\ s.st = "est" /\ "FIN" \in p.flags /\ p.seq = s.rcv
                   /\ Answer(<<>>, [s EXCEPT !.st = "listen"])
                \/ /\ s.st = "syn" \/ (p.len = 0 /\ ~("FIN" \in p.flags /\ p.seq = s.rcv))
                   /\ Answer(<<>>, s)
    /\ UNCHANGED seen

\* Nobody listens at other hosts.
Unserved(p) ==
    /\ p.kind # "arpq" /\ (Reaches(p) => p.kind = "tcp" /\ p.ip # WebServer)
    /\ Answer(<<>>, srv) /\ UNCHANGED seen

Serve ==
    up # <<>> /\ \E p \in {Head(up)} :
        \/ ServeArp(p) \/ ServeDns(p) \/ ServeEcho(p)
        \/ ServeSyn(p) \/ ServeSegment(p) \/ Unserved(p)
-----------------------------------------------------------------------------
(***************************************************************************)
(* What goes wrong                                                         *)
(***************************************************************************)
Retransmit ==
    /\ srv.st # "listen" /\ srv.una < SentUpTo(srv) /\ Fault
    /\ down' = Append(down, IF srv.una = 0 THEN SynAck(srv) ELSE SegmentAt(srv, srv.una))
    /\ UNCHANGED <<config, cmd, clock, rx, up, srv, seen>>

\* The server gives the connection up.
Abort ==
    /\ srv.st # "listen" /\ Fault
    /\ srv' = [srv EXCEPT !.st = "listen"]
    /\ down' = Append(down, Reset)
    /\ UNCHANGED <<config, cmd, clock, rx, up, seen>>

\* The next frame on either way is lost, repeated, or overtaken by the others.
Disturbed(way) ==
    {Tail(way), <<Head(way)>> \o way} \cup (IF Len(way) > 1 THEN {Append(Tail(way), Head(way))} ELSE {})
Disturb ==
    /\ Fault
    /\ \/ up # <<>> /\ up' \in Disturbed(up) /\ UNCHANGED down
       \/ down # <<>> /\ down' \in Disturbed(down) /\ UNCHANGED up
    /\ UNCHANGED <<config, cmd, clock, rx, srv, seen>>

\* An unrelated frame waits to be received.
Noisy == \E i \in DOMAIN rx : rx[i].kind = "other"

\* A frame that concerns none of the commands.  Any number of them may come, one
\* at a time, as long as little else goes wrong.
Noise ==
    /\ cmd.at # "idle" /\ faults <= MaxNoisyFaults
    /\ Len(rx) < RxSlots /\ ~Noisy
    /\ rx' = Append(rx, [kind |-> "other"])
    /\ UNCHANGED <<config, cmd, clock, up, down, srv, faults, seen>>

\* The card stores a frame, and drops it when its ring is full.
Deliver ==
    /\ down # <<>>
    /\ down' = Tail(down)
    /\ rx' = IF Len(rx) < RxSlots THEN Append(rx, Head(down)) ELSE rx
    /\ UNCHANGED <<config, cmd, clock, up, srv, faults, seen>>
-----------------------------------------------------------------------------
Init ==
    /\ config = DefaultConfig
    /\ cmd = Idle
    /\ clock = [now |-> 0, drawn |-> FALSE]
    /\ rx = <<>> /\ up = <<>> /\ down = <<>>
    /\ srv = [st |-> "listen", conn |-> 0, rcv |-> 0, una |-> 0, asked |-> FALSE, join |-> FALSE]
    /\ faults = 0
    /\ seen = [done |-> 0, printed |-> [i \in DOMAIN Iss |-> 0], queries |-> {}, echoed |-> {},
               late |-> {}]

Next ==
    \/ \E c \in Commands : Configure(c) \/ Lookup(c) \/ LookupRefused(c) \/ Connects(c) \/ Ping(c) \/ Dump(c)
    \/ Round \/ Tick
    \/ Serve \/ Deliver
    \/ Retransmit \/ Abort \/ Disturb \/ Noise

\* A task that runs gets on, the clock goes on, and frames arrive or are lost.
Spec ==
    /\ Init /\ [][Next]_vars
    /\ WF_vars(Round) /\ WF_vars(Tick) /\ WF_vars(Serve) /\ WF_vars(Deliver)
-----------------------------------------------------------------------------
TypeOK ==
    /\ config \in [mask : Seq(0 .. 255), gw : LinkHosts, dns : Seq(0 .. 255)]
    /\ cmd.at \in {"idle", "arp", "dns", "syn", "get", "ping", "dump"}
    /\ cmd.seq \in 0 .. SeqSpace - 1 /\ cmd.ack \in 0 .. SeqSpace - 1
    /\ cmd.tries <= Max({SynTries, Resends, DumpCount} \cup {c.count : c \in {d \in Commands : d.op = "ping"}})
    /\ Len(rx) <= RxSlots /\ faults <= MaxFaults
    /\ srv.una <= ResponseLen + 2

\* What getnet prints is the beginning of the response of the connection whose
\* SYN it accepted, in order and without gaps or repetitions, whatever arrives
\* late, twice or from an earlier run.
OutputInOrder == \A i \in DOMAIN cmd.out : cmd.out[i] = <<cmd.conn, i>>

\* When getnet ends by the server's FIN it has printed the whole response.
FinMeansAll == cmd.end = "fin" => Len(cmd.out) = ResponseLen

\* What the server takes for delivered has been printed: no acknowledgement runs
\* ahead of the output.
AckedIsPrinted ==
    srv.conn > 0 => Min({srv.una - 1, ResponseLen}) <= seen.printed[srv.conn]

\* Every frame to an address goes to a MAC address that leads there, for every
\* mask: directly when the host is on the link, or by the gateway.
FramesArrive == \A p \in ToSet(up) : p.kind # "arpq" => Reaches(p)

\* A resolved address belongs to the name asked for.  Queries are told apart by
\* the second they are made in: two in one second, or two with the clock
\* unreadable, are not.
AnswerIsForName ==
    cmd.end = "resolved" \/ (cmd.op = "getnet" /\ cmd.name # "" /\ cmd.goal = "getnet") =>
        \/ IsPrefix(<<cmd.dst>>, Addresses(Zone[cmd.name]))
        \/ \E q \in seen.queries : q[1] = cmd.id /\ q[2] # cmd.name

\* For every request that ping reports as answered, its host has answered one with
\* this number: since the command began, or an echo of an earlier ping that was
\* under way then.  The two are not told apart, as every ping of the shell has
\* the same identifier and begins with number 0.
PingOkAnswered == cmd.oks \subseteq seen.echoed \cup seen.late

\* wait_tcp, ping and netdump look at the clock whether or not a frame came, and
\* end whatever arrives.  The other waits (resolve_arp, dns_query_cfg and the
\* response of getnet) do so only when no frame is there, and every command
\* returns unless unrelated frames arrive for ever.
CommandsEnd ==
    /\ cmd.at \in {"syn", "ping", "dump"} ~> cmd.at \in {"idle", "get"}
    /\ []<>Noisy \/ (cmd.at # "idle" ~> cmd.at = "idle")

\* getnet's stream: printed in order, complete when the server's FIN ends it, and
\* never acknowledged before it is printed.
StreamInOrder == TypeOK /\ OutputInOrder /\ FinMeansAll /\ AckedIsPrinted

\* An answer that is accepted is the answer to the question asked: of ARP, of the
\* name server and of ping.
AnswersMatch == FramesArrive /\ AnswerIsForName /\ PingOkAnswered
=============================================================================
