---------------------------- MODULE TransferProofs ----------------------------
(***************************************************************************)
(* Transfers of the block devices are exact, for sectors, disks and        *)
(* requests of any size and whatever the drive does.                       *)
(***************************************************************************)
EXTENDS BlockDevices, TLAPS

\* The bytes of a sector and of a device, and byte i of sector l.
Places == 0 .. SectorSize - 1
Buffers == [Places -> Nat]
Span(which) == IF which = "ata" THEN 0 .. sectors * SectorSize - 1 ELSE 0 .. RamBytes - 1
At(l, i) == l * SectorSize + i

StoreOK(s) == s \in [ata : [Span("ata") -> Nat], ram : [Span("ram") -> Nat]]

DriveOK(d) ==
  /\ DOMAIN d = {"st", "stage", "cmd", "lba", "data"} /\ d.lba \in Nat
  /\ \/ d.stage = "none" /\ d.st \in {"ready", "err", "gone"}
     \/ d.stage = "start" /\ d.st \in {"busy", "drq"}
     \/ d.stage = "store" /\ d.st = "busy" /\ d.data \in Buffers /\ d.lba < sectors

CallOK(c) ==
  /\ DOMAIN c = {"dev", "op", "id", "offset", "len", "lba", "off", "done", "out", "buf",
                 "attempt", "sector", "pc", "lost", "before"}
  /\ c.dev \in {"ata", "ram"} /\ c.op \in {"read", "write"} /\ c.sector \in {"read", "write"}
  /\ c.pc \in {"idle", "ready", "status", "drq", "settle"}
  /\ c.id \in Nat /\ c.offset \in Nat /\ c.len \in Nat /\ c.lba \in Nat /\ c.done \in Nat
  /\ c.off \in Places /\ c.buf \in Buffers /\ c.out \in Seq(Nat)
  /\ c.op = "read" => c.sector = "read"

\* What byte a may be while the call c goes on: what it was, or what c writes.
Allowed(c, a, v) ==
  \/ v \in c.before[a]
  \/ /\ c.op = "write"
     /\ a \in c.offset .. (c.offset + c.len - 1)
     /\ v = Data(c.id, a - c.offset)

\* The next byte of the request is byte c.off of sector c.lba.
OnCourse(c) ==
  /\ c.done <= c.len /\ (c.done > 0 => c.off = 0)
  /\ c.offset + c.done <= At(c.lba, c.off)
  /\ c.done < c.len => c.offset + c.done = At(c.lba, c.off)

\* A sector is under way: part of the request is left, and the sector exists.
\* A buffer to write holds the new bytes and none that may not be there.
Underway(c) ==
  c.pc # "idle" =>
    /\ c.done < c.len /\ c.lba < sectors
    /\ c.sector = "write" =>
         /\ \A i \in Places : Allowed(c, At(c.lba, i), c.buf[i])
         /\ \A i \in c.off .. c.off + Take(c) - 1 : c.buf[i] = Data(c.id, c.done + i - c.off)

\* What the drive does is for the sector under way, or is what an earlier write
\* that gave up has left; a store that is over has happened or is lost.
Working(c, d, s) ==
  /\ d.stage = "start" /\ c.pc # "idle" => d.cmd = c.sector /\ d.lba = c.lba
  /\ d.st = "drq" /\ c.pc # "idle" /\ c.sector = "read" =>
       d.data \in Buffers /\ \A i \in Places : d.data[i] = s.ata[At(c.lba, i)]
  /\ d.stage = "store" =>
       /\ c.pc \notin {"status", "drq"}
       /\ \A i \in Places : Allowed(c, At(d.lba, i), d.data[i])
       /\ c.done > 0 => c.op = "write" /\ d.lba = c.lba
  /\ c.pc = "settle" =>
       /\ c.sector = "write" /\ d.stage # "start"
       /\ d.stage = "store" => d.lba = c.lba /\ d.data = c.buf
       /\ d.stage = "none" /\ d.st # "gone" =>
            c.lba \in c.lost \/ \A i \in Places : s.ata[At(c.lba, i)] = c.buf[i]

\* What the call promises, for what is done so far.
Exact(c, s) ==
  /\ \A a \in Span(c.dev) : Allowed(c, a, s[c.dev][a])
  /\ c.op = "write" => \A k \in 0 .. c.done - 1 :
       \/ s[c.dev][c.offset + k] = Data(c.id, k)
       \/ c.dev = "ata" /\ (c.offset + k) \div SectorSize \in c.lost
  /\ c.op = "read" =>
       /\ Len(c.out) = c.done
       /\ \A k \in 1 .. c.done : c.out[k] = s[c.dev][c.offset + k - 1]

AtaOK(c, d, s) ==
  CallOK(c) /\ c.dev = "ata" /\ OnCourse(c) /\ Underway(c) /\ Working(c, d, s) /\ Exact(c, s)

\* The call in progress, or the last one, is none, one of the disk or one of the
\* RAM disk.
Sound(c, d, s) ==
  /\ StoreOK(s) /\ DriveOK(d)
  /\ \/ c = NoCall /\ d.stage = "none"
     \/ AtaOK(c, d, s)
     \/ CallOK(c) /\ c.dev = "ram" /\ c.pc = "idle" /\ Exact(c, s)

TransferInv ==
  Addressable => sectors \in Nat /\ calls \in Nat /\ Sound(call, drive, store)
-----------------------------------------------------------------------------
\* Division with remainder.
LEMMA DivMod ==
  ASSUME NEW a \in Nat, NEW n \in Nat \ {0}
  PROVE  a = n * (a \div n) + (a % n) /\ a % n \in 0 .. n - 1 /\ a \div n \in Nat
OBVIOUS

\* A quotient and a remainder are the ones of their number.
LEMMA DivUnique ==
  ASSUME NEW n \in Nat \ {0}, NEW q \in Nat, NEW r \in 0 .. n - 1
  PROVE  (q * n + r) % n = r /\ (q * n + r) \div n = q
OBVIOUS

\* The sizes are numbers.
LEMMA Sizes == SectorSize \in Nat \ {0} /\ RamBytes \in Nat /\ LbaLimit \in Nat \ {0} /\ 0 \in Places
BY BlockLimits DEF Places

\* The bytes a call writes are numbers.
LEMMA DataNat ==
  ASSUME NEW n \in Nat, NEW k \in Nat
  PROVE  Data(n, k) \in Nat
BY DEF Data

\* The sector of a byte, and the place of the byte in it.
LEMMA AtFacts ==
  ASSUME NEW l \in Nat, NEW i \in Places
  PROVE  /\ At(l, i) \in Nat /\ At(l, i) \div SectorSize = l /\ At(l, i) % SectorSize = i
         /\ At(l, i) = At(l, 0) + i /\ At(l, 0) \in Nat
         /\ At(l + 1, 0) = At(l, 0) + SectorSize
<1>1. SectorSize \in Nat \ {0} /\ i \in 0 .. SectorSize - 1
  BY Sizes DEF Places
<1>2. l * SectorSize \in Nat
  BY <1>1
<1>3. (l + 1) * SectorSize = l * SectorSize + SectorSize
  BY <1>1
<1>4. At(l, i) \div SectorSize = l /\ At(l, i) % SectorSize = i
  BY <1>1, DivUnique DEF At
<1> QED BY <1>1, <1>2, <1>3, <1>4 DEF At

\* Earlier sectors end before later ones begin.
LEMMA AtOrder ==
  ASSUME NEW l \in Nat, NEW m \in Nat, l < m
  PROVE  At(l, 0) + SectorSize <= At(m, 0)
<1>1. SectorSize \in Nat \ {0}
  BY Sizes
<1>2. PICK k \in Nat : m = l + 1 + k
  <2>1. m = l + 1 + (m - l - 1) /\ m - l - 1 \in Nat
    OBVIOUS
  <2> QED BY <2>1
<1>3. m * SectorSize = l * SectorSize + SectorSize + k * SectorSize
  BY <1>1, <1>2
<1>4. k * SectorSize \in Nat /\ l * SectorSize \in Nat
  BY <1>1
<1> QED BY <1>1, <1>3, <1>4 DEF At

\* Every byte lies in a sector of the disk.
LEMMA AtSpan ==
  ASSUME sectors \in Nat
  PROVE  /\ \A l \in Nat, i \in Places : l < sectors => At(l, i) \in Span("ata")
         /\ \A a \in Nat : /\ a \div SectorSize \in Nat /\ a % SectorSize \in Places
                           /\ a = At(a \div SectorSize, a % SectorSize)
         /\ \A a \in Nat, l \in Nat : a < At(l, 0) => a \div SectorSize < l
<1>1. SectorSize \in Nat \ {0}
  BY Sizes
<1>2. ASSUME NEW l \in Nat, NEW i \in Places, l < sectors PROVE At(l, i) \in Span("ata")
  <2>1. At(l, 0) + SectorSize <= At(sectors, 0)
    BY <1>2, AtOrder
  <2>2. At(l, i) = At(l, 0) + i /\ At(l, 0) \in Nat /\ At(l, i) \in Nat
    BY AtFacts
  <2>3. i \in Nat /\ i < SectorSize
    BY <1>1 DEF Places
  <2>4. At(sectors, 0) = sectors * SectorSize /\ sectors * SectorSize \in Nat
    BY <1>1 DEF At
  <2> QED BY <1>1, <2>1, <2>2, <2>3, <2>4 DEF Span
<1>3. ASSUME NEW a \in Nat
      PROVE /\ a \div SectorSize \in Nat /\ a % SectorSize \in Places
            /\ a = At(a \div SectorSize, a % SectorSize)
  <2>1. /\ a = SectorSize * (a \div SectorSize) + (a % SectorSize)
        /\ a % SectorSize \in 0 .. SectorSize - 1 /\ a \div SectorSize \in Nat
    BY Zenon, <1>1, DivMod
  <2> DEFINE q == a \div SectorSize
             r == a % SectorSize
  <2>2. a = SectorSize * q + r /\ q \in Nat /\ r \in 0 .. SectorSize - 1
    BY <2>1
  <2> HIDE DEF q, r
  <2>3. a = q * SectorSize + r
    BY <1>1, <2>2
  <2> QED BY <2>2, <2>3 DEF q, r, At, Places
<1>4. ASSUME NEW a \in Nat, NEW l \in Nat, a < At(l, 0) PROVE a \div SectorSize < l
  <2> DEFINE q == a \div SectorSize
             r == a % SectorSize
  <2>1. q \in Nat /\ r \in Places /\ a = At(q, r)
    BY <1>3
  <2> HIDE DEF q, r
  <2>2. a = At(q, 0) + r /\ At(q, 0) \in Nat
    BY <2>1, AtFacts
  <2>3. CASE l <= q
    <3>1. l = q \/ l < q
      BY <2>1, <2>3
    <3>2. l < q => At(l, 0) + SectorSize <= At(q, 0)
      BY <2>1, AtOrder
    <3>3. At(l, 0) \in Nat
      BY Zenon, AtFacts, Sizes
    <3> QED BY <1>1, <1>4, <2>1, <2>2, <3>1, <3>2, <3>3 DEF Places
  <2> QED BY <2>1, <2>3 DEF q
<1> QED BY <1>2, <1>3, <1>4
-----------------------------------------------------------------------------
\* What stays of a call for as long as it goes on.
Same(n, c) ==
  /\ n.dev = c.dev /\ n.op = c.op /\ n.id = c.id
  /\ n.offset = c.offset /\ n.len = c.len /\ n.before = c.before

\* Where it is, and what it has returned.
Placed(n, c) == n.lba = c.lba /\ n.off = c.off /\ n.done = c.done /\ n.out = c.out

\* What a byte may be does not depend on how far the call is.
LEMMA AllowedSame ==
  ASSUME NEW c, NEW n, Same(n, c), NEW a, NEW v
  PROVE  Allowed(n, a, v) <=> Allowed(c, a, v)
BY DEF Same, Allowed

\* The part of the sector under way is not empty, ends at the end of the sector or
\* before it, and then with the request.
LEMMA TakeFacts ==
  ASSUME NEW c, CallOK(c), c.done < c.len
  PROVE  /\ Take(c) \in Nat /\ 1 <= Take(c) /\ c.off + Take(c) <= SectorSize
         /\ c.done + Take(c) <= c.len
         /\ c.done + Take(c) < c.len => c.off + Take(c) = SectorSize
BY Sizes DEF CallOK, Take, Least, Places

\* Bytes a call may or may not have got to: the same for two calls that differ
\* only in how far the sector is.
LEMMA ExactSame ==
  ASSUME NEW c, NEW n, NEW s, Same(n, c), Placed(n, c), n.lost = c.lost, Exact(c, s)
  PROVE  Exact(n, s)
<1>1. \A a \in Span(n.dev) : Allowed(n, a, s[n.dev][a])
  BY AllowedSame DEF Exact, Same
<1> QED BY <1>1 DEF Exact, Same, Placed

\* A sector is given up, or tried again.
LEMMA TriedAgain ==
  ASSUME NEW c, NEW d, NEW s, NEW n, AtaOK(c, d, s), c.pc # "idle",
         CallOK(n), Same(n, c), Placed(n, c), n.lost = c.lost,
         n.pc = "idle" \/ n.pc = "ready", n.sector = c.sector, n.buf = c.buf
  PROVE  AtaOK(n, d, s)
<1>1. Exact(n, s) /\ n.dev = "ata"
  BY ExactSame DEF AtaOK, Same
<1>2. OnCourse(n)
  BY DEF AtaOK, OnCourse, Same, Placed
<1>3. Underway(n)
  <2>1. Take(n) = Take(c)
    BY DEF Take, Same, Placed
  <2>2. \A a, v : Allowed(n, a, v) <=> Allowed(c, a, v)
    BY AllowedSame
  <2> QED BY <2>1, <2>2 DEF AtaOK, Underway, Same, Placed
<1>4. Working(n, d, s)
  <2>2. \A a, v : Allowed(n, a, v) <=> Allowed(c, a, v)
    BY AllowedSame
  <2> QED BY <2>2 DEF AtaOK, Working, Same, Placed
<1> QED BY <1>1, <1>2, <1>3, <1>4 DEF AtaOK

\* Retry and SectorFailed keep all that is known of the call.
LEMMA RetryOK ==
  ASSUME NEW c, NEW d, NEW s, AtaOK(c, d, s), c.pc # "idle"
  PROVE  AtaOK(Retry(c), d, s) /\ AtaOK(SectorFailed(c), d, s)
<1>1. CallOK(c)
  BY DEF AtaOK
<1>2. AtaOK(SectorFailed(c), d, s)
  <2> DEFINE n == SectorFailed(c)
  <2>1. /\ CallOK(n) /\ Same(n, c) /\ Placed(n, c) /\ n.lost = c.lost
        /\ n.pc = "idle" /\ n.sector = c.sector /\ n.buf = c.buf
    BY <1>1 DEF CallOK, SectorFailed, Same, Placed
  <2> HIDE DEF n
  <2>2. AtaOK(n, d, s)
    BY <2>1, TriedAgain
  <2> QED BY <2>2 DEF n
<1>3. CASE c.attempt = Attempts
  BY <1>2, <1>3 DEF Retry
<1>4. CASE c.attempt # Attempts
  <2> DEFINE n == [c EXCEPT !.attempt = @ + 1, !.pc = "ready"]
  <2>1. /\ CallOK(n) /\ Same(n, c) /\ Placed(n, c) /\ n.lost = c.lost
        /\ n.pc = "ready" /\ n.sector = c.sector /\ n.buf = c.buf
    BY <1>1 DEF CallOK, Same, Placed
  <2>2. Retry(c) = n
    BY <1>4 DEF Retry
  <2> HIDE DEF n
  <2>3. AtaOK(n, d, s)
    BY <2>1, TriedAgain
  <2> QED BY <1>2, <2>2, <2>3
<1> QED BY <1>3, <1>4

\* The loop of read_at or write_at: the call is over or the next sector begins.
LEMMA NextSectorOK ==
  ASSUME NEW c, NEW d, NEW s, CallOK(c), c.dev = "ata", OnCourse(c), Exact(c, s),
         sectors \in Nat, d.stage # "start", d.stage = "start" \/ d.st # "drq",
         d.stage = "store" =>
           /\ \A i \in Places : Allowed(c, At(d.lba, i), d.data[i])
           /\ c.done = 0
  PROVE  AtaOK(NextSector(c), d, s)
<1> DEFINE n == NextSector(c)
           written == [i \in Places |-> Data(c.id, c.done + i)]
<1>1. CASE c.done = c.len \/ c.lba >= sectors
  <2>1. n = [c EXCEPT !.pc = "idle"]
    BY <1>1 DEF NextSector
  <2>2. CallOK(n) /\ Same(n, c) /\ Placed(n, c) /\ n.lost = c.lost /\ n.pc = "idle"
    BY <2>1 DEF CallOK, Same, Placed
  <2> HIDE DEF n
  <2>3. Exact(n, s)
    BY <2>2, ExactSame
  <2>4. OnCourse(n)
    BY <2>2 DEF OnCourse, Same, Placed
  <2>5. \A a, v : Allowed(n, a, v) <=> Allowed(c, a, v)
    BY <2>2, AllowedSame
  <2>6. Underway(n) /\ Working(n, d, s)
    BY <2>2, <2>5 DEF Underway, Working, Placed
  <2>7. AtaOK(n, d, s)
    BY <2>2, <2>3, <2>4, <2>6 DEF AtaOK, Same
  <2> QED BY <2>7 DEF n
<1>2. CASE ~(c.done = c.len \/ c.lba >= sectors)
  <2> DEFINE reads == c.op = "read" \/ Partial(c)
  <2>1. n = [c EXCEPT !.pc = "ready", !.attempt = 1,
                 !.sector = IF reads THEN "read" ELSE "write",
                 !.buf = IF reads THEN c.buf ELSE written]
    BY <1>2 DEF NextSector, Places
  <2>2. /\ Same(n, c) /\ Placed(n, c) /\ n.lost = c.lost /\ n.pc = "ready"
        /\ n.sector = (IF reads THEN "read" ELSE "write")
        /\ n.buf = (IF reads THEN c.buf ELSE written)
        /\ DOMAIN n = DOMAIN c
    BY <2>1 DEF CallOK, Same, Placed
  <2>3. written \in Buffers
    <3>1. c.id \in Nat /\ c.done \in Nat /\ \A i \in Places : i \in Nat
      BY DEF CallOK, Places
    <3>2. ASSUME NEW i \in Places PROVE Data(c.id, c.done + i) \in Nat
      <4>1. c.done + i \in Nat
        BY <3>1
      <4> QED BY Zenon, <3>1, <4>1, DataNat
    <3> QED BY <3>2 DEF Buffers
  <2> HIDE DEF n, written
  <2>4. CallOK(n)
    BY <2>2, <2>3 DEF CallOK, Same, Placed
  <2>5. Exact(n, s)
    BY <2>2, ExactSame
  <2>6. OnCourse(n) /\ n.done < n.len /\ n.lba < sectors
    BY <1>2, <2>2 DEF OnCourse, Same, Placed, CallOK
  <2>7. \A a, v : Allowed(n, a, v) <=> Allowed(c, a, v)
    BY <2>2, AllowedSame
  <2>8. Working(n, d, s)
    BY <2>2, <2>7 DEF Working, Placed
  <2>9. ASSUME n.sector = "write"
        PROVE /\ \A i \in Places : Allowed(n, At(n.lba, i), n.buf[i])
              /\ \A i \in n.off .. n.off + Take(n) - 1 :
                   n.buf[i] = Data(n.id, n.done + i - n.off)
    <3>1. ~reads /\ n.buf = written /\ c.op = "write"
      BY <2>2, <2>9 DEF CallOK
    <3>2. c.done < c.len /\ c.off = 0 /\ Take(c) = SectorSize /\ c.done + SectorSize <= c.len
      <4>1. c.done < c.len
        BY <1>2 DEF OnCourse, CallOK
      <4>2. /\ Take(c) \in Nat /\ c.off + Take(c) <= SectorSize
            /\ c.done + Take(c) <= c.len
        BY <4>1, TakeFacts
      <4>3. c.off = 0 /\ ~(Take(c) < SectorSize)
        BY <3>1 DEF Partial
      <4> QED BY <4>1, <4>2, <4>3, Sizes
    <3>3. Take(n) = SectorSize /\ n.off = 0 /\ n.done = c.done /\ n.id = c.id /\ n.lba = c.lba
      BY <2>2, <3>2 DEF Take, Same, Placed
    <3>4. c.offset + c.done = At(c.lba, 0)
      BY <3>2 DEF OnCourse
    <3>5. ASSUME NEW i \in Places PROVE Allowed(c, At(c.lba, i), written[i])
      <4>1. At(c.lba, i) = At(c.lba, 0) + i
        BY AtFacts DEF CallOK
      <4>2. At(c.lba, i) = c.offset + c.done + i /\ i \in Nat /\ i < SectorSize
        BY <3>4, <4>1, Sizes DEF Places
      <4>3. At(c.lba, i) - c.offset = c.done + i
        BY <4>2 DEF CallOK
      <4>4. At(c.lba, i) \in c.offset .. c.offset + c.len - 1
        BY <3>2, <4>2, Sizes DEF CallOK
      <4> QED BY <3>1, <4>3, <4>4 DEF Allowed, written
    <3>6. ASSUME NEW i \in n.off .. n.off + Take(n) - 1
          PROVE n.buf[i] = Data(n.id, n.done + i - n.off)
      <4>1. i \in Places /\ c.done + i - 0 = c.done + i
        BY <3>3, Sizes DEF Places, CallOK
      <4> QED BY <3>1, <3>3, <4>1 DEF written
    <3> QED BY <2>7, <3>1, <3>3, <3>5, <3>6
  <2>10. Underway(n)
    BY <2>6, <2>9 DEF Underway
  <2>11. AtaOK(n, d, s)
    BY <2>2, <2>4, <2>5, <2>6, <2>8, <2>10 DEF AtaOK, Same
  <2> QED BY <2>11 DEF n
<1> QED BY <1>1, <1>2

\* Stored up to byte m of the request, and returned up to it.
Stored(c, m, s) ==
  \A k \in 0 .. m - 1 : \/ s.ata[c.offset + k] = Data(c.id, k)
                        \/ (c.offset + k) \div SectorSize \in c.lost
Received(c, m, s) ==
  Len(c.out) = m /\ \A k \in 1 .. m : c.out[k] = s.ata[c.offset + k - 1]

\* Exact for a call of the disk.
LEMMA ExactAta ==
  ASSUME NEW c, NEW s, c.dev = "ata"
  PROVE  Exact(c, s) <=> /\ \A a \in Span("ata") : Allowed(c, a, s.ata[a])
                         /\ c.op = "write" => Stored(c, c.done, s)
                         /\ c.op = "read" => Received(c, c.done, s)
BY DEF Exact, Stored, Received

\* The position moves on past a sector that is dealt with.
LEMMA AdvanceOK ==
  ASSUME NEW c, NEW d, NEW s, CallOK(c), c.dev = "ata", OnCourse(c), sectors \in Nat,
         c.done < c.len, d.stage = "none", d.st # "drq",
         \A a \in Span("ata") : Allowed(c, a, s.ata[a]),
         c.op = "write" => Stored(c, c.done + Take(c), s),
         c.op = "read" => Received(c, c.done + Take(c), s)
  PROVE  AtaOK(Advance(c), d, s)
<1> DEFINE n == [c EXCEPT !.done = @ + Take(c), !.lba = @ + 1, !.off = 0]
<1>1. /\ Take(c) \in Nat /\ 1 <= Take(c) /\ c.off + Take(c) <= SectorSize
      /\ c.done + Take(c) <= c.len
      /\ c.done + Take(c) < c.len => c.off + Take(c) = SectorSize
  BY TakeFacts
<1>2. /\ Same(n, c) /\ n.lost = c.lost /\ n.out = c.out /\ n.pc = c.pc
      /\ n.done = c.done + Take(c) /\ n.lba = c.lba + 1 /\ n.off = 0
      /\ n.sector = c.sector /\ n.buf = c.buf /\ DOMAIN n = DOMAIN c
  BY DEF CallOK, Same
<1>3. Advance(c) = NextSector(n)
  BY DEF Advance
<1> HIDE DEF n
<1>4. CallOK(n)
  BY <1>1, <1>2, Sizes DEF CallOK, Same
<1>5. OnCourse(n)
  <2>1. /\ At(c.lba, c.off) = At(c.lba, 0) + c.off /\ At(c.lba, 0) \in Nat
        /\ At(c.lba + 1, 0) = At(c.lba, 0) + SectorSize
    BY AtFacts DEF CallOK
  <2>2. c.offset + c.done = At(c.lba, 0) + c.off
    BY <2>1 DEF OnCourse
  <2>3. c.off \in Nat /\ c.offset \in Nat /\ c.done \in Nat /\ c.len \in Nat
    BY DEF CallOK, Places
  <2>4. n.offset = c.offset /\ n.len = c.len
    BY <1>2 DEF Same
  <2>5. At(n.lba, n.off) = At(c.lba, 0) + SectorSize
    BY <1>2, <2>1
  <2> QED BY <1>1, <1>2, <2>1, <2>2, <2>3, <2>4, <2>5, Sizes DEF OnCourse
<1>6. Exact(n, s)
  <2>1. \A a \in Span("ata") : Allowed(n, a, s.ata[a])
    BY <1>2, AllowedSame
  <2>2. n.op = "write" => Stored(n, n.done, s)
    BY <1>2 DEF Stored, Same
  <2>3. n.op = "read" => Received(n, n.done, s)
    BY <1>2 DEF Received, Same
  <2>4. n.dev = "ata"
    BY <1>2 DEF Same
  <2> QED BY <2>1, <2>2, <2>3, <2>4, ExactAta
<1>7. n.dev = "ata"
  BY <1>2 DEF Same
<1>8. AtaOK(NextSector(n), d, s)
  BY <1>4, <1>5, <1>6, <1>7, NextSectorOK
<1> QED BY <1>3, <1>8

\* The bytes of the request that lie in the sector under way.
LEMMA InSector ==
  ASSUME NEW c, CallOK(c), OnCourse(c), c.done < c.len,
         NEW k \in Nat, c.done <= k, k < c.done + Take(c)
  PROVE  /\ c.off + (k - c.done) \in Places
         /\ c.off + (k - c.done) \in c.off .. c.off + Take(c) - 1
         /\ c.offset + k = At(c.lba, c.off + (k - c.done))
         /\ (c.offset + k) \div SectorSize = c.lba
<1>1. Take(c) \in Nat /\ c.off + Take(c) <= SectorSize
  BY TakeFacts
<1>2. c.off \in Nat /\ c.offset \in Nat /\ c.done \in Nat /\ c.lba \in Nat /\ c.off \in Places
  BY DEF CallOK, Places
<1> DEFINE i == c.off + (k - c.done)
<1>3. i \in Places /\ i \in c.off .. c.off + Take(c) - 1 /\ i - c.off = k - c.done
  BY <1>1, <1>2, Sizes DEF Places
<1>4. At(c.lba, c.off) = At(c.lba, 0) + c.off /\ At(c.lba, 0) \in Nat
  BY <1>2, AtFacts
<1>5. c.offset + c.done = At(c.lba, c.off)
  BY DEF OnCourse
<1> HIDE DEF i
<1>6. At(c.lba, i) = At(c.lba, 0) + i /\ At(c.lba, i) \div SectorSize = c.lba
  BY Zenon, <1>2, <1>3, AtFacts
<1>7. c.offset + k = At(c.lba, 0) + i
  BY <1>2, <1>3, <1>4, <1>5 DEF Places
<1>8. c.offset + k = At(c.lba, i)
  BY <1>6, <1>7
<1>9. (c.offset + k) \div SectorSize = c.lba
  BY <1>6, <1>8
<1> QED BY <1>3, <1>8, <1>9 DEF i
-----------------------------------------------------------------------------
\* What the driver makes of a call, and gives the drive.
Issued(c) == [c EXCEPT !.pc = "status", !.lost = IF c.sector = "write" THEN @ \ {c.lba} ELSE @]
Command(c) == [st |-> "busy", stage |-> "start", cmd |-> c.sector,
               lba |-> c.lba % LbaLimit, data |-> <<>>]

\* A command: the registers hold the whole of the sector's number, and the sector is
\* no longer one that was lost.
LEMMA IssueCommandOK ==
  ASSUME NEW c, NEW d, NEW s, NEW n, NEW e, AtaOK(c, d, s), DriveOK(d),
         sectors \in Nat, Addressable, c.pc = "ready", d.st # "busy", d.st # "gone",
         (e = d /\ d.st = "drq") \/ e = Command(c), n = Issued(c)
  PROVE  AtaOK(n, e, s) /\ DriveOK(e)
<1>1. CallOK(c) /\ OnCourse(c) /\ Underway(c) /\ Working(c, d, s) /\ Exact(c, s) /\ c.dev = "ata"
  BY DEF AtaOK
<1>2. /\ CallOK(n) /\ Same(n, c) /\ Placed(n, c) /\ n.pc = "status" /\ n.sector = c.sector
      /\ n.buf = c.buf /\ n.lost = (IF c.sector = "write" THEN c.lost \ {c.lba} ELSE c.lost)
  BY <1>1 DEF Issued, CallOK, Same, Placed
<1>3. c.done < c.len /\ c.lba < sectors /\ c.lba \in Nat
  BY <1>1 DEF Underway, CallOK
<1>4. c.lba % LbaLimit = c.lba
  <2>1. c.lba < LbaLimit
    BY <1>3, Sizes DEF Addressable
  <2> QED BY <1>3, <2>1, Sizes
<1>5. e.stage = "start" /\ e.cmd = n.sector /\ e.lba = n.lba /\ DriveOK(e) /\ (e.st = "drq" => e = d)
  BY <1>1, <1>2, <1>3, <1>4 DEF Command, DriveOK, Working, Placed
<1>6. \A a, v : Allowed(n, a, v) <=> Allowed(c, a, v)
  BY <1>2, AllowedSame
<1>7. Working(n, e, s)
  BY <1>1, <1>2, <1>5 DEF Working, Placed
<1>8. OnCourse(n)
  BY <1>1, <1>2 DEF OnCourse, Same, Placed
<1>9. Underway(n)
  <2>1. Take(n) = Take(c)
    BY <1>2 DEF Take, Same, Placed
  <2> QED BY <1>1, <1>2, <1>6, <2>1 DEF Underway, Same, Placed
<1>10. Exact(n, s)
  <2>1. n.dev = "ata" /\ n.op = c.op
    BY <1>1, <1>2 DEF Same
  <2>2. /\ \A a \in Span("ata") : Allowed(c, a, s.ata[a])
        /\ c.op = "write" => Stored(c, c.done, s)
        /\ c.op = "read" => Received(c, c.done, s)
    BY <1>1, ExactAta
  <2>3. ASSUME c.op = "write" PROVE Stored(n, n.done, s)
    <3>1. ASSUME NEW k \in 0 .. c.done - 1
          PROVE \/ s.ata[c.offset + k] = Data(c.id, k)
                \/ (c.offset + k) \div SectorSize \in n.lost
      <4>1. c.done \in Nat /\ c.offset \in Nat /\ c.off \in Nat /\ k \in Nat /\ k < c.done
        BY <1>1 DEF CallOK, Places
      <4>2. c.off = 0 /\ c.offset + c.done = At(c.lba, c.off)
        BY <1>1, <1>3, <4>1 DEF OnCourse
      <4>3. c.offset + k \in Nat /\ c.offset + k < At(c.lba, 0)
        BY <4>1, <4>2
      <4>4. (c.offset + k) \div SectorSize < c.lba /\ (c.offset + k) \div SectorSize \in Nat
        BY <1>3, <4>3, AtSpan
      <4>5. (c.offset + k) \div SectorSize # c.lba
        BY <1>3, <4>4
      <4>6. \/ s.ata[c.offset + k] = Data(c.id, k)
            \/ (c.offset + k) \div SectorSize \in c.lost
        BY <2>2, <2>3 DEF Stored
      <4>7. \A x \in c.lost : x # c.lba => x \in n.lost
        BY <1>2
      <4> QED BY <4>5, <4>6, <4>7
    <3>2. n.done = c.done /\ n.offset = c.offset /\ n.id = c.id
      BY <1>2 DEF Same, Placed
    <3> QED BY <3>1, <3>2 DEF Stored
  <2>4. c.op = "read" => Received(n, n.done, s)
    BY <1>2, <2>2 DEF Received, Same, Placed
  <2>5. \A a \in Span("ata") : Allowed(n, a, s.ata[a])
    BY <1>6, <2>2
  <2> QED BY <2>1, <2>3, <2>4, <2>5, ExactAta
<1> QED BY <1>1, <1>2, <1>5, <1>7, <1>8, <1>9, <1>10 DEF AtaOK, Same

\* The status is looked at, and the drive is not in trouble.
LEMMA StatusOK ==
  ASSUME NEW c, NEW d, NEW s, NEW n, AtaOK(c, d, s), c.pc = "status",
         n = [c EXCEPT !.pc = "drq"]
  PROVE  AtaOK(n, d, s)
<1>1. /\ CallOK(n) /\ Same(n, c) /\ Placed(n, c) /\ n.pc = "drq" /\ n.sector = c.sector
      /\ n.buf = c.buf /\ n.lost = c.lost
  BY DEF AtaOK, CallOK, Same, Placed
<1>2. Exact(n, s) /\ n.dev = "ata"
  BY Zenon, <1>1, ExactSame DEF AtaOK, Same
<1>3. OnCourse(n)
  BY <1>1 DEF AtaOK, OnCourse, Same, Placed
<1>4. \A a, v : Allowed(n, a, v) <=> Allowed(c, a, v)
  BY <1>1, AllowedSame
<1>5. Underway(n)
  <2>1. Take(n) = Take(c)
    BY <1>1 DEF Take, Same, Placed
  <2> QED BY <1>1, <1>4, <2>1 DEF AtaOK, Underway, Same, Placed
<1>6. Working(n, d, s)
  BY <1>1, <1>4 DEF AtaOK, Working, Same, Placed
<1> QED BY <1>1, <1>2, <1>3, <1>5, <1>6 DEF AtaOK

\* A sector has been read: read_at copies its part of it.
LEMMA CopiedOK ==
  ASSUME NEW c, NEW d, NEW s, CallOK(c), c.dev = "ata", c.op = "read", OnCourse(c), Exact(c, s),
         sectors \in Nat, c.done < c.len, d.stage = "none", d.st # "drq",
         \A i \in Places : c.buf[i] = s.ata[At(c.lba, i)]
  PROVE  AtaOK(Copied(c), d, s)
<1> DEFINE t == Take(c)
           part == [i \in 1 .. t |-> c.buf[c.off + i - 1]]
           n == [c EXCEPT !.out = @ \o part]
<1>1. t \in Nat /\ 1 <= t /\ c.off + t <= SectorSize
  BY TakeFacts
<1>2. /\ Same(n, c) /\ n.lost = c.lost /\ n.out = c.out \o part /\ n.pc = c.pc
      /\ n.done = c.done /\ n.lba = c.lba /\ n.off = c.off
      /\ n.sector = c.sector /\ n.buf = c.buf /\ DOMAIN n = DOMAIN c
  BY Zenon DEF CallOK, Same
<1>3. Copied(c) = Advance(n)
  BY DEF Copied
<1>4. c.off \in Nat /\ c.done \in Nat /\ c.offset \in Nat /\ c.out \in Seq(Nat) /\ c.buf \in [Places -> Nat]
  BY DEF CallOK, Places, Buffers
<1> HIDE DEF t
<1>5. ASSUME NEW i \in 1 .. t PROVE c.off + i - 1 \in Places
  BY <1>1, <1>4, Sizes DEF Places
<1>6. part \in Seq(Nat) /\ Len(part) = t
  <2>1. \A i \in 1 .. t : c.buf[c.off + i - 1] \in Nat
    BY <1>4, <1>5
  <2> QED BY <1>1, <2>1
<1>7. Len(c.out) = c.done /\ \A k \in 1 .. c.done : c.out[k] = s.ata[c.offset + k - 1]
  BY ExactAta DEF Received
<1>8. ASSUME NEW k \in 1 .. c.done + t PROVE (c.out \o part)[k] = s.ata[c.offset + k - 1]
  <2>1. CASE k <= c.done
    <3>1. k \in 1 .. Len(c.out) /\ k \in 1 .. c.done
      BY <1>4, <1>7, <2>1, <1>1
    <3>2. (c.out \o part)[k] = c.out[k]
      <4> HIDE DEF part
      <4> QED BY <1>4, <1>6, <3>1
    <3> QED BY <1>7, <3>1, <3>2
  <2>2. CASE c.done < k
    <3> DEFINE j == k - c.done
               m == k - 1
    <3>1. j \in 1 .. t /\ m \in Nat /\ c.done <= m /\ m < c.done + t /\ k = Len(c.out) + j
      BY <1>1, <1>4, <1>7, <2>2
    <3>2. (c.out \o part)[k] = part[j]
      <4> HIDE DEF part, j
      <4> QED BY <1>4, <1>6, <3>1
    <3>3. part[j] = c.buf[c.off + j - 1]
      BY <3>1
    <3>4. c.off + j - 1 = c.off + (m - c.done) /\ c.offset + k - 1 = c.offset + m
      BY <1>1, <1>4
    <3> HIDE DEF j, m, part
    <3>5. c.off + (m - c.done) \in Places /\ c.offset + m = At(c.lba, c.off + (m - c.done))
      BY <3>1, InSector DEF t
    <3> QED BY <3>2, <3>3, <3>4, <3>5
  <2>3. k <= c.done \/ c.done < k
    <3> HIDE DEF part
    <3> QED BY <1>1, <1>4
  <2> QED BY Zenon, <2>1, <2>2, <2>3
<1>9. Len(c.out \o part) = c.done + t /\ c.out \o part \in Seq(Nat)
  <2> HIDE DEF part
  <2>1. \A p, q \in Seq(Nat) : Len(p \o q) = Len(p) + Len(q) /\ p \o q \in Seq(Nat)
    OBVIOUS
  <2>2. c.out \in Seq(Nat) /\ part \in Seq(Nat) /\ Len(c.out) = c.done /\ Len(part) = t
    BY <1>4, <1>6, <1>7
  <2> QED BY <2>1, <2>2, Zenon
<1> HIDE DEF n, part
<1>10. Take(n) = t
  BY <1>2 DEF Take, Same, t
<1>11. CallOK(n) /\ n.dev = "ata" /\ n.op = "read"
  BY <1>2, <1>9 DEF CallOK, Same
<1>12. OnCourse(n) /\ n.done < n.len
  BY <1>2 DEF OnCourse, Same
<1>13. Received(n, n.done + Take(n), s)
  BY <1>2, <1>8, <1>9, <1>10 DEF Received, Same
<1>14. \A a \in Span("ata") : Allowed(n, a, s.ata[a])
  BY <1>2, ExactAta, AllowedSame
<1>15. AtaOK(Advance(n), d, s)
  BY <1>11, <1>12, <1>13, <1>14, AdvanceOK
<1> QED BY <1>3, <1>15

\* A sector has been read: write_at puts its part into it.
LEMMA MergedOK ==
  ASSUME NEW c, NEW d, NEW s, CallOK(c), c.dev = "ata", c.op = "write", OnCourse(c), Exact(c, s),
         sectors \in Nat, c.done < c.len, c.lba < sectors, d.stage = "none", d.st # "drq",
         \A i \in Places : c.buf[i] = s.ata[At(c.lba, i)]
  PROVE  AtaOK(Merged(c), d, s)
<1> DEFINE t == Take(c)
           buf == [i \in Places |-> IF i \in c.off .. c.off + t - 1
                                    THEN Data(c.id, c.done + i - c.off) ELSE c.buf[i]]
           n == Merged(c)
<1>1. n = [c EXCEPT !.pc = "ready", !.attempt = 1, !.sector = "write", !.buf = buf]
  BY DEF Merged, Places
<1>2. /\ Same(n, c) /\ Placed(n, c) /\ n.lost = c.lost /\ n.pc = "ready"
      /\ n.sector = "write" /\ n.buf = buf /\ DOMAIN n = DOMAIN c
  BY <1>1 DEF CallOK, Same, Placed
<1>3. c.off \in Nat /\ c.done \in Nat /\ c.offset \in Nat /\ c.id \in Nat /\ c.lba \in Nat
      /\ c.len \in Nat /\ c.off \in Places /\ c.buf \in [Places -> Nat]
  BY DEF CallOK, Places, Buffers
<1>4. t \in Nat /\ 1 <= t /\ c.off + t <= SectorSize /\ c.done + t <= c.len
  BY TakeFacts
<1> HIDE DEF n, t
<1>5. ASSUME NEW i \in Places, i \in c.off .. c.off + t - 1
      PROVE  /\ c.done + i - c.off \in Nat /\ c.done + i - c.off < c.len
             /\ At(c.lba, i) = c.offset + (c.done + i - c.off)
  <2>1. At(c.lba, i) = At(c.lba, 0) + i /\ At(c.lba, 0) \in Nat
    BY <1>3, AtFacts
  <2>2. At(c.lba, c.off) = At(c.lba, 0) + c.off
    BY <1>3, AtFacts
  <2>3. c.offset + c.done = At(c.lba, 0) + c.off
    BY <2>2 DEF OnCourse
  <2> QED BY <1>3, <1>4, <1>5, <2>1, <2>3
<1>6. buf \in Buffers
  <2>1. ASSUME NEW i \in Places PROVE buf[i] \in Nat
    <3>1. CASE i \in c.off .. c.off + t - 1
      <4>1. buf[i] = Data(c.id, c.done + i - c.off) /\ c.done + i - c.off \in Nat
        BY <1>5, <3>1
      <4> QED BY Zenon, <1>3, <4>1, DataNat
    <3>2. CASE i \notin c.off .. c.off + t - 1
      BY <1>3, <3>2
    <3> QED BY <3>1, <3>2
  <2> QED BY <2>1 DEF Buffers
<1>7. \A a \in Span("ata") : Allowed(c, a, s.ata[a])
  BY ExactAta
<1>8. ASSUME NEW i \in Places PROVE Allowed(c, At(c.lba, i), buf[i])
  <2>1. CASE i \in c.off .. c.off + t - 1
    <3> DEFINE k == c.done + i - c.off
    <3>1. buf[i] = Data(c.id, k) /\ k \in Nat /\ k < c.len /\ At(c.lba, i) = c.offset + k
      BY <1>5, <2>1
    <3> HIDE DEF k, buf
    <3>2. At(c.lba, i) - c.offset = k /\ At(c.lba, i) \in c.offset .. c.offset + c.len - 1
      BY <1>3, <3>1
    <3> QED BY <3>1, <3>2 DEF Allowed
  <2>2. CASE i \notin c.off .. c.off + t - 1
    <3>1. buf[i] = s.ata[At(c.lba, i)]
      BY <2>2
    <3>2. At(c.lba, i) \in Span("ata")
      BY <1>3, AtSpan
    <3> HIDE DEF buf
    <3> QED BY <1>7, <3>1, <3>2
  <2> QED BY <2>1, <2>2
<1>9. \A i \in c.off .. c.off + t - 1 : i \in Places /\ buf[i] = Data(c.id, c.done + i - c.off)
  <2>1. \A i \in c.off .. c.off + t - 1 : i \in Places
    BY <1>3, <1>4, Sizes DEF Places
  <2> QED BY <2>1
<1> HIDE DEF buf
<1>10. Exact(n, s) /\ n.dev = "ata"
  BY <1>2, ExactSame DEF Same
<1>11. CallOK(n)
  BY <1>2, <1>6 DEF CallOK, Same, Placed
<1>12. OnCourse(n)
  BY <1>2 DEF OnCourse, Same, Placed
<1>13. Take(n) = t
  BY <1>2 DEF Take, Same, Placed, t
<1>14. \A a, v : Allowed(n, a, v) <=> Allowed(c, a, v)
  BY <1>2, AllowedSame
<1>15. Underway(n)
  BY <1>2, <1>8, <1>9, <1>13, <1>14 DEF Underway, Same, Placed
<1>16. Working(n, d, s)
  BY <1>2 DEF Working
<1>17. AtaOK(n, d, s)
  BY <1>10, <1>11, <1>12, <1>15, <1>16 DEF AtaOK
<1> QED BY <1>17 DEF n

\* The data port after a read.
LEMMA TransferReadOK ==
  ASSUME NEW c, NEW d, NEW s, AtaOK(c, d, s), sectors \in Nat,
         c.pc = "drq", d.st = "drq", c.sector = "read"
  PROVE  AtaOK(SectorDone([c EXCEPT !.buf = d.data]), Quiet, s)
<1> DEFINE b == [c EXCEPT !.buf = d.data]
<1>1. CallOK(c) /\ OnCourse(c) /\ Underway(c) /\ Working(c, d, s) /\ Exact(c, s) /\ c.dev = "ata"
  BY DEF AtaOK
<1>2. d.data \in Buffers /\ \A i \in Places : d.data[i] = s.ata[At(c.lba, i)]
  BY <1>1 DEF Working
<1>3. /\ Same(b, c) /\ Placed(b, c) /\ b.lost = c.lost /\ b.pc = c.pc
      /\ b.sector = c.sector /\ b.buf = d.data /\ DOMAIN b = DOMAIN c
  BY <1>1 DEF CallOK, Same, Placed
<1> HIDE DEF b
<1>4. CallOK(b) /\ OnCourse(b) /\ b.dev = "ata"
  BY <1>1, <1>2, <1>3 DEF CallOK, OnCourse, Same, Placed
<1>5. Exact(b, s)
  BY <1>1, <1>3, ExactSame
<1>6. b.done < b.len /\ b.lba < sectors /\ b.lba = c.lba
  BY <1>1, <1>3 DEF Underway, Same, Placed
<1>7. Quiet.stage = "none" /\ Quiet.st # "drq"
  BY DEF Quiet
<1>8. \A i \in Places : b.buf[i] = s.ata[At(b.lba, i)]
  BY <1>2, <1>3, <1>6
<1>9. CASE b.op = "read"
  <2>1. SectorDone(b) = Copied(b)
    BY <1>9 DEF SectorDone
  <2>2. AtaOK(Copied(b), Quiet, s)
    BY <1>4, <1>5, <1>6, <1>7, <1>8, <1>9, CopiedOK
  <2> QED BY <2>1, <2>2 DEF b
<1>10. CASE b.op = "write"
  <2>1. SectorDone(b) = Merged(b)
    BY <1>3, <1>10 DEF SectorDone
  <2>2. AtaOK(Merged(b), Quiet, s)
    BY <1>4, <1>5, <1>6, <1>7, <1>8, <1>10, MergedOK
  <2> QED BY <2>1, <2>2 DEF b
<1> QED BY <1>4, <1>9, <1>10 DEF CallOK

\* The data of a write are with the drive.
Sent(d, buf) == [d EXCEPT !.st = "busy", !.stage = "store", !.data = buf]
Settling(c) == [c EXCEPT !.pc = "settle"]

\* The data port after a write: the drive stores the buffer.
LEMMA TransferWriteOK ==
  ASSUME NEW c, NEW d, NEW s, NEW n, NEW e, AtaOK(c, d, s), DriveOK(d),
         c.pc = "drq", d.st = "drq", c.sector = "write",
         n = Settling(c), e = Sent(d, c.buf)
  PROVE  AtaOK(n, e, s) /\ DriveOK(e)
<1>1. CallOK(c) /\ OnCourse(c) /\ Underway(c) /\ Working(c, d, s) /\ Exact(c, s) /\ c.dev = "ata"
  BY DEF AtaOK
<1>2. /\ CallOK(n) /\ Same(n, c) /\ Placed(n, c) /\ n.pc = "settle" /\ n.sector = "write"
      /\ n.buf = c.buf /\ n.lost = c.lost
  BY <1>1 DEF Settling, CallOK, Same, Placed
<1>3. d.stage = "start" /\ d.lba = c.lba /\ c.op = "write" /\ c.buf \in Buffers /\ c.lba < sectors
  BY Zenon, <1>1 DEF DriveOK, Working, CallOK, Underway
<1>4. e.st = "busy" /\ e.stage = "store" /\ e.data = c.buf /\ e.lba = c.lba /\ DOMAIN e = DOMAIN d
  BY <1>3 DEF Sent, DriveOK
<1>5. DriveOK(e)
  BY <1>3, <1>4 DEF DriveOK
<1>6. \A a, v : Allowed(n, a, v) <=> Allowed(c, a, v)
  BY <1>2, AllowedSame
<1>7. \A i \in Places : Allowed(c, At(c.lba, i), c.buf[i])
  BY <1>1 DEF Underway
<1>8. Working(n, e, s)
  BY <1>2, <1>3, <1>4, <1>6, <1>7 DEF Working, Same, Placed
<1>9. OnCourse(n)
  BY <1>1, <1>2 DEF OnCourse, Same, Placed
<1>10. Underway(n)
  <2>1. Take(n) = Take(c)
    BY Zenon, <1>2 DEF Take, Same, Placed
  <2> QED BY Zenon, <1>1, <1>2, <1>6, <2>1 DEF Underway, Same, Placed
<1>11. Exact(n, s) /\ n.dev = "ata"
  BY <1>1, <1>2, ExactSame DEF Same
<1> QED BY <1>2, <1>5, <1>8, <1>9, <1>10, <1>11 DEF AtaOK

\* The last wait is over: the sector is stored, or the drive has lost it.
LEMMA SettledOK ==
  ASSUME NEW c, NEW d, NEW s, AtaOK(c, d, s), DriveOK(d), sectors \in Nat,
         c.pc = "settle", d.st # "busy", d.st # "gone"
  PROVE  AtaOK(SectorDone(c), d, s)
<1>1. CallOK(c) /\ OnCourse(c) /\ Underway(c) /\ Working(c, d, s) /\ Exact(c, s) /\ c.dev = "ata"
  BY DEF AtaOK
<1>2. /\ c.sector = "write" /\ c.op = "write" /\ d.stage = "none" /\ d.st # "drq"
      /\ c.lba \in c.lost \/ \A i \in Places : s.ata[At(c.lba, i)] = c.buf[i]
  BY <1>1 DEF Working, CallOK, DriveOK
<1>3. SectorDone(c) = Advance(c)
  BY <1>2 DEF SectorDone
<1>4. /\ c.done < c.len
      /\ \A i \in c.off .. c.off + Take(c) - 1 : c.buf[i] = Data(c.id, c.done + i - c.off)
  BY <1>1, <1>2 DEF Underway
<1>5. Take(c) \in Nat /\ c.done \in Nat /\ c.off \in Nat
  BY <1>1, <1>4, TakeFacts DEF CallOK, Places
<1>6. (\A a \in Span("ata") : Allowed(c, a, s.ata[a])) /\ Stored(c, c.done, s)
  BY Zenon, <1>1, <1>2, ExactAta
<1> DEFINE m == c.done + Take(c)
<1>7. ASSUME NEW k \in 0 .. m - 1
      PROVE  \/ s.ata[c.offset + k] = Data(c.id, k)
             \/ (c.offset + k) \div SectorSize \in c.lost
  <2>1. CASE k < c.done
    <3>1. k \in 0 .. c.done - 1
      BY <1>5, <2>1
    <3> QED BY <1>6, <3>1 DEF Stored
  <2>2. CASE c.done <= k
    <3> DEFINE i == c.off + (k - c.done)
    <3>1. k \in Nat /\ k < c.done + Take(c)
      BY <1>5
    <3>2. /\ i \in Places /\ i \in c.off .. c.off + Take(c) - 1
          /\ c.offset + k = At(c.lba, i) /\ (c.offset + k) \div SectorSize = c.lba
      BY <1>1, <1>4, <2>2, <3>1, InSector
    <3>3. c.done + i - c.off = k
      BY <1>5, <3>1
    <3> HIDE DEF i
    <3>4. c.buf[i] = Data(c.id, k)
      BY <1>4, <3>2, <3>3
    <3>5. CASE c.lba \in c.lost
      BY <3>2, <3>5
    <3>6. CASE \A j \in Places : s.ata[At(c.lba, j)] = c.buf[j]
      <4>1. s.ata[At(c.lba, i)] = Data(c.id, k)
        BY <3>2, <3>4, <3>6
      <4> QED BY <3>2, <4>1
    <3> QED BY <1>2, <3>5, <3>6
  <2>3. k < c.done \/ c.done <= k
    BY <1>5
  <2> QED BY <2>1, <2>2, <2>3
<1>8. Stored(c, m, s)
  <2> HIDE DEF m
  <2> QED BY <1>7 DEF Stored
<1>9. c.op # "read"
  BY <1>2
<1>10. AtaOK(Advance(c), d, s)
  BY Zenon, <1>1, <1>2, <1>4, <1>6, <1>8, <1>9, AdvanceOK
<1> QED BY <1>3, <1>10
-----------------------------------------------------------------------------
\* The drive starts on a command: what it reads is the sector asked for.
LEMMA StartsOK ==
  ASSUME NEW c, NEW d, NEW s, NEW e, DriveOK(d), StoreOK(s), sectors \in Nat,
         d.st = "busy", d.stage = "start",
         e = [d EXCEPT !.st = "drq", !.data = IF d.cmd = "read"
                                              THEN Sector(s.ata, d.lba) ELSE <<>>]
  PROVE  DriveOK(e) /\ (AtaOK(c, d, s) => AtaOK(c, e, s))
<1>1. /\ e.st = "drq" /\ e.stage = "start" /\ e.cmd = d.cmd /\ e.lba = d.lba
      /\ e.data = (IF d.cmd = "read" THEN Sector(s.ata, d.lba) ELSE <<>>)
      /\ DOMAIN e = DOMAIN d
  BY DEF DriveOK
<1>2. DriveOK(e)
  BY <1>1 DEF DriveOK
<1>3. ASSUME AtaOK(c, d, s) PROVE AtaOK(c, e, s)
  <2>1. CallOK(c) /\ Underway(c) /\ Working(c, d, s)
    BY <1>3 DEF AtaOK
  <2>2. ASSUME c.pc # "idle", c.sector = "read"
        PROVE e.data \in Buffers /\ \A i \in Places : e.data[i] = s.ata[At(c.lba, i)]
    <3>1. d.cmd = "read" /\ d.lba = c.lba /\ c.lba < sectors /\ c.lba \in Nat
      BY <2>1, <2>2 DEF Working, Underway, CallOK
    <3>2. e.data = [i \in Places |-> s.ata[At(c.lba, i)]]
      BY <1>1, <3>1 DEF Sector, Places, At
    <3>3. s.ata \in [Span("ata") -> Nat]
      BY DEF StoreOK
    <3>4. \A i \in Places : At(c.lba, i) \in Span("ata")
      BY <3>1, AtSpan
    <3>5. \A i \in Places : s.ata[At(c.lba, i)] \in Nat
      BY <3>3, <3>4
    <3> QED BY <3>2, <3>5 DEF Buffers
  <2>3. c.pc # "settle"
    BY <2>1 DEF Working
  <2>4. Working(c, e, s)
    BY <1>1, <2>1, <2>2, <2>3 DEF Working
  <2> QED BY <1>3, <2>4 DEF AtaOK
<1> QED BY <1>2, <1>3

\* A drive that has nothing to do, because it failed or is gone.
LEMMA StopsOK ==
  ASSUME NEW c, NEW d, NEW s, NEW n, NEW e, DriveOK(d), AtaOK(c, d, s),
         e.stage = "none", e.st # "drq",
         \/ e.st = "gone" /\ n = c
         \/ /\ d.st = "busy"
            /\ n = IF d.stage = "store" THEN [c EXCEPT !.lost = @ \cup {d.lba}] ELSE c
  PROVE  AtaOK(n, e, s)
<1>1. CallOK(c) /\ OnCourse(c) /\ Underway(c) /\ Working(c, d, s) /\ Exact(c, s) /\ c.dev = "ata"
  BY DEF AtaOK
<1>2. /\ CallOK(n) /\ Same(n, c) /\ Placed(n, c) /\ n.pc = c.pc /\ n.sector = c.sector
      /\ n.buf = c.buf /\ c.lost \subseteq n.lost
      /\ e.st = "gone" \/ d.stage = "start" \/ (d.stage = "store" /\ d.lba \in n.lost)
  BY <1>1 DEF CallOK, Same, Placed, DriveOK
<1>3. \A a, v : Allowed(n, a, v) <=> Allowed(c, a, v)
  BY <1>2, AllowedSame
<1>4. OnCourse(n)
  BY <1>1, <1>2 DEF OnCourse, Same, Placed
<1>5. Underway(n)
  <2>1. Take(n) = Take(c)
    BY <1>2 DEF Take, Same, Placed
  <2> QED BY <1>1, <1>2, <1>3, <2>1 DEF Underway, Same, Placed
<1>6. Working(n, e, s)
  BY <1>1, <1>2 DEF Working, Placed
<1>7. Exact(n, s) /\ n.dev = "ata"
  <2>1. n.dev = "ata" /\ n.op = c.op
    BY <1>1, <1>2 DEF Same
  <2>2. /\ \A a \in Span("ata") : Allowed(c, a, s.ata[a])
        /\ c.op = "write" => Stored(c, c.done, s)
        /\ c.op = "read" => Received(c, c.done, s)
    BY <1>1, ExactAta
  <2>3. c.op = "write" => Stored(n, n.done, s)
    BY <1>2, <2>2 DEF Stored, Same, Placed
  <2>4. c.op = "read" => Received(n, n.done, s)
    BY <1>2, <2>2 DEF Received, Same, Placed
  <2> QED BY <1>3, <2>1, <2>2, <2>3, <2>4, ExactAta
<1> QED BY <1>2, <1>4, <1>5, <1>6, <1>7 DEF AtaOK

\* The store of a sector, whatever the call in progress.
LEMMA StoresOK ==
  ASSUME NEW c, NEW d, NEW s, NEW z, DriveOK(d), StoreOK(s), sectors \in Nat,
         d.st = "busy", d.stage = "store",
         z = [s EXCEPT !.ata = [a \in DOMAIN @ |-> IF a \div SectorSize = d.lba
                                                   THEN d.data[a % SectorSize] ELSE @[a]]]
  PROVE  StoreOK(z) /\ z.ram = s.ram /\ (AtaOK(c, d, s) => AtaOK(c, Quiet, z))
<1>1. d.data \in [Places -> Nat] /\ d.lba \in Nat /\ d.lba < sectors
  BY DEF DriveOK, Buffers
<1>2. s.ata \in [Span("ata") -> Nat] /\ s.ram \in [Span("ram") -> Nat] /\ DOMAIN s = {"ata", "ram"}
  BY DEF StoreOK
<1>3. /\ z.ata = [a \in Span("ata") |-> IF a \div SectorSize = d.lba
                                       THEN d.data[a % SectorSize] ELSE s.ata[a]]
      /\ z.ram = s.ram /\ z = [ata |-> z.ata, ram |-> z.ram]
  BY <1>2
<1>4. \A a \in Span("ata") : a \in Nat
  BY Sizes DEF Span
<1>5. z.ata \in [Span("ata") -> Nat]
  <2>1. \A a \in Span("ata") : a % SectorSize \in Places
    BY <1>4, AtSpan
  <2> QED BY <1>1, <1>2, <1>3, <2>1
<1>6. StoreOK(z)
  BY Zenon, <1>2, <1>3, <1>5 DEF StoreOK
<1>7. ASSUME AtaOK(c, d, s) PROVE AtaOK(c, Quiet, z)
  <2>1. CallOK(c) /\ OnCourse(c) /\ Underway(c) /\ Working(c, d, s) /\ Exact(c, s) /\ c.dev = "ata"
    BY <1>7 DEF AtaOK
  <2>2. \A i \in Places : Allowed(c, At(d.lba, i), d.data[i])
    BY <2>1 DEF Working
  <2>3. \A a \in Span("ata") : Allowed(c, a, s.ata[a])
    BY <2>1, ExactAta
  <2>4. ASSUME NEW a \in Span("ata") PROVE Allowed(c, a, z.ata[a])
    <3>1. CASE a \div SectorSize = d.lba
      <4>1. a % SectorSize \in Places /\ a = At(d.lba, a % SectorSize)
        BY <1>4, <3>1, AtSpan
      <4>2. z.ata[a] = d.data[a % SectorSize]
        BY <1>3, <3>1
      <4> QED BY <2>2, <4>1, <4>2
    <3>2. CASE a \div SectorSize # d.lba
      BY <1>3, <2>3, <3>2
    <3> QED BY <3>1, <3>2
  <2>5. ASSUME NEW i \in Places PROVE z.ata[At(d.lba, i)] = d.data[i]
    <3>1. At(d.lba, i) \div SectorSize = d.lba /\ At(d.lba, i) % SectorSize = i
      BY <1>1, AtFacts
    <3>2. At(d.lba, i) \in Span("ata")
      BY <1>1, AtSpan
    <3> QED BY <1>3, <3>1, <3>2
  <2>6. Working(c, Quiet, z)
    <3>1. c.pc = "settle" => \A i \in Places : z.ata[At(c.lba, i)] = c.buf[i]
      BY Zenon, <2>1, <2>5 DEF Working
    <3> QED BY Zenon, <2>1, <3>1 DEF Working, Quiet
  <2>7. c.op = "read" => c.done = 0 /\ Received(c, 0, z)
    <3>1. c.op = "read" => c.done = 0
      BY <2>1 DEF Working, CallOK
    <3>2. c.op = "read" => Len(c.out) = 0
      BY <2>1, <3>1, ExactAta DEF Received
    <3> QED BY <3>1, <3>2 DEF Received
  <2>8. ASSUME c.op = "write", NEW k \in 0 .. c.done - 1
        PROVE  \/ z.ata[c.offset + k] = Data(c.id, k)
               \/ (c.offset + k) \div SectorSize \in c.lost
    <3>1. c.done \in Nat /\ c.len \in Nat /\ c.offset \in Nat /\ c.lba \in Nat
          /\ k \in Nat /\ k < c.done /\ c.done > 0
      BY <2>1 DEF CallOK
    <3>2. d.lba = c.lba /\ c.off = 0
      BY <2>1, <3>1 DEF Working, OnCourse
    <3>3. c.offset + c.done <= At(c.lba, 0) /\ At(c.lba, 0) \in Nat
      BY <2>1, <3>1, <3>2, AtFacts, Sizes DEF OnCourse
    <3>4. c.offset + k \in Nat /\ c.offset + k < At(c.lba, 0)
      BY <3>1, <3>3
    <3>5. (c.offset + k) \div SectorSize < c.lba /\ (c.offset + k) \div SectorSize \in Nat
      BY <3>1, <3>4, AtSpan
    <3>6. (c.offset + k) \div SectorSize # d.lba
      BY <3>1, <3>2, <3>5
    <3>7. s.ata[c.offset + k] = Data(c.id, k) \/ (c.offset + k) \div SectorSize \in c.lost
      BY <2>1, <2>8, ExactAta DEF Stored
    <3>8. c.offset + k \in Span("ata")
      <4>1. At(c.lba, 0) \in Span("ata")
        BY <1>1, <3>2, AtSpan, Sizes
      <4>2. sectors * SectorSize \in Nat
        BY Sizes
      <4> QED BY <3>4, <4>1, <4>2 DEF Span
    <3> QED BY <1>3, <3>6, <3>7, <3>8
  <2>9. c.op = "write" => Stored(c, c.done, z)
    BY Zenon, <2>8 DEF Stored
  <2>10. Exact(c, z)
    BY Zenon, <2>1, <2>4, <2>7, <2>9, ExactAta
  <2> QED BY <2>1, <2>6, <2>10 DEF AtaOK
<1> QED BY <1>3, <1>6, <1>7
-----------------------------------------------------------------------------
\* A call of the disk begins; what an earlier one has left to store is allowed.
LEMMA AtaCallOK ==
  ASSUME StoreOK(store), DriveOK(drive), sectors \in Nat, calls \in Nat,
         NEW op \in {"read", "write"}, NEW offset \in Nat, NEW len \in Nat,
         drive.stage # "start"
  PROVE  AtaOK(NextSector(NewCall("ata", op, offset, len)), drive, store)
<1> DEFINE c == NewCall("ata", op, offset, len)
<1>1. /\ offset \div SectorSize \in Nat /\ offset % SectorSize \in Places
      /\ offset = At(offset \div SectorSize, offset % SectorSize)
  BY AtSpan
<1>2. [i \in 0 .. SectorSize - 1 |-> 0] \in Buffers
  BY DEF Buffers, Places
<1>3. /\ c.dev = "ata" /\ c.op = op /\ c.id = calls + 1 /\ c.offset = offset /\ c.len = len
      /\ c.lba = offset \div SectorSize /\ c.off = offset % SectorSize /\ c.done = 0
      /\ c.out = <<>> /\ c.buf = [i \in 0 .. SectorSize - 1 |-> 0] /\ c.sector = op /\ c.pc = "idle"
      /\ c.before = [a \in DOMAIN store.ata |-> {store.ata[a]} \cup StillToCome("ata", a)]
      /\ DOMAIN c = {"dev", "op", "id", "offset", "len", "lba", "off", "done", "out", "buf",
                     "attempt", "sector", "pc", "lost", "before"}
  BY Zenon DEF NewCall
<1> HIDE DEF c
<1>4. CallOK(c)
  BY <1>1, <1>2, <1>3 DEF CallOK
<1>5. OnCourse(c)
  BY <1>1, <1>3 DEF OnCourse
<1>6. DOMAIN store.ata = Span("ata") /\ \A a \in Span("ata") : a \in Nat
  BY DEF StoreOK, Span
<1>7. Exact(c, store)
  <2>1. \A a \in Span("ata") : Allowed(c, a, store.ata[a])
    BY <1>3, <1>6 DEF Allowed
  <2>2. Stored(c, 0, store) /\ Received(c, 0, store)
    BY <1>3 DEF Stored, Received
  <2> QED BY <1>3, <2>1, <2>2, ExactAta
<1>8. ASSUME drive.stage = "store", NEW i \in Places
      PROVE  Allowed(c, At(drive.lba, i), drive.data[i])
  <2>1. drive.st = "busy" /\ drive.lba \in Nat /\ drive.lba < sectors
    BY <1>8 DEF DriveOK
  <2>2. /\ At(drive.lba, i) \in Span("ata") /\ At(drive.lba, i) \div SectorSize = drive.lba
        /\ At(drive.lba, i) % SectorSize = i
    BY Zenon, <2>1, AtFacts, AtSpan
  <2>3. drive.data[i] \in StillToCome("ata", At(drive.lba, i))
    BY <1>8, <2>1, <2>2 DEF StillToCome, Busy
  <2> QED BY <1>3, <1>6, <2>2, <2>3 DEF Allowed
<1>9. drive.st # "drq"
  BY DEF DriveOK
<1>10. AtaOK(NextSector(c), drive, store)
  BY Zenon, <1>3, <1>4, <1>5, <1>7, <1>8, <1>9, NextSectorOK
<1> QED BY <1>10 DEF c

\* The bytes of a request that are on the RAM disk.
OnRam(offset, len) == IF offset >= RamBytes THEN 0 ELSE Least(len, RamBytes - offset)

\* They are no more than asked for.
LEMMA OnRamFacts ==
  ASSUME NEW offset \in Nat, NEW len \in Nat
  PROVE  /\ OnRam(offset, len) \in Nat /\ OnRam(offset, len) <= len
         /\ \A k \in 0 .. OnRam(offset, len) - 1 : offset + k \in 0 .. RamBytes - 1
BY Sizes DEF OnRam, Least

\* A call has done m bytes of the RAM disk at once: z is the store after it.
RamDone(c, z, m) ==
  /\ c.dev = "ram" /\ c.op \in {"read", "write"} /\ c.id = calls + 1
  /\ c.offset \in Nat /\ c.len \in Nat /\ c.done = m /\ c.sector = c.op /\ c.pc = "idle"
  /\ c.lba = c.offset \div SectorSize /\ c.off = c.offset % SectorSize
  /\ m \in Nat /\ m <= c.len /\ \A k \in 0 .. m - 1 : c.offset + k \in Span("ram")
  /\ c.out = IF c.op = "write" THEN <<>> ELSE [i \in 1 .. m |-> store.ram[c.offset + i - 1]]
  /\ c.buf = [i \in Places |-> 0]
  /\ \A a \in Span("ram") : store.ram[a] \in c.before[a]
  /\ DOMAIN c = {"dev", "op", "id", "offset", "len", "lba", "off", "done", "out", "buf",
                 "attempt", "sector", "pc", "lost", "before"}
  /\ z.ram = IF c.op = "read" THEN store.ram ELSE
               [a \in Span("ram") |-> IF a \in c.offset .. (c.offset + m - 1)
                                      THEN Data(calls + 1, a - c.offset) ELSE store.ram[a]]
  /\ z.ata = store.ata /\ z = [ata |-> z.ata, ram |-> z.ram]

\* Such a call is exact.
LEMMA RamDoneOK ==
  ASSUME StoreOK(store), calls \in Nat, NEW c, NEW z, NEW m, RamDone(c, z, m)
  PROVE  StoreOK(z) /\ CallOK(c) /\ Exact(c, z)
<1>1. PICK op, offset, len, out, buf :
        op = c.op /\ offset = c.offset /\ len = c.len /\ out = c.out /\ buf = c.buf
  OBVIOUS
<1>2. /\ op \in {"read", "write"} /\ offset \in Nat /\ len \in Nat /\ m \in Nat /\ m <= len
      /\ \A k \in 0 .. m - 1 : offset + k \in Span("ram")
  BY <1>1 DEF RamDone
<1>3. /\ c.dev = "ram" /\ c.op = op /\ c.id = calls + 1 /\ c.offset = offset /\ c.len = len
      /\ c.lba = offset \div SectorSize /\ c.off = offset % SectorSize /\ c.done = m
      /\ c.out = out /\ c.buf = buf /\ c.sector = op /\ c.pc = "idle"
      /\ DOMAIN c = {"dev", "op", "id", "offset", "len", "lba", "off", "done", "out", "buf",
                     "attempt", "sector", "pc", "lost", "before"}
  BY <1>1 DEF RamDone
<1>4. out = IF op = "write" THEN <<>> ELSE [i \in 1 .. m |-> store.ram[offset + i - 1]]
  BY <1>1 DEF RamDone
<1>5. buf = [i \in Places |-> 0] /\ \A a \in Span("ram") : store.ram[a] \in c.before[a]
  BY <1>1 DEF RamDone
<1>6. /\ z.ram = IF op = "read" THEN store.ram ELSE
               [a \in Span("ram") |-> IF a \in offset .. (offset + m - 1)
                                      THEN Data(calls + 1, a - offset) ELSE store.ram[a]]
      /\ z.ata = store.ata /\ z = [ata |-> z.ata, ram |-> z.ram]
  BY <1>1 DEF RamDone
<1>7. offset \div SectorSize \in Nat /\ offset % SectorSize \in Places
  BY Zenon, <1>2, Sizes, DivMod DEF Places
<1>8. buf \in Buffers
  BY <1>5 DEF Buffers
<1>9. store.ram \in [Span("ram") -> Nat] /\ store.ata \in [Span("ata") -> Nat]
      /\ DOMAIN store = {"ata", "ram"}
  BY DEF StoreOK
<1>10. StoreOK(z)
  <2>1. ASSUME NEW a \in Span("ram"), a \in offset .. (offset + m - 1)
        PROVE Data(calls + 1, a - offset) \in Nat
    <3>1. a - offset \in Nat /\ calls + 1 \in Nat
      BY <1>2, <2>1
    <3> QED BY Zenon, <3>1, DataNat
  <2>2. z.ram \in [Span("ram") -> Nat]
    BY <1>9, <1>6, <2>1
  <2> QED BY <1>9, <1>6, <2>2 DEF StoreOK
<1>11. out \in Seq(Nat) /\ (op = "read" => Len(out) = m)
  <2>1. CASE op = "write"
    BY <1>4, <2>1
  <2>2. CASE op = "read"
    <3>1. ASSUME NEW i \in 1 .. m PROVE store.ram[offset + i - 1] \in Nat
      <4>1. i - 1 \in 0 .. m - 1 /\ offset + (i - 1) = offset + i - 1
        BY <1>2
      <4>2. offset + i - 1 \in Span("ram")
        BY <1>2, <4>1
      <4> QED BY <1>9, <4>2
    <3>2. out = [i \in 1 .. m |-> store.ram[offset + i - 1]]
      BY <1>4, <2>2
    <3>3. out \in [1 .. m -> Nat]
      BY <3>1, <3>2
    <3>4. \A f \in [1 .. m -> Nat] : f \in Seq(Nat) /\ Len(f) = m
      BY <1>2
    <3> QED BY <3>3, <3>4, Zenon
  <2> QED BY <1>2, <2>1, <2>2
<1>12. CallOK(c)
  BY <1>2, <1>3, <1>7, <1>8, <1>11 DEF CallOK
<1>13. ASSUME NEW a \in Span("ram") PROVE Allowed(c, a, z.ram[a])
  <2>1. store.ram[a] \in c.before[a]
    BY <1>5
  <2>2. CASE z.ram[a] = store.ram[a]
    BY <2>1, <2>2 DEF Allowed
  <2>3. CASE z.ram[a] # store.ram[a]
    <3>1. op = "write" /\ a \in offset .. (offset + m - 1) /\ z.ram[a] = Data(calls + 1, a - offset)
      BY <1>2, <1>6, <2>3
    <3>2. a \in offset .. (offset + len - 1)
      BY <1>2, <3>1
    <3> QED BY <1>3, <3>1, <3>2 DEF Allowed
  <2> QED BY <2>2, <2>3
<1>14. ASSUME op = "write", NEW k \in 0 .. m - 1 PROVE z.ram[offset + k] = Data(calls + 1, k)
  <2>1. offset + k \in Span("ram") /\ offset + k \in offset .. (offset + m - 1)
        /\ (offset + k) - offset = k
    BY <1>2
  <2> QED BY <1>6, <1>14, <2>1
<1>15. op = "read" => \A k \in 1 .. m : out[k] = z.ram[offset + k - 1]
  BY <1>2, <1>4, <1>6
<1>16. Exact(c, z)
  BY <1>2, <1>3, <1>11, <1>13, <1>14, <1>15 DEF Exact
<1> QED BY <1>10, <1>12, <1>16

\* What RamCall does with the call and with the bytes.
RamNew(op, offset, len, m) ==
  [NewCall("ram", op, offset, len) EXCEPT !.done = m,
     !.out = IF op = "write" THEN <<>> ELSE [i \in 1 .. m |-> store.ram[offset + i - 1]]]
RamStore(op, offset, m) ==
  [store EXCEPT !.ram = IF op = "read" THEN @ ELSE
     [a \in DOMAIN @ |-> IF a \in offset .. (offset + m - 1)
                         THEN Data(calls + 1, a - offset) ELSE @[a]]]

\* A call of the RAM disk.
LEMMA RamCallOK ==
  ASSUME StoreOK(store), calls \in Nat, NEW c, NEW z,
         NEW op \in {"read", "write"}, NEW offset \in Nat, NEW len \in Nat, NEW m, m = OnRam(offset, len),
         c = RamNew(op, offset, len, m), z = RamStore(op, offset, m)
  PROVE  StoreOK(z) /\ z.ata = store.ata /\ CallOK(c) /\ c.dev = "ram" /\ c.pc = "idle" /\ Exact(c, z)
<1>1. m \in Nat /\ m <= len /\ \A k \in 0 .. m - 1 : offset + k \in Span("ram")
  BY OnRamFacts DEF Span
<1>2. /\ DOMAIN store.ram = Span("ram") /\ DOMAIN store = {"ata", "ram"}
  BY DEF StoreOK
<1>3. /\ c.dev = "ram" /\ c.op = op /\ c.id = calls + 1 /\ c.offset = offset /\ c.len = len
      /\ c.lba = offset \div SectorSize /\ c.off = offset % SectorSize /\ c.done = m
      /\ c.out = IF op = "write" THEN <<>> ELSE [i \in 1 .. m |-> store.ram[offset + i - 1]]
      /\ c.buf = [i \in Places |-> 0] /\ c.sector = op /\ c.pc = "idle"
      /\ c.before = [a \in DOMAIN store.ram |-> {store.ram[a]} \cup StillToCome("ram", a)]
      /\ DOMAIN c = {"dev", "op", "id", "offset", "len", "lba", "off", "done", "out", "buf",
                     "attempt", "sector", "pc", "lost", "before"}
  BY DEF RamNew, NewCall, Places
<1>4. \A a \in Span("ram") : store.ram[a] \in c.before[a]
  BY <1>2, <1>3
<1>5. /\ z.ram = IF op = "read" THEN store.ram ELSE
                 [a \in Span("ram") |-> IF a \in offset .. (offset + m - 1)
                                        THEN Data(calls + 1, a - offset) ELSE store.ram[a]]
      /\ z.ata = store.ata /\ z = [ata |-> z.ata, ram |-> z.ram]
  BY <1>2 DEF RamStore, StoreOK
<1>6. RamDone(c, z, m)
  BY Zenon, <1>1, <1>3, <1>4, <1>5 DEF RamDone
<1>7. StoreOK(z) /\ CallOK(c) /\ Exact(c, z)
  BY <1>6, RamDoneOK
<1> QED BY <1>3, <1>5, <1>7
-----------------------------------------------------------------------------
\* No call was made.
LEMMA InitTransfers == BlockInit => TransferInv
<1> SUFFICES ASSUME BlockInit PROVE TransferInv
  OBVIOUS
<1>1. sectors \in Nat /\ calls \in Nat
  BY BlockLimits DEF BlockInit
<1>2. DriveOK(drive) /\ drive.stage = "none"
  BY DEF BlockInit, DriveOK, Quiet
<1>3. StoreOK(store)
  <2>1. ASSUME NEW m \in Nat PROVE Fresh(m) \in [0 .. m - 1 -> Nat]
    BY DEF Fresh
  <2>2. sectors * SectorSize \in Nat /\ RamBytes \in Nat
    BY <1>1, Sizes
  <2>3. Fresh(sectors * SectorSize) \in [Span("ata") -> Nat] /\ Fresh(RamBytes) \in [Span("ram") -> Nat]
    BY <2>1, <2>2 DEF Span
  <2> QED BY <2>3 DEF BlockInit, StoreOK
<1>4. call = NoCall
  BY DEF BlockInit
<1> QED BY <1>1, <1>2, <1>3, <1>4 DEF TransferInv, Sound

\* Every step keeps the number of sectors, so sound values are sound in the next
\* state.
LEMMA SoundNext ==
  ASSUME TransferInv, sectors' = sectors, calls' \in Nat,
         NEW c, NEW d, NEW s, c = call', d = drive', s = store', Addressable => Sound(c, d, s)
  PROVE  TransferInv'
<1>1. Addressable' <=> Addressable
  BY DEF Addressable
<1>2. StoreOK(s) => StoreOK(store)'
  BY DEF StoreOK, Span
<1>3. DriveOK(d) => DriveOK(drive)'
  BY DEF DriveOK
<1>4. CallOK(c) => CallOK(call)'
  BY DEF CallOK
<1>5. OnCourse(c) => OnCourse(call)'
  BY DEF OnCourse
<1>6. Underway(c) => Underway(call)'
  BY DEF Underway
<1>7. Working(c, d, s) => Working(call, drive, store)'
  BY Zenon DEF Working
<1>8. Exact(c, s) => Exact(call, store)'
  BY Zenon DEF Exact, Span
<1>9. AtaOK(c, d, s) => AtaOK(call, drive, store)'
  BY <1>4, <1>5, <1>6, <1>7, <1>8 DEF AtaOK
<1> QED BY <1>1, <1>2, <1>3, <1>4, <1>8, <1>9 DEF TransferInv, Sound, Addressable

\* The invariant implies what is promised of a transfer.
LEMMA TransfersAreExact == TransferInv => TransfersExact
<1> SUFFICES ASSUME TransferInv, Addressable PROVE TransfersExact
  BY DEF TransfersExact, OnlyRequestedBytes, WrittenIsStored, ReadIsStored
<1>1. CASE call = NoCall
  BY <1>1 DEF TransfersExact, OnlyRequestedBytes, WrittenIsStored, ReadIsStored, Returned, NoCall
<1>2. CASE call # NoCall
  <2>1. Exact(call, store) /\ CallOK(call) /\ StoreOK(store)
    BY <1>2 DEF TransferInv, Sound, AtaOK
  <2>2. DOMAIN store[call.dev] = Span(call.dev)
    BY <2>1 DEF CallOK, StoreOK
  <2>3. OnlyRequestedBytes
    BY Zenon, <2>1, <2>2 DEF OnlyRequestedBytes, Exact, Allowed
  <2>4. WrittenIsStored
    BY <2>1 DEF WrittenIsStored, Exact, Returned
  <2>5. ReadIsStored
    BY <2>1 DEF ReadIsStored, Exact, Returned
  <2> QED BY <2>3, <2>4, <2>5 DEF TransfersExact
<1> QED BY <1>1, <1>2

\* The driver keeps the invariant.
LEMMA DriverTransfers ==
  ASSUME TransferInv, DriverStep
  PROVE  TransferInv'
<1>1. PICK c, d, s : c = call' /\ d = drive' /\ s = store'
  OBVIOUS
<1>2. sectors' = sectors /\ calls' = calls /\ s = store
  BY <1>1 DEF DriverStep
<1>3. ASSUME Addressable PROVE calls \in Nat /\ Sound(c, d, s)
  <2>1. sectors \in Nat /\ calls \in Nat /\ StoreOK(store) /\ DriveOK(drive)
    BY <1>3 DEF TransferInv, Sound
  <2>2. call.pc # "idle"
    BY DEF DriverStep, IssueCommand, NotReady, CheckStatus, NoTransfer, Transfer, Settle
  <2>3. AtaOK(call, drive, store)
    BY <1>3, <2>2 DEF TransferInv, Sound, NoCall
  <2>4. AtaOK(Retry(call), drive, store) /\ AtaOK(SectorFailed(call), drive, store)
    BY <2>2, <2>3, RetryOK
  <2> SUFFICES AtaOK(c, d, store) /\ DriveOK(d)
    BY <1>2, <2>1 DEF Sound
  <2>5. CASE IssueCommand
    <3>1. /\ call.pc = "ready" /\ drive.st # "busy" /\ drive.st # "gone"
          /\ c = Issued(call)
      BY <1>1, <2>5 DEF IssueCommand, Issued, Busy
    <3>2. (d = drive /\ drive.st = "drq") \/ d = Command(call)
      BY <1>1, <2>5, <3>1 DEF IssueCommand, Commanded, Command
    <3> QED BY <1>3, <2>1, <2>3, <3>1, <3>2, IssueCommandOK
  <2>6. CASE NotReady
    BY <1>1, <2>1, <2>4, <2>6 DEF NotReady
  <2>7. CASE CheckStatus
    <3>1. d = drive /\ call.pc = "status"
      BY <1>1, <2>7 DEF CheckStatus
    <3>2. c = SectorFailed(call) \/ c = Retry(call) \/ c = [call EXCEPT !.pc = "drq"]
      BY <1>1, <2>7 DEF CheckStatus
    <3>3. c = [call EXCEPT !.pc = "drq"] => AtaOK(c, drive, store)
      BY <2>3, <3>1, StatusOK
    <3> QED BY <2>1, <2>4, <3>1, <3>2, <3>3
  <2>8. CASE NoTransfer
    BY <1>1, <2>1, <2>4, <2>8 DEF NoTransfer
  <2>9. CASE Transfer
    <3>1. call.pc = "drq" /\ drive.st = "drq"
      BY <2>9 DEF Transfer
    <3>2. CASE call.sector = "read"
      <4>1. c = SectorDone([call EXCEPT !.buf = drive.data]) /\ d = Quiet
        BY <1>1, <2>9, <3>2 DEF Transfer
      <4>2. AtaOK(SectorDone([call EXCEPT !.buf = drive.data]), Quiet, store)
        BY <2>1, <2>3, <3>1, <3>2, TransferReadOK
      <4>3. DriveOK(Quiet)
        BY DEF DriveOK, Quiet
      <4> QED BY <4>1, <4>2, <4>3
    <3>3. CASE call.sector = "write"
      <4>1. c = Settling(call) /\ d = Sent(drive, call.buf)
        BY <1>1, <2>9, <3>3 DEF Transfer, Settling, Sent
      <4> QED BY <2>1, <2>3, <3>1, <3>3, <4>1, TransferWriteOK
    <3> QED BY <2>9, <3>2, <3>3 DEF Transfer
  <2>10. CASE Settle
    <3>1. d = drive /\ call.pc = "settle"
      BY <1>1, <2>10 DEF Settle
    <3>2. CASE drive.st = "busy" \/ drive.st = "gone"
      <4>1. c = Retry(call)
        BY <1>1, <2>10, <3>2 DEF Settle, Busy
      <4> QED BY <2>1, <2>4, <3>1, <4>1
    <3>3. CASE ~(drive.st = "busy" \/ drive.st = "gone")
      <4>1. c = SectorDone(call)
        BY <1>1, <2>10, <3>3 DEF Settle, Busy
      <4>2. AtaOK(SectorDone(call), drive, store)
        BY <2>1, <2>3, <3>1, <3>3, SettledOK
      <4> QED BY <2>1, <3>1, <4>1, <4>2
    <3> QED BY <3>2, <3>3
  <2> QED BY <2>5, <2>6, <2>7, <2>8, <2>9, <2>10 DEF DriverStep
<1>4. CASE Addressable
  <2>1. calls' \in Nat /\ Sound(c, d, s)
    BY <1>2, <1>3, <1>4
  <2> QED BY <1>1, <1>2, <2>1, SoundNext
<1>5. CASE ~Addressable
  BY <1>2, <1>5 DEF TransferInv, Sound, Addressable
<1> QED BY <1>4, <1>5

\* The drive keeps it, whenever it takes its steps.
LEMMA DriveTransfers ==
  ASSUME TransferInv, DriveStarts \/ DriveStores \/ DriveFails \/ DriveGone
  PROVE  TransferInv'
<1>1. PICK c, d, s : c = call' /\ d = drive' /\ s = store'
  OBVIOUS
<1>2. sectors' = sectors /\ calls' = calls
  BY DEF DriveStarts, DriveStores, DriveFails, DriveGone
<1>3. ASSUME Addressable PROVE calls \in Nat /\ Sound(c, d, s)
  <2>1. sectors \in Nat /\ calls \in Nat /\ StoreOK(store) /\ DriveOK(drive)
    BY <1>3 DEF TransferInv, Sound
  <2>2. \/ call = NoCall /\ drive.stage = "none"
        \/ AtaOK(call, drive, store)
        \/ CallOK(call) /\ call.dev = "ram" /\ call.pc = "idle" /\ Exact(call, store)
    BY <1>3 DEF TransferInv, Sound
  <2>3. CASE DriveStarts
    <3>1. /\ drive.st = "busy" /\ drive.stage = "start" /\ c = call /\ s = store
          /\ d = [drive EXCEPT !.st = "drq", !.data = IF drive.cmd = "read"
                                   THEN Sector(store.ata, drive.lba) ELSE <<>>]
      BY <1>1, <2>3 DEF DriveStarts, Busy
    <3>2. DriveOK(d) /\ (AtaOK(call, drive, store) => AtaOK(call, d, store))
      BY Zenon, <2>1, <3>1, StartsOK
    <3> QED BY <2>1, <2>2, <3>1, <3>2 DEF Sound
  <2>4. CASE DriveStores
    <3>1. /\ drive.st = "busy" /\ drive.stage = "store" /\ c = call /\ d = Quiet
          /\ s = [store EXCEPT !.ata = [a \in DOMAIN @ |-> IF a \div SectorSize = drive.lba
                                         THEN drive.data[a % SectorSize] ELSE @[a]]]
      BY <1>1, <2>4 DEF DriveStores, Busy
    <3>2. /\ StoreOK(s) /\ s.ram = store.ram
          /\ AtaOK(call, drive, store) => AtaOK(call, Quiet, s)
      BY <2>1, <3>1, StoresOK
    <3>3. DriveOK(Quiet)
      BY DEF DriveOK, Quiet
    <3>4. call.dev = "ram" /\ Exact(call, store) => Exact(call, s)
      BY Zenon, <3>2 DEF Exact
    <3> QED BY <2>1, <2>2, <3>1, <3>2, <3>3, <3>4 DEF Sound
  <2>5. CASE DriveFails
    <3>1. /\ drive.st = "busy" /\ s = store /\ d = [Quiet EXCEPT !.st = "err"]
          /\ c = IF drive.stage = "store"
                 THEN [call EXCEPT !.lost = @ \cup {drive.lba}] ELSE call
      BY <1>1, <2>5 DEF DriveFails, Busy
    <3>2. DriveOK(d) /\ d.stage = "none" /\ d.st # "drq"
      BY <3>1 DEF DriveOK, Quiet
    <3>3. drive.stage # "none"
      BY <2>1, <3>1 DEF DriveOK
    <3>4. ASSUME AtaOK(call, drive, store) PROVE AtaOK(c, d, store)
      BY Zenon, <2>1, <3>1, <3>2, <3>4, StopsOK
    <3>5. ASSUME CallOK(call), call.dev = "ram", call.pc = "idle", Exact(call, store)
          PROVE CallOK(c) /\ c.dev = "ram" /\ c.pc = "idle" /\ Exact(c, store)
      <4>1. /\ CallOK(c) /\ Same(c, call) /\ Placed(c, call) /\ c.pc = "idle"
        BY <3>1, <3>5 DEF CallOK, Same, Placed
      <4>2. \A a, v : Allowed(c, a, v) <=> Allowed(call, a, v)
        BY <4>1, AllowedSame
      <4>3. Exact(c, store)
        BY Zenon, <3>5, <4>1, <4>2 DEF Exact, Same, Placed
      <4> QED BY <3>5, <4>1, <4>3 DEF Same
    <3> QED BY <2>1, <2>2, <3>1, <3>2, <3>3, <3>4, <3>5 DEF Sound
  <2>6. CASE DriveGone
    <3>1. s = store /\ c = call /\ d = [Quiet EXCEPT !.st = "gone"]
      BY <1>1, <2>6 DEF DriveGone
    <3>2. DriveOK(d) /\ d.stage = "none" /\ d.st = "gone"
      BY <3>1 DEF DriveOK, Quiet
    <3>3. ASSUME AtaOK(call, drive, store) PROVE AtaOK(c, d, store)
      BY Zenon, <2>1, <3>1, <3>2, <3>3, StopsOK
    <3> QED BY <2>1, <2>2, <3>1, <3>2, <3>3 DEF Sound
  <2> QED BY <2>3, <2>4, <2>5, <2>6
<1>4. CASE Addressable
  <2>1. calls' \in Nat /\ Sound(c, d, s)
    BY <1>2, <1>3, <1>4
  <2> QED BY <1>1, <1>2, <2>1, SoundNext
<1>5. CASE ~Addressable
  BY <1>2, <1>5 DEF TransferInv, Sound, Addressable
<1> QED BY <1>4, <1>5

\* So does a call that begins.
LEMMA CallTransfers ==
  ASSUME TransferInv, NEW op \in {"read", "write"}, NEW r \in Requests,
         AtaCall(op, r[1], r[2]) \/ RamCall(op, r[1], r[2])
  PROVE  TransferInv'
<1>1. PICK c, d, s : c = call' /\ d = drive' /\ s = store'
  OBVIOUS
<1>2. PICK offset, len : offset = r[1] /\ len = r[2]
  OBVIOUS
<1>3. offset \in Nat /\ len \in Nat
  BY <1>2, BlockLimits
<1>4. /\ sectors' = sectors /\ calls' = calls + 1 /\ d = drive /\ ~Abandoned /\ call.pc = "idle"
  BY <1>1 DEF AtaCall, RamCall
<1>5. ASSUME Addressable PROVE calls + 1 \in Nat /\ Sound(c, d, s)
  <2>1. sectors \in Nat /\ calls \in Nat /\ StoreOK(store) /\ DriveOK(drive)
    BY <1>5 DEF TransferInv, Sound
  <2>2. drive.stage # "start"
    BY <1>4, <2>1 DEF Abandoned, DriveOK
  <2>3. CASE AtaCall(op, r[1], r[2])
    <3>1. c = NextSector(NewCall("ata", op, offset, len)) /\ s = store
      BY <1>1, <1>2, <2>3 DEF AtaCall
    <3>2. AtaOK(NextSector(NewCall("ata", op, offset, len)), drive, store)
      BY <1>3, <2>1, <2>2, AtaCallOK
    <3> QED BY <1>4, <2>1, <3>1, <3>2 DEF Sound
  <2>4. CASE RamCall(op, r[1], r[2])
    <3>1. PICK m : m = OnRam(offset, len)
      OBVIOUS
    <3>2. c = RamNew(op, offset, len, m) /\ s = RamStore(op, offset, m)
      BY <1>1, <1>2, <2>4, <3>1 DEF RamCall, OnRam, RamNew, RamStore
    <3>3. StoreOK(s) /\ CallOK(c) /\ c.dev = "ram" /\ c.pc = "idle" /\ Exact(c, s)
      BY <1>3, <2>1, <3>1, <3>2, RamCallOK
    <3> QED BY <1>4, <2>1, <3>3 DEF Sound
  <2> QED BY <2>1, <2>3, <2>4
<1>6. CASE Addressable
  <2>1. calls' \in Nat /\ Sound(c, d, s)
    BY <1>4, <1>5, <1>6
  <2> QED BY <1>1, <1>4, <2>1, SoundNext
<1>7. CASE ~Addressable
  BY <1>4, <1>7 DEF TransferInv, Sound, Addressable
<1> QED BY <1>6, <1>7

\* Nothing changes while nothing is done with the devices.
LEMMA IdleTransfers ==
  ASSUME TransferInv, UNCHANGED <<store, sectors, drive, call, calls>>
  PROVE  TransferInv'
<1>1. PICK c, d, s : c = call' /\ d = drive' /\ s = store'
  OBVIOUS
<1>2. c = call /\ d = drive /\ s = store /\ sectors' = sectors /\ calls' = calls
  BY <1>1
<1>3. CASE Addressable
  <2>1. calls' \in Nat /\ Sound(c, d, s)
    BY <1>2, <1>3 DEF TransferInv
  <2> QED BY <1>1, <1>2, <2>1, SoundNext
<1>4. CASE ~Addressable
  BY <1>2, <1>4 DEF TransferInv, Addressable
<1> QED BY <1>3, <1>4

-----------------------------------------------------------------------------
\* The block devices change by a call, by the driver and by the drive.
BlockNext ==
  \/ \E op \in {"read", "write"}, r \in Requests : AtaCall(op, r[1], r[2]) \/ RamCall(op, r[1], r[2])
  \/ DriverStep
  \/ DriveStarts \/ DriveStores \/ DriveFails \/ DriveGone

BlockSpec == BlockInit /\ [][BlockNext]_blockVars

\* Every step keeps the invariant.
LEMMA NextTransfers == TransferInv /\ [BlockNext]_blockVars => TransferInv'
<1> SUFFICES ASSUME TransferInv, [BlockNext]_blockVars PROVE TransferInv'
  OBVIOUS
<1>1. ASSUME NEW op \in {"read", "write"}, NEW r \in Requests,
             AtaCall(op, r[1], r[2]) \/ RamCall(op, r[1], r[2])
      PROVE  TransferInv'
  BY <1>1, CallTransfers
<1>2. CASE DriverStep
  BY <1>2, DriverTransfers
<1>3. CASE DriveStarts \/ DriveStores \/ DriveFails \/ DriveGone
  BY <1>3, DriveTransfers
<1>4. CASE UNCHANGED blockVars
  BY <1>4, IdleTransfers DEF blockVars
<1> QED BY <1>1, <1>2, <1>3, <1>4 DEF BlockNext

\* Whatever the drive does and when, and however large a sector and the disk are: a
\* call changes no byte outside its request, what it reports as written is stored
\* or was lost by the drive, and what it returns is what is stored.
THEOREM TransfersAlwaysExact == BlockSpec => []TransfersExact
<1>1. BlockInit => TransferInv
  BY InitTransfers
<1>2. TransferInv /\ [BlockNext]_blockVars => TransferInv'
  BY NextTransfers
<1>3. TransferInv => TransfersExact
  BY TransfersAreExact
<1> QED BY <1>1, <1>2, <1>3, PTL DEF BlockSpec
=============================================================================
