---------------------------- MODULE BlockDevices ----------------------------
(***************************************************************************)
(* The block devices: the disk on the primary ATA channel (ata_pio.rs) and *)
(* a RAM disk (ramdisk.rs).                                                *)
(*                                                                         *)
(* A call on the ATA disk goes sector by sector, each sector in up to      *)
(* Attempts attempts, and polls a drive that works on its own: the drive's *)
(* steps come between any two of the driver's. The polling loops end after *)
(* 10,000 reads of the status, so a wait is a step that sees the status it *)
(* waits for, or gives up on a drive that is still busy. Both devices hold *)
(* a lock for the whole call, so one call is in progress at a time.        *)
(***************************************************************************)
EXTENDS Integers, Sequences

CONSTANTS
    SectorSize,     \* bytes of a sector: 512
    SectorCounts,   \* the sizes of the disk, in sectors, that are tried
    LbaLimit,       \* sectors the address registers can tell apart: 2^28
    Attempts,       \* attempts at a sector: 3
    RamBytes,       \* bytes of the RAM disk
    Requests,       \* the <<offset, length>> of the calls made
    MaxCalls        \* bound on the number of calls

ASSUME BlockLimits ==
    /\ SectorSize \in Nat \ {0} /\ LbaLimit \in Nat \ {0}
    /\ Attempts \in Nat \ {0}
    /\ SectorCounts \subseteq Nat /\ RamBytes \in Nat /\ MaxCalls \in Nat
    /\ Requests \subseteq Nat \X (Nat \ {0})

VARIABLES
    store,      \* the bytes of the two devices
    sectors,    \* the number of sectors identify reported
    drive,      \* the drive: its status and the command it works on
    call,       \* the call in progress, or the last one
    calls       \* how many calls were begun

blockVars == <<store, sectors, drive, call, calls>>

Quiet == [st |-> "ready", stage |-> "none", cmd |-> "none", lba |-> 0,
          data |-> <<>>]
NoCall == [dev |-> "ata", op |-> "none", pc |-> "idle"]

(* Bytes are numbers: at first each byte is its address; byte k of the     *)
(* data of call n is 100 n + k.                                            *)
Fresh(n) == [a \in 0..(n - 1) |-> a]
Data(n, k) == 100 * n + k

(* identify has found a disk and reported its number of sectors.           *)
BlockInit ==
    /\ sectors \in SectorCounts
    /\ store = [ata |-> Fresh(sectors * SectorSize), ram |-> Fresh(RamBytes)]
    /\ drive = Quiet
    /\ call = NoCall
    /\ calls = 0

Least(m, n) == IF m < n THEN m ELSE n
Sector(bytes, lba) == [i \in 0..(SectorSize - 1) |-> bytes[lba * SectorSize + i]]

-----------------------------------------------------------------------------
(* The drive, which is not this code: it starts on a command, transfers a  *)
(* sector, stores it, reports an error instead, or is gone and answers     *)
(* 0xFF.                                                                   *)

Busy == drive.st = "busy"

DriveStarts ==
    /\ Busy /\ drive.stage = "start"
    /\ drive' = [drive EXCEPT !.st = "drq",
                     !.data = IF drive.cmd = "read"
                              THEN Sector(store.ata, drive.lba) ELSE <<>>]
    /\ UNCHANGED <<store, sectors, call, calls>>

DriveStores ==
    /\ Busy /\ drive.stage = "store"
    /\ store' = [store EXCEPT !.ata =
           [a \in DOMAIN @ |-> IF a \div SectorSize = drive.lba
                               THEN drive.data[a % SectorSize] ELSE @[a]]]
    /\ drive' = Quiet
    /\ UNCHANGED <<sectors, call, calls>>

DriveFails ==
    /\ Busy
    /\ drive' = [Quiet EXCEPT !.st = "err"]
    /\ call' = IF drive.stage = "store"
               THEN [call EXCEPT !.lost = @ \cup {drive.lba}] ELSE call
    /\ UNCHANGED <<store, sectors, calls>>

DriveGone ==
    /\ drive.st # "gone"
    /\ drive' = [Quiet EXCEPT !.st = "gone"]
    /\ UNCHANGED <<store, sectors, call, calls>>

(* A command written while the drive still waits for the transfer of an    *)
(* earlier one is dropped, or replaces it.                                 *)
Commanded(cmd, lba) ==
    LET new == [st |-> "busy", stage |-> "start", cmd |-> cmd,
                lba |-> lba % LbaLimit, data |-> <<>>]
    IN  CASE drive.st = "gone" -> {drive}
          [] drive.st = "drq" -> {drive, new}
          [] OTHER -> {new}

-----------------------------------------------------------------------------
(* The driver. call.pc is where ata_read_sector or ata_write_sector, named *)
(* by call.sector, stands.                                                 *)

Take(c) == Least(c.len - c.done, SectorSize - c.off)
(* Mutant: only the first sector of a write is read before it is written.  *)
PartialHead(c) == c.off # 0

(* A sector of which the request covers only a part.                       *)
Partial(c) == c.off # 0 \/ Take(c) < SectorSize

(* What the loop of read_at or write_at does next: nothing more, or the    *)
(* next sector, which write_at reads first when it replaces part of it.    *)
NextSector(c) ==
    IF c.done = c.len \/ c.lba >= sectors THEN [c EXCEPT !.pc = "idle"]
    ELSE LET reads == c.op = "read" \/ Partial(c)
         IN  [c EXCEPT !.pc = "ready", !.attempt = 1,
                 !.sector = IF reads THEN "read" ELSE "write",
                 !.buf = IF reads THEN @
                         ELSE [i \in 0..(SectorSize - 1) |-> Data(c.id, c.done + i)]]

(* A sector is dealt with: the position moves on.                          *)
Advance(c) ==
    NextSector([c EXCEPT !.done = @ + Take(c), !.lba = @ + 1, !.off = 0])

(* read_at copies its part of the sector read.                             *)
Copied(c) ==
    Advance([c EXCEPT !.out = @ \o [i \in 1..Take(c) |-> c.buf[c.off + i - 1]]])

(* write_at puts its part into the sector read, which is then written.     *)
Merged(c) ==
    [c EXCEPT !.pc = "ready", !.attempt = 1, !.sector = "write",
         !.buf = [i \in 0..(SectorSize - 1) |->
             IF i \in c.off..(c.off + Take(c) - 1)
             THEN Data(c.id, c.done + i - c.off) ELSE @[i]]]

(* ata_read_sector or ata_write_sector has returned true.                  *)
SectorDone(c) ==
    CASE c.op = "read" -> Copied(c)
      [] c.op = "write" /\ c.sector = "read" -> Merged(c)
      [] OTHER -> Advance(c)

(* It has returned false: the call ends with what was done.                *)
SectorFailed(c) == [c EXCEPT !.pc = "idle"]

(* Mutant: attempts are not counted.                                       *)
RetryForever(c) == [c EXCEPT !.pc = "ready"]

(* The next attempt, if there is one left.                                 *)
Retry(c) ==
    IF c.attempt = Attempts THEN SectorFailed(c)
    ELSE [c EXCEPT !.attempt = @ + 1, !.pc = "ready"]

(* wait_not_busy at the head of an attempt, and the command. The device    *)
(* number and the three address registers hold 28 bits of the sector's     *)
(* number.                                                                 *)
IssueCommand ==
    /\ call.pc = "ready" /\ ~Busy /\ drive.st # "gone"
    /\ drive' \in Commanded(call.sector, call.lba)
    /\ call' = [call EXCEPT !.pc = "status", !.lost =
                   IF call.sector = "write" THEN @ \ {call.lba} ELSE @]

(* wait_not_busy gives up.                                                 *)
NotReady ==
    /\ call.pc = "ready" /\ (Busy \/ drive.st = "gone")
    /\ call' = Retry(call)
    /\ UNCHANGED drive

(* The status right after the command: 0xFF ends the call, an error the    *)
(* attempt.                                                                *)
CheckStatus ==
    /\ call.pc = "status"
    /\ call' = CASE drive.st = "gone" -> SectorFailed(call)
                [] drive.st = "err" -> Retry(call)
                [] OTHER -> [call EXCEPT !.pc = "drq"]
    /\ UNCHANGED drive

(* wait_drq fails: an error, no drive, or no transfer in 10,000 polls.     *)
NoTransfer ==
    /\ call.pc = "drq" /\ drive.st # "drq"
    /\ call' = Retry(call)
    /\ UNCHANGED drive

(* wait_drq succeeds, and the sector goes through the data port. After a   *)
(* write the driver waits until the drive is not busy.                     *)
Transfer ==
    /\ call.pc = "drq" /\ drive.st = "drq"
    /\ \/ /\ call.sector = "read"
          /\ call' = SectorDone([call EXCEPT !.buf = drive.data])
          /\ drive' = Quiet
       \/ /\ call.sector = "write"
          /\ call' = [call EXCEPT !.pc = "settle"]
          /\ drive' = [drive EXCEPT !.st = "busy", !.stage = "store",
                                    !.data = call.buf]

(* The last wait of ata_write_sector. It does not look at the error bits:  *)
(* a drive that failed to store the sector is not busy either.             *)
Settle ==
    /\ call.pc = "settle"
    /\ call' = IF Busy \/ drive.st = "gone" THEN Retry(call)
               ELSE SectorDone(call)
    /\ UNCHANGED drive

DriverStep ==
    /\ \/ IssueCommand \/ NotReady \/ CheckStatus
       \/ NoTransfer \/ Transfer \/ Settle
    /\ UNCHANGED <<store, sectors, calls>>

(* The last call gave up on a command that the drive was still working on, *)
(* before its data were transferred. What the drive makes of the next      *)
(* command is then not specified, and no further call is explored.         *)
Abandoned ==
    call.pc = "idle" /\ drive.stage = "start" /\ drive.st \in {"busy", "drq"}

(* A sector that the drive still stores for an earlier write, which has    *)
(* returned without it.                                                    *)
StillToCome(dev, a) ==
    IF dev = "ata" /\ Busy /\ drive.stage = "store"
       /\ a \div SectorSize = drive.lba
    THEN {drive.data[a % SectorSize]} ELSE {}

NewCall(dev, op, offset, len) ==
    [dev |-> dev, op |-> op, id |-> calls + 1, offset |-> offset, len |-> len,
     lba |-> offset \div SectorSize, off |-> offset % SectorSize,
     done |-> 0, out |-> <<>>, buf |-> [i \in 0..(SectorSize - 1) |-> 0],
     attempt |-> 1, sector |-> op, pc |-> "idle", lost |-> {},
     before |-> [a \in DOMAIN store[dev] |->
                     {store[dev][a]} \cup StillToCome(dev, a)]]

(* read_at or write_at of the ATA disk is called.                          *)
AtaCall(op, offset, len) ==
    /\ call.pc = "idle" /\ ~Abandoned /\ calls < MaxCalls
    /\ calls' = calls + 1
    /\ call' = NextSector(NewCall("ata", op, offset, len))
    /\ UNCHANGED <<store, sectors, drive>>

(* read_at or write_at of the RAM disk: the part of the request that is on *)
(* the disk, at once.                                                      *)
RamCall(op, offset, len) ==
    LET n == IF offset >= RamBytes THEN 0 ELSE Least(len, RamBytes - offset)
        new == NewCall("ram", op, offset, len)
    IN  /\ call.pc = "idle" /\ ~Abandoned /\ calls < MaxCalls
        /\ calls' = calls + 1
        /\ call' = [new EXCEPT !.done = n,
                 !.out = IF op = "write" THEN <<>>
                         ELSE [i \in 1..n |-> store.ram[offset + i - 1]]]
        /\ store' = [store EXCEPT !.ram = IF op = "read" THEN @ ELSE
                 [a \in DOMAIN @ |-> IF a \in offset..(offset + n - 1)
                                     THEN Data(calls + 1, a - offset)
                                     ELSE @[a]]]
        /\ UNCHANGED <<sectors, drive>>

-----------------------------------------------------------------------------
(* The disk has no more sectors than the address registers tell apart.     *)
(* identify takes the 48-bit count when there is one, while the commands   *)
(* are the 28-bit ones, so on a larger disk a sector's number wraps.       *)
Addressable == sectors <= LbaLimit

Returned(op) == call.op = op /\ call.pc = "idle"

(* Whatever the drive does and however often a sector is tried again, a    *)
(* call changes no byte outside its request, and a byte inside it is the   *)
(* old one or the new one: the sectors written in part keep the rest. (Old *)
(* includes what an earlier write that gave up has left for the drive.)    *)
OnlyRequestedBytes ==
    (call.op # "none" /\ Addressable) =>
        \A a \in DOMAIN store[call.dev] :
            \/ store[call.dev][a] \in call.before[a]
            \/ /\ call.op = "write"
               /\ a \in call.offset..(call.offset + call.len - 1)
               /\ store[call.dev][a] = Data(call.id, a - call.offset)

(* The bytes write_at reports as written are on the disk when it returns,  *)
(* except in a sector whose storing failed after the drive had accepted    *)
(* it, which Settle does not look at.                                      *)
WrittenIsStored ==
    (Returned("write") /\ Addressable) =>
        \A k \in 0..(call.done - 1) :
            LET a == call.offset + k
            IN  \/ store[call.dev][a] = Data(call.id, k)
                \/ call.dev = "ata" /\ a \div SectorSize \in call.lost

(* The bytes read_at returns, all of the request or fewer, are the ones    *)
(* stored at its offset.                                                   *)
ReadIsStored ==
    (Returned("read") /\ Addressable) =>
        /\ Len(call.out) = call.done
        /\ \A k \in 1..call.done :
               call.out[k] = store[call.dev][call.offset + k - 1]

(* Every call returns: each wait and each sector's attempts are bounded,   *)
(* so not even a drive that hangs keeps the caller.                        *)
CallsReturn == (call.pc # "idle") ~> (call.pc = "idle")

(* A transfer is exact: it changes no byte outside its request, what it    *)
(* reports as written is stored, and what it returns is what is stored.    *)
TransfersExact == OnlyRequestedBytes /\ WrittenIsStored /\ ReadIsStored
=============================================================================
