------------------------------ MODULE Drivers ------------------------------
(***************************************************************************)
(* The devices of a machine from the first call of the boot on: the driver *)
(* hub finds and attaches them, and programs then use the network card and *)
(* the disks it registered, while the card and the drive take steps of     *)
(* their own.                                                              *)
(***************************************************************************)
EXTENDS DriverHub, BlockDevices

CONSTANT
    Machines    \* the machines booted, each with the work it is given

VARIABLE work   \* what the programs use: nothing, the network or the disks

vars == <<netVars, hubVars, blockVars, work>>

Init ==
    /\ \E m \in Machines :
           /\ config = m.config /\ frames = m.frames
           /\ disks = m.disks /\ work = m.work
    /\ nic = NoNic /\ NetIdle
    /\ hub = EmptyHub /\ boot = "early" /\ cursor = 0 /\ known = 0
    /\ dev = <<>> /\ volumes = <<>>
    /\ BlockInit

Boot == HubNext /\ UNCHANGED <<blockVars, work>>

(* The card works from the moment it is attached; programs only after the  *)
(* boot.                                                                   *)
Network ==
    /\ work = "net"
    /\ \/ boot = "up" /\ (sys_net_send \/ sys_net_recv)
       \/ CardSends
       \/ \E n \in PieceLengths : CardReceives(n)
    /\ UNCHANGED <<hubVars, blockVars, work>>

(* A block device is used through its node in /dev.                        *)
BlockCall ==
    /\ work = "disks" /\ boot = "up"
    /\ \E op \in {"read", "write"}, r \in Requests :
          \/ build_name("ata", 0) \in DOMAIN dev /\ AtaCall(op, r[1], r[2])
          \/ build_name("ram", 0) \in DOMAIN dev /\ RamCall(op, r[1], r[2])
    /\ UNCHANGED <<netVars, hubVars, work>>

BlockDriver == DriverStep /\ UNCHANGED <<netVars, hubVars, work>>

BlockDrive ==
    /\ work = "disks" /\ boot = "up"
    /\ DriveStarts \/ DriveStores \/ DriveFails \/ DriveGone
    /\ UNCHANGED <<netVars, hubVars, work>>

Next ==
    \/ Boot
    \/ Network
    \/ BlockCall
    \/ BlockDriver
    \/ BlockDrive

(* A call of the disk driver goes on until it returns, since nothing       *)
(* suspends it, and a card with packets to send sends them. The drive is   *)
(* not assumed to do anything.                                             *)
Fairness ==
    /\ WF_vars(BlockDriver)
    /\ WF_vars(CardSends /\ UNCHANGED <<hubVars, blockVars, work>>)

Spec == Init /\ [][Next]_vars /\ Fairness

-----------------------------------------------------------------------------
TypeOK ==
    /\ boot \in {"early", "core", "devices", "attach", "ramdisks", "vfs", "up"}
    /\ work \in {"none", "net", "disks"}
    /\ frames \in Nat /\ cursor \in 0..known
    /\ disks.ata \in BOOLEAN /\ disks.ram \in Nat
    /\ Len(hub.list.devices) <= MaxEntries /\ Len(hub.drivers) <= MaxEntries
    /\ hub.list.count = Len(hub.asked)
    /\ nic.present \in BOOLEAN
    /\ nic.present => {nic.rx_cur, nic.tx_cur, nic.rdh, nic.rdt,
                       nic.tdh, nic.tdt} \subseteq Slots
    /\ drive.st \in {"ready", "busy", "drq", "err", "gone"}
    /\ call.pc \in {"idle", "ready", "status", "drq", "settle"}
    /\ calls \in 0..MaxCalls

(* A call of a block device returns, and an accepted packet is sent.       *)
DriversProgress == CallsReturn /\ AcceptedIsSent

(* From scan to volumes: every function is found, listed as long as there  *)
(* is room, bound once, and the network card and the volumes are those of  *)
(* the entries that name them.                                             *)
DevicesBound ==
    /\ TypeOK /\ ScanIsComplete /\ ListKeepsTheFirst
    /\ BoundOnce /\ NetIsItsFunction /\ VolumesAreTheirOwn
=============================================================================
