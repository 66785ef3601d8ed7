------------------------------ MODULE DriverHub ------------------------------
(***************************************************************************)
(* The driver hub (driver_hub/mod.rs): the list of drivers, the list of    *)
(* devices, the boot stages that fill them, and attach_all, which binds a  *)
(* driver to every PCI function it knows; with what main.rs makes of the   *)
(* list: the nodes of /dev and the volumes.                                *)
(*                                                                         *)
(* The boot runs on one processor, one call after another; attach_all is a *)
(* step for each device it looks at.                                       *)
(***************************************************************************)
EXTENDS E1000, FiniteSetsExt, TLC

CONSTANTS
    MaxEntries,     \* MAX_DRIVERS: the length of either list, 32
    MaxPciNodes     \* MAX_PCI_NODES, 32

ASSUME HubLimits ==
    MaxEntries \in Nat \ {0} /\ MaxPciNodes \in Nat

VARIABLES
    disks,      \* what the machine has: an ATA disk, and RAM disk images
    hub,        \* the lists and counters of the hub, and of pci_devices.rs
    boot,       \* the next call of the boot
    cursor,     \* the next device attach_all looks at
    known,      \* dev_count of attach_all: the devices listed before it
    dev,        \* /dev: the device behind each name
    volumes     \* the entry and the device of each volume mounted

hubVars == <<disks, hub, boot, cursor, known, dev, volumes>>

Name(prefix) == <<prefix, "">>

(* build_name: "pci-block" and 0 make pci-block0.                          *)
build_name(prefix, idx) == <<prefix, ToString(idx)>>

NoOps == <<"none", 0>>

(* An entry of the device list. dev is its operations, driver its          *)
(* driver_name; location, vendor, device and class are zero off the bus.   *)
Platform(name, kind, bus, ops, driver) ==
    [name |-> name, kind |-> kind, bus |-> bus, location |-> 0,
     vendor_id |-> 0, device_id |-> 0, class_code |-> 0,
     ops |-> ops, driver |-> driver]

(* The hub before the boot. asked is kept for the properties: every entry  *)
(* register_device_info was given.                                         *)
EmptyHub ==
    [drivers |-> <<>>, list |-> [count |-> 0, devices |-> <<>>],
     asked |-> <<>>, pci |-> <<>>, nodes |-> 0,
     named |-> [block |-> 0, net |-> 0, display |-> 0]]

(* register_device_info for several entries in turn: the count grows even  *)
(* when the list is full and an entry is dropped.                          *)
Room(list) == IF list.count >= MaxEntries THEN 0 ELSE MaxEntries - list.count

Listed(list, entries) ==
    [count |-> list.count + Len(entries),
     devices |-> list.devices \o SubSeq(entries, 1,
                                        Lesser(Len(entries), Room(list)))]

register_device_info(h, entries) ==
    [h EXCEPT !.list = Listed(@, entries), !.asked = @ \o entries]

(* The entry register_device makes.                                        *)
register_device(name, ops) == Platform(name, "Char", "Unknown", ops, "none")

Driver(name, stage, binds) == [name |-> name, stage |-> stage, binds |-> binds]

(* ensure_registered, which does its work once; binds says that a driver   *)
(* has a probe and an attach function.                                     *)
Registered ==
    <<Driver("serial", "Early", FALSE), Driver("keyboard", "Core", FALSE),
      Driver("pseudo", "Core", FALSE), Driver("pci", "Devices", FALSE),
      Driver("pci-block", "Devices", TRUE), Driver("pci-net", "Devices", TRUE),
      Driver("pci-display", "Devices", TRUE)>>

ensure_registered(h) ==
    IF h.drivers # <<>> THEN h
    ELSE [h EXCEPT !.drivers =
              SubSeq(Registered, 1, Lesser(Len(Registered), MaxEntries))]

init_keyboard_driver ==
    <<Platform(Name("ps2-keyboard"), "Char", "Platform", <<"keyboard", 0>>,
               "keyboard")>>

register_pseudo_devices ==
    <<register_device(Name("null"), <<"null", 0>>),
      register_device(Name("zero"), <<"zero", 0>>),
      register_device(Name("tty"), <<"tty", 0>>)>>

(* The entry pci::init makes of a function it found.                       *)
PciEntry(found) ==
    [name |-> Name("pci-device"), kind |-> kind_for_class(found.class_code),
     bus |-> "Pci",
     location |-> pci_location(found.bus, found.device, found.function),
     vendor_id |-> found.vendor_id, device_id |-> found.device_id,
     class_code |-> found.class_code, ops |-> NoOps, driver |-> "none"]

(* The entries a driver's init function registers; pci::init makes one for *)
(* each function the scan found.                                           *)
InitEntries(name, found) ==
    CASE name = "keyboard" -> init_keyboard_driver
      [] name = "pseudo" -> register_pseudo_devices
      [] name = "pci" -> [i \in DOMAIN found |-> PciEntry(found[i])]
      [] OTHER -> <<>>

(* init_stage: the drivers of the stage in the order they were registered. *)
init_stage(h, stage, found) ==
    LET list == ensure_registered(h).drivers
        entries[n \in 0..Len(list)] ==
            IF n = 0 THEN <<>>
            ELSE entries[n - 1] \o
                 IF list[n].stage = stage THEN InitEntries(list[n].name, found) ELSE <<>>
    IN  register_device_info(ensure_registered(h), entries[Len(list)])

(* ata_pio::init_primary, when identify finds a disk.                      *)
init_primary(h) ==
    register_device_info(h, IF ~disks.ata THEN <<>> ELSE
        <<[Platform(build_name("ata", 0), "Block", "Platform",
                    <<"ata", 0>>, "ata-pio") EXCEPT !.class_code = 1]>>)

probe(name, info) ==
    /\ info.bus = "Pci"
    /\ CASE name = "pci-block" -> info.class_code = 1
         [] name = "pci-net" ->
                /\ info.class_code = 2 /\ info.vendor_id = 32902
                /\ info.device_id \in {4110, 4111}
         [] name = "pci-display" -> info.class_code = 3

(* The drivers whose probe function accepts a device, in list order.       *)
Accepting(h, info) ==
    SelectSeq(h.drivers, LAMBDA d : d.binds /\ probe(d.name, info))

(* register_pci_block, _net and _display with the registration that        *)
(* follows: a number of its class for the name, then one of the MaxPciNodes*)
(* nodes; without a node no entry is made.                                 *)
register_pci(h, class, info) ==
    LET driver == "pci-" \o class
        numbered == [h EXCEPT !.named[class] = @ + 1, !.nodes = @ + 1]
    IN  IF h.nodes >= MaxPciNodes THEN numbered
        ELSE register_device_info(numbered,
                 <<[info EXCEPT !.name = build_name(driver, h.named[class]),
                                !.ops = <<"pci-node", h.nodes>>,
                                !.driver = driver]>>)

NetEntry(info) ==
    [info EXCEPT !.name = build_name("net", 0), !.kind = "Char",
                 !.ops = <<"net", 0>>, !.driver = "e1000"]

(* The attach function of a driver. Only the network driver touches the    *)
(* device; when it cannot use the card the function gets a plain node.     *)
AttachFn(h, name, info) ==
    CASE name = "pci-block" -> register_pci(h, "block", info)
      [] name = "pci-display" -> register_pci(h, "display", info)
      [] name = "pci-net" ->
             IF Attached(Located(info.location))
             THEN register_device_info(h, <<NetEntry(info)>>)
             ELSE register_pci(h, "net", info)

-----------------------------------------------------------------------------
(* The calls of _start that concern devices, in their order.               *)

InitEarly ==
    /\ boot = "early"
    /\ hub' = init_stage(hub, "Early", <<>>)
    /\ boot' = "core"
    /\ UNCHANGED <<netVars, disks, cursor, known, dev, volumes>>

InitCore ==
    /\ boot = "core"
    /\ hub' = init_stage(hub, "Core", <<>>)
    /\ boot' = "devices"
    /\ UNCHANGED <<netVars, disks, cursor, known, dev, volumes>>

(* init_devices up to attach_all, which reads the number of devices once.  *)
(* pci::init keeps the functions it found for sys_pci_list.                *)
InitDevices ==
    /\ boot = "devices"
    /\ \E found \in {scan_all(config)} :
          hub' = [init_primary(init_stage(hub, "Devices", found))
                  EXCEPT !.pci = found]
    /\ known' = hub'.list.count
    /\ cursor' = 0
    /\ boot' = "attach"
    /\ UNCHANGED <<netVars, disks, dev, volumes>>

(* Mutant: the number of devices is read again for each device.            *)
MoreToAttachLive == cursor < hub.list.count

MoreToAttach == cursor < known

(* attach_all looks at a device: the first driver that accepts it attaches *)
(* it, then its name goes into the entry. Entries beyond the list are      *)
(* skipped.                                                                *)
AttachDevice ==
    /\ boot = "attach" /\ MoreToAttach
    /\ cursor' = cursor + 1
    /\ IF cursor >= Len(hub.list.devices)
          \/ Accepting(hub, hub.list.devices[cursor + 1]) = <<>>
       THEN UNCHANGED <<netVars, hub>>
       ELSE LET info == hub.list.devices[cursor + 1]
                name == Accepting(hub, info)[1].name
                after == AttachFn(hub, name, info)
            IN  /\ hub' = [after EXCEPT
                              !.list.devices[cursor + 1].driver = name]
                /\ IF name = "pci-net" THEN attach(Located(info.location))
                   ELSE UNCHANGED netVars
    /\ UNCHANGED <<disks, boot, known, dev, volumes>>

AttachDone ==
    /\ boot = "attach" /\ ~MoreToAttach
    /\ boot' = "ramdisks"
    /\ UNCHANGED <<netVars, disks, hub, cursor, known, dev, volumes>>

RamEntry(i) ==
    Platform(build_name("ram", i), "Block", "Platform", <<"ram", i>>, "ramdisk")

(* register_ramdisks: ram0, ram1, ... for the images among the modules.    *)
RegisterRamdisks ==
    /\ boot = "ramdisks"
    /\ hub' = register_device_info(hub, [i \in 1..disks.ram |-> RamEntry(i - 1)])
    /\ boot' = "vfs"
    /\ UNCHANGED <<netVars, disks, cursor, known, dev, volumes>>

(* create_devices of devtmpfs: the entries that have operations; a name    *)
(* that exists already is left alone.                                      *)
create_devices(h) ==
    LET with == {i \in DOMAIN h.list.devices : h.list.devices[i].ops # NoOps}
        named(n) == {i \in with : h.list.devices[i].name = n}
    IN  [n \in {h.list.devices[i].name : i \in with} |->
            h.list.devices[Min(named(n))].ops]

(* init_vfs: /dev is filled, then every block device of the list gets a    *)
(* volume, mounted from the node of its name if there is one.              *)
BlockEntries(h) == SelectSeq(h.list.devices, LAMBDA e : e.kind = "Block")

init_vfs ==
    /\ boot = "vfs"
    /\ dev' = create_devices(hub)
    /\ volumes' = [i \in DOMAIN BlockEntries(hub) |->
           LET e == BlockEntries(hub)[i]
           IN  [entry |-> e, ops |-> IF e.name \in DOMAIN dev'
                                     THEN dev'[e.name] ELSE NoOps]]
    /\ boot' = "up"
    /\ UNCHANGED <<netVars, disks, hub, cursor, known>>

HubNext ==
    \/ InitEarly
    \/ InitCore
    \/ InitDevices
    \/ AttachDevice
    \/ AttachDone
    \/ RegisterRamdisks
    \/ init_vfs

(* sys_driverhub_devices with room for n entries: the number reported and  *)
(* the entries copied.                                                     *)
fill_device_list(h, n) ==
    LET total == Lesser(n, h.list.count)
    IN  [total |-> total, copied |-> SubSeq(h.list.devices, 1,
                                            Lesser(total, Len(h.list.devices)))]

(* sys_pci_info: the first function of that address.                       *)
device_by_address(h, bus, device, function) ==
    SelectSeq(h.pci, LAMBDA f : /\ f.bus = bus /\ f.device = device
                                /\ f.function = function)

-----------------------------------------------------------------------------
(* The functions the machine shows: function 0 of a device, and the others *)
(* when function 0 is there and has the multi-function bit.                *)
Shown ==
    {a \in DOMAIN config :
        /\ a[1] <= MaxBus /\ a[2] <= MaxDevice /\ a[3] <= MaxFunction
        /\ <<a[1], a[2], 0>> \in DOMAIN config
        /\ a[3] # 0 => config[<<a[1], a[2], 0>>][12][3] >= 128}

(* The scan finds every function the machine shows exactly once, in the    *)
(* order of addresses, and reads the registers of that function; so        *)
(* sys_pci_info has one answer for each address.                           *)
ScanIsComplete ==
    boot \notin {"early", "core", "devices"} =>
        LET at(i) == <<hub.pci[i].bus, hub.pci[i].device, hub.pci[i].function>>
        IN  /\ {at(i) : i \in DOMAIN hub.pci} = Shown
            /\ \A a \in Shown :
                   Len(device_by_address(hub, a[1], a[2], a[3])) = 1
            /\ \A i, j \in DOMAIN hub.pci : i < j =>
                   pci_location(at(i)[1], at(i)[2], at(i)[3]) <
                   pci_location(at(j)[1], at(j)[2], at(j)[3])
            /\ \A i \in DOMAIN hub.pci :
                   LET r == config[at(i)]
                   IN  /\ hub.pci[i].vendor_id = r[0][1] + 256 * r[0][2]
                       /\ hub.pci[i].device_id = r[0][3] + 256 * r[0][4]
                       /\ hub.pci[i].class_code = r[8][4]

SameBut(e, f) == [e EXCEPT !.driver = f.driver] = f

(* The list holds the first entries it was asked to take, in that order,   *)
(* whoever asked, and the count tells how many were dropped: a caller that *)
(* asks for the whole list is told of entries it does not get.             *)
ListKeepsTheFirst ==
    /\ Len(hub.list.devices) = Lesser(Len(hub.asked), MaxEntries)
    /\ \A i \in DOMAIN hub.list.devices :
           SameBut(hub.asked[i], hub.list.devices[i])
    /\ LET all == fill_device_list(hub, hub.list.count)
       IN  all.total - Len(all.copied) = Len(hub.asked) - Len(hub.list.devices)

(* The functions attach_all has gone past.                                 *)
Passed == {i \in DOMAIN hub.list.devices :
              boot \in {"attach", "ramdisks", "vfs", "up"} /\ i <= cursor}

(* What was registered for the function of entry i after attach_all began. *)
Twins(i) ==
    {j \in (known + 1)..Len(hub.asked) :
        /\ hub.asked[j].bus = "Pci" /\ hub.list.devices[i].bus = "Pci"
        /\ hub.asked[j].location = hub.list.devices[i].location}

(* Every device that was listed before attach_all is bound to the first    *)
(* driver that accepts it and to no other, and its attach function has run *)
(* once: the entries that attach functions add are not probed again,       *)
(* although they are PCI devices of a class the same driver accepts.       *)
BoundOnce ==
    \A i \in Passed :
        LET drivers == Accepting(hub, hub.list.devices[i])
        IN  i <= known =>
            /\ drivers # <<>> => hub.list.devices[i].driver = drivers[1].name
            /\ IF drivers = <<>> THEN Twins(i) = {}
               ELSE \/ \E j \in (known + 1)..Len(hub.asked) : Twins(i) = {j}
                    \/ Twins(i) = {} /\ hub.nodes > MaxPciNodes

(* The card behind net0 is one that a net0 entry names, the last one when  *)
(* there are several, and it may use memory: attach was given the address  *)
(* of the function the entry was made from. A failed attachment leaves an  *)
(* earlier card in place.                                                  *)
NetIsItsFunction ==
    LET entries == {i \in DOMAIN hub.asked : hub.asked[i].ops = <<"net", 0>>}
    IN  /\ nic.present <=> entries # {}
        /\ nic.present =>
               LET last == CHOOSE i \in entries : \A j \in entries : j <= i
                   at == CHOOSE a \in Shown : hub.asked[last].location =
                                              pci_location(a[1], a[2], a[3])
                   r == config[at]
               IN  /\ nic.base = [r[16] EXCEPT ![1] = @ - (@ % 16)]
                   /\ (r[4][1] \div 2) % 4 = 3

(* A volume is mounted from the device of its own entry, or from none when *)
(* the entry has no operations: no two block devices share a name in /dev. *)
VolumesAreTheirOwn ==
    \A i \in DOMAIN volumes : volumes[i].ops = volumes[i].entry.ops
=============================================================================
