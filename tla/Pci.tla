-------------------------------- MODULE Pci --------------------------------
(***************************************************************************)
(* PCI configuration space as pci.rs reaches it through the address and    *)
(* data ports, and the scan that finds the functions of a machine.         *)
(*                                                                         *)
(* A machine's configuration space is a function from addresses            *)
(* <<bus, device, function>> to registers, and the registers are a         *)
(* function from the offset of a double word to its four bytes, so that    *)
(* the shifts of the 8- and 16-bit accesses are modelled as they are.      *)
(***************************************************************************)
EXTENDS Integers, Sequences

CONSTANTS
    MaxBus,         \* the last bus scanned: 255 in the code
    MaxDevice,      \* the last device of a bus: 31 in the code
    MaxFunction     \* the last function of a device: 7 in the code

ASSUME PciLimits ==
    MaxBus \in 0..255 /\ MaxDevice \in 0..31 /\ MaxFunction \in 0..7

VendorNone == 65535

(* The word written to the address port. ENABLE_BIT, which every address   *)
(* has set, is left out.                                                   *)
pci_address(bus, device, function, offset) ==
    bus * 2^16 + device * 2^11 + function * 2^8 + (offset - (offset % 4))

(* What the data port then shows: the double word of the function the host *)
(* bridge decodes from the address, all ones when there is none.           *)
DataPort(config, address) ==
    LET at == <<(address \div 2^16) % 256, (address \div 2^11) % 32,
                (address \div 2^8) % 8>>
        offset == address % 256
    IN  IF at \in DOMAIN config /\ offset \in DOMAIN config[at]
        THEN config[at][offset] ELSE <<255, 255, 255, 255>>

read_config_u32(config, bus, device, function, offset) ==
    DataPort(config, pci_address(bus, device, function, offset))

read_config_u16(config, bus, device, function, offset) ==
    LET value == read_config_u32(config, bus, device, function, offset)
        at == offset % 4
    IN  value[at + 1] + 256 * value[at + 2]

read_config_u8(config, bus, device, function, offset) ==
    read_config_u32(config, bus, device, function, offset)[(offset % 4) + 1]

(* The command register is in the low half of the double word at 4. The    *)
(* high half is the status register, whose bits a one clears: writing back *)
(* what was read clears every bit that was set.                            *)
StatusCleared(registers, value) ==
    [registers EXCEPT ![4] = <<value[1], value[2], 0, 0>>]

(* write_config_u16, which the code uses for the command register only: a  *)
(* read and a write of the whole double word.                              *)
write_config_u16(config, bus, device, function, value) ==
    LET reg == read_config_u32(config, bus, device, function, 4)
    IN  [config EXCEPT ![<<bus, device, function>>] =
            StatusCleared(@, <<value % 256, value \div 256, reg[3], reg[4]>>)]

WithBit(value, bit) == IF (value \div bit) % 2 = 1 THEN value ELSE value + bit

(* Bits 1 (memory space) and 2 (bus master) of the command register.       *)
enable_bus_master(config, bus, device, function) ==
    LET cmd == read_config_u16(config, bus, device, function, 4)
        new == WithBit(WithBit(cmd, 4), 2)
    IN  IF new # cmd THEN write_config_u16(config, bus, device, function, new)
        ELSE config

(* Base address register 0 is a double word; what the driver asks of it is *)
(* whether it is zero and whether bit 0 says I/O space.                    *)
read_bar0(config, bus, device, function) ==
    read_config_u32(config, bus, device, function, 16)

(* The fields of a function that later code tells apart: prog_if, subclass,*)
(* the subsystem and the interrupt are read and carried along in the same  *)
(* way and are left out.                                                   *)
scan_function(config, bus, device, function) ==
    [bus |-> bus, device |-> device, function |-> function,
     vendor_id |-> read_config_u16(config, bus, device, function, 0),
     device_id |-> read_config_u16(config, bus, device, function, 2),
     class_code |-> read_config_u8(config, bus, device, function, 11)]

Answers(config, bus, device, function) ==
    read_config_u16(config, bus, device, function, 0) # VendorNone

(* The functions scan_device asks for: none when function 0 does not       *)
(* answer, and only function 0 without the multi-function bit.             *)
scan_device(config, bus, device) ==
    CASE ~Answers(config, bus, device, 0) -> {}
      [] read_config_u8(config, bus, device, 0, 14) < 128 -> {0}
      [] OTHER -> 0..MaxFunction

(* scan_bus for every bus, present or not: all addresses, in order.        *)
Addresses ==
    LET functions == MaxFunction + 1
        devices == MaxDevice + 1
    IN  [i \in 1..((MaxBus + 1) * devices * functions) |->
            <<(i - 1) \div (devices * functions),
              ((i - 1) \div functions) % devices, (i - 1) % functions>>]

(* The functions found, in the order of the scan.                          *)
scan_all(config) ==
    LET found == SelectSeq(Addresses, LAMBDA a :
                     /\ a[3] \in scan_device(config, a[1], a[2])
                     /\ Answers(config, a[1], a[2], a[3]))
    IN  [i \in DOMAIN found |->
            scan_function(config, found[i][1], found[i][2], found[i][3])]

(* The location kept in a device's information: one byte each for bus,     *)
(* device and function, unlike the address port's packing.                 *)
pci_location(bus, device, function) ==
    bus * 2^16 + device * 2^8 + function

(* The three bytes of a location, as attach_pci_net takes them out.        *)
Located(location) ==
    <<(location \div 2^16) % 256, (location \div 2^8) % 256, location % 256>>

kind_for_class(class) ==
    CASE class = 1 -> "Block" [] class = 2 -> "Net" [] class = 3 -> "Display"
      [] OTHER -> "Misc"
=============================================================================
