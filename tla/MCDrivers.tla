----------------------------- MODULE MCDrivers -----------------------------
(***************************************************************************)
(* Machines to boot. For the boot itself: two buses, two devices of two    *)
(* functions each, every mix of a few functions at four of the addresses,  *)
(* with lists small enough to overflow. For the work after the boot: one   *)
(* machine with a network card and one with two disks.                     *)
(***************************************************************************)
EXTENDS Drivers

Function(vendor, device, class, bar, cmd, header) ==
    (0 :> vendor \o device) @@ (4 :> <<cmd, 0, 16, 32>>) @@
    (8 :> <<1, 0, 0, class>>) @@ (12 :> <<0, 0, header, 0>>) @@ (16 :> bar)

Intel == <<134, 128>>
NoBar == <<0, 0, 0, 0>>

Kinds == {"absent", "ide", "nic", "odd", "other", "vga"}

(* n tells the functions of a machine apart, in the base address.          *)
Card(kind, n, header) ==
    CASE kind = "ide" -> Function(Intel, <<16, 112>>, 1, NoBar, 7, header)
      [] kind = "nic" -> Function(Intel, <<14, 16>>, 2, <<8, n, 0, 240>>, 3, header)
      [] kind = "odd" -> Function(Intel, <<15, 16>>, 2,
                                  IF n = 1 THEN NoBar ELSE <<1, n, 0, 0>>, 0, header)
      [] kind = "other" -> Function(<<236, 16>>, <<57, 129>>, 2, <<0, n, 0, 224>>, 7, header)
      [] kind = "vga" -> Function(<<52, 18>>, <<17, 17>>, 3, <<8, n, 0, 208>>, 7, header)

Places == <<<<0, 0, 0>>, <<0, 0, 1>>, <<0, 1, 0>>, <<1, 0, 0>>>>

Config(kinds, header) ==
    [a \in {Places[i] : i \in {j \in 1..4 : kinds[j] # "absent"}} |->
        LET i == CHOOSE j \in 1..4 : Places[j] = a IN Card(kinds[i], i, header)]

Machine(kinds, header, n, ata, ram, use) ==
    [config |-> Config(kinds, header), frames |-> n,
     disks |-> [ata |-> ata, ram |-> ram], work |-> use]

MCMachines ==
    {Machine(k, h, 2 * FramesNeeded, TRUE, 2, "none") :
        k \in [1..4 -> Kinds], h \in {0, 128}}
    \cup {Machine(k, 128, FramesNeeded + 1, FALSE, 1, "none") :
        k \in [1..4 -> Kinds]}
    \cup {Machine(<<"nic", "absent", "vga", "absent">>, 0, FramesNeeded,
                  FALSE, 0, "net"),
          Machine(<<"ide", "absent", "absent", "absent">>, 0, 0,
                  TRUE, 1, "disks")}

(* Parts of two sectors with a whole one between them, and the last byte   *)
(* of the disk and what is beyond it.                                      *)
MCRequests == {<<1, 4>>, <<5, 9>>}
=============================================================================
