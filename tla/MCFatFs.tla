-------------------------------- MODULE MCFatFs --------------------------------
(* FatFs on a disk of four clusters of three units: the root and three more,  *)
(* so that a directory outgrows its cluster and the disk runs full within     *)
(* three calls.  "a" and "A" are the same name to the file system.            *)
EXTENDS FatFs

MCUpper == [n \in Names |-> IF n = "a" THEN "A" ELSE n]
MCExtents == {<<0, 2>>, <<2, 2>>, <<4, 1>>}
================================================================================
