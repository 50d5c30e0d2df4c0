---------------------------- MODULE MC_Firmware ----------------------------
(***************************************************************************)
(* Machines of every firmware version, with no, one and two 604s, and      *)
(* PowerBooks with and without a device in the bay.  The versions the code *)
(* lists are the ones with a setprop that keeps only the address.  Sizes   *)
(* below, of and above a cell, and no multiples of it.                     *)
(***************************************************************************)
EXTENDS Firmware

MCMachines ==
    { [ver |-> v, shallow |-> v \in {"1.0.5", "2.0", "2.0.1"}, powerbook |-> b # "none",
       cpus |-> n, bay |-> b] :
        v \in {"1.0.5", "2.0", "2.0.1", "2.4", "OpenFirmware 3", "iMac,1"},
        n \in 0 .. 2, b \in {"none", "empty", "full"} }

MCInitrds == { [base |-> 20, len |-> 3] }
MCFlags == SUBSET (Flags \ {"NW_FULL_DISK"})
=============================================================================
