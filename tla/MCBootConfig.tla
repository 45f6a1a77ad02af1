---------------------------- MODULE MCBootConfig ----------------------------
(***************************************************************************)
(* Small instances of BootConfig for TLC.                                  *)
(***************************************************************************)
EXTENDS BootConfig

BothKeys == {"androidboot.mode", "MODE"}
ModeKey == {"MODE"}

\* Variables first, then the kernel with its command line, then the initrd.
ThreeLines ==
    [i \in Items |-> IF i \in {"SLOT=", "MODE"} THEN 1 ELSE IF i = "initrd" THEN 3 ELSE 2]
=============================================================================
