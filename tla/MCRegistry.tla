------------------------------ MODULE MCRegistry ------------------------------
(***************************************************************************)
(* Instances of Registry for TLC: the eight directories of start.sh with   *)
(* the levels and function names of their config.txt.  f7 defines a table  *)
(* under the name f1 uses, as the sources did before they were renamed.    *)
(* The sets of directories in which a step fails change with the run.      *)
(***************************************************************************)
EXTENDS Registry

MCQueue == <<"f1", "f2", "f3", "f4", "f5", "f6", "f7", "f8">>
MCSlevel == [d \in Dirs |-> IF d \in {"f1", "f2", "f3", "f7"} THEN 1 ELSE 2]
MCFunction == [d \in Dirs |-> CASE d \in {"f1", "f7"} -> "aes128"
                                [] d \in {"f4", "f8"} -> "aes256"
                                [] OTHER -> d]
MCSymbols == [d \in Dirs |-> CASE d = "f1" -> {"sbox"}
                               [] d = "f7" -> {"sbox", "Rcon"}
                               [] OTHER -> {}]
All   == Dirs
NotF2 == Dirs \ {"f2"}
NotF5 == Dirs \ {"f5"}
NotF6 == Dirs \ {"f6"}
==============================================================================
