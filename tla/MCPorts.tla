------------------------------- MODULE MCPorts -------------------------------
(***************************************************************************)
(* Instances of Ports for TLC: starts that register enough backends of a   *)
(* level, one too few for the initial mode of 5544 or of 5545, or none;    *)
(* two calls of synthesize at a time, so that one can find the signal of   *)
(* the other pending.                                                      *)
(***************************************************************************)
EXTENDS Ports

\* The number of backends of level 1 and of level 2.
MCCounts == {<<2, 2>>, <<1, 3>>, <<2, 1>>, <<0, 2>>}
==============================================================================
