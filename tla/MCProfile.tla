------------------------------ MODULE MCProfile ------------------------------
(***************************************************************************)
(* Instances of Profile for TLC.  A window of idle has four blocks, the    *)
(* run six and each half of it three, where the program has eight, twelve  *)
(* and six.  300 mW are three times the backend's power and turn the net   *)
(* power negative when they fill one window of idle, 20 mW are above the   *)
(* tolerance and 10 mW below it.                                           *)
(***************************************************************************)
EXTENDS Profile

\* Bursts that begin in any window or between two, short and long.
MCBursts ==
  {<<0, 0, 0>>, <<0, 11, 72000>>, <<3, 8, 4800>>, <<5, 8, 72000>>, <<6, 9, 72000>>,
   <<0, 20, 2400>>, <<9, 12, 72000>>, <<11, 18, 2400>>, <<13, 18, 72000>>,
   <<15, 29, 72000>>, <<21, 24, 72000>>, <<23, 39, 2400>>, <<24, 29, 4800>>}
MCFigures == {<<2, 3>>, <<0, 0>>, <<2, 0>>}
==============================================================================
