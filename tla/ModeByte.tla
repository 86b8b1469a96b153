------------------------------- MODULE ModeByte -------------------------------
(***************************************************************************)
(* The byte that selects a backend: two bits of function, two of security  *)
(* level, four of implementation number.  synthesize composes it, the      *)
(* signal handler of the server stores it, fetch takes it apart.           *)
(***************************************************************************)
EXTENDS Integers

\* The fields the server reads.
sbits(y) == (y \div 16) % 4
ibits(y) == y % 16

\* Mutation of Code: the level field counts from level 1.
Code_LevelFromOne(fn, slevel, imp) ==
  (IF fn = "e" THEN 64 ELSE 128) + (slevel - 1) * 16 + imp

\* The byte synthesize sends for backend imp of a level; imp is the number at
\* the end of the backend's name.
Code(fn, slevel, imp) == (IF fn = "e" THEN 64 ELSE 128) + slevel * 16 + imp
==============================================================================
