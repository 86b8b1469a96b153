------------------------------- MODULE Fips197 -------------------------------
(***************************************************************************)
(* What a backend promises: one encryption of a block by AES.  The key     *)
(* schedule w grows until it holds the round keys; then the first of them  *)
(* is added to the block s, and the rounds follow.  Words of the schedule  *)
(* may come one or several at a time.                                      *)
(***************************************************************************)
EXTENDS AesField, SequencesExt

CONSTANT Vectors       \* the [key, in] a caller may pass

VARIABLES
  nk,   \* the words of the key: 4 for AES-128, 8 for AES-256
  w,    \* the key schedule so far
  s,    \* the block
  r     \* the next round; 0 before the first round key is added

vars == <<nk, w, s, r>>

Nr == nk + 6

Call == \E v \in Vectors : nk = Len(v.key) /\ w = v.key /\ s = v.in /\ r = 0

Init == Call

Extend ==
  /\ r = 0
  /\ Len(w) < Len(w') /\ Len(w') <= 4 * (Nr + 1)
  /\ IsPrefix(w, w') /\ Scheduled(w', nk)
  /\ UNCHANGED <<nk, s, r>>

AddFirst ==
  /\ r = 0
  /\ Len(w) = 4 * (Nr + 1)
  /\ s' = AddBlocks(s, RoundKey(w, 0))
  /\ r' = 1
  /\ UNCHANGED <<nk, w>>

Round ==
  /\ r \in 1..Nr
  /\ s' = FRound(s, w, r, Nr)
  /\ r' = r + 1
  /\ UNCHANGED <<nk, w>>

\* The result is read and the next call is made.
Again == r = Nr + 1 /\ Call'

Next == Extend \/ AddFirst \/ Round \/ Again

Spec == Init /\ [][Next]_vars
==============================================================================
