----------------------------- MODULE FileTransfer -----------------------------
(***************************************************************************)
(* What a port promises to the users of cltest: a transfer stores a        *)
(* growing prefix of the client's file, never ahead of what has arrived,   *)
(* and ends accepted, with the whole file stored, exactly when the whole   *)
(* stream arrived.  No record, mode or backend is visible here.            *)
(***************************************************************************)
EXTENDS Integers, Sequences

CONSTANTS Sizes,      \* sizes of files
          Overhead    \* bytes of the stream beyond those of the file

VARIABLES phase,      \* "idle", "receiving" or "done"
          size,       \* size of the file of the current or last transfer
          arrived,    \* bytes of its stream that arrived
          stored,     \* bytes of it on the disk
          outcome     \* {} while unknown, {"ok"} or {"bad"} once reported

vars == <<phase, size, arrived, stored, outcome>>

\* The first k bytes of the file.
Beginning(k) == [i \in 1..k |-> i - 1]

Init ==
  /\ phase = "idle" /\ size = 0 /\ arrived = 0
  /\ stored = <<>> /\ outcome = {}

Begin(s) ==
  /\ phase = "idle" /\ phase' = "receiving"
  /\ size' = s /\ arrived' = 0
  /\ stored' = <<>> /\ outcome' = {}

Receive ==
  /\ phase = "receiving" /\ phase' = "receiving"
  /\ arrived <= arrived' /\ arrived' <= size + Overhead
  /\ Len(stored) <= Len(stored') /\ Len(stored') <= size
  /\ Len(stored') <= arrived'
  /\ stored' = Beginning(Len(stored'))
  /\ UNCHANGED <<size, outcome>>

Accept ==
  /\ phase = "receiving" /\ phase' = "done"
  /\ arrived = size + Overhead
  /\ stored = Beginning(size)
  /\ outcome' = {"ok"}
  /\ UNCHANGED <<size, arrived, stored>>

Reject ==
  /\ phase = "receiving" /\ phase' = "done"
  /\ arrived < size + Overhead
  /\ outcome' = {"bad"}
  /\ UNCHANGED <<size, arrived, stored>>

Leave ==
  /\ phase = "done" /\ phase' = "idle"
  /\ UNCHANGED <<size, arrived, stored, outcome>>

Next == (\E s \in Sizes : Begin(s)) \/ Receive \/ Accept \/ Reject \/ Leave

Spec == Init /\ [][Next]_vars
==============================================================================
