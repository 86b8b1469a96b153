------------------------------ MODULE Synthesize ------------------------------
(***************************************************************************)
(* The policy engine (synthesize.c): it reads db.yaml, picks the backend   *)
(* of a level whose time and energy, scaled to the range of the level, are *)
(* nearest to the requested point, and sends its mode byte to the port of  *)
(* the level.                                                              *)
(*                                                                         *)
(* Figures are integers, in a unit small enough for the measurements.  All *)
(* distances of a call have the same denominator, so that their numerators *)
(* are compared; coordinates are doubled for the middle point.             *)
(***************************************************************************)
EXTENDS ModeByte, Sequences, FiniteSetsExt

CONSTANTS
  Dbs,      \* the contents of db.yaml at the start
  Requests  \* the calls <<fn, slevel, tp, en>>: options -f, -s, -t and -e

Functions == {"e", "h"}

\* name carries level and index; every entry profile writes is an encryption.
Entry == [level : 0..2, index : Nat \ {0}, time : Int, energy : Int]

\* synthesize is not called on an empty db.yaml: it would read Dict[0], which
\* is then outside the array.
ASSUME DbAssumption == \A d \in Dbs : d \in Seq(Entry) /\ d # <<>>
ASSUME RequestAssumption == Requests \subseteq Functions \X (0..2) \X (0..2) \X (0..2)

VARIABLES
  db,     \* db.yaml
  mode    \* the mode byte of each port, named by its level

vars == <<db, mode>>

Ports == 1..2

Init ==
  /\ db \in Dbs
  /\ mode = [l \in Ports |-> IF l = 2 THEN 98 ELSE 82]   \* 0x62, 0x52

------------------------------------------------------------------------------
\* The values with which the search for minimum and maximum begins.
Mine0 == 10
Mint0 == 10000
\* The distance of an entry that is not of the level, and the first bound.
Far == 10000

\* The entries of the level and function.
Candidates(fn, slevel) == {j \in DOMAIN db : fn = "e" /\ db[j].level = slevel}

mint(S) == Min({Mint0} \cup {db[j].time : j \in S})
maxt(S) == Max({0} \cup {db[j].time : j \in S})
mine(S) == Min({Mine0} \cup {db[j].energy : j \in S})
maxe(S) == Max({0} \cup {db[j].energy : j \in S})

Sq(x) == x * x

\* Twice the coordinate of the requested point: lowest, middle or highest.
Twice(r, lo, hi) == CASE r = 0 -> 2 * lo [] r = 1 -> lo + hi [] r = 2 -> 2 * hi

\* The common denominator of the distances; when it is 0 every candidate has
\* the same figure and each distance is 0/0, which compares as not smaller.
Denominator(S) == Sq(2 * (maxt(S) - mint(S)) * (maxe(S) - mine(S)))

\* Mutation of dist: the energy is taken from the time's end of its range.
dist_OneCorner(S, tp, en, j) ==
    Sq((Twice(tp, mint(S), maxt(S)) - 2 * db[j].time) * (maxe(S) - mine(S)))
  + Sq((Twice(tp, mine(S), maxe(S)) - 2 * db[j].energy) * (maxt(S) - mint(S)))

\* The square of the distance from entry j to the point tp, en, times the
\* denominator.
dist(S, tp, en, j) ==
    Sq((Twice(tp, mint(S), maxt(S)) - 2 * db[j].time) * (maxe(S) - mine(S)))
  + Sq((Twice(en, mine(S), maxe(S)) - 2 * db[j].energy) * (maxt(S) - mint(S)))

\* Mutation of Id: the search begins at the second entry of the array.
Id_FromSecond(S, tp, en) ==
  LET near == {j \in S \ {1} : dist(S, tp, en, j) < Far * Denominator(S)}
      best == {j \in near : \A k \in near : dist(S, tp, en, j) <= dist(S, tp, en, k)}
  IN  IF best = {} THEN Min({2, Len(db)}) ELSE Min(best)

\* The first of the nearest entries; the first entry of the array when no
\* distance was below the bound.
Id(S, tp, en) ==
  LET near == {j \in S : dist(S, tp, en, j) < Far * Denominator(S)}
      best == {j \in near : \A k \in near : dist(S, tp, en, j) <= dist(S, tp, en, k)}
  IN  IF best = {} THEN 1 ELSE Min(best)

\* The mode byte a call sends.
Target(fn, slevel, tp, en) ==
  Code(fn, slevel, db[Id(Candidates(fn, slevel), tp, en)].index)

\* ./send 5546-slevel code reaches the process of the level; nobody listens on
\* port 5546, of level 0.
synthesize(fn, slevel, tp, en) ==
  /\ mode' = [l \in Ports |-> IF l = slevel THEN Target(fn, slevel, tp, en) ELSE mode[l]]
  /\ UNCHANGED db

Next == \E r \in Requests : synthesize(r[1], r[2], r[3], r[4])

Spec == Init /\ [][Next]_vars

------------------------------------------------------------------------------
\* The backends of db.yaml that the mode byte m names.
Named(m) == {j \in DOMAIN db : db[j].level = sbits(m) /\ db[j].index = ibits(m)}

\* Every call names a backend that was registered and measured, also when the
\* level has one backend only, when all its figures are equal, and when no
\* entry is of the requested function.  In these cases the answer is the first
\* entry of db.yaml, whatever its level: it stands for a backend of the level
\* because the first entry always has number 1.
NamesBackend ==
  \A r \in Requests : r[2] \in Ports => Named(Target(r[1], r[2], r[3], r[4])) # {}

\* No call, nor any sequence of calls, moves a port to the other level.
OwnLevel == \A l \in Ports : sbits(mode[l]) = l

\* x is at least as near as y to the extreme r of a figure.
AsNear(r, x, y) == CASE r = 0 -> x <= y [] r = 2 -> x >= y

\* Entry k beats entry j at the corner tp, en: at least as near to it in both
\* figures, and not equal.
Beats(tp, en, k, j) ==
  /\ db[k].level = db[j].level
  /\ AsNear(tp, db[k].time, db[j].time) /\ AsNear(en, db[k].energy, db[j].energy)
  /\ db[k].time # db[j].time \/ db[k].energy # db[j].energy

\* A call for a corner (the lowest or highest of each figure) is answered with
\* a backend that no other backend of the level beats at that corner, unless
\* all backends of the level share a figure: the distances are then 0/0 and
\* the answer does not depend on the request.
CornersServed ==
  \A r \in Requests :
    r[1] = "e" /\ 1 \notin {r[3], r[4]} /\ Denominator(Candidates(r[1], r[2])) # 0 =>
      \A j \in Named(Target(r[1], r[2], r[3], r[4])), k \in DOMAIN db :
        ~ Beats(r[3], r[4], k, j)
==============================================================================
