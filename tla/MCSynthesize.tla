----------------------------- MODULE MCSynthesize -----------------------------
(***************************************************************************)
(* Instances of Synthesize for TLC: db.yaml as registration can leave it,  *)
(* numbered in order in each level, over a few figures.                    *)
(***************************************************************************)
EXTENDS Synthesize

\* The entries for measurements <<level, time, energy>>, numbered in order in
\* each level.
Numbered(s) ==
  [i \in DOMAIN s |-> [level |-> s[i][1],
                       index |-> Cardinality({k \in 1..i : s[k][1] = s[i][1]}),
                       time |-> s[i][2], energy |-> s[i][3]]]

Measurements(times, energies) == {1, 2} \X times \X energies

All == {Numbered(s) : s \in UNION {[1..k -> Measurements({1, 2, 3}, {1, 2, 12})] : k \in 1..3}}

\* Both levels have a backend.
Served(d) == \A l \in 1..2 : \E i \in DOMAIN d : d[i].level = l

\* Three backends of level 1 and one of level 2, registered first or last.
Triples ==
  LET three == [1..3 -> {1} \X {1, 2, 3} \X {1, 2, 12}]
  IN  {Numbered(s \o <<<<2, 1, 1>>>>) : s \in three}
        \cup {Numbered(<<<<2, 1, 1>>>> \o s) : s \in three}

ServedDbs == {d \in All : Served(d)} \cup Triples

\* Every call on a level that has a port.
Calls == Functions \X (1..2) \X (0..2) \X (0..2)
==============================================================================
