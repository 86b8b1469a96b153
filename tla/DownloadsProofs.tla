--------------------------- MODULE DownloadsProofs ---------------------------
(***************************************************************************)
(* What a server saves is only ever lost to a transfer on the other port   *)
(* that overlaps with it, for any number of names and any sequence of      *)
(* draws.  FilesKept speaks of the step that opens a file; what it needs   *)
(* is an invariant of the gap between the look-up and that step.           *)
(***************************************************************************)
EXTENDS Downloads, TLAPS

\* The file whose name a process has found free has not been created since, or
\* the other process has created it in this start.
Fresh(p) ==
  \/ files[name(p)] = Free
  \/ files[name(p)].by # p /\ ~ files[name(p)].old

GapInv == \A p \in Port : pc[p] = "open" => Fresh(p)

DownloadsInv == TypeOK /\ GapInv

------------------------------------------------------------------------------
\* rand stays inside its sequence, which yields names.
LEMMA RandFacts ==
  /\ Len(Rand) \in Nat \ {0} /\ DOMAIN Rand = 1..Len(Rand)
  /\ \A i \in DOMAIN Rand : Rand[i] \in Names /\ Following(i) \in DOMAIN Rand
<1>1. Len(Rand) \in Nat /\ DOMAIN Rand = 1..Len(Rand) /\ Len(Rand) # 0
  BY RandAssumption
<1>2. \A i \in DOMAIN Rand : Rand[i] \in Names
  BY RandAssumption
<1>3. \A i, n \in Nat : n # 0 => i % n \in 0..n - 1
  OBVIOUS
<1>4. ASSUME NEW i \in DOMAIN Rand PROVE Following(i) \in DOMAIN Rand
  <2> DEFINE n == Len(Rand)
  <2>1. i \in Nat /\ n \in Nat /\ n # 0
    BY <1>1
  <2>2. i % n \in 0..n - 1
    BY <1>3, <2>1
  <2>3. (i % n) + 1 \in 1..n
    BY <2>1, <2>2
  <2> QED
    BY <1>1, <2>3 DEF Following
<1> QED
  BY <1>1, <1>2, <1>4

\* What a process has drawn is a name.
LEMMA NameFacts ==
  ASSUME TypeOK, NEW p \in Port
  PROVE  at[p] \in DOMAIN Rand /\ name(p) \in Names
BY RandFacts DEF TypeOK, name

------------------------------------------------------------------------------
\* The invariant holds when the container starts first.
LEMMA InitInv == Init => DownloadsInv
<1> SUFFICES ASSUME Init PROVE DownloadsInv
  OBVIOUS
<1>1. 1 \in DOMAIN Rand
  BY RandFacts
<1>2. TypeOK
  BY <1>1 DEF Init, TypeOK, Free
<1>3. GapInv
  BY DEF Init, GapInv
<1> QED
  BY <1>2, <1>3 DEF DownloadsInv

\* The types are kept by every step.
LEMMA TypeStep ==
  ASSUME TypeOK, [Next]_vars
  PROVE  TypeOK'
<1> USE DEF TypeOK
<1>1. ASSUME NEW p \in Port, Process(p)
      PROVE  TypeOK'
  <2>1. CASE Boot(p)
    BY <2>1 DEF Boot
  <2>2. CASE Accept(p)
    BY <2>2 DEF Accept
  <2>3. CASE Draw(p)
    BY <2>3, RandFacts DEF Draw
  <2>4. CASE Open(p)
    <3>1. File(p) \in [by : {0} \cup Port, old : BOOLEAN]
      BY DEF File
    <3> QED
      BY <2>4, <3>1 DEF Open
  <2>5. CASE Finish(p)
    BY <2>5 DEF Finish
  <2> QED
    BY <1>1, <2>1, <2>2, <2>3, <2>4, <2>5 DEF Process
<1>2. CASE ChildEnds
  BY <1>2 DEF ChildEnds
<1>3. CASE Restart
  <2>1. \A f \in Names : [by |-> files[f].by, old |-> files[f] # Free]
                           \in [by : {0} \cup Port, old : BOOLEAN]
    OBVIOUS
  <2> QED
    BY <1>3, <2>1, RandFacts DEF Restart
<1>4. CASE Remove
  BY <1>4 DEF Remove, Free
<1>5. CASE UNCHANGED vars
  BY <1>5 DEF vars
<1> QED
  BY <1>1, <1>2, <1>3, <1>4, <1>5 DEF Next

\* A process that keeps its place, its draw and the file of that name stays
\* fresh.
LEMMA FreshKept ==
  ASSUME NEW p \in Port, at'[p] = at[p], files'[name(p)] = files[name(p)], Fresh(p)
  PROVE  Fresh(p)'
BY DEF Fresh, name

\* The gap between look-up and fopen.
LEMMA GapStep ==
  ASSUME DownloadsInv, [Next]_vars
  PROVE  GapInv'
<1> SUFFICES ASSUME NEW q \in Port, pc'[q] = "open"
             PROVE  Fresh(q)'
  BY DEF GapInv
<1> USE DEF DownloadsInv
<1>1. CASE pc[q] = "open" /\ at'[q] = at[q] /\ files' = files
  BY <1>1, FreshKept DEF GapInv
<1>2. ASSUME NEW p \in Port, Process(p)
      PROVE  Fresh(q)'
  <2>1. CASE Draw(p) /\ p = q
    BY <2>1 DEF Draw, Fresh, name, TypeOK
  <2>2. CASE Open(p) /\ p # q
    <3>1. CASE name(q) = name(p)
      <4>1. files'[name(q)] = File(p) /\ at'[q] = at[q]
        BY <2>2, <3>1, NameFacts DEF Open, TypeOK
      <4> QED
        BY <2>2, <4>1 DEF Fresh, File, name
    <3>2. CASE name(q) # name(p)
      <4>1. files'[name(q)] = files[name(q)] /\ at'[q] = at[q] /\ pc[q] = "open"
        BY <2>2, <3>2, NameFacts DEF Open, TypeOK
      <4> QED
        BY <4>1, FreshKept DEF GapInv
    <3> QED
      BY <3>1, <3>2
  <2>3. CASE Boot(p) \/ Accept(p) \/ Finish(p) \/ (Draw(p) /\ p # q)
    <3>1. pc[q] = "open" /\ at'[q] = at[q] /\ files' = files
      BY <2>3 DEF Boot, Accept, Finish, Draw, TypeOK
    <3> QED
      BY <1>1, <3>1
  <2>4. ~ (Open(p) /\ p = q)
    BY DEF Open, TypeOK
  <2> QED
    BY <1>2, <2>1, <2>2, <2>3, <2>4 DEF Process
<1>3. CASE ChildEnds
  BY <1>1, <1>3 DEF ChildEnds, TypeOK
<1>4. CASE Restart
  BY <1>4 DEF Restart
<1>5. CASE Remove
  BY <1>5, NameFacts DEF Remove, Fresh, name
<1>6. CASE UNCHANGED vars
  BY <1>1, <1>6 DEF vars
<1> QED
  BY <1>2, <1>3, <1>4, <1>5, <1>6 DEF Next

------------------------------------------------------------------------------
\* Downloads keeps its types: every name comes from rand, every file has a
\* process that created it (createserver, server_f.c).
THEOREM TypeCorrect == Spec => []TypeOK
<1>1. TypeOK /\ [Next]_vars => TypeOK'
  BY TypeStep
<1>2. Init => TypeOK
  BY InitInv DEF DownloadsInv
<1> QED
  BY <1>1, <1>2, PTL DEF Spec

\* fopen "wb" empties an existing file only when the other port has created it
\* in the same start, between the look-up of the name and the fopen: no file
\* of an earlier start, and none of the same port, is ever lost.
THEOREM NoFileLost == Spec => FilesKept
<1>1. DownloadsInv /\ [Next]_vars => DownloadsInv'
  BY TypeStep, GapStep DEF DownloadsInv
<1>2. DownloadsInv =>
        \A p \in Port : Open(p) /\ files[name(p)] # Free =>
          files[name(p)].by # p /\ ~ files[name(p)].old
  BY DEF DownloadsInv, GapInv, Open, Fresh
<1> QED
  BY <1>1, <1>2, InitInv, PTL DEF Spec, FilesKept
==============================================================================
