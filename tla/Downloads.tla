------------------------------ MODULE Downloads ------------------------------
(***************************************************************************)
(* The files the two server processes save (createserver in server_f.c).   *)
(* Each draws names with rand() until stat finds no such file, then opens  *)
(* the file with fopen "wb": two steps, with the other process between     *)
(* them.  Both seed rand with the second they start in, so that they       *)
(* usually draw the same names in the same order.  Downloads outlives the  *)
(* processes: it stays over restarts of the container, and is emptied only *)
(* by hand.                                                                *)
(***************************************************************************)
EXTENDS Integers, Sequences

CONSTANTS
  Names,      \* the names filename-ekm0 ... filename-ekm65535
  Rand        \* the names rand() yields, again and again

High == 5544
Low  == 5545
Port == {High, Low}

\* What the model takes from rand: every name comes, sooner or later.
ASSUME RandAssumption ==
  /\ Rand \in Seq(Names) /\ Rand # <<>>
  /\ \A f \in Names : \E i \in DOMAIN Rand : Rand[i] = f

VARIABLES
  pc,      \* the point each process has reached
  at,      \* the position of its last draw in Rand
  files    \* Downloads: for every name who created the file, and whether in
           \* an earlier start

vars == <<pc, at, files>>

Free == [by |-> 0, old |-> FALSE]
File(p) == [by |-> p, old |-> FALSE]

\* filename
name(p) == Rand[at[p]]

Init ==
  /\ pc = [p \in Port |-> "off"]
  /\ at = [p \in Port |-> 1]
  /\ files = [f \in Names |-> Free]

------------------------------------------------------------------------------
\* Mutation of Boot: places are counted from zero.
Boot_FromZero(p) ==
  /\ pc[p] = "off" /\ pc' = [pc EXCEPT ![p] = "accept"]
  /\ \E i \in DOMAIN Rand : at' = [at EXCEPT ![p] = i - 1]
  /\ UNCHANGED files

\* srand(time(NULL)) and the rest of createserver up to accept: a place in the
\* sequence, the same for both processes when they start in the same second.
Boot(p) ==
  /\ pc[p] = "off" /\ pc' = [pc EXCEPT ![p] = "accept"]
  /\ \E i \in DOMAIN Rand : at' = [at EXCEPT ![p] = i]
  /\ UNCHANGED files

Accept(p) ==
  /\ pc[p] = "accept" /\ pc' = [pc EXCEPT ![p] = "draw"]
  /\ UNCHANGED <<at, files>>

\* rand() & 0xffff
Following(i) == (i % Len(Rand)) + 1

\* Mutation of Draw: srand(time(NULL)) in the loop.
Draw_Reseeds(p) ==
  /\ pc[p] = "draw"
  /\ UNCHANGED at
  /\ pc' = [pc EXCEPT ![p] = IF files[name(p)] = Free THEN "open" ELSE "draw"]
  /\ UNCHANGED files

\* Mutation of Draw: a second name is not looked up.
Draw_Twice(p) ==
  /\ pc[p] = "draw" /\ pc' = [pc EXCEPT ![p] = "open"]
  /\ LET one == Following(at[p])
     IN  at' = [at EXCEPT ![p] = IF files[Rand[one]] = Free THEN one ELSE Following(one)]
  /\ UNCHANGED files

\* One round of do ... while(file_exists(filename)).
Draw(p) ==
  /\ pc[p] = "draw"
  /\ at' = [at EXCEPT ![p] = Following(@)]
  /\ pc' = [pc EXCEPT ![p] = IF files[Rand[at'[p]]] = Free THEN "open" ELSE "draw"]
  /\ UNCHANGED files

\* fopen "wb" creates the file, or empties the one that is there by now.
Open(p) ==
  /\ pc[p] = "open" /\ pc' = [pc EXCEPT ![p] = "serve"]
  /\ files' = [files EXCEPT ![name(p)] = File(p)]
  /\ UNCHANGED at

\* "File saved", whatever the tag check said.
Finish(p) ==
  /\ pc[p] = "serve" /\ pc' = [pc EXCEPT ![p] = "accept"]
  /\ UNCHANGED <<at, files>>

\* The process of 5545 ends alone; its file stays as it is.
ChildEnds ==
  /\ pc[Low] \notin {"off", "gone"} /\ pc' = [pc EXCEPT ![Low] = "gone"]
  /\ UNCHANGED <<at, files>>

\* The container stops, or ends with the process of 5544, and starts again.
Restart ==
  /\ pc' = [p \in Port |-> "off"]
  /\ at' = [p \in Port |-> 1]
  /\ files' = [f \in Names |-> [by |-> files[f].by, old |-> files[f] # Free]]

\* rm -f Downloads/*, also under a transfer that is running.
Remove ==
  /\ files' = [f \in Names |-> Free]
  /\ UNCHANGED <<pc, at>>

------------------------------------------------------------------------------
Process(p) == Boot(p) \/ Accept(p) \/ Draw(p) \/ Open(p) \/ Finish(p)

Next ==
  \/ \E p \in Port : Process(p)
  \/ ChildEnds \/ Restart \/ Remove

Spec == Init /\ [][Next]_vars

\* A process that looks for a name runs on.
LiveSpec == Spec /\ \A p \in Port : WF_vars(Draw(p))

------------------------------------------------------------------------------
\* The variables have their types.
TypeOK ==
  /\ pc \in [Port -> {"off", "accept", "draw", "open", "serve", "gone"}]
  /\ at \in [Port -> DOMAIN Rand]
  /\ files \in [Names -> [by : {0} \cup Port, old : BOOLEAN]]

\* A file that exists is opened again only when transfers on the two ports
\* overlap: what an earlier start or the same port saved is never lost.
FilesKept ==
  [][\A p \in Port : Open(p) /\ files[name(p)] # Free =>
       files[name(p)].by # p /\ ~ files[name(p)].old]_vars

\* The search for a name ends: one name that stays free is enough.
NameFound ==
  \A p \in Port, f \in Names :
    pc[p] = "draw" ~> pc[p] # "draw" \/ files[f] # Free
==============================================================================
