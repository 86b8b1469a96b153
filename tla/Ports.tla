-------------------------------- MODULE Ports --------------------------------
(***************************************************************************)
(* The running container: main forks one server process for each port      *)
(* (server_f.c), synthesize calls send, which looks for the process with   *)
(* lsof and queues it a SIGUSR1 (send.c).                                  *)
(*                                                                         *)
(* The parent serves 5544 and is what start.sh waits for: when it ends the *)
(* container ends, with everything that runs in it, and is started again.  *)
(* The child serves 5545 and nobody waits for it.  A transfer is reduced   *)
(* to its points that concern other processes; Transfer has the rest, and  *)
(* Downloads the names of the files.                                       *)
(***************************************************************************)
EXTENDS ModeByte

CONSTANTS
  Calls,      \* the calls of synthesize that can run at the same time
  Counts,     \* what a start can register: the number of backends per level
  MaxFaults   \* bound on the stops and the failing starts

High == 5544
Low  == 5545
Port == {High, Low}
LevelOf(p) == 5546 - p
None == 0     \* no mode byte: neither synthesize nor createserver uses it here

ASSUME PortsAssumption ==
  /\ Counts \subseteq [{1, 2} -> 0..15] /\ Counts # {}
  /\ MaxFaults \in Nat

VARIABLES
  counts,    \* the backends in lib_enc.so and db.yaml, per level
  pc,        \* the point each server process has reached
  mode,      \* its mode byte
  pending,   \* the value of a SIGUSR1 it has not handled yet
  call,      \* the running calls of synthesize and send
  faults

vars == <<counts, pc, mode, pending, call, faults>>

Idle == [port |-> 0, mode |-> None, to |-> "nobody"]

\* Before the first start.
Init ==
  /\ counts \in Counts
  /\ pc = [p \in Port |-> "off"]
  /\ mode = [p \in Port |-> None] /\ pending = [p \in Port |-> None]
  /\ call = [c \in Calls |-> Idle]
  /\ faults = 0

------------------------------------------------------------------------------
\* start.sh has registered what it could and main has forked.
Start ==
  /\ \A p \in Port : pc[p] = "off"
  /\ counts' \in Counts
  /\ pc' = [p \in Port |-> "boot"]
  /\ UNCHANGED <<mode, pending, call, faults>>

\* Mutation of InitialMode: the same backend on both ports.
InitialMode_Same(p) == 98

\* Mutation of InitialMode: the function's two bits are left out.
InitialMode_NoFunction(p) == IF p = High THEN 34 ELSE 18

\* 0x62 and 0x52: number 2 of the level.
InitialMode(p) == IF p = High THEN 98 ELSE 82

\* createserver sets the mode and comes to the socket.
Boot(p) ==
  /\ pc[p] = "boot" /\ pc' = [pc EXCEPT ![p] = "bind"]
  /\ mode' = [mode EXCEPT ![p] = InitialMode(p)]
  /\ UNCHANGED <<counts, pending, call, faults>>

\* bind and listen: from here on lsof finds the process.
Bind(p) ==
  /\ pc[p] = "bind" /\ pc' = [pc EXCEPT ![p] = "accept"]
  /\ UNCHANGED <<counts, mode, pending, call, faults>>

\* exit(EXIT_FAILURE): the certificate, the socket, bind, listen or accept.
Exit(p) ==
  /\ pc[p] \in {"boot", "bind", "accept"} /\ pc' = [pc EXCEPT ![p] = "gone"]
  /\ faults < MaxFaults /\ faults' = faults + 1
  /\ UNCHANGED <<counts, mode, pending, call>>

\* Every process of the container is killed.
Killed ==
  /\ pc' = [p \in Port |-> "off"]
  /\ mode' = [p \in Port |-> None] /\ pending' = [p \in Port |-> None]
  /\ call' = [c \in Calls |-> Idle]
  /\ UNCHANGED counts

\* Mutation of ContainerEnds: after goto outg the process of 5544 still waits
\* for its client.
ContainerEnds_Waits == pc[High] = "gone" /\ Killed /\ UNCHANGED faults

\* ./server returns in start.sh, the last command of the entrypoint.
ContainerEnds == pc[High] \in {"cut", "gone"} /\ Killed /\ UNCHANGED faults

\* The container is stopped or loses power, and is started again.
Stop ==
  /\ faults < MaxFaults /\ faults' = faults + 1
  /\ Killed

------------------------------------------------------------------------------
\* Mutation of Accept: every connection starts on the initial backend.
Accept_Resets(p) ==
  /\ pc[p] = "accept" /\ pc' = [pc EXCEPT ![p] = "serve"]
  /\ mode' = [mode EXCEPT ![p] = InitialMode(p)]
  /\ UNCHANGED <<counts, pending, call, faults>>

\* accept and a successful SSL_accept; after a failed one nothing is left.
Accept(p) ==
  /\ pc[p] = "accept" /\ pc' = [pc EXCEPT ![p] = "serve"]
  /\ UNCHANGED <<counts, mode, pending, call, faults>>

\* dlsym finds the backend that m names.
Registered(m) == sbits(m) \in {1, 2} /\ ibits(m) \in 1..counts[sbits(m)]

\* A full record arrives and the backend is not found: goto outg, exit.  The
\* client, if it runs in the container, still holds its connection.
Cut(p) ==
  /\ pc[p] = "serve" /\ ~ Registered(mode[p])
  /\ pc' = [pc EXCEPT ![p] = "cut"]
  /\ UNCHANGED <<counts, mode, pending, call, faults>>

\* The end of the transfer.
Finish(p) ==
  /\ pc[p] = "serve" /\ pc' = [pc EXCEPT ![p] = "accept"]
  /\ UNCHANGED <<counts, mode, pending, call, faults>>

\* The client notices that the process of the port has ended.
Leave(p) ==
  /\ pc[p] = "cut" /\ pc' = [pc EXCEPT ![p] = "gone"]
  /\ UNCHANGED <<counts, mode, pending, call, faults>>

------------------------------------------------------------------------------
Alive(p) == pc[p] \notin {"off", "cut", "gone"}
Bound(p) == pc[p] \in {"accept", "serve"}

\* The first process lsof lists, in the order of their numbers: the server
\* was there before any client.  Without a line, what the stack holds is no
\* number of a process.
Lsof(p) == CASE Bound(p)     -> "server"
             [] pc[p] = "cut" -> "client"
             [] OTHER         -> "nobody"

\* Mutation of PortOf: the ports are in the order of the levels.
PortOf_Ascending(l) == 5543 + l

PortOf(l) == 5546 - l

\* What synthesize can answer for level l: a measured backend of the level,
\* or without any the number of the first entry of db.yaml, which is 1.
Answers(l) == IF counts[l] = 0 THEN {1} ELSE 1..counts[l]

\* synthesize picks a backend and runs send, which runs lsof.  On an empty
\* db.yaml it is not called; a call that finds nobody changes nothing.
Call(c, l) ==
  /\ call[c] = Idle
  /\ \E k \in {1, 2} : counts[k] > 0
  /\ Lsof(PortOf(l)) # "nobody"
  /\ \E i \in Answers(l) :
       call' = [call EXCEPT ![c] = [port |-> PortOf(l), mode |-> Code("e", l, i),
                                    to |-> Lsof(PortOf(l))]]
  /\ UNCHANGED <<counts, pc, mode, pending, faults>>

\* sigqueue to the process that was found.  SIGUSR1 is not a real-time signal:
\* while one is pending another is dropped.  A client has no handler and is
\* killed by it.
Sigqueue(c) ==
  LET p == call[c].port
  IN  /\ call[c] # Idle /\ call' = [call EXCEPT ![c] = Idle]
      /\ IF call[c].to = "server" /\ Alive(p) /\ pending[p] = None
         THEN pending' = [pending EXCEPT ![p] = call[c].mode]
         ELSE UNCHANGED pending
      /\ IF call[c].to = "client" /\ pc[p] = "cut"
         THEN pc' = [pc EXCEPT ![p] = "gone"]
         ELSE UNCHANGED pc
      /\ UNCHANGED <<counts, mode, faults>>

\* Mutation of signal_handler: a switch is refused during a transfer.
signal_handler_Refuses(p) ==
  /\ Alive(p) /\ pending[p] # None
  /\ mode' = IF pc[p] = "serve" THEN mode ELSE [mode EXCEPT ![p] = pending[p]]
  /\ pending' = [pending EXCEPT ![p] = None]
  /\ UNCHANGED <<counts, pc, call, faults>>

\* The handler runs between any two instructions of the process.
signal_handler(p) ==
  /\ Alive(p) /\ pending[p] # None
  /\ mode' = [mode EXCEPT ![p] = pending[p]]
  /\ pending' = [pending EXCEPT ![p] = None]
  /\ UNCHANGED <<counts, pc, call, faults>>

------------------------------------------------------------------------------
Process(p) ==
  \/ Boot(p) \/ Bind(p) \/ Exit(p)
  \/ Accept(p) \/ Cut(p) \/ Finish(p) \/ Leave(p)
  \/ signal_handler(p)

Send(c) == Sigqueue(c) \/ \E l \in {1, 2} : Call(c, l)

Next ==
  \/ Start \/ ContainerEnds \/ Stop
  \/ \E p \in Port : Process(p)
  \/ \E c \in Calls : Send(c)

Spec == Init /\ [][Next]_vars

\* Docker starts the container again, start.sh comes to the server, a send
\* runs to its end and a pending signal is delivered.  Nothing makes clients
\* come or transfers end.
LiveSpec ==
  /\ Spec
  /\ WF_vars(Start) /\ WF_vars(ContainerEnds)
  /\ \A p \in Port : WF_vars(Boot(p)) /\ WF_vars(Bind(p)) /\ WF_vars(signal_handler(p))
  /\ \A c \in Calls : WF_vars(Sigqueue(c))

------------------------------------------------------------------------------
Mode == {None} \cup 64..111

\* The variables have their types.
TypeOK ==
  /\ counts \in [{1, 2} -> 0..15]
  /\ pc \in [Port -> {"off", "boot", "bind", "accept", "serve", "cut", "gone"}]
  /\ mode \in [Port -> Mode] /\ pending \in [Port -> Mode]
  /\ call \in [Calls -> [port : {0} \cup Port, mode : Mode,
                         to : {"server", "client", "nobody"}]]
  /\ faults \in 0..MaxFaults

\* Whatever synthesize is asked, however its calls race with each other, with
\* transfers and with restarts that register another set of backends, a port
\* whose level has two backends is on a registered backend of its own level:
\* the hypothesis Safe under which Transfer is proved.
ModeServed ==
  \A p \in Port : Bound(p) /\ counts[LevelOf(p)] >= 2 =>
    sbits(mode[p]) = LevelOf(p) /\ Registered(mode[p])

\* A switch lasts until the container restarts: while the process runs, only
\* the handler changes its mode, to the value that was pending.
SwitchLasts ==
  [][\A p \in Port : Bound(p) /\ Bound(p)' /\ mode'[p] # mode[p] =>
       mode'[p] = pending[p]]_vars

\* The numbers of backends that a start can register.
Numbers == {i \in 1..15 : \E n \in Counts, l \in {1, 2} : i <= n[l]}

\* The mode of a call that found the server comes into force, unless the
\* process ends or the signal of another call is still pending.
SwitchTakesEffect ==
  \A c \in Calls, l \in {1, 2}, i \in Numbers :
    LET p == PortOf(l)
        m == Code("e", l, i)
    IN  call[c] = [port |-> p, mode |-> m, to |-> "server"] ~>
          \/ mode[p] = m
          \/ ~ Alive(p)
          \/ call[c] = Idle /\ pending[p] \notin {None, m}

\* Port 5544 comes back whatever ended its process: an exit, or a start that
\* registered a single backend of level 2, on which every transfer is cut.
HighReturns == pc[High] \in {"cut", "gone"} ~> pc[High] = "accept"
==============================================================================
