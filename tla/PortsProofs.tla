----------------------------- MODULE PortsProofs -----------------------------
(***************************************************************************)
(* Proofs about Ports, for every set of concurrent calls, every set of     *)
(* numbers of backends that starts can register and any number of faults.  *)
(***************************************************************************)
EXTENDS Ports, TLAPS

------------------------------------------------------------------------------
\* The inductive invariant.

\* m names a registered backend of the level of p.
Own(p, m) == sbits(m) = LevelOf(p) /\ Registered(m)

\* The level has the backend of the initial mode.
Enough(p) == counts[LevelOf(p)] >= 2

\* Process p has set its mode and has not ended.
Booted(p) == pc[p] \in {"bind", "accept", "serve"}

\* The mode in force, the one that is pending and those on their way.
ModeInv   == \A p \in Port : Enough(p) /\ Booted(p) => Own(p, mode[p])
SignalInv == \A p \in Port : Enough(p) /\ pending[p] # None => Own(p, pending[p])
CallInv   ==
  \A c \in Calls : call[c] # Idle =>
    call[c].port \in Port /\ (Enough(call[c].port) => Own(call[c].port, call[c].mode))

\* A stopped container leaves no signal and no call behind, so that none
\* meets the backends of the next start.
StoppedInv ==
  (\A p \in Port : pc[p] = "off") =>
    (\A p \in Port : pending[p] = None) /\ (\A c \in Calls : call[c] = Idle)

PortsInv == TypeOK /\ ModeInv /\ SignalInv /\ CallInv /\ StoppedInv

------------------------------------------------------------------------------
\* The answer of synthesize is a mode byte of the level it was asked for.
LEMMA CodeFacts ==
  ASSUME NEW l \in {1, 2}, NEW i \in 1..15
  PROVE  /\ Code("e", l, i) \in 64..111
         /\ sbits(Code("e", l, i)) = l
         /\ ibits(Code("e", l, i)) = i
<1>1. CASE l = 1
  BY <1>1 DEF Code, sbits, ibits
<1>2. CASE l = 2
  BY <1>2 DEF Code, sbits, ibits
<1> QED
  BY <1>1, <1>2

\* The ports and their levels.
LEMMA PortFacts ==
  /\ \A p \in Port : LevelOf(p) \in {1, 2} /\ PortOf(LevelOf(p)) = p
  /\ \A l \in {1, 2} : PortOf(l) \in Port /\ LevelOf(PortOf(l)) = l
BY DEF Port, High, Low, LevelOf, PortOf

\* synthesize answers with a number that fits the mode byte; where there are
\* two backends it is that of a registered one.
LEMMA AnswerFacts ==
  ASSUME TypeOK, NEW l \in {1, 2}, NEW i \in Answers(l)
  PROVE  i \in 1..15 /\ (counts[l] >= 2 => i \in 1..counts[l])
BY DEF TypeOK, Answers

\* A call is on its way with an answer of synthesize.
LEMMA CallStep ==
  ASSUME NEW c \in Calls, NEW l \in {1, 2}, Call(c, l)
  PROVE  \E i \in Answers(l) :
           call' = [call EXCEPT ![c] = [port |-> PortOf(l), mode |-> Code("e", l, i),
                                        to |-> Lsof(PortOf(l))]]
BY DEF Call

\* The initial mode is number 2 of the level.
LEMMA InitialModeFacts ==
  ASSUME TypeOK, NEW p \in Port, Enough(p)
  PROVE  Own(p, InitialMode(p))
<1>1. LevelOf(p) \in {1, 2} /\ counts[LevelOf(p)] \in 0..15
  BY PortFacts DEF TypeOK
<1>2. CASE p = High
  <2>1. sbits(InitialMode(p)) = 2 /\ ibits(InitialMode(p)) = 2 /\ LevelOf(p) = 2
    BY <1>2 DEF High, LevelOf, InitialMode, sbits, ibits
  <2> QED
    BY <1>1, <2>1 DEF Own, Enough, Registered
<1>3. CASE p = Low
  <2>1. sbits(InitialMode(p)) = 1 /\ ibits(InitialMode(p)) = 2 /\ LevelOf(p) = 1
    BY <1>3 DEF High, Low, LevelOf, InitialMode, sbits, ibits
  <2> QED
    BY <1>1, <2>1 DEF Own, Enough, Registered
<1> QED
  BY <1>2, <1>3 DEF Port

------------------------------------------------------------------------------
\* No step leaves the types: in particular every mode is a byte of the
\* encryption function and a level that has a port.
LEMMA TypeStep ==
  ASSUME TypeOK, [Next]_vars
  PROVE  TypeOK'
<1> USE DEF TypeOK, Mode, Port, High, Low, None
<1>1. CASE Start
  BY <1>1, PortsAssumption DEF Start
<1>2. CASE ContainerEnds
  BY <1>2 DEF ContainerEnds, Killed, Idle
<1>3. CASE Stop
  BY <1>3, PortsAssumption DEF Stop, Killed, Idle
<1>4. ASSUME NEW p \in Port, Process(p)
      PROVE  TypeOK'
  <2>1. CASE Boot(p)
    BY <2>1 DEF Boot, InitialMode
  <2>2. CASE Bind(p)
    BY <2>2 DEF Bind
  <2>3. CASE Exit(p)
    BY <2>3, PortsAssumption DEF Exit
  <2>4. CASE Accept(p)
    BY <2>4 DEF Accept
  <2>5. CASE Cut(p)
    BY <2>5 DEF Cut
  <2>6. CASE Finish(p)
    BY <2>6 DEF Finish
  <2>7. CASE Leave(p)
    BY <2>7 DEF Leave
  <2>8. CASE signal_handler(p)
    BY <2>8 DEF signal_handler
  <2> QED
    BY <1>4, <2>1, <2>2, <2>3, <2>4, <2>5, <2>6, <2>7, <2>8 DEF Process
<1>5. ASSUME NEW c \in Calls, NEW l \in {1, 2}, Call(c, l)
      PROVE  TypeOK'
  <2>1. PICK i \in Answers(l) :
          call' = [call EXCEPT ![c] = [port |-> PortOf(l), mode |-> Code("e", l, i),
                                       to |-> Lsof(PortOf(l))]]
    BY <1>5, CallStep
  <2>2. Code("e", l, i) \in 64..111
    BY AnswerFacts, CodeFacts
  <2>3. PortOf(l) \in Port
    BY PortFacts
  <2>4. Lsof(PortOf(l)) \in {"server", "client", "nobody"}
    BY DEF Lsof
  <2>5. [port |-> PortOf(l), mode |-> Code("e", l, i), to |-> Lsof(PortOf(l))]
          \in [port : {0} \cup Port, mode : Mode, to : {"server", "client", "nobody"}]
    BY <2>2, <2>3, <2>4
  <2> QED
    BY <1>5, <2>1, <2>5 DEF Call
<1>6. ASSUME NEW c \in Calls, Sigqueue(c)
      PROVE  TypeOK'
  <2>1. call[c].mode \in Mode /\ Idle \in [port : {0} \cup Port, mode : Mode,
                                          to : {"server", "client", "nobody"}]
    BY DEF Idle
  <2>2. call' \in [Calls -> [port : {0} \cup Port, mode : Mode,
                            to : {"server", "client", "nobody"}]]
    BY <1>6, <2>1 DEF Sigqueue
  <2>3. pending' \in [Port -> Mode]
    BY <1>6, <2>1 DEF Sigqueue
  <2>4. pc' \in [Port -> {"off", "boot", "bind", "accept", "serve", "cut", "gone"}]
    BY <1>6 DEF Sigqueue
  <2> QED
    BY <1>6, <2>2, <2>3, <2>4 DEF Sigqueue
<1>7. CASE UNCHANGED vars
  BY <1>7 DEF vars
<1> QED
  BY <1>1, <1>2, <1>3, <1>4, <1>5, <1>6, <1>7 DEF Next, Send

------------------------------------------------------------------------------
\* The operators of the invariant do not change while the variables they read
\* do not.
LEMMA Kept ==
  ASSUME counts' = counts
  PROVE  \A p \in Port : Enough(p)' = Enough(p) /\ \A m : Own(p, m)' = Own(p, m)
BY DEF Enough, Own, Registered

\* ModeInv: a mode is set by createserver, or by the handler to the value that
\* was pending.
LEMMA ModeStep ==
  ASSUME PortsInv, [Next]_vars
  PROVE  ModeInv'
<1> USE DEF PortsInv, TypeOK
<1>1. CASE Start
  BY <1>1 DEF Start, ModeInv, Booted
<1>2. CASE ContainerEnds
  BY <1>2 DEF ContainerEnds, Killed, ModeInv, Booted
<1>3. CASE Stop
  BY <1>3 DEF Stop, Killed, ModeInv, Booted
<1>4. ASSUME NEW p \in Port, Process(p)
      PROVE  ModeInv'
  <2>1. counts' = counts
    BY <1>4 DEF Process, Boot, Bind, Exit, Accept, Cut, Finish, Leave, signal_handler
  <2>2. CASE Boot(p)
    BY <2>1, <2>2, Kept, InitialModeFacts DEF Boot, ModeInv, Booted
  <2>3. CASE signal_handler(p)
    BY <2>1, <2>3, Kept DEF signal_handler, ModeInv, SignalInv, Booted
  <2>4. CASE Bind(p) \/ Exit(p) \/ Accept(p) \/ Cut(p) \/ Finish(p) \/ Leave(p)
    BY <2>1, <2>4, Kept
    DEF Bind, Exit, Accept, Cut, Finish, Leave, ModeInv, Booted
  <2> QED
    BY <1>4, <2>2, <2>3, <2>4 DEF Process
<1>5. ASSUME NEW c \in Calls, Send(c)
      PROVE  ModeInv'
  <2>1. counts' = counts /\ mode' = mode
    BY <1>5 DEF Send, Call, Sigqueue
  <2>2. \A p \in Port : Booted(p)' => Booted(p)
    BY <1>5 DEF Send, Call, Sigqueue, Booted
  <2> QED
    BY <2>1, <2>2, Kept DEF ModeInv
<1>6. CASE UNCHANGED vars
  BY <1>6, Kept DEF vars, ModeInv, Booted
<1> QED
  BY <1>1, <1>2, <1>3, <1>4, <1>5, <1>6 DEF Next

\* sigqueue leaves the signals or queues the one of its call.
LEMMA SigqueueStep ==
  ASSUME NEW c \in Calls, Sigqueue(c)
  PROVE  /\ call[c] # Idle
         /\ \/ pending' = pending
            \/ pending' = [pending EXCEPT ![call[c].port] = call[c].mode]
BY DEF Sigqueue

\* SignalInv: a signal carries the mode of a call.
LEMMA SignalStep ==
  ASSUME PortsInv, [Next]_vars
  PROVE  SignalInv'
<1> USE DEF PortsInv, TypeOK
<1>1. CASE Start
  BY <1>1 DEF Start, SignalInv, StoppedInv
<1>2. CASE ContainerEnds
  BY <1>2 DEF ContainerEnds, Killed, SignalInv
<1>3. CASE Stop
  BY <1>3 DEF Stop, Killed, SignalInv
<1>4. ASSUME NEW p \in Port, Process(p)
      PROVE  SignalInv'
  <2>1. counts' = counts
    BY <1>4 DEF Process, Boot, Bind, Exit, Accept, Cut, Finish, Leave, signal_handler
  <2>2. \A q \in Port : pending'[q] # None => pending'[q] = pending[q]
    BY <1>4 DEF Process, Boot, Bind, Exit, Accept, Cut, Finish, Leave, signal_handler
  <2> QED
    BY <2>1, <2>2, Kept DEF SignalInv
<1>5. ASSUME NEW c \in Calls, Send(c)
      PROVE  SignalInv'
  <2>1. counts' = counts
    BY <1>5 DEF Send, Call, Sigqueue
  <2>2. CASE Sigqueue(c)
    <3>1. call[c] # Idle
          /\ \/ pending' = pending
             \/ pending' = [pending EXCEPT ![call[c].port] = call[c].mode]
      BY <2>2, SigqueueStep
    <3>2. \A q \in Port : \/ pending'[q] = pending[q]
                          \/ call[c].port = q /\ pending'[q] = call[c].mode
      BY <3>1
    <3> QED
      BY <2>1, <3>1, <3>2, Kept DEF SignalInv, CallInv
  <2>3. CASE pending' = pending
    BY <2>1, <2>3, Kept DEF SignalInv
  <2> QED
    BY <1>5, <2>2, <2>3 DEF Send, Call
<1>6. CASE UNCHANGED vars
  BY <1>6, Kept DEF vars, SignalInv
<1> QED
  BY <1>1, <1>2, <1>3, <1>4, <1>5, <1>6 DEF Next

\* CallInv: synthesize addresses the port of the level it chose a backend for.
LEMMA CallsStep ==
  ASSUME PortsInv, [Next]_vars
  PROVE  CallInv'
<1> USE DEF PortsInv, TypeOK
<1>1. CASE Start
  BY <1>1 DEF Start, CallInv, StoppedInv
<1>2. CASE ContainerEnds
  BY <1>2 DEF ContainerEnds, Killed, CallInv
<1>3. CASE Stop
  BY <1>3 DEF Stop, Killed, CallInv
<1>4. ASSUME NEW p \in Port, Process(p)
      PROVE  CallInv'
  <2>1. counts' = counts /\ call' = call
    BY <1>4 DEF Process, Boot, Bind, Exit, Accept, Cut, Finish, Leave, signal_handler
  <2> QED
    BY <2>1, Kept DEF CallInv
<1>5. ASSUME NEW c \in Calls, NEW l \in {1, 2}, Call(c, l)
      PROVE  CallInv'
  <2>1. counts' = counts
    BY <1>5 DEF Call
  <2>2. PICK i \in Answers(l) :
          call' = [call EXCEPT ![c] = [port |-> PortOf(l), mode |-> Code("e", l, i),
                                       to |-> Lsof(PortOf(l))]]
    BY <1>5, CallStep
  <2>3. call'[c].port = PortOf(l) /\ call'[c].mode = Code("e", l, i)
        /\ \A d \in Calls \ {c} : call'[d] = call[d]
    BY <2>2
  <2>4. PortOf(l) \in Port /\ LevelOf(PortOf(l)) = l
    BY PortFacts
  <2>5. sbits(Code("e", l, i)) = l /\ ibits(Code("e", l, i)) = i
    BY AnswerFacts, CodeFacts
  <2>6. Enough(PortOf(l)) => Own(PortOf(l), Code("e", l, i))
    BY <2>4, <2>5, AnswerFacts DEF Enough, Own, Registered
  <2> QED
    BY <2>1, <2>3, <2>4, <2>6, Kept DEF CallInv
<1>6. ASSUME NEW c \in Calls, Sigqueue(c)
      PROVE  CallInv'
  <2>1. counts' = counts /\ \A d \in Calls : call'[d] = Idle \/ call'[d] = call[d]
    BY <1>6 DEF Sigqueue
  <2> QED
    BY <2>1, Kept DEF CallInv
<1>7. CASE UNCHANGED vars
  BY <1>7, Kept DEF vars, CallInv
<1> QED
  BY <1>1, <1>2, <1>3, <1>4, <1>5, <1>6, <1>7 DEF Next, Send

\* StoppedInv: the container stops with everything that runs in it, and
\* nothing is sent while it is stopped.
LEMMA StoppedStep ==
  ASSUME PortsInv, [Next]_vars
  PROVE  StoppedInv'
<1> USE DEF PortsInv, TypeOK
<1>1. CASE Start
  BY <1>1 DEF Start, StoppedInv, Port
<1>2. CASE ContainerEnds
  BY <1>2 DEF ContainerEnds, Killed, StoppedInv
<1>3. CASE Stop
  BY <1>3 DEF Stop, Killed, StoppedInv
<1>4. ASSUME NEW p \in Port, Process(p)
      PROVE  StoppedInv'
  <2>1. pc'[p] # "off"
    BY <1>4 DEF Process, Boot, Bind, Exit, Accept, Cut, Finish, Leave, signal_handler, Alive
  <2> QED
    BY <2>1 DEF StoppedInv
<1>5. ASSUME NEW c \in Calls, NEW l \in {1, 2}, Call(c, l)
      PROVE  StoppedInv'
  <2>1. pc' = pc /\ Lsof(PortOf(l)) # "nobody"
    BY <1>5 DEF Call
  <2>2. pc[PortOf(l)] # "off"
    BY <2>1 DEF Lsof, Bound
  <2> QED
    BY <2>1, <2>2, PortFacts DEF StoppedInv
<1>6. ASSUME NEW c \in Calls, Sigqueue(c)
      PROVE  StoppedInv'
  <2>1. \A p \in Port : pc'[p] = "off" => pc[p] = "off"
    BY <1>6 DEF Sigqueue
  <2>2. call[c] # Idle
    BY <1>6 DEF Sigqueue
  <2> QED
    BY <2>1, <2>2 DEF StoppedInv
<1>7. CASE UNCHANGED vars
  BY <1>7 DEF vars, StoppedInv
<1> QED
  BY <1>1, <1>2, <1>3, <1>4, <1>5, <1>6, <1>7 DEF Next, Send

------------------------------------------------------------------------------
\* The invariant holds at the start and is kept by every step.
LEMMA Invariant == Spec => []PortsInv
<1>1. Init => PortsInv
  <2> SUFFICES ASSUME Init PROVE PortsInv
    OBVIOUS
  <2>1. TypeOK
    BY PortsAssumption DEF Init, TypeOK, Mode, Port, Idle, None
  <2> QED
    BY <2>1 DEF Init, PortsInv, ModeInv, SignalInv, CallInv, StoppedInv, Booted
<1>2. PortsInv /\ [Next]_vars => PortsInv'
  BY TypeStep, ModeStep, SignalStep, CallsStep, StoppedStep DEF PortsInv
<1> QED
  BY <1>1, <1>2, PTL DEF Spec

\* In every container no process, signal or call ever holds a mode that is
\* not a byte of the encryption function and of a level with a port.
THEOREM TypeCorrect == Spec => []TypeOK
<1>1. PortsInv => TypeOK
  BY DEF PortsInv
<1> QED
  BY <1>1, Invariant, PTL

\* Whatever calls race with transfers, failing processes and restarts, a port
\* whose level has two backends is on a registered backend of its own level.
THEOREM AlwaysServed == Spec => []ModeServed
<1>1. PortsInv => ModeServed
  BY DEF PortsInv, ModeInv, ModeServed, Enough, Own, Booted, Bound
<1> QED
  BY <1>1, Invariant, PTL

\* While a process runs only its handler changes its mode, to the value that
\* was pending: a switch lasts.
THEOREM SwitchesLast == Spec => SwitchLasts
<1>1. ASSUME TypeOK, [Next]_vars, NEW p \in Port, Bound(p), Bound(p)', mode'[p] # mode[p]
      PROVE  mode'[p] = pending[p]
  <2> USE <1>1 DEF TypeOK
  <2>1. ~ Start /\ ~ ContainerEnds /\ ~ Stop
    BY DEF Start, ContainerEnds, Stop, Killed, Bound
  <2>2. ASSUME NEW q \in Port, Process(q)
        PROVE  mode'[p] = pending[p]
    BY <2>2 DEF Process, Boot, Bind, Exit, Accept, Cut, Finish, Leave, signal_handler, Bound
  <2>3. ASSUME NEW c \in Calls, Send(c)
        PROVE  FALSE
    BY <2>3 DEF Send, Call, Sigqueue
  <2> QED
    BY <2>1, <2>2, <2>3 DEF Next, vars
<1>2. TypeOK /\ [Next]_vars =>
        [\A p \in Port : Bound(p) /\ Bound(p)' /\ mode'[p] # mode[p] =>
           mode'[p] = pending[p]]_vars
  BY <1>1
<1> QED
  BY <1>2, TypeCorrect, PTL DEF Spec, SwitchLasts
==============================================================================
