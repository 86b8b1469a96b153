---------------------------- MODULE ProfileProofs ----------------------------
(***************************************************************************)
(* Proofs about Profile and the thread of Sampler, for buffers, sleeps and *)
(* runs of any length, any number of attempts and any losses.              *)
(***************************************************************************)
EXTENDS Profile, WellFoundedInduction, TLAPS

\* The attempt is being sampled or has just been; its windows are set.
Measuring == pc \in {"settle", "idle", "run", "after", "tail", "join", "stats"}

\* The periods lost so far, of this attempt and of those before.
Losses == late + bad

\* How long the measurement takes up to the end of the sleep at hand when no
\* thread is late.
Expected ==
  SETTLE + (IF pc = "settle" THEN 0 ELSE IDLE)
         + (IF pc = "run" THEN wake - w0 ELSE w1 - w0)
         + (IF pc \in {"settle", "idle", "run"} THEN 0 ELSE IDLE)
         + (IF pc \in {"settle", "idle", "run", "after"} THEN 0 ELSE TAIL)

------------------------------------------------------------------------------
\* The types of what the arguments below compute with.
TypeInv ==
  /\ now \in Nat /\ next \in Nat /\ began \in Nat /\ late \in Nat /\ bad \in Nat
  /\ run \in BOOLEAN /\ overflow \in BOOLEAN
  /\ th \in {"none", "new", "sleep", "read", "ended"}
  /\ t \in Seq(Int) /\ Len(t) <= CAP
  /\ pc \in {"open", "probe", "likwid", "start", "settle", "idle", "run", "after", "tail",
             "join", "stats", "write", "done"}
  /\ wake \in Nat /\ b0 \in Nat /\ b1 \in Nat /\ w0 \in Nat /\ w1 \in Nat
  /\ a0 \in Nat /\ a1 \in Nat

\* Where main is tells where the thread can be: main reads the buffer after
\* the thread has ended, and the thread does not end before it is stopped.
PhaseInv ==
  /\ pc \in {"settle", "idle", "run", "after", "tail"} =>
       run /\ th \in {"new", "sleep", "read"}
  /\ pc = "join" => ~ run /\ th # "none"
  /\ pc = "stats" => th = "ended"

\* The thread never runs ahead of its deadline, and it takes no sample without
\* one.
DeadlineInv ==
  /\ Len(t) <= next /\ next <= now + 1
  /\ th = "read" => next <= began /\ began <= now
  /\ th = "new" => t = <<>>

\* The deadline does not run ahead of the samples: since the first of them it
\* has moved once per sample or failed read.
PaceInv == t # <<>> /\ ~ overflow => 2 * next <= t[1] + 2 * Len(t) + 2 * bad

\* The first sample comes with the first period that is not lost, the last one
\* is no older than the failed reads since, and the deadline keeps up with the
\* clock but for the periods lost.
CoverInv ==
  /\ t = <<>> => next <= Losses /\ (th # "ended" => now <= Losses)
  /\ t # <<>> => t[1] <= 2 * Losses
  /\ t # <<>> /\ ~ overflow => t[Len(t)] >= 2 * (next - 1 - bad)
  /\ th \in {"new", "sleep", "read"} => now <= next + late
  /\ pc = "settle" => wake = SETTLE
  /\ Measuring /\ pc # "settle" => SETTLE <= b0 /\ b0 <= now
  /\ pc \in {"tail", "join", "stats"} => b0 <= a1
  /\ pc = "tail" => wake = a1 + TAIL
  /\ pc = "join" => now >= a1 + TAIL
  /\ pc \in {"join", "stats"} => next + late >= a1 + TAIL

\* The clock is behind what is expected by no more than the lateness, so that
\* the buffer overflows only in a measurement that takes longer than it has
\* room for.
RoomInv ==
  /\ pc \in {"settle", "idle"} => w0 = 0 /\ w1 = 0
  /\ pc = "run" => w0 <= SETTLE + IDLE + late /\ w0 <= wake
  /\ pc \in {"after", "tail", "join", "stats"} => w0 <= w1
  /\ pc \in {"settle", "idle", "run", "after", "tail"} \/ (pc = "join" /\ th = "read") =>
       now <= Expected + late
  /\ pc \in {"settle", "idle", "run", "after", "tail"} => wake <= Expected + late
  /\ Measuring /\ overflow => CAP <= Expected + late

\* An attempt that was given up had a reason.
GivenUpInv == rc = 4 => pc = "done" /\ NotDiscarded

\* The inductive invariant of the measurement.
MeasureInv == TypeInv /\ PhaseInv /\ DeadlineInv /\ PaceInv /\ CoverInv /\ RoomInv /\ GivenUpInv

\* The inductive invariant of what is kept on the board.
KeptInv ==
  arch = "aarch64" =>
    /\ pc \notin {"probe", "likwid"}
    /\ tried = {} => kept = Nothing
    /\ tried # {} => kept \in tried
    /\ \A x \in tried : x.dev \in Nat /\ kept.dev <= x.dev
    /\ pc = "write" \/ rc = 0 => tried # {}

------------------------------------------------------------------------------
\* What a sample changes in the stamps.
LEMMA AppendFacts ==
  ASSUME NEW s \in Seq(Int), NEW v \in Int
  PROVE  /\ Append(s, v) \in Seq(Int) /\ Append(s, v) # <<>>
         /\ Len(Append(s, v)) = Len(s) + 1 /\ Append(s, v)[Len(s) + 1] = v
         /\ s = <<>> => Append(s, v)[1] = v
         /\ s # <<>> => Append(s, v)[1] = s[1]
OBVIOUS

\* Stamps that are there are integers.
LEMMA StampFacts ==
  ASSUME NEW s \in Seq(Int)
  PROVE  /\ Len(s) \in Nat /\ (s = <<>> <=> Len(s) = 0)
         /\ s # <<>> => s[1] \in Int /\ s[Len(s)] \in Int
OBVIOUS

\* The sleeps are naturals.
LEMMA Times ==
  SETTLE \in Nat /\ IDLE \in Nat /\ RUN \in Nat /\ TAIL \in Nat /\ SLACK \in Nat
BY TimesAssumption

\* The shorter of the two sleeps around the windows.
LEMMA Shorter ==
  /\ Min({SETTLE, TAIL}) \in Nat
  /\ Min({SETTLE, TAIL}) <= SETTLE /\ Min({SETTLE, TAIL}) <= TAIL
<1>1. \E m \in {SETTLE, TAIL} : \A x \in {SETTLE, TAIL} : m <= x
  BY Times
<1>2. Min({SETTLE, TAIL}) \in {SETTLE, TAIL} /\ \A x \in {SETTLE, TAIL} : Min({SETTLE, TAIL}) <= x
  BY <1>1 DEF Min
<1> QED
  BY <1>2, Times

\* A step of the thread keeps the invariant.
LEMMA ThreadStep ==
  ASSUME MeasureInv, Thread
  PROVE  MeasureInv'
<1> USE SamplerAssumption, Times, Shorter
<1>1. TypeInv /\ PhaseInv /\ DeadlineInv /\ PaceInv /\ CoverInv /\ RoomInv /\ GivenUpInv
  BY DEF MeasureInv
<1>2. /\ UNCHANGED <<arch, pc, wake, b0, b1, w0, w1, a0, a1, n, k, kept, tried, db, rc>>
      /\ Begin \/ Deadline \/ Read
  BY DEF Thread, windows, ina260_loop
<1>3. Len(t) \in Nat /\ (t = <<>> <=> Len(t) = 0) /\ (t # <<>> => t[1] \in Int /\ t[Len(t)] \in Int)
  BY <1>1, StampFacts DEF TypeInv
<1>4. CASE Begin
  <2>1. TypeInv'
    BY <1>1, <1>2, <1>4 DEF Begin, TypeInv, buffer
  <2>2. PhaseInv'
    BY <1>1, <1>2, <1>4 DEF Begin, PhaseInv
  <2>3. DeadlineInv'
    BY <1>1, <1>4 DEF Begin, TypeInv, buffer, DeadlineInv
  <2>4. PaceInv'
    BY <1>1, <1>4 DEF Begin, buffer, PaceInv, DeadlineInv
  <2>5. CoverInv'
    BY <1>1, <1>2, <1>4
       DEF Begin, TypeInv, buffer, CoverInv, Losses, Measuring, PhaseInv, DeadlineInv
  <2>6. RoomInv'
    BY <1>1, <1>2, <1>4 DEF Begin, buffer, RoomInv, Expected, Measuring
  <2>7. GivenUpInv'
    BY <1>1, <1>2, <1>4 DEF Begin, GivenUpInv, NotDiscarded
  <2> QED
    BY <2>1, <2>2, <2>3, <2>4, <2>5, <2>6, <2>7 DEF MeasureInv
<1>5. CASE Deadline
  <2>1. TypeInv'
    BY <1>1, <1>2, <1>5 DEF Deadline, TypeInv, buffer
  <2>2. PhaseInv'
    BY <1>1, <1>2, <1>5 DEF Deadline, PhaseInv
  <2>3. DeadlineInv'
    BY <1>1, <1>5 DEF Deadline, TypeInv, buffer, DeadlineInv
  <2>4. PaceInv'
    BY <1>1, <1>5 DEF Deadline, buffer, PaceInv
  <2>5. CoverInv'
    BY <1>1, <1>2, <1>5 DEF Deadline, buffer, CoverInv, Losses, Measuring
  <2>6. RoomInv'
    BY <1>1, <1>2, <1>5 DEF Deadline, buffer, RoomInv, Expected, Measuring, PhaseInv
  <2>7. GivenUpInv'
    BY <1>1, <1>2, <1>5 DEF Deadline, GivenUpInv, NotDiscarded
  <2> QED
    BY <2>1, <2>2, <2>3, <2>4, <2>5, <2>6, <2>7 DEF MeasureInv
<1>6. CASE Read
  <2>1. /\ th = "read" /\ th' = "sleep" /\ next' = next + 1
        /\ UNCHANGED <<now, run, began, late>>
        /\ next <= began /\ began <= now
    BY <1>1, <1>6 DEF Read, DeadlineInv
  <2>2. \/ Len(t) < CAP /\ t' = Append(t, began + now) /\ UNCHANGED <<overflow, bad>>
        \/ Len(t) >= CAP /\ overflow' = TRUE /\ UNCHANGED <<t, bad>>
        \/ bad' = bad + 1 /\ UNCHANGED <<t, overflow>>
    BY <1>1, <1>6 DEF Read, buffer
  <2>3. CASE Len(t) < CAP /\ t' = Append(t, began + now) /\ UNCHANGED <<overflow, bad>>
    <3>0. /\ t' \in Seq(Int) /\ t' # <<>> /\ Len(t') = Len(t) + 1 /\ t'[Len(t')] = began + now
          /\ t = <<>> => t'[1] = began + now
          /\ t # <<>> => t'[1] = t[1]
          /\ UNCHANGED <<overflow, bad>>
      BY <1>1, <2>3, AppendFacts DEF TypeInv
    <3>1. TypeInv'
      BY <1>1, <1>2, <2>1, <2>3 DEF TypeInv
    <3>2. PhaseInv'
      BY <1>1, <1>2, <2>1, <2>3 DEF PhaseInv
    <3>3. DeadlineInv'
      BY <1>1, <2>1, <2>3 DEF TypeInv, DeadlineInv
    <3>4. PaceInv'
      <4>1. now \in Nat /\ next \in Nat /\ began \in Nat /\ bad \in Nat
        BY <1>1 DEF TypeInv
      <4>2. CASE t = <<>>
        BY <2>1, <3>0, <4>1, <4>2 DEF PaceInv
      <4>3. CASE t # <<>>
        BY <1>1, <2>1, <3>0, <4>1, <4>3 DEF PaceInv
      <4> QED
        BY <4>2, <4>3
    <3>5. CoverInv'
      BY <1>1, <1>2, <2>1, <2>3 DEF TypeInv, CoverInv, Losses, Measuring
    <3>6. RoomInv'
      BY <1>1, <1>2, <2>1, <2>3 DEF RoomInv, Expected, Measuring
    <3>7. GivenUpInv'
      BY <1>1, <1>2, <2>1, <2>3 DEF GivenUpInv, NotDiscarded
    <3> QED
      BY <3>1, <3>2, <3>3, <3>4, <3>5, <3>6, <3>7 DEF MeasureInv
  <2>4. CASE Len(t) >= CAP /\ overflow' = TRUE /\ UNCHANGED <<t, bad>>
    <3>1. TypeInv'
      BY <1>1, <1>2, <2>1, <2>4 DEF TypeInv
    <3>2. PhaseInv'
      BY <1>1, <1>2, <2>1, <2>4 DEF PhaseInv
    <3>3. DeadlineInv'
      BY <1>1, <2>1, <2>4 DEF TypeInv, DeadlineInv
    <3>4. PaceInv'
      BY <1>1, <2>4 DEF PaceInv
    <3>5. CoverInv'
      BY <1>1, <1>2, <2>1, <2>4 DEF TypeInv, CoverInv, Losses, Measuring
    <3>6. RoomInv'
      BY <1>1, <1>2, <2>1, <2>4
         DEF TypeInv, RoomInv, Expected, Measuring, PhaseInv, DeadlineInv
    <3>7. GivenUpInv'
      BY <1>1, <1>2, <2>1, <2>4 DEF GivenUpInv, NotDiscarded
    <3> QED
      BY <3>1, <3>2, <3>3, <3>4, <3>5, <3>6, <3>7 DEF MeasureInv
  <2>5. CASE bad' = bad + 1 /\ UNCHANGED <<t, overflow>>
    <3>1. TypeInv'
      BY <1>1, <1>2, <2>1, <2>5 DEF TypeInv
    <3>2. PhaseInv'
      BY <1>1, <1>2, <2>1, <2>5 DEF PhaseInv
    <3>3. DeadlineInv'
      BY <1>1, <2>1, <2>5 DEF TypeInv, DeadlineInv
    <3>4. PaceInv'
      BY <1>1, <2>1, <2>5 DEF TypeInv, PaceInv
    <3>5. CoverInv'
      BY <1>1, <1>2, <2>1, <2>5 DEF TypeInv, CoverInv, Losses, Measuring
    <3>6. RoomInv'
      BY <1>1, <1>2, <2>1, <2>5 DEF RoomInv, Expected, Measuring
    <3>7. GivenUpInv'
      BY <1>1, <1>2, <2>1, <2>5 DEF TypeInv, GivenUpInv, NotDiscarded
    <3> QED
      BY <3>1, <3>2, <3>3, <3>4, <3>5, <3>6, <3>7 DEF MeasureInv
  <2> QED
    BY <2>2, <2>3, <2>4, <2>5
<1> QED
  BY <1>2, <1>4, <1>5, <1>6

\* A period that passes keeps the invariant: either it is lost, or no thread
\* was ready, the deadline is ahead and main sleeps on.
LEMMA TimeStep ==
  ASSUME MeasureInv, Time
  PROVE  MeasureInv'
<1> USE SamplerAssumption, Times, Shorter
<1>1. TypeInv /\ PhaseInv /\ DeadlineInv /\ PaceInv /\ CoverInv /\ RoomInv /\ GivenUpInv
  BY DEF MeasureInv
<1>2. Len(t) \in Nat /\ (t = <<>> <=> Len(t) = 0) /\ (t # <<>> => t[1] \in Int /\ t[Len(t)] \in Int)
  BY <1>1, StampFacts DEF TypeInv
<1>3. /\ now' = now + 1 /\ Sampling
      /\ \/ late' = late + 1
         \/ UNCHANGED late /\ ~ Ready /\ ~ Busy
      /\ UNCHANGED <<run, th, next, began, t, overflow, bad>>
      /\ UNCHANGED <<arch, pc, wake, b0, b1, w0, w1, a0, a1, n, k, kept, tried, db, rc>>
  BY DEF Time, Tick, thread, buffer, windows
<1>4. TypeInv'
  BY <1>1, <1>3 DEF TypeInv
<1>5. PhaseInv'
  BY <1>1, <1>3 DEF PhaseInv
<1>6. DeadlineInv'
  BY <1>1, <1>3 DEF TypeInv, DeadlineInv
<1>7. PaceInv'
  BY <1>1, <1>3 DEF PaceInv
<1>8. CoverInv'
  <2>1. now \in Nat /\ next \in Nat /\ late \in Nat /\ bad \in Nat /\ b0 \in Nat /\ a1 \in Nat
    BY <1>1 DEF TypeInv
  <2>2. CASE late' = late + 1
    BY <1>1, <1>2, <1>3, <2>1, <2>2 DEF CoverInv, Losses, Measuring
  <2>3. CASE UNCHANGED late /\ ~ Ready /\ ~ Busy
    <3>1. th = "ended" \/ (th = "sleep" /\ now < next)
      BY <1>1, <1>3, <2>3 DEF TypeInv, PhaseInv, Ready, Sampling
    <3> QED
      BY <1>1, <1>2, <1>3, <2>1, <2>3, <3>1 DEF CoverInv, Losses, Measuring
  <2> QED
    BY <1>3, <2>2, <2>3
<1>9. RoomInv'
  BY <1>1, <1>3 DEF TypeInv, Ready, Busy, RoomInv, Expected, Measuring
<1>10. GivenUpInv'
  BY <1>1, <1>3 DEF Sampling, GivenUpInv
<1> QED
  BY <1>4, <1>5, <1>6, <1>7, <1>8, <1>9, <1>10 DEF MeasureInv

\* The steps of main that sample keep the invariant.
LEMMA SampleStep ==
  ASSUME MeasureInv, Start \/ Settled \/ IdleBefore \/ Ran \/ IdleAfter \/ Stop \/ Join
  PROVE  MeasureInv'
<1> USE SamplerAssumption, Times, Shorter
<1>1. TypeInv /\ PhaseInv /\ DeadlineInv /\ PaceInv /\ CoverInv /\ RoomInv /\ GivenUpInv
  BY DEF MeasureInv
<1>2. Len(t) \in Nat /\ (t = <<>> <=> Len(t) = 0) /\ (t # <<>> => t[1] \in Int /\ t[Len(t)] \in Int)
  BY <1>1, StampFacts DEF TypeInv
<1>3. CASE Start
  <2>1. CASE ina260_start /\ pc' = "settle" /\ wake' = SETTLE /\ UNCHANGED rc
    <3>1. /\ now' = 0 /\ run' = TRUE /\ th' = "new" /\ next' = 0 /\ began' = 0
          /\ t' = <<>> /\ overflow' = FALSE /\ UNCHANGED <<late, bad>>
          /\ b0' = 0 /\ b1' = 0 /\ w0' = 0 /\ w1' = 0 /\ a0' = 0 /\ a1' = 0 /\ n' = 0
          /\ rc # 4
      BY <1>1, <1>3, <2>1 DEF Start, ina260_start, GivenUpInv
    <3>2. t' \in Seq(Int) /\ Len(t') = 0 /\ Len(t') <= CAP
      BY <3>1
    <3>3. TypeInv'
      BY <1>1, <2>1, <3>1, <3>2 DEF TypeInv
    <3>4. PhaseInv'
      BY <1>1, <2>1, <3>1, <3>2 DEF PhaseInv
    <3>5. DeadlineInv'
      BY <1>1, <3>1, <3>2 DEF DeadlineInv
    <3>6. PaceInv'
      BY <1>1, <3>1, <3>2 DEF PaceInv
    <3>7. CoverInv'
      BY <1>1, <2>1, <3>1, <3>2 DEF TypeInv, CoverInv, Losses
    <3>8. RoomInv'
      BY <1>1, <2>1, <3>1, <3>2 DEF TypeInv, RoomInv, Expected
    <3>9. GivenUpInv'
      BY <1>1, <2>1, <3>1, <3>2 DEF GivenUpInv
    <3> QED
      BY <3>3, <3>4, <3>5, <3>6, <3>7, <3>8, <3>9 DEF MeasureInv
  <2>2. CASE Exit(3) /\ UNCHANGED <<svars, wake>>
    <3>1. /\ UNCHANGED <<now, run, th, next, began, t, overflow, late, bad, wake>>
          /\ b0' = 0 /\ b1' = 0 /\ w0' = 0 /\ w1' = 0 /\ a0' = 0 /\ a1' = 0 /\ n' = 0
          /\ pc = "start" /\ pc' = "done" /\ rc' = 3
      BY <1>3, <2>2 DEF Start, Exit, svars
    <3>2. TypeInv'
      BY <1>1, <3>1 DEF TypeInv
    <3>3. PhaseInv'
      BY <1>1, <3>1 DEF PhaseInv
    <3>4. DeadlineInv'
      BY <1>1, <3>1 DEF DeadlineInv
    <3>5. PaceInv'
      BY <1>1, <3>1 DEF PaceInv
    <3>6. CoverInv'
      BY <1>1, <3>1 DEF CoverInv, Losses, Measuring
    <3>7. RoomInv'
      BY <1>1, <3>1 DEF RoomInv, Measuring
    <3>8. GivenUpInv'
      BY <1>1, <3>1 DEF GivenUpInv
    <3> QED
      BY <3>2, <3>3, <3>4, <3>5, <3>6, <3>7, <3>8 DEF MeasureInv
  <2> QED
    BY <1>3, <2>1, <2>2 DEF Start
<1>4. CASE Settled
  <2>1. TypeInv'
    BY <1>1, <1>4 DEF Settled, SleepFor, svars, TypeInv
  <2>2. PhaseInv'
    BY <1>1, <1>4 DEF Settled, Slept, svars, PhaseInv
  <2>3. DeadlineInv'
    BY <1>1, <1>4 DEF Settled, svars, DeadlineInv
  <2>4. PaceInv'
    BY <1>1, <1>4 DEF Settled, svars, PaceInv
  <2>5. CoverInv'
    BY <1>1, <1>4 DEF Settled, Slept, svars, TypeInv, CoverInv, Losses
  <2>6. RoomInv'
    BY <1>1, <1>4
       DEF Settled, Slept, SleepFor, svars, TypeInv, RoomInv, Expected, Measuring
  <2>7. GivenUpInv'
    BY <1>1, <1>4 DEF Settled, Slept, Quiet, GivenUpInv
  <2> QED
    BY <2>1, <2>2, <2>3, <2>4, <2>5, <2>6, <2>7 DEF MeasureInv
<1>5. CASE IdleBefore
  <2>1. TypeInv'
    BY <1>1, <1>5, TimesAssumption DEF IdleBefore, SleepFor, svars, TypeInv
  <2>2. PhaseInv'
    BY <1>1, <1>5 DEF IdleBefore, Slept, svars, PhaseInv
  <2>3. DeadlineInv'
    BY <1>1, <1>5 DEF IdleBefore, svars, DeadlineInv
  <2>4. PaceInv'
    BY <1>1, <1>5 DEF IdleBefore, svars, PaceInv
  <2>5. CoverInv'
    BY <1>1, <1>5 DEF IdleBefore, Slept, svars, CoverInv, Losses, Measuring
  <2>6. RoomInv'
    <3>1. now \in Nat /\ late \in Nat /\ w0 \in Nat /\ w1 \in Nat /\ CAP \in Nat
      BY <1>1 DEF TypeInv
    <3>2. /\ w0 = 0 /\ w1 = 0 /\ now <= SETTLE + IDLE + late
          /\ overflow => CAP <= SETTLE + IDLE + late
      BY <1>1, <1>5, <3>1 DEF IdleBefore, Slept, RoomInv, Expected, Measuring
    <3>3. w1' = w1 /\ UNCHANGED <<now, th, overflow, late>>
      BY <1>5 DEF IdleBefore, svars
    <3>4. CASE pc' = "run" /\ w0' = now /\ \E over \in Overruns : SleepFor(RUN + over)
      <4>1. PICK over \in Nat : wake' = now + (RUN + over)
        BY <3>4, TimesAssumption DEF SleepFor
      <4> QED
        BY <3>1, <3>2, <3>3, <3>4, <4>1 DEF RoomInv, Expected
    <3>5. CASE pc' = "after" /\ UNCHANGED w0 /\ SleepFor(IDLE)
      BY <3>1, <3>2, <3>3, <3>5 DEF SleepFor, RoomInv, Expected
    <3> QED
      BY <1>5, <3>4, <3>5 DEF IdleBefore
  <2>7. GivenUpInv'
    BY <1>1, <1>5 DEF IdleBefore, Slept, Quiet, GivenUpInv
  <2> QED
    BY <2>1, <2>2, <2>3, <2>4, <2>5, <2>6, <2>7 DEF MeasureInv
<1>6. CASE Ran
  <2>1. TypeInv'
    BY <1>1, <1>6 DEF Ran, SleepFor, svars, TypeInv
  <2>2. PhaseInv'
    BY <1>1, <1>6 DEF Ran, Slept, svars, PhaseInv
  <2>3. DeadlineInv'
    BY <1>1, <1>6 DEF Ran, svars, DeadlineInv
  <2>4. PaceInv'
    BY <1>1, <1>6 DEF Ran, svars, PaceInv
  <2>5. CoverInv'
    BY <1>1, <1>6 DEF Ran, Slept, svars, CoverInv, Losses, Measuring
  <2>6. RoomInv'
    BY <1>1, <1>6 DEF Ran, Slept, SleepFor, svars, TypeInv, RoomInv, Expected, Measuring
  <2>7. GivenUpInv'
    BY <1>1, <1>6 DEF Ran, Slept, Quiet, GivenUpInv
  <2> QED
    BY <2>1, <2>2, <2>3, <2>4, <2>5, <2>6, <2>7 DEF MeasureInv
<1>7. CASE IdleAfter
  <2>1. TypeInv'
    BY <1>1, <1>7 DEF IdleAfter, SleepFor, svars, TypeInv
  <2>2. PhaseInv'
    BY <1>1, <1>7 DEF IdleAfter, Slept, svars, PhaseInv
  <2>3. DeadlineInv'
    BY <1>1, <1>7 DEF IdleAfter, svars, DeadlineInv
  <2>4. PaceInv'
    BY <1>1, <1>7 DEF IdleAfter, svars, PaceInv
  <2>5. CoverInv'
    BY <1>1, <1>7 DEF IdleAfter, Slept, SleepFor, svars, CoverInv, Losses, Measuring
  <2>6. RoomInv'
    BY <1>1, <1>7
       DEF IdleAfter, Slept, SleepFor, svars, TypeInv, RoomInv, Expected, Measuring
  <2>7. GivenUpInv'
    BY <1>1, <1>7 DEF IdleAfter, Slept, Quiet, GivenUpInv
  <2> QED
    BY <2>1, <2>2, <2>3, <2>4, <2>5, <2>6, <2>7 DEF MeasureInv
<1>8. CASE Stop
  <2>1. TypeInv'
    BY <1>1, <1>8 DEF Stop, thread, buffer, windows, TypeInv
  <2>2. PhaseInv'
    BY <1>1, <1>8 DEF Stop, Slept, thread, PhaseInv
  <2>3. DeadlineInv'
    BY <1>1, <1>8 DEF Stop, thread, buffer, DeadlineInv
  <2>4. PaceInv'
    BY <1>1, <1>8 DEF Stop, thread, buffer, PaceInv
  <2>5. CoverInv'
    BY <1>1, <1>8
       DEF Stop, Slept, thread, buffer, windows, TypeInv, PhaseInv, CoverInv, Losses,
           Measuring
  <2>6. RoomInv'
    BY <1>1, <1>8 DEF Stop, Slept, buffer, windows, RoomInv, Expected, Measuring
  <2>7. GivenUpInv'
    BY <1>1, <1>8 DEF Stop, Slept, Quiet, GivenUpInv
  <2> QED
    BY <2>1, <2>2, <2>3, <2>4, <2>5, <2>6, <2>7 DEF MeasureInv
<1>9. CASE Join
  <2>1. TypeInv'
    BY <1>1, <1>9 DEF Join, svars, windows, TypeInv
  <2>2. PhaseInv'
    BY <1>1, <1>9 DEF Join, svars, PhaseInv
  <2>3. DeadlineInv'
    BY <1>1, <1>9 DEF Join, svars, DeadlineInv
  <2>4. PaceInv'
    BY <1>1, <1>9 DEF Join, svars, PaceInv
  <2>5. CoverInv'
    BY <1>1, <1>9 DEF Join, svars, windows, CoverInv, Losses, Measuring
  <2>6. RoomInv'
    BY <1>1, <1>9 DEF Join, svars, windows, RoomInv, Expected, Measuring
  <2>7. GivenUpInv'
    BY <1>1, <1>9 DEF Join, Quiet, GivenUpInv
  <2> QED
    BY <2>1, <2>2, <2>3, <2>4, <2>5, <2>6, <2>7 DEF MeasureInv
<1> QED
  BY <1>3, <1>4, <1>5, <1>6, <1>7, <1>8, <1>9

\* The other steps of main, apart from giving up, do not touch the sampler.
LEMMA OtherStep ==
  ASSUME MeasureInv, Open \/ Evaluate \/ Probe \/ Likwid \/ Write
  PROVE  MeasureInv'
<1> USE SamplerAssumption, Times, Shorter
<1>1. TypeInv /\ PhaseInv /\ DeadlineInv /\ PaceInv /\ CoverInv /\ RoomInv /\ GivenUpInv
  BY DEF MeasureInv
<1>2. /\ UNCHANGED <<now, run, th, next, began, t, overflow, late, bad>>
      /\ UNCHANGED <<wake, b0, b1, w0, w1, a0, a1, n>>
      /\ pc # "done" /\ pc' \in {"start", "likwid", "write", "done"}
      /\ rc' = rc \/ rc' \in {0, 3, 5, 6, 7}
  <2>1. CASE Open
    BY <2>1 DEF Open, Exit, svars, windows
  <2>2. CASE Evaluate
    BY <2>2 DEF Evaluate, svars, windows
  <2>3. CASE Probe
    BY <2>3 DEF Probe, Exit, svars, windows
  <2>4. CASE Likwid
    BY <2>4 DEF Likwid, Exit, svars, windows
  <2>5. CASE Write
    BY <2>5 DEF Write, Exit, svars, windows
  <2> QED
    BY <2>1, <2>2, <2>3, <2>4, <2>5
<1>3. TypeInv'
  BY <1>1, <1>2 DEF TypeInv
<1>4. PhaseInv'
  BY <1>1, <1>2 DEF PhaseInv
<1>5. DeadlineInv'
  BY <1>1, <1>2 DEF DeadlineInv
<1>6. PaceInv'
  BY <1>1, <1>2 DEF PaceInv
<1>7. CoverInv'
  BY <1>1, <1>2 DEF CoverInv, Losses, Measuring
<1>8. RoomInv'
  BY <1>1, <1>2 DEF RoomInv, Measuring
<1>9. GivenUpInv'
  BY <1>1, <1>2 DEF GivenUpInv
<1> QED
  BY <1>3, <1>4, <1>5, <1>6, <1>7, <1>8, <1>9 DEF MeasureInv

\* An attempt that fails although the backend ran has lost periods that reach
\* into the windows, or was too long for the buffer.
LEMMA FailReason ==
  ASSUME MeasureInv, pc = "stats", Failed, n # 0, Losses < Min({SETTLE, TAIL})
  PROVE  SETTLE + (w1 - w0) + TAIL + late >= RUN + SLACK
<1> USE SamplerAssumption, Times, Shorter
<1>1. TypeInv /\ CoverInv /\ RoomInv
  BY DEF MeasureInv
<1>2. Len(t) \in Nat /\ (t = <<>> <=> Len(t) = 0) /\ (t # <<>> => t[1] \in Int /\ t[Len(t)] \in Int)
  BY <1>1, StampFacts DEF TypeInv
<1>3. CASE overflow
  <2>1. CAP <= SETTLE + IDLE + (w1 - w0) + IDLE + TAIL + late
    BY <1>1, <1>3 DEF RoomInv, Expected, Measuring
  <2> QED
    BY <1>1, <2>1, ProfileAssumption DEF TypeInv
<1>4. CASE ~ overflow
  <2>1. /\ SETTLE <= b0 /\ b0 <= a1 /\ next + late >= a1 + TAIL
        /\ t = <<>> => next <= Losses
        /\ t # <<>> => t[1] <= 2 * Losses /\ t[Len(t)] >= 2 * (next - 1 - bad)
    BY <1>1, <1>4 DEF CoverInv, Measuring
  <2>2. Losses < SETTLE /\ Losses < TAIL /\ late \in Nat /\ bad \in Nat /\ Losses = late + bad
    BY <1>1 DEF TypeInv, Losses
  <2>3. t # <<>>
    BY <1>1, <2>1, <2>2 DEF TypeInv
  <2>4. t[1] <= 2 * b0 /\ t[Len(t)] >= 2 * a1 /\ t[1] < 2 * a1
    BY <1>1, <2>1, <2>2, <2>3 DEF TypeInv
  <2>5. Len(t) >= 2
    BY <2>3, <2>4, <1>1 DEF TypeInv
  <2> QED
    BY <1>4, <2>4, <2>5 DEF Failed, ina260_covers
<1> QED
  BY <1>3, <1>4

\* Giving up keeps the invariant.
LEMMA FailStep ==
  ASSUME MeasureInv, Fail
  PROVE  MeasureInv'
<1>1. TypeInv /\ PhaseInv /\ DeadlineInv /\ PaceInv /\ CoverInv /\ RoomInv /\ GivenUpInv
  BY DEF MeasureInv
<1>2. /\ UNCHANGED <<now, run, th, next, began, t, overflow, late, bad>>
      /\ UNCHANGED <<wake, b0, b1, w0, w1, a0, a1, n>>
      /\ pc = "stats" /\ pc' = "done" /\ rc' = 4 /\ Failed
  BY DEF Fail, Exit, svars, windows
<1>3. TypeInv'
  BY <1>1, <1>2 DEF TypeInv
<1>4. PhaseInv'
  BY <1>1, <1>2 DEF PhaseInv
<1>5. DeadlineInv'
  BY <1>1, <1>2 DEF DeadlineInv
<1>6. PaceInv'
  BY <1>1, <1>2 DEF PaceInv
<1>7. CoverInv'
  BY <1>1, <1>2 DEF CoverInv, Losses, Measuring
<1>8. RoomInv'
  BY <1>1, <1>2 DEF RoomInv, Measuring
<1>9. GivenUpInv'
  <2>1. NotDiscarded'
    <3>1. \/ n = 0
          \/ Losses >= Min({SETTLE, TAIL})
          \/ SETTLE + (w1 - w0) + TAIL + late >= RUN + SLACK
      BY <1>1, <1>2, FailReason, Shorter DEF TypeInv, Losses
    <3> QED
      BY <1>2, <3>1 DEF NotDiscarded, Losses
  <2> QED
    BY <1>2, <2>1 DEF GivenUpInv
<1> QED
  BY <1>3, <1>4, <1>5, <1>6, <1>7, <1>8, <1>9 DEF MeasureInv

\* The invariant of the measurement.
LEMMA MeasureInvariant == Spec => []MeasureInv
<1>1. Init => MeasureInv
  <2> SUFFICES ASSUME Init PROVE MeasureInv
    OBVIOUS
  <2>1. t = <<>> /\ t \in Seq(Int) /\ Len(t) = 0 /\ Len(t) <= CAP /\ pc \in {"open", "probe"}
    BY SamplerAssumption DEF Init, SamplerInit
  <2>2. TypeInv
    <3>1. /\ now = 0 /\ next = 0 /\ began = 0 /\ late = 0 /\ bad = 0
          /\ run = FALSE /\ overflow = FALSE /\ th = "none"
          /\ wake = 0 /\ b0 = 0 /\ b1 = 0 /\ w0 = 0 /\ w1 = 0 /\ a0 = 0 /\ a1 = 0
      BY DEF Init, SamplerInit
    <3> QED
      BY <2>1, <3>1 DEF TypeInv
  <2>3. PhaseInv /\ DeadlineInv /\ PaceInv
    BY <2>1 DEF Init, SamplerInit, PhaseInv, DeadlineInv, PaceInv
  <2>4. CoverInv /\ RoomInv /\ GivenUpInv
    BY <2>1 DEF Init, SamplerInit, CoverInv, Losses, Measuring, RoomInv, GivenUpInv
  <2> QED
    BY <2>2, <2>3, <2>4 DEF MeasureInv
<1>2. MeasureInv /\ [Next]_vars => MeasureInv'
  <2> SUFFICES ASSUME MeasureInv, [Next]_vars PROVE MeasureInv'
    OBVIOUS
  <2>1. CASE UNCHANGED vars
    BY <2>1
       DEF vars, svars, MeasureInv, TypeInv, PhaseInv, DeadlineInv, PaceInv, CoverInv,
           Losses,
                Measuring, RoomInv, Expected, GivenUpInv, NotDiscarded
  <2>2. CASE Next
    BY <2>2, ThreadStep, TimeStep, SampleStep, OtherStep, FailStep
       DEF Next, Main, Steps, Judge
  <2> QED
    BY <2>1, <2>2
<1> QED
  BY <1>1, <1>2, PTL DEF Spec

------------------------------------------------------------------------------
\* Main reads the buffer only after the thread has ended, and the thread never
\* writes past the end of the buffer.
THEOREM BufferExclusive == Spec => []Exclusive
<1>1. MeasureInv => Exclusive
  BY DEF MeasureInv, TypeInv, PhaseInv, Exclusive
<1> QED
  BY <1>1, MeasureInvariant, PTL

\* The thread keeps to its absolute deadlines: a late one catches up, and none
\* takes more samples than periods have passed.
THEOREM SamplesPaced == Spec => []Paced
<1>1. MeasureInv => Paced
  <2> SUFFICES ASSUME MeasureInv PROVE Paced
    OBVIOUS
  <2>1. TypeInv /\ DeadlineInv /\ PaceInv
    BY DEF MeasureInv
  <2>2. Len(t) \in Nat /\ (t # <<>> => t[1] \in Int)
    BY <2>1, StampFacts DEF TypeInv
  <2>3. Len(t) <= now + 1
    BY <2>1, <2>2 DEF TypeInv, DeadlineInv
  <2>4. ASSUME now < next, t # <<>>, ~ overflow
        PROVE  Len(t) + bad > now - t[1] \div 2
    <3>1. 2 * next <= t[1] + 2 * Len(t) + 2 * bad
      BY <2>1, <2>4 DEF PaceInv
    <3>2. t[1] \div 2 \in Int /\ t[1] <= 2 * (t[1] \div 2) + 1
      BY <2>2, <2>4
    <3> QED
      BY <2>1, <2>2, <2>4, <3>1, <3>2 DEF TypeInv
  <2> QED
    BY <2>3, <2>4 DEF Paced
<1> QED
  BY <1>1, MeasureInvariant, PTL

\* An attempt is given up only if the backend did not run, if losses reach into
\* the windows, or if the run was too long for the buffer.
THEOREM GivenUpForCause == Spec => []NotDiscarded
<1>1. MeasureInv => NotDiscarded
  BY DEF MeasureInv, GivenUpInv, NotDiscarded
<1> QED
  BY <1>1, MeasureInvariant, PTL
------------------------------------------------------------------------------
\* What the theorem below needs of the estimator, be it the median of the
\* block means or another: a level is a number.
RobustInteger == \A x \in Window : DOMAIN x.p = DOMAIN x.t => robust[x] \in Int

\* The deviation of an attempt is not negative, as the initial best is.
LEMMA DeviationNat ==
  ASSUME RobustInteger, TypeInv, NEW burst \in Bursts
  PROVE  Attempt(burst).dev \in Nat
<1> DEFINE P == Powers(burst)
           pre == robust[Samples(P, 2 * b0, 2 * b1)]
           post == robust[Samples(P, 2 * a0, 2 * a1)]
           h1 == robust[Samples(P, 2 * w0, w0 + w1)]
           h2 == robust[Samples(P, w0 + w1, 2 * w1)]
           net == robust[Samples(P, 2 * w0, 2 * w1)] - ((pre + post) \div 2)
<1>1. t \in Seq(Int) /\ P \in Seq(Int) /\ DOMAIN P = DOMAIN t
  <2>1. t \in Seq(Int)
    BY DEF TypeInv
  <2>2. IdleW \in Int /\ LoadW \in Int /\ burst[3] \in Int
    BY PowersAssumption
  <2>3. DOMAIN P = DOMAIN t /\ \A i \in DOMAIN t : P[i] \in Int
    BY <2>2 DEF Powers
  <2>4. DOMAIN t = 1..Len(t) /\ Len(t) \in Nat
    BY <2>1
  <2>5. P \in [1..Len(t) -> Int]
    BY <2>3, <2>4 DEF Powers
  <2> QED
    BY <2>1, <2>3, <2>4, <2>5
<1> HIDE DEF P
<1>2. \A u, v \in Int : robust[Samples(P, u, v)] \in Int
  <2> SUFFICES ASSUME NEW u \in Int, NEW v \in Int PROVE robust[Samples(P, u, v)] \in Int
    OBVIOUS
  <2>1. /\ Samples(P, u, v) \in Window
        /\ Samples(P, u, v).p = P /\ Samples(P, u, v).t = t
    BY <1>1 DEF Samples, Window
  <2> QED
    BY <1>1, <2>1 DEF RobustInteger
<1>3. pre \in Int /\ post \in Int /\ h1 \in Int /\ h2 \in Int
  <2>1. /\ 2 * b0 \in Int /\ 2 * b1 \in Int /\ 2 * a0 \in Int /\ 2 * a1 \in Int
        /\ 2 * w0 \in Int /\ w0 + w1 \in Int /\ 2 * w1 \in Int
    BY DEF TypeInv
  <2> QED
    BY <1>2, <2>1
<1>4. Attempt(burst).dev
        = IF net <= 0 THEN BUSY ELSE Deviation(Abs(pre - post), Abs(h1 - h2))
  BY DEF Attempt, P
<1> HIDE DEF pre, post, h1, h2, net
<1>5. Deviation(Abs(pre - post), Abs(h1 - h2)) \in Nat
  BY <1>3 DEF Deviation, Abs
<1> QED
  BY <1>4, <1>5, PowersAssumption

\* Judging an attempt keeps the cleanest.
LEMMA EvaluateKeeps ==
  ASSUME RobustInteger, TypeInv, KeptInv, GivenUpInv, Evaluate
  PROVE  KeptInv'
<1> SUFFICES ASSUME arch = "aarch64" PROVE KeptInv'
  BY DEF KeptInv, Evaluate
<1>1. PICK burst \in Bursts : /\ kept' = Cleanest(Attempt(burst))
                              /\ tried' = tried \cup {Attempt(burst)}
                              /\ pc' \in {"start", "write"} /\ arch' = arch
  BY DEF Evaluate
<1> DEFINE x == Attempt(burst)
<1>2. x.dev \in Nat
  BY DeviationNat
<1> HIDE DEF x
<1>3. kept' = (IF kept.dev < 0 \/ x.dev < kept.dev THEN x ELSE kept) /\ tried' = tried \cup {x}
  BY <1>1 DEF Cleanest, x
<1>4. CASE tried = {}
  <2>1. kept.dev = -1
    BY <1>4 DEF KeptInv, Nothing
  <2>2. kept' = x /\ tried' = {x}
    BY <1>3, <1>4, <2>1
  <2> QED
    BY <1>1, <1>2, <2>2 DEF KeptInv
<1>5. CASE tried # {}
  <2>1. kept \in tried /\ kept.dev \in Nat /\ \A y \in tried : y.dev \in Nat /\ kept.dev <= y.dev
    BY <1>5 DEF KeptInv
  <2>2. CASE x.dev < kept.dev
    <3>1. kept' = x
      BY <1>3, <2>2
    <3>2. \A y \in tried' : y.dev \in Nat /\ kept'.dev <= y.dev
      BY <1>2, <1>3, <2>1, <2>2, <3>1
    <3> QED
      BY <1>1, <1>3, <3>1, <3>2 DEF KeptInv
  <2>3. CASE ~ (x.dev < kept.dev)
    <3>1. kept' = kept
      BY <1>3, <2>1, <2>3
    <3>2. \A y \in tried' : y.dev \in Nat /\ kept'.dev <= y.dev
      BY <1>2, <1>3, <2>1, <2>3, <3>1
    <3> QED
      BY <1>1, <1>3, <2>1, <3>1, <3>2 DEF KeptInv
  <2> QED
    BY <2>2, <2>3
<1> QED
  BY <1>4, <1>5

\* What is kept stays the cleanest of the attempts.
LEMMA KeptInvariant ==
  ASSUME RobustInteger
  PROVE  Spec => []KeptInv
<1>1. Init => KeptInv
  BY DEF Init, KeptInv
<1>2. MeasureInv /\ KeptInv /\ [Next]_vars => KeptInv'
  <2> SUFFICES ASSUME MeasureInv, KeptInv, [Next]_vars PROVE KeptInv'
    OBVIOUS
  <2>1. TypeInv /\ GivenUpInv
    BY DEF MeasureInv
  <2>2. CASE Evaluate
    BY <2>1, <2>2, EvaluateKeeps
  <2>3. CASE Likwid
    BY <2>3 DEF Likwid, KeptInv
  <2>4. CASE Write
    BY <2>4 DEF Write, Exit, KeptInv
  <2>5. CASE UNCHANGED <<arch, kept, tried>> /\ pc' \notin {"probe", "write"}
             /\ (pc' = "likwid" => arch # "aarch64") /\ (rc' = 0 => rc = 0)
    BY <2>5 DEF KeptInv
  <2>6. CASE UNCHANGED vars
    BY <2>6 DEF vars, KeptInv
  <2>7. CASE UNCHANGED <<arch, pc, kept, tried, rc>>
    BY <2>7 DEF KeptInv
  <2>8. CASE Thread \/ Time
    BY <2>7, <2>8 DEF Thread, Time
  <2>9. CASE Open \/ Start \/ Fail
    BY <2>5, <2>9 DEF Open, Start, Fail, Exit
  <2>10. CASE Settled \/ IdleBefore \/ Ran \/ IdleAfter \/ Stop \/ Join
    BY <2>5, <2>10 DEF Settled, IdleBefore, Ran, IdleAfter, Stop, Join, Quiet
  <2>11. CASE Probe
    BY <2>5, <2>11 DEF Probe, Exit
  <2> QED
    BY <2>2, <2>3, <2>4, <2>6, <2>8, <2>9, <2>10, <2>11 DEF Next, Main, Steps, Judge
<1> QED
  BY <1>1, <1>2, MeasureInvariant, PTL DEF Spec

\* Whatever number the estimator gives for a level, the entry that the board
\* writes is that of one attempt, whole, and no attempt was cleaner.
THEOREM CleanestKept ==
  ASSUME RobustInteger
  PROVE  Spec => []KeptCleanest
<1>1. KeptInv => KeptCleanest
  BY DEF KeptInv, KeptCleanest
<1> QED
  BY <1>1, KeptInvariant, PTL
------------------------------------------------------------------------------
(***************************************************************************)
(* Which attempt is kept when some of them measured a power that is not    *)
(* positive.  Such an attempt counts with a deviation of BUSY, so that it  *)
(* loses to the others only if theirs stay below: the swings of power must *)
(* be smaller, and every level must be that of samples, not the 0 of an    *)
(* empty window.                                                           *)
(***************************************************************************)

\* What is assumed of the board: the backend and a burst together draw less
\* than BUSY, and fewer periods are lost than make a window or a half of the
\* run empty.
SmallSwings ==
  LoadW \in Nat /\ \A burst \in Bursts : burst[3] \in Nat /\ LoadW + burst[3] < BUSY
FewLosses == MaxLosses < IDLE /\ 2 * (MaxLosses + 1) <= RUN

\* What is assumed of the estimator: a level lies among the powers.
Among(x, lo, hi) == \A i \in DOMAIN x.p : x.p[i] \in lo..hi
RobustAmong ==
  \A x \in Window, lo, hi \in Int :
    /\ DOMAIN x.p = DOMAIN x.t /\ x.t0 < x.t1 /\ Inside(x) # {}
    /\ Among(x, lo, hi)
    => robust[x] \in lo..hi

\* The longest time from one sample to the next.
Gap == 2 * (MaxLosses + 1)

\* Samples that fit follow each other within Gap.
GapInv ==
  /\ Losses <= MaxLosses
  /\ ~ overflow => \A i \in 2..Len(t) : t[i] - t[i - 1] <= Gap

\* The windows are as long as the sleeps, and one follows the other.
WindowInv ==
  /\ pc \in {"settle", "idle", "run"} => n = 0
  /\ pc = "idle" => wake = b0 + IDLE
  /\ pc \in {"run", "after", "tail", "join", "stats"} => b0 + IDLE <= b1
  /\ pc = "run" => b1 <= w0 /\ w0 + RUN <= wake
  /\ pc \in {"after", "tail", "join", "stats"} /\ n # 0 =>
       b1 <= w0 /\ w0 + RUN <= w1 /\ w1 <= a0
  /\ pc = "after" => wake = a0 + IDLE
  /\ pc \in {"tail", "join", "stats"} => a0 + IDLE <= a1

\* Exactly the attempts with a power that is not positive have a deviation of
\* BUSY, and none has more; what likwid measured is positive.
PositiveInv ==
  /\ \A x \in tried : x.dev \in Nat /\ x.dev <= BUSY /\ (x.net <= 0 <=> x.dev = BUSY)
  /\ rc = 0 => pc = "done"
  /\ arch # "aarch64" =>
       /\ pc \in {"probe", "likwid", "write", "done"} /\ tried = {}
       /\ pc = "write" \/ rc = 0 => ~ (kept.net <= 0)
------------------------------------------------------------------------------
\* A sample follows the one before it within Gap: its stamp is no later than
\* the clock, which is ahead of the deadline by the lateness at most, and the
\* one before is no older than the failed reads since.
LEMMA ReadGap ==
  ASSUME MeasureInv, GapInv, Read
  PROVE  GapInv'
<1>1. TypeInv /\ DeadlineInv /\ CoverInv
  BY DEF MeasureInv
<1>2. /\ now \in Nat /\ next \in Nat /\ began \in Nat /\ late \in Nat /\ bad \in Nat
      /\ MaxLosses \in Nat /\ t \in Seq(Int) /\ late' = late
  BY <1>1, SamplerAssumption DEF TypeInv, Read
<1>3. began <= now /\ now <= next + late /\ late + bad <= MaxLosses
  BY <1>1 DEF Read, DeadlineInv, CoverInv, GapInv, Losses
<1>4. CASE t' = Append(t, began + now) /\ UNCHANGED <<overflow, bad>>
  <2>1. /\ Len(t') = Len(t) + 1 /\ t'[Len(t) + 1] = began + now
        /\ \A i \in 1..Len(t) : t'[i] = t[i] /\ t[i] \in Int
    BY <1>2, <1>4
  <2>2. Len(t) \in Nat /\ (Len(t) # 0 => t # <<>>)
    BY <1>2
  <2>3. ASSUME ~ overflow, NEW i \in 2..Len(t') PROVE t'[i] - t'[i - 1] <= Gap
    <3>1. CASE i <= Len(t)
      <4>1. i \in 2..Len(t) /\ i \in 1..Len(t) /\ i - 1 \in 1..Len(t)
        BY <2>2, <3>1
      <4>2. t'[i] = t[i] /\ t'[i - 1] = t[i - 1]
        BY <2>1, <4>1
      <4> QED BY <2>3, <4>1, <4>2 DEF GapInv
    <3>2. CASE i = Len(t) + 1
      <4>1. t # <<>> /\ Len(t) \in 1..Len(t) /\ i - 1 = Len(t)
        BY <2>2, <3>2
      <4>2. t[Len(t)] >= 2 * (next - 1 - bad)
        BY <1>1, <2>3, <4>1 DEF CoverInv
      <4>3. t'[i] = began + now /\ t'[i - 1] = t[Len(t)] /\ t[Len(t)] \in Int
        BY <2>1, <3>2, <4>1
      <4> QED BY <1>2, <1>3, <4>2, <4>3 DEF Gap
    <3> QED BY <2>1, <2>2, <3>1, <3>2
  <2> QED BY <1>2, <1>3, <1>4, <2>3 DEF GapInv, Losses
<1>5. CASE overflow' = TRUE /\ UNCHANGED bad
  BY <1>2, <1>3, <1>5 DEF GapInv, Losses
<1>6. CASE Lose /\ bad' = bad + 1 /\ UNCHANGED buffer
  <2>1. Losses' <= MaxLosses
    BY <1>2, <1>6 DEF Lose, Losses
  <2> QED BY <1>6, <2>1 DEF GapInv, buffer
<1> QED BY <1>4, <1>5, <1>6 DEF Read

\* No other step adds a sample.
LEMMA NextGap ==
  ASSUME MeasureInv, GapInv, [Next]_vars
  PROVE  GapInv'
<1>0. late \in Nat /\ bad \in Nat /\ MaxLosses \in Nat
  BY SamplerAssumption DEF MeasureInv, TypeInv
<1>1. CASE Thread
  <2>1. CASE Read
    BY <2>1, ReadGap
  <2>2. CASE Begin \/ Deadline
    BY <2>2 DEF Begin, Deadline, buffer, GapInv, Losses
  <2> QED BY <1>1, <2>1, <2>2 DEF Thread, ina260_loop
<1>2. CASE Time
  <2>1. UNCHANGED <<t, overflow, bad>> /\ (late' = late \/ (Lose /\ late' = late + 1))
    BY <1>2 DEF Time, Tick, buffer
  <2>2. Losses' <= MaxLosses
    BY <1>0, <2>1 DEF Lose, Losses, GapInv
  <2> QED BY <2>1, <2>2 DEF GapInv
<1>3. CASE UNCHANGED <<t, overflow, late, bad>>
  BY <1>3 DEF GapInv, Losses
<1>4. CASE Start
  <2>1. CASE ina260_start
    <3>1. t' = <<>> /\ UNCHANGED <<late, bad>>
      BY <2>1 DEF ina260_start
    <3>2. 2..Len(t') = {}
      BY <3>1
    <3> QED BY <3>1, <3>2 DEF GapInv, Losses
  <2>2. CASE UNCHANGED svars
    BY <1>3, <2>2 DEF svars
  <2> QED BY <1>4, <2>1, <2>2 DEF Start
<1>5. CASE Open \/ Settled \/ IdleBefore \/ Ran \/ IdleAfter \/ Join \/ Probe \/ Likwid
           \/ Write \/ Judge
  BY <1>3, <1>5 DEF Open, Settled, IdleBefore, Ran, IdleAfter, Join, Probe, Likwid, Write,
                    Judge, Fail, Evaluate, svars
<1>6. CASE Stop
  BY <1>3, <1>6 DEF Stop, buffer
<1>7. CASE UNCHANGED vars
  BY <1>3, <1>7 DEF vars, svars
<1> QED BY <1>1, <1>2, <1>4, <1>5, <1>6, <1>7 DEF Next, Main, Steps

\* Main sleeps for the length of a window before it takes its end.
LEMMA NextWindow ==
  ASSUME TypeInv, WindowInv, [Next]_vars
  PROVE  WindowInv'
<1>0. /\ now \in Nat /\ wake \in Nat /\ b0 \in Nat /\ b1 \in Nat /\ w0 \in Nat
      /\ w1 \in Nat /\ a0 \in Nat /\ a1 \in Nat
      /\ IDLE \in Nat /\ RUN \in Nat
  BY Times DEF TypeInv
<1>1. CASE UNCHANGED <<wake, b0, b1, w0, w1, a0, a1, n>>
           /\ \/ pc' = pc
              \/ pc = "tail" /\ pc' = "join"
              \/ pc = "join" /\ pc' = "stats"
              \/ pc' \in {"start", "likwid", "write", "done"}
  BY <1>1 DEF WindowInv
<1>2. CASE Start
  BY <1>2 DEF Start, Exit, WindowInv
<1>3. CASE Settled
  BY <1>0, <1>3 DEF Settled, Slept, SleepFor, WindowInv
<1>4. CASE IdleBefore
  <2>1. pc = "idle" /\ wake <= now /\ b1' = now /\ UNCHANGED <<b0, n>> /\ n = 0
        /\ b0 + IDLE <= now
    BY <1>0, <1>4 DEF IdleBefore, Slept, WindowInv
  <2>2. CASE pc' = "run" /\ w0' = now /\ \E over \in Overruns : SleepFor(RUN + over)
    <3>1. PICK over \in Nat : wake' = now + (RUN + over)
      BY <2>2, TimesAssumption DEF SleepFor
    <3> QED BY <1>0, <2>1, <2>2, <3>1 DEF WindowInv
  <2>3. CASE pc' = "after" /\ a0' = now /\ SleepFor(IDLE)
    BY <1>0, <2>1, <2>3 DEF WindowInv, SleepFor
  <2> QED BY <1>4, <2>2, <2>3 DEF IdleBefore
<1>5. CASE Ran
  BY <1>0, <1>5 DEF Ran, Slept, SleepFor, WindowInv
<1>6. CASE IdleAfter
  BY <1>0, <1>6 DEF IdleAfter, Slept, SleepFor, WindowInv
<1>7. CASE Stop \/ Join \/ Open \/ Probe \/ Likwid \/ Write \/ Judge
  BY <1>1, <1>7 DEF Stop, Slept, Join, Open, Probe, Likwid, Write, Judge, Fail, Evaluate, Exit,
                    windows
<1>8. CASE Thread \/ Time \/ UNCHANGED vars
  BY <1>1, <1>8 DEF Thread, Time, vars, windows
<1> QED BY <1>2, <1>3, <1>4, <1>5, <1>6, <1>7, <1>8 DEF Next, Main, Steps

------------------------------------------------------------------------------
\* Samples that cover a stretch of time leave no part of it empty that is as
\* long as the gap between two: the first sample that is not before the part
\* is in it.
LEMMA NoneEmpty ==
  ASSUME NEW s \in Seq(Int), NEW u \in Int, NEW v \in Int, NEW g \in Int,
         Len(s) >= 1, s[1] <= u, s[Len(s)] >= v, u <= v, u + g <= v,
         \A i \in 2..Len(s) : s[i] - s[i - 1] <= g
  PROVE  \E i \in DOMAIN s : u <= s[i] /\ s[i] <= v
<1> DEFINE S == {i \in 1..Len(s) : u <= s[i]}
<1>1. Len(s) \in Nat /\ DOMAIN s = 1..Len(s) /\ \A i \in 1..Len(s) : s[i] \in Int
  OBVIOUS
<1>2. S \subseteq Nat /\ Len(s) \in S
  BY <1>1
<1>3. PICK m \in S : \A y \in S : ~ (<<y, m>> \in OpToRel(<, Nat))
  BY <1>2, NatLessThanWellFounded, WFMin
<1>4. m \in 1..Len(s) /\ u <= s[m] /\ \A y \in S : ~ (y < m)
  BY <1>2, <1>3 DEF OpToRel
<1>5. CASE m = 1
  BY <1>1, <1>4, <1>5
<1>6. CASE m # 1
  <2>1. m \in 2..Len(s) /\ m - 1 \in 1..Len(s) /\ m - 1 < m
    BY <1>1, <1>4, <1>6
  <2>2. s[m - 1] < u
    BY <1>1, <1>4, <2>1
  <2>3. s[m] - s[m - 1] <= g
    BY <2>1
  <2>4. s[m] <= v
    BY <1>1, <1>4, <2>1, <2>2, <2>3
  <2> QED BY <1>1, <1>4, <2>4
<1> QED BY <1>5, <1>6

\* The level of such a part lies between idle and all that can be drawn.
LEMMA LevelBounded ==
  ASSUME SmallSwings, RobustAmong, TypeInv, GapInv, ~ Failed,
         NEW burst \in Bursts, NEW u \in Int, NEW v \in Int,
         2 * b0 <= u, u < v, u + Gap <= v, v <= 2 * a1
  PROVE  robust[Samples(Powers(burst), u, v)] \in IdleW..(IdleW + LoadW + burst[3])
<1> DEFINE P == Powers(burst)
           x == Samples(P, u, v)
           hi == IdleW + LoadW + burst[3]
<1>1. /\ t \in Seq(Int) /\ b0 \in Nat /\ a1 \in Nat /\ Gap \in Int
      /\ IdleW \in Int /\ LoadW \in Nat /\ burst[3] \in Nat /\ hi \in Int
  BY SamplerAssumption, PowersAssumption DEF TypeInv, Gap, SmallSwings
<1>2. /\ Len(t) >= 1 /\ t[1] <= 2 * b0 /\ t[Len(t)] >= 2 * a1
      /\ \A i \in 2..Len(t) : t[i] - t[i - 1] <= Gap
  BY <1>1 DEF Failed, ina260_covers, GapInv
<1>3. DOMAIN P = DOMAIN t /\ \A i \in DOMAIN t : P[i] \in IdleW..hi
  BY <1>1 DEF Powers
<1>4. P \in Seq(Int)
  <2>1. DOMAIN t = 1..Len(t) /\ Len(t) \in Nat
    BY <1>1
  <2>2. P \in [1..Len(t) -> Int]
    BY <1>1, <1>3, <2>1 DEF Powers
  <2> QED BY <2>1, <2>2
<1> HIDE DEF P, hi
<1>5. /\ x \in Window /\ x.p = P /\ x.t = t /\ x.t0 = u /\ x.t1 = v
  BY <1>1, <1>4 DEF Samples, Window
<1>6. Inside(x) # {}
  <2>1. t[1] \in Int /\ t[Len(t)] \in Int
    BY <1>1, <1>2
  <2>2. t[1] <= u /\ t[Len(t)] >= v
    BY <1>1, <1>2, <2>1
  <2>3. u <= v /\ u + Gap <= v /\ t \in Seq(Int) /\ Gap \in Int /\ Len(t) >= 1
    BY <1>1, <1>2
  <2>4. \E i \in DOMAIN t : u <= t[i] /\ t[i] <= v
    BY <1>2, <2>2, <2>3, NoneEmpty, Zenon
  <2> QED BY <1>5, <2>4 DEF Inside
<1>7. Among(x, IdleW, hi)
  BY <1>3, <1>5 DEF Among
<1> HIDE DEF x
<1>8. robust[x] \in IdleW..hi
  BY <1>1, <1>3, <1>5, <1>6, <1>7 DEF RobustAmong
<1> QED BY <1>8 DEF x, P, hi

\* So exactly the attempts with a power that is not positive have a deviation
\* of BUSY.
LEMMA AttemptFacts ==
  ASSUME SmallSwings, FewLosses, RobustAmong, TypeInv, GapInv, WindowInv,
         pc = "stats", ~ Failed, NEW burst \in Bursts
  PROVE  /\ Attempt(burst).dev \in Nat /\ Attempt(burst).dev <= BUSY
         /\ Attempt(burst).net <= 0 <=> Attempt(burst).dev = BUSY
<1> DEFINE P == Powers(burst)
           pre == robust[Samples(P, 2 * b0, 2 * b1)]
           post == robust[Samples(P, 2 * a0, 2 * a1)]
           h1 == robust[Samples(P, 2 * w0, w0 + w1)]
           h2 == robust[Samples(P, w0 + w1, 2 * w1)]
           net == robust[Samples(P, 2 * w0, 2 * w1)] - ((pre + post) \div 2)
           dev == Deviation(Abs(pre - post), Abs(h1 - h2))
           Spread == IdleW..(IdleW + LoadW + burst[3])
<1>1. /\ b0 \in Nat /\ b1 \in Nat /\ w0 \in Nat /\ w1 \in Nat /\ a0 \in Nat /\ a1 \in Nat
      /\ IDLE \in Nat /\ RUN \in Nat /\ MaxLosses \in Nat
  BY Times, SamplerAssumption DEF TypeInv
<1>2. /\ n # 0 /\ b0 + IDLE <= b1 /\ b1 <= w0 /\ w0 + RUN <= w1 /\ w1 <= a0 /\ a0 + IDLE <= a1
      /\ MaxLosses < IDLE /\ 2 * (MaxLosses + 1) <= RUN /\ Gap = 2 * (MaxLosses + 1)
  BY DEF WindowInv, Failed, FewLosses, Gap
<1>3. pre \in Spread
  <2>1. /\ 2 * b0 \in Int /\ 2 * b1 \in Int /\ 2 * b0 <= 2 * b0 /\ 2 * b0 < 2 * b1
        /\ 2 * b0 + Gap <= 2 * b1 /\ 2 * b1 <= 2 * a1
    BY <1>1, <1>2
  <2> QED BY <2>1, LevelBounded
<1>4. post \in Spread
  <2>1. /\ 2 * a0 \in Int /\ 2 * a1 \in Int /\ 2 * b0 <= 2 * a0 /\ 2 * a0 < 2 * a1
        /\ 2 * a0 + Gap <= 2 * a1 /\ 2 * a1 <= 2 * a1
    BY <1>1, <1>2
  <2> QED BY <2>1, LevelBounded
<1>5. h1 \in Spread
  <2>1. /\ 2 * w0 \in Int /\ w0 + w1 \in Int /\ 2 * b0 <= 2 * w0 /\ 2 * w0 < w0 + w1
        /\ 2 * w0 + Gap <= w0 + w1 /\ w0 + w1 <= 2 * a1
    BY <1>1, <1>2
  <2> QED BY <2>1, LevelBounded
<1>6. h2 \in Spread
  <2>1. /\ w0 + w1 \in Int /\ 2 * w1 \in Int /\ 2 * b0 <= w0 + w1 /\ w0 + w1 < 2 * w1
        /\ w0 + w1 + Gap <= 2 * w1 /\ 2 * w1 <= 2 * a1
    BY <1>1, <1>2
  <2> QED BY <2>1, LevelBounded
<1>7. /\ Attempt(burst).dev = IF net <= 0 THEN BUSY ELSE dev
      /\ Attempt(burst).net = net
  BY DEF Attempt
<1> HIDE DEF P, pre, post, h1, h2, net
<1>8. dev \in Nat /\ dev < BUSY
  BY <1>3, <1>4, <1>5, <1>6, PowersAssumption DEF SmallSwings, Deviation, Abs
<1> HIDE DEF dev
<1> QED BY <1>7, <1>8, PowersAssumption

------------------------------------------------------------------------------
\* Every step keeps what is known of the attempts.
LEMMA NextPositive ==
  ASSUME SmallSwings, FewLosses, RobustAmong, TypeInv, GapInv, WindowInv, PositiveInv,
         [Next]_vars
  PROVE  PositiveInv'
<1>1. CASE Evaluate
  <2>1. PICK burst \in Bursts : tried' = tried \cup {Attempt(burst)}
    BY <1>1 DEF Evaluate
  <2>2. pc = "stats" /\ ~ Failed /\ pc' \in {"start", "write"} /\ UNCHANGED <<arch, rc>>
    BY <1>1 DEF Evaluate
  <2>3. /\ Attempt(burst).dev \in Nat /\ Attempt(burst).dev <= BUSY
        /\ Attempt(burst).net <= 0 <=> Attempt(burst).dev = BUSY
    BY <2>2, AttemptFacts
  <2>4. arch = "aarch64" /\ rc # 0
    BY <2>2 DEF PositiveInv
  <2> QED BY <2>1, <2>2, <2>3, <2>4 DEF PositiveInv
<1>2. CASE Likwid
  <2>1. PICK f \in Figures :
           /\ kept' = [Nothing EXCEPT !.w = f[1], !.net = f[2], !.n = 1]
           /\ IF f[1] <= 0 \/ f[2] <= 0 THEN Exit(7) ELSE pc' = "write" /\ UNCHANGED rc
    BY <1>2 DEF Likwid
  <2>2. kept'.net = f[2]
    BY <2>1, Zenon DEF Nothing
  <2>3. UNCHANGED <<arch, tried>> /\ pc = "likwid"
    BY <1>2 DEF Likwid
  <2> QED BY <2>1, <2>2, <2>3 DEF PositiveInv, Exit
<1>3. CASE Write
  BY <1>3 DEF Write, Exit, PositiveInv
<1>4. CASE UNCHANGED <<arch, kept, tried>> /\ rc' # 0 /\ pc \notin {"write", "done"}
           /\ pc' # "write" /\ (arch # "aarch64" => pc' \in {"likwid", "done"})
  BY <1>4 DEF PositiveInv
<1>5. CASE UNCHANGED <<arch, pc, kept, tried, rc>>
  BY <1>5 DEF PositiveInv
<1>6. CASE Open \/ Start \/ Fail \/ Probe
  <2>1. /\ UNCHANGED <<arch, kept, tried>> /\ rc' \in {rc, 3, 4, 6}
        /\ pc \in {"open", "start", "stats", "probe"}
        /\ pc' \in {"start", "settle", "likwid", "done"}
        /\ pc = "probe" => pc' \in {"likwid", "done"}
    BY <1>6 DEF Open, Start, Fail, Probe, Exit
  <2> QED BY <1>4, <2>1 DEF PositiveInv
<1>7. CASE Settled \/ IdleBefore \/ Ran \/ IdleAfter \/ Stop \/ Join
  <2>1. /\ UNCHANGED <<arch, kept, tried, rc>>
        /\ pc \in {"settle", "idle", "run", "after", "tail", "join"}
        /\ pc' \in {"idle", "run", "after", "tail", "join", "stats"}
    BY <1>7 DEF Settled, IdleBefore, Ran, IdleAfter, Stop, Join, Slept, Quiet
  <2> QED BY <1>4, <2>1 DEF PositiveInv
<1>8. CASE Thread \/ Time \/ UNCHANGED vars
  BY <1>5, <1>8 DEF Thread, Time, vars
<1> QED BY <1>1, <1>2, <1>3, <1>6, <1>7, <1>8 DEF Next, Main, Steps, Judge

\* The three invariants together.
AttemptInv == GapInv /\ WindowInv /\ PositiveInv

LEMMA AttemptInvariant ==
  ASSUME SmallSwings, FewLosses, RobustAmong
  PROVE  Spec => []AttemptInv
<1>1. Init => AttemptInv
  <2> SUFFICES ASSUME Init PROVE AttemptInv
    OBVIOUS
  <2>1. GapInv
    BY SamplerAssumption DEF Init, SamplerInit, GapInv, Losses
  <2>2. WindowInv /\ PositiveInv
    BY DEF Init, WindowInv, PositiveInv
  <2> QED BY <2>1, <2>2 DEF AttemptInv
<1>2. MeasureInv /\ AttemptInv /\ [Next]_vars => AttemptInv'
  <2> SUFFICES ASSUME MeasureInv, AttemptInv, [Next]_vars PROVE AttemptInv'
    OBVIOUS
  <2>1. TypeInv /\ GapInv /\ WindowInv /\ PositiveInv
    BY DEF MeasureInv, AttemptInv
  <2> QED BY <2>1, NextGap, NextWindow, NextPositive DEF AttemptInv
<1> QED BY <1>1, <1>2, MeasureInvariant, PTL DEF Spec

\* A power that is not positive is written to db.yaml only by the board, and
\* only if no attempt measured a positive one: the 1 W that stands for the
\* deviation of such an attempt is then never the smaller one.  This holds of
\* every estimator whose level lies among the powers it is given, as long as
\* the swings of power stay below that 1 W and the losses leave samples in
\* every window.
THEOREM PositivePreferred ==
  ASSUME SmallSwings, FewLosses, RobustInteger, RobustAmong
  PROVE  Spec => []PositiveKept
<1>1. KeptInv /\ AttemptInv => PositiveKept
  <2> SUFFICES ASSUME KeptInv, PositiveInv, rc = 0, kept.net <= 0
               PROVE  arch = "aarch64" /\ \A x \in tried : x.net <= 0
    BY DEF AttemptInv, PositiveKept
  <2>1. arch = "aarch64"
    BY DEF PositiveInv
  <2>2. kept \in tried /\ \A x \in tried : kept.dev <= x.dev
    BY <2>1 DEF KeptInv
  <2>3. kept.dev = BUSY /\ BUSY \in Nat
    BY <2>2, PowersAssumption DEF PositiveInv
  <2>4. ASSUME NEW x \in tried PROVE x.net <= 0
    <3>1. x.dev \in Nat /\ x.dev <= BUSY /\ BUSY <= x.dev
      BY <2>2, <2>3 DEF PositiveInv
    <3>2. x.dev = BUSY
      BY <2>3, <3>1
    <3> QED BY <3>2 DEF PositiveInv
  <2> QED BY <2>1, <2>4
<1> QED BY <1>1, KeptInvariant, AttemptInvariant, PTL
==============================================================================
