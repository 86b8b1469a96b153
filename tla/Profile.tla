------------------------------- MODULE Profile -------------------------------
(***************************************************************************)
(* The measurement of one backend (profile01.c, internalprofile.c).  On    *)
(* the board a window of idle, a run of the backend and a second window of *)
(* idle are sampled by the thread of Sampler; the difference of the power  *)
(* levels is the backend's.  An attempt whose windows disagree is repeated.*)
(* On x86-64 likwid measures.  The entry goes to db.yaml, and the exit     *)
(* status tells gen whether there is one.                                  *)
(*                                                                         *)
(* The power of the module is that of idle, of the backend while it loops, *)
(* and of a foreign burst that is known only when the samples are read.    *)
(***************************************************************************)
EXTENDS Sampler

CONSTANTS
  Archs,                 \* "aarch64", "x86_64", "no_msr": counters that do not start
  SETTLE, IDLE, RUN, TAIL,   \* the sleeps of main and the run, in periods
  SLACK,                 \* the room left in the buffer, in samples
  Overruns,              \* periods by which the run can last longer
  ATTEMPTS, TOL,         \* INA_ATTEMPTS, INA_TOL_W
  BUSY,                  \* the deviation given to a net power that is not positive
  IdleW, LoadW,          \* power of the idle module, of the backend
  Bursts,                \* foreign bursts: begin, end and power
  Figures                \* time and energy that likwid can print, 0: nothing

ASSUME ProfileAssumption == CAP = 2 * IDLE + RUN + SLACK
ASSUME TimesAssumption == {SETTLE, IDLE, RUN, TAIL, SLACK} \subseteq Nat /\ Overruns \subseteq Nat
ASSUME PowersAssumption ==
  BUSY \in Nat /\ {IdleW, LoadW} \subseteq Int /\ \A burst \in Bursts : burst[3] \in Int

VARIABLES
  arch, pc,
  wake,              \* until when main sleeps
  b0, b1, w0, w1, a0, a1,  \* the windows
  n,                 \* iterations of the backend, 0: none reported
  k,                 \* the attempt
  kept,              \* best and what is kept with it
  tried,             \* the attempts that were evaluated
  db, rc             \* the entries appended, the exit status

windows == <<b0, b1, w0, w1, a0, a1, n>>
vars == <<svars, arch, pc, wake, b0, b1, w0, w1, a0, a1, n, k, kept, tried, db, rc>>

Nothing == [dev |-> -1, net |-> 0, w |-> 0, n |-> 0, k |-> 0, brief |-> TRUE]

Init ==
  /\ SamplerInit
  /\ arch \in Archs /\ pc = IF arch = "aarch64" THEN "open" ELSE "probe"
  /\ wake = 0 /\ b0 = 0 /\ b1 = 0 /\ w0 = 0 /\ w1 = 0 /\ a0 = 0 /\ a1 = 0 /\ n = 0
  /\ k = 1 /\ kept = Nothing /\ tried = {}
  /\ db = <<>> /\ rc = -1

Exit(code) == pc' = "done" /\ rc' = code

------------------------------------------------------------------------------
\* ina260_open: the sensor is found, readable, and the buffer allocated.
Open ==
  /\ pc = "open"
  /\ \/ pc' = "start" /\ UNCHANGED rc
     \/ Exit(3)
  /\ UNCHANGED <<svars, arch, wake, windows, k, kept, tried, db>>

\* An attempt begins; the thread may not start.  The windows of the attempt
\* before are not read again.
Start ==
  /\ pc = "start"
  /\ \/ ina260_start /\ pc' = "settle" /\ wake' = SETTLE /\ UNCHANGED rc
     \/ Exit(3) /\ UNCHANGED <<svars, wake>>
  /\ b0' = 0 /\ b1' = 0 /\ w0' = 0 /\ w1' = 0 /\ a0' = 0 /\ a1' = 0 /\ n' = 0
  /\ UNCHANGED <<arch, k, kept, tried, db>>

\* usleep returns at its time or later.
Slept(at) == pc = at /\ now >= wake

SleepFor(d) == wake' = now + d

\* What a step of main between two sleeps leaves alone.
Quiet == UNCHANGED <<arch, k, kept, tried, db, rc>>

Settled ==
  /\ Slept("settle") /\ pc' = "idle"
  /\ b0' = now /\ SleepFor(IDLE)
  /\ Quiet /\ UNCHANGED <<svars, b1, w0, w1, a0, a1, n>>

\* popen: internalprofile finds its symbol and loops for RUN, up to the end of
\* the batch in hand, or it reports nothing.
IdleBefore ==
  /\ Slept("idle")
  /\ b1' = now
  /\ \/ pc' = "run" /\ w0' = now /\ (\E over \in Overruns : SleepFor(RUN + over))
        /\ UNCHANGED a0
     \/ pc' = "after" /\ UNCHANGED w0 /\ a0' = now /\ SleepFor(IDLE)
  /\ Quiet /\ UNCHANGED <<svars, b0, w1, a1, n>>

\* The window and the iterations are read from the pipe: the end is that of
\* the loop, not the time at which main reads it.
Ran ==
  /\ Slept("run") /\ pc' = "after"
  /\ w1' = wake /\ n' = wake - w0
  /\ a0' = now /\ SleepFor(IDLE)
  /\ Quiet /\ UNCHANGED <<svars, b0, b1, w0, a1>>

\* Mutation of IdleAfter: the sampler is stopped at the end of the window.
IdleAfter_NoTail ==
  /\ Slept("after") /\ pc' = "tail"
  /\ a1' = now /\ SleepFor(0)
  /\ Quiet /\ UNCHANGED <<svars, b0, b1, w0, w1, a0, n>>

IdleAfter ==
  /\ Slept("after") /\ pc' = "tail"
  /\ a1' = now /\ SleepFor(TAIL)
  /\ Quiet /\ UNCHANGED <<svars, b0, b1, w0, w1, a0, n>>

\* Mutation of Stop: the thread is not waited for.
Stop_NoJoin ==
  /\ Slept("tail") /\ pc' = "stats"
  /\ run' = FALSE
  /\ Quiet /\ UNCHANGED <<now, thread, buffer, late, bad, wake, windows>>

\* ina260_stop: run is cleared, then the thread is joined.
Stop ==
  /\ Slept("tail") /\ pc' = "join"
  /\ run' = FALSE
  /\ Quiet /\ UNCHANGED <<now, thread, buffer, late, bad, wake, windows>>

Join ==
  /\ pc = "join" /\ th = "ended" /\ pc' = "stats"
  /\ Quiet /\ UNCHANGED <<svars, wake, windows>>

------------------------------------------------------------------------------
Failed == n = 0 \/ overflow \/ ~ ina260_covers(b0, a1)

\* The attempt does not count, and with it all those before.
Fail ==
  /\ pc = "stats" /\ Failed /\ Exit(4)
  /\ UNCHANGED <<svars, arch, wake, windows, k, kept, tried, db>>

Hits(burst, i) == 2 * burst[1] <= t[i] /\ t[i] < 2 * burst[2]

\* The power of each sample.
Powers(burst) ==
  [i \in DOMAIN t |->
     IdleW + (IF 2 * w0 <= t[i] /\ t[i] <= 2 * w1 THEN LoadW ELSE 0)
           + (IF Hits(burst, i) THEN burst[3] ELSE 0)]

Samples(P, t0, t1) == [t |-> t, p |-> P, t0 |-> t0, t1 |-> t1]

\* The burst is in fewer than half of the blocks that a window has samples in.
Short(burst, t0, t1) ==
  LET x == Samples(t, t0, t1)
      InBlocks(s) == {BlockOf(x, nb(x), i) : i \in s}
  IN  2 * Cardinality(InBlocks({i \in Inside(x) : Hits(burst, i)})) <
        Cardinality(InBlocks(Inside(x)))

\* It is short in the run and in one window of idle: a remark on the attempt
\* that the program cannot make.
Brief(burst) ==
  /\ Short(burst, 2 * w0, 2 * w1)
  /\ Short(burst, 2 * b0, 2 * b1) \/ Short(burst, 2 * a0, 2 * a1)

Abs(x) == IF x < 0 THEN -x ELSE x

Deviation(x, y) == IF x > y THEN x ELSE y

\* Mutation of Attempt: a net power that is not positive is like any other.
Attempt_AnyNet(burst) ==
  LET P    == Powers(burst)
      pre  == robust[Samples(P, 2 * b0, 2 * b1)]
      post == robust[Samples(P, 2 * a0, 2 * a1)]
      h1   == robust[Samples(P, 2 * w0, w0 + w1)]
      h2   == robust[Samples(P, w0 + w1, 2 * w1)]
      net  == robust[Samples(P, 2 * w0, 2 * w1)] - ((pre + post) \div 2)
  IN  [dev |-> Deviation(Abs(pre - post), Abs(h1 - h2)), net |-> net, w |-> w1 - w0, n |-> n, k |-> k,
       brief |-> Brief(burst)]

\* The levels of the windows, their deviation and the net power.
Attempt(burst) ==
  LET P    == Powers(burst)
      pre  == robust[Samples(P, 2 * b0, 2 * b1)]
      post == robust[Samples(P, 2 * a0, 2 * a1)]
      h1   == robust[Samples(P, 2 * w0, w0 + w1)]
      h2   == robust[Samples(P, w0 + w1, 2 * w1)]
      net  == robust[Samples(P, 2 * w0, 2 * w1)] - ((pre + post) \div 2)
  IN  [dev |-> IF net <= 0 THEN BUSY ELSE Deviation(Abs(pre - post), Abs(h1 - h2)),
       net |-> net, w |-> w1 - w0, n |-> n, k |-> k,
       brief |-> Brief(burst)]

\* Mutation of Cleanest: the last attempt is kept.
Cleanest_Last(x) == x

\* The cleanest of the attempts so far, the earlier of two alike.
Cleanest(x) == IF kept.dev < 0 \/ x.dev < kept.dev THEN x ELSE kept

\* Not within the tolerance, and an attempt is left.
Again(x) == x.dev >= TOL /\ k < ATTEMPTS

Evaluate ==
  /\ pc = "stats" /\ ~ Failed
  /\ \E x \in {Attempt(burst) : burst \in Bursts} :
       /\ kept' = Cleanest(x)
       /\ tried' = tried \cup {x}
       /\ IF Again(x) THEN pc' = "start" /\ k' = k + 1
                      ELSE pc' = "write" /\ UNCHANGED k
  /\ UNCHANGED <<svars, arch, wake, windows, db, rc>>

------------------------------------------------------------------------------
\* Mutation of Probe: internalprofile is started without trying the counters.
Probe_Skipped ==
  /\ pc = "probe" /\ pc' = "likwid"
  /\ UNCHANGED <<svars, arch, wake, windows, k, kept, tried, db, rc>>

\* likwid-perfctr -S: the counters can be started.
Probe ==
  /\ pc = "probe"
  /\ IF arch = "x86_64" THEN pc' = "likwid" /\ UNCHANGED rc ELSE Exit(6)
  /\ UNCHANGED <<svars, arch, wake, windows, k, kept, tried, db>>

\* internalprofile under likwid: the figures its output has.  If the counters
\* cannot be started the program stays stopped and the pipe open.
Likwid ==
  /\ pc = "likwid" /\ arch = "x86_64"
  /\ \E f \in Figures :
       /\ kept' = [Nothing EXCEPT !.w = f[1], !.net = f[2], !.n = 1]
       /\ IF f[1] <= 0 \/ f[2] <= 0 THEN Exit(7) ELSE pc' = "write" /\ UNCHANGED rc
  /\ UNCHANGED <<svars, arch, wake, windows, k, tried, db>>

\* The time and the energy of an iteration, or of the run likwid measured.
Entry(x) == [time |-> x.w, energy |-> x.net * x.w, per |-> x.n]

\* The entry is appended to db.yaml, if it can be opened.
Write ==
  /\ pc = "write"
  /\ \/ db' = Append(db, Entry(kept)) /\ Exit(0)
     \/ UNCHANGED db /\ Exit(5)
  /\ UNCHANGED <<svars, arch, wake, windows, k, kept, tried>>

------------------------------------------------------------------------------
\* What main does apart from judging an attempt, and that.
Steps ==
  \/ Open \/ Start \/ Settled \/ IdleBefore \/ Ran \/ IdleAfter \/ Stop \/ Join
  \/ Probe \/ Likwid \/ Write

Judge == Fail \/ Evaluate

Main == Steps \/ Judge

Thread == ina260_loop /\ UNCHANGED <<arch, pc, wake, windows, k, kept, tried, db, rc>>

Sampling == pc \in {"settle", "idle", "run", "after", "tail", "join"}

\* Main is ready to run.
Busy == IF pc = "join" THEN th = "ended" ELSE now >= wake

Time ==
  /\ Sampling /\ Tick(Busy)
  /\ UNCHANGED <<arch, pc, wake, windows, k, kept, tried, db, rc>>

Next == Main \/ Thread \/ Time

Spec == Init /\ [][Next]_vars

\* An attempt in hand is judged: at "stats" one of the two can always be done.
Judged == pc = "stats" /\ pc' \in {"start", "write", "done"}

\* Time passes and threads that are ready run.
LiveSpec ==
  Spec /\ WF_vars(Steps) /\ WF_pc(Judged) /\ WF_vars(Thread) /\ WF_vars(Time)

------------------------------------------------------------------------------
\* The buffer is read by main only after the thread has ended, and the thread
\* never writes past its end.
Exclusive == (pc = "stats" => th = "ended") /\ Len(t) <= CAP

\* Deadlines are absolute: once a thread that was late waits again it has
\* caught up, a sample for every period since its first except for reads that
\* failed; and it never takes more samples than periods have passed.
Paced ==
  /\ th # "none" => Len(t) <= now + 1
  /\ th = "sleep" /\ now < next /\ t # <<>> /\ ~ overflow
       => Len(t) + bad > now - t[1] \div 2

\* An attempt is given up only if the backend did not run, if the losses reach
\* into the windows, or if the run was too long for the buffer: the sleeps
\* around the windows and the room in the buffer are enough for the rest.
NotDiscarded ==
  rc = 4 => \/ n = 0
            \/ late + bad >= Min({SETTLE, TAIL})
            \/ SETTLE + (w1 - w0) + TAIL + late >= RUN + SLACK

\* What the estimator and the gate give together: whatever the power of a
\* burst, wherever it begins and ends and however late the thread is, an
\* attempt within the tolerance is off by less than half of it, if the burst
\* is short in the run and in one of the two windows of idle.  Bursts in both
\* baselines, which LOGBOOK.md warns of, are outside.
AcceptedIsNear ==
  \A x \in tried : x.dev < TOL /\ x.brief => 2 * Abs(x.net - LoadW) < TOL

\* What is kept is one of the attempts, whole, and none was cleaner.
KeptCleanest ==
  rc = 0 /\ arch = "aarch64" =>
    kept \in tried /\ \A x \in tried : kept.dev <= x.dev

\* A power that is not positive is written only by the board, and only if no
\* attempt measured a positive one.
PositiveKept ==
  rc = 0 /\ kept.net <= 0 => arch = "aarch64" /\ \A x \in tried : x.net <= 0

\* Every measurement ends, whatever the thread, the sensor and likwid do.
Ends == <>(pc = "done")
==============================================================================
