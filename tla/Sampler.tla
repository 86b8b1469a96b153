------------------------------- MODULE Sampler -------------------------------
(***************************************************************************)
(* The power sampler of the board (ina260.h): a thread that reads the      *)
(* sensor once per period, at absolute deadlines, and stores the times of  *)
(* its samples in a buffer, while the thread that started it sleeps; and   *)
(* the statistics that are taken of the samples afterwards.                *)
(*                                                                         *)
(* Time is counted in sampling periods from the start of the thread.       *)
(* Stamps are midpoints of two times and are kept doubled, as are the      *)
(* windows of the statistics.  A thread that is ready runs before the next *)
(* period, unless it is late: the periods lost that way are counted.       *)
(***************************************************************************)
EXTENDS Integers, Sequences, FiniteSetsExt, TLC

CONSTANTS
  CAP,        \* samples the buffer holds
  BLOCK,      \* periods of a block of the robust estimator
  MaxLosses   \* bound on the periods that threads lose by being late and on
              \* the reads that fail, together

ASSUME SamplerAssumption == CAP \in Nat \ {0} /\ BLOCK \in Nat \ {0} /\ MaxLosses \in Nat

VARIABLES
  now,        \* CLOCK_MONOTONIC
  run,        \* cleared to stop the thread
  th,         \* where the thread is
  next,       \* its deadline
  began,      \* when the read began
  t,          \* the stamps of the samples
  overflow,   \* a sample did not fit
  late, bad   \* periods lost and reads that failed

buffer == <<t, overflow>>
thread == <<th, next, began>>
svars == <<now, run, th, next, began, t, overflow, late, bad>>

SamplerInit ==
  /\ now = 0 /\ run = FALSE
  /\ th = "none" /\ next = 0 /\ began = 0
  /\ t = <<>> /\ overflow = FALSE
  /\ late = 0 /\ bad = 0

------------------------------------------------------------------------------
\* ina260_start, an empty buffer and a new thread; time is counted from here.
ina260_start ==
  /\ now' = 0 /\ run' = TRUE
  /\ th' = "new" /\ next' = 0 /\ began' = 0
  /\ t' = <<>> /\ overflow' = FALSE
  /\ UNCHANGED <<late, bad>>

\* The thread takes its first deadline.
Begin ==
  /\ th = "new" /\ th' = "sleep"
  /\ next' = now
  /\ UNCHANGED <<now, run, began, buffer, late, bad>>

\* The deadline has come: once more round the loop, or the end.
Deadline ==
  /\ th = "sleep" /\ now >= next
  /\ IF run THEN th' = "read" /\ began' = now
            ELSE th' = "ended" /\ UNCHANGED began
  /\ UNCHANGED <<now, run, next, buffer, late, bad>>

Lose == late + bad < MaxLosses

\* Mutation of Read: the next deadline is counted from now.
Read_Drifts ==
  /\ th = "read" /\ th' = "sleep"
  /\ \/ /\ IF Len(t) < CAP THEN t' = Append(t, began + now) /\ UNCHANGED overflow
                           ELSE overflow' = TRUE /\ UNCHANGED t
        /\ UNCHANGED bad
     \/ Lose /\ bad' = bad + 1 /\ UNCHANGED buffer
  /\ next' = now + 1
  /\ UNCHANGED <<now, run, began, late>>

\* The value read is stored if there is room; a read that fails is skipped.
Read ==
  /\ th = "read" /\ th' = "sleep"
  /\ \/ /\ IF Len(t) < CAP THEN t' = Append(t, began + now) /\ UNCHANGED overflow
                           ELSE overflow' = TRUE /\ UNCHANGED t
        /\ UNCHANGED bad
     \/ Lose /\ bad' = bad + 1 /\ UNCHANGED buffer
  /\ next' = next + 1
  /\ UNCHANGED <<now, run, began, late>>

ina260_loop == Begin \/ Deadline \/ Read

Ready == th \in {"new", "read"} \/ (th = "sleep" /\ now >= next)

\* A period passes; busy says that another thread is ready too.
Tick(busy) ==
  /\ now' = now + 1
  /\ IF Ready \/ busy THEN Lose /\ late' = late + 1 ELSE UNCHANGED late
  /\ UNCHANGED <<run, thread, buffer, bad>>

\* The samples span the window from t0 to t1.
ina260_covers(t0, t1) ==
  Len(t) >= 2 /\ t[1] <= 2 * t0 /\ t[Len(t)] >= 2 * t1

------------------------------------------------------------------------------
(***************************************************************************)
(* Statistics of samples, stamps x.t and powers x.p, in the window from    *)
(* x.t0 to x.t1, all times doubled.  Powers are multiples of a number that *)
(* the quotients below divide.                                             *)
(***************************************************************************)
Window == [t : Seq(Int), p : Seq(Int), t0 : Int, t1 : Int]

Inside(x) == {i \in DOMAIN x.t : x.t0 <= x.t[i] /\ x.t[i] <= x.t1}

\* How many blocks the window has.
nb(x) ==
  LET whole == (x.t1 - x.t0) \div (2 * BLOCK)
  IN  CASE whole < 3 -> 3 [] whole > 255 -> 255 [] OTHER -> whole

\* The block of sample i, of m blocks, numbered from 1; the end of the window
\* belongs to the last.
BlockOf(x, m, i) ==
  LET j == ((x.t[i] - x.t0) * m) \div (x.t1 - x.t0)
  IN  IF j >= m THEN m ELSE j + 1

\* The middle of the sorted values, or the average of the two in the middle.
median[s \in Seq(Int)] ==
  LET sorted == SortSeq(s, <)
      k == Len(s)
  IN  IF k % 2 = 1 THEN sorted[(k + 1) \div 2]
                   ELSE (sorted[k \div 2] + sorted[(k \div 2) + 1]) \div 2

Mean(x, s) == MapThenSumSet(LAMBDA i : x.p[i], s) \div Cardinality(s)

\* Mutation of robust: the average of all samples.
robust_Mean == [x \in Window |-> IF Inside(x) = {} THEN 0 ELSE Mean(x, Inside(x))]

\* The median of the means of the blocks that have samples.
robust ==
  [x \in Window |->
     LET m == nb(x)
         block == [j \in 1..m |-> {i \in Inside(x) : BlockOf(x, m, i) = j}]
         filled == SelectSeq(block, LAMBDA s : s # {})
     IN  IF Inside(x) = {} \/ x.t1 <= x.t0
           THEN 0
           ELSE median[[j \in DOMAIN filled |-> Mean(x, filled[j])]]]
==============================================================================
