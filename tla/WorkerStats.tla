---------------------------- MODULE WorkerStats ----------------------------
(***************************************************************************)
(* The share counters of one StratumWorker: values[0] counts the interval  *)
(* that runs until begin, values[i] the i-th interval before it.  Time is  *)
(* looked at only when a share is pushed, and begin then moves to one      *)
(* AccumulateInterval after that moment, so an interval lasts longer than  *)
(* AccumulateInterval when its first share is late.                        *)
(*                                                                         *)
(* log and epoch are history variables: when each share was pushed, and in *)
(* which interval.  updateStats, which the backend is sent every minute,   *)
(* reads the counters and shifts nothing.                                  *)
(***************************************************************************)
EXTENDS Integers, Sequences, FiniteSets

CONSTANTS
  AccumulateInterval,  \* 60 seconds
  Interval,            \* 9 counters
  MaxTime,             \* bound: seconds that pass
  MaxShares            \* bound: shares pushed to one record

ASSUME IntervalsAssumption ==
  /\ AccumulateInterval \in Nat \ {0} /\ Interval \in Nat \ {0}
  /\ MaxTime \in Nat /\ MaxShares \in Nat

VARIABLES now, begin, values, log, epoch
vars == <<now, begin, values, log, epoch>>

Counters == 0..(Interval - 1)
Zeros == [i \in Counters |-> 0]

Init ==
  /\ now = 0 /\ begin = AccumulateInterval
  /\ values = Zeros
  /\ log = <<>> /\ epoch = 0

-----------------------------------------------------------------------------
\* time(0); the clock does not go back.
Tick ==
  /\ now < MaxTime /\ now' = now + 1
  /\ UNCHANGED <<begin, values, log, epoch>>

\* The session logs in again: its record is replaced by a new one.
Authorize ==
  /\ begin' = now + AccumulateInterval /\ values' = Zeros
  /\ log' = <<>> /\ epoch' = 0
  /\ UNCHANGED now

\* shiftCount; no shift while the interval runs
ShiftCount ==
  IF now < begin THEN 0
  ELSE (now + AccumulateInterval - begin) \div AccumulateInterval

\* f after f[i] = x.  A write beyond the counters would not be lost: f would
\* have a place that is not its own.
Write(f, i, x) == [j \in DOMAIN f \cup {i} |-> IF j = i THEN x ELSE f[j]]

\* The copy loop of shift(), in place and from the top: the counters after each
\* round.
CopyUpwards(count) ==  \* mutant: from the other end, over what it still needs
  LET after[k \in 0..(Interval - count)] ==
        IF k = 0 THEN values
        ELSE Write(after[k - 1], count + k - 1, after[k - 1][k - 1])
  IN  after
CopyPastTheEnd(count) ==  \* mutant: values[Interval-i] = values[Interval-shiftCount-i]
  LET after[k \in 0..(Interval - count)] ==
        IF k = 0 THEN values
        ELSE Write(after[k - 1], Interval - k + 1, after[k - 1][Interval - count - k + 1])
  IN  after
Copy(count) ==
  LET after[k \in 0..(Interval - count)] ==
        IF k = 0 THEN values
        ELSE Write(after[k - 1], Interval - k, after[k - 1][Interval - count - k])
  IN  after

\* shift(): the zero fill after the copy, or the memset after a long silence.
Shifted(count) ==
  IF count < Interval
  THEN LET copied == Copy(count)[Interval - count]
           filled == 0..(count - 1)
       IN  [i \in DOMAIN copied \cup filled |-> IF i \in filled THEN 0 ELSE copied[i]]
  ELSE Zeros
ShiftedNow == IF ShiftCount = 0 THEN values ELSE Shifted(ShiftCount)

\* begin after shift()
BeginKept == begin  \* mutant: no new interval
NewBegin == IF now < begin THEN begin ELSE now + AccumulateInterval

PushShare ==
  /\ Len(log) < MaxShares
  /\ values' = Write(ShiftedNow, 0, ShiftedNow[0] + 1)
  /\ begin' = NewBegin
  /\ epoch' = epoch + ShiftCount
  /\ log' = Append(log, [at |-> now, epoch |-> epoch + ShiftCount])
  /\ UNCHANGED now

\* updateStats: the sum after each round; values[0] is left out.
Sums ==
  LET sum[i \in 0..(Interval - 1)] ==
        IF i = 0 THEN 0 ELSE sum[i - 1] + values[i]
  IN  sum
SumWithCurrent == values[0] + Sums[Interval - 1]  \* mutant: i = 0
UpdateStats == Sums[Interval - 1]

Next == Tick \/ Authorize \/ PushShare

Spec == Init /\ [][Next]_vars

-----------------------------------------------------------------------------
\* The variables have their types: no round of the copy, of the zero fill or of
\* the count writes beyond the counters, after a pause of any length (Write
\* would keep what it wrote there), and the current interval ends within one
\* AccumulateInterval.
StatsTypeOK ==
  /\ now \in Nat /\ begin \in Nat
  /\ values \in [Counters -> Nat]
  /\ epoch \in Nat /\ log \in Seq([at : Nat, epoch : 0..epoch])
  /\ begin <= now + AccumulateInterval

\* The counters are exact: after any pauses, values[i] is the number of
\* shares pushed in the i-th interval before the current one (shift's copy in
\* place, its zero fill, and the memset after a silence agree).
CountsAreExact ==
  \A i \in Counters :
    values[i] = Cardinality({s \in DOMAIN log : log[s].epoch = epoch - i})

\* What updateStats speaks of: counted back from the last shift, a share is
\* reported for the whole time the rate is computed over, (Interval - 1)
\* intervals, and for less than twice that time.
LastShift == begin - AccumulateInterval
ReportWindow ==
  \A s \in DOMAIN log :
    LET back == epoch - log[s].epoch IN
    /\ LastShift - log[s].at <= (Interval - 1) * AccumulateInterval
         => back <= Interval - 1
    /\ back \in 1..(Interval - 1)
         => LastShift - log[s].at < 2 * (Interval - 1) * AccumulateInterval

\* The rate reported, UpdateStats shares in Interval - 1 intervals, is never
\* below the truth at the last shift, and counts no share older than twice
\* the time it is said to cover.
SharesWithin(seconds) ==
  Cardinality({s \in DOMAIN log :
                 0 < LastShift - log[s].at /\ LastShift - log[s].at <= seconds})
RateIsBounded ==
  /\ SharesWithin((Interval - 1) * AccumulateInterval) <= UpdateStats
  /\ UpdateStats <= SharesWithin(2 * (Interval - 1) * AccumulateInterval - 1)
=============================================================================
