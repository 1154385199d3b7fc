---------------------------- MODULE StatsProofs ----------------------------
(***************************************************************************)
(* The share counters for every interval length and number of counters.    *)
(* The invariant that is inductive bounds the age of a share by the number *)
(* of intervals that began since it was pushed.                            *)
(***************************************************************************)
EXTENDS WorkerStats, FiniteSetTheorems, SequenceTheorems,
        WellFoundedInduction, TLAPS

Back(s) == epoch - log[s].epoch
Age(s) == LastShift - log[s].at

Ages ==
  \A s \in DOMAIN log :
    /\ Back(s) = 0 => Age(s) <= 0 /\ log[s].at < begin
    /\ Back(s) > 0 =>
         /\ AccumulateInterval * (Back(s) - 1) < Age(s)
         /\ Age(s) < 2 * AccumulateInterval * Back(s)

StatsInv == StatsTypeOK /\ Ages /\ CountsAreExact

-----------------------------------------------------------------------------
\* Intervals that are multiplied keep their order.
LEMMA Multiples ==
  ASSUME NEW a \in Nat \ {0}, NEW x \in Int, NEW y \in Int, x <= y
  PROVE  a * x <= a * y
<1>1. y - x \in Nat /\ a * (y - x) >= 0
  BY Z3
<1>2. a * y = a * x + a * (y - x)
  BY Z3
<1> QED BY <1>1, <1>2, Z3

\* shiftCount counts the intervals that ended, rounded down.
LEMMA ShiftCountBounds ==
  ASSUME StatsTypeOK
  PROVE  /\ ShiftCount \in Nat
         /\ now < begin => ShiftCount = 0 /\ NewBegin = begin
         /\ now >= begin =>
              /\ ShiftCount >= 1 /\ NewBegin = now + AccumulateInterval
              /\ AccumulateInterval * ShiftCount <= NewBegin - begin
              /\ NewBegin - begin < AccumulateInterval * (ShiftCount + 1)
<1> USE IntervalsAssumption
<1>1. now \in Nat /\ begin \in Nat
  BY DEF StatsTypeOK
<1>2. CASE now < begin
  BY <1>1, <1>2 DEF ShiftCount, NewBegin
<1>3. CASE now >= begin
  <2> DEFINE a == AccumulateInterval  t == now + AccumulateInterval - begin
  <2>1. t \in Nat /\ t >= a /\ a \in Nat \ {0}
    BY <1>1, <1>3
  <2>2. /\ ShiftCount = t \div a /\ NewBegin = now + a
        /\ NewBegin - begin = t
    BY <1>1, <1>3 DEF ShiftCount, NewBegin
  <2>3. t \div a \in Nat /\ a * (t \div a) <= t /\ t < a * ((t \div a) + 1)
    <3> HIDE DEF a, t
    <3> QED BY <2>1, Z3
  <2>4. t \div a >= 1
    <3> HIDE DEF a, t
    <3> QED BY <2>1, <2>3, Z3
  <2> QED BY <1>1, <1>3, <2>2, <2>3, <2>4
<1> QED BY <1>1, <1>2, <1>3

\* A record begins with no shares.
LEMMA StatsInit == Init => StatsInv
<1> SUFFICES ASSUME Init PROVE StatsInv
  OBVIOUS
<1> USE IntervalsAssumption DEF Init
<1>1. StatsTypeOK
  BY DEF StatsTypeOK, Zeros
<1>2. Ages
  BY DEF Ages
<1>3. CountsAreExact
  <2> SUFFICES ASSUME NEW i \in Counters
               PROVE  values[i] = Cardinality({s \in DOMAIN log :
                                                 log[s].epoch = epoch - i})
    BY DEF CountsAreExact
  <2>1. {s \in DOMAIN log : log[s].epoch = epoch - i} = {}
    OBVIOUS
  <2> QED BY <2>1, FS_EmptySet DEF Zeros
<1> QED BY <1>1, <1>2, <1>3 DEF StatsInv

\* A new record.
LEMMA AuthorizePreserves == StatsInv /\ Authorize => StatsInv'
<1> SUFFICES ASSUME StatsInv, Authorize PROVE StatsInv'
  OBVIOUS
<1> USE IntervalsAssumption DEF Authorize
<1>1. StatsTypeOK'
  BY DEF StatsInv, StatsTypeOK, Zeros
<1>2. Ages'
  BY DEF Ages
<1>3. CountsAreExact'
  <2> SUFFICES ASSUME NEW i \in Counters
               PROVE  values'[i] = Cardinality({s \in DOMAIN log' :
                                          log'[s].epoch = epoch' - i})
    BY DEF CountsAreExact
  <2>1. {s \in DOMAIN log' : log'[s].epoch = epoch' - i} = {}
    OBVIOUS
  <2> QED BY <2>1, FS_EmptySet DEF Zeros
<1> QED BY <1>1, <1>2, <1>3 DEF StatsInv

\* Time passes; nothing else changes.
LEMMA TickPreserves == StatsInv /\ Tick => StatsInv'
BY IntervalsAssumption
   DEF StatsInv, Tick, StatsTypeOK, Ages, Back, Age, LastShift, CountsAreExact

-----------------------------------------------------------------------------
\* The copy in place

\* A set of numbers has a least one.
LEMMA Least ==
  ASSUME NEW S \in SUBSET Nat, S # {}
  PROVE  \E p \in S : \A q \in S : p <= q
<1> DEFINE Before == OpToRel(<, Nat)
<1>1. PICK p \in S : \A q \in S : ~(<<q, p>> \in Before)
  <2>1. IsWellFoundedOn(Before, Nat)
    BY NatLessThanWellFounded
  <2> HIDE DEF Before
  <2> QED BY <2>1, WFMin
<1>2. ASSUME NEW q \in S PROVE p <= q
  <2>1. p \in Nat /\ q \in Nat /\ ~(q < p)
    BY <1>1 DEF OpToRel
  <2> QED BY <2>1
<1> QED BY <1>2

\* After k rounds the k counters at the top hold what was count places below
\* them, and the others are as they were.
Rounds(count) ==
  [k \in 0..(Interval - count) |->
     [i \in Counters |-> IF i >= Interval - k THEN values[i - count] ELSE values[i]]]

\* One round of the loop, from the counters after the round before.
Round(f, k, count) ==
  IF k = 0 THEN values
  ELSE Write(f[k - 1], Interval - k, f[k - 1][Interval - count - k])

\* A write to one of the counters leaves the others, and no more than them.
LEMMA WriteInside ==
  ASSUME NEW f, DOMAIN f = Counters, NEW i \in Counters, NEW x
  PROVE  Write(f, i, x) = [j \in Counters |-> IF j = i THEN x ELSE f[j]]
<1>1. Counters \cup {i} = Counters
  BY Zenon
<1> QED BY <1>1, Zenon DEF Write

\* The loop is some function that makes the rounds.
LEMMA CopyIsChosen ==
  ASSUME NEW count
  PROVE  Copy(count) = CHOOSE f : f = [k \in 0..(Interval - count) |-> Round(f, k, count)]
BY Zenon DEF Copy, Round

\* A round reads a counter that no earlier round has written.
LEMMA RoundMoves ==
  ASSUME NEW count \in 0..(Interval - 1), NEW k \in 0..(Interval - count),
         values \in [Counters -> Nat], NEW f,
         k # 0 => f[k - 1] = Rounds(count)[k - 1]
  PROVE  Round(f, k, count) = Rounds(count)[k]
<1> USE IntervalsAssumption DEF Counters
<1>1. CASE k = 0
  BY <1>1 DEF Round, Rounds
<1>2. CASE k # 0
  <2> DEFINE before == Rounds(count)[k - 1]
             after  == Write(before, Interval - k, before[Interval - count - k])
  <2>1. k - 1 \in 0..(Interval - count) /\ Interval - k \in Counters
        /\ Interval - count - k \in Counters
    BY <1>2
  <2>2. before = [i \in Counters |-> IF i >= Interval - (k - 1) THEN values[i - count]
                                     ELSE values[i]]
    BY <2>1 DEF Rounds
  <2>3. before[Interval - count - k] = values[Interval - k - count]
    BY <2>1, <2>2
  <2>4. after = [i \in Counters |-> IF i = Interval - k THEN values[Interval - k - count]
                                    ELSE before[i]]
    <3>1. DOMAIN before = Counters
      BY <2>2
    <3> HIDE DEF before
    <3> QED BY <2>1, <2>3, <3>1, WriteInside
  <2>5. \A i \in Counters :
          after[i] = IF i >= Interval - k THEN values[i - count] ELSE values[i]
    <3> SUFFICES ASSUME NEW i \in Counters
                 PROVE  after[i] = IF i >= Interval - k THEN values[i - count]
                                   ELSE values[i]
      OBVIOUS
    <3>1. before[i] = IF i >= Interval - (k - 1) THEN values[i - count] ELSE values[i]
      BY <2>2
    <3>2. after[i] = IF i = Interval - k THEN values[Interval - k - count]
                     ELSE before[i]
      BY <2>4
    <3>3. i # Interval - k => (i >= Interval - k <=> i >= Interval - (k - 1))
      OBVIOUS
    <3>4. i = Interval - k => i >= Interval - k /\ i - count = Interval - k - count
      OBVIOUS
    <3> HIDE DEF after, before
    <3> QED BY <3>1, <3>2, <3>3, <3>4
  <2>6. after = [i \in Counters |-> IF i >= Interval - k THEN values[i - count]
                                    ELSE values[i]]
    <3> HIDE DEF before
    <3> QED BY <2>4, <2>5
  <2>7. Round(f, k, count) = after
    BY <1>2 DEF Round
  <2> QED BY <2>6, <2>7 DEF Rounds
<1> QED BY <1>1, <1>2

\* The loop makes these rounds and no others.
LEMMA CopyRounds ==
  ASSUME NEW count \in 0..(Interval - 1), values \in [Counters -> Nat]
  PROVE  Copy(count) = Rounds(count)
<1> DEFINE D == 0..(Interval - count)
           f == Copy(count)
           Loop(g) == g = [k \in D |-> Round(g, k, count)]
<1>1. D \subseteq Nat /\ \A k \in D : k # 0 => k - 1 \in D /\ k - 1 < k
  BY IntervalsAssumption
<1>2. Loop(Rounds(count))
  <2>1. \A k \in D : Round(Rounds(count), k, count) = Rounds(count)[k]
    BY RoundMoves
  <2> QED BY <2>1 DEF Rounds
<1>3. Loop(f)
  <2>1. f = CHOOSE g : Loop(g)
    BY CopyIsChosen, Zenon
  <2> HIDE DEF f, Loop
  <2> QED BY <1>2, <2>1, Zenon
<1>4. \A k \in D : f[k] = Round(f, k, count)
  <2> HIDE DEF f, D
  <2> QED BY <1>3
<1> DEFINE Wrong == {k \in D : f[k] # Rounds(count)[k]}
<1>5. Wrong = {}
  <2> SUFFICES ASSUME Wrong # {} PROVE FALSE
    OBVIOUS
  <2>1. PICK p \in Wrong : \A q \in Wrong : p <= q
    <3>1. Wrong \in SUBSET Nat
      BY <1>1
    <3> HIDE DEF Wrong
    <3> QED BY <3>1, Least
  <2>2. p \in D /\ f[p] # Rounds(count)[p]
    BY <2>1
  <2>3. p # 0 => f[p - 1] = Rounds(count)[p - 1]
    BY <1>1, <2>1, <2>2
  <2> HIDE DEF f
  <2>4. Round(f, p, count) = Rounds(count)[p]
    BY <2>2, <2>3, RoundMoves
  <2> QED BY <1>4, <2>2, <2>4
<1>6. f = [k \in D |-> f[k]] /\ Rounds(count) = [k \in D |-> Rounds(count)[k]]
  <2>1. Rounds(count) = [k \in D |-> Rounds(count)[k]]
    BY DEF Rounds
  <2>2. f = [k \in D |-> f[k]]
    <3> HIDE DEF f, D
    <3> QED BY <1>3
  <2> QED BY <2>1, <2>2
<1> HIDE DEF f, D
<1> QED BY <1>5, <1>6 DEF f

\* shift() moves every counter count places up and clears those it frees,
\* however long the pause.
THEOREM ShiftMoves ==
  ASSUME StatsTypeOK, NEW count \in Nat
  PROVE  Shifted(count) =
           [i \in Counters |-> IF i >= count THEN values[i - count] ELSE 0]
<1>1. values \in [Counters -> Nat]
  BY DEF StatsTypeOK
<1>2. CASE count < Interval
  <2>1. Interval - count \in 0..(Interval - count) /\ count \in 0..(Interval - 1)
    BY <1>2, IntervalsAssumption
  <2>2. Copy(count)[Interval - count]
          = [i \in Counters |-> IF i >= Interval - (Interval - count)
                                THEN values[i - count] ELSE values[i]]
    BY <1>1, <2>1, CopyRounds DEF Rounds
  <2>3. Interval - (Interval - count) = count
    BY IntervalsAssumption
  <2> DEFINE copied == Copy(count)[Interval - count]
             filled == 0..(count - 1)
  <2>4. copied = [i \in Counters |-> IF i >= count THEN values[i - count] ELSE values[i]]
    BY <2>2, <2>3
  <2>5. \A i \in Counters : i \in filled <=> ~(i >= count)
    BY IntervalsAssumption DEF Counters
  <2>6. filled \subseteq Counters
    BY <1>2, IntervalsAssumption DEF Counters
  <2>7. Shifted(count)
          = [i \in DOMAIN copied \cup filled |-> IF i \in filled THEN 0 ELSE copied[i]]
    BY <1>2 DEF Shifted
  <2> HIDE DEF copied, filled
  <2>8. DOMAIN copied \cup filled = Counters
    BY <2>4, <2>6
  <2> QED BY <2>4, <2>5, <2>7, <2>8
<1>3. CASE count >= Interval
  <2>1. \A i \in Counters : ~(i >= count)
    BY <1>3, IntervalsAssumption DEF Counters
  <2>2. ~(count < Interval)
    BY <1>3, IntervalsAssumption
  <2> QED BY <2>1, <2>2 DEF Shifted, Zeros
<1> QED BY <1>2, <1>3, IntervalsAssumption

\* The same with the guard of shift(): it is what a push finds.
LEMMA PushFinds ==
  ASSUME StatsTypeOK
  PROVE  ShiftedNow =
           [i \in Counters |-> IF i >= ShiftCount THEN values[i - ShiftCount] ELSE 0]
<1>1. ShiftCount \in Nat
  BY ShiftCountBounds
<1>2. CASE ShiftCount = 0
  <2>1. \A i \in Counters : i >= 0 /\ i - 0 = i
    BY IntervalsAssumption DEF Counters
  <2> QED BY <1>2, <2>1 DEF ShiftedNow, StatsTypeOK
<1>3. CASE ShiftCount # 0
  BY <1>1, <1>3, ShiftMoves DEF ShiftedNow
<1> QED BY <1>2, <1>3

\* values[0]++ finds its counter.
LEMMA PushCounts ==
  ASSUME StatsInv, PushShare
  PROVE  values' = [i \in Counters |-> IF i = 0 THEN ShiftedNow[0] + 1 ELSE ShiftedNow[i]]
<1>1. 0 \in Counters
  BY IntervalsAssumption DEF Counters
<1>2. DOMAIN ShiftedNow = Counters
  BY PushFinds DEF StatsInv
<1>3. values' = Write(ShiftedNow, 0, ShiftedNow[0] + 1)
  BY DEF PushShare
<1> QED BY <1>1, <1>2, <1>3, WriteInside

-----------------------------------------------------------------------------
\* A share is pushed: it is the newest, in the newest interval.
LEMMA PushedLog ==
  ASSUME StatsInv, PushShare
  PROVE  /\ epoch' = epoch + ShiftCount /\ epoch \in Nat /\ ShiftCount \in Nat
         /\ Len(log) \in Nat /\ DOMAIN log = 1..Len(log)
         /\ DOMAIN log' = 1..(Len(log) + 1)
         /\ \A s \in DOMAIN log : /\ log'[s] = log[s]
                                  /\ log[s].epoch \in 0..epoch
                                  /\ log[s].at \in Nat
         /\ log'[Len(log) + 1] = [at |-> now, epoch |-> epoch + ShiftCount]
         /\ log' \in Seq([at : Nat, epoch : 0..epoch'])
<1>1. /\ epoch \in Nat /\ now \in Nat /\ ShiftCount \in Nat
      /\ log \in Seq([at : Nat, epoch : 0..epoch])
  BY ShiftCountBounds DEF StatsInv, StatsTypeOK
<1>2. /\ epoch' = epoch + ShiftCount
      /\ log' = Append(log, [at |-> now, epoch |-> epoch + ShiftCount])
  BY DEF PushShare
<1>3. Len(log) \in Nat /\ DOMAIN log = 1..Len(log)
  BY <1>1
<1>4. \A s \in 1..Len(log) : log[s] \in [at : Nat, epoch : 0..epoch]
  BY <1>1, ElementOfSeq
<1>5. /\ DOMAIN log' = 1..(Len(log) + 1) /\ Len(log') = Len(log) + 1
      /\ \A s \in 1..Len(log) : log'[s] = log[s]
      /\ log'[Len(log) + 1] = [at |-> now, epoch |-> epoch + ShiftCount]
  BY <1>1, <1>2, <1>3
<1>6. log' \in Seq([at : Nat, epoch : 0..epoch'])
  <2>1. \A s \in 1..Len(log') : log'[s] \in [at : Nat, epoch : 0..epoch']
    BY <1>1, <1>2, <1>3, <1>4, <1>5
  <2>2. log' = [s \in 1..Len(log') |-> log'[s]]
    BY <1>1, <1>2
  <2>3. Len(log') \in Nat
    BY <1>3, <1>5
  <2>4. \A m \in Nat : \A S, q :
          (\A s \in 1..m : q[s] \in S) /\ q = [s \in 1..m |-> q[s]]
            => q \in Seq(S)
    OBVIOUS
  <2> DEFINE S == [at : Nat, epoch : 0..epoch']
  <2> HIDE DEF S
  <2> QED BY <2>1, <2>2, <2>3, <2>4
<1> QED BY <1>1, <1>2, <1>3, <1>4, <1>5, <1>6

\* The ages grow with the intervals that ended.
LEMMA PushKeepsAges ==
  ASSUME StatsInv, PushShare
  PROVE  Ages'
<1> DEFINE a == AccumulateInterval  n == ShiftCount
<1>1. /\ now \in Nat /\ begin \in Nat /\ a \in Nat \ {0} /\ n \in Nat
      /\ begin' = NewBegin /\ begin <= now + a /\ epoch' = epoch + n
  BY IntervalsAssumption, ShiftCountBounds
     DEF StatsInv, StatsTypeOK, PushShare
<1>2. ASSUME NEW s \in DOMAIN log
      PROVE  /\ Back(s)' = Back(s) + n /\ Age(s)' = Age(s) + (begin' - begin)
             /\ log'[s].at = log[s].at /\ log[s].at \in Nat
             /\ Back(s) \in Nat /\ Age(s) \in Int /\ begin' \in Nat
  <2>1. /\ log'[s] = log[s] /\ log[s].epoch \in 0..epoch /\ epoch \in Nat
        /\ log[s].at \in Nat
    BY PushedLog
  <2>2. begin' \in Nat
    BY <1>1 DEF NewBegin
  <2> QED BY <1>1, <2>1, <2>2, IntervalsAssumption DEF Back, Age, LastShift
<1>3. ASSUME NEW s \in DOMAIN log
      PROVE  /\ Back(s)' = 0 => Age(s)' <= 0 /\ log'[s].at < begin'
             /\ Back(s)' > 0 => /\ a * (Back(s)' - 1) < Age(s)'
                                /\ Age(s)' < 2 * a * Back(s)'
  <2> DEFINE b == Back(s)  g == Age(s)  d == begin' - begin
  <2>1. /\ b = 0 => g <= 0 /\ log[s].at < begin
        /\ b > 0 => a * (b - 1) < g /\ g < 2 * a * b
    BY DEF StatsInv, Ages
  <2>2. /\ Back(s)' = b + n /\ Age(s)' = g + d /\ b \in Nat /\ g \in Int
        /\ d \in Int
    BY <1>1, <1>2
  <2>3. CASE now < begin
    <3>1. n = 0 /\ d = 0 /\ begin' = begin
      BY <1>1, <2>3, ShiftCountBounds DEF StatsInv
    <3> QED BY <1>2, <2>1, <2>2, <3>1
  <2>4. CASE now >= begin
    <3>1. n >= 1 /\ a * n <= d /\ d < a * (n + 1) /\ begin' = now + a
      BY <1>1, <2>4, ShiftCountBounds DEF StatsInv
    <3>2. b = 0 => g > -a
      BY <1>1, <1>2, <2>1, <2>2 DEF Age, LastShift
    <3>3. a * (b + n - 1) < g + d
      <4>1. CASE b = 0
        <5>1. a * (n - 1) = a * n - a
          BY <1>1, Z3
        <5> HIDE DEF a, b, g, d, n
        <5> QED BY <1>1, <2>2, <3>1, <3>2, <4>1, <5>1
      <4>2. CASE b > 0
        <5> HIDE DEF a, b, g, d, n
        <5>1. a * (b + n - 1) = a * (b - 1) + a * n
          BY <1>1, <2>2, Z3
        <5> QED BY <1>1, <2>1, <2>2, <3>1, <4>2, <5>1, Z3
      <4> QED BY <2>2, <4>1, <4>2
    <3>4. g + d < 2 * a * (b + n)
      <4> HIDE DEF a, b, g, d, n
      <4>1. a * (n + 1) <= 2 * a * n
        <5>1. a * (n + 1) = a * n + a /\ 2 * a * n = a * n + a * n
          BY <1>1, Z3
        <5>2. a <= a * n
          <6>1. a * 1 <= a * n
            BY <1>1, <3>1, Multiples
          <6> QED BY <1>1, <6>1, Z3
        <5> QED BY <1>1, <5>1, <5>2, Z3
      <4>2. 2 * a * (b + n) = 2 * a * b + 2 * a * n
        BY <1>1, <2>2, Z3
      <4>3. g <= 2 * a * b
        <5>1. CASE b = 0
          BY <5>1, <1>1, <2>1, <2>2, Z3
        <5>2. CASE b > 0
          BY <5>2, <1>1, <2>1, <2>2, Z3
        <5> QED BY <2>2, <5>1, <5>2
      <4> QED BY <1>1, <2>2, <3>1, <4>1, <4>2, <4>3, Z3
    <3> QED BY <1>1, <2>2, <3>1, <3>3, <3>4
  <2> QED BY <1>1, <2>3, <2>4
<1>4. ASSUME NEW s \in DOMAIN log', s = Len(log) + 1
      PROVE  Back(s)' = 0 /\ Age(s)' <= 0 /\ log'[s].at < begin'
  <2>1. begin' <= now + a /\ now < begin' /\ begin' \in Nat
    BY <1>1 DEF NewBegin
  <2>2. log'[s].at = now /\ log'[s].epoch = epoch + n /\ epoch + n \in Nat
    <3>1. log'[Len(log) + 1] = [at |-> now, epoch |-> epoch + n]
      BY PushedLog
    <3>2. epoch + n \in Nat
      BY PushedLog
    <3> QED BY <1>4, <3>1, <3>2
  <2> QED BY <1>1, <2>1, <2>2 DEF Back, Age, LastShift
<1>5. \A s \in DOMAIN log' : s \in DOMAIN log \/ s = Len(log) + 1
  BY PushedLog
<1>6. ASSUME NEW s \in DOMAIN log'
      PROVE  /\ Back(s)' = 0 => Age(s)' <= 0 /\ log'[s].at < begin'
             /\ Back(s)' > 0 => /\ a * (Back(s)' - 1) < Age(s)'
                                /\ Age(s)' < 2 * a * Back(s)'
  <2>1. CASE s \in DOMAIN log
    BY <2>1, <1>3
  <2>2. CASE s = Len(log) + 1
    <3>1. Back(s)' = 0 /\ Age(s)' <= 0 /\ log'[s].at < begin'
      BY <2>2, <1>4
    <3> QED BY <3>1
  <2> QED BY <1>5, <2>1, <2>2
<1> QED BY <1>6 DEF Ages

\* The counters move by the intervals that ended, and the newest counts one
\* more.
LEMMA PushKeepsCounts ==
  ASSUME StatsInv, PushShare
  PROVE  CountsAreExact'
<1> DEFINE Of(e) == {s \in DOMAIN log : log[s].epoch = e}
           n == ShiftCount
           new == Len(log) + 1
<1>1. /\ epoch' = epoch + n /\ epoch \in Nat /\ n \in Nat /\ new \in Nat
      /\ DOMAIN log = 1..(new - 1) /\ DOMAIN log' = 1..new
      /\ \A s \in DOMAIN log : log'[s] = log[s] /\ log[s].epoch \in 0..epoch
      /\ log'[new].epoch = epoch + n
  <2>1. Len(log) \in Nat
    BY PushedLog
  <2> QED BY <2>1, PushedLog
<1>2. /\ values' = [i \in Counters |-> IF i = 0 THEN ShiftedNow[0] + 1 ELSE ShiftedNow[i]]
      /\ 0 \in Counters /\ Counters \subseteq Nat
  BY PushCounts, IntervalsAssumption DEF Counters
<1>3. \A i \in Counters : values[i] = Cardinality(Of(epoch - i))
  BY DEF StatsInv, CountsAreExact
<1>4. ASSUME NEW i \in Counters
      PROVE  ShiftedNow[i] = Cardinality(Of(epoch + n - i))
  <2>1. CASE i >= n
    <3>1. i - n \in Counters /\ epoch - (i - n) = epoch + n - i
      BY <1>1, <2>1, IntervalsAssumption DEF Counters
    <3>2. ShiftedNow[i] = values[i - n]
      BY <2>1, PushFinds DEF StatsInv
    <3> QED BY <3>1, <3>2, <1>3
  <2>2. CASE i < n
    <3>1. Of(epoch + n - i) = {}
      BY <1>1, <1>2, <2>2
    <3>2. ShiftedNow[i] = 0
      BY <1>1, <1>2, <2>2, PushFinds DEF StatsInv
    <3> QED BY <3>1, <3>2, FS_EmptySet
  <2> QED BY <1>1, <1>2, <2>1, <2>2
<1>5. \A e : IsFiniteSet(Of(e)) /\ new \notin Of(e)
  <2>1. IsFiniteSet(1..(new - 1))
    BY <1>1, FS_Interval
  <2>2. \A e : Of(e) \subseteq 1..(new - 1)
    BY <1>1
  <2>3. new \notin 1..(new - 1)
    BY <1>1
  <2> QED BY <2>1, <2>2, <2>3, FS_Subset
<1>6. ASSUME NEW i \in Counters
      PROVE  values'[i] = Cardinality({s \in DOMAIN log' :
                                         log'[s].epoch = epoch' - i})
  <2> DEFINE Later == {s \in DOMAIN log' : log'[s].epoch = epoch' - i}
  <2>1. \A s \in DOMAIN log' : s \in DOMAIN log \/ s = new
    BY <1>1
  <2>2. CASE i = 0
    <3>1. Later = Of(epoch + n) \cup {new}
      BY <1>1, <2>1, <2>2
    <3>2. Cardinality(Of(epoch + n) \cup {new}) = Cardinality(Of(epoch + n)) + 1
      <4> DEFINE F == Of(epoch + n)
      <4>1. IsFiniteSet(F) /\ new \notin F
        BY <1>5
      <4> HIDE DEF F, new
      <4>2. Cardinality(F \cup {new})
              = IF new \in F THEN Cardinality(F) ELSE Cardinality(F) + 1
        BY <4>1, FS_AddElement, Zenon
      <4>3. Cardinality(F \cup {new}) = Cardinality(F) + 1
        BY <4>1, <4>2
      <4> QED BY <4>3 DEF F
    <3>3. values'[i] = ShiftedNow[i] + 1
      BY <1>2, <2>2, PushFinds DEF StatsInv
    <3>4. epoch + n - i = epoch + n
      BY <1>1, <2>2
    <3> QED BY <3>1, <3>2, <3>3, <3>4, <1>4
  <2>3. CASE i # 0
    <3>1. Later = Of(epoch + n - i)
      <4>1. log'[new].epoch # epoch' - i
        BY <1>1, <1>2, <2>3
      <4>2. \A s \in DOMAIN log : log'[s].epoch = log[s].epoch
                                /\ s \in DOMAIN log'
        BY <1>1
      <4>3. epoch' - i = epoch + n - i
        <5>1. epoch' = epoch + n /\ epoch \in Nat /\ n \in Nat /\ i \in Nat
          BY <1>1, <1>2
        <5> HIDE DEF n
        <5> QED BY <5>1
      <4>4. ASSUME NEW s PROVE s \in Later <=> s \in Of(epoch + n - i)
        BY <4>1, <4>2, <4>3, <2>1, Zenon
      <4> QED BY <4>4, Zenon
    <3>2. values'[i] = ShiftedNow[i]
      BY <1>2, <2>3, PushFinds DEF StatsInv
    <3> QED BY <3>1, <3>2, <1>4
  <2> QED BY <2>2, <2>3
<1> QED BY <1>6 DEF CountsAreExact

\* A push keeps the types.
LEMMA PushKeepsTypes ==
  ASSUME StatsInv, PushShare
  PROVE  StatsTypeOK'
<1>1. /\ now \in Nat /\ begin \in Nat /\ values \in [Counters -> Nat]
      /\ begin <= now + AccumulateInterval /\ AccumulateInterval \in Nat
      /\ 0 \in Counters /\ Counters \subseteq Int
  BY IntervalsAssumption DEF StatsInv, StatsTypeOK, Counters
<1>2. NewBegin \in Nat /\ NewBegin <= now + AccumulateInterval
  BY <1>1 DEF NewBegin
<1>3. ShiftCount \in Nat /\ epoch \in Nat
  BY PushedLog
<1>4. ShiftedNow \in [Counters -> Nat]
  <2> SUFFICES ASSUME NEW i \in Counters, i >= ShiftCount
               PROVE  values[i - ShiftCount] \in Nat
    BY <1>1, PushFinds DEF StatsInv
  <2>1. i - ShiftCount \in Counters
    BY <1>3, IntervalsAssumption DEF Counters
  <2> QED BY <1>1, <2>1
<1>5. values' \in [Counters -> Nat]
  <2>1. values' = [i \in Counters |-> IF i = 0 THEN ShiftedNow[0] + 1 ELSE ShiftedNow[i]]
    BY PushCounts
  <2> QED BY <1>1, <1>4, <2>1
<1> QED BY <1>1, <1>2, <1>3, <1>5, PushedLog DEF StatsTypeOK, PushShare

\* Every step keeps the invariant.
LEMMA StatsStep == StatsInv /\ [Next]_vars => StatsInv'
<1> SUFFICES ASSUME StatsInv, [Next]_vars PROVE StatsInv'
  OBVIOUS
<1>1. CASE Tick
  BY <1>1, TickPreserves
<1>2. CASE Authorize
  BY <1>2, AuthorizePreserves
<1>3. CASE PushShare
  BY <1>3, PushKeepsTypes, PushKeepsAges, PushKeepsCounts DEF StatsInv
<1>4. CASE UNCHANGED vars
  BY <1>4 DEF vars, StatsInv, StatsTypeOK, Ages, Back, Age, LastShift,
              CountsAreExact
<1> QED BY <1>1, <1>2, <1>3, <1>4 DEF Next

\* The age bounds give the window of the report.
LEMMA AgesGiveWindow == StatsInv => ReportWindow
<1> SUFFICES ASSUME StatsInv, NEW s \in DOMAIN log
             PROVE  /\ Age(s) <= (Interval - 1) * AccumulateInterval
                         => Back(s) <= Interval - 1
                    /\ Back(s) \in 1..(Interval - 1)
                         => Age(s) < 2 * (Interval - 1) * AccumulateInterval
  BY DEF ReportWindow, Age, Back
<1> DEFINE a == AccumulateInterval  b == Back(s)  g == Age(s)  m == Interval - 1
<1>1. a \in Nat \ {0} /\ m \in Nat
  BY IntervalsAssumption
<1>2. b \in Nat /\ g \in Int
  <2>1. log \in Seq([at : Nat, epoch : 0..epoch]) /\ epoch \in Nat
        /\ begin \in Nat
    BY DEF StatsInv, StatsTypeOK
  <2>2. log[s] \in [at : Nat, epoch : 0..epoch]
    <3>1. s \in 1..Len(log)
      BY <2>1
    <3> QED BY <2>1, <3>1, ElementOfSeq
  <2>3. log[s].epoch \in 0..epoch /\ log[s].at \in Nat
    BY <2>2
  <2> QED BY <2>1, <2>3, IntervalsAssumption DEF Back, Age, LastShift
<1>3. b > 0 => a * (b - 1) < g /\ g < 2 * a * b
  BY DEF StatsInv, Ages
<1> HIDE DEF a, b, g, m
<1>4. g <= m * a => b <= m
  <2> SUFFICES ASSUME g <= m * a, b > m PROVE FALSE
    BY <1>1, <1>2
  <2>1. a * m <= a * (b - 1)
    BY <1>1, <1>2, Multiples
  <2>2. m * a = a * m /\ a * m \in Int /\ a * (b - 1) \in Int
    BY <1>1, <1>2, Z3
  <2>3. a * (b - 1) < g
    BY <1>1, <1>2, <1>3
  <2> QED BY <2>1, <2>2, <2>3, <1>2
<1>5. b \in 1..m => g < 2 * m * a
  <2> SUFFICES ASSUME b \in 1..m PROVE g < 2 * m * a
    OBVIOUS
  <2>1. a * b <= a * m
    BY <1>1, <1>2, Multiples
  <2>2. 2 * m * a = 2 * (a * m) /\ 2 * a * b = 2 * (a * b)
        /\ a * b \in Int /\ a * m \in Int
    BY <1>1, <1>2, Z3
  <2>3. g < 2 * a * b
    BY <1>3
  <2> QED BY <2>1, <2>2, <2>3, <1>2
<1> QED BY <1>4, <1>5 DEF a, b, g, m

-----------------------------------------------------------------------------
\* The report

OfEpoch(e) == {s \in DOMAIN log : log[s].epoch = e}
Reported == {s \in DOMAIN log : Back(s) \in 1..(Interval - 1)}

\* A share of the log: its interval and its time.
LEMMA Logged ==
  ASSUME StatsInv, NEW s \in DOMAIN log
  PROVE  /\ epoch \in Nat /\ begin \in Nat /\ AccumulateInterval \in Nat \ {0}
         /\ Interval \in Nat \ {0}
         /\ log[s].epoch \in 0..epoch /\ log[s].at \in Nat
         /\ Back(s) \in Nat /\ Age(s) \in Int
<1>1. log \in Seq([at : Nat, epoch : 0..epoch]) /\ epoch \in Nat /\ begin \in Nat
  BY DEF StatsInv, StatsTypeOK
<1>2. log[s] \in [at : Nat, epoch : 0..epoch]
  <2>1. s \in 1..Len(log)
    BY <1>1
  <2> QED BY <1>1, <2>1, ElementOfSeq
<1>3. log[s].epoch \in 0..epoch /\ log[s].at \in Nat
  BY <1>2
<1> QED BY <1>1, <1>3, IntervalsAssumption DEF Back, Age, LastShift

\* The shares of the last n intervals before the current one.
Last(n) == {s \in DOMAIN log : Back(s) \in 1..n}

\* One round of the loop of updateStats.
SumRound(f, i) == IF i = 0 THEN 0 ELSE f[i - 1] + values[i]

LEMMA SumsAreChosen ==
  Sums = CHOOSE f : f = [i \in 0..(Interval - 1) |-> SumRound(f, i)]
BY Zenon DEF Sums, SumRound

\* Another counter adds the shares of its interval.
LEMMA LastGrows ==
  ASSUME StatsInv, NEW n \in 1..(Interval - 1)
  PROVE  Cardinality(Last(n)) = Cardinality(Last(n - 1)) + values[n]
<1>1. IsFiniteSet(DOMAIN log)
  <2>1. log \in Seq([at : Nat, epoch : 0..epoch])
    BY DEF StatsInv, StatsTypeOK
  <2>2. DOMAIN log = 1..Len(log) /\ Len(log) \in Nat
    BY <2>1
  <2> QED BY <2>2, FS_Interval
<1>2. values[n] = Cardinality(OfEpoch(epoch - n))
  <2>1. n \in Counters
    BY IntervalsAssumption DEF Counters
  <2> QED BY <2>1 DEF StatsInv, CountsAreExact, OfEpoch
<1>3. ASSUME NEW s \in DOMAIN log
      PROVE  /\ s \in Last(n) <=> s \in Last(n - 1) \/ s \in OfEpoch(epoch - n)
             /\ ~(s \in Last(n - 1) /\ s \in OfEpoch(epoch - n))
  <2>1. /\ epoch \in Nat /\ log[s].epoch \in 0..epoch /\ n \in Nat
        /\ Back(s) = epoch - log[s].epoch /\ Back(s) \in Nat
    BY Logged, IntervalsAssumption DEF Back
  <2>2. s \in OfEpoch(epoch - n) <=> Back(s) = n
    BY <2>1 DEF OfEpoch
  <2>3. Back(s) \in 1..n <=> Back(s) \in 1..(n - 1) \/ Back(s) = n
    BY <2>1, IntervalsAssumption
  <2>4. Back(s) = n => Back(s) \notin 1..(n - 1)
    BY <2>1
  <2> QED BY <2>2, <2>3, <2>4 DEF Last
<1>4. /\ Last(n - 1) \in SUBSET DOMAIN log /\ Last(n) \in SUBSET DOMAIN log
      /\ OfEpoch(epoch - n) \in SUBSET DOMAIN log
  BY DEF Last, OfEpoch
<1>5. /\ Last(n) = Last(n - 1) \cup OfEpoch(epoch - n)
      /\ Last(n - 1) \cap OfEpoch(epoch - n) = {}
  BY <1>3, <1>4, Zenon
<1>6. IsFiniteSet(Last(n - 1)) /\ IsFiniteSet(OfEpoch(epoch - n))
  BY <1>1, <1>4, FS_Subset
<1>7. /\ Cardinality(Last(n - 1)) \in Nat
      /\ Cardinality(OfEpoch(epoch - n)) \in Nat
  BY <1>6, FS_CardinalityType
<1>8. Cardinality(Last(n)) = Cardinality(Last(n - 1))
                             + Cardinality(OfEpoch(epoch - n)) - Cardinality({})
  BY <1>5, <1>6, FS_Union
<1> QED BY <1>2, <1>7, <1>8, FS_EmptySet

\* The loop counts the shares of the last intervals, one after the other.
LEMMA SumsCount ==
  ASSUME StatsInv
  PROVE  \A n \in 0..(Interval - 1) : Sums[n] = Cardinality(Last(n))
<1> DEFINE D == 0..(Interval - 1)
           Loop(g) == g = [n \in D |-> SumRound(g, n)]
           Counted == [n \in D |-> Cardinality(Last(n))]
<1>1. D \subseteq Nat
      /\ \A n \in D : n # 0 => n - 1 \in D /\ n - 1 < n /\ n \in 1..(Interval - 1)
  BY IntervalsAssumption
<1>2. Cardinality(Last(0)) = 0
  <2>1. Last(0) = {}
    BY DEF Last
  <2> QED BY <2>1, FS_EmptySet
<1>3. \A n \in D : SumRound(Counted, n) = Counted[n]
  <2> SUFFICES ASSUME NEW n \in D PROVE SumRound(Counted, n) = Counted[n]
    OBVIOUS
  <2>1. CASE n = 0
    BY <1>2, <2>1 DEF SumRound
  <2>2. CASE n # 0
    <3>1. Counted[n - 1] = Cardinality(Last(n - 1))
      BY <1>1, <2>2
    <3>2. Counted[n] = Counted[n - 1] + values[n]
      BY <1>1, <2>2, <3>1, LastGrows
    <3> QED BY <2>2, <3>2 DEF SumRound
  <2> QED BY <2>1, <2>2
<1> HIDE DEF D
<1>4. Loop(Counted)
  BY <1>3
<1> DEFINE f == Sums
<1>5. Loop(f)
  <2>1. f = CHOOSE g : Loop(g)
    BY SumsAreChosen, Zenon DEF D
  <2> HIDE DEF f, Loop
  <2> QED BY <1>4, <2>1, Zenon
<1> HIDE DEF f
<1>6. \A n \in D : f[n] = SumRound(f, n)
  BY <1>5
<1> DEFINE Wrong == {n \in D : f[n] # Counted[n]}
<1>7. Wrong = {}
  <2> SUFFICES ASSUME Wrong # {} PROVE FALSE
    OBVIOUS
  <2>1. PICK p \in Wrong : \A q \in Wrong : p <= q
    <3>1. Wrong \in SUBSET Nat
      BY <1>1
    <3> HIDE DEF Wrong
    <3> QED BY <3>1, Least
  <2>2. p \in D /\ f[p] # Counted[p]
    BY <2>1
  <2>3. p # 0 => f[p - 1] = Counted[p - 1]
    BY <1>1, <2>1, <2>2
  <2> HIDE DEF Counted
  <2>4. SumRound(f, p) = SumRound(Counted, p)
    BY <2>3 DEF SumRound
  <2> QED BY <1>3, <1>6, <2>2, <2>4
<1> QED BY <1>7 DEF f, D

\* So what is reported are the shares of all intervals but the current one.
LEMMA SumIsReported ==
  ASSUME StatsInv
  PROVE  UpdateStats = Cardinality(Reported) /\ IsFiniteSet(DOMAIN log)
<1>1. IsFiniteSet(DOMAIN log)
  <2>1. log \in Seq([at : Nat, epoch : 0..epoch])
    BY DEF StatsInv, StatsTypeOK
  <2>2. DOMAIN log = 1..Len(log) /\ Len(log) \in Nat
    BY <2>1
  <2> QED BY <2>2, FS_Interval
<1>2. Interval - 1 \in 0..(Interval - 1)
  BY IntervalsAssumption
<1>3. Last(Interval - 1) = Reported
  BY DEF Last, Reported
<1> QED BY <1>1, <1>2, <1>3, SumsCount DEF UpdateStats

\* The ages of the shares reported bound their number.
LEMMA WindowBoundsRate == StatsInv => RateIsBounded
<1> SUFFICES ASSUME StatsInv PROVE RateIsBounded
  OBVIOUS
<1> DEFINE a == AccumulateInterval
           m == Interval - 1
           Within(seconds) == {s \in DOMAIN log : 0 < Age(s) /\ Age(s) <= seconds}
<1>1. UpdateStats = Cardinality(Reported) /\ IsFiniteSet(DOMAIN log)
  BY SumIsReported
<1>2. \A seconds : SharesWithin(seconds) = Cardinality(Within(seconds))
  BY DEF SharesWithin, Age
<1>3. a \in Nat \ {0} /\ m \in Nat
  BY IntervalsAssumption
<1>4. ASSUME NEW s \in DOMAIN log
      PROVE  /\ Back(s) \in Nat /\ Age(s) \in Int
             /\ Back(s) = 0 => Age(s) <= 0
             /\ Back(s) > 0 => a * (Back(s) - 1) < Age(s)
             /\ Age(s) <= m * a => Back(s) <= m
             /\ Back(s) \in 1..m => Age(s) < 2 * m * a
  <2>1. Back(s) \in Nat /\ Age(s) \in Int
    BY Logged
  <2>2. /\ Back(s) = 0 => Age(s) <= 0
        /\ Back(s) > 0 => a * (Back(s) - 1) < Age(s)
    BY DEF StatsInv, Ages
  <2>3. /\ Age(s) <= m * a => Back(s) <= m
        /\ Back(s) \in 1..m => Age(s) < 2 * m * a
    BY AgesGiveWindow DEF ReportWindow, Age, Back
  <2> QED BY <2>1, <2>2, <2>3
<1>5. ASSUME NEW s \in Within(m * a) PROVE s \in Reported
  <2>1. s \in DOMAIN log /\ 0 < Age(s) /\ Age(s) <= m * a
    OBVIOUS
  <2>2. Back(s) \in 1..m
    BY <1>3, <1>4, <2>1
  <2> QED BY <2>1, <2>2 DEF Reported
<1>6. ASSUME NEW s \in Reported PROVE s \in Within(2 * m * a - 1)
  <2>1. s \in DOMAIN log /\ Back(s) \in 1..m
    BY DEF Reported
  <2>2. a * (Back(s) - 1) < Age(s) /\ Age(s) < 2 * m * a /\ Age(s) \in Int
    BY <1>3, <1>4, <2>1
  <2>3. a * (Back(s) - 1) \in Nat /\ 2 * m * a \in Nat
    BY <1>3, <2>1
  <2>4. 0 < Age(s) /\ Age(s) <= 2 * m * a - 1
    BY <2>2, <2>3
  <2> QED BY <2>1, <2>4
<1>7. /\ Within(m * a) \in SUBSET Reported
      /\ Reported \in SUBSET Within(2 * m * a - 1)
      /\ Reported \in SUBSET DOMAIN log /\ Within(2 * m * a - 1) \in SUBSET DOMAIN log
  <2> HIDE DEF a, m
  <2> QED BY <1>5, <1>6 DEF Reported
<1> HIDE DEF Within
<1>8. IsFiniteSet(Reported) /\ IsFiniteSet(Within(2 * m * a - 1))
  BY <1>1, <1>7, FS_Subset
<1>9. /\ Cardinality(Within(m * a)) <= Cardinality(Reported)
      /\ Cardinality(Reported) <= Cardinality(Within(2 * m * a - 1))
  BY <1>7, <1>8, FS_Subset
<1> QED BY <1>1, <1>2, <1>9 DEF RateIsBounded

-----------------------------------------------------------------------------
\* For every number of counters and every pause, short of the ring, as long or
\* longer: no round of the shift and no count writes beyond the counters.
THEOREM StatsTypes == Spec => []StatsTypeOK
<1>1. StatsInv => StatsTypeOK
  BY DEF StatsInv
<1> QED BY <1>1, StatsInit, StatsStep, PTL DEF Spec

\* For every interval length, number of counters and sequence of pushes, each
\* counter holds the shares of its interval.
THEOREM CountersAreExact == Spec => []CountsAreExact
<1>1. StatsInv => CountsAreExact
  BY DEF StatsInv
<1> QED BY <1>1, StatsInit, StatsStep, PTL DEF Spec

\* For every interval length and number of counters, the report covers the
\* time its rate is computed over, and less than twice that time.
THEOREM ReportCoversWindow == Spec => []ReportWindow
BY StatsInit, StatsStep, AgesGiveWindow, PTL DEF Spec

\* For every interval length and number of counters, the rate reported is not
\* below the true one, and counts no share older than twice its time.
THEOREM RateHasBounds == Spec => []RateIsBounded
BY StatsInit, StatsStep, WindowBoundsRate, PTL DEF Spec
=============================================================================
