-------------------------- MODULE CalculationsProofs --------------------------
(***************************************************************************)
(* Theorems about what is computed.  For instants of any size, a day of    *)
(* any length and a calendar of any number of months, what a task earns is *)
(* its fifths counted, and a monthly reminder keeps its day of the month.  *)
(* For any people, teams, tasks and ledger, the scores on the pages, the   *)
(* boards and the downloads add up, the ranks are fair, the lists agree    *)
(* with each other, and their pages miss and repeat nothing.               *)
(***************************************************************************)
EXTENDS MCCalculations, Listings, QueryLemmas

--------------------------------------------------------------------------------
(* calculatePoints *)

\* The fifths of a quotient: as many as it says, and five at most.
LEMMA Quotient ==
    ASSUME NEW x \in Nat, NEW w \in Nat \ {0}
    PROVE  /\ x \div w \in Nat
           /\ x >= 1 * w <=> x \div w >= 1
           /\ x >= 2 * w <=> x \div w >= 2
           /\ x >= 3 * w <=> x \div w >= 3
           /\ x >= 4 * w <=> x \div w >= 4
           /\ x >= 5 * w <=> x \div w >= 5
OBVIOUS

Windowed(d, c) == IF d - c < DayTicks THEN DayTicks ELSE d - c

Left(a, d, w) == {k \in 1 .. 5 : 5 * (d - a) >= k * w}

\* The window of a task is a day or longer.
LEMMA WindowIs ==
    ASSUME NEW d \in Int, NEW c \in Int
    PROVE  Window(d, c) = Windowed(d, c) /\ Windowed(d, c) \in Nat \ {0}
BY DayTicksAssumption DEF Window, AtLeast, Windowed

\* The fifths that were left are the first ones, as many as the bonus.
LEMMA LeftIs ==
    ASSUME NEW a \in Int, NEW d \in Int, NEW c \in Int, a <= d
    PROVE  /\ Bonus(a, d, c) \in 0 .. 5
           /\ Left(a, d, Windowed(d, c)) = 1 .. Bonus(a, d, c)
<1> DEFINE w == Windowed(d, c)
           x == 5 * (d - a)
           q == x \div w
<1>1. w \in Nat \ {0} /\ x \in Nat
  BY WindowIs
<1>2. Remaining(a, d) = d - a
  BY DEF Remaining, AtLeast
<1>3. Bonus(a, d, c) = IF q > 5 THEN 5 ELSE q
  BY <1>2, WindowIs DEF Bonus, AtMost, MaxBonus
<1> HIDE DEF w, x
<1>4. /\ q \in Nat
      /\ x >= 1 * w <=> q >= 1
      /\ x >= 2 * w <=> q >= 2
      /\ x >= 3 * w <=> q >= 3
      /\ x >= 4 * w <=> q >= 4
      /\ x >= 5 * w <=> q >= 5
  BY <1>1, Quotient
<1> HIDE DEF q
<1>5. ASSUME NEW k \in 1 .. 5
      PROVE  x >= k * w <=> q >= k
  <2>1. k = 1 \/ k = 2 \/ k = 3 \/ k = 4 \/ k = 5
    OBVIOUS
  <2>2. QED
    BY <1>4, <2>1
<1>6. {k \in 1 .. 5 : x >= k * w} = {k \in 1 .. 5 : q >= k}
  BY <1>5
<1>7. {k \in 1 .. 5 : q >= k} = 1 .. Bonus(a, d, c)
  BY <1>3, <1>4
<1>8. QED
  BY <1>3, <1>4, <1>6, <1>7 DEF Left, x, w

\* The bonus is the number of the fifths that were left.
LEMMA BonusCounts ==
    ASSUME NEW a \in Int, NEW d \in Int, NEW c \in Int, a <= d
    PROVE  Cardinality(Left(a, d, Windowed(d, c))) = Bonus(a, d, c)
<1>1. Bonus(a, d, c) \in Int /\ Bonus(a, d, c) >= 0
  BY LeftIs
<1> DEFINE b == Bonus(a, d, c)
           one == 1
<1> HIDE DEF b, one
<1>2. Cardinality(one .. b) = IF one > b THEN 0 ELSE b - one + 1
  <2>1. one \in Int /\ b \in Int
    BY <1>1 DEF b, one
  <2>2. QED
    BY <2>1, FS_Interval
<1>3. Cardinality(1 .. b) = b
  BY <1>1, <1>2 DEF b, one
<1>4. QED
  BY <1>3, LeftIs DEF b

Instants == approved \in Int /\ due \in Int /\ created \in Int

\* The instants of a task, whichever they are, are integers.
LEMMA InstantsStep ==
    ASSUME Instants, [Next]_vars
    PROVE  Instants'
BY DEF Instants, Next, Delay, Extend, Recur, Change, calculations, vars

\* The formula is the count of the fifths.
LEMMA FifthsCounted ==
    ASSUME Instants
    PROVE  PointsAsCounted
<1>1. Fifths = Cardinality(Left(approved, due, Windowed(due, created)))
  BY DEF Fifths, Left, Windowed
<1>2. CASE approved > due
  BY <1>2 DEF PointsAsCounted, Award, calculatePoints, LatePoints
<1>3. CASE ~(approved > due)
  <2>1. approved <= due
    BY <1>3 DEF Instants
  <2>2. Fifths = Bonus(approved, due, created)
    BY <1>1, <2>1, BonusCounts DEF Instants
  <2>3. QED
    BY <1>3, <2>2 DEF PointsAsCounted, Award, calculatePoints, BasePoints
<1>4. QED
  BY <1>2, <1>3

\* What calculatePoints awards is the count of the fifths of the window that were
\* left, for any instants: late or on time, due before the task was created, in a
\* window shorter than a day, and wherever the quotient is rounded.
THEOREM PointsAreCounted == Spec => []PointsAsCounted
<1>1. Init => Instants
  BY CalculationsAssumption DEF Init, TaskInit, ReminderInit, LedgerInit, Instants
<1>2. QED
  BY <1>1, InstantsStep, FifthsCounted, PTL DEF Spec

--------------------------------------------------------------------------------
(* calculateNextOccurrence *)

(***************************************************************************)
(* The calendar: the function that the recursion of FirstOf describes      *)
(* exists, so the months follow each other; and MonthOf finds the month    *)
(* an instant is in.                                                       *)
(***************************************************************************)
DayStep(g, k) == IF k = 0 THEN 0 ELSE g[k - 1] + DaysIn(k - 1)

LaysOut(n, g) == g = [k \in 0 .. n |-> DayStep(g, k)]

\* One value of the function.
LEMMA LaysOutAt ==
    ASSUME NEW n \in Nat, NEW g, LaysOut(n, g), NEW k \in 0 .. n
    PROVE  g[k] = DayStep(g, k)
BY DEF LaysOut

\* A layout is continued by one month.
LEMMA LaysOutNext ==
    ASSUME NEW n \in Nat, NEW g, LaysOut(n, g)
    PROVE  \E h : LaysOut(n + 1, h)
<1> DEFINE h == [k \in 0 .. n + 1 |-> IF k = n + 1 THEN g[n] + DaysIn(n) ELSE g[k]]
<1>1. ASSUME NEW k \in 0 .. n + 1
      PROVE  h[k] = DayStep(h, k)
  <2>1. CASE k = n + 1
    <3>1. k # 0 /\ k - 1 = n /\ n \in 0 .. n + 1 /\ n # n + 1
      BY <2>1
    <3>2. h[k] = g[n] + DaysIn(n) /\ h[n] = g[n]
      BY <2>1, <3>1
    <3>3. QED
      BY <3>1, <3>2 DEF DayStep
  <2>2. CASE k = 0
    <3>1. h[k] = g[k]
      BY <2>2
    <3>2. QED
      BY <2>2, <3>1, LaysOutAt DEF DayStep
  <2>3. CASE k # 0 /\ k # n + 1
    <3>1. k \in 0 .. n /\ k - 1 \in 0 .. n /\ k - 1 \in 0 .. n + 1 /\ k - 1 # n + 1
      BY <2>3
    <3>2. h[k] = g[k] /\ h[k - 1] = g[k - 1]
      BY <2>3, <3>1
    <3>3. g[k] = DayStep(g, k)
      BY <3>1, LaysOutAt
    <3>4. QED
      BY <2>3, <3>2, <3>3 DEF DayStep
  <2>4. QED
    BY <2>1, <2>2, <2>3
<1>2. LaysOut(n + 1, h)
  BY <1>1 DEF LaysOut
<1>3. QED
  BY <1>2

\* Any number of months can be laid out: there is no first one that cannot.
LEMMA LaidOut ==
    ASSUME NEW n \in Nat
    PROVE  \E g : LaysOut(n, g)
<1> DEFINE K == {k \in 0 .. n : ~\E g : LaysOut(k, g)}
<1>1. CASE K = {}
  BY <1>1
<1>2. CASE K # {}
  <2>1. K \in SUBSET (0 .. n)
    OBVIOUS
  <2> HIDE DEF K
  <2>2. PICK k \in K : \A j \in K : k <= j
    BY <1>2, <2>1, Extremes
  <2> USE DEF K
  <2>3. CASE k = 0
    <3> DEFINE g == [i \in 0 .. 0 |-> 0]
    <3>1. \A i \in 0 .. 0 : i = 0
      OBVIOUS
    <3>2. LaysOut(0, g)
      BY <3>1 DEF LaysOut, DayStep
    <3>3. QED
      BY <2>3, <3>2
  <2>4. CASE k # 0
    <3>1. k - 1 \in 0 .. n /\ k - 1 \in Nat /\ (k - 1) + 1 = k
      BY <2>4
    <3>2. PICK g : LaysOut(k - 1, g)
      BY <2>2, <3>1
    <3>3. \E h : LaysOut((k - 1) + 1, h)
      BY <3>1, <3>2, LaysOutNext
    <3>4. QED
      BY <3>1, <3>3
  <2>5. QED
    BY <2>3, <2>4
<1>3. QED
  BY <1>1, <1>2

\* The first of January is day 0, and a month begins when the one before it ends.
LEMMA FirstOfIs ==
    /\ FirstOf[0] = 0
    /\ \A k \in 1 .. Months : FirstOf[k] = FirstOf[k - 1] + DaysIn(k - 1)
<1>1. FirstOf = CHOOSE g : LaysOut(Months, g)
  BY DEF FirstOf, LaysOut, DayStep
<1>2. LaysOut(Months, FirstOf)
  BY <1>1, LaidOut, MonthsAssumption
<1>3. FirstOf[0] = DayStep(FirstOf, 0)
  BY <1>2, LaysOutAt, MonthsAssumption
<1>4. ASSUME NEW k \in 1 .. Months
      PROVE  FirstOf[k] = DayStep(FirstOf, k)
  BY <1>2, LaysOutAt, MonthsAssumption
<1>5. QED
  BY <1>3, <1>4 DEF DayStep

\* A month has 28 days to 31.
LEMMA MonthLength ==
    ASSUME NEW k \in Nat
    PROVE  DaysIn(k) \in 28 .. 31
BY DEF DaysIn

\* The days are numbered from 0, in the order of their months.
LEMMA FirstOfGrows ==
    /\ \A k \in 0 .. Months : FirstOf[k] \in Nat
    /\ \A k \in 0 .. Months : \A j \in 0 .. k : FirstOf[j] <= FirstOf[k]
<1> DEFINE Right(k) == FirstOf[k] \in Nat /\ \A j \in 0 .. k : FirstOf[j] <= FirstOf[k]
           K == {k \in 0 .. Months : ~Right(k)}
<1>1. CASE K = {}
  BY <1>1
<1>2. CASE K # {}
  <2>1. K \in SUBSET (0 .. Months)
    OBVIOUS
  <2> HIDE DEF K
  <2>2. PICK k \in K : \A j \in K : k <= j
    BY <1>2, <2>1, Extremes, MonthsAssumption
  <2> USE DEF K
  <2>3. CASE k = 0
    <3>1. Right(0)
      BY FirstOfIs
    <3>2. QED
      BY <2>3, <3>1
  <2>4. CASE k # 0
    <3>1. k \in 1 .. Months /\ k - 1 \in 0 .. Months /\ k - 1 \in Nat /\ k - 1 < k
      BY <2>4, MonthsAssumption
    <3>2. Right(k - 1)
      BY <2>2, <3>1
    <3>3. FirstOf[k] = FirstOf[k - 1] + DaysIn(k - 1) /\ DaysIn(k - 1) \in 28 .. 31
      BY <3>1, FirstOfIs, MonthLength
    <3>4. FirstOf[k] \in Nat /\ FirstOf[k - 1] <= FirstOf[k]
      BY <3>2, <3>3
    <3>5. ASSUME NEW j \in 0 .. k
          PROVE  FirstOf[j] <= FirstOf[k]
      <4>1. CASE j = k
        BY <3>4, <4>1
      <4>2. CASE j # k
        <5>1. j \in 0 .. k - 1
          BY <3>1, <4>2
        <5>2. j \in 0 .. Months /\ j < k
          BY <3>1, <5>1, MonthsAssumption
        <5>3. FirstOf[j] \in Nat
          BY <2>2, <5>2
        <5>4. QED
          BY <3>2, <3>4, <5>1, <5>3
      <4>3. QED
        BY <4>1, <4>2
    <3>6. QED
      BY <3>4, <3>5
  <2>5. QED
    BY <2>3, <2>4
<1>3. QED
  BY <1>1, <1>2

\* MonthOf is the last month that has begun.
LEMMA MonthOfIs ==
    ASSUME NEW t \in Nat
    PROVE  /\ MonthOf(t) \in 0 .. Months
           /\ FirstOf[MonthOf(t)] * Day <= t
           /\ \A k \in 0 .. Months : FirstOf[k] * Day <= t => k <= MonthOf(t)
<1> DEFINE K == {k \in 0 .. Months : FirstOf[k] * Day <= t}
<1>1. K \in SUBSET (0 .. Months)
  OBVIOUS
<1>2. 0 \in K
  BY FirstOfIs, MonthsAssumption DEF Day, Hour
<1>3. MonthOf(t) = CHOOSE k \in K : \A j \in K : k >= j
  BY DEF MonthOf, Max
<1> HIDE DEF K
<1>4. \E k \in K : \A j \in K : k >= j
  BY <1>1, <1>2, Extremes, MonthsAssumption
<1>5. MonthOf(t) \in K /\ \A j \in K : MonthOf(t) >= j
  BY <1>3, <1>4
<1>6. \A k \in 0 .. Months : FirstOf[k] * Day <= t => k \in K
  BY DEF K
<1>7. MonthOf(t) \in 0 .. Months /\ FirstOf[MonthOf(t)] * Day <= t
  BY <1>5 DEF K
<1>8. ASSUME NEW k \in 0 .. Months, FirstOf[k] * Day <= t
      PROVE  k <= MonthOf(t)
  BY <1>5, <1>6, <1>7, <1>8
<1>9. QED
  BY <1>7, <1>8

\* A day of a month, counted from 0, at any time of the day; the last month of the
\* calendar has no end.
On(m, d, t) ==
    /\ m \in 0 .. Months /\ d \in Nat /\ t \in 0 .. Day - 1
    /\ m < Months => d < DaysIn(m)

\* An instant is on a day of its month.
LEMMA InItsMonth ==
    ASSUME NEW t \in Nat
    PROVE  /\ On(MonthOf(t), DayOfMonth(t) - 1, t % Day)
           /\ t = (FirstOf[MonthOf(t)] + (DayOfMonth(t) - 1)) * Day + (t % Day)
<1> DEFINE m == MonthOf(t)
           f == FirstOf[m]
           q == t \div Day
<1>1. m \in 0 .. Months /\ f * Day <= t /\ f \in Nat
  BY MonthOfIs, FirstOfGrows
<1>2. q \in Nat /\ t % Day \in 0 .. Day - 1 /\ t = q * Day + (t % Day)
  BY DEF Day, Hour
<1>3. DayOfMonth(t) - 1 = q - f
  BY <1>1, <1>2 DEF DayOfMonth
<1>4. ASSUME m < Months
      PROVE  t < (f + DaysIn(m)) * Day
  <2>1. m + 1 \in 0 .. Months /\ m + 1 \in 1 .. Months /\ (m + 1) - 1 = m
    BY <1>1, <1>4, MonthsAssumption
  <2>2. FirstOf[m + 1] = f + DaysIn(m)
    BY <2>1, FirstOfIs
  <2>3. ~(FirstOf[m + 1] * Day <= t)
    BY <1>1, <2>1, MonthOfIs
  <2>4. DaysIn(m) \in 28 .. 31
    BY <1>1, MonthLength
  <2>5. QED
    BY <1>1, <2>2, <2>3, <2>4 DEF Day, Hour
<1> HIDE DEF f, q
<1>5. f <= q
  BY <1>1, <1>2 DEF Day, Hour
<1>6. ASSUME m < Months
      PROVE  q - f < DaysIn(m)
  <2>1. DaysIn(m) \in 28 .. 31
    BY <1>1, MonthLength
  <2>2. QED
    BY <1>1, <1>2, <1>4, <1>6, <2>1 DEF Day, Hour
<1>7. t = (f + (q - f)) * Day + (t % Day)
  BY <1>1, <1>2
<1>8. QED
  BY <1>1, <1>2, <1>3, <1>5, <1>6, <1>7 DEF On, f

\* The instant that is on a day of a month is in that month.
LEMMA MonthIs ==
    ASSUME NEW m, NEW d, NEW r, On(m, d, r),
           NEW t, t = (FirstOf[m] + d) * Day + r
    PROVE  t \in Nat /\ MonthOf(t) = m /\ DayOfMonth(t) = d + 1
<1>1. m \in 0 .. Months /\ d \in Nat /\ r \in 0 .. Day - 1 /\ FirstOf[m] \in Nat
  BY FirstOfGrows DEF On
<1>2. t \in Nat /\ FirstOf[m] * Day <= t /\ t \div Day = FirstOf[m] + d
  BY <1>1 DEF Day, Hour
<1>3. ASSUME NEW k \in 0 .. Months, k > m
      PROVE  ~(FirstOf[k] * Day <= t)
  <2>1. m < Months /\ m + 1 \in 1 .. Months /\ m + 1 \in 0 .. k /\ (m + 1) - 1 = m /\ m \in Nat
    BY <1>1, <1>3, MonthsAssumption
  <2>2. FirstOf[m + 1] = FirstOf[m] + DaysIn(m)
    BY <2>1, FirstOfIs
  <2>3. FirstOf[m + 1] <= FirstOf[k] /\ FirstOf[k] \in Nat
    BY <2>1, FirstOfGrows
  <2>4. d < DaysIn(m) /\ DaysIn(m) \in 28 .. 31
    BY <2>1, MonthLength DEF On
  <2>5. FirstOf[m] + d + 1 <= FirstOf[k]
    BY <1>1, <2>2, <2>3, <2>4
  <2>6. QED
    BY <1>1, <2>3, <2>5 DEF Day, Hour
<1>4. MonthOf(t) \in 0 .. Months /\ FirstOf[MonthOf(t)] * Day <= t /\ m <= MonthOf(t)
  BY <1>1, <1>2, MonthOfIs
<1>5. MonthOf(t) = m
  BY <1>1, <1>3, <1>4, MonthsAssumption
<1>6. DayOfMonth(t) = d + 1
  BY <1>1, <1>2, <1>5 DEF DayOfMonth
<1>7. QED
  BY <1>2, <1>5, <1>6

\* Months later it is the same day of the month, or one of the first three days of the
\* month after it when the month is too short.
LEMMA AddMonthsKeeps ==
    ASSUME NEW t \in Nat, NEW v \in Nat, MonthOf(t) + v < Months
    PROVE  /\ AddMonths(t, v) \in Nat
           /\ \/ DayOfMonth(AddMonths(t, v)) = DayOfMonth(t)
              \/ DayOfMonth(t) > 28 /\ DayOfMonth(AddMonths(t, v)) <= 3
<1> DEFINE m == MonthOf(t)
           n == m + v
           d == DayOfMonth(t) - 1
           r == t % Day
           u == AddMonths(t, v)
<1>1. m \in 0 .. Months /\ d \in Nat /\ r \in 0 .. Day - 1 /\ (m < Months => d < DaysIn(m))
  BY InItsMonth DEF On
<1>2. m < Months /\ d < 31
  <2>1. m < Months /\ m \in Nat
    BY <1>1, MonthsAssumption
  <2>2. DaysIn(m) \in 28 .. 31
    BY <2>1, MonthLength
  <2>3. QED
    BY <1>1, <2>1, <2>2
<1>3. n \in 0 .. Months /\ n < Months /\ n \in Nat
  BY <1>1, MonthsAssumption
<1>4. FirstOf[n] \in Nat /\ DaysIn(n) \in 28 .. 31
  BY <1>3, FirstOfGrows, MonthLength
<1>5. u = (FirstOf[n] + d) * Day + r
  <2>1. u = FirstOf[n] * Day + d * Day + r
    BY DEF AddMonths
  <2> HIDE DEF d, n, r, u
  <2>2. QED
    BY <1>1, <1>4, <2>1 DEF Day, Hour
<1>6. DayOfMonth(t) = d + 1
  <2>1. DayOfMonth(t) \in Int
    BY <1>1, MonthOfIs, FirstOfGrows DEF DayOfMonth, Day, Hour
  <2>2. QED
    BY <2>1
<1> HIDE DEF d, n, r, u
<1>7. CASE d < DaysIn(n)
  <2>1. On(n, d, r)
    BY <1>1, <1>3, <1>7 DEF On
  <2>2. u \in Nat /\ DayOfMonth(u) = d + 1
    BY <1>5, <2>1, MonthIs
  <2>3. QED
    BY <1>6, <2>2 DEF u
<1>8. CASE ~(d < DaysIn(n))
  <2> DEFINE e == d - DaysIn(n)
  <2>1. d >= 28 /\ e \in 0 .. 2
    BY <1>1, <1>2, <1>4, <1>8
  <2>2. n + 1 \in 0 .. Months /\ n + 1 \in 1 .. Months /\ (n + 1) - 1 = n /\ n + 1 \in Nat
    BY <1>3, MonthsAssumption
  <2>3. FirstOf[n + 1] = FirstOf[n] + DaysIn(n)
    BY <2>2, FirstOfIs
  <2>4. DaysIn(n + 1) \in 28 .. 31
    BY <2>2, MonthLength
  <2>5. On(n + 1, e, r)
    BY <1>1, <2>1, <2>2, <2>4 DEF On
  <2>6. FirstOf[n] + d = FirstOf[n + 1] + e
    BY <1>1, <1>4, <2>3
  <2> HIDE DEF e
  <2>7. u \in Nat /\ DayOfMonth(u) = e + 1
    BY <1>5, <2>5, <2>6, MonthIs
  <2>8. QED
    BY <1>1, <1>6, <2>1, <2>7 DEF u
<1>9. QED
  BY <1>7, <1>8

Reminded == at \in Nat /\ value \in Nat

\* A reminder is always at an instant of the calendar.
LEMMA RemindedStep ==
    ASSUME Reminded, [Next]_vars
    PROVE  Reminded'
<1>1. CASE Recur
  <2>1. MonthOf(at) + value < Months
    BY <1>1 DEF Recur
  <2>2. calculateNextOccurrence(at, value, unit) \in Nat
    <3>1. AddMonths(at, value) \in Nat
      BY <2>1, AddMonthsKeeps DEF Reminded
    <3>2. QED
      BY <3>1 DEF calculateNextOccurrence, Reminded, Day, Hour
  <2>3. QED
    BY <1>1, <2>2 DEF Recur, Reminded
<1>2. CASE Delay \/ Extend \/ Change \/ UNCHANGED vars
  BY <1>2 DEF Delay, Extend, Change, calculations, vars, Reminded
<1>3. QED
  BY <1>1, <1>2 DEF Next

\* However many months apart its occurrences are, on whatever day it was set and in
\* leap years and others, a monthly reminder stays on its day of the month, or is moved
\* once, from past the 28th to one of the first three days.
THEOREM MonthlyStaysOnItsDay == Spec => MonthlyKeepsItsDay
<1>1. Init => Reminded
  <2> SUFFICES ASSUME Init PROVE Reminded
    OBVIOUS
  <2>1. CASE TaskInit \/ LedgerInit
    BY <2>1 DEF TaskInit, LedgerInit, Reminded
  <2>2. CASE ReminderInit
    <3>1. FirstOf[StartMonths] \in Nat
      BY FirstOfGrows, CalculationsAssumption
    <3>2. QED
      BY <2>2, <3>1, CalculationsAssumption DEF ReminderInit, Reminded, Day, Hour
  <2>3. QED
    BY <2>1, <2>2 DEF Init
<1>2. ASSUME Reminded, [Next]_vars, unit = "MONTHS"
      PROVE  \/ DayOfMonth(at') = DayOfMonth(at)
             \/ DayOfMonth(at) > 28 /\ DayOfMonth(at') <= 3
  <2>1. CASE Recur
    <3>1. MonthOf(at) + value < Months /\ at' = AddMonths(at, value)
      BY <1>2, <2>1 DEF Recur, calculateNextOccurrence
    <3>2. QED
      BY <1>2, <3>1, AddMonthsKeeps DEF Reminded
  <2>2. CASE ~Recur
    BY <1>2, <2>2 DEF Next, Delay, Extend, Change, vars, calculations
  <2>3. QED
    BY <2>1, <2>2
<1>3. Reminded /\ [Next]_vars =>
        [unit = "MONTHS" =>
            \/ DayOfMonth(at') = DayOfMonth(at)
            \/ DayOfMonth(at) > 28 /\ DayOfMonth(at') <= 3]_vars
  BY <1>2
<1>4. Reminded /\ [Next]_vars => Reminded'
  BY RemindedStep
<1>5. QED
  BY <1>1, <1>3, <1>4, PTL DEF Spec, MonthlyKeepsItsDay

--------------------------------------------------------------------------------
(* Reports *)

ScoreRows == [task : Tasks, user : Staff,
              kind : {"ON_TIME_COMPLETION", "LATE_COMPLETION", "REJECTION", "MISSED_DEADLINE"},
              points : Nat, live : BOOLEAN]

ReportsInv ==
    /\ rows \in Seq(ScoreRows) /\ Len(rows) <= MaxRows
    /\ roster \in [Teams -> SUBSET Staff]
    /\ visible \in SUBSET Teams

LEMMA ReportsInitInv == ReportsInit => ReportsInv
<1> SUFFICES ASSUME ReportsInit PROVE ReportsInv
  OBVIOUS
<1>1. rows = <<>> /\ MaxRows \in Nat
  BY ReportsAssumption DEF ReportsInit
<1>2. roster \in [Teams -> SUBSET Staff] /\ visible \in SUBSET Teams
  BY DEF ReportsInit
<1>3. QED
  BY <1>1, <1>2 DEF ReportsInv

\* What no longer counts stays in the ledger.
LEMMA SupersededRows ==
    ASSUME NEW ledger \in Seq(ScoreRows), NEW task, NEW u
    PROVE  /\ SupersedeScoreEvents(ledger, task, u) \in Seq(ScoreRows)
           /\ Len(SupersedeScoreEvents(ledger, task, u)) = Len(ledger)
<1> DEFINE new == SupersedeScoreEvents(ledger, task, u)
           n == Len(ledger)
<1>1. n \in Nat /\ DOMAIN ledger = 1 .. n /\ \A i \in 1 .. n : ledger[i] \in ScoreRows
  OBVIOUS
<1>2. ASSUME NEW i \in 1 .. n
      PROVE  new[i] \in ScoreRows
  <2> DEFINE row == ledger[i]
  <2>1. row \in ScoreRows
    BY <1>1
  <2>2. new[i] = row \/ new[i] = [row EXCEPT !.live = FALSE]
    BY <1>1 DEF SupersedeScoreEvents
  <2> HIDE DEF row, new
  <2>3. [row EXCEPT !.live = FALSE] \in ScoreRows
    BY <2>1 DEF ScoreRows
  <2>4. QED
    BY <2>1, <2>2, <2>3
<1>3. new = [i \in 1 .. n |-> new[i]]
  BY <1>1 DEF SupersedeScoreEvents
<1> HIDE DEF new, n
<1>4. new \in [1 .. n -> ScoreRows]
  BY <1>2, <1>3
<1>5. QED
  BY <1>1, <1>4 DEF new, n

LEMMA ReportsInductive == ReportsInv /\ [ReportsNext]_reports => ReportsInv'
<1> SUFFICES ASSUME ReportsInv, [ReportsNext]_reports PROVE ReportsInv'
  OBVIOUS
<1>0. /\ rows \in Seq(ScoreRows) /\ Len(rows) <= MaxRows /\ MaxRows \in Nat
      /\ roster \in [Teams -> SUBSET Staff] /\ visible \in SUBSET Teams
  BY ReportsAssumption DEF ReportsInv
<1>1. ASSUME NEW task \in Tasks, NEW u \in Staff, RecordDecision(task, u)
      PROVE  ReportsInv'
  <2> DEFINE old == SupersedeScoreEvents(rows, task, u)
  <2>1. PICK kind, points :
            /\ kind \in {"ON_TIME_COMPLETION", "LATE_COMPLETION", "REJECTION"} /\ points \in Nat
            /\ rows' = Append(old, Row(task, u, kind, points))
    <3> DEFINE awards == ({"ON_TIME_COMPLETION"} \X Earnings)
                            \cup {<<"LATE_COMPLETION", 3>>, <<"REJECTION", 0>>}
    <3>1. PICK award \in awards : rows' = Append(old, Row(task, u, award[1], award[2]))
      BY <1>1 DEF RecordDecision
    <3>2. /\ award[1] \in {"ON_TIME_COMPLETION", "LATE_COMPLETION", "REJECTION"}
          /\ award[2] \in Nat
      <4>1. Earnings \subseteq Nat
        BY ReportsAssumption
      <4>2. \/ award \in {"ON_TIME_COMPLETION"} \X Earnings
            \/ award = <<"LATE_COMPLETION", 3>>
            \/ award = <<"REJECTION", 0>>
        BY <3>1
      <4> HIDE DEF awards
      <4>3. CASE award \in {"ON_TIME_COMPLETION"} \X Earnings
        BY <4>1, <4>3
      <4>4. CASE award = <<"LATE_COMPLETION", 3>>
        BY <4>4
      <4>5. CASE award = <<"REJECTION", 0>>
        BY <4>5
      <4>6. QED
        BY <4>2, <4>3, <4>4, <4>5
    <3>3. QED
      BY <3>1, <3>2
  <2>2. old \in Seq(ScoreRows) /\ Len(old) = Len(rows)
    BY <1>0, SupersededRows
  <2>3. Row(task, u, kind, points) \in ScoreRows
    BY <2>1 DEF Row, ScoreRows
  <2>4. Len(rows) < MaxRows /\ roster' = roster /\ visible' = visible
    BY <1>1 DEF RecordDecision
  <2> HIDE DEF old
  <2>5. rows' \in Seq(ScoreRows) /\ Len(rows') <= MaxRows
    BY <1>0, <2>1, <2>2, <2>3, <2>4
  <2>6. QED
    BY <1>0, <2>4, <2>5 DEF ReportsInv
<1>2. ASSUME NEW task \in Tasks, NEW u \in Staff, RecordMiss(task, u)
      PROVE  ReportsInv'
  <2>1. Row(task, u, "MISSED_DEADLINE", 0) \in ScoreRows
    BY DEF Row, ScoreRows
  <2>2. /\ Len(rows) < MaxRows /\ roster' = roster /\ visible' = visible
        /\ rows' = Append(rows, Row(task, u, "MISSED_DEADLINE", 0))
    BY <1>2 DEF RecordMiss
  <2>3. rows' \in Seq(ScoreRows) /\ Len(rows') <= MaxRows
    BY <1>0, <2>1, <2>2
  <2>4. QED
    BY <1>0, <2>2, <2>3 DEF ReportsInv
<1>3. ASSUME NEW task \in Tasks, NEW u \in Staff, RecordReopen(task, u)
      PROVE  ReportsInv'
  BY <1>0, <1>3, SupersededRows DEF RecordReopen, ReportsInv
<1>4. ASSUME NEW t \in Teams, NEW u \in Staff, ChangeTeam(t, u)
      PROVE  ReportsInv'
  BY <1>0, <1>4 DEF ChangeTeam, ReportsInv
<1>5. ASSUME NEW t \in Teams, NEW on \in BOOLEAN, ToggleLeaderboardVisibility(t, on)
      PROVE  ReportsInv'
  BY <1>0, <1>5 DEF ToggleLeaderboardVisibility, ReportsInv
<1>6. CASE UNCHANGED reports
  BY <1>0, <1>6 DEF reports, ReportsInv
<1>7. QED
  BY <1>1, <1>2, <1>3, <1>4, <1>5, <1>6 DEF ReportsNext

LEMMA ReportsInvariance == Spec => []ReportsInv
<1>1. Init => ReportsInv
  BY ReportsInitInv DEF Init
<1>2. ReportsInv /\ [Next]_vars => ReportsInv'
  <2>1. [Next]_vars => [ReportsNext]_reports
    BY DEF Next, Delay, Extend, Recur, Change, vars, reports
  <2>2. QED
    BY <2>1, ReportsInductive
<1>3. QED
  BY <1>1, <1>2, PTL DEF Spec

--------------------------------------------------------------------------------
(* Ranks *)

\* Entries come with the most points first.
Descending(e, n) ==
    /\ n \in Nat /\ Len(e) = n /\ DOMAIN e = 1 .. n
    /\ \A i \in 1 .. n : e[i].total \in Int
    /\ \A i, j \in 1 .. n : i < j => e[i].total >= e[j].total

RankStep(e, g, i) ==
    CASE i = 0 -> 1
      [] i > 1 /\ e[i].total < e[i - 1].total -> i
      [] OTHER -> g[i - 1]

Ranking(e, g) == g = [i \in 0 .. Len(e) |-> RankStep(e, g, i)]

LEMMA AssignsRanking ==
    ASSUME NEW e
    PROVE  assignRanks(e) =
            [i \in DOMAIN e |-> [entry |-> e[i], rank |-> (CHOOSE g : Ranking(e, g))[i]]]
BY DEF assignRanks, Ranking, RankStep

MorePoints(e, n, k) == {j \in 1 .. n : e[j].total > e[k].total}

\* Where the points fall, all that come before have more; where not, the same have more.
LEMMA MorePointsAre ==
    ASSUME NEW e, NEW n, Descending(e, n), NEW k \in 1 .. n
    PROVE  /\ k = 1 => MorePoints(e, n, k) = {}
           /\ k > 1 /\ e[k].total < e[k - 1].total => MorePoints(e, n, k) = 1 .. k - 1
           /\ k > 1 /\ ~(e[k].total < e[k - 1].total) => MorePoints(e, n, k) = MorePoints(e, n, k - 1)
<1> DEFINE t == [i \in 1 .. n |-> e[i].total]
<1>1. n \in Nat /\ (\A i \in 1 .. n : t[i] \in Int) /\ (\A i, j \in 1 .. n : i < j => t[i] >= t[j])
  BY DEF Descending
<1>2. \A i \in 1 .. n : e[i].total = t[i] /\ MorePoints(e, n, i) = {j \in 1 .. n : t[j] > t[i]}
  BY DEF MorePoints
<1> HIDE DEF t
<1>3. k = 1 => {j \in 1 .. n : t[j] > t[k]} = {}
  BY <1>1
<1>4. ASSUME k > 1, t[k] < t[k - 1] PROVE {j \in 1 .. n : t[j] > t[k]} = 1 .. k - 1
  <2>1. ASSUME NEW j \in 1 .. n PROVE t[j] > t[k] <=> j <= k - 1
    <3>1. k - 1 \in 1 .. n
      BY <1>1, <1>4
    <3>2. CASE j <= k - 1
      <4>1. t[j] >= t[k - 1] /\ t[j] \in Int /\ t[k] \in Int /\ t[k - 1] \in Int
        BY <1>1, <3>1, <3>2
      <4>2. QED
        BY <1>4, <3>2, <4>1
    <3>3. CASE j > k - 1
      <4>1. t[k] >= t[j] /\ t[j] \in Int /\ t[k] \in Int
        BY <1>1, <3>3
      <4>2. QED
        BY <1>1, <3>3, <4>1
    <3>4. QED
      BY <1>1, <3>2, <3>3
  <2>2. QED
    BY <1>1, <2>1
<1>5. ASSUME k > 1, ~(t[k] < t[k - 1])
      PROVE  {j \in 1 .. n : t[j] > t[k]} = {j \in 1 .. n : t[j] > t[k - 1]}
  <2>1. k - 1 \in 1 .. n
    BY <1>1, <1>5
  <2>2. t[k] = t[k - 1]
    BY <1>1, <1>5, <2>1
  <2>3. QED
    BY <2>2
<1>6. k > 1 => k - 1 \in 1 .. n
  BY <1>1
<1>7. QED
  BY <1>2, <1>3, <1>4, <1>5, <1>6

Fair(e, n, i) == IF i = 0 THEN 1 ELSE 1 + Cardinality(MorePoints(e, n, i))

LEMMA FairIsRanking ==
    ASSUME NEW e, NEW n, Descending(e, n)
    PROVE  Ranking(e, [i \in 0 .. n |-> Fair(e, n, i)])
<1> DEFINE f == [i \in 0 .. n |-> Fair(e, n, i)]
<1>0. n \in Nat /\ Len(e) = n
  BY DEF Descending
<1>1. ASSUME NEW i \in 0 .. n PROVE f[i] = RankStep(e, f, i)
  <2>1. CASE i = 0
    BY <2>1 DEF RankStep, Fair
  <2>2. CASE i # 0
    <3>1. i \in 1 .. n /\ i - 1 \in 0 .. n /\ i \in Nat
      BY <1>0, <2>2
    <3>2. f[i] = 1 + Cardinality(MorePoints(e, n, i)) /\ f[i - 1] = Fair(e, n, i - 1)
      BY <2>2, <3>1 DEF Fair
    <3> HIDE DEF f
    <3>3. CASE i = 1
      <4>1. i - 1 = 0 /\ MorePoints(e, n, i) = {}
        BY <3>1, <3>3, MorePointsAre
      <4>2. f[i] = 1 /\ f[i - 1] = 1
        BY <3>2, <4>1, FS_EmptySet DEF Fair
      <4>3. QED
        BY <2>2, <3>3, <4>2 DEF RankStep
    <3>4. CASE i > 1 /\ e[i].total < e[i - 1].total
      <4> DEFINE below == 1 .. i - 1
      <4>1. MorePoints(e, n, i) = below
        BY <3>1, <3>4, MorePointsAre
      <4>2. Cardinality(below) = i - 1
        BY <3>1, <3>4, FS_Interval
      <4> HIDE DEF below
      <4>3. f[i] = i
        BY <3>1, <3>2, <4>1, <4>2
      <4>4. QED
        BY <2>2, <3>4, <4>3 DEF RankStep
    <3>5. CASE i > 1 /\ ~(e[i].total < e[i - 1].total)
      <4>1. MorePoints(e, n, i) = MorePoints(e, n, i - 1) /\ i - 1 # 0
        BY <3>1, <3>5, MorePointsAre
      <4>2. f[i] = f[i - 1]
        BY <3>2, <4>1 DEF Fair
      <4>3. QED
        BY <2>2, <3>5, <4>2 DEF RankStep
    <3>6. QED
      BY <3>1, <3>3, <3>4, <3>5
  <2>3. QED
    BY <2>1, <2>2
<1>2. f = [i \in 0 .. n |-> RankStep(e, f, i)]
  BY <1>1
<1>3. QED
  BY <1>0, <1>2 DEF Ranking

\* There is one ranking.
LEMMA RankingOnce ==
    ASSUME NEW e, NEW n \in Nat, Len(e) = n, NEW g, NEW h, Ranking(e, g), Ranking(e, h)
    PROVE  \A i \in 0 .. n : g[i] = h[i]
<1> DEFINE K == {i \in 0 .. n : g[i] # h[i]}
<1>1. /\ \A i \in 0 .. n : g[i] = RankStep(e, g, i)
      /\ \A i \in 0 .. n : h[i] = RankStep(e, h, i)
  BY DEF Ranking
<1>2. CASE K = {}
  BY <1>2
<1>3. CASE K # {}
  <2>1. K \in SUBSET (0 .. n)
    OBVIOUS
  <2> HIDE DEF K
  <2>2. PICK i \in K : \A j \in K : i <= j
    BY <1>3, <2>1, Extremes
  <2>3. i \in 0 .. n
    BY <2>1, <2>2
  <2>4. CASE i = 0
    BY <1>1, <2>2, <2>3, <2>4 DEF K, RankStep
  <2>5. CASE i # 0
    <3>1. i - 1 \in 0 .. n /\ i - 1 < i
      BY <2>3, <2>5
    <3>2. i - 1 \notin K
      BY <2>2, <2>3, <3>1
    <3>3. g[i - 1] = h[i - 1]
      BY <3>1, <3>2 DEF K
    <3>4. g[i] = h[i]
      BY <1>1, <2>3, <3>3 DEF RankStep
    <3>5. QED
      BY <2>2, <3>4 DEF K
  <2>6. QED
    BY <2>4, <2>5
<1>4. QED
  BY <1>2, <1>3

\* Each entry has its fair rank.
LEMMA RanksAre ==
    ASSUME NEW e, NEW n, Descending(e, n), NEW board, board = assignRanks(e)
    PROVE  /\ DOMAIN board = 1 .. n /\ Len(board) = n
           /\ \A k \in 1 .. n :
                /\ board[k].entry = e[k]
                /\ board[k].rank = 1 + Cardinality(MorePoints(e, n, k))
<1> DEFINE f == [i \in 0 .. n |-> Fair(e, n, i)]
           g == CHOOSE h : Ranking(e, h)
<1>1. Ranking(e, f)
  BY FairIsRanking
<1>2. n \in Nat /\ Len(e) = n /\ DOMAIN e = 1 .. n
  BY DEF Descending
<1> HIDE DEF f
<1>3. Ranking(e, g)
  BY <1>1
<1>4. board = [i \in 1 .. n |-> [entry |-> e[i], rank |-> g[i]]]
  BY <1>2, AssignsRanking
<1> HIDE DEF g
<1>5. ASSUME NEW k \in 1 .. n PROVE g[k] = 1 + Cardinality(MorePoints(e, n, k))
  <2>1. k \in 0 .. n /\ k # 0
    BY <1>2
  <2>2. g[k] = f[k]
    BY <1>1, <1>2, <1>3, <2>1, RankingOnce
  <2>3. QED
    BY <2>1, <2>2 DEF f, Fair
<1>6. QED
  BY <1>2, <1>4, <1>5

--------------------------------------------------------------------------------
(* Boards *)

PointsOf == [i \in DOMAIN rows |-> rows[i].points]

\* The rows that count are some of the ledger's, with points of their own.
LEMMA RowsAre ==
    ASSUME ReportsInv, NEW S \in SUBSET DOMAIN rows
    PROVE  /\ IsFiniteSet(S) /\ S \subseteq Nat /\ Cardinality(S) \in Nat
           /\ Cardinality(S) <= MaxRows /\ MaxRows \in Nat
           /\ \A i \in S : PointsOf[i] \in Nat
           /\ Points(S) = SumOf(PointsOf, S) /\ Points(S) \in Nat
<1> DEFINE n == Len(rows)
           D == 1 .. n
<1>1. n \in Nat /\ DOMAIN rows = D /\ n <= MaxRows /\ rows \in Seq(ScoreRows)
  BY DEF ReportsInv
<1>2. \A i \in D : PointsOf[i] \in Nat
  <2>1. \A i \in DOMAIN rows : rows[i] \in ScoreRows
    BY <1>1
  <2>2. \A i \in DOMAIN rows : rows[i].points \in Nat
    BY <2>1 DEF ScoreRows
  <2>3. QED
    BY <1>1, <2>2 DEF PointsOf
<1>3. S \subseteq Nat
  BY <1>1
<1> HIDE DEF n
<1>4. IsFiniteSet(D) /\ Cardinality(D) = n
  BY <1>1, FS_Interval
<1> HIDE DEF D
<1>5. IsFiniteSet(S) /\ Cardinality(S) <= n /\ Cardinality(S) \in Nat
  BY <1>1, <1>4, FS_Subset, FS_CardinalityType
<1>6. Points(S) = SumOf(PointsOf, S)
  BY DEF Points, PointsOf
<1>7. \A i \in S : PointsOf[i] \in Nat
  BY <1>1, <1>2
<1>8. SumOf(PointsOf, S) \in Nat
  BY <1>5, <1>7, SumNat
<1>9. Cardinality(S) <= MaxRows /\ MaxRows \in Nat
  <2>1. MaxRows \in Nat
    BY ReportsAssumption
  <2> DEFINE c == Cardinality(S)
  <2>2. c <= n /\ c \in Nat
    BY <1>5
  <2> HIDE DEF c
  <2>3. c <= MaxRows
    BY <1>1, <2>1, <2>2
  <2>4. QED
    BY <2>1, <2>3 DEF c
<1>10. QED
  BY <1>3, <1>5, <1>6, <1>7, <1>8, <1>9

LEMMA LiveAre ==
    ASSUME NEW u, NEW teams
    PROVE  Live(u, teams) \in SUBSET DOMAIN rows
BY DEF Live

LEMMA AboveOrders ==
    ASSUME NEW people \in SUBSET Staff, NEW totals, DOMAIN totals = people,
           \A u \in people : totals[u] \in Nat
    PROVE  Orders(Above(totals), people)
<1>1. IsFiniteSet(people)
  <2>1. IsFiniteSet(Staff)
    BY ReportsAssumption
  <2>2. QED
    BY <2>1, FS_Subset
<1>2. /\ \A u \in people : FirstName[u] \in Nat
      /\ \A u, v \in people : FirstName[u] = FirstName[v] => u = v
  BY ReportsAssumption
<1> DEFINE above == Above(totals)
<1>3. ASSUME NEW u \in people, NEW v \in people
      PROVE  v \in above[u] <=> \/ totals[v] > totals[u]
                                \/ totals[v] = totals[u] /\ FirstName[v] < FirstName[u]
  <2>1. u \in DOMAIN totals /\ v \in DOMAIN totals
    OBVIOUS
  <2>2. QED
    BY <2>1 DEF Above
<1> HIDE DEF above
<1>0. \A u \in people : totals[u] \in Nat
  OBVIOUS
<1>4. \A u \in people : u \notin above[u]
  BY <1>0, <1>2, <1>3
<1>5. ASSUME NEW u \in people, NEW v \in people, u # v
      PROVE  u \in above[v] \/ v \in above[u]
  <2>1. /\ totals[u] \in Nat /\ totals[v] \in Nat
        /\ FirstName[u] \in Nat /\ FirstName[v] \in Nat /\ FirstName[u] # FirstName[v]
    BY <1>0, <1>2, <1>5
  <2>2. \/ totals[u] > totals[v] \/ totals[v] > totals[u]
        \/ totals[u] = totals[v] /\ (FirstName[u] < FirstName[v] \/ FirstName[v] < FirstName[u])
    BY <2>1
  <2>3. /\ v \in above[u] <=> \/ totals[v] > totals[u]
                              \/ totals[v] = totals[u] /\ FirstName[v] < FirstName[u]
        /\ u \in above[v] <=> \/ totals[u] > totals[v]
                              \/ totals[u] = totals[v] /\ FirstName[u] < FirstName[v]
    BY <1>3
  <2>4. QED
    BY <2>2, <2>3
<1>6. \A u, v, w \in people : u \in above[v] /\ v \in above[w] => u \in above[w]
  BY <1>0, <1>2, <1>3
<1>7. QED
  BY <1>1, <1>4, <1>5, <1>6 DEF above, Orders

LEMMA EntryIs ==
    ASSUME NEW u, NEW S
    PROVE  /\ Entry(u, S).user = u /\ Entry(u, S).total = Points(S)
           /\ Entry(u, S).onTime = Count(S, {"ON_TIME_COMPLETION"})
           /\ Entry(u, S).completed = Count(S, {"ON_TIME_COMPLETION", "LATE_COMPLETION"})
BY DEF Entry

\* Whom a board has, each once and with their own points, the most first.
LEMMA BoardIs ==
    ASSUME ReportsInv, NEW people \in SUBSET Staff, NEW teams,
           NEW board, board = Board(people, teams),
           NEW n, n = Cardinality(people)
    PROVE  /\ Descending(board, n) /\ IsFiniteSet(people)
           /\ \A k \in 1 .. n : \E u \in people : board[k] = Entry(u, Live(u, teams))
           /\ \A u \in people : \E k \in 1 .. n : board[k] = Entry(u, Live(u, teams))
<1> DEFINE totals == Totals(people, teams)
           above == Above(totals)
           o == OrderBy(people, above)
<1>1. DOMAIN totals = people /\ \A u \in people : totals[u] = Points(Live(u, teams)) /\ totals[u] \in Nat
  BY LiveAre, RowsAre DEF Totals
<1> HIDE DEF totals
<1>2. Orders(above, people)
  BY <1>1, AboveOrders
<1>3. \A u, v \in people : v \in above[u] => totals[v] >= totals[u]
  BY <1>1 DEF Above
<1>4. board = [k \in DOMAIN o |-> Entry(o[k], Live(o[k], teams))]
  BY DEF Board, totals
<1> HIDE DEF above
<1>5. /\ o \in Seq(people) /\ Len(o) = n /\ n \in Nat
      /\ \A k \in 1 .. n : o[k] \in people /\ Place(people, above, o[k]) = k - 1
      /\ \A u \in people : Place(people, above, u) + 1 \in 1 .. n /\ o[Place(people, above, u) + 1] = u
  BY <1>2, OrderByIs
<1> HIDE DEF o
<1>6. DOMAIN o = 1 .. n
  BY <1>5
<1>7. \A k \in 1 .. n : board[k] = Entry(o[k], Live(o[k], teams)) /\ o[k] \in people
  BY <1>4, <1>5, <1>6
<1>8. \A k \in 1 .. n : board[k].total = totals[o[k]] /\ board[k].total \in Int
  BY <1>1, <1>7, EntryIs
<1>9. Len(board) = n /\ DOMAIN board = 1 .. n
  BY <1>4, <1>5, <1>6
<1>10. ASSUME NEW i \in 1 .. n, NEW j \in 1 .. n, i < j PROVE board[i].total >= board[j].total
  <2> DEFINE u == o[i]
             v == o[j]
  <2>1. /\ u \in people /\ v \in people
        /\ Place(people, above, u) = i - 1 /\ Place(people, above, v) = j - 1
    BY <1>5
  <2> HIDE DEF u, v
  <2>2. Place(people, above, u) < Place(people, above, v)
    BY <1>5, <1>10, <2>1
  <2>3. v \notin people \cap above[u]
    <3>1. ASSUME v \in people \cap above[u] PROVE FALSE
      <4>1. Place(people, above, v) < Place(people, above, u)
        BY <1>2, <2>1, <3>1, PlaceIs
      <4>2. QED
        BY <1>5, <1>10, <2>1, <4>1
    <3>2. QED
      BY <3>1
  <2>4. u \in above[v] \/ u = v
    BY <1>2, <2>1, <2>3 DEF Orders
  <2>5. totals[u] >= totals[v]
    BY <1>1, <1>3, <2>1, <2>4
  <2>6. QED
    BY <1>8, <2>5 DEF u, v
<1>11. Descending(board, n)
  BY <1>5, <1>8, <1>9, <1>10 DEF Descending
<1>12. ASSUME NEW u \in people PROVE \E k \in 1 .. n : board[k] = Entry(u, Live(u, teams))
  <2> DEFINE k == Place(people, above, u) + 1
  <2>1. k \in 1 .. n /\ o[k] = u
    BY <1>5
  <2> HIDE DEF k
  <2>2. QED
    BY <1>7, <2>1
<1>13. QED
  BY <1>2, <1>7, <1>11, <1>12 DEF Orders

Members(teams) == UNION {roster[t] : t \in teams}

\* One team or several: it is the same board.
LEMMA LeaderboardIs ==
    ASSUME ReportsInv, NEW teams \in SUBSET Teams
    PROVE  /\ GetLeaderboard(teams) = assignRanks(Board(Members(teams), teams))
           /\ Members(teams) \in SUBSET Staff
<1>1. Members(teams) \in SUBSET Staff
  BY DEF Members, ReportsInv
<1>2. CASE Cardinality(teams) = 1
  <2>1. IsFiniteSet(teams)
    <3>1. IsFiniteSet(Teams)
      BY ReportsAssumption
    <3>2. QED
      BY <3>1, FS_Subset
  <2>2. PICK t : teams = {t}
    BY <1>2, <2>1, FS_Singleton
  <2>3. (CHOOSE x \in teams : TRUE) = t /\ Members(teams) = roster[t]
    BY <2>2 DEF Members
  <2>4. GetTeamLeaderboard(t) = Board(Members(teams), teams)
    BY <2>2, <2>3 DEF GetTeamLeaderboard
  <2>5. QED
    BY <1>1, <1>2, <2>3, <2>4 DEF GetLeaderboard
<1>3. CASE Cardinality(teams) # 1
  BY <1>1, <1>3 DEF GetLeaderboard, GetAggregatedLeaderboard, Members
<1>4. QED
  BY <1>2, <1>3

\* Nobody else is on a board.
OnlyOf(board, people, teams) ==
    \A k \in DOMAIN board : \E u \in people : board[k].entry = Entry(u, Live(u, teams))

\* What GetLeaderboard gives: everybody in the teams, ranked.
LEMMA LeaderboardRanks ==
    ASSUME ReportsInv, NEW teams \in SUBSET Teams,
           NEW board, board = GetLeaderboard(teams),
           NEW n, n = Cardinality(Members(teams))
    PROVE  /\ n \in Nat /\ DOMAIN board = 1 .. n /\ Len(board) = n
           /\ RankedFairly(board)
           /\ OnlyOf(board, Members(teams), teams)
           /\ \A u \in Members(teams) : \E k \in 1 .. n : board[k].entry = Entry(u, Live(u, teams))
<1> DEFINE e == Board(Members(teams), teams)
<1>1. /\ Descending(e, n)
      /\ \A k \in 1 .. n : \E u \in Members(teams) : e[k] = Entry(u, Live(u, teams))
      /\ \A u \in Members(teams) : \E k \in 1 .. n : e[k] = Entry(u, Live(u, teams))
  BY LeaderboardIs, BoardIs
<1>2. board = assignRanks(e)
  BY LeaderboardIs
<1> HIDE DEF e
<1>3. /\ DOMAIN board = 1 .. n /\ Len(board) = n
      /\ \A k \in 1 .. n : /\ board[k].entry = e[k]
                           /\ board[k].rank = 1 + Cardinality(MorePoints(e, n, k))
  BY <1>1, <1>2, RanksAre
<1>4. ASSUME NEW k \in 1 .. n
      PROVE  MorePoints(e, n, k) = {j \in DOMAIN board : board[j].entry.total > board[k].entry.total}
  BY <1>3 DEF MorePoints
<1>5. RankedFairly(board)
  <2>1. ASSUME NEW k \in DOMAIN board
        PROVE  board[k].rank = 1 + Cardinality({j \in DOMAIN board :
                                        board[j].entry.total > board[k].entry.total})
    BY <1>3, <1>4
  <2>2. QED
    BY <2>1 DEF RankedFairly
<1>6. OnlyOf(board, Members(teams), teams)
  BY <1>1, <1>3 DEF OnlyOf
<1>7. \A u \in Members(teams) : \E k \in 1 .. n : board[k].entry = Entry(u, Live(u, teams))
  BY <1>1, <1>3
<1>8. QED
  BY <1>1, <1>3, <1>5, <1>6, <1>7 DEF Descending

LEMMA NothingToRank ==
    ASSUME NEW board, board = <<>>
    PROVE  RankedFairly(board)
<1>1. DOMAIN board = {}
  OBVIOUS
<1>2. QED
  BY <1>1 DEF RankedFairly

LEMMA FilteredIs ==
    ASSUME NEW filter \in Teams \cup {""}
    PROVE  /\ Filtered(filter) \in SUBSET Teams
           /\ Filtered("") = Teams
           /\ filter \in Teams => Filtered(filter) = {filter}
BY ReportsAssumption DEF Filtered

\* A rank is one more than the number of those who have more points, on every board
\* that anybody may see, for any people, teams and ledger; an employee sees on it what
\* an administrator of their visible teams sees, themselves included, and nothing of a
\* hidden team (assignRanks, GetEmployeeLeaderboard and GetAdminLeaderboard).
THEOREM RanksCountTheBetter == Spec => []RanksAreFair
<1>1. ASSUME ReportsInv PROVE RanksAreFair
  <2> SUFFICES ASSUME NEW u \in Staff, NEW filter \in Teams \cup {""}
               PROVE  ShownTo(u, OpenTo(u, filter), GetEmployeeLeaderboard(u, filter))
    BY DEF RanksAreFair
  <2> DEFINE open == OpenTo(u, filter)
             board == GetEmployeeLeaderboard(u, filter)
  <2>1. open \in SUBSET Teams /\ Filtered("") = Teams
    BY <1>1, FilteredIs DEF OpenTo, ReportsInv
  <2>2. board = IF open = {} THEN <<>> ELSE GetLeaderboard(open)
    <3> DEFINE mine == {t \in Filtered(filter) : u \in roster[t]}
               shown == {t \in mine : GetLeaderboardVisibilityBulk(mine)[t]}
    <3>1. shown = open
      BY DEF GetLeaderboardVisibilityBulk, OpenTo
    <3>2. QED
      BY <3>1 DEF GetEmployeeLeaderboard
  <2>3. GetAdminLeaderboard(open, "").entries = IF open = {} THEN <<>> ELSE GetLeaderboard(open)
    <3>1. open \cap Filtered("") = open
      BY <2>1
    <3>2. QED
      BY <3>1 DEF GetAdminLeaderboard
  <2>4. ASSUME open # {}
        PROVE  RankedFairly(board) /\ \E k \in DOMAIN board : board[k].entry.user = u
    <3>1. u \in Members(open)
      BY <2>4 DEF OpenTo, Members
    <3>2. board = GetLeaderboard(open)
      BY <2>2, <2>4
    <3> HIDE DEF open, board
    <3> DEFINE n == Cardinality(Members(open))
    <3>0. n = Cardinality(Members(open))
      OBVIOUS
    <3> HIDE DEF n
    <3>3. /\ RankedFairly(board) /\ DOMAIN board = 1 .. n
          /\ \A v \in Members(open) : \E k \in 1 .. n : board[k].entry = Entry(v, Live(v, open))
      BY <1>1, <2>1, <3>0, <3>2, LeaderboardRanks
    <3>4. PICK k \in 1 .. n : board[k].entry = Entry(u, Live(u, open))
      BY <3>1, <3>3
    <3>5. board[k].entry.user = u
      BY <3>4, EntryIs
    <3>6. QED
      BY <3>3, <3>5
  <2> HIDE DEF open, board
  <2>5. open = {} => RankedFairly(board)
    BY <2>2, NothingToRank
  <2>6. ShownTo(u, open, board)
    BY <2>2, <2>3, <2>4, <2>5 DEF ShownTo
  <2>7. QED
    BY <2>6 DEF open, board
<1>2. QED
  BY <1>1, ReportsInvariance, PTL

--------------------------------------------------------------------------------
(* What a board adds up to *)

\* The points of some teams are those of each of them.
LEMMA PointsByTeam ==
    ASSUME ReportsInv, NEW u, NEW teams \in SUBSET Teams
    PROVE  SumOf([t \in teams |-> GetUserScoreBreakdown(u, t).total], teams) = Points(Live(u, teams))
<1> DEFINE P == [t \in teams |-> Live(u, {t})]
           g == [t \in teams |-> GetUserScoreBreakdown(u, t).total]
<1>1. ASSUME NEW t \in teams
      PROVE  /\ P[t] \in SUBSET DOMAIN rows /\ IsFiniteSet(P[t])
             /\ \A i \in P[t] : PointsOf[i] \in Int
             /\ g[t] = SumOf(PointsOf, P[t])
  <2>1. P[t] = Live(u, {t}) /\ P[t] \in SUBSET DOMAIN rows
    BY LiveAre
  <2>2. Filtered(t) = {t}
    BY FilteredIs
  <2>3. g[t] = Points(P[t])
    BY <2>1, <2>2 DEF GetUserScoreBreakdown, Breakdown
  <2> HIDE DEF P, g
  <2>4. IsFiniteSet(P[t]) /\ (\A i \in P[t] : PointsOf[i] \in Nat) /\ Points(P[t]) = SumOf(PointsOf, P[t])
    BY <2>1, RowsAre
  <2>5. QED
    BY <2>1, <2>3, <2>4
<1>2. \A s, t \in teams : s # t => P[s] \cap P[t] = {}
  BY DEF Live
<1>3. Joint(P, teams) = Live(u, teams)
  BY DEF Joint, Live
<1>4. IsFiniteSet(teams)
  <2>1. IsFiniteSet(Teams)
    BY ReportsAssumption
  <2>2. QED
    BY <2>1, FS_Subset
<1>5. Points(Live(u, teams)) = SumOf(PointsOf, Live(u, teams))
  BY LiveAre, RowsAre
<1> HIDE DEF P, g
<1>6. Parted(PointsOf, P, teams)
  BY <1>1, <1>2, <1>4 DEF Parted
<1>7. SumOf(g, teams) = SumOf(PointsOf, Joint(P, teams))
  BY <1>1, <1>6, SumByParts
<1>8. QED
  BY <1>3, <1>5, <1>7 DEF g

\* What is on time and what is late is what is completed.
LEMMA CompletedAre ==
    ASSUME ReportsInv, NEW S \in SUBSET DOMAIN rows
    PROVE  Count(S, {"ON_TIME_COMPLETION"}) + Count(S, {"LATE_COMPLETION"})
            = Count(S, {"ON_TIME_COMPLETION", "LATE_COMPLETION"})
<1> DEFINE A == {i \in S : rows[i].kind \in {"ON_TIME_COMPLETION"}}
           B == {i \in S : rows[i].kind \in {"LATE_COMPLETION"}}
           C == {i \in S : rows[i].kind \in {"ON_TIME_COMPLETION", "LATE_COMPLETION"}}
<1>1. A \cup B = C /\ A \cap B = {} /\ A \in SUBSET S /\ B \in SUBSET S
  OBVIOUS
<1>2. IsFiniteSet(S)
  BY RowsAre
<1>3. /\ Count(S, {"ON_TIME_COMPLETION"}) = Cardinality(A)
      /\ Count(S, {"LATE_COMPLETION"}) = Cardinality(B)
      /\ Count(S, {"ON_TIME_COMPLETION", "LATE_COMPLETION"}) = Cardinality(C)
  BY DEF Count
<1> HIDE DEF A, B, C
<1>4. IsFiniteSet(A) /\ IsFiniteSet(B)
  BY <1>1, <1>2, FS_Subset
<1>5. /\ Cardinality(A) \in Nat /\ Cardinality(B) \in Nat
      /\ Cardinality(A \cup B) = Cardinality(A) + Cardinality(B) - Cardinality(A \cap B)
      /\ Cardinality(A \cap B) = 0
  BY <1>1, <1>4, FS_CardinalityType, FS_EmptySet, FS_Union
<1> DEFINE a == Cardinality(A)
           b == Cardinality(B)
           c == Cardinality(A \cap B)
           d == Cardinality(A \cup B)
<1>6. a \in Nat /\ b \in Nat /\ c = 0 /\ d = a + b - c
  BY <1>5
<1>7. d = Cardinality(C)
  BY <1>1
<1> HIDE DEF a, b, c, d
<1>8. d = a + b
  BY <1>6
<1>9. QED
  BY <1>3, <1>7, <1>8 DEF a, b

LEMMA BreakdownIs ==
    ASSUME NEW S
    PROVE  /\ Breakdown(S).total = Points(S)
           /\ Breakdown(S).onTime = Count(S, {"ON_TIME_COMPLETION"})
           /\ Breakdown(S).late = Count(S, {"LATE_COMPLETION"})
BY DEF Breakdown

\* The events of a person under a filter, the newest first.
Events(u, filter) == OrderBy(Live(u, Filtered(filter)), Latest)

LEMMA EventsAre ==
    ASSUME ReportsInv, NEW u, NEW filter
    PROVE  /\ Events(u, filter) \in Seq(Live(u, Filtered(filter)))
           /\ ToSet(Events(u, filter)) = Live(u, Filtered(filter))
           /\ Len(Events(u, filter)) <= MaxRows
           /\ GetUserScoreEvents(u, filter, MaxRows, 0) = Events(u, filter)
<1> DEFINE S == Live(u, Filtered(filter))
           o == OrderBy(S, Latest)
<1>1. S \in SUBSET Nat /\ IsFiniteSet(S) /\ Cardinality(S) <= MaxRows /\ MaxRows \in Nat
  BY LiveAre, RowsAre
<1>2. GetUserScoreEvents(u, filter, MaxRows, 0) = Cut(o, MaxRows, 0)
  BY DEF GetUserScoreEvents
<1>3. Events(u, filter) = o
  BY DEF Events
<1> HIDE DEF S
<1>4. o \in Seq(S) /\ ToSet(o) = S /\ Len(o) = Cardinality(S)
  BY <1>1, NumberOrders, ListedIs
<1> HIDE DEF o
<1>5. Cut(o, MaxRows, 0) = o
  BY <1>1, <1>4, CutWhole
<1>6. QED
  BY <1>1, <1>2, <1>3, <1>4, <1>5 DEF S

LEMMA PersonsSumsAgree ==
    ASSUME ReportsInv, NEW u \in Staff,
           NEW whole, whole = GetUserBreakdown(u, "", MaxRows, 0)
    PROVE  SumsAgree(u, whole)
<1>1. Filtered("") = Teams
  BY FilteredIs
<1> DEFINE S == Live(u, Teams)
<1>2. /\ GetUserScoreEvents(u, "", MaxRows, 0) = OrderBy(S, Latest)
      /\ ToSet(GetUserScoreEvents(u, "", MaxRows, 0)) = S
  BY <1>1, EventsAre DEF Events
<1>3. /\ whole.sums = Breakdown(S) /\ whole.events = OrderBy(S, Latest)
      /\ whole = [sums |-> Breakdown(S), events |-> OrderBy(S, Latest)]
  BY <1>1, <1>2 DEF GetUserBreakdown, GetUserScoreBreakdown
<1>4. whole = WriteUserScoreReport(u)
  BY <1>1, <1>3 DEF WriteUserScoreReport, GetUserScoreBreakdown, GetUserScoreReportData
<1>5. whole.sums.total = Points(S)
  BY <1>3, BreakdownIs
<1>6. whole.sums.total = Points(ToSet(whole.events))
  BY <1>2, <1>3, <1>5
<1>7. whole.sums.total = SumOf([t \in Teams |-> GetUserScoreBreakdown(u, t).total], Teams)
  BY <1>5, PointsByTeam
<1> HIDE DEF S
<1>8. ASSUME NEW filter \in Teams \cup {""}
      PROVE  FlattenSeq([k \in 1 .. MaxRows |-> GetUserScoreEvents(u, filter, 1, k - 1)])
                = GetUserScoreEvents(u, filter, MaxRows, 0)
  <2> DEFINE L == Live(u, Filtered(filter))
             o == Events(u, filter)
             seqs == [k \in 1 .. MaxRows |-> Cut(o, 1, k - 1)]
  <2>1. o \in Seq(L) /\ Len(o) <= MaxRows /\ GetUserScoreEvents(u, filter, MaxRows, 0) = o
    BY EventsAre
  <2>2. [k \in 1 .. MaxRows |-> GetUserScoreEvents(u, filter, 1, k - 1)] = seqs
    BY DEF GetUserScoreEvents, Events
  <2>3. MaxRows \in Nat
    BY ReportsAssumption
  <2>4. seqs = [k \in 1 .. MaxRows |-> Cut(o, 1, k - 1)]
    OBVIOUS
  <2> HIDE DEF o, L, seqs
  <2>5. FlattenSeq(seqs) = o
    BY <2>1, <2>3, <2>4, PagesJoin
  <2>6. QED
    BY <2>1, <2>2, <2>5
<1>9. QED
  BY <1>4, <1>6, <1>7, <1>8 DEF SumsAgree

\* Everybody of the teams has a row of the download.
LEMMA BulkIs ==
    ASSUME ReportsInv, NEW teams \in SUBSET Teams, NEW bulk, bulk = DownloadScoreReport(teams, "")
    PROVE  /\ \A u \in Members(teams) :
                [user |-> u, sums |-> Breakdown(Live(u, teams))] \in bulk
           /\ Cardinality(bulk) = Cardinality(Members(teams))
<1> DEFINE f == [u \in Members(teams) |-> [user |-> u, sums |-> Breakdown(Live(u, teams))]]
<1>1. teams \cap Filtered("") = teams
  BY FilteredIs
<1>2. bulk = {[user |-> u, sums |-> Breakdown(Live(u, teams))] : u \in Members(teams)}
  BY <1>1 DEF DownloadScoreReport, GetBulkUserScoreBreakdowns, Members
<1>3. bulk = {f[u] : u \in Members(teams)} /\ \A u \in Members(teams) : f[u].user = u
  BY <1>2
<1>4. f = [u \in Members(teams) |-> f[u]]
  OBVIOUS
<1> HIDE DEF f
<1>5. f \in Bijection(Members(teams), bulk)
  BY <1>3, <1>4 DEF Bijection, Injection, Surjection, IsInjective
<1>6. IsFiniteSet(Members(teams))
  <2>1. IsFiniteSet(Staff) /\ Members(teams) \in SUBSET Staff
    BY ReportsAssumption, LeaderboardIs
  <2>2. QED
    BY <2>1, FS_Subset
<1>7. ExistsBijection(Members(teams), bulk)
  BY <1>5 DEF ExistsBijection
<1>8. Cardinality(bulk) = Cardinality(Members(teams))
  BY <1>6, <1>7, FS_Bijection
<1>9. QED
  BY <1>2, <1>8

LEMMA BoardsTell ==
    ASSUME ReportsInv, NEW teams \in SUBSET Teams
    PROVE  BoardTells(GetLeaderboard(teams), DownloadScoreReport(teams, ""), teams)
<1> DEFINE n == Cardinality(Members(teams))
           board == GetLeaderboard(teams)
           bulk == DownloadScoreReport(teams, "")
<1>0. /\ n = Cardinality(Members(teams)) /\ board = GetLeaderboard(teams)
      /\ bulk = DownloadScoreReport(teams, "")
  OBVIOUS
<1> HIDE DEF n, board, bulk
<1>1. Len(board) = n /\ OnlyOf(board, Members(teams), teams)
  BY <1>0, LeaderboardRanks
<1>2. Len(board) = Cardinality(bulk)
  BY <1>0, <1>1, BulkIs
<1>3. ASSUME NEW k \in DOMAIN board
      PROVE  \E b \in bulk : Tells(board[k].entry, b, teams)
  <2>1. PICK u \in Members(teams) : board[k].entry = Entry(u, Live(u, teams))
    BY <1>1 DEF OnlyOf
  <2> DEFINE S == Live(u, teams)
             e == board[k].entry
             d == Breakdown(S)
             b == [user |-> u, sums |-> d]
  <2>2. b \in bulk
    BY <1>0, BulkIs
  <2>3. S \in SUBSET DOMAIN rows
    BY LiveAre
  <2>5. /\ d.total = Points(S)
        /\ d.onTime = Count(S, {"ON_TIME_COMPLETION"})
        /\ d.late = Count(S, {"LATE_COMPLETION"})
    BY BreakdownIs
  <2>6. Points(S) = SumOf([t \in teams |-> GetUserScoreBreakdown(u, t).total], teams)
    BY PointsByTeam
  <2>a. e = Entry(u, S)
    BY <2>1
  <2> HIDE DEF S, e, d
  <2>b. b.user = u /\ b.sums = d
    OBVIOUS
  <2> HIDE DEF b
  <2>4. /\ e.user = u /\ e.total = Points(S)
        /\ e.onTime = Count(S, {"ON_TIME_COMPLETION"})
        /\ e.completed = Count(S, {"ON_TIME_COMPLETION", "LATE_COMPLETION"})
    BY <2>a, EntryIs
  <2>7. e.completed = b.sums.onTime + b.sums.late
    BY <2>3, <2>4, <2>5, <2>b, CompletedAre
  <2>8. Tells(e, b, teams)
    BY <2>4, <2>5, <2>6, <2>7, <2>b DEF Tells
  <2>9. QED
    BY <2>2, <2>8 DEF e
<1>4. QED
  BY <1>0, <1>2, <1>3 DEF BoardTells

\* Whatever page or download a score is read from, for any ledger, people and teams:
\* a person's total is that of the events listed under it and of the teams one by one,
\* the events read a page of one at a time are the list, and a board has each member
\* of its teams once, with the sums that their download has (scores.sql).
THEOREM ScoresAddUp == Spec => []BoardsAddUp
<1>1. ASSUME ReportsInv PROVE BoardsAddUp
  <2>1. \A u \in Staff : SumsAgree(u, GetUserBreakdown(u, "", MaxRows, 0))
    BY <1>1, PersonsSumsAgree
  <2>2. \A teams \in SUBSET Teams \ {{}} :
            BoardTells(GetLeaderboard(teams), DownloadScoreReport(teams, ""), teams)
    <3>1. ASSUME NEW teams \in SUBSET Teams
          PROVE  BoardTells(GetLeaderboard(teams), DownloadScoreReport(teams, ""), teams)
      BY <1>1, BoardsTell
    <3>2. QED
      BY <3>1
  <2>3. QED
    BY <2>1, <2>2 DEF BoardsAddUp
<1>2. QED
  BY <1>1, ReportsInvariance, PTL

--------------------------------------------------------------------------------
(* Listings *)

\* The keys of rows, and the order in which a list has them.
Keys == People \cup (OrgTeams \X People) \cup Nat

Order(l) ==
    CASE l.of \in {"users", "unassigned", "assigned"}                -> Newer
      [] l.of = "employees"                                          -> ByTeam
      [] l.of \in {"adminTasks", "teamTasks", "myTasks", "updates"}  -> Latest
      [] OTHER                                                       -> Oldest

TaskRows == [team : OrgTeams, parts : SUBSET (People \X Roles)]

ListingsTypeOK ==
    /\ member \in [People -> {"none", "INVITED", "ACTIVE", "SUSPENDED"}]
    /\ teamRole \in [OrgTeams -> [People -> {"none"} \cup TeamRoleEnum]]
    /\ tasks \in Seq(TaskRows)
    /\ updates \in [updates : Nat, comments : Nat]

\* Whoever is in a team belongs to the organisation.
TeamsOfMembers == \A t \in OrgTeams, p \in People : InTeam(t, p) => p \in OrgMembers

Walks == [list : Lists, page : Nat \ {0}, got : Seq(Keys), steady : SUBSET Keys,
          come : BOOLEAN, gone : BOOLEAN, done : BOOLEAN]

Got(w) == ToSet(w.got)

\* A row that has been there all along has been read or is still to come.
SteadySeen(w, S, ahead) ==
    \A x \in w.steady :
        x \in Got(w) \/ (~w.done /\ Place(S, ahead, x) >= Offset(w.page))

\* Each row that was read is one of the list's, from before the next page.
OnceSeen(w, S, ahead) ==
    /\ \A i, j \in DOMAIN w.got : w.got[i] = w.got[j] => i = j
    /\ \A i \in DOMAIN w.got : w.got[i] \in S /\ Place(S, ahead, w.got[i]) < Offset(w.page)

Walking(w, S, ahead) ==
    /\ w \in Walks
    /\ w.steady \subseteq S
    /\ ~w.gone => SteadySeen(w, S, ahead)
    /\ ~w.gone /\ ~w.come => OnceSeen(w, S, ahead)

WalkInv == walk = NoWalk \/ Walking(walk, RowSet(walk.list), Order(walk.list))

ListingsInv == ListingsTypeOK /\ TeamsOfMembers /\ WalkInv

\* Pages follow each other.
LEMMA OffsetIs ==
    ASSUME NEW k \in Nat \ {0}
    PROVE  Offset(k) \in Nat /\ Offset(k + 1) = Offset(k) + Limit /\ Limit \in Nat \ {0}
<1>1. Limit \in Nat \ {0} /\ k - 1 \in Nat
  BY ListingsAssumption
<1>2. k * Limit = (k - 1) * Limit + Limit
  BY <1>1
<1>3. (k - 1) * Limit \in Nat
  BY <1>1
<1>4. Offset(k + 1) = k * Limit
  BY DEF Offset
<1>5. QED
  BY <1>1, <1>2, <1>3, <1>4 DEF Offset

\* v has read, after w, the rows of a page; where its rows are S they are these.
Turns(w, v, cut, last) ==
    v = [w EXCEPT !.got = w.got \o cut, !.page = w.page + 1, !.done = last]

PageOf(cut, last, S, ahead, page) ==
    /\ cut = Cut(OrderBy(S, ahead), Limit, Offset(page))
    /\ last \in BOOLEAN
    /\ last => Cardinality(S) <= Offset(page) + Limit

\* The next page of a list read where its rows are S.
LEMMA ReadWalks ==
    ASSUME NEW w, NEW S, NEW ahead, Orders(ahead, S), S \subseteq Keys,
           Walking(w, S, ahead), ~w.done,
           NEW cut, NEW last, PageOf(cut, last, S, ahead, w.page),
           NEW v, Turns(w, v, cut, last)
    PROVE  Walking(v, S, ahead)
<1> DEFINE o == OrderBy(S, ahead)
           n == Cardinality(S)
           off == Offset(w.page)
           next == Offset(v.page)
           m == Len(w.got)
           c == Len(cut)
<1>1. w \in Walks /\ w.page \in Nat \ {0} /\ w.got \in Seq(Keys)
  BY DEF Walking, Walks
<1>2. /\ v.got = w.got \o cut /\ v.page = w.page + 1 /\ v.done = last
      /\ v.list = w.list /\ v.steady = w.steady /\ v.come = w.come /\ v.gone = w.gone
  BY <1>1 DEF Walks, Turns
<1>3. off \in Nat /\ Limit \in Nat /\ next = off + Limit
  BY <1>1, <1>2, OffsetIs
<1>4. /\ o \in Seq(S) /\ Len(o) = n /\ n \in Nat
      /\ \A k \in 1 .. n : o[k] \in S /\ Place(S, ahead, o[k]) = k - 1
      /\ \A r \in S : Place(S, ahead, r) + 1 \in 1 .. n /\ o[Place(S, ahead, r) + 1] = r
  BY OrderByIs
<1>5. \A r \in S : Place(S, ahead, r) \in Int
  BY PlaceIs
<1> HIDE DEF o, n, off, next
<1>6. /\ cut \in Seq(S) /\ c \in Nat /\ c <= Limit
      /\ n <= off => c = 0
      /\ n > off /\ n <= off + Limit => off + c = n
      /\ n > off + Limit => c = Limit
      /\ \A k \in 1 .. c : off + k \in 1 .. n /\ cut[k] = o[off + k]
  <2>1. cut = Cut(o, Limit, off)
    BY DEF o, off, PageOf
  <2>2. o \in Seq(S) /\ Limit \in Nat /\ off \in Nat
    BY <1>3, <1>4
  <2>3. /\ cut \in Seq(S) /\ c \in Nat /\ c <= Limit
        /\ Len(o) <= off => c = 0
        /\ Len(o) > off /\ Len(o) <= off + Limit => off + c = Len(o)
        /\ Len(o) > off + Limit => c = Limit
        /\ \A k \in 1 .. c : off + k \in 1 .. Len(o) /\ cut[k] = o[off + k]
    BY <2>1, <2>2, CutIs
  <2>4. Len(o) = n
    BY <1>4
  <2>5. QED
    BY <2>3, <2>4 DEF c
<1> HIDE DEF m, c
<1>7. /\ m \in Nat /\ c \in Nat
      /\ w.got \o cut \in Seq(Keys)
      /\ DOMAIN w.got = 1 .. m /\ DOMAIN (w.got \o cut) = 1 .. m + c
      /\ \A i \in 1 .. m : (w.got \o cut)[i] = w.got[i]
      /\ \A k \in 1 .. c : (w.got \o cut)[m + k] = cut[k]
  <2>1. w.got \in Seq(Keys) /\ cut \in Seq(Keys)
    BY <1>1, <1>6
  <2>2. QED
    BY <2>1, Joined DEF m, c
<1>8. v \in Walks
  <2>1. /\ w.list \in Lists /\ w.steady \in SUBSET Keys
        /\ w.come \in BOOLEAN /\ w.gone \in BOOLEAN
    BY <1>1 DEF Walks
  <2>2. v = [list |-> w.list, page |-> w.page + 1, got |-> w.got \o cut, steady |-> w.steady,
             come |-> w.come, gone |-> w.gone, done |-> last]
    BY <1>1 DEF Walks, Turns
  <2>3. w.page + 1 \in Nat \ {0} /\ w.got \o cut \in Seq(Keys)
    BY <1>1, <1>7
  <2>4. QED
    BY <2>1, <2>2, <2>3 DEF Walks, PageOf
<1>9. v.steady \subseteq S
  BY <1>2 DEF Walking
<1>10. /\ DOMAIN w.got = 1 .. m
       /\ DOMAIN v.got = 1 .. m + c
       /\ \A i \in 1 .. m : v.got[i] = w.got[i]
       /\ \A k \in 1 .. c : v.got[m + k] = cut[k]
  BY <1>2, <1>7
<1>11. ASSUME ~v.gone PROVE SteadySeen(v, S, ahead)
  <2> SUFFICES ASSUME NEW x \in v.steady
               PROVE  x \in Got(v) \/ (~v.done /\ Place(S, ahead, x) >= next)
    BY DEF SteadySeen, next
  <2>1. x \in S /\ Place(S, ahead, x) \in Int
    BY <1>5, <1>9
  <2>2. CASE x \in Got(w)
    <3>1. PICK i \in DOMAIN w.got : w.got[i] = x
      BY <2>2 DEF Got, ToSet
    <3>2. i \in DOMAIN v.got /\ v.got[i] = x
      BY <1>7, <1>10, <3>1
    <3>3. QED
      BY <3>2 DEF Got, ToSet
  <2>3. CASE x \notin Got(w)
    <3> DEFINE p == Place(S, ahead, x)
               k == p + 1 - off
    <3>1. p >= off
      BY <1>2, <1>11, <2>3 DEF Walking, SteadySeen, off
    <3>2. p + 1 \in 1 .. n /\ o[p + 1] = x
      BY <1>4, <2>1
    <3> HIDE DEF p
    <3>3. p \in Int
      BY <2>1 DEF p
    <3>4. CASE p < off + Limit
      <4>1. k \in 1 .. c /\ off + k = p + 1
        BY <1>3, <1>4, <1>6, <3>1, <3>2, <3>3, <3>4
      <4> HIDE DEF k
      <4>2. cut[k] = x
        BY <1>6, <3>2, <4>1
      <4>3. k \in Int /\ m + k \in DOMAIN v.got /\ v.got[m + k] = x
        BY <1>7, <1>10, <4>1, <4>2
      <4>4. QED
        BY <4>3 DEF Got, ToSet
    <3>5. CASE p >= off + Limit
      <4>1. ~last
        <5>1. p + 1 <= n
          BY <1>4, <3>2, <3>3
        <5>2. last => n <= off + Limit
          BY DEF n, off, PageOf
        <5>3. QED
          BY <1>3, <1>4, <3>3, <3>5, <5>1, <5>2
      <4>2. QED
        BY <1>2, <1>3, <3>5, <4>1 DEF p
    <3>6. QED
      BY <1>3, <3>3, <3>4, <3>5
  <2>4. QED
    BY <2>2, <2>3
<1>12. ASSUME ~v.gone, ~v.come PROVE OnceSeen(v, S, ahead)
  <2>1. /\ \A i, j \in DOMAIN w.got : w.got[i] = w.got[j] => i = j
        /\ \A i \in DOMAIN w.got : w.got[i] \in S /\ Place(S, ahead, w.got[i]) < off
    BY <1>2, <1>12 DEF Walking, OnceSeen, off
  <2>2. ASSUME NEW k \in 1 .. c
        PROVE  cut[k] \in S /\ Place(S, ahead, cut[k]) = off + k - 1
    <3> DEFINE i == off + k
    <3>1. i \in 1 .. n /\ cut[k] = o[i]
      BY <1>6
    <3> HIDE DEF i
    <3>2. o[i] \in S /\ Place(S, ahead, o[i]) = i - 1
      BY <1>4, <3>1
    <3>3. i - 1 = off + k - 1
      BY <1>3, <1>7 DEF i
    <3>4. QED
      BY <3>1, <3>2, <3>3
  <2>3. ASSUME NEW i \in DOMAIN v.got
        PROVE  \/ i \in DOMAIN w.got /\ v.got[i] = w.got[i]
               \/ \E k \in 1 .. c : i = m + k /\ v.got[i] = cut[k]
    <3>1. CASE i <= m
      BY <1>7, <1>10, <3>1
    <3>2. CASE i > m
      <4> DEFINE k == i - m
      <4>1. k \in 1 .. c /\ i = m + k
        BY <1>7, <1>10, <3>2
      <4> HIDE DEF k
      <4>2. QED
        BY <1>10, <4>1
    <3>3. QED
      BY <1>7, <1>10, <3>1, <3>2
  <2>4. ASSUME NEW i \in DOMAIN v.got
        PROVE  v.got[i] \in S /\ Place(S, ahead, v.got[i]) < next
    <3>1. CASE i \in DOMAIN w.got /\ v.got[i] = w.got[i]
      <4>1. w.got[i] \in S /\ Place(S, ahead, w.got[i]) < off /\ Place(S, ahead, w.got[i]) \in Int
        BY <1>5, <2>1, <3>1
      <4>2. QED
        BY <1>3, <3>1, <4>1
    <3>2. ASSUME NEW k \in 1 .. c, v.got[i] = cut[k]
          PROVE  v.got[i] \in S /\ Place(S, ahead, v.got[i]) < next
      <4>1. cut[k] \in S /\ Place(S, ahead, cut[k]) = off + k - 1
        BY <2>2
      <4>2. off + k - 1 < next
        BY <1>3, <1>6
      <4>3. QED
        BY <3>2, <4>1, <4>2
    <3>3. QED
      BY <2>3, <3>1, <3>2
  <2>5. ASSUME NEW i \in DOMAIN v.got, NEW j \in DOMAIN v.got, v.got[i] = v.got[j]
        PROVE  i = j
    <3>1. ASSUME NEW k \in DOMAIN w.got, NEW h \in 1 .. c PROVE w.got[k] # cut[h]
      <4>1. Place(S, ahead, w.got[k]) < off /\ Place(S, ahead, w.got[k]) \in Int
        BY <1>5, <2>1
      <4>2. Place(S, ahead, cut[h]) = off + h - 1
        BY <2>2
      <4>3. off + h - 1 >= off
        BY <1>3, <1>6
      <4> DEFINE a == Place(S, ahead, w.got[k])
                 b == Place(S, ahead, cut[h])
      <4>4. w.got[k] = cut[h] => a = b
        OBVIOUS
      <4>5. a \in Int /\ a < off /\ b = off + h - 1
        BY <4>1, <4>2
      <4> HIDE DEF a, b
      <4>6. QED
        BY <1>3, <4>3, <4>4, <4>5
    <3>2. ASSUME NEW k \in 1 .. c, NEW h \in 1 .. c, cut[k] = cut[h] PROVE k = h
      <4>1. off + k - 1 = off + h - 1
        BY <2>2, <3>2
      <4>2. QED
        BY <1>3, <1>6, <4>1
    <3>3. CASE i \in DOMAIN w.got /\ v.got[i] = w.got[i]
      BY <2>1, <2>3, <2>5, <3>1, <3>3
    <3>4. CASE \E k \in 1 .. c : i = m + k /\ v.got[i] = cut[k]
      BY <2>3, <2>5, <3>1, <3>2, <3>4
    <3>5. QED
      BY <2>3, <3>3, <3>4
  <2>6. QED
    BY <2>4, <2>5 DEF OnceSeen, next
<1>13. QED
  BY <1>8, <1>9, <1>11, <1>12 DEF Walking

\* v is w, the rows of its list having been S and being T.
Changes(w, v, S, T) ==
    v = [w EXCEPT !.steady = w.steady \cap T,
                  !.come = w.come \/ ~(T \subseteq S),
                  !.gone = w.gone \/ ~(S \subseteq T)]

\* A change of the list that somebody pages through: its rows become T.
LEMMA WriteWalks ==
    ASSUME NEW w, NEW S, NEW T, NEW ahead, Orders(ahead, S), Orders(ahead, T), T \subseteq Keys,
           Walking(w, S, ahead),
           NEW v, Changes(w, v, S, T)
    PROVE  Walking(v, T, ahead)
<1>1. w \in Walks /\ w.steady \subseteq S /\ w.page \in Nat \ {0}
  BY DEF Walking, Walks
<1>2. /\ v.steady = w.steady \cap T /\ v.come = (w.come \/ ~(T \subseteq S))
      /\ v.gone = (w.gone \/ ~(S \subseteq T))
      /\ v.got = w.got /\ v.page = w.page /\ v.done = w.done /\ v.list = w.list
  BY <1>1 DEF Walks, Changes
<1>3. v \in Walks
  BY <1>1 DEF Walks, Changes
<1>4. v.steady \subseteq T
  BY <1>2
<1>5. Offset(w.page) \in Nat
  BY <1>1, OffsetIs
<1>6. ASSUME ~v.gone PROVE SteadySeen(v, T, ahead)
  <2>1. ~w.gone /\ S \subseteq T
    BY <1>2, <1>6
  <2>2. ASSUME NEW x \in v.steady
        PROVE  x \in Got(v) \/ (~v.done /\ Place(T, ahead, x) >= Offset(v.page))
    <3>1. x \in Got(w) \/ (~w.done /\ Place(S, ahead, x) >= Offset(w.page))
      BY <1>2, <2>1 DEF Walking, SteadySeen
    <3>2. /\ Place(S, ahead, x) \in Nat /\ Place(T, ahead, x) \in Nat
          /\ Place(S, ahead, x) <= Place(T, ahead, x)
      BY <2>1, PlaceAmongMore DEF Orders
    <3>3. Got(v) = Got(w)
      BY <1>2 DEF Got
    <3>4. QED
      BY <1>2, <1>5, <3>1, <3>2, <3>3
  <2>3. QED
    BY <2>2 DEF SteadySeen
<1>7. ASSUME ~v.gone, ~v.come PROVE OnceSeen(v, T, ahead)
  <2>1. S = T /\ ~w.gone /\ ~w.come
    BY <1>2, <1>7
  <2>2. OnceSeen(w, S, ahead)
    BY <2>1 DEF Walking
  <2>3. QED
    BY <1>2, <2>1, <2>2 DEF OnceSeen
<1>8. QED
  BY <1>3, <1>4, <1>6, <1>7 DEF Walking

\* The rows that a list may have.
Kind(l, S) ==
    CASE l.of \in {"users", "unassigned", "assigned"}  -> S \subseteq People
      [] l.of = "employees"                            -> S \subseteq OrgTeams \X People
      [] OTHER                                         -> S \subseteq Nat /\ IsFiniteSet(S)

LEMMA NewerOrders == Orders(Newer, People)
<1>1. /\ IsFiniteSet(People)
      /\ \A p \in People : CreatedAt[p] \in Nat
      /\ \A p, q \in People : CreatedAt[p] = CreatedAt[q] => p = q
  BY ListingsAssumption DEF People, Distinct
<1>2. \A p, q \in People : p \in Newer[q] <=> CreatedAt[p] > CreatedAt[q]
  BY DEF Newer
<1>3. QED
  BY <1>1, <1>2 DEF Orders

LEMMA ByTeamOrders == Orders(ByTeam, OrgTeams \X People)
<1> DEFINE R == OrgTeams \X People
<1>1. /\ IsFiniteSet(People) /\ IsFiniteSet(OrgTeams)
      /\ \A p \in People : CreatedAt[p] \in Nat
      /\ \A p, q \in People : CreatedAt[p] = CreatedAt[q] => p = q
      /\ \A t \in OrgTeams : TeamName[t] \in Nat
      /\ \A t, u \in OrgTeams : TeamName[t] = TeamName[u] => t = u
  BY ListingsAssumption DEF People, OrgTeams, Distinct
<1>2. IsFiniteSet(R)
  BY <1>1, FS_Product
<1>3. ASSUME NEW r \in R, NEW s \in R
      PROVE  r \in ByTeam[s] <=> \/ TeamName[r[1]] < TeamName[s[1]]
                                 \/ r[1] = s[1] /\ CreatedAt[r[2]] > CreatedAt[s[2]]
  BY DEF ByTeam
<1>4. ASSUME NEW r \in R, NEW s \in R
      PROVE  r = s <=> r[1] = s[1] /\ r[2] = s[2]
  OBVIOUS
<1>5. ASSUME NEW r \in R PROVE r[1] \in OrgTeams /\ r[2] \in People
  OBVIOUS
<1> HIDE DEF R
<1>6. \A r \in R : r \notin ByTeam[r]
  BY <1>1, <1>3, <1>5
<1>7. \A r, s \in R : r = s \/ r \in ByTeam[s] \/ s \in ByTeam[r]
  <2> SUFFICES ASSUME NEW r \in R, NEW s \in R PROVE r = s \/ r \in ByTeam[s] \/ s \in ByTeam[r]
    OBVIOUS
  <2>1. CASE r[1] = s[1]
    BY <1>1, <1>3, <1>4, <1>5, <2>1
  <2>2. CASE r[1] # s[1]
    BY <1>1, <1>3, <1>5, <2>2
  <2>3. QED
    BY <2>1, <2>2
<1>8. \A r, s, t \in R : r \in ByTeam[s] /\ s \in ByTeam[t] => r \in ByTeam[t]
  BY <1>1, <1>3, <1>5
<1>9. QED
  BY <1>2, <1>6, <1>7, <1>8 DEF Orders, R

\* Every list has its rows in an order.
LEMMA KindOrders ==
    ASSUME NEW l, NEW S, Kind(l, S)
    PROVE  Orders(Order(l), S) /\ S \subseteq Keys
<1>1. CASE l.of \in {"users", "unassigned", "assigned"}
  <2>1. S \in SUBSET People /\ Order(l) = Newer
    BY <1>1 DEF Kind, Order
  <2>2. QED
    BY <2>1, NewerOrders, OrdersFewer DEF Keys
<1>2. CASE l.of = "employees"
  <2>1. S \in SUBSET (OrgTeams \X People) /\ Order(l) = ByTeam
    BY <1>2 DEF Kind, Order
  <2>2. QED
    BY <2>1, ByTeamOrders, OrdersFewer DEF Keys
<1>3. CASE l.of \notin {"users", "unassigned", "assigned", "employees"}
  <2>1. S \in SUBSET Nat /\ IsFiniteSet(S) /\ Order(l) \in {Latest, Oldest}
    BY <1>3 DEF Kind, Order
  <2>2. QED
    BY <2>1, NumberOrders DEF Keys
<1>4. QED
  BY <1>1, <1>2, <1>3

\* The indices of a sequence.
LEMMA IndicesAre ==
    ASSUME NEW K, NEW s \in Seq(K)
    PROVE  DOMAIN s \in SUBSET Nat /\ IsFiniteSet(DOMAIN s)
<1> DEFINE all == 0 .. Len(s)
<1>1. Len(s) \in Nat /\ DOMAIN s \in SUBSET all /\ DOMAIN s \in SUBSET Nat
  OBVIOUS
<1>2. IsFiniteSet(all)
  BY <1>1, UpTo
<1> HIDE DEF all
<1>3. QED
  BY <1>1, <1>2, FS_Subset

LEMMA RowsKind ==
    ASSUME ListingsTypeOK, NEW l
    PROVE  Kind(l, RowSet(l))
<1>1. /\ HavingStatus(l.status) \subseteq People /\ Assigned \subseteq People
      /\ Unassigned \subseteq People
      /\ TeamEmployees(l.by) \subseteq OrgTeams \X People
  BY DEF HavingStatus, Assigned, Unassigned, OrgMembers, TeamEmployees
<1>2. tasks \in Seq(TaskRows) /\ updates.updates \in Nat /\ updates.comments \in Nat
  BY DEF ListingsTypeOK
<1> DEFINE all == DOMAIN tasks
<1>3. all \in SUBSET Nat /\ IsFiniteSet(all)
  BY <1>2, IndicesAre
<1>4. /\ Managed(l.by) \in SUBSET all /\ OfTeam(l.team) \in SUBSET all
      /\ TakenBy(l.team, l.by) \in SUBSET all
  BY DEF Managed, OfTeam, TakenBy
<1>5. ASSUME NEW S \in SUBSET all PROVE S \subseteq Nat /\ IsFiniteSet(S)
  <2> HIDE DEF all
  <2>1. QED
    BY <1>3, FS_Subset
<1>6. ASSUME NEW n \in Nat PROVE 1 .. n \subseteq Nat /\ IsFiniteSet(1 .. n)
  BY FS_Interval
<1> HIDE DEF all
<1>7. QED
  BY <1>1, <1>2, <1>4, <1>5, <1>6 DEF Kind, RowSet

LEMMA RowsKindNext ==
    ASSUME ListingsTypeOK', NEW l
    PROVE  Kind(l, RowSet(l)')
<1>1. /\ HavingStatus(l.status)' \subseteq People /\ Assigned' \subseteq People
      /\ Unassigned' \subseteq People
      /\ TeamEmployees(l.by)' \subseteq OrgTeams \X People
  BY DEF HavingStatus, Assigned, Unassigned, OrgMembers, TeamEmployees
<1>2. tasks' \in Seq(TaskRows) /\ updates'.updates \in Nat /\ updates'.comments \in Nat
  BY DEF ListingsTypeOK
<1> DEFINE all == DOMAIN tasks'
<1>3. all \in SUBSET Nat /\ IsFiniteSet(all)
  BY <1>2, IndicesAre
<1>4. /\ Managed(l.by)' \in SUBSET all /\ OfTeam(l.team)' \in SUBSET all
      /\ TakenBy(l.team, l.by)' \in SUBSET all
  BY DEF Managed, OfTeam, TakenBy
<1>5. ASSUME NEW S \in SUBSET all PROVE S \subseteq Nat /\ IsFiniteSet(S)
  <2> HIDE DEF all
  <2>1. QED
    BY <1>3, FS_Subset
<1>6. ASSUME NEW n \in Nat PROVE 1 .. n \subseteq Nat /\ IsFiniteSet(1 .. n)
  BY FS_Interval
<1> HIDE DEF all
<1>7. QED
  BY <1>1, <1>2, <1>4, <1>5, <1>6 DEF Kind, RowSet

\* A page is the rows of its list in their order, from its offset; the last has no more.
LEMMA PageIs ==
    ASSUME ListingsTypeOK, NEW l, NEW k \in Nat \ {0},
           NEW page, page = Page(l, Limit, Offset(k))
    PROVE  PageOf(page.rows, page.last, RowSet(l), Order(l), k)
<1> DEFINE S == RowSet(l)
           o == OrderBy(S, Order(l))
           off == Offset(k)
<1>1. Orders(Order(l), S)
  BY RowsKind, KindOrders
<1>2. page = Paged(o, Limit, off) \/ page = Unpaged(o, Limit, off)
  BY DEF Page, RowSet, Order, OrgUsersPage, UnassignedUsersPage, AssignedUsersPage,
         TeamEmployeesPage, AdminTasksPage, TeamTasksPage, EmployeeTasksPage,
         TaskUpdatesPage, UpdateCommentsPage, GetUsersByOrgPaginated, GetUnassignedOrgUsers,
         GetAssignedOrgUsers, GetTeamEmployeesPaginated, GetAdminAllTasks, GetTeamTasks,
         GetEmployeeTasks, GetTaskUpdates, GetUpdateComments
<1> HIDE DEF S, o, off
<1>3. o \in Seq(S) /\ Len(o) = Cardinality(S) /\ Cardinality(S) \in Nat
  BY <1>1, OrderByIs DEF o
<1>4. off \in Nat /\ Limit \in Nat \ {0}
  BY OffsetIs DEF off
<1> DEFINE cut == Cut(o, Limit, off)
<1>5. Len(cut) \in Nat /\ (Len(cut) < Limit => Len(o) <= off + Limit)
  <2>1. Len(cut) \in Nat /\ (Len(o) > off + Limit => Len(cut) = Limit)
    BY <1>3, <1>4, CutIs
  <2> HIDE DEF cut
  <2>2. QED
    BY <1>3, <1>4, <2>1
<1>6. page.rows = cut /\ page.last \in {Len(o) <= off + Limit, Len(cut) < Limit}
  BY <1>2 DEF Paged, Unpaged
<1> HIDE DEF cut
<1>7. page.last \in BOOLEAN /\ (page.last => Cardinality(S) <= off + Limit)
  <2> DEFINE n == Len(o)
             last == page.last
  <2>1. n \in Nat /\ n = Cardinality(S)
    BY <1>3
  <2>2. last = (n <= off + Limit) \/ last = (Len(cut) < Limit)
    BY <1>6
  <2> HIDE DEF n, last
  <2>3. last \in BOOLEAN
    <3>1. (n <= off + Limit) \in BOOLEAN /\ (Len(cut) < Limit) \in BOOLEAN
      OBVIOUS
    <3>2. QED
      BY <2>2, <3>1, Zenon
  <2>4. last => n <= off + Limit
    BY <1>4, <1>5, <2>1, <2>2 DEF n
  <2>5. QED
    BY <2>1, <2>3, <2>4 DEF last
<1>8. QED
  BY <1>6, <1>7 DEF PageOf, cut, o, off, S

LEMMA ListingsInitInv == ListingsInit => ListingsInv
<1> SUFFICES ASSUME ListingsInit PROVE ListingsInv
  OBVIOUS
<1>1. ListingsTypeOK
  BY DEF ListingsInit, ListingsTypeOK, TeamRoleEnum
<1>2. TeamsOfMembers
  BY DEF ListingsInit, TeamsOfMembers, InTeam, OrgMembers
<1>3. WalkInv
  BY DEF ListingsInit, WalkInv
<1>4. QED
  BY <1>1, <1>2, <1>3 DEF ListingsInv

LEMMA OpenKeeps ==
    ASSUME ListingsInv, NEW l \in Lists, Open(l)
    PROVE  ListingsInv'
<1>1. ListingsTypeOK' /\ TeamsOfMembers'
  BY DEF ListingsInv, ListingsTypeOK, TeamsOfMembers, InTeam, OrgMembers, Open
<1>2. RowSet(l)' = RowSet(l)
  BY DEF Open, RowSet, HavingStatus, OrgMembers, Assigned, Unassigned, InTeam, Managed, OfTeam,
         TakenBy, TeamEmployees, Manages
<1> DEFINE S == RowSet(l)
           ahead == Order(l)
<1>3. Orders(ahead, S) /\ S \subseteq Keys
  BY RowsKind, KindOrders DEF ListingsInv
<1> HIDE DEF S, ahead
<1>4. walk' = [list |-> l, page |-> 1, got |-> <<>>, steady |-> S,
               come |-> FALSE, gone |-> FALSE, done |-> FALSE]
  BY DEF Open, S
<1>5. walk' \in Walks
  BY <1>3, <1>4 DEF Walks
<1>6. Offset(1) = 0
  BY ListingsAssumption DEF Offset
<1>7. SteadySeen(walk', S, ahead)
  <2>1. \A x \in S : Place(S, ahead, x) >= 0
    BY <1>3, PlaceIs
  <2>2. QED
    BY <1>4, <1>6, <2>1 DEF SteadySeen
<1>8. OnceSeen(walk', S, ahead)
  BY <1>4 DEF OnceSeen
<1>9. Walking(walk', S, ahead) /\ walk'.list = l
  BY <1>4, <1>5, <1>7, <1>8 DEF Walking
<1>10. WalkInv'
  BY <1>2, <1>9 DEF WalkInv, S, ahead
<1>11. QED
  BY <1>1, <1>10 DEF ListingsInv

LEMMA ReadKeeps ==
    ASSUME ListingsInv, Read
    PROVE  ListingsInv'
<1>1. ListingsTypeOK' /\ TeamsOfMembers'
  BY DEF ListingsInv, ListingsTypeOK, TeamsOfMembers, InTeam, OrgMembers, Read
<1> DEFINE l == walk.list
           S == RowSet(l)
           ahead == Order(l)
<1>2. Walking(walk, S, ahead) /\ walk \in Walks /\ ~walk.done
  BY DEF ListingsInv, WalkInv, Read, Walking
<1>3. Orders(ahead, S) /\ S \subseteq Keys
  BY RowsKind, KindOrders DEF ListingsInv
<1> HIDE DEF l
<1>4. ASSUME NEW k PROVE RowSet(k)' = RowSet(k)
  BY DEF Read, RowSet, HavingStatus, OrgMembers, Assigned, Unassigned, InTeam, Managed, OfTeam,
         TakenBy, TeamEmployees, Manages
<1> DEFINE page == Page(l, Limit, Offset(walk.page))
<1>5. Turns(walk, walk', page.rows, page.last)
  BY DEF Read, Turns, l
<1>6. PageOf(page.rows, page.last, S, ahead, walk.page)
  <2>1. walk.page \in Nat \ {0}
    BY <1>2 DEF Walks
  <2>2. QED
    BY <2>1, PageIs DEF ListingsInv
<1> HIDE DEF S, ahead, page
<1>7. Walking(walk', S, ahead)
  BY <1>2, <1>3, <1>5, <1>6, ReadWalks
<1>8. walk'.list = l
  BY <1>2, <1>5 DEF Turns, Walks, l
<1>9. WalkInv'
  BY <1>4, <1>7, <1>8 DEF WalkInv, S, ahead
<1>10. QED
  BY <1>1, <1>9 DEF ListingsInv

LEMMA WriteKeeps ==
    ASSUME ListingsInv, ListingsTypeOK', TeamsOfMembers', Write
    PROVE  ListingsInv'
<1>1. CASE walk = NoWalk
  BY <1>1 DEF Write, WalkInv, ListingsInv
<1>2. CASE walk # NoWalk
  <2>0. \E l \in {walk.list} : \E before \in {RowSet(l)}, after \in {RowSet(l)'} :
            Changes(walk, walk', before, after)
    BY <1>2 DEF Write, Changes
  <2>1. PICK l : l = walk.list /\ Changes(walk, walk', RowSet(l), RowSet(l)')
    BY <2>0
  <2>2. /\ Orders(Order(l), RowSet(l)) /\ Orders(Order(l), RowSet(l)')
        /\ RowSet(l)' \subseteq Keys
    BY RowsKind, RowsKindNext, KindOrders DEF ListingsInv
  <2>3. Walking(walk, RowSet(l), Order(l)) /\ walk \in Walks
    BY <1>2, <2>1 DEF ListingsInv, WalkInv, Walking
  <2>4. Walking(walk', RowSet(l)', Order(l))
    BY <2>1, <2>2, <2>3, WriteWalks
  <2>5. walk'.list = l
    BY <2>1, <2>3 DEF Changes, Walks
  <2>6. WalkInv'
    BY <2>4, <2>5 DEF WalkInv
  <2>7. QED
    BY <2>6 DEF ListingsInv
<1>3. QED
  BY <1>1, <1>2

\* Those who take part are people, in some roles.
LEMMA ParticipantsAre ==
    ASSUME NEW parts \in Participants
    PROVE  parts \in SUBSET (People \X Roles)
BY DEF Participants, Roles

LEMMA SetMemberKeeps ==
    ASSUME ListingsInv, NEW p \in People, NEW status, SetMember(p, status)
    PROVE  ListingsInv'
<1>1. status \in {"INVITED", "ACTIVE", "SUSPENDED"}
  BY DEF SetMember
<1>2. ListingsTypeOK'
  BY <1>1 DEF ListingsInv, ListingsTypeOK, SetMember
<1>3. TeamsOfMembers'
  BY <1>1 DEF ListingsInv, ListingsTypeOK, TeamsOfMembers, InTeam, OrgMembers, SetMember
<1>4. QED
  BY <1>2, <1>3, WriteKeeps DEF SetMember

LEMMA UpsertTeamMemberKeeps ==
    ASSUME ListingsInv, NEW t \in OrgTeams, NEW p \in People, NEW role \in TeamRoleEnum,
           UpsertTeamMember(t, p, role)
    PROVE  ListingsInv'
<1>1. ListingsTypeOK'
  BY DEF ListingsInv, ListingsTypeOK, UpsertTeamMember
<1>2. TeamsOfMembers'
  <2>1. member' = member /\ member[p] = "ACTIVE"
    BY DEF UpsertTeamMember
  <2>2. \A u \in OrgTeams, q \in People : teamRole'[u][q] = teamRole[u][q] \/ q = p
    BY DEF ListingsInv, ListingsTypeOK, UpsertTeamMember
  <2>3. QED
    BY <2>1, <2>2 DEF ListingsInv, TeamsOfMembers, InTeam, OrgMembers
<1>3. QED
  BY <1>1, <1>2, WriteKeeps DEF UpsertTeamMember

LEMMA RemoveTeamMemberKeeps ==
    ASSUME ListingsInv, NEW t \in OrgTeams, NEW p \in People, RemoveTeamMember(t, p)
    PROVE  ListingsInv'
<1>1. ListingsTypeOK'
  BY DEF ListingsInv, ListingsTypeOK, RemoveTeamMember
<1>2. TeamsOfMembers'
  <2>1. member' = member
    BY DEF RemoveTeamMember
  <2>2. \A u \in OrgTeams, q \in People :
            teamRole'[u][q] = teamRole[u][q] \/ teamRole'[u][q] = "none"
    BY DEF ListingsInv, ListingsTypeOK, RemoveTeamMember
  <2>3. QED
    BY <2>1, <2>2 DEF ListingsInv, TeamsOfMembers, InTeam, OrgMembers
<1>3. QED
  BY <1>1, <1>2, WriteKeeps DEF RemoveTeamMember

LEMMA TaskWritesKeep ==
    ASSUME ListingsInv, NEW parts \in Participants,
           \/ \E t \in OrgTeams : CreateTask(t, parts)
           \/ \E i \in DOMAIN tasks : SetParticipants(i, parts)
    PROVE  ListingsInv'
<1>1. member' = member /\ teamRole' = teamRole /\ updates' = updates /\ Write
  BY DEF CreateTask, SetParticipants
<1>2. parts \in SUBSET (People \X Roles)
  BY ParticipantsAre
<1>3. tasks \in Seq(TaskRows)
  BY DEF ListingsInv, ListingsTypeOK
<1>4. tasks' \in Seq(TaskRows)
  <2>1. ASSUME NEW t \in OrgTeams, CreateTask(t, parts) PROVE tasks' \in Seq(TaskRows)
    <3>1. [team |-> t, parts |-> parts] \in TaskRows
      BY <1>2 DEF TaskRows
    <3>2. QED
      BY <1>3, <2>1, <3>1 DEF CreateTask
  <2>2. ASSUME NEW i \in DOMAIN tasks, SetParticipants(i, parts) PROVE tasks' \in Seq(TaskRows)
    <3> DEFINE row == tasks[i]
    <3>1. row \in TaskRows
      BY <1>3
    <3>2. tasks' = [tasks EXCEPT ![i] = [row EXCEPT !.parts = parts]]
      BY <2>2 DEF SetParticipants
    <3> HIDE DEF row
    <3>3. [row EXCEPT !.parts = parts] \in TaskRows
      BY <1>2, <3>1 DEF TaskRows
    <3>4. QED
      BY <1>3, <3>2, <3>3
  <2>3. QED
    BY <2>1, <2>2
<1>5. ListingsTypeOK'
  BY <1>1, <1>4 DEF ListingsInv, ListingsTypeOK
<1>6. TeamsOfMembers'
  BY <1>1 DEF ListingsInv, TeamsOfMembers, InTeam, OrgMembers
<1>7. QED
  BY <1>1, <1>5, <1>6, WriteKeeps

LEMMA UpdateWritesKeep ==
    ASSUME ListingsInv, AddTaskUpdate \/ AddUpdateComment
    PROVE  ListingsInv'
<1>1. member' = member /\ teamRole' = teamRole /\ tasks' = tasks /\ Write
  BY DEF AddTaskUpdate, AddUpdateComment
<1>2. ListingsTypeOK'
  BY <1>1 DEF ListingsInv, ListingsTypeOK, AddTaskUpdate, AddUpdateComment
<1>3. TeamsOfMembers'
  BY <1>1 DEF ListingsInv, TeamsOfMembers, InTeam, OrgMembers
<1>4. QED
  BY <1>1, <1>2, <1>3, WriteKeeps

LEMMA ListingsInductive == ListingsInv /\ [ListingsNext]_listings => ListingsInv'
<1> SUFFICES ASSUME ListingsInv, [ListingsNext]_listings PROVE ListingsInv'
  OBVIOUS
<1>1. ASSUME NEW l \in Lists, Open(l) PROVE ListingsInv'
  BY <1>1, OpenKeeps
<1>2. CASE Read
  BY <1>2, ReadKeeps
<1>3. ASSUME NEW p \in People, NEW s \in {"INVITED", "ACTIVE", "SUSPENDED"}, SetMember(p, s)
      PROVE  ListingsInv'
  BY <1>3, SetMemberKeeps
<1>4. ASSUME NEW p \in People, NEW t \in OrgTeams,
             RemoveTeamMember(t, p) \/ \E r \in TeamRoleEnum : UpsertTeamMember(t, p, r)
      PROVE  ListingsInv'
  BY <1>4, RemoveTeamMemberKeeps, UpsertTeamMemberKeeps
<1>5. ASSUME NEW parts \in Participants,
             \/ \E t \in OrgTeams : CreateTask(t, parts)
             \/ \E i \in DOMAIN tasks : SetParticipants(i, parts)
      PROVE  ListingsInv'
  BY <1>5, TaskWritesKeep
<1>6. CASE AddTaskUpdate \/ AddUpdateComment
  BY <1>6, UpdateWritesKeep
<1>7. CASE UNCHANGED listings
  BY <1>7 DEF listings, ListingsInv, ListingsTypeOK, TeamsOfMembers, InTeam, OrgMembers, WalkInv,
        RowSet, HavingStatus, Assigned, Unassigned, Managed, OfTeam, TakenBy, TeamEmployees, Manages
<1>8. QED
  BY <1>1, <1>2, <1>3, <1>4, <1>5, <1>6, <1>7 DEF ListingsNext

LEMMA ListingsInvariance == ListingsSpec => []ListingsInv
<1>1. QED
  BY ListingsInitInv, ListingsInductive, PTL DEF ListingsSpec

\* However the list changes between its pages, whoever reads them to the last has
\* seen every row that was there all along, unless one left it meanwhile; and none
\* of them twice, unless one came as well.  For every list of the pages, any size of
\* a page and any number of rows (LIMIT and OFFSET of the paginated queries).
THEOREM PagesMissNothing == ListingsSpec => []WalksAreComplete
<1>1. ASSUME ListingsInv PROVE WalksAreComplete
  <2> SUFFICES ASSUME walk # NoWalk, walk.done, ~walk.gone
               PROVE  /\ walk.steady \subseteq ToSet(walk.got)
                      /\ walk.come \/ Cardinality(ToSet(walk.got)) = Len(walk.got)
    BY DEF WalksAreComplete
  <2> DEFINE S == RowSet(walk.list)
             ahead == Order(walk.list)
  <2>1. Walking(walk, S, ahead) /\ walk.got \in Seq(Keys)
    BY <1>1 DEF ListingsInv, WalkInv, Walking, Walks
  <2>2. walk.steady \subseteq ToSet(walk.got)
    BY <2>1 DEF Walking, SteadySeen, Got
  <2>3. ASSUME ~walk.come PROVE Cardinality(ToSet(walk.got)) = Len(walk.got)
    <3>1. \A i, j \in DOMAIN walk.got : walk.got[i] = walk.got[j] => i = j
      BY <2>1, <2>3 DEF Walking, OnceSeen
    <3>2. QED
      BY <2>1, <3>1, OnceCounted DEF ToSet
  <2>4. QED
    BY <2>2, <2>3
<1>2. QED
  BY <1>1, ListingsInvariance, PTL

--------------------------------------------------------------------------------
(* The queries that tell the same *)

LEMMA ByTeamNameOrders == Orders(ByTeamName, OrgTeams)
<1>1. /\ IsFiniteSet(OrgTeams)
      /\ \A t \in OrgTeams : TeamName[t] \in Nat
      /\ \A t, u \in OrgTeams : TeamName[t] = TeamName[u] => t = u
  BY ListingsAssumption DEF OrgTeams, Distinct
<1>2. \A t, u \in OrgTeams : t \in ByTeamName[u] <=> TeamName[t] < TeamName[u]
  BY DEF ByTeamName
<1>3. QED
  BY <1>1, <1>2 DEF Orders

\* The people of the organisation are those with a team and those without.
LEMMA PeopleAgree ==
    /\ ToSet(GetAssignedOrgUsers) \cup ToSet(GetUnassignedOrgUsers) = ToSet(GetUsersByOrg)
    /\ Len(GetAssignedOrgUsers) + UnassignedAlert = GetTotalUsersByOrg
<1>1. Assigned \in SUBSET People /\ Unassigned \in SUBSET People /\ OrgMembers \in SUBSET People
  BY DEF Assigned, Unassigned, OrgMembers
<1>2. Orders(Newer, Assigned) /\ Orders(Newer, Unassigned) /\ Orders(Newer, OrgMembers)
  BY <1>1, NewerOrders, OrdersFewer
<1>3. Assigned \cup Unassigned = OrgMembers /\ Assigned \cap Unassigned = {}
  BY DEF Assigned, Unassigned
<1>4. Cardinality(OrgMembers) = Cardinality(Assigned) + Cardinality(Unassigned)
  <2>1. /\ IsFiniteSet(Assigned) /\ IsFiniteSet(Unassigned)
        /\ Cardinality(Assigned) \in Nat /\ Cardinality(Unassigned) \in Nat
    BY <1>2, ListedIs
  <2>2. Cardinality(Assigned \cap Unassigned) = 0
    BY <1>3, FS_EmptySet
  <2>3. Cardinality(Assigned \cup Unassigned) =
            Cardinality(Assigned) + Cardinality(Unassigned) - Cardinality(Assigned \cap Unassigned)
    BY <2>1, FS_Union
  <2>4. QED
    BY <1>3, <2>1, <2>2, <2>3
<1>5. UnassignedAlert = Cardinality(Unassigned)
  <2> DEFINE o == GetUnassignedOrgUsers
             n == Cardinality(Unassigned)
             cut == Cut(o, 1, 0)
  <2>1. o \in Seq(Unassigned) /\ Len(o) = n /\ n \in Nat
    BY <1>2, ListedIs DEF GetUnassignedOrgUsers
  <2>2. UnassignedAlert = IF cut = <<>> THEN 0 ELSE Len(o)
    BY DEF UnassignedAlert, UnassignedUsersPage, Paged
  <2>3. cut = <<>> <=> Len(o) = 0
    <3>1. cut = Cut(o, 1, 0)
      OBVIOUS
    <3> HIDE DEF o, cut
    <3>2. QED
      BY <2>1, <3>1, CutFirst
  <2> HIDE DEF n, o, cut
  <2>4. QED
    BY <2>1, <2>2, <2>3 DEF n
<1>6. QED
  BY <1>2, <1>3, <1>4, <1>5, ListedIs DEF GetAssignedOrgUsers, GetUnassignedOrgUsers,
     GetUsersByOrg, GetTotalUsersByOrg

\* As many pairs with one as there are.
LEMMA PairsWithOne ==
    ASSUME NEW a, NEW S, IsFiniteSet(S)
    PROVE  Cardinality({a} \X S) = Cardinality(S)
<1> DEFINE P == {a} \X S
           f == [x \in S |-> <<a, x>>]
<1>1. f \in Bijection(S, P)
  BY DEF Bijection, Injection, Surjection, IsInjective
<1> HIDE DEF f, P
<1>2. ExistsBijection(S, P)
  BY <1>1 DEF ExistsBijection
<1>3. QED
  BY <1>2, FS_Bijection DEF P

\* The queries about a person's teams.
LEMMA PersonsTeamsAgree ==
    ASSUME ListingsInv, NEW p \in People
    PROVE  TeamsAgree(p)
<1> DEFINE managed == {u \in OrgTeams : Manages(p, u)}
<1>1. ASSUME NEW t \in OrgTeams
      PROVE  Cardinality({p} \X GetTeamMembersDetails(t)) = Cardinality(GetTeamMembersDetails(t))
  <2>1. IsFiniteSet(GetTeamMembersDetails(t))
    <3>1. GetTeamMembersDetails(t) \in SUBSET People /\ IsFiniteSet(People)
      BY ListingsAssumption DEF GetTeamMembersDetails
    <3>2. QED
      BY <3>1, FS_Subset
  <2>2. QED
    BY <2>1, PairsWithOne
<1>2. GetAdminManagedTeams(p) = {Counted(t) : t \in managed}
  BY <1>1 DEF GetAdminManagedTeams, Counted
<1>3. GetAdminDashboardStats(p).teams = GetAdminManagedTeams(p)
  BY <1>2 DEF GetAdminDashboardStats, GetAdminTeamWiseStats
<1>4. GetAdminManagedTeams(p) \cup GetEmployeeTeams(p) \subseteq GetOrgTeams
  BY <1>2 DEF GetEmployeeTeams, GetUserTeams, GetOrgTeams
<1>5. GetAdminDashboardStats(p).total =
        Cardinality({r[2] : r \in ToSet(GetTeamEmployeesPaginated(p))})
  <2>1. ToSet(GetTeamEmployeesPaginated(p)) = TeamEmployees(p)
    <3>1. TeamEmployees(p) \in SUBSET (OrgTeams \X People)
      BY DEF TeamEmployees
    <3>2. Orders(ByTeam, TeamEmployees(p))
      BY <3>1, ByTeamOrders, OrdersFewer
    <3>3. QED
      BY <3>2, ListedIs DEF GetTeamEmployeesPaginated
  <2> DEFINE listed == {r[2] : r \in TeamEmployees(p)}
             seen == {q \in People : \E t \in OrgTeams : Manages(p, t) /\ InTeam(t, q)}
  <2>2. listed \subseteq seen
    BY DEF TeamEmployees
  <2>3. ASSUME NEW q \in seen PROVE q \in listed
    <3>1. PICK t \in OrgTeams : Manages(p, t) /\ InTeam(t, q)
      OBVIOUS
    <3>2. q \in OrgMembers
      BY <3>1 DEF ListingsInv, TeamsOfMembers
    <3>3. <<t, q>> \in TeamEmployees(p)
      BY <3>1, <3>2 DEF TeamEmployees
    <3>4. QED
      BY <3>3
  <2>4. listed = seen
    BY <2>2, <2>3
  <2>5. GetAdminDashboardStats(p).total = Cardinality(seen)
    BY DEF GetAdminDashboardStats, GetTotalUsersInAdminTeams
  <2>6. QED
    BY <2>1, <2>4, <2>5
<1>6. ToSet(GetAdminTeamNames(p)) = {m.team : m \in GetAdminManagedTeams(p)}
  <2>1. managed \in SUBSET OrgTeams
    OBVIOUS
  <2>2. ToSet(GetAdminTeamNames(p)) = managed
    <3>1. Orders(ByTeamName, managed)
      BY <2>1, ByTeamNameOrders, OrdersFewer
    <3>2. QED
      BY <3>1, ListedIs DEF GetAdminTeamNames
  <2> DEFINE counts == {Counted(t) : t \in managed}
  <2>3. {m.team : m \in counts} = managed
    <3>1. \A t \in managed : Counted(t) \in counts /\ Counted(t).team = t
      BY DEF Counted
    <3>2. \A m \in counts : m.team \in managed
      BY DEF Counted
    <3> HIDE DEF counts, managed
    <3>3. QED
      BY <3>1, <3>2
  <2>4. QED
    BY <1>2, <2>2, <2>3
<1>7. ASSUME NEW t \in GetUserTeamsWithAdmins(p)
      PROVE  p \in t.admins <=> \E m \in GetAdminManagedTeams(p) : m.team = t.team
  <2>1. t.team \in OrgTeams /\ (p \in t.admins <=> Manages(p, t.team))
    BY DEF GetUserTeamsWithAdmins, GetUserTeams
  <2> DEFINE counts == {Counted(u) : u \in managed}
  <2>2. (\E m \in counts : m.team = t.team) <=> t.team \in managed
    <3>1. \A u \in managed : Counted(u) \in counts /\ Counted(u).team = u
      BY DEF Counted
    <3>2. \A m \in counts : m.team \in managed
      BY DEF Counted
    <3> HIDE DEF counts, managed
    <3>3. QED
      BY <3>1, <3>2
  <2>3. QED
    BY <1>2, <2>1, <2>2
<1>8. QED
  BY <1>3, <1>4, <1>5, <1>6, <1>7 DEF TeamsAgree

\* The queries about the tasks of a person.
LEMMA PersonsTasksAgree ==
    ASSUME ListingsInv, NEW t \in OrgTeams, NEW p \in People
    PROVE  TasksAgree(t, p)
<1> DEFINE all == DOMAIN tasks
<1>1. all \in SUBSET Nat /\ IsFiniteSet(all)
  BY IndicesAre DEF ListingsInv, ListingsTypeOK
<1>2. TakenBy(t, p) \in SUBSET all /\ Managed(p) \in SUBSET all
  BY DEF TakenBy, OfTeam, Managed
<1>3. Manages(p, t) => TakenBy(t, p) \subseteq Managed(p)
  BY DEF TakenBy, OfTeam, Managed
<1> HIDE DEF all
<1>4. Orders(Latest, all)
  BY <1>1, NumberOrders
<1>5. Orders(Latest, TakenBy(t, p)) /\ Orders(Latest, Managed(p))
  BY <1>2, <1>4, OrdersFewer
<1>6. QED
  BY <1>3, <1>5, ListedIs DEF TasksAgree, GetEmployeeTasks, GetAdminAllTasks

\* Queries that tell the same fact in different ways tell the same, for any people,
\* teams and tasks (services/admin.go, tasks.go): those with a team and those without
\* are the organisation's, and as many; what an admin's dashboard counts is what the
\* lists of the managed teams and their employees have; and a task that somebody has
\* in several roles is listed once.
THEOREM QueriesAgree == ListingsSpec => []BoardsAgree
<1>1. ListingsInv => BoardsAgree
  BY PeopleAgree, PersonsTeamsAgree, PersonsTasksAgree DEF BoardsAgree
<1>2. QED
  BY <1>1, ListingsInvariance, PTL
================================================================================
