--------------------------- MODULE CalendarProofs ---------------------------
(***************************************************************************)
(* Calendar for every period, start and instant: dates and days are each   *)
(* other's inverse, anchors rise, and the walks of floor_index end at the  *)
(* last anchor at or before the instant.                                   *)
(***************************************************************************)
EXTENDS Calendar, WellFoundedInduction, TLAPS

-----------------------------------------------------------------------------
(* Induction on the integers, as the closure of a set under one step.       *)

\* Every set of naturals that is not empty has a least element.
LEMMA LeastNatural ==
    ASSUME NEW S \in SUBSET Nat, S # {}
    PROVE  \E m \in S : \A n \in S : m <= n
<1> DEFINE R == OpToRel(<, Nat)
<1>1. IsWellFoundedOn(R, Nat)
  BY NatLessThanWellFounded
<1>2. \A m, n \in Nat : n < m => <<n, m>> \in R
  BY Zenon DEF OpToRel
<1>3. PICK m \in S : \A n \in S : <<n, m>> \notin R
  <2> HIDE DEF R
  <2> QED BY <1>1, WFMin
<1> HIDE DEF R
<1>4. ASSUME NEW n \in S PROVE m <= n
  <2>1. m \in Nat /\ n \in Nat
    OBVIOUS
  <2>2. ~(n < m)
    BY <1>2, <1>3, <2>1
  <2> QED BY <2>1, <2>2
<1> QED BY <1>4

\* Induction upwards from m, as closure of a set.
LEMMA Upwards ==
    ASSUME NEW m \in Int, NEW Good, m \in Good,
           \A k \in Int : k >= m /\ k \in Good => k+1 \in Good
    PROVE  \A k \in Int : k >= m => k \in Good
<1> DEFINE Bad == {n \in Nat : m + n \notin Good}
<1>1. ASSUME Bad # {} PROVE FALSE
  <2>1. PICK n \in Bad : \A i \in Bad : n <= i
    <3>1. Bad \in SUBSET Nat
      OBVIOUS
    <3> HIDE DEF Bad
    <3> QED BY <1>1, <3>1, LeastNatural
  <2>2. n \in Nat /\ m + n \notin Good
    OBVIOUS
  <2>3. n # 0
    BY <2>2
  <2>4. n-1 \in Nat /\ n-1 \notin Bad
    <3>1. n - 1 \in Nat
      BY <2>2, <2>3
    <3> HIDE DEF Bad
    <3> QED BY <2>1, <2>2, <3>1
  <2>5. m + (n-1) \in Good
    BY <2>4
  <2>6. m + (n-1) + 1 \in Good
    <3> DEFINE k == m + (n-1)
    <3>1. k \in Int /\ k >= m /\ k \in Good
      BY <2>4, <2>5
    <3> HIDE DEF k
    <3>2. k+1 \in Good
      BY <3>1
    <3> QED BY <3>2 DEF k
  <2>7. m + (n-1) + 1 = m + n
    BY <2>2
  <2> QED BY <2>2, <2>6, <2>7
<1>2. ASSUME NEW k \in Int, k >= m PROVE k \in Good
  <2>1. k - m \in Nat /\ m + (k - m) = k
    BY <1>2
  <2>2. (k - m) \notin Bad
    <3> HIDE DEF Bad
    <3> QED BY <1>1
  <2> QED BY <2>1, <2>2
<1> QED BY <1>2

\* Induction downwards from m.
LEMMA Downwards ==
    ASSUME NEW m \in Int, NEW Good, m \in Good,
           \A k \in Int : k <= m /\ k \in Good => k-1 \in Good
    PROVE  \A k \in Int : k <= m => k \in Good
<1> DEFINE Mirror == {k \in Int : -k \in Good}
<1>1. -m \in Mirror
  <2>1. -m \in Int /\ -(-m) = m
    OBVIOUS
  <2> QED BY <2>1
<1>2. ASSUME NEW k \in Int, k >= -m, k \in Mirror PROVE k+1 \in Mirror
  <2>1. -k \in Int /\ -k <= m /\ -k \in Good
    BY <1>2
  <2>2. (-k) - 1 \in Good
    BY <2>1
  <2>3. (-k) - 1 = -(k+1)
    OBVIOUS
  <2> QED BY <2>2, <2>3
<1>3. \A k \in Int : k >= -m => k \in Mirror
  <2>1. -m \in Int
    OBVIOUS
  <2> HIDE DEF Mirror
  <2> QED BY <1>1, <1>2, <2>1, Upwards
<1>4. ASSUME NEW k \in Int, k <= m PROVE k \in Good
  <2>1. -k \in Int /\ -k >= -m /\ -(-k) = k
    BY <1>4
  <2>2. -k \in Mirror
    <3> HIDE DEF Mirror
    <3> QED BY <1>3, <2>1
  <2> QED BY <2>1, <2>2
<1> QED BY <1>4

-----------------------------------------------------------------------------
(* The walks of floor_index.                                               *)

\* A walk down, while above m, ends at m.
LEMMA DownEndsAt ==
    ASSUME NEW m \in Int, NEW f,
           \A k \in Int : k > m => f[k] = f[k-1],
           f[m] = m
    PROVE  \A k \in Int : k >= m => f[k] = m
<1> DEFINE Good == {k \in Int : f[k] = m}
<1>1. m \in Good
  OBVIOUS
<1>2. ASSUME NEW k \in Int, k >= m, k \in Good PROVE k+1 \in Good
  <2> DEFINE j == k+1
  <2>1. j \in Int /\ j > m /\ j - 1 = k
    BY <1>2
  <2> HIDE DEF j
  <2>2. f[j] = f[k]
    BY <2>1
  <2>3. j \in Good
    BY <1>2, <2>1, <2>2
  <2> QED BY <2>3 DEF j
<1>3. \A k \in Int : k >= m => k \in Good
  <2> HIDE DEF Good
  <2> QED BY <1>1, <1>2, Upwards
<1> QED BY <1>3

\* A walk up, while below m, ends at m.
LEMMA UpEndsAt ==
    ASSUME NEW m \in Int, NEW f,
           \A k \in Int : k < m => f[k] = f[k+1],
           f[m] = m
    PROVE  \A k \in Int : k <= m => f[k] = m
<1> DEFINE Good == {k \in Int : f[k] = m}
<1>1. m \in Good
  OBVIOUS
<1>2. ASSUME NEW k \in Int, k <= m, k \in Good PROVE k-1 \in Good
  <2> DEFINE j == k-1
  <2>1. j \in Int /\ j < m /\ j + 1 = k
    BY <1>2
  <2> HIDE DEF j
  <2>2. f[j] = f[k]
    BY <2>1
  <2>3. j \in Good
    BY <1>2, <2>1, <2>2
  <2> QED BY <2>3 DEF j
<1>3. \A k \in Int : k <= m => k \in Good
  <2> HIDE DEF Good
  <2> QED BY <1>1, <1>2, Downwards
<1> QED BY <1>3

\* m is the last anchor at or before t.
IsFloor(p, start, t, m) ==
    /\ m \in Int
    /\ \A k \in Int : (k <= m) = (Anchor(p, start, k) <= t)

\* The two walks of floor_index end at the floor, wherever the guess lies.
LEMMA FloorIndexIs ==
    ASSUME NEW p, NEW start, NEW t \in Int, NEW m, IsFloor(p, start, t, m),
           \A k \in Int : Anchor(p, start, k) \in Int,
           (t - start) \div (p.months * MeanMonth + p.seconds) \in Int
    PROVE  FloorIndex(p, start, t) = m
<1> DEFINE guess == (t - start) \div (p.months * MeanMonth + p.seconds)
           down == CHOOSE f : f = [k \in Int |-> IF Anchor(p, start, k) > t THEN f[k-1] ELSE k]
           up == CHOOSE f : f = [k \in Int |-> IF Anchor(p, start, k+1) <= t THEN f[k+1] ELSE k]
<1>1. FloorIndex(p, start, t) = up[down[guess]]
  BY Zenon DEF FloorIndex
<1>2. /\ m \in Int
      /\ \A k \in Int : (Anchor(p, start, k) > t) = (k > m)
      /\ \A k \in Int : (Anchor(p, start, k+1) <= t) = (k < m)
  <2>1. m \in Int /\ \A k \in Int : (k <= m) = (Anchor(p, start, k) <= t)
    BY DEF IsFloor
  <2>2. ASSUME NEW k \in Int PROVE (Anchor(p, start, k+1) <= t) = (k < m)
    <3>1. k+1 \in Int /\ (k+1 <= m) = (k < m)
      BY <2>1
    <3> QED BY <2>1, <3>1
  <2>3. ASSUME NEW k \in Int PROVE (Anchor(p, start, k) > t) = (k > m)
    <3>1. (k > m) = ~(k <= m)
      BY <2>1
    <3> QED BY <2>1, <3>1
  <2> QED BY <2>1, <2>2, <2>3
<1>3. down = [k \in Int |-> IF Anchor(p, start, k) > t THEN down[k-1] ELSE k]
  <2> DEFINE g == [k \in Int |-> IF k > m THEN m ELSE k]
  <2>1. ASSUME NEW k \in Int PROVE g[k] = IF Anchor(p, start, k) > t THEN g[k-1] ELSE k
    <3>1. k - 1 \in Int /\ (k > m => (IF k-1 > m THEN m ELSE k-1) = m)
      BY <1>2
    <3>2. g[k-1] = IF k-1 > m THEN m ELSE k-1
      BY <3>1
    <3> QED BY <1>2, <3>1, <3>2
  <2>2. g = [k \in Int |-> IF Anchor(p, start, k) > t THEN g[k-1] ELSE k]
    <3>1. g = [k \in Int |-> g[k]]
      OBVIOUS
    <3> HIDE DEF g
    <3> QED BY Zenon, <2>1, <3>1
  <2> HIDE DEF g
  <2> QED BY Zenon, <2>2
<1>4. up = [k \in Int |-> IF Anchor(p, start, k+1) <= t THEN up[k+1] ELSE k]
  <2> DEFINE g == [k \in Int |-> IF k < m THEN m ELSE k]
  <2>1. ASSUME NEW k \in Int PROVE g[k] = IF Anchor(p, start, k+1) <= t THEN g[k+1] ELSE k
    <3>1. k + 1 \in Int /\ (k < m => (IF k+1 < m THEN m ELSE k+1) = m)
      BY <1>2
    <3>2. g[k+1] = IF k+1 < m THEN m ELSE k+1
      BY <3>1
    <3> QED BY <1>2, <3>1, <3>2
  <2>2. g = [k \in Int |-> IF Anchor(p, start, k+1) <= t THEN g[k+1] ELSE k]
    <3>1. g = [k \in Int |-> g[k]]
      OBVIOUS
    <3> HIDE DEF g
    <3> QED BY Zenon, <2>1, <3>1
  <2> HIDE DEF g
  <2> QED BY Zenon, <2>2
<1> HIDE DEF down, up, guess
<1>5. \A k \in Int : down[k] = IF k > m THEN down[k-1] ELSE k
  <2> TAKE k \in Int
  <2>1. down[k] = IF Anchor(p, start, k) > t THEN down[k-1] ELSE k
    BY Zenon, <1>3
  <2> QED BY Zenon, <1>2, <2>1
<1>6. \A k \in Int : up[k] = IF k < m THEN up[k+1] ELSE k
  <2> TAKE k \in Int
  <2>1. up[k] = IF Anchor(p, start, k+1) <= t THEN up[k+1] ELSE k
    BY Zenon, <1>4
  <2> QED BY Zenon, <1>2, <2>1
<1>7. \A k \in Int : k >= m => down[k] = m
  <2>1. down[m] = m /\ m \in Int
    BY <1>2, <1>5
  <2>2. \A k \in Int : k > m => down[k] = down[k-1]
    BY Zenon, <1>5
  <2> QED BY <2>1, <2>2, DownEndsAt
<1>8. \A k \in Int : k <= m => up[k] = m
  <2>1. up[m] = m /\ m \in Int
    BY <1>2, <1>6
  <2>2. \A k \in Int : k < m => up[k] = up[k+1]
    BY Zenon, <1>6
  <2> QED BY <2>1, <2>2, UpEndsAt
<1>9. guess \in Int
  BY DEF guess
<1>10. down[guess] \in Int /\ down[guess] <= m
  <2>1. CASE guess > m
    BY <1>2, <1>7, <1>9, <2>1
  <2>2. CASE guess <= m
    BY <1>2, <1>5, <1>9, <2>2
  <2> QED BY <1>2, <1>9, <2>1, <2>2
<1> QED BY <1>1, <1>8, <1>10

-----------------------------------------------------------------------------
(* Months and years.                                                       *)

\* The first day of a month, and how many days the month has.
FirstOf(m0) == DaysOf(m0 \div 12, (m0 % 12) + 1, 1)
DaysIn(m0) == MonthLength(m0 \div 12, (m0 % 12) + 1)

\* The lengths of the months.
LEMMA MonthLengthIs ==
    ASSUME NEW y \in Int, NEW m \in 1..12
    PROVE  /\ MonthLength(y, m) \in 28..31
           /\ m = 2 => MonthLength(y, m) = IF IsLeap(y) THEN 29 ELSE 28
           /\ m \in {4, 6, 9, 11} => MonthLength(y, m) = 30
           /\ m \in {1, 3, 5, 7, 8, 10, 12} => MonthLength(y, m) = 31
BY SMT DEF MonthLength

\* A count of months is years and months.
LEMMA Division ==
    ASSUME NEW n \in Int
    PROVE  /\ n \div 12 \in Int /\ n % 12 \in 0..11
           /\ n = 12 * (n \div 12) + (n % 12)
BY SMT

\* A leap year is a day longer.
LEMMA LeapDay ==
    ASSUME NEW y \in Int
    PROVE  y \div 4 - y \div 100 + y \div 400
             = (y-1) \div 4 - (y-1) \div 100 + (y-1) \div 400 + IF IsLeap(y) THEN 1 ELSE 0
BY SMTT(60) DEF IsLeap

\* The r-th month of a year, counted from 0.
LEMMA FirstOfIs ==
    ASSUME NEW y \in Int, NEW r \in 0..11, NEW m0 \in Int, m0 = 12 * y + r
    PROVE  /\ m0 \div 12 = y /\ m0 % 12 = r
           /\ FirstOf(m0) = DaysOf(y, r + 1, 1) /\ DaysIn(m0) = MonthLength(y, r + 1)
<1>1. m0 \div 12 = y /\ m0 % 12 = r
  BY SMT
<1> QED BY <1>1 DEF FirstOf, DaysIn

\* A month begins when the one before is over.
LEMMA MonthStep ==
    ASSUME NEW m0 \in Int
    PROVE  /\ FirstOf(m0) \in Int /\ DaysIn(m0) \in 28..31
           /\ FirstOf(m0 + 1) = FirstOf(m0) + DaysIn(m0)
<1> DEFINE y == m0 \div 12
           r == m0 % 12
<1>1. y \in Int /\ r \in 0..11 /\ m0 = 12 * y + r
  BY Division
<1> HIDE DEF y, r
<1>2. FirstOf(m0) = DaysOf(y, r + 1, 1) /\ DaysIn(m0) = MonthLength(y, r + 1)
  BY <1>1, FirstOfIs
<1>3. DaysIn(m0) \in 28..31
  BY <1>1, <1>2, MonthLengthIs
<1>4. FirstOf(m0) \in Int
  BY <1>1, <1>2, SMT DEF DaysOf
<1>5. CASE r = 11
  <2>1. FirstOf(m0 + 1) = DaysOf(y + 1, 1, 1)
    <3>1. m0 + 1 = 12 * (y + 1) + 0 /\ y + 1 \in Int /\ m0 + 1 \in Int /\ 0 \in 0..11 /\ 0 + 1 = 1
      BY <1>1, <1>5
    <3>2. FirstOf(m0 + 1) = DaysOf(y + 1, 0 + 1, 1)
      BY Zenon, <3>1, FirstOfIs
    <3> QED BY Zenon, <3>1, <3>2
  <2>2. MonthLength(y, 12) = 31
    BY <1>1, MonthLengthIs
  <2>3. DaysOf(y + 1, 1, 1) = DaysOf(y, 12, 1) + 31
    BY <1>1, SMT DEF DaysOf
  <2> QED BY <1>2, <1>3, <1>4, <1>5, <2>1, <2>2, <2>3, SMT
<1>6. CASE r # 11
  <2>1. FirstOf(m0 + 1) = DaysOf(y, r + 2, 1)
    <3>1. m0 + 1 = 12 * y + (r + 1) /\ r + 1 \in 0..11 /\ m0 + 1 \in Int /\ (r + 1) + 1 = r + 2
      BY <1>1, <1>6
    <3>2. FirstOf(m0 + 1) = DaysOf(y, (r + 1) + 1, 1)
      BY Zenon, <1>1, <3>1, FirstOfIs
    <3> QED BY Zenon, <3>1, <3>2
  <2>2. DaysOf(y, r + 2, 1) = DaysOf(y, r + 1, 1) + MonthLength(y, r + 1)
    <3>1. CASE r = 0
      <4>1. MonthLength(y, 1) = 31
        BY <1>1, MonthLengthIs
      <4> QED BY <1>1, <3>1, <4>1, SMT DEF DaysOf
    <3>2. CASE r = 1
      <4>1. MonthLength(y, 2) = IF IsLeap(y) THEN 29 ELSE 28
        BY <1>1, MonthLengthIs
      <4>2. DaysOf(y, 3, 1) = DaysOf(y, 2, 1) + 28 + IF IsLeap(y) THEN 1 ELSE 0
        <5>1. DaysOf(y, 3, 1) = 365*y + (y \div 4 - y \div 100 + y \div 400) - 719468
          BY <1>1, SMT DEF DaysOf
        <5>2. DaysOf(y, 2, 1) = 365*(y-1) + ((y-1) \div 4 - (y-1) \div 100 + (y-1) \div 400) + 337 - 719468
          BY <1>1, SMT DEF DaysOf
        <5>3. y \div 4 \in Int /\ y \div 100 \in Int /\ y \div 400 \in Int
              /\ (y-1) \div 4 \in Int /\ (y-1) \div 100 \in Int /\ (y-1) \div 400 \in Int
          BY <1>1, SMT
        <5>4. y \div 4 - y \div 100 + y \div 400 = (y-1) \div 4 - (y-1) \div 100 + (y-1) \div 400
                                                    + IF IsLeap(y) THEN 1 ELSE 0
          BY <1>1, LeapDay
        <5> QED BY <1>1, <5>1, <5>2, <5>3, <5>4, SMT
      <4>3. DaysOf(y, 2, 1) \in Int
        BY <1>1, SMT DEF DaysOf
      <4> QED BY <3>2, <4>1, <4>2, <4>3, SMT
    <3>3. CASE r \in {3, 5, 8, 10}
      <4>1. MonthLength(y, r + 1) = 30
        BY <1>1, <3>3, MonthLengthIs
      <4> QED BY <1>1, <3>3, <4>1, SMT DEF DaysOf
    <3>4. CASE r \in {2, 4, 6, 7, 9}
      <4>1. MonthLength(y, r + 1) = 31
        BY <1>1, <3>4, MonthLengthIs
      <4> QED BY <1>1, <3>4, <4>1, SMT DEF DaysOf
    <3> QED BY <1>1, <1>6, <3>1, <3>2, <3>3, <3>4
  <2> QED BY <1>2, <1>3, <1>4, <2>1, <2>2
<1> QED BY <1>3, <1>4, <1>5, <1>6

-----------------------------------------------------------------------------
(* Days and dates.                                                         *)

\* The year of a day of an era, counted from March: it has 366 days when its
\* February is that of a leap year.
LEMMA YearOfEraIs ==
    ASSUME NEW doe \in Int, 0 <= doe, doe <= 146096, NEW y \in Int, y = YearOfEra(doe)
    PROVE  /\ 0 <= y /\ y <= 399
           /\ 0 <= doe - (365*y + y \div 4 - y \div 100)
           /\ doe - (365*y + y \div 4 - y \div 100) <= 365
<1>1. y = (doe - doe \div 1460 + doe \div 36524 - doe \div 146096) \div 365
  BY DEF YearOfEra
<1>2. 0 <= y /\ y <= 399
  BY <1>1, SMTT(60)
<1>3. 0 <= doe - (365*y + y \div 4 - y \div 100)
  BY <1>1, SMTT(60)
<1>4. doe - (365*y + y \div 4 - y \div 100) <= 365
  BY <1>1, SMTT(60)
<1> QED BY <1>2, <1>3, <1>4

\* Only a leap year has the 366th day.
LEMMA LastDayOfLeapYear ==
    ASSUME NEW doe \in Int, 0 <= doe, doe <= 146096, NEW y \in Int, y = YearOfEra(doe),
           doe - (365*y + y \div 4 - y \div 100) = 365
    PROVE  IsLeap(y + 1)
<1>1. y = (doe - doe \div 1460 + doe \div 36524 - doe \div 146096) \div 365
  BY DEF YearOfEra
<1>2. (y + 1) % 4 = 0
  BY <1>1, SMTT(60)
<1>3. (y + 1) % 100 # 0 \/ (y+1) % 400 = 0
  BY <1>1, SMTT(60)
<1> QED BY <1>2, <1>3 DEF IsLeap

\* Years of different eras are alike.
LEMMA EraShift ==
    ASSUME NEW n \in Int, NEW e \in Int
    PROVE  /\ (n + 400*e) \div 4 = n \div 4 + 100*e
           /\ (n + 400*e) \div 100 = n \div 100 + 4*e
           /\ (n + 400*e) \div 400 = n \div 400 + e
           /\ IsLeap(n + 400*e) = IsLeap(n)
<1>1. /\ (n + 400*e) \div 4 = n \div 4 + 100*e
      /\ (n + 400*e) \div 100 = n \div 100 + 4*e
      /\ (n + 400*e) \div 400 = n \div 400 + e
  BY SMTT(60)
<1>2. IsLeap(n + 400*e) = IsLeap(n)
  BY SMTT(60) DEF IsLeap
<1> QED BY <1>1, <1>2

\* The first of March of a year, as a day.
March(year) == 365*year + year \div 4 - year \div 100 + year \div 400 - 719468

\* A day of a year that begins in March, as month and day.
LEMMA CivilDateIs ==
    ASSUME NEW year \in Int, NEW doy \in 0..365, doy = 365 => IsLeap(year + 1),
           NEW date, date = CivilDate(year, doy)
    PROVE  /\ date.year \in Int /\ date.month \in 1..12
           /\ date.day \in 1..MonthLength(date.year, date.month)
           /\ DaysOf(date.year, date.month, date.day) = March(year) + doy
<1> DEFINE mp == (5*doy + 2) \div 153
           m == IF mp < 10 THEN mp + 3 ELSE mp - 9
           y == IF m <= 2 THEN year + 1 ELSE year
           d == doy - (153*mp + 2) \div 5 + 1
<1>1. date = [year |-> y, month |-> m, day |-> d]
  BY DEF CivilDate
<1>2. mp \in 0..11
  BY SMT
<1>3. /\ d \in Int /\ d >= 1
      /\ mp = 0 => d <= 31
      /\ mp = 1 => d <= 30
      /\ mp = 2 => d <= 31
      /\ mp = 3 => d <= 30
      /\ mp = 4 => d <= 31
      /\ mp = 5 => d <= 31
      /\ mp = 6 => d <= 30
      /\ mp = 7 => d <= 31
      /\ mp = 8 => d <= 30
      /\ mp = 9 => d <= 31
      /\ mp = 10 => d <= 31
      /\ mp = 11 => d = doy - 336
  BY SMT
<1>4. m \in 1..12 /\ y \in Int /\ mp = (m + 9) % 12 /\ year = IF m > 2 THEN y ELSE y - 1
  BY <1>2, SMT
<1>5. d <= MonthLength(y, m)
  <2>1. CASE mp \in {0, 2, 4, 5, 7, 9, 10}
    <3>1. m \in {1, 3, 5, 7, 8, 10, 12} /\ d <= 31
      BY <1>3, <2>1
    <3> HIDE DEF m, y, d, mp
    <3> QED BY <1>4, <3>1, MonthLengthIs
  <2>2. CASE mp \in {1, 3, 6, 8}
    <3>1. m \in {4, 6, 9, 11} /\ d <= 30
      BY <1>3, <2>2
    <3> HIDE DEF m, y, d, mp
    <3> QED BY <1>4, <3>1, MonthLengthIs
  <2>3. CASE mp = 11
    <3>1. m = 2 /\ y = year + 1 /\ d = doy - 336
      BY <1>3, <2>3
    <3> HIDE DEF m, y, d, mp
    <3>2. MonthLength(y, m) = IF IsLeap(year + 1) THEN 29 ELSE 28
      BY <1>4, <3>1, MonthLengthIs
    <3>3. CASE doy = 365
      BY <3>1, <3>2, <3>3
    <3>4. CASE doy # 365
      BY <3>1, <3>2, <3>4
    <3> QED BY <3>3, <3>4
  <2> HIDE DEF m, y, d, mp
  <2> QED BY <1>2, <2>1, <2>2, <2>3
<1>6. DaysOf(y, m, d) = March(year) + doy
  <2>1. DaysOf(y, m, d) = 365*year + year \div 4 - year \div 100 + year \div 400
                            + (153*mp + 2) \div 5 + d - 1 - 719468
    <3> HIDE DEF m, y, d, mp
    <3> QED BY SMT, <1>4 DEF DaysOf
  <2>2. d = doy - (153*mp + 2) \div 5 + 1 /\ (153*mp + 2) \div 5 \in Int
    BY <1>2, SMT
  <2>3. year \div 4 \in Int /\ year \div 100 \in Int /\ year \div 400 \in Int
    BY SMT
  <2> HIDE DEF d, mp, y, m
  <2> QED BY <2>1, <2>2, <2>3, <1>3, SMT DEF March
<1>7. d \in 1..MonthLength(y, m)
  <2>1. MonthLength(y, m) \in 28..31
    <3> HIDE DEF m, y
    <3> QED BY <1>4, MonthLengthIs
  <2> HIDE DEF m, y, d
  <2> QED BY <1>3, <1>5, <2>1
<1> HIDE DEF m, y, d, mp
<1> QED BY SMT, <1>1, <1>4, <1>6, <1>7

\* DateOf is the inverse of DaysOf.
LEMMA DateOfIs ==
    ASSUME NEW day \in Int, NEW date, date = DateOf(day)
    PROVE  /\ date.year \in Int /\ date.month \in 1..12
           /\ date.day \in 1..MonthLength(date.year, date.month)
           /\ DaysOf(date.year, date.month, date.day) = day
<1> DEFINE z == day + 719468
           era == z \div 146097
           doe == z % 146097
           yoe == YearOfEra(doe)
           doy == doe - (365*yoe + yoe \div 4 - yoe \div 100)
<1>1. date = CivilDate(yoe + 400*era, doy)
  BY SMT DEF DateOf, DateInEra
<1>2. doe \in Int /\ 0 <= doe /\ doe <= 146096
  BY SMT
<1>3. era \in Int /\ day = 146097 * era + doe - 719468
  BY SMT
<1> HIDE DEF era, doe, z
<1>4. yoe \in Int
  BY <1>2, SMT DEF YearOfEra
<1> HIDE DEF yoe
<1>5. /\ 0 <= yoe /\ yoe <= 399 /\ 0 <= doy /\ doy <= 365
      /\ doy = 365 => IsLeap(yoe + 1)
  <2>1. yoe = YearOfEra(doe)
    BY DEF yoe
  <2> QED BY <1>2, <1>4, <2>1, YearOfEraIs, LastDayOfLeapYear
<1> DEFINE year == yoe + 400*era
<1>6. year \in Int /\ doy \in 0..365
  <2>1. yoe \div 4 \in Int /\ yoe \div 100 \in Int
    BY <1>4, SMT
  <2>2. doy \in Int
    BY <1>2, <1>4, <2>1, SMT
  <2> QED BY <1>3, <1>4, <1>5, <2>2, SMT
<1>7. IsLeap(year + 1) = IsLeap(yoe + 1)
  <2>1. year + 1 = (yoe + 1) + 400*era /\ yoe + 1 \in Int
    BY <1>3, <1>4, SMT
  <2>2. IsLeap((yoe + 1) + 400*era) = IsLeap(yoe + 1)
    BY <1>3, <2>1, EraShift
  <2> HIDE DEF year
  <2> QED BY <2>1, <2>2
<1>8. /\ year \div 4 = yoe \div 4 + 100*era
      /\ year \div 100 = yoe \div 100 + 4*era
      /\ year \div 400 = era
  <2>1. yoe \div 400 = 0
    BY <1>4, <1>5, SMT
  <2>2. 0 + era = era
    BY <1>3
  <2> QED BY <1>3, <1>4, <2>1, <2>2, EraShift
<1>9. March(year) + doy = day
  <2>1. yoe \div 4 \in Int /\ yoe \div 100 \in Int
    BY <1>4, SMT
  <2> QED BY <1>2, <1>3, <1>4, <1>8, <2>1, SMT DEF March
<1>10. doy = 365 => IsLeap(year + 1)
  BY SMT, <1>5, <1>7
<1>11. date = CivilDate(year, doy)
  BY <1>1
<1> HIDE DEF year, doy
<1> QED BY <1>6, <1>9, <1>10, <1>11, CivilDateIs

-----------------------------------------------------------------------------
(* Days and months.                                                        *)

\* The month of a date, counted through the years.
MonthNumber(date) == date.year * 12 + date.month - 1

\* A day is in the month of its date, on its day.
LEMMA DayInMonth ==
    ASSUME NEW day \in Int, NEW date, date = DateOf(day), NEW m0, m0 = MonthNumber(date)
    PROVE  /\ m0 \in Int /\ date.day \in 1..DaysIn(m0)
           /\ FirstOf(m0) + date.day - 1 = day
<1>1. /\ date.year \in Int /\ date.month \in 1..12
      /\ date.day \in 1..MonthLength(date.year, date.month)
      /\ DaysOf(date.year, date.month, date.day) = day
  BY DateOfIs
<1> DEFINE y == date.year
           m == date.month
           d == date.day
<1>2. y \in Int /\ m \in 1..12 /\ d \in 1..MonthLength(y, m) /\ DaysOf(y, m, d) = day
  BY <1>1
<1>3. m0 = y * 12 + m - 1
  BY DEF MonthNumber
<1> HIDE DEF y, m, d
<1>4. m0 \in Int /\ m - 1 \in 0..11 /\ m0 = 12 * y + (m - 1) /\ (m - 1) + 1 = m
  BY <1>2, <1>3
<1>5. FirstOf(m0) = DaysOf(y, m, 1) /\ DaysIn(m0) = MonthLength(y, m)
  <2> DEFINE r == m - 1
  <2>1. r \in 0..11 /\ m0 = 12 * y + r /\ r + 1 = m /\ y \in Int
    BY Zenon, <1>2, <1>4
  <2> HIDE DEF r
  <2>2. FirstOf(m0) = DaysOf(y, r + 1, 1) /\ DaysIn(m0) = MonthLength(y, r + 1)
    BY Zenon, <1>4, <2>1, FirstOfIs
  <2> QED BY Zenon, <2>1, <2>2
<1>6. MonthLength(y, m) \in 28..31
  BY <1>2, MonthLengthIs
<1>7. DaysOf(y, m, 1) + d - 1 = DaysOf(y, m, d)
  BY <1>2, <1>6, SMT DEF DaysOf
<1> QED BY <1>2, <1>4, <1>5, <1>7 DEF d

\* A month begins when all before it are over.
LEMMA MonthsApart ==
    ASSUME NEW m \in Int, NEW n \in Int, m < n
    PROVE  FirstOf(m) + DaysIn(m) <= FirstOf(n) /\ n - m <= FirstOf(n) - FirstOf(m)
<1> DEFINE Good == {k \in Int : FirstOf(m) + DaysIn(m) <= FirstOf(k) /\ k - m <= FirstOf(k) - FirstOf(m)}
<1>1. m + 1 \in Good
  BY MonthStep
<1>2. ASSUME NEW k \in Int, k >= m + 1, k \in Good PROVE k + 1 \in Good
  <2>1. FirstOf(k + 1) = FirstOf(k) + DaysIn(k) /\ FirstOf(k) \in Int /\ DaysIn(k) \in 28..31
    BY MonthStep
  <2>2. FirstOf(m) \in Int /\ DaysIn(m) \in 28..31
    BY MonthStep
  <2> QED BY <1>2, <2>1, <2>2
<1>3. \A k \in Int : k >= m + 1 => k \in Good
  <2>1. m + 1 \in Int
    OBVIOUS
  <2> HIDE DEF Good
  <2> QED BY <1>1, <1>2, <2>1, Upwards
<1> QED BY <1>3

\* A day is in one month only.
LEMMA OneMonth ==
    ASSUME NEW m \in Int, NEW n \in Int, NEW i \in 1..DaysIn(m), NEW j \in 1..DaysIn(n),
           FirstOf(m) + i = FirstOf(n) + j
    PROVE  m = n /\ i = j
<1>1. /\ FirstOf(m) \in Int /\ FirstOf(n) \in Int
      /\ DaysIn(m) \in 28..31 /\ DaysIn(n) \in 28..31
  BY MonthStep
<1>2. ~(m < n)
  <2> SUFFICES ASSUME m < n PROVE FALSE
    OBVIOUS
  <2>1. FirstOf(m) + DaysIn(m) <= FirstOf(n)
    BY MonthsApart
  <2> QED BY <1>1, <2>1
<1>3. ~(n < m)
  <2> SUFFICES ASSUME n < m PROVE FALSE
    OBVIOUS
  <2>1. FirstOf(n) + DaysIn(n) <= FirstOf(m)
    BY MonthsApart
  <2> QED BY <1>1, <2>1
<1>4. m = n
  BY <1>2, <1>3
<1> QED BY <1>1, <1>4

\* The day in another month, clamped to its last.
LEMMA ClampedDayIs ==
    ASSUME NEW date, date.day \in 1..31, NEW m0 \in Int
    PROVE  /\ Least(date.day, DaysIn(m0)) \in 1..DaysIn(m0)
           /\ ClampedDay(date, m0) = FirstOf(m0) + Least(date.day, DaysIn(m0)) - 1
           /\ ClampedDay(date, m0) \in Int
           /\ FirstOf(m0) <= ClampedDay(date, m0)
           /\ ClampedDay(date, m0) < FirstOf(m0) + DaysIn(m0)
<1> DEFINE y == m0 \div 12
           r == m0 % 12
           d == Least(date.day, DaysIn(m0))
<1>1. y \in Int /\ r \in 0..11
  BY Division
<1>2. FirstOf(m0) \in Int /\ DaysIn(m0) \in 28..31
  BY MonthStep
<1>3. d \in 1..DaysIn(m0)
  BY <1>2 DEF Least
<1>4. ClampedDay(date, m0) = DaysOf(y, r + 1, d)
  BY Zenon DEF ClampedDay, DaysIn
<1>5. FirstOf(m0) = DaysOf(y, r + 1, 1)
  BY Zenon DEF FirstOf
<1> HIDE DEF y, r, d
<1>6. DaysOf(y, r + 1, d) = DaysOf(y, r + 1, 1) + d - 1
  BY <1>1, <1>2, <1>3, SMT DEF DaysOf
<1>7. ClampedDay(date, m0) = FirstOf(m0) + d - 1
  BY <1>4, <1>5, <1>6
<1> QED BY <1>2, <1>3, <1>7 DEF d

\* The date of that day.
LEMMA DateOfClamped ==
    ASSUME NEW date, date.day \in 1..31, NEW m0 \in Int
    PROVE  /\ MonthNumber(DateOf(ClampedDay(date, m0))) = m0
           /\ DateOf(ClampedDay(date, m0)).day = Least(date.day, DaysIn(m0))
<1> DEFINE day == ClampedDay(date, m0)
           got == DateOf(day)
           n == MonthNumber(got)
           d == Least(date.day, DaysIn(m0))
<1>1. day \in Int /\ day = FirstOf(m0) + d - 1 /\ d \in 1..DaysIn(m0)
  BY ClampedDayIs
<1> HIDE DEF day
<1>2. n \in Int /\ got.day \in 1..DaysIn(n) /\ FirstOf(n) + got.day - 1 = day
  BY <1>1, DayInMonth
<1> HIDE DEF got, n, d
<1>3. FirstOf(m0) \in Int /\ FirstOf(n) \in Int /\ DaysIn(m0) \in 28..31 /\ DaysIn(n) \in 28..31
  BY <1>1, <1>2, MonthStep
<1>4. FirstOf(m0) + d = FirstOf(n) + got.day
  BY <1>1, <1>2, <1>3
<1>5. m0 = n /\ d = got.day
  BY <1>1, <1>2, <1>4, OneMonth
<1> QED BY <1>5 DEF day, got, n, d

-----------------------------------------------------------------------------
(* Anchors.                                                                *)

\* An instant is a day and a time of day.
LEMMA InstantIs ==
    ASSUME NEW t \in Int
    PROVE  t \div Day \in Int /\ t % Day \in Int /\ 0 <= t % Day /\ t % Day < Day
           /\ t = (t \div Day) * Day + (t % Day)
BY SMT DEF Day

\* A time of day does not reach another day.
LEMMA TimeOfDay ==
    ASSUME NEW d \in Int, NEW s \in Int, 0 <= s, s < Day
    PROVE  (d * Day + s) \div Day = d
BY SMT DEF Day

\* Where n months after t is, for every n, 0 included.
LEMMA AddMonthsIs ==
    ASSUME NEW t \in Int, NEW n \in Int, NEW date, date = DateOf(t \div Day)
    PROVE  /\ MonthNumber(date) \in Int /\ date.day \in 1..31
           /\ AddMonths(t, n) = ClampedDay(date, MonthNumber(date) + n) * Day + (t % Day)
           /\ AddMonths(t, n) \in Int
<1> DEFINE m0 == MonthNumber(date)
<1>1. m0 \in Int /\ date.day \in 1..DaysIn(m0) /\ FirstOf(m0) + date.day - 1 = t \div Day
  BY InstantIs, DayInMonth
<1>2. date.day \in 1..31
  <2> HIDE DEF m0
  <2>1. DaysIn(m0) \in 28..31
    BY <1>1, MonthStep
  <2> QED BY <1>1, <2>1
<1>3. ClampedDay(date, m0) = t \div Day
  <2>1. Least(date.day, DaysIn(m0)) = date.day
    <3> HIDE DEF m0
    <3> QED BY <1>1, MonthStep DEF Least
  <2> HIDE DEF m0
  <2> QED BY <1>1, <1>2, <2>1, ClampedDayIs
<1>4. MovedBy(date, n) = ClampedDay(date, m0 + n)
  BY DEF MovedBy, MonthNumber
<1> HIDE DEF m0
<1>5. AddMonths(t, n) = ClampedDay(date, m0 + n) * Day + (t % Day)
  <2>1. CASE n = 0
    <3>1. m0 + n = m0
      BY <1>1, <2>1
    <3>2. AddMonths(t, n) = t
      BY <2>1 DEF AddMonths
    <3> QED BY <1>3, <3>1, <3>2, InstantIs
  <2>2. CASE n # 0
    BY <1>4, <2>2 DEF AddMonths
  <2> QED BY <2>1, <2>2
<1>6. AddMonths(t, n) \in Int
  <2>1. m0 + n \in Int
    BY <1>1
  <2>2. ClampedDay(date, m0 + n) \in Int
    BY <1>2, <2>1, ClampedDayIs
  <2> QED BY <1>5, <2>2, InstantIs, SMT DEF Day
<1> QED BY <1>1, <1>2, <1>5, <1>6 DEF m0

\* More months later is later.
LEMMA MonthsLater ==
    ASSUME NEW t \in Int, NEW m \in Int, NEW n \in Int, m < n
    PROVE  AddMonths(t, m) < AddMonths(t, n)
<1> DEFINE date == DateOf(t \div Day)
           m0 == MonthNumber(date)
           a == ClampedDay(date, m0 + m)
           b == ClampedDay(date, m0 + n)
<1>1. /\ m0 \in Int /\ date.day \in 1..31
      /\ AddMonths(t, m) = a * Day + (t % Day)
      /\ AddMonths(t, n) = b * Day + (t % Day)
  BY AddMonthsIs
<1> HIDE DEF m0, date
<1>2. m0 + m \in Int /\ m0 + n \in Int /\ m0 + m < m0 + n
  BY <1>1
<1>3. /\ a \in Int /\ b \in Int
      /\ a < FirstOf(m0 + m) + DaysIn(m0 + m) /\ FirstOf(m0 + n) <= b
  BY <1>1, <1>2, ClampedDayIs
<1>4. FirstOf(m0 + m) + DaysIn(m0 + m) <= FirstOf(m0 + n)
  BY <1>2, MonthsApart
<1>5. FirstOf(m0 + m) \in Int /\ FirstOf(m0 + n) \in Int /\ DaysIn(m0 + m) \in 28..31
  BY <1>2, MonthStep
<1> HIDE DEF a, b
<1>6. a < b
  BY <1>3, <1>4, <1>5
<1> QED BY <1>1, <1>3, <1>6, InstantIs, SMT DEF Day

\* Anchors are instants.
LEMMA AnchorType ==
    ASSUME NEW p, IsPeriod(p), NEW start \in Int, NEW k \in Int
    PROVE  Anchor(p, start, k) \in Int
<1>1. p.months \in Nat /\ p.seconds \in Nat
  BY DEF IsPeriod
<1>2. k * p.months \in Int /\ k * p.seconds \in Int
  BY <1>1
<1>3. AddMonths(start, k * p.months) \in Int
  BY <1>2, AddMonthsIs
<1> QED BY <1>2, <1>3 DEF Anchor

\* Anchors rise.
LEMMA AnchorStep ==
    ASSUME NEW p, IsPeriod(p), NEW start \in Int, NEW k \in Int
    PROVE  Anchor(p, start, k) < Anchor(p, start, k + 1)
<1> DEFINE M == p.months
           S == p.seconds
           a == AddMonths(start, k * M)
           b == AddMonths(start, (k + 1) * M)
<1>1. M \in Nat /\ S \in Nat /\ (M > 0 \/ S > 0)
  BY DEF IsPeriod, IsPositive
<1>2. Anchor(p, start, k) = a + k * S /\ Anchor(p, start, k + 1) = b + (k + 1) * S
  BY DEF Anchor
<1> HIDE DEF M, S
<1>3. k * M \in Int /\ (k + 1) * M \in Int /\ (k + 1) * M = k * M + M
  BY <1>1
<1>4. k * S \in Int /\ (k + 1) * S = k * S + S
  BY <1>1
<1>5. a \in Int /\ b \in Int
  BY <1>3, AddMonthsIs
<1>6. M > 0 => a < b
  <2> SUFFICES ASSUME M > 0 PROVE a < b
    OBVIOUS
  <2>1. k * M < (k + 1) * M
    BY <1>1, <1>3
  <2> QED BY <1>3, <2>1, MonthsLater
<1>7. M = 0 => a = b
  BY <1>1, <1>3
<1> HIDE DEF a, b
<1> QED BY <1>1, <1>2, <1>4, <1>5, <1>6, <1>7

\* Anchors are at least a second apart.
LEMMA AnchorsApart ==
    ASSUME NEW p, IsPeriod(p), NEW start \in Int, NEW m \in Int, NEW n \in Int, m <= n
    PROVE  n - m <= Anchor(p, start, n) - Anchor(p, start, m)
<1> DEFINE Good == {k \in Int : k - m <= Anchor(p, start, k) - Anchor(p, start, m)}
<1>1. m \in Good
  BY AnchorType
<1>2. ASSUME NEW k \in Int, k >= m, k \in Good PROVE k + 1 \in Good
  <2>1. /\ Anchor(p, start, k) \in Int /\ Anchor(p, start, k + 1) \in Int
        /\ Anchor(p, start, m) \in Int
        /\ Anchor(p, start, k) < Anchor(p, start, k + 1)
    <3>1. k + 1 \in Int
      OBVIOUS
    <3> QED BY <3>1, AnchorType, AnchorStep
  <2> QED BY <1>2, <2>1
<1>3. \A k \in Int : k >= m => k \in Good
  <2> HIDE DEF Good
  <2> QED BY <1>1, <1>2, Upwards
<1> QED BY <1>3

\* Anchors are ordered as their indices.
LEMMA AnchorOrder ==
    ASSUME NEW p, IsPeriod(p), NEW start \in Int, NEW m \in Int, NEW n \in Int
    PROVE  /\ (Anchor(p, start, m) < Anchor(p, start, n)) = (m < n)
           /\ (Anchor(p, start, m) <= Anchor(p, start, n)) = (m <= n)
           /\ (Anchor(p, start, m) = Anchor(p, start, n)) = (m = n)
<1>1. Anchor(p, start, m) \in Int /\ Anchor(p, start, n) \in Int
  BY AnchorType
<1>2. m <= n => n - m <= Anchor(p, start, n) - Anchor(p, start, m)
  BY AnchorsApart
<1>3. n <= m => m - n <= Anchor(p, start, m) - Anchor(p, start, n)
  BY AnchorsApart
<1> QED BY <1>1, <1>2, <1>3

\* Some anchor is the last at or before t.
LEMMA FloorExists ==
    ASSUME NEW p, IsPeriod(p), NEW start \in Int, NEW t \in Int
    PROVE  \E m \in Int : Anchor(p, start, m) <= t /\ t < Anchor(p, start, m + 1)
<1> DEFINE a0 == Anchor(p, start, 0)
           low == IF t < a0 THEN t - a0 ELSE 0
           S == {n \in Nat : t < Anchor(p, start, low + n)}
<1>1. a0 \in Int /\ low \in Int /\ low <= 0 /\ low <= t - a0
  BY AnchorType
<1>2. Anchor(p, start, low) <= t /\ Anchor(p, start, low) \in Int
  <2> HIDE DEF low
  <2>1. 0 - low <= Anchor(p, start, 0) - Anchor(p, start, low)
    BY <1>1, AnchorsApart
  <2>2. Anchor(p, start, low) \in Int
    BY <1>1, AnchorType
  <2> QED BY <1>1, <2>1, <2>2
<1>3. S # {}
  <2> DEFINE n == IF t < a0 THEN 1 - low ELSE t - a0 + 1 - low
  <2>1. n \in Nat /\ low + n \in Int /\ 0 <= low + n /\ t - a0 < low + n
    BY <1>1
  <2> HIDE DEF n, low
  <2>2. (low + n) - 0 <= Anchor(p, start, low + n) - Anchor(p, start, 0)
    BY <2>1, AnchorsApart
  <2>3. Anchor(p, start, low + n) \in Int
    BY <2>1, AnchorType
  <2>4. t < Anchor(p, start, low + n)
    BY <1>1, <2>1, <2>2, <2>3
  <2> QED BY <2>1, <2>4
<1> HIDE DEF low, a0
<1>4. PICK n \in S : \A i \in S : n <= i
  <2>1. S \in SUBSET Nat
    OBVIOUS
  <2> HIDE DEF S
  <2> QED BY <1>3, <2>1, LeastNatural
<1>5. n \in Nat /\ t < Anchor(p, start, low + n)
  OBVIOUS
<1>6. n # 0
  <2> SUFFICES ASSUME n = 0 PROVE FALSE
    OBVIOUS
  <2>1. low + n = low
    BY <1>1
  <2> QED BY <1>2, <1>5, <2>1
<1>7. n - 1 \in Nat /\ ~(n <= n - 1)
  BY <1>5, <1>6
<1>8. n - 1 \notin S
  <2> HIDE DEF S
  <2> QED BY <1>4, <1>7
<1>9. ~(t < Anchor(p, start, low + (n - 1)))
  BY <1>7, <1>8
<1> DEFINE m == low + (n - 1)
<1>10. m \in Int /\ m + 1 = low + n
  BY <1>1, <1>5
<1>11. Anchor(p, start, m) <= t
  <2>1. ~(t < Anchor(p, start, m))
    BY <1>9
  <2> HIDE DEF m
  <2>2. Anchor(p, start, m) \in Int
    BY <1>10, AnchorType
  <2> QED BY <2>1, <2>2
<1>12. t < Anchor(p, start, m + 1)
  BY <1>5, <1>10
<1> HIDE DEF m
<1> QED BY <1>10, <1>11, <1>12

\* floor_index finds it, whatever the guess by the mean month was.
THEOREM FloorIndexExact ==
    ASSUME NEW p, IsPeriod(p), NEW start \in Int, NEW t \in Int
    PROVE  /\ FloorIndex(p, start, t) \in Int
           /\ Anchor(p, start, FloorIndex(p, start, t)) <= t
           /\ t < Anchor(p, start, FloorIndex(p, start, t) + 1)
<1>1. PICK m \in Int : Anchor(p, start, m) <= t /\ t < Anchor(p, start, m + 1)
  BY FloorExists
<1>2. IsFloor(p, start, t, m)
  <2>1. ASSUME NEW k \in Int PROVE (k <= m) = (Anchor(p, start, k) <= t)
    <3>1. /\ Anchor(p, start, k) \in Int /\ Anchor(p, start, m) \in Int /\ Anchor(p, start, m + 1) \in Int
          /\ (Anchor(p, start, k) <= Anchor(p, start, m)) = (k <= m)
          /\ (Anchor(p, start, m + 1) <= Anchor(p, start, k)) = (m + 1 <= k)
      <4>1. m + 1 \in Int
        OBVIOUS
      <4> QED BY <4>1, AnchorType, AnchorOrder
    <3> QED BY <1>1, <3>1
  <2> QED BY <2>1 DEF IsFloor
<1>3. (t - start) \div (p.months * MeanMonth + p.seconds) \in Int
  <2>1. p.months \in Nat /\ p.seconds \in Nat /\ (p.months > 0 \/ p.seconds > 0)
    BY DEF IsPeriod, IsPositive
  <2>2. p.months * MeanMonth + p.seconds \in Int /\ p.months * MeanMonth + p.seconds > 0
    BY <2>1, SMT DEF MeanMonth
  <2> QED BY <2>2, SMT
<1>4. FloorIndex(p, start, t) = m
  BY <1>2, <1>3, AnchorType, FloorIndexIs
<1> QED BY <1>1, <1>4

\* No other index is the floor.
LEMMA FloorIndexUnique ==
    ASSUME NEW p, IsPeriod(p), NEW start \in Int, NEW t \in Int, NEW m \in Int,
           Anchor(p, start, m) <= t, t < Anchor(p, start, m + 1)
    PROVE  FloorIndex(p, start, t) = m
<1> DEFINE k == FloorIndex(p, start, t)
<1>1. k \in Int /\ Anchor(p, start, k) <= t /\ t < Anchor(p, start, k + 1)
  BY FloorIndexExact
<1> HIDE DEF k
<1>2. k + 1 \in Int /\ m + 1 \in Int
  BY <1>1
<1>3. /\ Anchor(p, start, k) \in Int /\ Anchor(p, start, m) \in Int
      /\ Anchor(p, start, k + 1) \in Int /\ Anchor(p, start, m + 1) \in Int
  BY <1>1, <1>2, AnchorType
<1>4. Anchor(p, start, k) < Anchor(p, start, m + 1) /\ Anchor(p, start, m) < Anchor(p, start, k + 1)
  BY <1>1, <1>3
<1>5. k < m + 1 /\ m < k + 1
  BY <1>1, <1>2, <1>4, AnchorOrder
<1>6. k = m
  BY <1>1, <1>5
<1> QED BY <1>6 DEF k

\* The index of an anchor is its own.
LEMMA FloorIndexOfAnchor ==
    ASSUME NEW p, IsPeriod(p), NEW start \in Int, NEW k \in Int
    PROVE  /\ FloorIndex(p, start, Anchor(p, start, k)) = k
           /\ CeilIndex(p, start, Anchor(p, start, k)) = k
           /\ Floor(p, start, Anchor(p, start, k)) = Anchor(p, start, k)
<1>1. Anchor(p, start, k) \in Int /\ Anchor(p, start, k) < Anchor(p, start, k + 1)
  BY AnchorType, AnchorStep
<1>2. FloorIndex(p, start, Anchor(p, start, k)) = k
  BY <1>1, FloorIndexUnique
<1>3. CeilIndex(p, start, Anchor(p, start, k)) = k
  BY <1>2 DEF CeilIndex, CeilFrom
<1> QED BY <1>2, <1>3 DEF Floor

\* ceil_index finds the first anchor at or after t.
LEMMA CeilIndexExact ==
    ASSUME NEW p, IsPeriod(p), NEW start \in Int, NEW t \in Int
    PROVE  /\ CeilIndex(p, start, t) \in Int
           /\ t <= Anchor(p, start, CeilIndex(p, start, t))
           /\ Anchor(p, start, CeilIndex(p, start, t) - 1) < t
<1> DEFINE k == FloorIndex(p, start, t)
<1>1. k \in Int /\ Anchor(p, start, k) <= t /\ t < Anchor(p, start, k + 1)
  BY FloorIndexExact
<1>2. CeilIndex(p, start, t) = IF Anchor(p, start, k) = t THEN k ELSE k + 1
  BY DEF CeilIndex, CeilFrom
<1> HIDE DEF k
<1>3. k + 1 \in Int /\ k - 1 \in Int /\ (k + 1) - 1 = k /\ (k - 1) + 1 = k
  BY <1>1
<1>4. /\ Anchor(p, start, k) \in Int /\ Anchor(p, start, k + 1) \in Int
      /\ Anchor(p, start, k - 1) \in Int
      /\ Anchor(p, start, k - 1) < Anchor(p, start, k)
  BY <1>1, <1>3, AnchorType, AnchorOrder
<1>5. CASE Anchor(p, start, k) = t
  BY <1>1, <1>2, <1>4, <1>5
<1>6. CASE Anchor(p, start, k) # t
  BY <1>1, <1>2, <1>3, <1>4, <1>6
<1> QED BY <1>5, <1>6

\* A period of whole months moves the month and keeps the day, or clamps it.
LEMMA AnchorOfMonths ==
    ASSUME NEW p, IsPeriod(p), NEW start \in Int, NEW k \in Int, p.seconds = 0
    PROVE  /\ MonthOf(Anchor(p, start, k)) = MonthOf(start) + k * p.months
           /\ \/ DayOfMonth(Anchor(p, start, k)) = DayOfMonth(start)
              \/ /\ DayOfMonth(Anchor(p, start, k)) < DayOfMonth(start)
                 /\ MonthOf(Anchor(p, start, k) + Day) = MonthOf(Anchor(p, start, k)) + 1
<1> DEFINE at == Anchor(p, start, k)
           date == DateOf(start \div Day)
           m0 == MonthNumber(date)
           n == k * p.months
           m == m0 + n
           d == ClampedDay(date, m)
<1>1. p.months \in Nat /\ n \in Int /\ k * p.seconds = 0
  BY DEF IsPeriod
<1>2. at = AddMonths(start, n)
  <2>1. AddMonths(start, n) \in Int
    <3> HIDE DEF n
    <3> QED BY <1>1, AddMonthsIs
  <2> HIDE DEF n
  <2> QED BY <1>1, <2>1 DEF Anchor, n
<1> HIDE DEF n, at
<1>3. /\ m0 \in Int /\ date.day \in 1..31
      /\ AddMonths(start, n) = d * Day + (start % Day)
  BY <1>1, AddMonthsIs
<1>4. MonthOf(start) = m0 /\ DayOfMonth(start) = date.day
  BY DEF MonthOf, DayOfMonth, MonthNumber
<1> HIDE DEF date, m0
<1>5. m \in Int /\ m + 1 \in Int
  BY <1>1, <1>3
<1> HIDE DEF m
<1>6. /\ d \in Int /\ d = FirstOf(m) + Least(date.day, DaysIn(m)) - 1
      /\ Least(date.day, DaysIn(m)) \in 1..DaysIn(m)
      /\ MonthNumber(DateOf(d)) = m /\ DateOf(d).day = Least(date.day, DaysIn(m))
  BY <1>3, <1>5, ClampedDayIs, DateOfClamped
<1> HIDE DEF d
<1>7. start % Day \in Int /\ 0 <= start % Day /\ start % Day < Day
  BY InstantIs
<1>8. at \div Day = d /\ (at + Day) \div Day = d + 1
  <2>1. (d * Day + (start % Day)) \div Day = d
    BY <1>6, <1>7, TimeOfDay
  <2>2. ((d + 1) * Day + (start % Day)) \div Day = d + 1
    <3>1. d + 1 \in Int
      BY <1>6
    <3> QED BY <1>7, <3>1, TimeOfDay
  <2>3. at + Day = (d + 1) * Day + (start % Day)
    BY <1>2, <1>3, <1>6, <1>7, SMT DEF Day
  <2> QED BY <1>2, <1>3, <2>1, <2>2, <2>3
<1>9. MonthOf(at) = m /\ DayOfMonth(at) = Least(date.day, DaysIn(m))
  BY <1>6, <1>8 DEF MonthOf, DayOfMonth, MonthNumber
<1>10. CASE Least(date.day, DaysIn(m)) = date.day
  BY <1>4, <1>9, <1>10 DEF m, n, at
<1>11. CASE Least(date.day, DaysIn(m)) # date.day
  <2>1. Least(date.day, DaysIn(m)) = DaysIn(m) /\ DaysIn(m) < date.day /\ DaysIn(m) \in 28..31
    <3>1. DaysIn(m) \in 28..31
      BY <1>5, MonthStep
    <3> QED BY <1>3, <1>11, <3>1 DEF Least
  <2>2. FirstOf(m + 1) = d + 1 /\ FirstOf(m + 1) \in Int
    BY <1>5, <1>6, <2>1, MonthStep
  <2> DEFINE one == [day |-> 1]
  <2>3. one.day \in 1..31 /\ Least(one.day, DaysIn(m + 1)) = 1
    <3>1. DaysIn(m + 1) \in 28..31
      BY <1>5, MonthStep
    <3> QED BY <3>1 DEF Least
  <2> HIDE DEF one
  <2>4. ClampedDay(one, m + 1) = FirstOf(m + 1)
    BY <1>5, <2>2, <2>3, ClampedDayIs
  <2>5. MonthNumber(DateOf(d + 1)) = m + 1
    BY <1>5, <2>2, <2>3, <2>4, DateOfClamped
  <2>6. MonthOf(at + Day) = m + 1
    BY <1>8, <2>5 DEF MonthOf, MonthNumber
  <2> QED BY <1>4, <1>9, <2>1, <2>6 DEF m, n, at
<1> QED BY <1>10, <1>11

\* Every instant lies in exactly the interval the code finds it in, and every
\* anchor is where its period says (calendar.rs floor_index, anchor).
THEOREM CadencesAreExact ==
    ASSUME NEW p, IsPeriod(p), NEW start \in Int
    PROVE  /\ \A t \in Int : IndicesAreExact(p, start, t)
           /\ \A k \in Int : AnchorIsExact(p, start, k)
<1>1. ASSUME NEW t \in Int PROVE IndicesAreExact(p, start, t)
  BY FloorIndexExact, CeilIndexExact DEF IndicesAreExact
<1>2. ASSUME NEW k \in Int PROVE AnchorIsExact(p, start, k)
  <2>1. Anchor(p, start, k) < Anchor(p, start, k + 1)
    BY AnchorStep
  <2>2. CASE p.seconds = 0
    BY Zenon, <2>1, <2>2, AnchorOfMonths DEF AnchorIsExact
  <2>3. CASE p.seconds # 0
    BY Zenon, <2>1, <2>3 DEF AnchorIsExact
  <2> QED BY <2>2, <2>3
<1> QED BY <1>1, <1>2

=============================================================================
