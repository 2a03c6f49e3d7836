------------------------------ MODULE Calendar ------------------------------
(***************************************************************************)
(* Calendar cadences (rust/src/calendar.rs): a period is whole months and  *)
(* whole seconds, and anchor k of a cadence is counted from its start on   *)
(* the proleptic Gregorian calendar.  An instant is Unix seconds, UTC; the *)
(* date arithmetic of the time crate is written out and marked external.   *)
(***************************************************************************)
EXTENDS Integers, Sequences, SequencesExt

CONSTANT WordMax   \* the largest 64-bit integer; smaller here, to meet it

Day == 86400
MeanMonth == 2629746

Least(a, b) == IF a < b THEN a ELSE b

(* --- the time crate: days since 1970-01-01 and dates ------------------- *)
IsLeap(y) == y % 4 = 0 /\ (y % 100 # 0 \/ y % 400 = 0)
MonthLength(y, m) ==
  CASE m = 2 -> IF IsLeap(y) THEN 29 ELSE 28
    [] m \in {4, 6, 9, 11} -> 30
    [] OTHER -> 31
DaysOf(y, m, d) ==
  LET yy == IF m > 2 THEN y ELSE y - 1
      mm == (m + 9) % 12
  IN  365*yy + yy \div 4 - yy \div 100 + yy \div 400
        + (153*mm + 2) \div 5 + d - 1 - 719468
(* Of the day of an era of 400 years, its year; and the date of a day of a  *)
(* year that begins in March.                                               *)
YearOfEra(doe) ==
  (doe - doe \div 1460 + doe \div 36524 - doe \div 146096) \div 365
CivilDate(year, doy) ==
  LET mp == (5*doy + 2) \div 153
      m == IF mp < 10 THEN mp + 3 ELSE mp - 9
  IN  [year |-> IF m <= 2 THEN year + 1 ELSE year,
       month |-> m, day |-> doy - (153*mp + 2) \div 5 + 1]
DateInEra(era, doe, yoe) ==
  CivilDate(yoe + 400*era, doe - (365*yoe + yoe \div 4 - yoe \div 100))
DateOf(day) ==
  LET z == day + 719468
  IN  DateInEra(z \div 146097, z % 146097, YearOfEra(z % 146097))

(* --- periods ----------------------------------------------------------- *)
IsPositive(p) ==
  p.months >= 0 /\ p.seconds >= 0 /\ (p.months > 0 \/ p.seconds > 0)

(* A period a provider may be given (Provider::new, parse).                 *)
IsPeriod(p) == p.months \in Nat /\ p.seconds \in Nat /\ IsPositive(p)

(* A period as the parser sees it: <<number, designator>> pairs of its date *)
(* and of its time part, the number NoNumber when it is not digits.         *)
NoNumber == -1
BadPeriod == [months |-> 0, seconds |-> 0]
Components(tokens, order) ==
  FoldLeft(LAMBDA acc, tok :
             LET later == {p \in DOMAIN order :
                             p >= acc.next /\ order[p] = tok[2]}
             IN  IF \/ ~acc.ok \/ tok[1] = NoNumber \/ later = {}
                    \/ tok[1] > WordMax
                 THEN [acc EXCEPT !.ok = FALSE]
                 ELSE LET p == CHOOSE q \in later : TRUE
                      IN  [ok |-> TRUE, next |-> p + 1,
                           values |-> [acc.values EXCEPT ![p] = tok[1]]],
           [ok |-> TRUE, next |-> 1, values |-> [p \in DOMAIN order |-> 0]],
           tokens)

ParsePeriod(date, hasTime, time) ==
  LET ymwd == Components(date, <<"Y", "M", "W", "D">>)
      hms  == Components(time, <<"H", "M", "S">>)
      months  == 12 * ymwd.values[1] + ymwd.values[2]
      seconds == 604800 * ymwd.values[3] + Day * ymwd.values[4]
                   + 3600 * hms.values[1] + 60 * hms.values[2] + hms.values[3]
  IN  IF \/ hasTime /\ time = << >>
         \/ ~hasTime /\ date = << >>
         \/ ~ymwd.ok \/ ~hms.ok
         \/ months > WordMax \/ seconds > WordMax
         \/ ~IsPositive([months |-> months, seconds |-> seconds])
      THEN BadPeriod
      ELSE [months |-> months, seconds |-> seconds]

(* --- anchors ----------------------------------------------------------- *)
(* The date's day in the month m0, counted from year 0 and clamped to its   *)
(* last.                                                                    *)
ClampedDay(date, m0) ==
  LET y == m0 \div 12
      m == (m0 % 12) + 1
  IN  DaysOf(y, m, Least(date.day, MonthLength(y, m)))
MovedBy(date, n) == ClampedDay(date, date.year * 12 + date.month - 1 + n)
AddMonths(t, n) ==
  IF n = 0 THEN t ELSE MovedBy(DateOf(t \div Day), n) * Day + (t % Day)

Anchor(p, start, k) == AddMonths(start, k * p.months) + k * p.seconds

\* (mutant) the guess is only ever lowered
FloorIndexLow(p, start, t) ==
  LET guess == (t - start) \div (p.months * MeanMonth + p.seconds)
      down[k \in Int] == IF Anchor(p, start, k) > t THEN down[k-1] ELSE k
  IN  down[guess]
(* A guess by the mean month, then a walk down and a walk up.               *)
FloorIndex(p, start, t) ==
  LET guess == (t - start) \div (p.months * MeanMonth + p.seconds)
      down[k \in Int] == IF Anchor(p, start, k) > t THEN down[k-1] ELSE k
      up[k \in Int] == IF Anchor(p, start, k+1) <= t THEN up[k+1] ELSE k
  IN  up[down[guess]]

CeilFrom(p, start, t, k) == IF Anchor(p, start, k) = t THEN k ELSE k + 1
CeilIndex(p, start, t) == CeilFrom(p, start, t, FloorIndex(p, start, t))

Floor(p, start, t) == Anchor(p, start, FloorIndex(p, start, t))

(* --- what the anchors promise ------------------------------------------ *)
(* A month is counted through the years.                                    *)
MonthOf(t) == LET date == DateOf(t \div Day) IN date.year * 12 + date.month - 1
DayOfMonth(t) == DateOf(t \div Day).day

(* The indices are those of the anchors around t, both t when it is one.    *)
IndicesAreExact(p, start, t) ==
  LET k == FloorIndex(p, start, t)
      c == CeilIndex(p, start, t)
  IN  /\ Anchor(p, start, k) <= t /\ t < Anchor(p, start, k + 1)
      /\ Anchor(p, start, c - 1) < t /\ t <= Anchor(p, start, c)

(* Anchors rise; that of k months is in the k-th month, on the start's day  *)
(* or, when the month is too short, on its last.                            *)
AnchorIsExact(p, start, k) ==
  LET at == Anchor(p, start, k)
  IN  /\ at < Anchor(p, start, k + 1)
      /\ p.seconds = 0 =>
           /\ MonthOf(at) = MonthOf(start) + k * p.months
           /\ \/ DayOfMonth(at) = DayOfMonth(start)
              \/ /\ DayOfMonth(at) < DayOfMonth(start)
                 /\ MonthOf(at + Day) = MonthOf(at) + 1

=============================================================================
