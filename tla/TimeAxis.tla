------------------------------ MODULE TimeAxis ------------------------------
(***************************************************************************)
(* The decode of a CF time axis (rust/src/time_axis.rs): one reading of the *)
(* reference and the values as pandas makes it, another as cftime does.     *)
(* The clock is scaled by constants so that nanoseconds leave 64 bits here  *)
(* where they do in the code; dates are not scaled.                        *)
(***************************************************************************)
EXTENDS Calendar, Outcomes

CONSTANTS NanosPerMicro, MicrosPerSecond, SecondsPerMinute, MinutesPerHour,
          HoursPerDay,
          I64Max,     \* the largest count of nanoseconds in 64 bits
          FloatMax    \* 9.2e18: what a float may count of them

Nanos ==
  LET second == NanosPerMicro * MicrosPerSecond
      hour == second * SecondsPerMinute * MinutesPerHour
  IN  [nanoseconds |-> 1, microseconds |-> NanosPerMicro, seconds |-> second,
       minutes |-> second * SecondsPerMinute, hours |-> hour,
       days |-> hour * HoursPerDay]

(* pandas knows the plurals, a missing `s` added first; cftime knows the    *)
(* short spellings too, and no nanosecond.                                  *)
Plural(unit) ==
  CASE unit = "hour" -> "hours" [] unit = "day" -> "days"
    [] unit = "second" -> "seconds" [] OTHER -> unit
PandasUnit(unit) == IF Plural(unit) \in DOMAIN Nanos THEN Nanos[Plural(unit)] ELSE None
CftimeUnit(unit) ==
  LET long == CASE unit \in {"hr", "h"} -> "hours" [] unit = "d" -> "days"
                [] OTHER -> Plural(unit)
  IN  IF long \in DOMAIN Nanos \ {"nanoseconds"} THEN Nanos[long] ELSE None

(* --- dates ------------------------------------------------------------- *)
GregorianDays(y, m, d) ==
  IF m \in 1..12 /\ d >= 1 /\ d <= MonthLength(y, m) THEN DaysOf(y, m, d) ELSE None

JulianDays(y, m, d) ==
  LET len == IF m = 2 THEN IF y % 4 = 0 THEN 29 ELSE 28 ELSE MonthLength(y, m)
      a == (14 - m) \div 12
      yy == y + 4800 - a
      mm == m + 12 * a - 3
  IN  IF y < 1 \/ m \notin 1..12 \/ d \notin 1..len THEN None
      ELSE d + (153 * mm + 2) \div 5 + 365 * yy + yy \div 4 - 32083 - 2440588

YearOk(ns) == DateOf(ns \div Nanos.days).year \in 1678..2261

(* --- references -------------------------------------------------------- *)
(* What the parser reads: the date and the digits of its year, the time of   *)
(* day as <<hour, minute, second, nanos>>, the offset in seconds and how     *)
(* each part was spelled.                                                   *)
Parse(ref) ==
  IF \/ ref.digits < 4 /\ ref.fourDigitsLater
     \/ ref.clock = "hour" /\ ref.hourDigits # 2
     \/ ref.time[1] >= HoursPerDay \/ ref.time[2] >= MinutesPerHour
     \/ ref.time[3] >= SecondsPerMinute
  THEN None ELSE ref

InstantOf(days, time, offset) ==
  days * Nanos.days + time[1] * Nanos.hours + time[2] * Nanos.minutes
    + (time[3] - offset) * Nanos.seconds + time[4]

PandasNs(ref) ==
  LET days == GregorianDays(ref.date[1], ref.date[2], ref.date[3])
  IN  IF ref.digits # 4 \/ days = None THEN None
      ELSE InstantOf(days, ref.time, ref.offset)

(* Before the reform a date is Julian; a time counts only with minutes and   *)
(* right after the date, a zone only right after that.                      *)
CftimeNs(ref, proleptic) ==
  LET y == ref.date[1]  m == ref.date[2]  d == ref.date[3]
      order == (y * 12 + m) * 31 + d
      days == CASE proleptic \/ order >= (1582*12 + 10)*31 + 15 -> GregorianDays(y, m, d)
                [] ~proleptic /\ order \in (1582*12 + 10)*31 + 5..(1582*12 + 10)*31 + 14 -> None
                [] OTHER -> JulianDays(y, m, d)
      clock == ref.clock = "minutes" /\ ref.clockGap = 1
      zone == ref.zone = "signed" /\ ref.zoneGap <= 1 /\ (clock \/ ref.clock = "none")
      time == [ref.time EXCEPT ![4] = @ - (@ % NanosPerMicro)]
  IN  IF days = None THEN None
      ELSE InstantOf(days, IF clock THEN time ELSE <<0, 0, 0, 0>>, IF zone THEN ref.offset ELSE 0)

(* --- values ------------------------------------------------------------ *)
(* An integer, or a float counted in eighths; `finite` is FALSE of a NaN.   *)
Eighths(v) == IF v.float THEN v.n ELSE 8 * v.n
Magnitude(n) == IF n < 0 THEN -n ELSE n
Truncated(n) == IF n < 0 THEN -((-n) \div 8) ELSE n \div 8
Rounded(n) == IF n < 0 THEN -((-n + 4) \div 8) ELSE (n + 4) \div 8
InI64(ns) == Magnitude(ns) <= I64Max
FloorSecond(ns) == ns \div Nanos.seconds

\* (mutant) the values that do not fit are left out
PandasPrefix(ref, unit, values) ==
  LET Ns(v) == Truncated(Eighths(v) * unit)
      Fits(v) == InI64(Ns(v)) /\ InI64(ref + Ns(v))
      fitting == SelectSeq(values, Fits)
  IN  IF ref = None \/ unit = None THEN None
      ELSE IF ~InI64(ref) THEN None
      ELSE [i \in DOMAIN fitting |-> FloorSecond(ref + Ns(fitting[i]))]
(* Truncated to the nanosecond, while the reference, every value and every   *)
(* sum fit.                                                                 *)
PandasReading(ref, unit, values) ==
  LET Ns(v) == Truncated(Eighths(v) * unit)
      Fits(v) == /\ v.float => Magnitude(Eighths(v) * unit) < 8 * FloatMax
                 /\ InI64(Ns(v)) /\ InI64(ref + Ns(v))
  IN  IF ref = None \/ unit = None THEN None
      ELSE IF ~InI64(ref) \/ \E i \in DOMAIN values : ~Fits(values[i]) THEN None
      ELSE [i \in DOMAIN values |-> FloorSecond(ref + Ns(values[i]))]

(* Each value rounded to the microsecond, within the years 1678 to 2261.    *)
CftimeReading(ref, unit, values) ==
  LET Ns(v) == Rounded(Eighths(v) * (unit \div NanosPerMicro)) * NanosPerMicro
  IN  IF ref = None \/ unit = None THEN None
      ELSE IF \E i \in DOMAIN values : ~YearOk(ref + Ns(values[i])) THEN None
      ELSE [i \in DOMAIN values |-> FloorSecond(ref + Ns(values[i]))]

(* `units` is the unit and the reference either side of its last " since ". *)
DecodeTimeAxis(values, units, calendar, fill) ==
  LET ref == Parse(units.reference)
      first == PandasReading(PandasNs(ref), PandasUnit(units.unit), values)
  IN  IF \/ units.reference = None
         \/ calendar \notin {"absent", "standard", "gregorian", "proleptic_gregorian"}
         \/ \E i \in DOMAIN values :
               ~values[i].finite \/ Eighths(values[i]) = fill
      THEN None
      ELSE IF ref = None THEN None
      ELSE IF first # None THEN first
      ELSE CftimeReading(CftimeNs(ref, calendar = "proleptic_gregorian"),
                         CftimeUnit(units.unit), values)
=============================================================================
