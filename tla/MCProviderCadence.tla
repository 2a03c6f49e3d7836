------------------------- MODULE MCProviderCadence -------------------------
EXTENDS ProviderCadence

Hour == 3600
At(y, m, d, h) == DaysOf(y, m, d) * Day + h * Hour
Months(n) == [months |-> n, seconds |-> 0]
Secs(n) == [months |-> 0, seconds |-> n]

Loader(start, end, freq, period, bracket, layout) ==
  [start |-> start, end |-> end, freq |-> freq, period |-> period,
   bracket |-> bracket, layout |-> layout]

(* Three records a file, to a known end; the same without an axis; monthly  *)
(* records from the 31st, whose anchors clamp; records of ten days in files *)
(* of a month, which they do not divide.                                    *)
Hourly(bracket, layout) ==
  Loader(At(2016,1,1,0), At(2016,1,1,8), Secs(Hour), Secs(3*Hour), bracket, layout)
Monthly(layout) ==
  Loader(At(2015,12,31,6), None, Months(1), Months(3), TRUE, layout)
Decades ==
  Loader(At(2016,1,1,0), At(2016,4,1,0), Secs(10*Day), Months(1), TRUE, "whole")

AllSources ==
  {Hourly(FALSE, l) : l \in {"whole", "bare", "gap", "backwards"}}
    \cup {Hourly(TRUE, "trimmed"), Hourly(TRUE, "cut"),
          Monthly("whole"), Decades}

Instants(s) ==
  IF s.freq = Secs(Hour)
  THEN {s.start + h * 1800 : h \in {-1, 0, 3, 5, 15}}
  ELSE IF s.freq = Months(1)
  THEN {At(2015,12,31,5), At(2016,2,29,6), At(2016,3,31,5), At(2016,3,31,6),
        At(2016,6,30,6)}
  ELSE {At(2016,1,15,0), At(2016,1,31,0), At(2016,2,3,0), At(2016,2,29,12),
        At(2016,3,31,0)}

(* One beside the buffer of an hourly loader: a bracket over a seam.        *)
Seams(s) == IF s.freq = Secs(Hour) THEN {s.start + 2*Hour} ELSE {}

Windows(s) ==
  IF s.freq = Secs(Hour)
  THEN {<<s.start + 1800, s.start + 6*Hour>>}
  ELSE {<<At(2016,2,3,0), At(2016,4,30,7)>>}
=============================================================================
