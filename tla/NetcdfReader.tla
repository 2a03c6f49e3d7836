---------------------------- MODULE NetcdfReader ----------------------------
(***************************************************************************)
(* What the netcdf reader decodes under a selection                        *)
(* (rust/src/format/netcdf.rs).  A file is the lengths of its dimensions   *)
(* and its variables in order; a cell is a number, and a character is the   *)
(* number of its byte.  A fill cell reads as NaN in a float field.         *)
(***************************************************************************)
EXTENDS Selection, FiniteSetsExt

CONSTANTS NoFill,   \* a variable without the attribute
          NaN,      \* the float a masked cell becomes
          Nul       \* the byte that pads a text

(* --- external: the netcdf-reader crate --------------------------------- *)
(* The cells start, start+step, ... of each axis, `count` of them.          *)
ReadSlab(data, shape, slab) ==
  Gather(data, shape,
         [axis \in DOMAIN slab |->
            [i \in 1..slab[axis].count |->
               slab[axis].start + (i - 1) * slab[axis].step]])
StripNul(text) ==
  LET kept == {i \in DOMAIN text : text[i] # Nul}
  IN  SubSeq(text, 1, IF kept = {} THEN 0 ELSE Max(kept))
Masked(var, cells) ==
  [i \in DOMAIN cells |->
     IF cells[i] \in {var.fill, var.missing} THEN NaN ELSE cells[i]]
(* Texts of the last dimension's length, their padding stripped.            *)
ReadAsStrings(var, len) ==
  IF var.type = "string" THEN var.data
  ELSE [g \in 1..(Len(var.data) \div len) |->
          StripNul(SubSeq(var.data, (g - 1) * len + 1, g * len))]

(* --- which fields a file decodes to ------------------------------------ *)
Classify(var) ==
  CASE var.type \in {"char", "string"} -> "text"
    [] var.packed \/ (var.fill # NoFill /\ var.missing # NoFill
                        /\ var.fill # var.missing) -> "float"
    [] var.type = "opaque" -> "none"
    [] OTHER -> var.type

IsCoordinate(var) == var.dims = <<var.name>>
Names(file) == {file.vars[i].name : i \in DOMAIN file.vars}

StacksLastDimension(file, var) ==
  /\ var.dims # << >>
  /\ Last(var.dims) \notin Names(file)
  /\ \A i \in DOMAIN file.vars :
        LET v == file.vars[i]
        IN  Last(var.dims) \in ToSet(v.dims) =>
              v.type = "char" /\ Last(v.dims) = Last(var.dims)

ConsumesLast(file, var) == var.type = "char" /\ StacksLastDimension(file, var)

FieldDims(file, var) ==
  IF ConsumesLast(file, var) THEN Front(var.dims) ELSE var.dims

ShapeOf(file, dims) == [axis \in DOMAIN dims |-> file.lens[dims[axis]]]

IsTimeDim(file, dim) ==
  \/ dim = "time"
  \/ \E i \in DOMAIN file.vars : file.vars[i].name = dim /\ file.vars[i].since

(* --- a select and a record pushdown, as indices by dimension ----------- *)
Fields(file) ==
  {file.vars[i] : i \in {j \in DOMAIN file.vars : Classify(file.vars[j]) # "none"}}

(* The selectors a file's dimensions get, resolved.                         *)
Resolved(file, asked) ==
  LET narrowed == {pair \in asked : pair[2] # All}
      Of(d) == CHOOSE axis \in {pair[2] : pair \in narrowed} : <<d, axis>> \in narrowed
      sel == [d \in {pair[1] : pair \in narrowed} |-> ResolveIn(Of(d), file.lens[d])]
  IN  IF \/ \E d \in DOMAIN sel : IsTimeDim(file, d)
         \/ Refused \in {sel[d] : d \in DOMAIN sel}
      THEN Refused ELSE sel

NamedDimSelection(file, axes, variables) ==
  LET carried == UNION {ToSet(FieldDims(file, v)) :
                          v \in {f \in Fields(file) :
                                   \/ IsCoordinate(f) \/ variables = {}
                                   \/ f.name \in variables}}
  IN  IF ~(DOMAIN axes \subseteq carried) THEN Refused
      ELSE Resolved(file, {<<d, axes[d]>> : d \in DOMAIN axes})

DimSelection(file, select, variables) ==
  LET ranked == {v \in Fields(file) : Len(FieldDims(file, v)) = Len(select.axes)}
      asked == {<<FieldDims(file, v)[i], select.axes[i]>> :
                  v \in ranked, i \in DOMAIN select.axes}
  IN  CASE select.kind = "everything" -> << >>
        [] select.kind = "named" -> NamedDimSelection(file, select.axes, variables)
        [] OTHER -> IF \/ ranked = {}
                       \/ \E p, q \in asked : p[1] = q[1] /\ p[2] # q[2]
                    THEN Refused ELSE Resolved(file, asked)

MergeRecords(file, sel, records) ==
  IF records = None THEN sel
  ELSE IF \/ sel = Refused
          \/ records.dim \notin DOMAIN file.lens
          \/ records.indices = << >>
          \/ \E i \in DOMAIN records.indices :
                records.indices[i] >= file.lens[records.dim]
          \/ records.dim \in DOMAIN sel
       THEN Refused
       ELSE [d \in DOMAIN sel \cup {records.dim} |->
               IF d = records.dim THEN records.indices ELSE sel[d]]

\* (mutant) only the two ends are looked at
ProgressionEnds(list) ==
  IF Len(list) <= 1 THEN 1
  ELSE LET step == list[2] - list[1]
       IN  IF step > 0 /\ Last(list) - list[1] = step * (Len(list) - 1)
           THEN step ELSE 0
(* --- reading ----------------------------------------------------------- *)
(* The step of an ascending arithmetic progression, or 0: gather instead.   *)
Progression(list) ==
  IF Len(list) <= 1 THEN 1
  ELSE LET step == list[2] - list[1]
       IN  IF step > 0 /\ \A i \in 2..Len(list) : list[i] - list[i-1] = step
           THEN step ELSE 0

AxisPlan(len, d, sel) ==
  IF d \notin DOMAIN sel
  THEN [start |-> 0, step |-> 1, count |-> len, take |-> IndexSeq(len), gather |-> FALSE]
  ELSE IF sel[d] = << >>
  THEN [start |-> 0, step |-> 1, count |-> 0, take |-> << >>, gather |-> FALSE]
  ELSE LET lo == Min(ToSet(sel[d]))
           step == IF Progression(sel[d]) = 0 THEN 1 ELSE Progression(sel[d])
       IN  [start |-> lo, step |-> step,
            count |-> (Max(ToSet(sel[d])) - lo) \div step + 1,
            take |-> [i \in DOMAIN sel[d] |-> (sel[d][i] - lo) \div step],
            gather |-> Progression(sel[d]) = 0]

PlanSlab(file, var, sel) ==
  [axis \in DOMAIN var.dims |->
     AxisPlan(file.lens[var.dims[axis]], var.dims[axis], sel)]

ReadValues(file, var, sel) ==
  LET slab == PlanSlab(file, var, sel)
      out == [axis \in DOMAIN slab |-> Len(slab[axis].take)]
      shape == ShapeOf(file, var.dims)
      flat == ReadSlab(var.data, shape, slab)
      counts == [axis \in DOMAIN slab |-> slab[axis].count]
  IN  IF ToSet(var.dims) \cap DOMAIN sel = {} THEN [shape |-> shape, data |-> var.data]
      ELSE IF 0 \in ToSet(out) THEN [shape |-> out, data |-> << >>]
      ELSE [shape |-> out,
            data |-> IF \E axis \in DOMAIN slab : slab[axis].gather
                     THEN Gather(flat, counts, [axis \in DOMAIN slab |-> slab[axis].take])
                     ELSE flat]

(* Texts are decoded whole and gathered after.                              *)
SelectText(file, var, field, sel) ==
  IF ConsumesLast(file, var) /\ Last(var.dims) \in DOMAIN sel THEN Refused
  ELSE TakeByName(field, sel)

DecodeTextField(file, var, sel) ==
  LET dims == FieldDims(file, var)
      shape == ShapeOf(file, dims)
      len == IF Len(var.dims) > 0 THEN file.lens[Last(var.dims)] ELSE 1
      groups == ReadAsStrings(var, len)
      Cells(text) == [i \in 1..len |-> IF i \in DOMAIN text /\ text[i] # Nul
                                       THEN <<text[i]>> ELSE << >>]
      texts == IF var.type = "string" \/ ConsumesLast(file, var) THEN groups
               ELSE FlattenSeq([g \in DOMAIN groups |-> Cells(groups[g])])
  IN  IF Len(texts) # Volume(shape) THEN Refused
      ELSE SelectText(file, var, [dims |-> dims, shape |-> shape, data |-> texts,
                                 fill |-> NoFill], sel)

IntFill(var) == IF var.fill # NoFill THEN var.fill ELSE var.missing

NumericField(var, read) ==
  [dims |-> var.dims, shape |-> read.shape,
   data |-> IF Classify(var) = "float" THEN Masked(var, read.data) ELSE read.data,
   fill |-> IF Classify(var) = "float" THEN NoFill ELSE IntFill(var)]
DecodeField(file, var, sel) ==
  IF Classify(var) = "text" THEN DecodeTextField(file, var, sel)
  ELSE NumericField(var, ReadValues(file, var, sel))

Decode(file, variables, sel) ==
  LET vars == ToSet(file.vars)
      read == {v \in vars : \/ IsCoordinate(v) \/ variables = {}
                            \/ v.name \in variables}
      decoded == read \cap Fields(file)
      Var(name) == CHOOSE v \in vars : v.name = name
  IN  IF \/ sel = Refused
         \/ \E n \in variables : ~\E v \in vars : v.name = n /\ ~IsCoordinate(v)
         \/ \E v \in read \ decoded : v.name \in variables
      THEN Refused
      ELSE AllOrNone([name \in {v.name : v \in decoded} |->
                        DecodeField(file, Var(name), sel)])

ReadNative(file, variables, select, records) ==
  Decode(file, variables,
         MergeRecords(file, DimSelection(file, select, variables), records))
=============================================================================
