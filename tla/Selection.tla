----------------------------- MODULE Selection -----------------------------
(***************************************************************************)
(* The selector vocabulary every reader shares and the row-major gather    *)
(* that applies it (rust/src/format/mod.rs).  A field is its dimension     *)
(* names, its shape and its cells in row-major order.                      *)
(***************************************************************************)
EXTENDS Outcomes, Integers, Sequences, SequencesExt, FiniteSets

(* A collection of results, or the error one of them is.                    *)
AllOrNone(results) ==
  IF \E i \in DOMAIN results : results[i] = Refused THEN Refused ELSE results

Volume(shape) == FoldLeft(LAMBDA a, b : a * b, 1, shape)
IndexSeq(len) == [i \in 1..len |-> i - 1]

(* --- selectors --------------------------------------------------------- *)
All == [kind |-> "all"]
Indices(list) == [kind |-> "indices", list |-> list]
Slice(start, stop, step) ==
  [kind |-> "range", start |-> start, stop |-> stop, step |-> step]

(* The wire form: a key and its items, a negative item standing for         *)
(* anything that is not an index.                                           *)
AxisFromJson(json) ==
  IF json = <<"all", << >> >> THEN All
  ELSE IF \E i \in DOMAIN json[2] : json[2][i] < 0 THEN Refused
  ELSE IF json[1] = "indices" THEN Indices(json[2])
  ELSE IF json[1] = "slice" /\ Len(json[2]) \in 2..3
       THEN Slice(json[2][1], json[2][2],
                  IF Len(json[2]) = 3 THEN json[2][3] ELSE 1)
  ELSE Refused

(* A whole select: its keys, each with what it holds.                       *)
FromJson(object) ==
  LET Axes(f) == [k \in DOMAIN f |-> AxisFromJson(f[k])]
      Read(kind, f) == IF \E k \in DOMAIN f : AxisFromJson(f[k]) = Refused
                       THEN Refused ELSE [kind |-> kind, axes |-> Axes(f)]
      known == {"axes", "dims", "all_records", "all_rows", "all_cells"}
  IN  IF \/ ~(DOMAIN object \subseteq known)
         \/ {"axes", "dims"} \subseteq DOMAIN object
      THEN Refused
      ELSE IF "axes" \in DOMAIN object THEN Read("orthogonal", object["axes"])
      ELSE IF "dims" \in DOMAIN object THEN Read("named", object["dims"])
      ELSE [kind |-> "everything"]

Stepped(axis) ==
  [i \in 1..(IF axis.stop <= axis.start THEN 0
             ELSE (axis.stop - axis.start - 1) \div axis.step + 1) |->
     axis.start + (i - 1) * axis.step]

(* The indices a selector names before any length is known.                 *)
UnboundedIndices(axis) ==
  CASE axis.kind = "all" -> None
    [] axis.kind = "indices" -> axis.list
    [] OTHER -> IF axis.step < 1 THEN Refused ELSE Stepped(axis)

(* The same over a dimension, each index checked against its length.        *)
ResolveIn(axis, len) ==
  LET list == UnboundedIndices(axis)
  IN  IF axis = All THEN IndexSeq(len)
      ELSE IF list = Refused THEN Refused
      ELSE IF \E i \in DOMAIN list : list[i] >= len THEN Refused
      ELSE list

(* --- row-major cells --------------------------------------------------- *)
Stride(shape, axis) == Volume(SubSeq(shape, axis + 1, Len(shape)))

(* The position along each axis of cell n of an array of `shape`.           *)
Odometer(shape, n) ==
  [axis \in DOMAIN shape |-> (n \div Stride(shape, axis)) % shape[axis]]

Offset(shape, index) ==
  FoldLeftDomain(LAMBDA sum, axis : sum + index[axis] * Stride(shape, axis),
                 0, index)

Gather(flat, shape, take) ==
  LET out == [axis \in DOMAIN take |-> Len(take[axis])]
  IN  [n \in 1..Volume(out) |->
         LET index == Odometer(out, n - 1)
             from  == [axis \in DOMAIN take |-> take[axis][index[axis] + 1]]
         IN  flat[Offset(shape, from) + 1]]

(* --- fields and datasets ----------------------------------------------- *)
SelectLeading(field, i) ==
  LET rest == Tail(field.shape)
  IN  IF field.shape = << >> \/ i >= Head(field.shape) THEN Refused
      ELSE [field EXCEPT !.dims = Tail(field.dims), !.shape = rest,
              !.data = SubSeq(field.data, i * Volume(rest) + 1, (i + 1) * Volume(rest))]

TakeByName(field, picks) ==
  LET take == [axis \in DOMAIN field.dims |->
                 IF field.dims[axis] \in DOMAIN picks
                 THEN picks[field.dims[axis]]
                 ELSE IndexSeq(field.shape[axis])]
  IN  IF ToSet(field.dims) \cap DOMAIN picks = {} THEN field
      ELSE [field EXCEPT !.shape = [axis \in DOMAIN take |-> Len(take[axis])],
                         !.data = Gather(field.data, field.shape, take)]

(* A dataset is a function of field names, coordinates among them.          *)
TakeAllByName(dataset, picks) ==
  [name \in DOMAIN dataset |-> TakeByName(dataset[name], picks)]
=============================================================================
