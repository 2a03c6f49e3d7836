------------------------------- MODULE Tables -------------------------------
(***************************************************************************)
(* The two readers of tables: FF10 texts, alone or members of an archive    *)
(* (rust/src/format/ff10.rs), and Parquet (rust/src/format/parquet.rs).     *)
(* A name is the sequence of its characters' codes; a text cell is its text *)
(* and the number it spells, None if it spells none; a column's name is its *)
(* only one.                                                                *)
(***************************************************************************)
EXTENDS Outcomes, Integers, Sequences, SequencesExt, FiniteSetsExt

CONSTANTS PointColumns,    \* the columns of an FF10 point table, in order
          NumericColumns,  \* those a reader is configured to parse
          NotANumber,      \* the float a missing cell becomes
          MaxInt32, MaxInt64

(* --- which members of an archive a glob names -------------------------- *)
Star == 42
Bang == 33
Dash == 45
Slash == 47
Question == 63
Open == 91
Close == 93

Lit(c) == [kind |-> "lit", char |-> c]
Class(neg, ranges) == [kind |-> "class", neg |-> neg, ranges |-> ranges]

RangesOf(body) ==
  LET from[k \in 1..Len(body) + 3] ==
        IF k > Len(body) THEN {}
        ELSE IF k + 2 <= Len(body) /\ body[k + 1] = Dash
        THEN {<<body[k], body[k + 2]>>} \cup from[k + 3]
        ELSE {<<body[k], body[k]>>} \cup from[k + 1]
  IN  from[1]

(* The first of a class's characters, when an Open at i opens one, and the  *)
(* places that may close it: a Close that comes first is one of its members. *)
BodyFrom(pat, i) == IF i < Len(pat) /\ pat[i + 1] = Bang THEN i + 2 ELSE i + 1
\* (mutant) that Close closes the class
ClosingsAtOnce(pat, i) == {j \in BodyFrom(pat, i)..Len(pat) : pat[j] = Close}
Closings(pat, i) == {j \in BodyFrom(pat, i) + 1..Len(pat) : pat[j] = Close}

GlobTokens(pat) ==
  LET from[i \in 1..Len(pat) + 1] ==
        CASE i > Len(pat) -> << >>
          [] i <= Len(pat) /\ pat[i] = Open /\ Closings(pat, i) # {} ->
               LET first == BodyFrom(pat, i)
                   j == Min(Closings(pat, i))
               IN  <<Class(first = i + 2, RangesOf(SubSeq(pat, first, j - 1)))>> \o from[j + 1]
          [] OTHER ->
               <<CASE pat[i] = Star -> [kind |-> "star"]
                   [] pat[i] = Question -> [kind |-> "any"]
                   [] OTHER -> Lit(pat[i])>> \o from[i + 1]
  IN  from[1]

TokMatch(tok, c) ==
  CASE tok.kind = "any" -> TRUE
    [] tok.kind = "lit" -> tok.char = c
    [] OTHER -> (\E r \in tok.ranges : r[1] <= c /\ c <= r[2]) # tok.neg

IsStar(toks, ti) == ti <= Len(toks) /\ toks[ti].kind = "star"

(* Where the matcher goes from a token ti and a character si, the last star  *)
(* it passed (0: none) and the character up to which that star now runs.    *)
GlobStep(toks, text, at) ==
  CASE IsStar(toks, at.ti) ->
         [at EXCEPT !.star = at.ti, !.mark = at.si, !.ti = @ + 1]
    [] at.ti <= Len(toks) /\ ~IsStar(toks, at.ti) /\ TokMatch(toks[at.ti], text[at.si]) ->
         [at EXCEPT !.ti = @ + 1, !.si = @ + 1]
    [] at.star # 0 ->
         [at EXCEPT !.ti = at.star + 1, !.mark = @ + 1, !.si = at.mark + 1]
    [] OTHER -> None

GlobMatch(toks, text) ==
  LET states == [ti : 1..Len(toks) + 1, si : 1..Len(text) + 1,
                 star : 0..Len(toks), mark : 0..Len(text) + 1]
      from[at \in states] ==
        IF at.si > Len(text) THEN \A k \in at.ti..Len(toks) : IsStar(toks, k)
        ELSE LET next == GlobStep(toks, text, at) IN next # None /\ from[next]
  IN  from[[ti |-> 1, si |-> 1, star |-> 0, mark |-> 0]]

(* Members sort by the bytes of their names.                                *)
Before(a, b) ==
  \/ IsPrefix(a, b)
  \/ \E i \in DOMAIN a \cap DOMAIN b :
       a[i] < b[i] /\ \A k \in 1..i - 1 : a[k] = b[k]

(* The texts of the members chosen, by name; directories are not members.   *)
ReadZipSelected(archive, members, glob) ==
  LET names == {n \in DOMAIN archive : Last(n) # Slash}
      hits == {n \in names : glob # None /\ GlobMatch(GlobTokens(glob), n)}
      selected == ToSet(members) \cup hits
      order == SetToSortSeq(selected, Before)
  IN  IF \/ ~(ToSet(members) \subseteq names)
         \/ glob # None /\ hits = {}
         \/ selected = {}
      THEN Refused
      ELSE [k \in DOMAIN order |-> archive[order[k]]]

ReadZipMember(archive, member) ==
  IF member \in DOMAIN archive THEN archive[member] ELSE Refused

(* --- the rows of an FF10 text ------------------------------------------ *)
(* A line is data, comment or blank, and its fields.  The header asserted   *)
(* must be there: a row of data is never dropped in its stead.              *)
ParseRows(text, skipHeaderRow) ==
  LET data == SelectSeq(text, LAMBDA line : line.kind = "data")
      rows == IF skipHeaderRow THEN Tail(data) ELSE data
  IN  IF \/ skipHeaderRow /\ (data = << >> \/ data[1].fields[1].text # "country_cd")
         \/ \E i \in DOMAIN rows : Len(rows[i].fields) # Len(PointColumns)
      THEN Refused
      ELSE [i \in DOMAIN rows |-> rows[i].fields]

(* A blank number is missing; a text that spells none is an error.          *)
ParseFloat(cell) == IF cell.text = "" THEN NotANumber
                    ELSE IF cell.number = None THEN Refused ELSE cell.number

BuildDataset(rows, variables) ==
  LET names == {PointColumns[j] : j \in DOMAIN PointColumns}
      wanted == IF variables = {} THEN names ELSE variables
      Column(j) == [i \in DOMAIN rows |->
                      IF PointColumns[j] \in NumericColumns THEN ParseFloat(rows[i][j])
                      ELSE rows[i][j].text]
      out == [name \in wanted |->
                Column(CHOOSE j \in DOMAIN PointColumns : PointColumns[j] = name)]
  IN  IF \/ ~(wanted \subseteq names)
         \/ \E name \in wanted : Refused \in ToSet(out[name])
      THEN Refused ELSE out

(* A blob is a text, or an archive: its members' texts by their names.      *)
ReadFf10(blob, options, variables) ==
  LET several == options.members # << >> \/ options.glob # None
      zipped == several \/ options.member # None
      texts == CASE several -> ReadZipSelected(blob.archive, options.members, options.glob)
                 [] zipped /\ ~several -> <<ReadZipMember(blob.archive, options.member)>>
                 [] OTHER -> <<blob.text>>
      parsed == [k \in DOMAIN texts |-> ParseRows(texts[k], options.skipHeaderRow)]
  IN  IF \/ several /\ options.member # None
         \/ zipped # (blob.kind = "zip")
      THEN Refused
      ELSE IF texts = Refused THEN Refused
      ELSE IF Refused \in ToSet(texts) THEN Refused
      ELSE IF Refused \in ToSet(parsed) THEN Refused
      ELSE BuildDataset(FlattenSeq(parsed), variables)

(* --- the columns of a Parquet file ------------------------------------- *)
(* A column holds values of a type, or keys of a dictionary of them.        *)
Opaque == {"nested", "binary", "interval"}

TargetDtype(column, forcedFloat) ==
  CASE forcedFloat -> IF column.dict = None /\ column.type \in {"nested", "binary"}
                      THEN None ELSE "float64"
    [] ~forcedFloat /\ column.type \in Opaque -> None
    [] OTHER -> [boolean |-> "bool", narrow |-> "int32", wide |-> "int64", uint64 |-> "int64",
                 float |-> "float64", decimal |-> "float64", text |-> "str",
                 null |-> "float64"][column.type]

(* Dates and times ride as their integers; a uint64 is carried wide.        *)
CellKind ==
  [boolean |-> "B", narrow |-> "I", wide |-> "I", uint64 |-> "U",
   float |-> "F", decimal |-> "F", text |-> "S", null |-> "none"]

PlainCells(type, stored) ==
  IF type \in Opaque THEN Refused
  ELSE [i \in DOMAIN stored |->
          IF type = "null" \/ stored[i] = None THEN None
          ELSE [kind |-> CellKind[type], value |-> stored[i]]]

(* A null key and a key of a null value are both nulls, and so is a key of   *)
(* no value; a key counts from 0.                                          *)
ArrowCells(column, stored) ==
  IF column.dict = None THEN PlainCells(column.type, stored)
  ELSE LET values == PlainCells(column.type, column.dict)
       IN  IF values = Refused THEN Refused
           ELSE [i \in DOMAIN stored |->
                   IF stored[i] = None \/ stored[i] + 1 \notin DOMAIN values THEN None
                   ELSE values[stored[i] + 1]]

\* (mutant) a uint64 wraps around into the integers
IntCellWrapped(cell, nullInt) ==
  IF cell = None THEN (IF nullInt = None THEN Refused ELSE nullInt)
  ELSE IF cell.value > MaxInt64 THEN cell.value - 2 * (MaxInt64 + 1) ELSE cell.value
IntCell(cell, nullInt) ==
  IF cell = None THEN (IF nullInt = None THEN Refused ELSE nullInt)
  ELSE IF cell.kind = "I" \/ (cell.kind = "U" /\ cell.value <= MaxInt64) THEN cell.value
  ELSE Refused

(* A cell as the accumulator of its column takes it.                        *)
FloatCell(cell) ==
  IF cell = None THEN NotANumber
  ELSE CASE cell.kind = "B" -> Refused
         [] cell.kind = "S" -> ParseFloat(cell.value)
         [] OTHER -> cell.value
Narrowed(v) == IF v # Refused /\ (v > MaxInt32 \/ v < -MaxInt32 - 1) THEN Refused ELSE v
StrCell(cell, nullString) ==
  IF cell = None THEN (IF nullString = None THEN Refused ELSE nullString)
  ELSE IF cell.kind = "S" THEN cell.value.text ELSE Refused
BoolCell(cell) == IF cell # None /\ cell.kind = "B" THEN cell.value ELSE Refused

Coerced(dtype, cell, options) ==
  CASE dtype = "float64" -> FloatCell(cell)
    [] dtype = "int64" -> IntCell(cell, options.nullInt)
    [] dtype = "int32" -> Narrowed(IntCell(cell, options.nullInt))
    [] dtype = "str" -> StrCell(cell, options.nullString)
    [] dtype = "bool" -> BoolCell(cell)

(* The accumulators after one more column of a batch that starts at row0,    *)
(* or the cell the read fails at, its row counted over the whole table.     *)
Extend(accs, column, dtype, stored, row0, options) ==
  LET cells == ArrowCells(column, stored)
      more == [i \in DOMAIN stored |-> Coerced(dtype, cells[i], options)]
      bad == {i \in DOMAIN stored : more[i] = Refused}
  IN  IF cells = Refused THEN [failed |-> <<column.name, None>>]
      ELSE IF bad # {} THEN [failed |-> <<column.name, row0 + Min(bad) - 1>>]
      ELSE [accs EXCEPT !.fields[column.name] = @ \o more]

HasFailed(accs) == "failed" \in DOMAIN accs

(* A batch holds, by column name, its rows' cells.                          *)
ReadBatches(file, columns, dtypes, options) ==
  LET kept == SelectSeq(columns, LAMBDA c : dtypes[c.name] # None)
      RowsOf(batch) == Len(batch[file.columns[1].name])
      Batch(accs, batch) ==
        LET read == FoldLeft(LAMBDA acc, c :
                      IF HasFailed(acc) THEN acc
                      ELSE Extend(acc, c, dtypes[c.name], batch[c.name], acc.rows, options),
                      accs, kept)
        IN  IF HasFailed(read) THEN read ELSE [read EXCEPT !.rows = @ + RowsOf(batch)]
      empty == [rows |-> 0, fields |-> [name \in {c.name : c \in ToSet(kept)} |-> << >>]]
  IN  FoldLeft(LAMBDA acc, batch : IF HasFailed(acc) THEN acc ELSE Batch(acc, batch),
               empty, file.batches)

(* The columns asked for, or all that read as a column of one rank; what is   *)
(* asked for and is not there, or does not read so, is refused.             *)
ReadParquet(file, variables, options) ==
  LET roots == {file.columns[i].name : i \in DOMAIN file.columns}
      columns == SelectSeq(file.columns, LAMBDA c : variables = {} \/ c.name \in variables)
      Dtype(name) == TargetDtype(CHOOSE c \in ToSet(file.columns) : c.name = name,
                                 name \in options.floatColumns)
      dtypes == [name \in {c.name : c \in ToSet(columns)} |-> Dtype(name)]
  IN  IF \/ ~(variables \subseteq roots)
         \/ \E name \in variables : dtypes[name] = None
      THEN Refused
      ELSE ReadBatches(file, columns, dtypes, options)
=============================================================================
