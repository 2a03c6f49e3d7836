--------------------------- MODULE StreamGeometry ---------------------------
(***************************************************************************)
(* Where the streaming Zarr writer puts each cell: regions, shards, the     *)
(* boxes of cells a writer keeps, what a reader finds at an index           *)
(* (rust/src/format/zarr_stream.rs, zarr_write.rs).  StreamWriter has the   *)
(* protocol of tokens and manifests and takes a region of a record as one   *)
(* thing; here there is no failure, and a region is its cells.              *)
(*                                                                         *)
(* A schema is [len, chunk, shard: functions of dimensions; time: one of    *)
(* them; vars, statics: sequences of [name, dims]; indexed, timeCoord].  An  *)
(* object is its cells and, as history, the writers that put it.            *)
(***************************************************************************)
EXTENDS Selection

CONSTANT Zero   \* what a cell nobody wrote holds

DimsOf(schema) == DOMAIN schema.len
WholeArray == << >>  \* the region of a writer of everything: no dimension named

(* --- what may be opened ------------------------------------------------ *)
ValidSchema(schema) ==
  LET arrays == schema.vars \o schema.statics
      Times(a) == Cardinality({k \in DOMAIN a.dims : a.dims[k] = schema.time})
  IN  /\ schema.time \in DimsOf(schema)
      /\ \A d \in DimsOf(schema) :
           /\ d \in DOMAIN schema.chunk \cap DOMAIN schema.shard
           /\ schema.chunk[d] > 0 /\ schema.shard[d] > 0
           /\ schema.shard[d] % schema.chunk[d] = 0
      /\ \A a \in ToSet(arrays) : a.name # schema.time /\ ToSet(a.dims) \subseteq DimsOf(schema)
      /\ \A i, j \in DOMAIN arrays : arrays[i].name = arrays[j].name => i = j
      /\ \A v \in ToSet(schema.vars) : Times(v) = 1
      /\ \A s \in ToSet(schema.statics) : Times(s) = 0

ValidRegion(schema, region) ==
  \A d \in DOMAIN region :
    /\ d # schema.time /\ d \in DimsOf(schema)
    /\ region[d].start < region[d].stop /\ region[d].stop <= schema.len[d]
    /\ region[d].start % schema.shard[d] = 0
    /\ region[d].stop % schema.shard[d] = 0 \/ region[d].stop = schema.len[d]

(* The owner's question of the tokens it is given: may these writers' parts  *)
(* be committed together?                                                   *)
Verify(schema, tokens, count) ==
  LET rdims == DOMAIN tokens[1].region
      Span(t, d) == t.region[d].stop - t.region[d].start
      Cells(size(_)) == FoldSet(LAMBDA d, product : product * size(d), 1, rdims)
      Overlap(t, u) == \A d \in rdims :
        t.region[d].start < u.region[d].stop /\ u.region[d].start < t.region[d].stop
  IN  /\ \A i \in DOMAIN tokens : tokens[i].writer < count
      /\ \A i, j \in DOMAIN tokens : tokens[i].writer = tokens[j].writer => i = j
      /\ \A w \in 0..count - 1 : \E i \in DOMAIN tokens : tokens[i].writer = w
      /\ \A t \in ToSet(tokens) : /\ t.fingerprint = schema.fingerprint
                                  /\ DOMAIN t.region = rdims
                                  /\ ValidRegion(schema, t.region)
      /\ \A i, j \in DOMAIN tokens : i # j => ~Overlap(tokens[i], tokens[j])
      /\ FoldSeq(LAMBDA t, sum : sum + Cells(LAMBDA d : Span(t, d)), 0, tokens)
           = Cells(LAMBDA d : schema.len[d])

(* --- whose array is it ------------------------------------------------- *)
Partitioned(region, dims) == DOMAIN region \cap ToSet(dims) # {}
\* (mutant) every writer of a partitioned array puts its objects
OwnsAll(region, dims) == TRUE
Owns(region, dims) == \A d \in DOMAIN region \ ToSet(dims) : region[d].start = 0

WritesArray(h, dims) ==
  IF Partitioned(h.region, dims) THEN Owns(h.region, dims) ELSE h.writer = 0
Supplies(h, a) == h.writer = 0 \/ Partitioned(h.region, a.dims)

(* --- boxes of cells ---------------------------------------------------- *)
Local(schema, region, d) ==
  IF d \in DOMAIN region THEN region[d] ELSE [start |-> 0, stop |-> schema.len[d]]

Zeros(origin, shape) ==
  [origin |-> origin, shape |-> shape, data |-> [n \in 1..Volume(shape) |-> Zero]]

VarBox(schema, region, dims, t0, tn) ==
  LET In(d) == Local(schema, region, d)
  IN  Zeros([k \in DOMAIN dims |-> IF dims[k] = schema.time THEN t0 ELSE In(dims[k]).start],
            [k \in DOMAIN dims |-> IF dims[k] = schema.time THEN tn
                                   ELSE In(dims[k]).stop - In(dims[k]).start])

(* The position, in the whole array, of a box's n-th cell.                  *)
Position(origin, shape, n) ==
  LET at == Odometer(shape, n - 1) IN [k \in DOMAIN shape |-> origin[k] + at[k]]

CopyOverlap(src, dst) ==
  [dst EXCEPT !.data =
     [n \in DOMAIN @ |->
        LET at == Position(dst.origin, dst.shape, n)
            from == [k \in DOMAIN at |-> at[k] - src.origin[k]]
        IN  IF \A k \in DOMAIN at : 0 <= from[k] /\ from[k] < src.shape[k]
            THEN src.data[Offset(src.shape, from) + 1] ELSE @[n]]]

Product(low, high) ==
  LET n == [k \in DOMAIN low |-> high[k] - low[k]]
  IN  {Position(low, n, i) : i \in 1..Volume(n)}

(* --- shard objects ----------------------------------------------------- *)
Sizes(schema, dims) == [k \in DOMAIN dims |-> schema.shard[dims[k]]]

WriteBox(schema, objects, dims, box, writer) ==
  LET size == Sizes(schema, dims)
      ids == Product([k \in DOMAIN dims |-> box.origin[k] \div size[k]],
                     [k \in DOMAIN dims |->
                        (box.origin[k] + box.shape[k] + size[k] - 1) \div size[k]])
      Cells(id) == CopyOverlap(box, Zeros([k \in DOMAIN id |-> id[k] * size[k]], size)).data
      By(id) == IF id \in DOMAIN objects THEN objects[id].by ELSE {}
  IN  [id \in ids \cup DOMAIN objects |->
         IF id \in ids THEN [data |-> Cells(id), by |-> By(id) \cup {writer}] ELSE objects[id]]

(* zarrs: the cells of a box, those of an absent object the fill value.      *)
Retrieve(schema, objects, dims, origin, shape) ==
  LET size == Sizes(schema, dims)
      CellAt(at) == LET id == [k \in DOMAIN at |-> at[k] \div size[k]]
                    IN  IF id \in DOMAIN objects
                        THEN objects[id].data[
                               Offset(size, [k \in DOMAIN at |-> at[k] % size[k]]) + 1]
                        ELSE Zero
  IN  [origin |-> origin, shape |-> shape,
       data |-> [n \in 1..Volume(shape) |-> CellAt(Position(origin, shape, n))]]

(* Below `limit` in time; what is past it keeps what the box has.           *)
ReloadBox(schema, objects, dims, box, limit) ==
  LET Upto(k) == IF dims[k] # schema.time THEN box.shape[k]
                 ELSE Min({box.shape[k], Max({limit - box.origin[k], 0})})
      shape == [k \in DOMAIN dims |-> Upto(k)]
  IN  IF 0 \in ToSet(shape) THEN box
      ELSE CopyOverlap(Retrieve(schema, objects, dims, box.origin, shape), box)

(* --- a writer's handle ------------------------------------------------- *)
TimeArray(schema) == [name |-> schema.time, dims |-> <<schema.time>>]

Buffered(schema, h) ==
  {a \in ToSet(schema.vars) : Supplies(h, a)}
    \cup (IF schema.timeCoord /\ h.writer = 0 /\ ~schema.indexed THEN {TimeArray(schema)} ELSE {})

ByName(arrays, Of(_)) ==
  [name \in {a.name : a \in arrays} |-> Of(CHOOSE a \in arrays : a.name = name)]

Handle(writer, region, preexists) ==
  [writer |-> writer, region |-> region, open |-> << >>, dirty |-> {}, flushed |-> {},
   maybeOnDisk |-> preexists]

NewShardBuf(schema, h, ts) ==
  [bufs |-> ByName(Buffered(schema, h), LAMBDA a :
              VarBox(schema, h.region, a.dims, ts * schema.shard[schema.time], schema.shard[schema.time])),
   written |-> {}]

ReloadShard(schema, store, h, ts, limit) ==
  LET fresh == NewShardBuf(schema, h, ts)
  IN  [fresh EXCEPT !.bufs = ByName(Buffered(schema, h), LAMBDA a :
         ReloadBox(schema, store[a.name], a.dims, fresh.bufs[a.name], limit))]

WithShard(h, ts, shard) ==
  [h EXCEPT !.open = [s \in DOMAIN @ \cup {ts} |-> IF s = ts THEN shard ELSE @[s]]]

EnsureOpen(schema, store, h, ts) ==
  IF ts \in DOMAIN h.open THEN h
  ELSE WithShard(h, ts, IF schema.indexed /\ (h.maybeOnDisk \/ ts \in h.flushed)
                        THEN ReloadShard(schema, store, h, ts, schema.len[schema.time])
                        ELSE NewShardBuf(schema, h, ts))

(* Opened again with n records committed (append mode), or as it was.        *)
Reopen(schema, store, h, n) ==
  LET st == schema.shard[schema.time]
      again == Handle(h.writer, h.region, TRUE)
      ts == n \div st
  IN  IF schema.indexed \/ n % st = 0 THEN again
      ELSE WithShard(again, ts, [ReloadShard(schema, store, h, ts, n)
                                   EXCEPT !.written = 0..n - ts * st - 1])

(* The store after writer h put the objects of an open shard.                *)
WriteShard(schema, store, h, ts) ==
  [name \in DOMAIN store |->
     IF \E a \in Buffered(schema, h) : a.name = name /\ WritesArray(h, a.dims)
     THEN LET a == CHOOSE a \in Buffered(schema, h) : a.name = name
          IN  WriteBox(schema, store[name], a.dims, h.open[ts].bufs[name], h.writer)
     ELSE store[name]]

(* A record copied into its open shard; a shard whose slots are all written  *)
(* is put and closed.                                                       *)
Filled(h, ts, slot, boxes) ==
  WithShard(h, ts,
    [bufs |-> [name \in DOMAIN boxes |->
                 CopyOverlap(boxes[name], h.open[ts].bufs[name])],
     written |-> h.open[ts].written \cup {slot}])
Slots(schema, ts) ==
  LET st == schema.shard[schema.time]
  IN  IF schema.indexed THEN Min({schema.len[schema.time] - ts * st, st}) ELSE st
PutIfFull(schema, store, h, ts) ==
  IF h.open[ts].written = 0..Slots(schema, ts) - 1
  THEN [store |-> WriteShard(schema, store, h, ts),
        h |-> [h EXCEPT !.open = [s \in DOMAIN @ \ {ts} |-> @[s]],
                        !.dirty = @ \ {ts}, !.flushed = @ \cup {ts}]]
  ELSE [store |-> store, h |-> [h EXCEPT !.dirty = @ \cup {ts}]]

(* Each call is its handle and store, or Refused.                           *)
PlaceRecord(schema, store, h, index, t, arrays) ==
  LET supplied == {v \in ToSet(schema.vars) : Supplies(h, v)}
      Box(v) == VarBox(schema, h.region, v.dims, index, 1)
      st == schema.shard[schema.time]
      ts == index \div st
      Source(a) == IF a.name = schema.time THEN [origin |-> <<index>>, shape |-> <<1>>, data |-> <<t>>]
                   ELSE [Box(a) EXCEPT !.data = arrays[a.name]]
  IN  IF \/ DOMAIN arrays # {v.name : v \in supplied}
         \/ \E v \in supplied : Len(arrays[v.name]) # Len(Box(v).data)
      THEN Refused
      ELSE PutIfFull(schema, store,
             Filled(EnsureOpen(schema, store, h, ts), ts, index % st,
                    ByName(Buffered(schema, h), Source)), ts)

WriteStatic(schema, store, h, name, data) ==
  LET a == CHOOSE s \in ToSet(schema.statics) : s.name = name
      box == VarBox(schema, h.region, a.dims, 0, 0)
  IN  IF \/ ~\E s \in ToSet(schema.statics) : s.name = name
         \/ ~Supplies(h, a) \/ Len(data) # Len(box.data)
      THEN Refused
      ELSE [h |-> h,
            store |-> IF ~WritesArray(h, a.dims) THEN store
                      ELSE [store EXCEPT ![name] =
                              WriteBox(schema, @, a.dims, [box EXCEPT !.data = data], h.writer)]]

Flush(schema, store, h) ==
  [store |-> FoldSet(LAMBDA ts, s : WriteShard(schema, s, h, ts), store, h.dirty),
   h |-> [h EXCEPT !.dirty = {}, !.flushed = @ \cup h.dirty]]

(* --- a whole dataset in one call ---------------------------------------- *)
RecordOf(data, shape, axis, r) ==
  LET outer == Volume(SubSeq(shape, 1, axis - 1))
      inner == Volume(SubSeq(shape, axis + 1, Len(shape)))
  IN  FlattenSeq([o \in 1..outer |->
        LET start == ((o - 1) * shape[axis] + r) * inner IN SubSeq(data, start + 1, start + inner)])

(* vars: [name, dims, data]; times: the time coordinate's values or None.    *)
WriteAll(schema, vars, times) ==
  LET n == schema.len[schema.time]
      Shape(v) == [k \in DOMAIN v.dims |-> schema.len[v.dims[k]]]
      Axis(v) == CHOOSE k \in DOMAIN v.dims : v.dims[k] = schema.time
      Slab(r) == ByName(ToSet(vars), LAMBDA v : RecordOf(v.data, Shape(v), Axis(v), r))
      begun == [h |-> Handle(0, WholeArray, FALSE),
                store |-> ByName(ToSet(vars) \cup {TimeArray(schema)}, LAMBDA a : << >>)]
      Step(at, r) == PlaceRecord(schema, at.store, at.h, r,
                                 IF times = None THEN r ELSE times[r + 1], Slab(r))
      last == FoldLeft(Step, begun, IndexSeq(n))
  IN  IF \/ \E v \in ToSet(vars) : \/ ~(ToSet(v.dims) \subseteq DimsOf(schema))
                                   \/ schema.time \notin ToSet(v.dims)
                                   \/ Len(v.data) # Volume(Shape(v))
         \/ times # None /\ \/ Len(times) # n
                            \/ \E i \in 2..n : times[i] <= times[i - 1]
         \/ ~ValidSchema(schema)
      THEN Refused
      ELSE Flush(schema, last.store, last.h).store

(* --- what a reader finds ------------------------------------------------ *)
(* An array's cells at a record (or of a static) within a region; whether    *)
(* there is such a record is for read_record to say (RecordIsCommitted).     *)
ReadBox(schema, store, a, record, region) ==
  LET Of(d) == IF d = schema.time THEN [start |-> record, stop |-> record + 1]
               ELSE Local(schema, region, d)
      ranges == [k \in DOMAIN a.dims |-> Of(a.dims[k])]
  IN  IF \E k \in DOMAIN ranges :
            /\ a.dims[k] # schema.time
            /\ \/ ranges[k].start >= ranges[k].stop
               \/ ranges[k].stop > schema.len[a.dims[k]]
      THEN Refused
      ELSE Retrieve(schema, store[a.name], a.dims,
                    [k \in DOMAIN ranges |-> ranges[k].start],
                    [k \in DOMAIN ranges |-> ranges[k].stop - ranges[k].start]).data

(* The manifest's ranges of committed records, and its line a time shard.    *)
CommittedRanges(committed, n) ==
  FoldLeft(LAMBDA out, i :
             IF i \notin committed THEN out
             ELSE IF out # << >> /\ Last(out)[2] = i THEN [out EXCEPT ![Len(out)][2] = i + 1]
             ELSE Append(out, <<i, i + 1>>),
           << >>, IndexSeq(n))
RecordIsCommitted(ranges, i) == \E k \in DOMAIN ranges : ranges[k][1] <= i /\ i < ranges[k][2]

TimeShards(committed, t, st) ==
  FoldLeft(LAMBDA out, i :
             IF i \notin committed THEN out
             ELSE IF out # << >> /\ Last(out).index = i \div st
             THEN [out EXCEPT ![Len(out)] =
                     [@ EXCEPT !.start = Min({@, t[i + 1]}), !.stop = Max({@, t[i + 1]}), !.n = @ + 1]]
             ELSE Append(out, [index |-> i \div st, start |-> t[i + 1], stop |-> t[i + 1], n |-> 1]),
           << >>, IndexSeq(Len(t)))
=============================================================================
