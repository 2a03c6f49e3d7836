--------------------------- MODULE StreamManifest ---------------------------
(***************************************************************************)
(* What the owner of a streamed store knows of its commits, how a commit,   *)
(* an invalidation and a truncation change it, and how it goes into         *)
(* output_manifest.json and comes back (rust/src/format/zarr_stream.rs:     *)
(* CommitState, manifest_json, from_manifest).  Dtypes, attributes, codec   *)
(* and texts are left out; a schema has, beside what StreamGeometry says,   *)
(* the times of an indexed store.                                          *)
(***************************************************************************)
EXTENDS StreamGeometry

(* The structural fields; the length of an open-ended time counts as none.   *)
SchemaFingerprint(schema) ==
  [len   |-> [schema.len EXCEPT ![schema.time] = IF schema.indexed THEN @ ELSE 0],
   chunk |-> schema.chunk, shard |-> schema.shard, time |-> schema.time,
   indexed |-> schema.indexed, vars |-> schema.vars, statics |-> schema.statics]

Unwritten == [committed |-> FALSE, generation |-> 0]
NamesOf(arrays) == {a.name : a \in ToSet(arrays)}

Created(schema, single, region) ==
  [version |-> IF single /\ ~schema.indexed /\ schema.statics = << >> THEN "v1" ELSE "v2",
   seq |-> 0, n |-> 0, shards |-> << >>, lastT |-> None,
   entries |-> [i \in DOMAIN schema.times |-> [t |-> schema.times[i]] @@ Unwritten],
   statics |-> [name \in NamesOf(schema.statics) |-> Unwritten],
   blobs |-> {}, writers |-> <<[id |-> 0, region |-> region]>>]

(* --- the time shards' lines --------------------------------------------- *)
PushAppend(state, index, t, st) ==
  LET last == Len(state.shards)
      line == IF last > 0 THEN state.shards[last] ELSE None
      fresh == [index |-> index \div st, start |-> t, stop |-> t, n |-> 1]
  IN  [state EXCEPT !.lastT = t,
         !.shards = IF last > 0 /\ line.index = index \div st
                    THEN [@ EXCEPT ![last] = [line EXCEPT !.stop = t, !.n = @ + 1]]
                    ELSE Append(@, fresh)]

RebuildAppend(state, times, st) ==
  [FoldLeft(LAMBDA s, i : PushAppend(s, i, times[i + 1], st),
            [state EXCEPT !.shards = << >>], IndexSeq(Len(times)))
     EXCEPT !.n = Len(times), !.lastT = IF times = << >> THEN None ELSE Last(times)]

CommittedEntries(state) == {i \in 0..Len(state.entries) - 1 : state.entries[i + 1].committed}
RebuildIndexed(state, st) ==
  LET times == [i \in DOMAIN state.entries |-> state.entries[i].t]
      done == CommittedEntries(state)
  IN  [state EXCEPT !.shards = TimeShards(done, times, st),
                    !.lastT = IF done = {} THEN None ELSE Max({times[i + 1] : i \in done})]

(* --- a commit ------------------------------------------------------------ *)
(* A blob is static (record None) or of a record.                           *)
FromWire(scope, record) ==
  IF scope = "static" /\ record = None THEN None
  ELSE IF scope = "record" /\ record # None THEN record ELSE Refused
Wire(record) == IF record = None THEN "static" ELSE "record"

(* The records, statics and blobs of tokens whose regions tile (Verify).     *)
Committable(schema, state, tokens) ==
  LET recs == tokens[1].records
      rdims == DOMAIN tokens[1].region
      named == UNION {t.statics : t \in ToSet(tokens)}
      Free(r) == r.index < Len(state.entries)
                   /\ state.entries[r.index + 1].t = r.t /\ ~state.entries[r.index + 1].committed
      Given(s) == IF ToSet(s.dims) \cap rdims # {} THEN \A t \in ToSet(tokens) : s.name \in t.statics
                  ELSE \A t \in ToSet(tokens) : s.name \in t.statics => t.writer = 0
  IN  /\ \A t \in ToSet(tokens) : t.records = recs
      /\ IF schema.indexed THEN \A k \in DOMAIN recs : Free(recs[k])
         ELSE \A k \in DOMAIN recs : recs[k].index = state.n + k - 1
      /\ named \subseteq NamesOf(schema.statics)
      /\ \A name \in named : ~state.statics[name].committed
      /\ \A s \in ToSet(schema.statics) : s.name \in named => Given(s)
      /\ \A t \in ToSet(tokens) : \A b \in t.blobs : FromWire(b.scope, b.record) # Refused

MarkCommitted(item) == [item EXCEPT !.committed = TRUE, !.generation = @ + 1]

ApplyCommit(schema, state, tokens) ==
  LET recs == tokens[1].records
      st == schema.shard[schema.time]
      given == {r.index + 1 : r \in ToSet(recs)}
      placed == IF schema.indexed
                THEN RebuildIndexed([state EXCEPT !.entries =
                       [i \in DOMAIN @ |-> IF i \in given THEN MarkCommitted(@[i]) ELSE @[i]]], st)
                ELSE [FoldLeft(LAMBDA s, r : PushAppend(s, r.index, r.t, st), state, recs)
                        EXCEPT !.n = @ + Len(recs)]
      named == UNION {t.statics : t \in ToSet(tokens)}
      Of(t) == {[record |-> FromWire(b.scope, b.record), writer |-> t.writer, key |-> b.key] : b \in t.blobs}
  IN  [placed EXCEPT !.seq = @ + 1,
         !.statics = [name \in DOMAIN @ |-> IF name \in named THEN MarkCommitted(@[name]) ELSE @[name]],
         !.blobs = @ \cup UNION {Of(t) : t \in ToSet(tokens)},
         !.writers = [k \in DOMAIN tokens |->
             LET t == CHOOSE u \in ToSet(tokens) : u.writer = k - 1
             IN  [id |-> t.writer, region |-> t.region]]]

Commit(schema, state, tokens, count) ==
  IF Verify(schema, tokens, count) /\ Committable(schema, state, tokens)
  THEN ApplyCommit(schema, state, tokens) ELSE Refused

(* --- undoing a commit ---------------------------------------------------- *)
Invalidated(state, indices) ==
  [state EXCEPT !.seq = @ + 1,
     !.entries = [i \in DOMAIN @ |-> IF i - 1 \in indices THEN [@[i] EXCEPT !.committed = FALSE] ELSE @[i]],
     !.blobs = {b \in @ : b.record = None \/ b.record \notin indices}]
MayInvalidate(schema, state, indices) == schema.indexed /\ indices \subseteq 0..Len(state.entries) - 1
\* (mutant) the lines of the time shards are left as they are
InvalidateKeepingShards(schema, state, indices) ==
  IF ~MayInvalidate(schema, state, indices) THEN Refused ELSE Invalidated(state, indices)
Invalidate(schema, state, indices) ==
  IF ~MayInvalidate(schema, state, indices) THEN Refused
  ELSE RebuildIndexed(Invalidated(state, indices), schema.shard[schema.time])

InvalidateStatics(schema, state, names) ==
  IF ~(names \subseteq DOMAIN state.statics) THEN Refused
  ELSE [state EXCEPT !.seq = @ + 1,
          !.statics = [name \in DOMAIN @ |->
             IF name \in names THEN [@[name] EXCEPT !.committed = FALSE] ELSE @[name]]]

(* resume of the owner at a time; `times` are the time coordinate's values.  *)
Truncate(schema, state, times, at) ==
  LET late == {i \in 1..state.n : times[i] > at}
      kept == IF late = {} THEN state.n ELSE Min(late) - 1
      cut == RebuildAppend(state, SubSeq(times, 1, kept), schema.shard[schema.time])
  IN  IF schema.indexed \/ ~schema.timeCoord THEN Refused
      ELSE IF kept = state.n THEN state
      ELSE [cut EXCEPT !.seq = IF state.version = "v2" THEN @ + 1 ELSE @]

(* --- output_manifest.json ------------------------------------------------- *)
ManifestJson(schema, state) ==
  LET n == IF schema.indexed THEN schema.len[schema.time] ELSE state.n
      first == [schema |-> state.version, dims |-> [schema.len EXCEPT ![schema.time] = n],
                time_dim |-> schema.time, vars |-> schema.vars, chunk_shape |-> schema.chunk,
                shard_shape |-> schema.shard, time_shards |-> state.shards,
                last_t |-> state.lastT, n_records |-> n]
      committed == CommittedRanges(IF schema.indexed THEN CommittedEntries(state) ELSE 0..n - 1, n)
  IN  IF state.version = "v1" THEN first
      ELSE first @@
        [schema_fingerprint |-> SchemaFingerprint(schema),
         time_mode |-> IF schema.indexed THEN "indexed" ELSE "append",
         writers |-> state.writers,
         records |-> [committed |-> committed, entries |-> state.entries],
         statics |-> [k \in DOMAIN schema.statics |->
                        schema.statics[k] @@ state.statics[schema.statics[k].name]],
         blobs |-> {[scope |-> Wire(b.record)] @@ b : b \in state.blobs},
         commit_seq |-> state.seq]

(* The first version's counts are spelled two ways by its writers.           *)
Count(fields, spelling) == IF spelling \in DOMAIN fields THEN fields[spelling] ELSE None
NRecords(doc) == IF Count(doc, "n_records") # None THEN doc.n_records ELSE Count(doc, "total_records")

FromManifest(doc) ==
  LET v2 == doc.schema = "v2"
      indexed == v2 /\ doc.time_mode = "indexed"
      Line(l) == [index |-> l.index, start |-> l.start, stop |-> l.stop,
                  n |-> IF Count(l, "n") # None THEN l.n ELSE Count(l, "n_records")]
      entries == IF indexed THEN doc.records.entries ELSE << >>
      statics == IF v2 THEN doc.statics ELSE << >>
      Named(name) == CHOOSE s \in ToSet(statics) : s.name = name
  IN  IF doc.schema \notin {"v1", "v2"} \/ NRecords(doc) = None THEN Refused
      ELSE
        [schema |->
           [len |-> doc.dims, chunk |-> doc.chunk_shape, shard |-> doc.shard_shape,
            time |-> doc.time_dim, vars |-> doc.vars, indexed |-> indexed,
            statics |-> [k \in DOMAIN statics |-> [name |-> statics[k].name, dims |-> statics[k].dims]],
            times |-> [i \in DOMAIN entries |-> entries[i].t]],
         state |->
           [version |-> doc.schema, seq |-> IF v2 THEN doc.commit_seq ELSE 0,
            n |-> IF indexed THEN 0 ELSE NRecords(doc),
            shards |-> [k \in DOMAIN doc.time_shards |-> Line(doc.time_shards[k])],
            lastT |-> doc.last_t, entries |-> entries,
            statics |-> [name \in NamesOf(statics) |->
               [committed |-> Named(name).committed, generation |-> Named(name).generation]],
            blobs |-> IF v2 THEN {[record |-> FromWire(b.scope, b.record), writer |-> b.writer, key |-> b.key] :
                                    b \in doc.blobs} ELSE {},
            writers |-> IF v2 THEN doc.writers ELSE << >>]]

OpenManifest(doc) ==
  LET opened == FromManifest(doc)
  IN  IF opened = Refused THEN Refused
      ELSE IF doc.schema = "v2" /\ doc.schema_fingerprint # SchemaFingerprint(opened.schema)
      THEN Refused ELSE opened

(* --- what readers ask the manifest --------------------------------------- *)
IsCommitted(doc, index) ==
  IF doc.schema = "v1" THEN NRecords(doc) # None /\ index < NRecords(doc)
  ELSE RecordIsCommitted(doc.records.committed, index)
StaticIsCommitted(doc, name) ==
  doc.schema = "v2" /\ \E k \in DOMAIN doc.statics : doc.statics[k].name = name /\ doc.statics[k].committed
BlobIsCommitted(doc, record, writer, key) ==
  doc.schema = "v2"
    /\ [scope |-> Wire(record), record |-> record, writer |-> writer, key |-> key] \in doc.blobs
=============================================================================
