----------------------------- MODULE Algorithms -----------------------------
(***************************************************************************)
(* The pure parts of the crate, each on a set of inputs the MC module       *)
(* names: a behaviour picks a topic and one of its inputs and stops, and    *)
(* each invariant compares what the code computes of that input with a      *)
(* definition that says directly what it should be.                        *)
(***************************************************************************)
EXTENDS Windows, Tables, ZarrReader, TimeAxis, S3Reads, StreamManifest

CONSTANTS Reads,        \* reads of a file: variables, select, records
          TableReads,   \* reads of a table: its blob, options, columns asked for
          WindowLists,  \* lists of windows of a loader's record
          StoreReads,   \* reads of a chunked store, its objects in some state
          Cadences,     \* a written period, a start and an instant
          TimeAxes,     \* values, units, calendar and fill of a time axis
          Routes,       \* an environment, an s3 URL and a caller's options
          Fetches,      \* one call of a transport, and its source
          Layouts,      \* a schema, its writers' regions and what they write
          Histories     \* a schema, and what its owner is asked to do in turn

VARIABLES topic, input

vars == <<topic, input>>

Init == topic = "none" /\ input = "none"

Pick(name, inputs) == topic = "none" /\ topic' = name /\ input' \in inputs

Next == \/ Pick("read", Reads)
        \/ Pick("table", TableReads)
        \/ Pick("windows", WindowLists)
        \/ Pick("store", StoreReads)
        \/ Pick("cadence", Cadences)
        \/ Pick("times", TimeAxes)
        \/ Pick("route", Routes)
        \/ Pick("fetch", Fetches)
        \/ Pick("layout", Layouts)
        \/ Pick("manifest", Histories)

Spec == Init /\ [][Next]_vars

(***************************************************************************)
(* The cells of a read.  A cell of the file an instance names is the code   *)
(* of its own position, one digit an axis, so that what a read returns      *)
(* says where it came from.                                                *)
(***************************************************************************)
Codes(lists) ==
  FoldLeft(LAMBDA acc, list :
             FlattenSeq([a \in DOMAIN acc |->
                           [i \in DOMAIN list |-> 10 * acc[a] + list[i]]]),
           <<0>>, lists)

PointsOf(axis, len) ==
  CASE axis.kind = "all" -> IndexSeq(len)
    [] axis.kind = "indices" -> axis.list
    [] OTHER -> SelectSeq(IndexSeq(axis.stop),
                          LAMBDA i : i >= axis.start /\ (i - axis.start) % axis.step = 0)

(* What is asked along a dimension, in the axes' order of the read's select. *)
AskedOf(r, d) ==
  IF r.records # None /\ r.records.dim = d THEN r.records.indices
  ELSE IF r.select.kind = "named" /\ d \in DOMAIN r.select.axes
  THEN PointsOf(r.select.axes[d], r.file.lens[d])
  ELSE IF r.select.kind = "orthogonal" /\ d \in ToSet(r.order)
  THEN PointsOf(r.select.axes[CHOOSE i \in DOMAIN r.order : r.order[i] = d], r.file.lens[d])
  ELSE IndexSeq(r.file.lens[d])

(* A text is the code of its first character; a masked cell is NaN.         *)
ExpectedCells(r, var) ==
  LET dims == FieldDims(r.file, var)
      codes == Codes([i \in DOMAIN dims |-> AskedOf(r, dims[i])])
      Text(code) == IF var.type = "string" THEN code
                    ELSE IF dims # var.dims
                    THEN StripNul(Codes(<<<<code>>, IndexSeq(r.file.lens[Last(var.dims)])>>))
                    ELSE IF code = Nul THEN << >> ELSE <<code>>
  IN  CASE Classify(var) = "text" -> [i \in DOMAIN codes |-> Text(codes[i])]
        [] Classify(var) = "float" -> Masked(var, codes)
        [] OTHER -> codes

ReadsOfFile(r) ==
  LET got == ReadNative(r.file, r.variables, r.select, r.records)
      Var(name) == CHOOSE v \in ToSet(r.file.vars) : v.name = name
  IN  /\ r.legal <=> got # Refused
      /\ got # Refused =>
           /\ r.variables \subseteq DOMAIN got
           /\ \A name \in DOMAIN got :
                /\ got[name].data = ExpectedCells(r, Var(name))
                /\ Len(got[name].data) = Volume(got[name].shape)

(***************************************************************************)
(* The rows of a table.  A pattern names a name if a walk through all its    *)
(* tokens can end at the name's end; names sort as the numbers they spell,  *)
(* padded, and are shorter than five.                                      *)
(***************************************************************************)
Fits(tok, c) ==
  CASE tok.kind = "any" -> TRUE
    [] tok.kind = "lit" -> c = tok.char
    [] OTHER -> c \in UNION {r[1]..r[2] : r \in tok.ranges} <=> ~tok.neg
GlobNames(toks, name) ==
  Len(name) \in
    FoldLeft(LAMBDA ends, tok :
               IF tok.kind = "star" THEN {e \in 0..Len(name) : \E d \in ends : d <= e}
               ELSE {d + 1 : d \in {e \in ends : e < Len(name) /\ Fits(tok, name[e + 1])}},
             {0}, toks)
Spelled(name) ==
  FoldLeft(LAMBDA acc, k : 128 * acc + (IF k \in DOMAIN name THEN name[k] ELSE 0), 0, <<1, 2, 3, 4>>)

Chosen(archive, o, toks) ==
  IF o.member # None THEN {o.member}
  ELSE ToSet(o.members) \cup
         {n \in DOMAIN archive : o.glob # None /\ Last(n) # Slash /\ GlobNames(toks, n)}
InOrder(archive, names) ==
  LET sorted == SetToSortSeq(names, LAMBDA m, n : Spelled(m) < Spelled(n))
  IN  FlattenSeq([k \in DOMAIN sorted |-> archive[sorted[k]]])
LinesOf(r) == IF r.blob.kind # "zip" THEN r.blob.text
              ELSE InOrder(r.blob.archive, Chosen(r.blob.archive, r.options, r.means))
IsRow(line, o) == line.kind = "data" /\ ~(o.skipHeaderRow /\ line.fields[1].text = "country_cd")

IsTable(r, got, rows) ==
  LET Cell(name, i) == rows[i].fields[CHOOSE j \in DOMAIN PointColumns : PointColumns[j] = name]
      Value(name, cell) == CASE name \notin NumericColumns -> cell.text
                             [] name \in NumericColumns /\ cell.text = "" -> NotANumber
                             [] OTHER -> cell.number
  IN  /\ r.options.glob # None => GlobTokens(r.options.glob) = r.means
      /\ r.legal <=> got # Refused
      /\ got # Refused =>
           /\ DOMAIN got = IF r.variables = {} THEN ToSet(PointColumns) ELSE r.variables
           /\ \A name \in DOMAIN got :
                got[name] = [i \in DOMAIN rows |-> Value(name, Cell(name, i))]

RowsOfTable(r) ==
  IsTable(r, ReadFf10(r.blob, r.options, r.variables),
          SelectSeq(LinesOf(r), LAMBDA line : IsRow(line, r.options)))

(* The cells of a column, its dictionary's in place of their keys; a column   *)
(* read as floats; and one named so and not refused for its type until it is *)
(* read.                                                                   *)
StoredOf(batches, c) ==
  LET all == FlattenSeq([b \in DOMAIN batches |-> batches[b][c.name]])
      Value(key) == IF key # None /\ key + 1 \in DOMAIN c.dict THEN c.dict[key + 1] ELSE None
  IN  IF c.dict = None THEN all ELSE [i \in DOMAIN all |-> Value(all[i])]
AsFloat(c, o) == c.name \in o.floatColumns \/ c.type \in {"float", "decimal", "null"}
Late(c, o) ==
  c.type \in Opaque /\ c.name \in o.floatColumns /\ (c.type = "interval" \/ c.dict # None)

AbsentIn(c, o) == CASE AsFloat(c, o) -> NotANumber
                    [] ~AsFloat(c, o) /\ c.type = "text" -> o.nullString
                    [] ~AsFloat(c, o) /\ c.type = "boolean" -> None
                    [] OTHER -> o.nullInt
(* What a cell reads as, None if it cannot be read.                         *)
Means(c, v, o) ==
  CASE v = None \/ c.type = "null" ->
         IF c.type = "narrow" /\ ~AsFloat(c, o) /\ o.nullInt # None /\ o.nullInt > MaxInt32
         THEN None ELSE AbsentIn(c, o)
    [] v # None /\ c.type = "text" ->
         CASE ~AsFloat(c, o) -> v.text [] AsFloat(c, o) /\ v.text = "" -> NotANumber [] OTHER -> v.number
    [] v # None /\ c.type = "boolean" -> IF AsFloat(c, o) THEN None ELSE v
    [] v # None /\ c.type = "uint64" -> IF AsFloat(c, o) \/ v <= MaxInt64 THEN v ELSE None
    [] OTHER -> v

IsParquetTable(r, got, wanted, values) ==
  LET o == r.options
      Fails(c) == IF Late(c, o) THEN r.file.batches # << >>
                  ELSE c.type \notin Opaque /\ None \in ToSet(values[c])
  IN  /\ got # Refused
      /\ HasFailed(got) <=> \E c \in wanted : Fails(c)
      /\ HasFailed(got) =>
           \E c \in wanted : /\ c.name = got.failed[1] /\ Fails(c)
                             /\ IF Late(c, o) THEN got.failed[2] = None
                                ELSE values[c][got.failed[2] + 1] = None
      /\ ~HasFailed(got) =>
           LET read == {c \in wanted : c.type \notin Opaque}
           IN  /\ DOMAIN got.fields = {c.name : c \in {d \in wanted : d \in read \/ Late(d, o)}}
               /\ \A c \in read : got.fields[c.name] = values[c]

ColumnsOfTable(r) ==
  LET columns == ToSet(r.file.columns)
      roots == {c.name : c \in columns}
      wanted == {c \in columns : r.variables = {} \/ c.name \in r.variables}
      values == [c \in {d \in wanted : d.type \notin Opaque} |->
                   LET stored == StoredOf(r.file.batches, c)
                   IN  [i \in DOMAIN stored |-> Means(c, stored[i], r.options)]]
      got == ReadParquet(r.file, r.variables, r.options)
  IN  IF \/ ~(r.variables \subseteq roots)
         \/ r.variables # {} /\ \E c \in wanted : c.type \in Opaque /\ ~Late(c, r.options)
      THEN got = Refused
      ELSE IsParquetTable(r, got, wanted, values)

(* A read returns the coordinates and the variables asked for, every one    *)
(* holding exactly the cells asked for, in the order asked, repeats kept:   *)
(* strided, gathered and text reads alike (netcdf.rs plan_slab, gather).    *)
(* A table read returns every row of the members it names once, in the      *)
(* order of their names, and no header (ff10.rs read_zip_selected,          *)
(* glob_match, parse_rows); and of a Parquet file the columns asked for, in *)
(* whatever batches, a null as what its type has for one and never a value  *)
(* wrapped or made up: what cannot be read is named by column and row of    *)
(* the table (parquet.rs read_native, extend, int_cell).                    *)
ReadsAreTheCellsAsked ==
  /\ topic = "read" => ReadsOfFile(input)
  /\ topic = "table" =>
       IF input.format = "ff10" THEN RowsOfTable(input) ELSE ColumnsOfTable(input)

(* Sampling K windows from one decode gives, window by window, what a       *)
(* provider bound to that window alone gives, and is refused exactly when   *)
(* one of those would be (provider.rs sample_windows_at).                   *)
WindowsAreTheirOwnReads ==
  topic = "windows" =>
    LET Own(w) == SampleWindowed(input.loader, input.file, w, input.record)
        got == SampleWindowsAt(input.loader, input.file, input.windows, input.record)
    IN  IF \E i \in DOMAIN input.windows : Own(input.windows[i]) = Refused
        THEN got = Refused
        ELSE got = [i \in DOMAIN input.windows |-> Own(input.windows[i])]

(* A read of a store: the cells asked for, an absent chunk object as fill,   *)
(* whatever the order the workers brought the chunks in; it fails if a      *)
(* chunk it needs cannot be had, and never for one it does not (zarr.rs     *)
(* read_arrays, needed_chunks, scatter_chunk).                              *)
StoreReadsAreTheCellsAsked ==
  topic = "store" =>
    LET r == input
        chunks == SetToSeq(UNION {DOMAIN r.store[v].chunks : v \in DOMAIN r.store})
        order == IF r.backwards THEN Reverse(chunks) ELSE chunks
        got == ReadArrays(r.store, r.variables, r.select, order)
        Meta(v) == OpenArray(r.store[v])
        Asked(v) == [i \in 1..Len(Meta(v).shape) |->
                       LET d == DimNames(Meta(v))[i]
                       IN  IF r.select.kind = "named" /\ d \in DOMAIN r.select.axes
                           THEN PointsOf(r.select.axes[d], Meta(v).shape[i])
                           ELSE IF r.select.kind = "orthogonal"
                                     /\ Len(r.select.axes) = Len(Meta(v).shape)
                           THEN PointsOf(r.select.axes[i], Meta(v).shape[i])
                           ELSE IndexSeq(Meta(v).shape[i])]
        Has(v, code, kind) == \E cid \in DOMAIN r.store[v].chunks :
                           /\ r.store[v].chunks[cid].kind \in kind
                           /\ code \in ToSet(r.cells[v][cid])
        Cells(v) == Codes(Asked(v))
    IN  IF \/ ~r.legal
           \/ \E v \in r.variables : \E n \in DOMAIN Cells(v) : Has(v, Cells(v)[n], {"timeout"})
        THEN got = Refused
        ELSE \A v \in r.variables :
               got[v].data = [n \in DOMAIN Cells(v) |->
                                IF Has(v, Cells(v)[n], {"cache_miss", "not_found"})
                                THEN Fill ELSE Cells(v)[n]]

(* Every instant lies in exactly the cadence interval the code finds it in,  *)
(* anchors being counted from the start: anchor k of a period of months is  *)
(* in the k-th month, on the start's day or the last of the month.  A       *)
(* written period is what its parts say (calendar.rs floor_index, parse).   *)
AnchorsAreExact ==
  topic = "cadence" =>
    LET p == ParsePeriod(input.date, input.hasTime, input.time)
        k == FloorIndex(p, input.start, input.t)
    IN  IF input.means.months + input.means.seconds = 0 THEN p = BadPeriod
        ELSE /\ p = input.means
             /\ IndicesAreExact(p, input.start, input.t)
             /\ \A i \in k-2..k+2 : AnchorIsExact(p, input.start, i)

(* A reference both calendars and both readings make the same of.           *)
PlainReference(ref) ==
  /\ Parse(ref) # None /\ ref.digits = 4
  /\ ref.date[1] >= 1583
  /\ GregorianDays(ref.date[1], ref.date[2], ref.date[3]) # None
  /\ ref.clock = "minutes" => ref.clockGap = 1
  /\ ref.clock # "hour"
  /\ ref.zone # "signed" \/ ref.zoneGap <= 1

(* A time axis is decoded whole or not at all, in the order of its values;   *)
(* on a reference the readings agree on, each time is within a second of    *)
(* what was written, and the axis is decoded whenever all of them lie in    *)
(* 1678 to 2261 (time_axis.rs decode_time_axis: a reading that fails at one *)
(* value must leave nothing of itself behind).                              *)
TimesAreThoseWritten ==
  topic = "times" =>
    LET got == DecodeTimeAxis(input.values, input.units, input.calendar, input.fill)
        v == input.values
        ref == input.units.reference
        unit == CftimeUnit(input.units.unit)
        Written(i) == PandasNs(ref) + (Eighths(v[i]) * unit) \div 8
        readable == /\ input.calendar \in {"absent", "standard", "proleptic_gregorian"}
                    /\ \A i \in DOMAIN v : v[i].finite /\ Eighths(v[i]) # input.fill
    IN  /\ got # None =>
             /\ readable
             /\ Len(got) = Len(v)
             /\ \A i, j \in DOMAIN v : Eighths(v[i]) <= Eighths(v[j]) => got[i] <= got[j]
        /\ (ref # None /\ unit # None) =>
             (PlainReference(ref) =>
               /\ got # None =>
                    \A i \in DOMAIN v :
                      Magnitude(got[i] * Nanos.seconds - Written(i)) <= Nanos.seconds
               /\ (readable /\ \A i \in DOMAIN v : DateOf(Written(i) \div Nanos.days).year \in 1679..2260)
                    => got # None)

(* A credential named against the bucket does not outweigh the process-wide  *)
(* AWS_SKIP_SIGNATURE on the direct path; on the cached path it does.        *)
AmbientSkipWins(env, perBucket) ==
  ~HasAny(perBucket, S3SigningKeys) /\ ValueOf(env.vars, S3SigningKeys) \in Truthy

(* The direct path finds AWS_REGION in the environment before it looks for   *)
(* the crate's own EARTHSCI_S3_REGION; the cached path the other way round.   *)
AmbientRegionWins(env, perBucket) ==
  /\ StatedRegion(perBucket) = None
  /\ HasAny(env.vars, {"aws_region"})
  /\ env.region \notin {None, ValueOf(env.vars, {"aws_region"})}

(* Who decides that a read of a bucket is signed: credentials the platform   *)
(* put in the environment never do, unless beside an endpoint; what is said  *)
(* of the bucket, by a signing key or by a credential named against it,      *)
(* binds both paths alike, except where AmbientSkipWins; and both read in one *)
(* region, except where AmbientRegionWins (zarr_object_store.rs              *)
(* read_store_options, s3_config.rs stated_signing, transport/s3.rs signs).  *)
SigningIsStated ==
  topic = "route" =>
    LET env == input.env  url == input.url
        transport == NewTransport(env)
        perBucket == OptionsForUrl(env, url)
        direct == DirectRoute(env, url, input.explicit)
        cached == CachedRoute(transport, env, url)
        bare == [env EXCEPT !.vars =
                   SelectSeq(@, LAMBDA o : o[1] \notin S3CredentialKeys)]
        everything == env.vars \o perBucket \o input.explicit
    IN  /\ ~HasAny(everything, S3EndpointKeys) =>
             direct.signed = DirectRoute(bare, url, input.explicit).signed
        /\ ~HasAny(everything, S3SigningKeys \cup S3EndpointKeys)
             /\ ~HasAny(perBucket \o input.explicit, S3CredentialKeys) => ~direct.signed
        /\ cached # Refused =>
             /\ cached.signed = Signs(transport, env, url.bucket)
             /\ cached.signed = CachedRoute(transport, bare, url).signed
             /\ cached.region = ResolveRegionForBucket(env, url.bucket, None)
             /\ input.explicit = << >> =>
                  /\ HasAny(perBucket, S3SigningKeys \cup S3CredentialKeys)
                       /\ ~AmbientSkipWins(env, perBucket) => cached.signed = direct.signed
                  /\ AmbientRegionWins(env, perBucket) \/ cached.region = direct.region

(* An absence is recorded only when the source itself answered that the      *)
(* object is not there; a download is the whole of one object, under that   *)
(* object's validator; "not modified" is said only of the validator sent;    *)
(* and a job is abandoned in bounded time (transport/http.rs, cds.rs: the    *)
(* asset of a job that expired is not an absence, s3.rs fetch_signed).      *)
OutcomesAreTheSources ==
  topic = "fetch" =>
    LET i == input
        got == CASE i.kind = "http" -> FetchHttp(i.source, i.etag, i.auth)
                 [] i.kind = "file" -> FetchFile(i.url, i.source)
                 [] i.kind = "cds" -> FetchCds(i.url, i.source, i.budget, i.auth)
                 [] i.kind = "s3" -> FetchSigned(i.source, i.etag, i.chunk)
        Gone == \/ i.kind = "http" /\ i.source.code \in {404, 410}
                \/ i.kind = "s3" /\ \E k \in DOMAIN i.source : i.source[k].code = 404
        Whole == CASE i.kind = "http" -> i.source.body
                   [] i.kind = "file" -> i.source[i.url.path]
                   [] i.kind = "cds" -> i.source.asset.body
                   [] i.kind = "s3" -> i.source[1].body
        waited == Wait(i.source, i.budget)
    IN  /\ got.status = "not_found" => Gone
        /\ got.status = "downloaded" =>
             /\ got.written = Whole /\ got.hashed \in {None, Whole}
             /\ i.kind \in {"http", "s3"} =>
                  got.etag = IF i.kind = "http" THEN i.source.etag ELSE i.source[1].etag
        /\ got.status = "not_modified" =>
             /\ got.written = << >> /\ i.etag # None
             /\ i.kind = "http" => i.source.etag = i.etag
        /\ got.status \notin {"downloaded"} => got.written = << >>
        /\ i.kind = "cds" =>
             /\ waited.polls <= i.budget.timeout \div i.budget.interval + 2
             /\ waited.href = Refused => got.status \in {"transport", "bad_url"}
             /\ got.status = "downloaded" =>
                  /\ \A k \in 1..waited.polls - 1 :
                       i.source.polls[IF k < Len(i.source.polls) THEN k ELSE Len(i.source.polls)]
                         .doc.status \notin {"failed", "successful"}

(***************************************************************************)
(* A team writes records and statics, each writer its region's part of      *)
(* them, in the order of the steps; or one call writes a whole dataset.     *)
(***************************************************************************)
AllArrays(s) == ToSet(s.vars \o s.statics)
                  \cup (IF s.timeCoord /\ ~s.indexed THEN {TimeArray(s)} ELSE {})

(* What a writer has of an array: the codes of its region's cells.          *)
PartOf(s, region, a, r) ==
  Codes([k \in DOMAIN a.dims |->
           LET in == Local(s, region, a.dims[k])
           IN  IF a.dims[k] = s.time THEN <<r>>
               ELSE [n \in 1..in.stop - in.start |-> in.start + n - 1]])

Wrote(i, store, token) ==
  LET s == i.schema
      begun == [store |-> store, h |-> Handle(token.writer, token.region, token.writer # 0)]
      Static(at, a) == IF ~Supplies(at.h, a) THEN at
                       ELSE WriteStatic(s, at.store, at.h, a.name, PartOf(s, token.region, a, 0))
      Slabs(h, r) == ByName({v \in ToSet(s.vars) : Supplies(h, v)},
                            LAMBDA v : PartOf(s, token.region, v, r))
      Step(at, step) ==
        CASE step.do = "record" -> PlaceRecord(s, at.store, at.h, step.n, i.times[step.n + 1],
                                               Slabs(at.h, step.n))
          [] step.do = "flush" -> Flush(s, at.store, at.h)
          [] OTHER -> [at EXCEPT !.h = Reopen(s, at.store, @, step.n)]
  IN  FoldLeft(Step, FoldLeft(Static, begun, s.statics), i.steps).store

StoreOf(i) ==
  IF i.all THEN WriteAll(i.schema, i.dataset, i.times)
  ELSE FoldLeft(LAMBDA store, token : Wrote(i, store, token),
                ByName(AllArrays(i.schema), LAMBDA a : << >>), i.tokens)

(* Every cell over the regions' dimensions is one writer's, and so is every  *)
(* shard.                                                                  *)
Tiled(s, tokens, count) ==
  LET rdims == DOMAIN tokens[1].region
      Points == {at \in [rdims -> 0..3] : \A d \in rdims : at[d] < s.len[d]}
      Holds(t, at) == \A d \in rdims : t.region[d].start <= at[d] /\ at[d] < t.region[d].stop
      SameShard(at, bt) == \A d \in rdims : at[d] \div s.shard[d] = bt[d] \div s.shard[d]
  IN  /\ {tokens[i].writer : i \in DOMAIN tokens} = 0..count - 1 /\ Len(tokens) = count
      /\ \A t \in ToSet(tokens) : t.fingerprint = s.fingerprint /\ DOMAIN t.region = rdims
      /\ rdims \subseteq DimsOf(s) \ {s.time}
      /\ \A t \in ToSet(tokens), d \in rdims : t.region[d].stop <= s.len[d]
      /\ \A t \in ToSet(tokens) : \E at \in Points : Holds(t, at)
      /\ \A at \in Points : Cardinality({t \in ToSet(tokens) : Holds(t, at)}) = 1
      /\ \A t \in ToSet(tokens), at, bt \in Points : SameShard(at, bt) => (Holds(t, at) <=> Holds(t, bt))

IsLaidOut(i, store) ==
  LET s == i.schema
      written == {i.steps[k].n : k \in {j \in DOMAIN i.steps : i.steps[j].do = "record"}}
      Value(a, at) == IF a.name = s.time THEN i.times[at[1] + 1]
                      ELSE FoldLeft(LAMBDA code, x : 10 * code + x, 0, at)
      Is(a, at, k) == IF a.dims[k] = s.time THEN at[k] \in written ELSE at[k] < s.len[a.dims[k]]
      Holding(a, id) ==
        LET size == Sizes(s, a.dims)
            At(n) == Position([k \in DOMAIN id |-> id[k] * size[k]], size, n)
        IN  [n \in 1..Volume(size) |-> IF \A k \in DOMAIN id : Is(a, At(n), k)
                                       THEN Value(a, At(n)) ELSE Zero]
      ranges == CommittedRanges(written, s.len[s.time])
      lines == TimeShards(written, i.times, s.shard[s.time])
      Lies(r, line) == r \in written /\ r \div s.shard[s.time] = line.index
  IN  /\ IF i.all THEN i.legal <=> store # Refused ELSE i.legal <=> ValidSchema(s)
      /\ ~i.all /\ i.legal => (Verify(s, i.tokens, i.count) <=> Tiled(s, i.tokens, i.count))
      /\ i.legal /\ (i.all \/ Verify(s, i.tokens, i.count)) =>
           /\ \A a \in AllArrays(s) : \A id \in DOMAIN store[a.name] :
                /\ store[a.name][id].data = Holding(a, id)
                /\ Cardinality(store[a.name][id].by) = 1
           /\ \A a \in ToSet(s.vars \o s.statics), r \in written, region \in i.views :
                ReadBox(s, store, a, r, region) = PartOf(s, region, a, r)
           /\ \A r \in 0..s.len[s.time] : RecordIsCommitted(ranges, r) <=> r \in written
           /\ \A k \in 1..Len(ranges) - 1 : ranges[k][2] < ranges[k + 1][1]
           /\ {line.index : line \in ToSet(lines)} = {r \div s.shard[s.time] : r \in written}
           /\ \A k \in DOMAIN lines :
                LET rs == {r \in written : Lies(r, lines[k])}
                IN  lines[k].n = Cardinality(rs) /\ lines[k].start = Min({i.times[r + 1] : r \in rs})
                      /\ lines[k].stop = Max({i.times[r + 1] : r \in rs})

(* The owner commits the parts of a team exactly when each shard is one      *)
(* writer's and nothing is left out.  Each object then has one writer and    *)
(* holds, cell by cell, what was written there and zeros elsewhere, records  *)
(* written before a handle was opened again kept; and a reader finds each    *)
(* record, and each region of it, and what the manifest names as committed   *)
(* (zarr_stream.rs verify, owns, write_box, reload_box, read_box).          *)
LayoutIsExact == topic = "layout" => IsLaidOut(input, StoreOf(input))

(***************************************************************************)
(* The owner of a store commits, invalidates, truncates, in the order of a   *)
(* history; a refused operation changes nothing.                           *)
(***************************************************************************)
Operate(i, schema, state, op) ==
  LET next == CASE op.do = "commit" -> Commit(schema, state, op.tokens, i.count)
                [] op.do = "invalidate" -> Invalidate(schema, state, op.records)
                [] op.do = "statics" -> InvalidateStatics(schema, state, op.statics)
                [] OTHER -> Truncate(schema, state, i.times, op.at)
  IN  IF next = Refused THEN state ELSE next

KeptOpen(i, ops) ==
  FoldLeft(LAMBDA state, op : Operate(i, i.schema, state, op),
           Created(i.schema, i.single, i.region), ops)

(* The same, the owner dying after each operation and opening the store from *)
(* its manifest.                                                           *)
Reopened(i, ops) ==
  FoldLeft(LAMBDA doc, op :
             LET opened == OpenManifest(doc)
                 schema == opened.schema @@ [fingerprint |-> i.schema.fingerprint,
                                             timeCoord |-> i.schema.timeCoord]
             IN  ManifestJson(schema, Operate(i, schema, opened.state, op)),
           ManifestJson(i.schema, Created(i.schema, i.single, i.region)), ops)

(* What a history means: the records, statics and blobs committed, how often *)
(* each was, and how many changes there were.                              *)
Meaning(i, ops) ==
  LET Free(m, op) ==
        LET recs == op.tokens[1].records
            index == [k \in DOMAIN recs |-> recs[k].index]
        IN  /\ \A t \in ToSet(op.tokens) : t.records = recs
            /\ ToSet(index) \cap m.records = {}
            /\ \A k \in DOMAIN recs : recs[k].index < Len(i.times) /\ recs[k].t = i.times[recs[k].index + 1]
            /\ i.schema.indexed \/ index = [k \in DOMAIN recs |-> Cardinality(m.records) + k - 1]
      Whose(name) == LET s == CHOOSE a \in ToSet(i.schema.statics) : a.name = name
                     IN  IF Partitioned(i.region, s.dims) THEN 0..i.count - 1 ELSE {0}
      Given(m, op) ==
        \A name \in UNION {t.statics : t \in ToSet(op.tokens)} :
          /\ name \in NamesOf(i.schema.statics) \ m.statics
          /\ {t.writer : t \in {u \in ToSet(op.tokens) : name \in u.statics}} = Whose(name)
      Blobs(op) == UNION {{<<b.record, t.writer, b.key>> : b \in t.blobs} : t \in ToSet(op.tokens)}
      Step(m, op) ==
        CASE op.do = "commit" ->
               LET recs == {r.index : r \in ToSet(op.tokens[1].records)}
                   names == UNION {t.statics : t \in ToSet(op.tokens)}
               IN  IF ~(op.whole /\ Free(m, op) /\ Given(m, op)) THEN m
                   ELSE [records |-> m.records \cup recs, statics |-> m.statics \cup names,
                         blobs |-> m.blobs \cup Blobs(op), changes |-> m.changes + 1,
                         done |-> Append(m.done, [records |-> recs, statics |-> names])]
          [] op.do = "invalidate" ->
               IF ~i.schema.indexed \/ ~(op.records \subseteq 0..Len(i.times) - 1) THEN m
               ELSE [m EXCEPT !.records = @ \ op.records, !.changes = @ + 1,
                              !.blobs = {b \in @ : b[1] \notin op.records}]
          [] op.do = "statics" ->
               IF ~(op.statics \subseteq NamesOf(i.schema.statics)) THEN m
               ELSE [m EXCEPT !.statics = @ \ op.statics, !.changes = @ + 1]
          [] OTHER ->
               LET late == {r \in m.records : i.times[r + 1] > op.at}
               IN  IF i.schema.indexed \/ late = {} THEN m
                   ELSE [m EXCEPT !.records = @ \ late, !.changes = @ + 1]
  IN  FoldLeft(Step, [records |-> {}, statics |-> {}, blobs |-> {}, changes |-> 0, done |-> << >>], ops)

(* How Python's writer spells the counts of a first-version manifest.        *)
PythonSpelling(doc) ==
  [f \in (DOMAIN doc \ {"n_records"}) \cup {"total_records"} |->
     CASE f = "total_records" -> doc.n_records
       [] f = "time_shards" ->
            [k \in DOMAIN doc.time_shards |->
               LET line == doc.time_shards[k]
               IN  [index |-> line.index, start |-> line.start, stop |-> line.stop, n_records |-> line.n]]
       [] OTHER -> doc[f]]

Tells(doc, i, m) ==
  LET st == i.schema.shard[i.schema.time]
      Times(rs) == {i.times[r + 1] : r \in rs}
      Often(Had(_)) == Cardinality({k \in DOMAIN m.done : Had(m.done[k])})
      v2 == doc.schema = "v2"
  IN  /\ doc = Reopened(i, i.ops)
      /\ \A r \in 0..Len(i.times) : IsCommitted(doc, r) <=> r \in m.records
      /\ \A s \in ToSet(i.schema.statics) : StaticIsCommitted(doc, s.name) <=> s.name \in m.statics
      /\ v2 => {b \in (0..Len(i.times) \cup {None}) \X (0..i.count) \X i.keys :
                  BlobIsCommitted(doc, b[1], b[2], b[3])} = m.blobs
      /\ {line.index : line \in ToSet(doc.time_shards)} = {r \div st : r \in m.records}
      /\ \A k \in DOMAIN doc.time_shards :
           LET line == doc.time_shards[k]
               rs == {r \in m.records : r \div st = line.index}
           IN  line.n = Cardinality(rs) /\ line.start = Min(Times(rs)) /\ line.stop = Max(Times(rs))
      /\ doc.last_t = IF m.records = {} THEN None ELSE Max(Times(m.records))
      /\ v2 => /\ doc.commit_seq = m.changes
               /\ \A k \in DOMAIN doc.records.entries : doc.records.entries[k].generation =
                      Often(LAMBDA c : k - 1 \in c.records)
               /\ \A s \in ToSet(doc.statics) : s.generation = Often(LAMBDA c : s.name \in c.statics)
      /\ ~v2 => /\ OpenManifest(PythonSpelling(doc)) = OpenManifest(doc)
                /\ \A r \in 0..Len(i.times) : IsCommitted(PythonSpelling(doc), r) <=> IsCommitted(doc, r)

(* The manifest is the store's history and nothing else: after any sequence  *)
(* of commits, invalidations and truncations, refused ones included, it     *)
(* names exactly the records, statics and blobs then committed, their times  *)
(* a shard at a time, how often each was committed and how many changes     *)
(* there were; an owner that dies between any two of them and opens the      *)
(* store again ends with the same document (zarr_stream.rs verify,          *)
(* apply_commit, invalidate, resume, manifest_json, from_manifest).         *)
ManifestIsTheStore ==
  topic = "manifest" =>
    Tells(ManifestJson(input.schema, KeptOpen(input, input.ops)), input, Meaning(input, input.ops))
=============================================================================
