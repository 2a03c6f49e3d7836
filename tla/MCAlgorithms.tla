---------------------------- MODULE MCAlgorithms ----------------------------
(* Inputs of Algorithms for TLC.                                           *)
EXTENDS Algorithms

Lens == [time |-> 2, y |-> 4, x |-> 3, n |-> 2]
Var(name, type, dims) ==
  [name |-> name, type |-> type, dims |-> dims, packed |-> FALSE,
   fill |-> NoFill, missing |-> NoFill, since |-> FALSE,
   data |-> Codes([i \in DOMAIN dims |-> IndexSeq(Lens[dims[i]])])]

(* A masked field, a packed one, an integer one, coordinates, texts on a    *)
(* length and on an axis, and a variable no field comes of.                 *)
Grid ==
  [lens |-> Lens,
   vars |-> <<[Var("time", "int", <<"time">>) EXCEPT !.since = TRUE],
              Var("y", "float", <<"y">>),
              [Var("temp", "float", <<"time", "y", "x">>) EXCEPT !.fill = 21],
              [Var("flag", "int", <<"y", "x">>) EXCEPT !.fill = 1, !.missing = 31],
              [Var("count", "int", <<"y", "x">>) EXCEPT !.missing = 31],
              Var("label", "char", <<"y", "n">>),
              Var("tag", "char", <<"y">>),
              Var("name", "string", <<"x">>),
              Var("odd", "opaque", <<"y">>)>>]

Everything == [kind |-> "everything"]
Named(axes) == [kind |-> "named", axes |-> axes]
Orthogonal(axes) == [kind |-> "orthogonal", axes |-> axes]

YAxes == {All, Indices(<<0, 1, 1, 3>>), Indices(<<3, 1>>), Indices(<< >>),
          Indices(<<2>>), Slice(0, 4, 2), Slice(1, 4, 1), Slice(3, 1, 1)}
XAxes == {All, Indices(<<2, 0, 1>>), Slice(1, 3, 1), Indices(<<0, 2>>)}
Bad == {Indices(<<0, 4>>), Slice(0, 5, 1), Slice(0, 2, 0)}

Read(variables, select, records, order, legal) ==
  [file |-> Grid, variables |-> variables, select |-> select,
   records |-> records, order |-> order, legal |-> legal]
Asks(select, order, legal) == Read({}, select, None, order, legal)

MCReads ==
  {Asks(Named([y |-> a, x |-> b]), << >>, TRUE) : a \in YAxes, b \in XAxes}
  \cup {Asks(Orthogonal(<<a, b>>), <<"y", "x">>, TRUE) : a \in YAxes, b \in XAxes}
  \cup {Asks(Orthogonal(<<All, a, Slice(0, 3, 2)>>), <<"time", "y", "x">>, TRUE) : a \in YAxes}
  \cup {Asks(Named([y |-> a]), << >>, FALSE) : a \in Bad}
  \cup {Asks(Named([d \in {dim} |-> Indices(<<0>>)]), << >>, FALSE) :
          dim \in {"time", "n", "nowhere"}}
  \cup {Asks(Orthogonal(axes), << >>, FALSE) :
          axes \in {<<Indices(<<0>>)>>, <<All, All, All, All>>}}
  \cup {Asks(Everything, << >>, TRUE), Asks(Orthogonal(<<All>>), << >>, TRUE)}
  \cup {Read(vs, Named([x |-> Indices(<<0>>)]), None, << >>, vs = {"temp", "label"}) :
          vs \in {{"temp", "label"}, {"label"}, {"odd", "temp"}, {"nowhere", "temp"}, {"y", "temp"}}}
  \cup {Read({"temp"}, Named([y |-> a]), [dim |-> "time", indices |-> list], << >>,
             list \notin {<< >>, <<2>>}) :
          a \in YAxes, list \in {<<1>>, <<1, 1>>, <<1, 0>>, << >>, <<2>>}}
  \cup {Read({}, Named([y |-> a]), [dim |-> "y", indices |-> <<0>>], << >>, a = All) : a \in YAxes}

(* Tables: three columns of a point file, one of them a number.  Members a,  *)
(* ab, b, B, a], d/ and d/a are chosen by name or by pattern.               *)
Cell(text, number) == [text |-> text, number |-> number]
Line(kind, cells) == [kind |-> kind, fields |-> cells]
Row(text, cell) == Line("data", <<Cell(text, None), cell, Cell("s", None)>>)
Header == Row("country_cd", Cell("value", None))
MCPointColumns == <<"country", "value", "scc">>
Comment == Line("comment", <<Cell("#", None)>>)
TextOf(text, n) == <<Comment, Header, Row(text, Cell("n", n)), Line("blank", << >>), Row(text, Cell("", None))>>
Short == <<Line("data", <<Cell("US", None)>>)>>
LetterA == 97
LetterB == 98
LetterD == 100
MCNames == {<<LetterA>>, <<LetterA, LetterB>>, <<LetterB>>, <<66>>, <<LetterA, Close>>, <<LetterD, Slash>>, <<LetterD, Slash, LetterA>>}
Archive == [n \in MCNames |-> TextOf("US", n[1])]
NoOptions == [member |-> None, members |-> << >>, glob |-> None, skipHeaderRow |-> TRUE]
Ff10(blob, options, variables, means, legal) ==
  [format |-> "ff10", blob |-> blob, options |-> options, variables |-> variables,
   means |-> means, legal |-> legal]
Zipped == [kind |-> "zip", archive |-> Archive]
Text(lines) == [kind |-> "text", text |-> lines]
AnyTok == [kind |-> "any"]
StarTok == [kind |-> "star"]
(* A piece of a pattern, and the tokens it reads as on its own.             *)
Pieces ==
  {<<<<Star>>, <<StarTok>>>>, <<<<Question>>, <<AnyTok>>>>, <<<<LetterA>>, <<Lit(LetterA)>>>>, <<<<LetterB>>, <<Lit(LetterB)>>>>,
   <<<<Slash>>, <<Lit(Slash)>>>>, <<<<Open, Close, Close>>, <<Class(FALSE, {<<Close, Close>>})>>>>,
   <<<<Open, Bang, LetterA, Dash, LetterB, Close>>, <<Class(TRUE, {<<LetterA, LetterB>>})>>>>,
   <<<<Open, 65, Dash, LetterA, Dash, Close>>, <<Class(FALSE, {<<65, LetterA>>, <<Dash, Dash>>})>>>>}
Globs == {<<p[1] \o q[1] \o r[1], p[2] \o q[2] \o r[2]>> : p, q \in Pieces, r \in Pieces \cup {<<<< >>, << >>>>}}
           \cup {<<<<Open, LetterA>>, <<Lit(Open), Lit(LetterA)>>>>, <<<<Open, Close>>, <<Lit(Open), Lit(Close)>>>>,
                <<<<Open, Bang, Close, Star>>, <<Lit(Open), Lit(Bang), Lit(Close), StarTok>>>>}
Chooses(g) == \E n \in MCNames : Last(n) # Slash /\ GlobNames(g[2], n)
Ff10Reads ==
  {Ff10(Zipped, [NoOptions EXCEPT !.glob = g[1], !.members = ms], {}, g[2],
        Chooses(g) /\ <<LetterD, Slash>> \notin ToSet(ms)) :
     g \in Globs, ms \in {<< >>, <<<<LetterB>>, <<LetterA>>>>, <<<<LetterA>>, <<LetterD, Slash>>>>}}
  \cup {Ff10(Zipped, [NoOptions EXCEPT !.members = ms, !.member = m], vs, None,
             IF ms = << >> THEN m = <<LetterA>> ELSE m = None) :
          ms \in {<< >>, <<<<LetterB>>, <<66>>, <<LetterA, LetterB>>, <<LetterA>>>>}, m \in {None, <<LetterA>>, <<99>>},
          vs \in {{}, {"value"}}}
  \cup {Ff10(Text(lines), [NoOptions EXCEPT !.skipHeaderRow = skip], vs, None,
             /\ lines # Short /\ vs # {"zip"}
             /\ IF skip THEN Header \in ToSet(lines)
                ELSE Header \notin ToSet(lines) \/ vs = {"country"}) :
          lines \in {TextOf("US", 1), Tail(Tail(TextOf("US", 1))), <<Comment>>, << >>, Short},
          skip \in BOOLEAN, vs \in {{}, {"country"}, {"value"}, {"zip"}}}
  \cup {Ff10(Text(Short), [NoOptions EXCEPT !.member = <<LetterA>>], {}, None, FALSE)}

(* A column of each type in two batches of two rows and one, nulls and the   *)
(* values at the edges of its type among them; then pairs of columns.       *)
Column(name, type, dict) == [name |-> name, type |-> type, dict |-> dict]
Texts == {Cell("x", None), Cell("7", 7), Cell("", None)}
StoredBy(type) ==
  CASE type = "text" -> Texts
    [] type = "boolean" -> BOOLEAN
    [] type = "uint64" -> {0, MaxInt64, MaxInt64 + 1}
    [] type = "narrow" -> {0, MaxInt32}
    [] OTHER -> {1, 2}
Types == {"text", "boolean", "uint64", "narrow", "wide", "float", "decimal", "null"} \cup Opaque
Split(names, columns) ==
  <<[n \in names |-> SubSeq(columns[n], 1, 2)], [n \in names |-> SubSeq(columns[n], 3, 3)]>>
Parquet(columns, batches, variables, options) ==
  [format |-> "parquet", file |-> [columns |-> columns, batches |-> batches],
   variables |-> variables, options |-> options]
ParquetOptions ==
  [nullInt : {None, 9, MaxInt32 + 1}, nullString : {None, "missing"}, floatColumns : {{}, {"c"}}]
OneColumn(type) ==
  {Parquet(<<Column("c", type, None)>>, Split({"c"}, [n \in {"c"} |-> cells]), vs, o) :
     cells \in [1..3 -> StoredBy(type) \cup {None}], vs \in {{}, {"c"}}, o \in ParquetOptions}
OneDictionary(type) ==
  {Parquet(<<Column("c", type, <<v, None>>)>>, Split({"c"}, [n \in {"c"} |-> keys]), {}, o) :
     v \in StoredBy(type), keys \in {<<0, 1, None>>, <<0, 0, 0>>, <<0, 2, 0>>, <<-1, 0, 0>>},
     o \in ParquetOptions}
TwoColumns ==
  {Parquet(<<Column("c", s, None), Column("d", t, None)>>, batches, vs,
           [nullInt |-> None, nullString |-> None, floatColumns |-> {"c"}]) :
     s \in {"text", "nested", "interval"}, t \in {"uint64", "binary", "text"}, vs \in {{}, {"c"}, {"d", "e"}},
     batches \in {<< >>} \cup
                  {Split({"c", "d"}, [c |-> cs, d |-> ds]) :
                     cs \in {<<Cell("7", 7), None, Cell("x", None)>>, <<Cell("7", 7), None, None>>},
                     ds \in {<<None, None, None>>}}}
MCTableReads ==
  Ff10Reads \cup TwoColumns \cup UNION {OneColumn(type) \cup OneDictionary(type) : type \in Types}

Loader(timeDim, baked) == [baked |-> baked, timeDim |-> timeDim, variables |-> {}]
WindowMenu ==
  {Named(axes) : axes \in
     {[y |-> a] : a \in {All, Indices(<<3, 1>>), Slice(0, 4, 2), Slice(2, 2, 1), Slice(0, 2, 0),
                         Indices(<<4>>)}}
     \cup {[x |-> Indices(<<2, 2>>)], [n |-> All], [time |-> All], [time |-> Indices(<<0>>)],
           [y |-> Slice(1, 3, 1), x |-> Slice(0, 2, 1)], << >>}}
  \cup {Everything, Orthogonal(<<All, All>>)}

MCWindowLists ==
  {[loader |-> Loader(dim, Everything), file |-> Grid, record |-> 1, windows |-> ws] :
     dim \in {"time", "none"},
     ws \in {<<v, w>> : v, w \in WindowMenu} \cup {<< >>}
            \cup {<<v, Named([y |-> Slice(0, 2, 1)]), Named([x |-> All])>> : v \in WindowMenu}}
  \cup {[loader |-> Loader("time", Named([y |-> All])), file |-> Grid, record |-> 0,
         windows |-> <<Named([x |-> All])>>]}

(* Two arrays of a store in chunks that do not divide them; every chunk     *)
(* object a blob but one, in each of the states it can be in.               *)
ChunkIds == [a |-> {<<i, j>> : i \in 0..1, j \in 0..1}, b |-> {<<i>> : i \in 0..2}]
ArrayMeta == [a |-> [shape |-> <<3, 4>>, chunk |-> <<2, 3>>, names |-> <<"lev", "row">>,
                     attribute |-> << >>, float |-> TRUE, separator |-> "."],
              b |-> [shape |-> <<5>>, chunk |-> <<2>>, names |-> <<None>>,
                     attribute |-> <<"row2">>, float |-> TRUE, separator |-> "null"]]
ChunkCells ==
  [v \in {"a", "b"} |-> [cid \in ChunkIds[v] |->
     Codes([axis \in DOMAIN cid |->
              [i \in 1..ChunkShape(ArrayMeta[v], cid)[axis] |->
                 cid[axis] * ArrayMeta[v].chunk[axis] + i - 1]])]]
Blob(body) == [kind |-> "blob", body |-> body]
Missing(kind) == [kind |-> kind]
Array(v, odd, kind) ==
  [v3 |-> IF v = "a" THEN Blob(ArrayMeta[v]) ELSE Missing("not_found"),
   v2 |-> IF v = "a" THEN Missing("timeout") ELSE Blob(ArrayMeta[v]),
   chunks |-> [cid \in ChunkIds[v] |->
                 IF <<v, cid>> = odd THEN Missing(kind) ELSE Blob(ChunkCells[v][cid])]]
Store(odd, kind) == [v \in {"a", "b"} |-> Array(v, odd, kind)]
StoreSelects ==
  {Everything, Orthogonal(<<Indices(<<2, 0>>), Slice(1, 4, 2)>>), Orthogonal(<<Slice(3, 5, 1)>>)}
  \cup {Named([lev |-> l, row |-> w]) : l \in {All, Indices(<<1>>), Indices(<< >>), Indices(<<2, 2>>)},
                                        w \in {All, Indices(<<3, 0, 3>>), Slice(0, 2, 1)}}
  \cup {Named([row2 |-> Indices(<<4, 0>>)])}
BadStoreSelects ==
  {Named([row |-> Indices(<<4>>)]), Named([nowhere |-> All]), Orthogonal(<<Slice(0, 2, 0)>>)}
MCStoreReads ==
  {[store |-> Store(odd, kind), variables |-> {"a", "b"}, select |-> s,
    cells |-> ChunkCells, backwards |-> back, legal |-> s \notin BadStoreSelects] :
     odd \in {<<"a", <<0, 1>>>>, <<"b", <<2>>>>},
     kind \in {"cache_miss", "timeout"}, s \in StoreSelects \cup BadStoreSelects,
     back \in BOOLEAN}

(* Written periods with what they mean (nothing: refused), starts on the     *)
(* 31st, on a leap day and at noon, instants around the anchors.            *)
Period(date, hasTime, time, months, seconds) ==
  [date |-> date, hasTime |-> hasTime, time |-> time,
   means |-> [months |-> months, seconds |-> seconds]]
Periods ==
  {Period(<<<<1, "M">>>>, FALSE, << >>, 1, 0), Period(<<<<1, "Y">>, <<2, "M">>>>, FALSE, << >>, 14, 0),
   Period(<<<<10, "D">>>>, FALSE, << >>, 0, 10 * Day),
   Period(<<<<1, "M">>, <<1, "D">>>>, TRUE, <<<<1, "H">>>>, 1, Day + 3600),
   Period(<< >>, TRUE, <<<<90, "M">>>>, 0, 5400),
   Period(<< >>, TRUE, << >>, 0, 0), Period(<< >>, FALSE, << >>, 0, 0),
   Period(<<<<1, "D">>, <<1, "M">>>>, FALSE, << >>, 0, 0), Period(<<<<0, "D">>>>, FALSE, << >>, 0, 0),
   Period(<<<<NoNumber, "D">>>>, FALSE, << >>, 0, 0), Period(<<<<1000, "W">>>>, FALSE, << >>, 0, 0),
   Period(<<<<1, "H">>>>, FALSE, << >>, 0, 0)}
Starts == {DaysOf(2016, 1, 31) * Day, DaysOf(2016, 2, 29) * Day + 43200, DaysOf(2015, 12, 15) * Day}
Instants == {DaysOf(y, m, d) * Day + h : y \in {2015, 2016, 2017}, m \in {1, 2, 3, 12},
                                          d \in {1, 15, 28}, h \in {0, 43199, 43200}}
              \cup Starts
MCCadences ==
  {[date |-> p.date, hasTime |-> p.hasTime, time |-> p.time, means |-> p.means,
    start |-> s, t |-> t] : p \in Periods, s \in Starts, t \in Instants}

(* References modern and ancient, spelled in each way, and values that leave *)
(* 64 bits of nanoseconds at the second of three.                           *)
Ref(date, digits, clock, zone) ==
  [date |-> date, digits |-> digits, fourDigitsLater |-> FALSE, hourDigits |-> 2,
   clock |-> clock, clockGap |-> 1, zoneGap |-> 1, zone |-> zone,
   time |-> IF clock = "none" THEN <<0, 0, 0, 0>> ELSE IF clock = "hour" THEN <<2, 0, 0, 0>> ELSE <<2, 1, 1, 1>>,
   offset |-> IF zone = "signed" THEN 4 ELSE 0]
References ==
  {None, [Ref(<<2016, 5, 1>>, 4, "minutes", "name") EXCEPT !.clockGap = 2],
   [Ref(<<2016, 5, 1>>, 4, "minutes", "signed") EXCEPT !.zoneGap = 2],
   [Ref(<<2016, 5, 1>>, 4, "minutes", "name") EXCEPT !.time[3] = SecondsPerMinute]}
  \cup {Ref(date, 4, clock, zone) :
          date \in {<<2016, 5, 1>>, <<1600, 2, 29>>, <<1582, 10, 4>>, <<1582, 10, 10>>, <<2016, 2, 30>>},
          clock \in {"none", "hour", "minutes"}, zone \in {"name", "signed"}}
  \cup {Ref(<<1, 1, 1>>, 1, "none", "name"), Ref(<<0, 1, 1>>, 4, "none", "name")}
Whole(n) == [float |-> FALSE, finite |-> TRUE, n |-> n]
Float(n) == [float |-> TRUE, finite |-> TRUE, n |-> n]
TimeValues ==
  {<<Whole(0), Whole(4)>>, <<Whole(3), Whole(95000), Whole(1)>>, <<Whole(150000), Whole(150001)>>,
   <<Float(-9), Float(4), Float(12)>>, <<Float(800000), Float(1600008)>>,
   <<Whole(-200000)>>, <<Whole(735000), Whole(736000)>>, << >>,
   <<Whole(1), [Float(0) EXCEPT !.finite = FALSE]>>}
MCTimeAxes ==
  {[values |-> vs, units |-> [unit |-> unit, reference |-> ref], calendar |-> cal, fill |-> fill] :
     vs \in TimeValues, unit \in {"day", "days", "d", "hr", "seconds", "nanoseconds", "fortnights"},
     ref \in References, cal \in {"absent", "proleptic_gregorian", "noleap"},
     fill \in {None, 32}}

(* Environments: a task role, static keys, an endpoint, a signing switch and *)
(* a region in the variables; a bucket's statement in each spelling.        *)
Option(key, value) == {<< >>, <<<<key, value>>>>}
AmbientVars ==
  {role \o keys \o endpoint \o skip \o region :
     role \in Option("aws_role_arn", "r"), keys \in Option("aws_access_key_id", "k"),
     endpoint \in Option("aws_endpoint_url", "e"), region \in Option("aws_region", "eu"),
     skip \in Option("aws_skip_signature", "true") \cup Option("aws_skip_signature", "false")}
BucketSpecs ==
  {None, Refused, [b |-> None], [b |-> <<<<"region", None>>>>]}
  \cup {[b |-> skip \o region] :
          skip \in Option("skip_signature", "1") \cup Option("aws_skip_signature", "false")
                   \cup Option("token", "t"),
          region \in Option("region", "ap")}
CallerOptions ==
  {<< >>, <<<<"access_key_id", "k">>>>, <<<<"aws_skip_signature", "true">>>>, <<<<"endpoint", "e">>>>}
MCRoutes ==
  {[env |-> [vars |-> ambient, spec |-> spec, signedBuckets |-> signed, region |-> region],
    url |-> [scheme |-> scheme, bucket |-> "b"], explicit |-> explicit] :
     ambient \in AmbientVars, spec \in BucketSpecs, signed \in {{}, {"b"}},
     region \in {None, "us"}, scheme \in {"s3", "s3a"}, explicit \in CallerOptions}

(* Servers in each state, with and without the validator the caller has.    *)
Server(code, etag, cut) == [code |-> code, etag |-> etag, body |-> <<1, 2, 3>>, cut |-> cut]
Auths == {None, {[name |-> "token", valid |-> TRUE]}, {[name |-> "token", valid |-> FALSE]}}
Url(scheme, path) == [scheme |-> scheme, path |-> path]
Doc(status, job, href) == [status |-> status, job |-> job, href |-> href]
Reply(code, doc, took) == [code |-> code, doc |-> doc, took |-> took]
Poll(status) == Reply(200, Doc(status, None, None), 1)
CdsStores ==
  {[submit |-> submit, polls |-> polls, results |-> results,
    asset |-> asset] :
     submit \in {Reply(201, Doc("accepted", "j", None), 0), Reply(200, Doc("rejected", "j", None), 0),
                 Reply(200, Doc("running", None, None), 0), Reply(404, None, 0), Reply(200, None, 0)},
     polls \in {<<Poll("successful")>>, <<Poll("accepted"), Poll("running"), Poll("successful")>>,
                <<Poll("running"), Poll("failed")>>, <<Poll("running")>>,
                <<Poll("running"), Reply(404, None, 1)>>, <<Reply(200, Doc("running", None, None), 9), Poll("successful")>>},
     results \in {Reply(200, Doc("", None, "h"), 0), Reply(200, Doc("", None, None), 0), Reply(404, None, 0)},
     asset \in {Server(200, None, FALSE), Server(200, None, TRUE), Server(404, None, FALSE),
                Server(Unreachable, None, FALSE)}}
(* An object of three blocks and the answers to the HEAD and to each range.  *)
Etag(text, quoted) == [text |-> text, quoted |-> quoted]
Object(code) == [code |-> code, size |-> 3, body |-> <<1, 2, 3>>, etag |-> Etag("v", TRUE)]
MCFetches ==
  {[kind |-> "http", source |-> Server(code, tag, cut), etag |-> etag, auth |-> auth] :
     code \in {Unreachable, 200, 403, 404, 410, 500}, tag \in {None, "v", "w"}, cut \in BOOLEAN,
     etag \in {None, "v"}, auth \in Auths}
  \cup {[kind |-> "file", source |-> [a |-> <<1>>], url |-> url, etag |-> None] :
          url \in {Url("file", "a"), Url("file", "b"), Url("file", None), Url("http", "a")}}
  \cup {[kind |-> "cds", source |-> cds, auth |-> auth, etag |-> etag,
         url |-> [scheme |-> "cds", dataset |-> "era5", request |-> request],
         budget |-> [timeout |-> timeout, interval |-> 2]] :
          cds \in CdsStores, auth \in Auths, etag \in {None, "v"}, request \in {None, "{}"},
          timeout \in {0, 5}}
  \cup {[kind |-> "s3", source |-> [k \in 1..4 |-> Object(codes[k])], etag |-> etag, chunk |-> chunk] :
          codes \in [1..4 -> {200, 404, 500}],
          etag \in {None, Etag("v", FALSE), Etag("w", TRUE)}, chunk \in {1, 2, 3, 4}}

(* Two records to a time shard, 4 x 3 cells in shards of 2 x 2: the last     *)
(* shards are cut short.  Arrays over both, one or neither of the regions'   *)
(* dimensions, their time axis first, last or alone.                        *)
Arr(name, dims) == [name |-> name, dims |-> dims]
Schema(indexed) ==
  [len |-> [time |-> 3, y |-> 4, x |-> 3], chunk |-> [time |-> 1, y |-> 2, x |-> 1],
   shard |-> [time |-> 2, y |-> 2, x |-> 2], time |-> "time", fingerprint |-> "f",
   vars |-> <<Arr("full", <<"time", "y", "x">>), Arr("rows", <<"y", "time">>), Arr("sum", <<"time">>)>>,
   statics |-> <<Arr("mask", <<"y", "x">>), Arr("cols", <<"x">>), Arr("one", << >>)>>,
   indexed |-> indexed, timeCoord |-> TRUE]
Schemas == {Schema(FALSE), Schema(TRUE)}
BadSchemas ==
  {[Schema(FALSE) EXCEPT !.shard["y"] = 0], [Schema(TRUE) EXCEPT !.shard["y"] = 3],
   [Schema(FALSE) EXCEPT !.time = "z"], [Schema(FALSE) EXCEPT !.vars[3].dims = << >>],
   [Schema(TRUE) EXCEPT !.vars[3].name = "full"], [Schema(FALSE) EXCEPT !.statics[2].name = "time"],
   [Schema(FALSE) EXCEPT !.statics[2].dims = <<"time">>], [Schema(FALSE) EXCEPT !.vars[1].dims[2] = "z"]}

Part(start, stop) == [start |-> start, stop |-> stop]
Regions ==
  {[y |-> a] : a \in {Part(0, 2), Part(2, 4), Part(0, 4), Part(0, 1), Part(1, 4), Part(2, 2)}}
  \cup {[y |-> a, x |-> b] : a \in {Part(0, 2), Part(2, 4), Part(0, 4)}, b \in {Part(0, 2), Part(2, 3)}}
  \cup {WholeArray, [time |-> Part(0, 2)], [y |-> Part(2, 6)]}
Token(w, region) == [writer |-> w, region |-> region, fingerprint |-> "f"]
Quarters == <<Token(2, [y |-> Part(0, 2), x |-> Part(0, 2)]), Token(0, [y |-> Part(2, 4), x |-> Part(0, 2)]),
              Token(1, [y |-> Part(0, 2), x |-> Part(2, 3)]), Token(3, [y |-> Part(2, 4), x |-> Part(2, 3)])>>
Teams ==
  {<<Token(0, a), Token(1, b)>> : a, b \in Regions} \cup {<<Token(0, a)>> : a \in Regions}
  \cup {Quarters, SubSeq(Quarters, 1, 3), [Quarters EXCEPT ![4].writer = 2],
        [Quarters EXCEPT ![4].fingerprint = "g"],
        <<Token(0, [y |-> Part(0, 4), x |-> Part(0, 2)]), Token(1, [y |-> Part(0, 2), x |-> Part(2, 3)]),
          Token(2, [y |-> Part(2, 4), x |-> Part(2, 3)])>>}

Step(do, n) == [do |-> do, n |-> n]
Put(n) == Step("record", n)
FlushStep == Step("flush", 0)
Steps(indexed) ==
  {<<Put(0), FlushStep>>, <<Put(0), Put(1), Put(2), FlushStep>>,
   <<Put(0), FlushStep, Step("reopen", 1), Put(1), Put(2), FlushStep>>,
   <<Put(0), Put(1), Put(2), FlushStep, Step("reopen", 3)>>}
  \cup (IF ~indexed THEN {}
        ELSE {<<Put(2), FlushStep, Put(0), FlushStep, Put(1)>>, <<Put(1), Put(2), FlushStep>>,
              <<Put(1), FlushStep, Step("reopen", 0), Put(0), FlushStep>>})

Layout(schema, tokens, count, steps, legal) ==
  [schema |-> schema, tokens |-> tokens, count |-> count, steps |-> steps, legal |-> legal,
   all |-> FALSE, times |-> <<3, 5, 9>>,
   views |-> {WholeArray, [x |-> Part(1, 3), y |-> Part(1, 4)], [y |-> Part(3, 4)]}]
InOneCall(schema, dataset, times, legal) ==
  [Layout(schema, <<Token(0, WholeArray)>>, 1, <<Put(0), Put(1), Put(2)>>, legal)
     EXCEPT !.all = TRUE, !.times = times] @@ [dataset |-> dataset]
OneCallSchema == [Schema(FALSE) EXCEPT !.statics = << >>]
Dataset ==
  [k \in DOMAIN OneCallSchema.vars |->
     LET v == OneCallSchema.vars[k]
     IN  [name |-> v.name, dims |-> v.dims,
          data |-> Codes([d \in DOMAIN v.dims |-> IndexSeq(OneCallSchema.len[v.dims[d]])])]]
MCLayouts ==
  UNION {{Layout(schema, team, Len(team), steps, TRUE) : team \in Teams, steps \in Steps(schema.indexed)} :
           schema \in Schemas}
  \cup {Layout(schema, <<Token(0, WholeArray)>>, 2, <<Put(0), FlushStep>>, TRUE) : schema \in Schemas}
  \cup {Layout(schema, <<Token(0, WholeArray)>>, 1, <<Put(0), FlushStep>>, FALSE) : schema \in BadSchemas}
  \cup {InOneCall(OneCallSchema, Dataset, <<3, 5, 9>>, TRUE)}
  \cup {InOneCall(OneCallSchema, Dataset, times, FALSE) : times \in {<<3, 5>>, <<3, 3, 9>>}}
  \cup {InOneCall([OneCallSchema EXCEPT !.len["y"] = 2], Dataset, <<3, 5, 9>>, FALSE),
        InOneCall(OneCallSchema, [Dataset EXCEPT ![3].dims = <<"y">>], <<3, 5, 9>>, FALSE)}

(* Histories of three operations of an owner of two writers, in both modes,   *)
(* and of a single writer without statics (the first version's manifest).   *)
Timed(schema) == schema @@ [times |-> IF schema.indexed THEN <<3, 5, 9>> ELSE << >>]
Records(indices) == [k \in DOMAIN indices |-> [index |-> indices[k], t |-> <<3, 5, 9, 11>>[indices[k] + 1]]]
Writes(token, indices, statics, blobs) ==
  token @@ [records |-> Records(indices), statics |-> statics, blobs |-> blobs]
BlobOf(record) == [scope |-> Wire(record), record |-> record, key |-> "k"]
Top == Token(0, [y |-> Part(0, 2)])
Bottom == Token(1, [y |-> Part(2, 4)])
CommitOf(whole, tokens) == [do |-> "commit", whole |-> whole, tokens |-> tokens]
Together(indices, statics, mine, blobs) ==
  CommitOf(TRUE, <<Writes(Bottom, indices, statics \ mine, blobs), Writes(Top, indices, statics, {})>>)
TeamOps ==
  {Together(<<0>>, {}, {}, {BlobOf(0)}), Together(<<0, 1>>, {"mask", "cols"}, {"cols"}, {}),
   Together(<<1>>, {"one"}, {"one"}, {BlobOf(None)}), Together(<<1, 2>>, {}, {}, {BlobOf(2)}),
   Together(<<2>>, {"cols"}, {}, {}), Together(<<2>>, {"mask"}, {"mask"}, {}), Together(<<3>>, {}, {}, {}),
   CommitOf(FALSE, <<Writes(Top, <<0>>, {}, {})>>),
   CommitOf(TRUE, <<Writes(Top, <<0>>, {}, {}), Writes(Bottom, <<0, 1>>, {}, {})>>),
   [do |-> "invalidate", records |-> {0}], [do |-> "invalidate", records |-> {1, 2}],
   [do |-> "invalidate", records |-> {3}],
   [do |-> "statics", statics |-> {"mask"}], [do |-> "statics", statics |-> {"full"}],
   [do |-> "truncate", at |-> 3], [do |-> "truncate", at |-> 8], [do |-> "truncate", at |-> 2]}
AloneOps ==
  {CommitOf(TRUE, <<Writes(Token(0, WholeArray), indices, {}, {})>>) :
     indices \in {<<0>>, <<1>>, <<0, 1>>, <<1, 2>>, <<2>>}}
  \cup {[do |-> "truncate", at |-> at] : at \in {2, 3, 8}}
History(schema, single, region, count, ops) ==
  [schema |-> Timed(schema), single |-> single, region |-> region, count |-> count,
   times |-> IF schema.indexed THEN <<3, 5, 9>> ELSE <<3, 5, 9, 11>>, keys |-> {"k"}, ops |-> ops]
MCHistories ==
  {History(schema, FALSE, Top.region, 2, ops) :
     schema \in Schemas, ops \in [1..3 -> TeamOps] \cup {<< >>}}
  \cup {History([Schema(indexed) EXCEPT !.statics = << >>], TRUE, WholeArray, 1, ops) :
           indexed \in BOOLEAN, ops \in [1..3 -> AloneOps]}
=============================================================================
