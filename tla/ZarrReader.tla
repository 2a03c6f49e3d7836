----------------------------- MODULE ZarrReader -----------------------------
(***************************************************************************)
(* The zarr reader over a store of chunk objects (rust/src/format/zarr.rs,  *)
(* zarr_store.rs).  An array is its metadata and an answer of the cache for *)
(* every object of it; chunks may be fetched in any order.                  *)
(***************************************************************************)
EXTENDS Selection

CONSTANT Fill   \* the value of a cell no chunk object holds

(* --- objects through the cache ----------------------------------------- *)
(* A missing object is absence; any other failure is an error.              *)
FetchWhole(answer) ==
  CASE answer.kind = "blob" -> answer.body
    [] answer.kind \in {"cache_miss", "not_found"} -> None
    [] OTHER -> Refused

(* The quirk of a v2 document whose dimension separator is null.            *)
SanitizeV2(meta) == [meta EXCEPT !.separator = IF @ = "null" THEN "absent" ELSE @]

(* zarrs: the v3 document, else the v2 one, the null separator unreadable.  *)
OpenArray(array) ==
  LET v3 == FetchWhole(array.v3)
      v2 == FetchWhole(array.v2)
      read == IF v2 \in {None, Refused} THEN Refused ELSE SanitizeV2(v2)
  IN  IF v3 # None THEN v3
      ELSE IF read = Refused THEN Refused
      ELSE IF read.separator = "null" THEN Refused ELSE read

(* The document's names when every axis has one, else the attribute's.      *)
DimNames(meta) ==
  LET rank == Len(meta.shape)
      Complete(names) == Len(SelectSeq(names, LAMBDA n : n # None)) = rank
  IN  IF Complete(meta.names) THEN SelectSeq(meta.names, LAMBDA n : n # None)
      ELSE IF Complete(meta.attribute)
      THEN SelectSeq(meta.attribute, LAMBDA n : n # None)
      ELSE [i \in 1..rank |-> <<"dim", i - 1>>]

(* --- selections -------------------------------------------------------- *)
AxisList(select, dims, shape, axis) ==
  IF select.kind = "orthogonal" /\ Len(select.axes) = Len(shape)
  THEN ResolveIn(select.axes[axis], shape[axis])
  ELSE IF select.kind = "named" /\ dims[axis] \in DOMAIN select.axes
  THEN IF dims[axis] = "time" /\ select.axes[dims[axis]] # All THEN Refused
       ELSE ResolveIn(select.axes[dims[axis]], shape[axis])
  ELSE IndexSeq(shape[axis])

ArraySelection(select, dims, shape) ==
  LET lists == [axis \in DOMAIN shape |-> AxisList(select, dims, shape, axis)]
  IN  IF Refused \in ToSet(lists) THEN Refused ELSE lists

(* --- chunks ------------------------------------------------------------ *)
\* (mutant) the chunk of a list's ends, and those between
NeededBetween(lists, chunk) ==
  {cid \in [DOMAIN lists -> 0..3] :
     \A axis \in DOMAIN lists :
       lists[axis] # << >> /\ cid[axis] \in
         (Head(lists[axis]) \div chunk[axis])..(Last(lists[axis]) \div chunk[axis])}
NeededChunks(lists, chunk) ==
  LET Ids(axis) == {lists[axis][i] \div chunk[axis] : i \in DOMAIN lists[axis]}
  IN  {cid \in [DOMAIN lists -> UNION {Ids(axis) : axis \in DOMAIN lists}] :
         \A axis \in DOMAIN lists : cid[axis] \in Ids(axis)}

(* A chunk at the edge is clipped to the array.                             *)
ChunkShape(meta, cid) ==
  [axis \in DOMAIN cid |->
     LET left == meta.shape[axis] - cid[axis] * meta.chunk[axis]
     IN  IF left < meta.chunk[axis] THEN left ELSE meta.chunk[axis]]

(* Along an axis, the output positions a chunk coordinate owns and the       *)
(* place of each within the chunk.                                          *)
ChunkOwners(lists, chunk, axis, c) ==
  {<<pos - 1, lists[axis][pos] % chunk[axis]>> :
     pos \in {p \in DOMAIN lists[axis] : lists[axis][p] \div chunk[axis] = c}}

ScatterChunk(out, cells, cid, meta, lists) ==
  LET shape == [axis \in DOMAIN lists |-> Len(lists[axis])]
      owned == {f \in [DOMAIN lists -> UNION {ChunkOwners(lists, meta.chunk, axis, cid[axis]) :
                                                axis \in DOMAIN lists}] :
                  \A axis \in DOMAIN lists :
                    f[axis] \in ChunkOwners(lists, meta.chunk, axis, cid[axis])}
      To(f) == Offset(shape, [axis \in DOMAIN f |-> f[axis][1]]) + 1
      From(f) == Offset(ChunkShape(meta, cid), [axis \in DOMAIN f |-> f[axis][2]]) + 1
  IN  [n \in DOMAIN out |->
         IF \E f \in owned : To(f) = n
         THEN cells[From(CHOOSE f \in owned : To(f) = n)] ELSE out[n]]

(* zarrs: an absent chunk object is the fill value throughout.              *)
RetrieveChunk(array, meta, cid) ==
  LET body == FetchWhole(array.chunks[cid])
  IN  IF body = None THEN [n \in 1..Volume(ChunkShape(meta, cid)) |-> Fill] ELSE body

(* The workers' chunks, in the order they were scattered.                   *)
ReadChunks(array, meta, lists, order) ==
  LET cells(cid) == RetrieveChunk(array, meta, cid)
      empty == [n \in 1..Volume([axis \in DOMAIN lists |-> Len(lists[axis])]) |-> 0]
  IN  IF \E i \in DOMAIN order : cells(order[i]) = Refused THEN Refused
      ELSE FoldLeft(LAMBDA out, cid : ScatterChunk(out, cells(cid), cid, meta, lists),
                    empty, order)

(* Metadata and selections of every array first, then their chunks; `order`  *)
(* lists the chunks of all arrays as the pool happened to bring them.        *)
ReadArrays(store, variables, select, order) ==
  LET meta == [v \in variables |-> OpenArray(store[v])]
      dims == [v \in variables |-> DimNames(meta[v])]
      lists == [v \in variables |-> ArraySelection(select, dims[v], meta[v].shape)]
      data == [v \in variables |->
                 ReadChunks(store[v], meta[v], lists[v],
                            SelectSeq(order, LAMBDA cid : cid \in NeededChunks(lists[v], meta[v].chunk)))]
  IN  IF \/ variables = {}
         \/ \E v \in variables : meta[v] = Refused
         \/ \E v \in variables : ~meta[v].float
         \/ /\ select.kind = "named"
            /\ ~(DOMAIN select.axes \subseteq UNION {ToSet(dims[v]) : v \in variables})
         \/ Refused \in {lists[v] : v \in variables}
         \/ Refused \in {data[v] : v \in variables}
      THEN Refused
      ELSE [v \in variables |->
              [dims |-> dims[v], data |-> data[v],
               shape |-> [axis \in DOMAIN lists[v] |-> Len(lists[v][axis])]]]
=============================================================================
