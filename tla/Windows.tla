------------------------------ MODULE Windows ------------------------------
(***************************************************************************)
(* Several windows of one record from one decode (rust/src/provider.rs,    *)
(* sample_windows_at): the windows' union by name is read once, and each    *)
(* window gathered back out of it.  The contract is that window i is what   *)
(* a provider bound to it alone would have sampled.                         *)
(***************************************************************************)
EXTENDS NetcdfReader

(* A loader: the select it bakes, its record dimension (none: constant).    *)
CheckWindow(loader, w) ==
  /\ loader.baked.kind = "everything"
  /\ w.kind = "named"
  /\ loader.timeDim \notin DOMAIN w.axes

SliceRecord(dataset, timeDim, record) ==
  [name \in DOMAIN dataset |->
     LET f == dataset[name]
     IN  IF f.dims # << >> /\ f.dims # <<name>> /\ Head(f.dims) = timeDim
         THEN SelectLeading(f, record) ELSE f]

(* sample_at of a provider whose baked select is `select`.                  *)
AtRecord(dataset, timeDim, record) ==
  IF dataset = Refused THEN Refused
  ELSE AllOrNone(SliceRecord(dataset, timeDim, record))
Sample(loader, file, select, record) ==
  AtRecord(ReadNative(file, loader.variables, select, None), loader.timeDim, record)

SampleWindowed(loader, file, w, record) ==
  IF ~CheckWindow(loader, w) THEN Refused
  ELSE Sample(loader, file, w, record)

\* (mutant) a window that leaves a dimension out adds nothing to its union
UnionOfNamed(windows) ==
  LET dims == UNION {DOMAIN windows[i].axes : i \in DOMAIN windows}
      Naming(d) == {i \in DOMAIN windows : d \in DOMAIN windows[i].axes}
      Narrowed(i, d) == UnboundedIndices(windows[i].axes[d])
  IN  IF \E d \in dims : \E i \in Naming(d) : Narrowed(i, d) = Refused
      THEN Refused
      ELSE [d \in dims |->
              IF \E i \in Naming(d) : Narrowed(i, d) = None THEN All
              ELSE Indices(SetToSortSeq(UNION {ToSet(Narrowed(i, d)) :
                                                 i \in Naming(d)}, <))]
(* Every named dimension: the sorted union of its indices when all windows   *)
(* narrow it, else the whole of it.                                         *)
Union(windows) ==
  LET dims == UNION {DOMAIN windows[i].axes : i \in DOMAIN windows}
      Narrowed(i, d) == IF d \in DOMAIN windows[i].axes
                        THEN UnboundedIndices(windows[i].axes[d]) ELSE None
  IN  IF \E i \in DOMAIN windows, d \in dims : Narrowed(i, d) = Refused
      THEN Refused
      ELSE [d \in dims |->
              IF \E i \in DOMAIN windows : Narrowed(i, d) = None THEN All
              ELSE Indices(SetToSortSeq(UNION {ToSet(Narrowed(i, d)) :
                                                 i \in DOMAIN windows}, <))]

PlanWindows(loader, windows) ==
  IF \E i \in DOMAIN windows : ~CheckWindow(loader, windows[i]) THEN Refused
  ELSE Union(windows)

AxisLen(dataset, dim) ==
  LET carriers == {name \in DOMAIN dataset : dim \in ToSet(dataset[name].dims)}
      f == dataset[CHOOSE name \in carriers : TRUE]
  IN  IF carriers = {} THEN Refused
      ELSE f.shape[CHOOSE axis \in DOMAIN f.dims : f.dims[axis] = dim]

(* The positions of a window's indices in the union that was read.          *)
Picks(file, dataset, axes, union, dim) ==
  LET wanted == UnboundedIndices(axes[dim])
  IN  IF union[dim] # All
      THEN [i \in DOMAIN wanted |->
              CHOOSE k \in 0..Len(union[dim].list) - 1 :
                union[dim].list[k + 1] = wanted[i]]
      ELSE IF dim = "time" \/ (dim \in DOMAIN dataset /\ IsTimeDim(file, dim))
      THEN Refused
      ELSE ResolveIn(axes[dim], AxisLen(dataset, dim))

SliceWindow(file, dataset, w, union) ==
  LET narrowed == {d \in DOMAIN w.axes :
                     /\ UnboundedIndices(w.axes[d]) # None
                     /\ union[d] # All \/ AxisLen(dataset, d) # Refused}
      picks == [d \in narrowed |-> Picks(file, dataset, w.axes, union, d)]
  IN  IF Refused \in {picks[d] : d \in narrowed} THEN Refused
      ELSE TakeAllByName(dataset, picks)

SliceWindows(file, whole, windows, plan) ==
  IF whole = Refused THEN Refused
  ELSE AllOrNone([i \in DOMAIN windows |-> SliceWindow(file, whole, windows[i], plan)])
SampleWindowsAt(loader, file, windows, record) ==
  LET plan == PlanWindows(loader, windows)
  IN  IF plan = Refused \/ windows = << >> THEN plan
      ELSE SliceWindows(file, Sample(loader, file, [kind |-> "named", axes |-> plan], record),
                        windows, plan)
=============================================================================
