-------------------------- MODULE ProviderCadence --------------------------
(***************************************************************************)
(* One provider of rust/src/provider.rs and its cadence: the buffer, the   *)
(* decoded files it keeps (LruFiles), the memo of decoded time axes        *)
(* (rust/src/time_axis.rs), and the disk cache a prefetch warms.  refresh, *)
(* materialize and prefetch take the provider exclusively, so each call is *)
(* one action; a file read inside it may fail.  Files do not change while  *)
(* the provider lives, and a record is named by its file and its position. *)
(***************************************************************************)
EXTENDS Calendar, FiniteSets, FiniteSetsExt

CONSTANTS
  Sources,   \* the loaders: [start, end, freq, period, bracket, layout]
  None,      \* no anchor, no end, no axis
  Probes(_), \* the instants a loader is refreshed at
  Peeks(_),  \* and sampled at beside its buffer
  Horizon(_) \* its run windows <<from, to>>, or None

ASSUME SourcesAssumption ==
  /\ None \notin Int
  /\ None \notin [recs : Seq([file : Int, rec : Int]), coords : Int, times : Seq(Int)]
  /\ \A s \in Sources :
       /\ s.start \in Int /\ s.end \in Int \cup {None}
       /\ IsPeriod(s.freq) /\ IsPeriod(s.period)
       /\ s.bracket \in BOOLEAN
       /\ Probes(s) \subseteq Int /\ Peeks(s) \subseteq Int
       /\ \A w \in Horizon(s) : w # None => w \in Int \X Int

VARIABLES
  src,      \* the loader bound
  window,   \* its run window, or None
  files,    \* decoded files kept, most recently used last: [anchor, addr]
  memo,     \* decoded axes by the address of their file: [addr, of]
  current,  \* the cadence anchor in the buffer, or None
  buffer,   \* the sample in the buffer, or None
  cached,   \* anchors of the files a prefetch left in the disk cache
  warmed,   \* the window a prefetch has warmed, or None
  online,
  last      \* the call that returned last, and what it decoded
vars == <<src, window, files, memo, current, buffer, cached, warmed, online, last>>

(* --- SourceTemporal ---------------------------------------------------- *)
CadenceAnchor(t)  == Floor(src.freq, src.start, t)
NextRecordAnchor(t) ==
  Anchor(src.freq, src.start, FloorIndex(src.freq, src.start, t) + 1)
FileAnchor(t)     == Floor(src.period, src.start, t)
NextFileAnchor(t) ==
  Anchor(src.period, src.start, FloorIndex(src.period, src.start, t) + 1)
RecordInFile(anchor, fa) ==
  FloorIndex(src.freq, src.start, anchor) - CeilIndex(src.freq, src.start, fa)

(* --- the files of a source (external) ----------------------------------- *)
(* What a file holds, record by record: the anchors of its period, whole,  *)
(* without the first, a middle or the last one, or backwards; `bare` is    *)
(* whole and has no axis to decode.                                         *)
AnchorsBetween(from, to) ==
  [i \in 1..(to - from) |-> Anchor(src.freq, src.start, from + i - 1)]
AnchorsIn(fa) ==
  AnchorsBetween(CeilIndex(src.freq, src.start, fa),
                 CeilIndex(src.freq, src.start, NextFileAnchor(fa)))
LaidOut(all) ==
  CASE src.layout = "trimmed" /\ Len(all) > 1 -> Tail(all)
    [] src.layout = "gap" /\ Len(all) > 2 -> RemoveAt(all, 2)
    [] src.layout = "cut" /\ Len(all) > 1 -> Front(all)
    [] src.layout = "backwards" -> Reverse(all)
    [] OTHER -> all
Records(fa) == LaidOut(AnchorsIn(fa))
HasAxis == src.layout # "bare"
Published(fa) == fa >= src.start /\ (src.end = None \/ fa < src.end)

(* --- reading one file -------------------------------------------------- *)
(* A call in progress: the provider's files and memo, the file got last,   *)
(* what the call holds alive, and the record found.  `lru` is FALSE for     *)
(* the fresh reads of sample_at and of a per-call selection.                *)
\* (mutant) One file kept, for brackets too.
CapOne == 1
Cap == IF src.bracket THEN 2 ELSE 1

Used(c) == {f.addr : f \in ToSet(c.files)} \cup c.held
\* (mutant) The memo keeps a plain pointer: its file's address may come again.
FreshAddrPlain(c) == Min((1..8) \ Used(c))

(* An address is free again when no one holds the file and the memo has no *)
(* weak pointer to it; the allocator that reuses it first is the worst.     *)
FreshAddr(c) == Min((1..8) \ (Used(c) \cup {m.addr : m \in c.memo}))

Got(c, addr) == [c EXCEPT !.addr = addr, !.held = @ \cup {addr}, !.ok = TRUE]

(* The file at i becomes the one used last; a new one pushes out the first. *)
Touched(fs, i) == Append(RemoveAt(fs, i), fs[i])
Pushed(fs, f) ==
  LET kept == Append(fs, f)
      over == Len(kept) - Cap
  IN  IF over > 0 THEN SubSeq(kept, over + 1, Len(kept)) ELSE kept
Decode(c, fa, addr) ==
  Got([c EXCEPT !.files = IF c.lru THEN Pushed(@, [anchor |-> fa, addr |-> addr]) ELSE @,
                !.decoded = @ \cup {fa}], addr)

(* LruFiles::file and FreshFiles::file.                                    *)
Kept(c, fa) == {i \in DOMAIN c.files : c.lru /\ c.files[i].anchor = fa}
GetFile(c, fa, down) ==
  IF Kept(c, fa) # {}
  THEN LET i == Min(Kept(c, fa))
       IN  Got([c EXCEPT !.files = Touched(@, i)], c.files[i].addr)
  ELSE IF fa \in down THEN [c EXCEPT !.ok = FALSE]
  ELSE Decode(c, fa, FreshAddr(c))

(* AxisMemo::times: by the address; a new entry drops those of dead files. *)
Memoise(c, fa) ==
  IF \E m \in c.memo : m.addr = c.addr THEN c
  ELSE [c EXCEPT !.memo = {m \in @ : m.addr \in Used(c)}
                            \cup {[addr |-> c.addr, of |-> fa]}]
Times(c) ==
  LET m == CHOOSE e \in c.memo : e.addr = c.addr
  IN  IF HasAxis THEN Records(m.of) ELSE << >>

(* AxisMemo::record_index: the latest at or before the anchor, the first   *)
(* in file order, when the anchor is in the span; else the cadence offset.  *)
RecordIndex(times, anchor, fa) ==
  LET before == {i \in DOMAIN times : times[i] <= anchor}
      latest == {i \in before : \A j \in before : times[j] <= times[i]}
  IN  IF before # {} /\ \E i \in DOMAIN times : anchor <= times[i]
      THEN Min(latest) - 1 ELSE RecordInFile(anchor, fa)

(* file_record: a record before its file is an error of the call.          *)
Found(c, rec) == [c EXCEPT !.rec = rec, !.ok = rec >= 0]
FindIn(c, anchor, fa) == Found(c, RecordIndex(Times(c), anchor, fa))
FindRecord(c, anchor, fa) == FindIn(Memoise(c, fa), anchor, fa)
Locate(c, anchor, fa) == IF c.ok THEN FindRecord(c, anchor, fa) ELSE c

(* --- sampling ----------------------------------------------------------- *)
Call(lru) == [files |-> files, memo |-> memo, held |-> {}, addr |-> 0,
              rec |-> 0, ok |-> TRUE, decoded |-> {}, lru |-> lru]

HasRecord(fa, rec) == rec < Len(Records(fa))
RecordOf(fa, rec) == [file |-> fa, rec |-> rec]
NoSample(c) == [call |-> [c EXCEPT !.ok = FALSE], sample |-> None]

OneOf(fa, c) ==
  IF ~c.ok \/ ~HasRecord(fa, c.rec) THEN NoSample(c)
  ELSE [call |-> c, sample |-> [recs |-> <<RecordOf(fa, c.rec)>>,
                                coords |-> fa, times |-> << >>]]
SampleOne(anchor, fa, c, down) ==
  OneOf(fa, Locate(GetFile(c, fa, down), anchor, fa))

(* The record of the anchor, rec0, and of the next one, if it is reached;   *)
(* else the first twice, with equal times.                                  *)
Bracketed(anchor, fa, rec0, c, second, next) ==
  [call |-> [c EXCEPT !.ok = TRUE],
   sample |-> [recs |-> <<RecordOf(fa, rec0), second>>,
               coords |-> fa, times |-> <<anchor, next>>]]
Reach(anchor, fa, rec0, next, fa1, c) ==
  IF ~HasRecord(fa, rec0) THEN NoSample(c)
  ELSE IF c.ok /\ HasRecord(fa1, c.rec)
  THEN Bracketed(anchor, fa, rec0, c, RecordOf(fa1, c.rec), next)
  ELSE Bracketed(anchor, fa, rec0, c, RecordOf(fa, rec0), anchor)
OpenNext(c, fa, fa1, down) == IF fa1 = fa THEN c ELSE GetFile(c, fa1, down)
Second(anchor, fa, c, next, fa1, down) ==
  IF ~c.ok THEN NoSample(c)
  ELSE Reach(anchor, fa, c.rec, next, fa1,
             IF src.end # None /\ next >= src.end THEN [c EXCEPT !.ok = FALSE]
             ELSE Locate(OpenNext(c, fa, fa1, down), next, fa1))
SampleBracket(anchor, fa, c, next, down) ==
  Second(anchor, fa, Locate(GetFile(c, fa, down), anchor, fa),
         next, FileAnchor(next), down)

SampleAnchor(anchor, lru, down) ==
  IF src.bracket
  THEN SampleBracket(anchor, FileAnchor(anchor), Call(lru), NextRecordAnchor(anchor), down)
  ELSE SampleOne(anchor, FileAnchor(anchor), Call(lru), down)

(* --- the environment: what a read cannot get -------------------------- *)
(* A prefetched blob is served; else the source must have the file and,    *)
(* online, must answer.  (What a read leaves in the disk cache is not       *)
(* counted on.)                                                             *)
Wanted(t) ==
  {FileAnchor(CadenceAnchor(t)), FileAnchor(NextRecordAnchor(CadenceAnchor(t)))}
Unreadable(fs) ==
  {bad \in SUBSET fs : \A fa \in fs :
     /\ fa \in cached => fa \notin bad
     /\ fa \notin cached /\ ~(online /\ Published(fa)) => fa \in bad}

(* --- the operations ------------------------------------------------------- *)
LowerBound ==
  IF window # None /\ window[1] > src.start THEN window[1] ELSE src.start

Note(op, anchor, c) ==
  last' = [op |-> op, at |-> anchor, ok |-> c.ok, decoded |-> c.decoded]

(* refresh without a selection, and materialize, which refreshes at the    *)
(* lower bound: nothing in the same interval, and nothing moves but the    *)
(* files when the sample fails.                                             *)
Keeps(anchor, got) ==
  /\ files' = got.call.files
  /\ memo' = got.call.memo
  /\ current' = IF got.call.ok THEN anchor ELSE current
  /\ buffer' = IF got.call.ok THEN got.sample ELSE buffer
  /\ Note("refresh", anchor, got.call)
RefreshTo(t) ==
  /\ UNCHANGED <<src, window, cached, warmed, online>>
  /\ \/ /\ current = CadenceAnchor(t)
        /\ UNCHANGED <<files, memo, current, buffer, last>>
     \/ /\ current # CadenceAnchor(t)
        /\ \E down \in Unreadable(Wanted(t)) :
             Keeps(CadenceAnchor(t), SampleAnchor(CadenceAnchor(t), TRUE, down))
Refresh == \E t \in Probes(src) : RefreshTo(t)
Materialize == RefreshTo(LowerBound)

(* sample_at, and refresh with a selection of its own: fresh files, and    *)
(* neither the buffer nor the kept files are touched.                       *)
Peeked(anchor, call) == memo' = call.memo /\ Note("sample", anchor, call)
SampleAt ==
  /\ \E t \in Peeks(src) : \E down \in Unreadable(Wanted(t)) :
       Peeked(CadenceAnchor(t), SampleAnchor(CadenceAnchor(t), FALSE, down).call)
  /\ UNCHANGED <<src, window, files, current, buffer, cached, warmed, online>>

\* (mutant) The first file anchored inside the window is the first fetched.
FileAnchorsInside(from, to) ==
  LET k0 == CeilIndex(src.period, src.start, from)
      upto[k \in Int] == IF Anchor(src.period, src.start, k) >= to THEN << >>
                         ELSE <<Anchor(src.period, src.start, k)>> \o upto[k+1]
  IN  upto[k0]

(* Every file that covers the run window, or an error at the first that    *)
(* cannot be had.                                                           *)
FileAnchorsFrom(from, to) ==
  LET k0 == FloorIndex(src.period, src.start, from)
      upto[k \in Int] == IF Anchor(src.period, src.start, k) >= to THEN << >>
                         ELSE <<Anchor(src.period, src.start, k)>> \o upto[k+1]
  IN  upto[k0]
Prefetch ==
  /\ window # None
  /\ warmed = None
  /\ LET from == IF window[1] > src.start THEN window[1] ELSE src.start
         order == FileAnchorsFrom(from, window[2])
     IN  \E down \in Unreadable(ToSet(order)) :
           LET failed == {i \in DOMAIN order : order[i] \in down}
               upto == IF failed = {} THEN Len(order) ELSE Min(failed) - 1
           IN  /\ cached' = cached \cup {order[i] : i \in 1..upto}
               /\ warmed' = IF failed = {} THEN window ELSE None
               /\ last' = [op |-> "prefetch", at |-> None, ok |-> failed = {},
                           decoded |-> {}]
  /\ UNCHANGED <<src, window, files, memo, current, buffer, online>>

(* The network goes for good, after a prefetch: before one, any read that  *)
(* fails says the same.                                                     *)
GoOffline ==
  /\ warmed # None /\ online
  /\ online' = FALSE
  /\ UNCHANGED <<src, window, files, memo, current, buffer, cached, warmed, last>>

(* --- what a prefetch group warms for a sample, and the schedule -------- *)
\* (mutant) The covering file only, for brackets too.
WarmFloor(t) == {FileAnchor(CadenceAnchor(t))}

WarmFiles(t) ==
  LET anchor == CadenceAnchor(t)
      next == NextRecordAnchor(anchor)
  IN  {FileAnchor(anchor)} \cup
        IF src.bracket /\ (src.end = None \/ next < src.end)
        THEN {FileAnchor(next)} ELSE {}

RefreshTimes ==
  LET upper == IF window # None THEN window[2] ELSE src.end
      k0 == CeilIndex(src.freq, src.start, LowerBound)
      from[k \in Int] == IF Anchor(src.freq, src.start, k) >= upper THEN << >>
                         ELSE <<Anchor(src.freq, src.start, k)>> \o from[k+1]
  IN  IF upper = None THEN << >> ELSE from[k0]

Init ==
  /\ src \in Sources
  /\ window \in Horizon(src)
  /\ files = << >> /\ memo = {}
  /\ current = None /\ buffer = None
  /\ cached = {} /\ warmed = None
  /\ online = TRUE
  /\ last = [op |-> "new", at |-> None, ok |-> TRUE, decoded |-> {}]

Next == Refresh \/ Materialize \/ SampleAt \/ Prefetch \/ GoOffline
Spec == Init /\ [][Next]_vars

(* --- properties ------------------------------------------------------------ *)
TypeOK ==
  /\ src \in Sources
  /\ Len(files) <= Cap
  /\ \A i, j \in DOMAIN files : i # j =>
       files[i].anchor # files[j].anchor /\ files[i].addr # files[j].addr
  /\ online \in BOOLEAN
  /\ (current = None) = (buffer = None)

(* The record r is the one due at t: of its file's records, the latest at  *)
(* or before t (provider.rs sample_anchor, time_axis.rs record_index).      *)
Due(r, t) ==
  LET times == Records(FileAnchor(t))
      before == {i \in DOMAIN times : times[i] <= t}
  IN  /\ r.file = FileAnchor(t)
      /\ before # {} => times[r.rec + 1] = Max({times[i] : i \in before})

(* Whatever reads and calls failed, and whichever address a decoded file   *)
(* got, the provider keeps at most its two files (one, without a bracket),  *)
(* none of them twice, and the buffer is the sample of the anchor the       *)
(* provider says it holds: the record due, its file's coordinates, and for  *)
(* a bracket the record of the next anchor with its time, or the first one  *)
(* twice.                                                                   *)
BufferIsOfAnchor ==
  /\ TypeOK
  /\ current # None =>
       /\ buffer.coords = FileAnchor(current)
       /\ Due(buffer.recs[1], current)
       /\ src.bracket =>
            \/ /\ buffer.times = <<current, NextRecordAnchor(current)>>
               /\ Due(buffer.recs[2], NextRecordAnchor(current))
            \/ /\ buffer.times = <<current, current>>
               /\ buffer.recs[2] = buffer.recs[1]

(* The step is a refresh that moved to another anchor, or tried to.         *)
Refreshes == last' # last /\ last'.op = "refresh"

(* Going on from a buffer, a refresh never decodes again the file of its   *)
(* anchor when the buffer was drawn from it: a sweep decodes each file      *)
(* once, across the seams too (LruFiles, two files for a bracket).          *)
SeamDecodesOnce ==
  [][last.op = "refresh" /\ last.ok /\ Refreshes =>
       \A i \in DOMAIN buffer.recs :
         buffer.recs[i].file = FileAnchor(last'.at) =>
           FileAnchor(last'.at) \notin last'.decoded]_vars

(* Once a prefetch has warmed the run window, every refresh whose anchor   *)
(* and next anchor lie in it is whole, offline too: it fails only for a     *)
(* record its file does not hold, and is cut to one record only for the     *)
(* end of data or such a record.  (At the two edges of the window it may    *)
(* need a file the prefetch did not cover.)                                 *)
Holds(t) ==
  \/ ~HasAxis
  \/ HasRecord(FileAnchor(t), RecordInFile(t, FileAnchor(t)))
  \/ t <= Max(ToSet(Records(FileAnchor(t))))
WarmedRunIsWhole ==
  [][Refreshes /\ warmed # None =>
       LET anchor == CadenceAnchor(last'.at)
           next == NextRecordAnchor(anchor)
       IN  (warmed[1] <= anchor /\ src.start <= anchor /\ next < warmed[2]
              /\ (src.end = None \/ next < src.end) /\ Holds(anchor)) =>
             /\ last'.ok
             /\ src.bracket /\ Holds(next) => buffer'.times = <<anchor, next>>
    ]_vars

(* The files a sample decodes are among those warm_files names for it, so  *)
(* a group that warms ahead of its decoders leaves them nothing to fetch;   *)
(* and the schedule, from the lower bound, meets every cadence interval of  *)
(* the window once (refresh_times).                                         *)
WarmAndScheduleCover ==
  /\ last.op \in {"refresh", "sample"} => last.decoded \subseteq WarmFiles(last.at)
  /\ LET held == {CadenceAnchor(LowerBound)} \cup ToSet(RefreshTimes)
         upper == IF window # None THEN window[2] ELSE src.end
     IN  /\ upper # None => \A t \in Probes(src) :
              LowerBound <= t /\ t < upper => CadenceAnchor(t) \in held
         /\ \A i \in 1..(Len(RefreshTimes) - 1) :
              RefreshTimes[i] < RefreshTimes[i+1]

=============================================================================
