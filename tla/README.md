# EarthSciIO: a TLA+ model of the cache, the provider, the readers and the streaming writer

EarthSciIO downloads scientific data once, keeps it in a content-addressed
cache that Rust, Python and Julia processes share, decodes it, samples it on a
cadence and writes simulation output to Zarr stores. This directory holds
TLA+ modules for the parts of it that are concurrent, or whose arithmetic is
hard to get right, the TLC configurations that check them on small instances,
and theorems about them that TLAPS checks for every value of the constants.

Paths below are relative to the repository root; `src/` in `PROJECT.json` is
that root.

## 1. The system

| Part | State it keeps | Operations | Runs concurrently with |
|---|---|---|---|
| Cache fetcher (`rust/src/cache.rs`, `store/local.rs`) | `<key>.<ext>`, `<key>.meta.json`, `<key>.lock` on disk | `fetch`: look, revalidate, lock, look again, download, commit or touch | threads and processes on the same cache root; sources that change; files that are deleted |
| The same entry from Python and Julia (`earthsciio/backends/local.py`, `cache.py`, `julia/src/store.jl`, `cache.jl`) | the same files | the same, with their own locks and commits | each other |
| Validation ladder and rung 0 (`rust/src/validate.rs`) | the memo of digests, under a mutex | `decide`, `is_fresh`, `SourceRevalidator::state` | readers of one `Cache`; writers of the source file |
| Prefetch group (`rust/src/prefetch.rs`) | `State` under one mutex, two condition variables | `start`, `take`, `cancel`, `close`, drop; worker and warm-up threads | consumer, decode threads, warm-up thread |
| Shared decoded files (`SharedFiles` there) | list of two decoded files, set of files being decoded | `file` | the decode threads |
| Streaming Zarr writer (`rust/src/format/zarr_stream.rs` and its Python and Julia twins) | owned records, open and dirty shards, pending records, manifest | `write_record`, `flush`, `commit`, `invalidate`, `resume` in the roles single, owner, contributor | other writers, readers, crashes |
| Provider and cadence (`provider.rs`, `provider.py`, `provider.jl`) | anchor and sample last emitted, decoded-file list, axis memo | `refresh`, `sample_at`, `prefetch`, `refresh_times`, `materialize` | none in one process |
| Selections, windows, NetCDF, Zarr, FF10 and Parquet readers (`format/mod.rs`, `netcdf.rs`, `zarr.rs`, `ff10.rs`, `parquet.rs`) | none; the Zarr reader's workers share one output | `read_native`, `read_native_records`, `read_arrays`, `sample_windows_at` | the Zarr reader's workers |
| Calendar and time axis (`calendar.rs`, `time_axis.rs`) | none | `parse`, `anchor`, `floor_index`, `decode_time_axis` | none |
| Prefetch groups of Python and Julia | pools, queues, tasks | as in Rust | as in Rust |
| CDS transport (`transport/cds.rs`, `cds.py`, `cds.jl`) | a remote job | submit, poll, results, download | the service |
| HTTP, file and S3 transports | none | conditional GET, copy | the source |
| Keys, manifest codec, data directory, templates, other readers, registries | none that changes | pure functions | none |

How they interact. A provider asks the cache for a file and a reader for its
contents; a prefetch group calls providers from its threads, so that several
fetches of one process meet at the same entry; several processes meet there
through the file system only: a lock file, an atomic rename, a manifest beside
the blob. The reader of a cached file holds no lock. Rung 0 is a call of the
fetch that looks at the source on disk; its memo lives as long as the `Cache`.

What is hard here:

- a blob and its manifest are two files; every reader looks at them, and at the
  source, in separate steps;
- three bindings lock one path by two mechanisms, and one of them steals;
- a process may die at any step, with the lock or between the two files;
- a 304 answers validators whose blob may be gone;
- modification times have a resolution, and another machine's clock sets them;
- decodes end in any order, after the order they were for was cancelled, or
  never succeed; budgets and depth must not starve the head of the window;
- threads sleep on condition variables and must be woken and joined;
- the streaming writer's promises span writers, flushes, tokens and crashes;
- which file holds an instant's record, and the next one's, depends on calendars,
  on the file's own axis and on where the loader ends;
- selections reach a file as slabs, gathers or chunks, and the pieces must come
  together as the cells that were asked for;
- who may sign a request, and what counts as an absence, is decided in layers.

`PROJECT.json` lists each hazard at the line where it bites.

## 2. The modules

| Module | Models | Lines of the code |
|---|---|---|
| `FetchCache` | one entry of the cache and every step of a Rust fetch | `cache.rs`, `store/local.rs`, `validate.rs` |
| `CacheEntry` | what the cache promises of an entry, abstractly | |
| `SharedStore` | the entry under all three bindings: locks, hits, commits | `local.rs`, `local.py`, `store.jl`, `cache.*` |
| `SourceRevalidator` | rung 0 with its memo, readers, writers, clocks | `validate.rs` |
| `PrefetchGroup` | the group, its consumer, workers and warm-up | `prefetch.rs` |
| `EpochOrder` | what the group promises its consumer, abstractly | |
| `SharedFiles` | the decoded files the workers share | `prefetch.rs` |
| `StreamWriter` | the commit protocol of a streamed store: handles, tokens, manifest, failures, resumes | `format/zarr_stream.rs` |
| `CommittedRecords` | what a reader of such a store may count on, abstractly | |
| `StreamGeometry` | which cell of which writer goes into which object, and what is read back | `zarr_stream.rs`, `zarr_write.rs` |
| `StreamManifest` | the owner's committed state, its operations, the manifest it writes and reopens | `zarr_stream.rs` |
| `ProviderCadence` | one provider: anchors, brackets, decoded files, axis memo, warming | `provider.rs`, `time_axis.rs` |
| `Calendar` | written periods and their anchors | `calendar.rs` |
| `TimeAxis` | CF time units and axes, in both readings | `time_axis.rs` |
| `Selection` | selections, gather, by-name and leading selection | `format/mod.rs` |
| `NetcdfReader` | how a selection becomes slabs, gathers and text reads | `format/netcdf.rs` |
| `Tables` | the rows of FF10 texts and archives, the columns of Parquet files | `format/ff10.rs`, `format/parquet.rs` |
| `Windows` | K windows sampled from one decode | `provider.rs` |
| `ZarrReader` | chunk selection, fetching and scattering | `format/zarr.rs`, `zarr_store.rs` |
| `S3Reads` | who signs a read of a bucket, its region, the signed fetch | `s3_config.rs`, `zarr_object_store.rs`, `transport/s3.rs` |
| `Transports` | one call of the HTTP, file and CDS transports, the registry | `transport/*.rs` |
| `Outcomes` | the model values such calls share | |
| `Algorithms` | the pure modules, each input beside its reference definition | |
| `MC*` | the instances TLC checks | |
| `FetchCacheProofs`, `SharedStoreProofs`, `RevalidatorProofs`, `PrefetchGroupProofs`, `SharedFilesProofs`, `StreamWriterProofs`, `CalendarProofs`, `ProviderCadenceProofs` | theorems and proofs | |

A definition marked `(mutant)` in a comment is no part of the model: it is a
plausible bug, with the parameters of the definition after it. Putting it in
that definition's place must make the named property fail, and `PROJECT.json`
says for every property of every passing run which one does.

### FetchCache

One step per file operation or message, because each is where others get in.
`pc[p]` is the place in the code: `lookup` (`get_blob_hinted`), `meta`
(`get_meta` and the ladder), `stat` and `hash` (rung 0), `verify`
(`verify_integrity`), `wait` (the flock), `prior`, `source`, `copy`, `commit`,
`record`, and after a 304 `touch` (the lookup of the blob) and `refresh` (the
write of the manifest; `download_locked_with`, `commit_result`). `call[p]` holds the locals; `NoHit` is what follows a
check that found nothing: a `CacheMiss` offline, the lock, or, under the lock,
the download. `Return` and `Serve` release the lock as the drop of `BlobLock`
does.

Data are abstract. A content is its own digest, so two contents never collide;
`Tag` says which validator a server sends with a content, `None` for none; a TTL
is a flag that `Expire` clears; `Len` lets rung 0 tell some contents apart by
length and not others. A file copied while it is rewritten may hold `Torn`.
The sources change, are lost or come back at any time (`ChangeSource`, which
also tears the copies under way, even when the contents are put back), files
are evicted, manifest writes fail after a commit or a 304 (`FailManifest`) and
processes die (`Crash`), each within a `Limit`. The cache is cold at first, or an
earlier program filled it from one of the sources (`Warm`). `witness`, `tip`,
`dirty`, `downloads` and `committed` are history variables: nothing in a step
depends on them. `committed` says which bytes were committed under which declared
checksum; the download of a warm entry counts when the canonical source gave it.

### SharedStore

Locks modelled as the system calls see them. A flock belongs to the inode that
was opened under the lock's name, which stays behind; a Julia pidfile is the
file: it is created exclusively, refreshed by its living holder and removed in
the end. `Lang[p]` decides how a process locks, what it counts as a hit (Rust
never without a manifest, Python only offline, Julia always) and how it commits
(Python unlinks before it renames). `torn` is a history variable: the last
process to take the blob's place died before it wrote the manifest. It is set by such
a death only (`BetweenFiles`) and cleared by the next manifest. `Pidfile.mkpidlock` is a library, outside
the repository: stealing a stale file is one step, which leaves out whatever
races the steal may have. Conditional requests, mirrors and checksums are left
to `FetchCache`.

### SourceRevalidator

Time is a clock in ticks. A write stamps its file with any value within
`Granularity + Lag` ticks of it: the resolution of the file system, and the
clock of the machine that serves the file. `Margin` is `RACY_MARGIN`. A read is
two steps, so a file can change under it. A replacement that restores the older
stamp (`cp --preserve=timestamps`) is outside the model, as the code says that
it is outside the check.

### PrefetchGroup and SharedFiles

Each critical section of the mutex is one step on `st`, the code's `State`. A
thread that waits on a condition variable is `asleep` until a `notify_all`, so
a lost wake-up is a behaviour of the model. `AdmitTo`, `Fits`, `Admits` and
`QueueWarmUp` are `State::admit`: how far the window goes by depth and by bytes,
with the last decoded size of a member as estimate, not past a failed slot.
`EndOrder` outdates what runs by the generation; it interrupts nothing. The decode
queue holds exactly the queued cells in the order they were admitted, so it
needs no variable. `EpochOrder` has none of this: takes in order, a sample
per member, the members whose anchor changed, or the first failure.
`SharedFiles` is the list below the decoders, with its `Loading` guard.

Statistics, latencies and error texts are left out everywhere.

### StreamWriter, StreamGeometry, StreamManifest

The writer is modelled three times, each time for what the others leave out.

`StreamWriter` is the protocol. A region of a record is one thing, written or
`Fill`; `disk[w][x]` is what the store holds of writer `w`'s region of item `x`.
A handle keeps open and dirty shards, pending and tokened items; a token is a set
of items on its way to the owner; a commit is two writes, the shapes and the
manifest, and the job may be preempted between any two steps. The environment
fails writes and preempts within `mode.limit`. `Habits` says what callers do
beyond the protocol: by default they drop a handle whose write failed
(`Fail`), and offer an item that the handle counts as committed only when none
of its tokens is on the way. With any habit no caller, owner or contributor, offers an
item again while a token of its own that carries it is neither committed nor lost
(`Mannerly`). A token is delivered once. A manifest whose PUT fails is the old one: a store that
replaces it and reports a failure all the same is not modelled, and a failing
`invalidate` changes nothing. `CommittedRecords` is what a reader may count on: an item is
absent or has one content, appears whole and does not change while it is there.

`StreamGeometry` has no failures and no tokens: a region is its cells, a shard an
object of cells that also remembers who put it. `Verify` is the part of the
owner's question that is about regions. A reader's `Retrieve` is the zarrs
library's. Dtypes and codecs are left out; `Zero` stands for what a cell nobody
wrote holds.

`StreamManifest` is the owner's `CommitState` with every operation on it, what
`manifest_json` writes of it and what `from_manifest` makes of that. The rest of
`verify` is `Committable`. Attributes, dtypes and texts are left out. A truncation
keeps the blobs of the records it cuts named, as the code does.

### ProviderCadence, Calendar, TimeAxis

One provider over one loader. A file is the records a published one holds; a
source publishes whole files, files without a time axis, with a gap, backwards,
trimmed or cut short. `GetFile` is the decoded-file list, `FreshAddr` the address
a decoded file gets, by which the axis memo knows it. Any decode may fail, and
after a `Prefetch` the network may be gone: `Unreadable` chooses which of the files a
call may ask for (`Wanted`: that of its anchor and that of the next one) cannot be had. The
files do not change while the provider lives. Loaders without a cadence (CONST) and a wrong `records_per_sample`
are left out.

`Calendar` has the code's proleptic arithmetic in seconds; the civil calendar
below it is the `time` library's. `TimeAxis` keeps the arithmetic of nanoseconds
in 64 bits and of floats, on a scaled clock: a second has 4 ns, a minute 2
seconds, an hour 2 minutes, a day 4 hours, `I64Max` and `FloatMax` scale with
them, and floats are counted in eighths. Splitting the text of a unit into its
parts is abstracted to the parts and the gaps between them.

### Selection, NetcdfReader, Windows, ZarrReader, Tables

A cell is the code of its own position, so that a result shows where it came
from. `Selection` is the code shared by all readers. `NetcdfReader` decides, axis
by axis, between a slab with a stride and a whole read with a gather, merges the
records asked for with the caller's selection, and turns characters into texts;
unpacking and masking arithmetic are the library's, characters are one byte.
`Windows` plans one union read for K windows and slices each out of it.
`ZarrReader` finds the chunks a selection needs; `Order` is the order in which
the workers bring them, any one of them. `Tables` has the FF10 reader from the
members of an archive to the columns, with `glob_match` step by step on character
codes, and the Parquet reader from the schema and batches of Arrow values on. A
line comes as its fields, a text as what it spells, a decimal as its value, and
the integer types are scaled to 100 and 200.

### S3Reads and Transports

An environment is a list of options in order, a bucket's statement a list of
them, a caller's options another; names are lower-cased, and the builder lets the
last spelling win. A call of a transport is a function of what the source
answers: for CDS a sequence of answers with their durations, for S3 one answer
to HEAD and one to each range. A hash is the blocks hashed. A source that
changes during a call is `FetchCache`'s matter.

## 3. The runs

Passing runs check everything of their configuration to the end of the state
space. Bounds are constants or limits named in the module.

| Run | Asks | Instance, and why it is enough |
|---|---|---|
| `local_source` | Is a `file://` entry downloaded by one fetch at a time, only with a cause, its manifest and blob consistent, is no hit stale or torn, and is no complete entry missed offline? | 2 online processes and an offline one, 3 fetches on a cold or a warm cache: one can hold the lock, one wait, one read without it. 2 changes of a source over 3 contents, two of one length: one change before and one during a fetch, and rung 0 cannot tell the equal lengths. The contents only move forward here, for a return to the old ones would justify an old answer. The period is open and its TTL expires once. No fault, eviction or second extension: `ManifestDescribesBlob` is false with the first and the last (section 6). |
| `remote_source` | With a mirror of another extension, validators, a declared checksum, `verify_on_read`, an eviction and a fault: does a manifest, refreshed by a 304 or not, describe the last blob; does a fetch fail only as its sources do, serve the declared bytes, keep `CacheEntry`, and return? | 2 fetches, one of which declares a checksum, on a cache that is cold, or that the canonical source or the mirror filled before. 2 sources, 2 changes: one to meet a 304 with, one to tear a copy. The period is open, so that an entry with a validator is always revalidated; one without never expires here (it does in `local_source`). Liveness, so no symmetry. |
| `shared_store` | Do bindings that lock alike exclude each other, download once per version, leave blob and manifest together and a reader its entry, and return beside a dead holder? | Either a Python and two Rust processes, 3 versions; or two Julia processes and an offline reader, 4 fetches, so that a pidfile is removed, recreated and stolen (4 inodes). 1 crash. |
| `rung_zero_memo` | Does a remembered digest ever hide a rewrite, and is every verdict true? | 2 readers, 3 calls, 2 files and a memo of 1; granularity 2, lag 1, margin 2: the tightest case the code covers. |
| `prefetch_group` | Do takes come in order with the right data and flags, is the window counted, budgeted and cleared, does nothing of a cancelled order get in, is every take answered and does closing join every thread? | 2 members of different cadence, 2 workers, the warm-up. Order `<<2, 1, 2>>` shares samples between slots and revives the one last taken, `<<1, 3>>` skips one; depth 2, a byte budget that binds, two samples that may fail, a second generation (`MaxGeneration` = 2: a start after a cancel, or two cancels). |
| `shared_files` | Is a file decoded by one worker at a time, and is every request served? | 3 workers, 3 files, a list of 2, one failing decode: enough to evict what is awaited. |
| `stream_writers` | Is what a manifest names whole, as written, in shape and unchanged under readers; can the next commit always go on from the last; is a committed record never rewritten? | 6 stores: owner and contributor appending with a truncation, a fault and a preemption; indexed with 4 writes and an invalidation; indexed with a fault and a preemption; with a static; a single writer in both modes. Shards of 2 records, 3 records: a full shard, a short last one, and a record left open across a resume. |
| `cadence` | Does the buffer stay the sample of its anchor through failures, seams and memo; does a seam decode each file once; is a warmed window whole offline? | 8 loaders: hourly records in files of three (whole, without an axis, with a gap, backwards, trimmed, cut), months from the 31st in files of three, ten-day records in monthly files, which no period divides. Five instants each: before the start, on and between anchors, beyond a seam, beyond the end. |
| `algorithms` | Does each pure part compute what its reference definition says? | 72,032 states, one per input. Reads: 4 x 3 cells, every kind of variable, strides, repeats, empty and reversed lists. Tables: patterns of three pieces over seven member names; Parquet columns of every type in two batches, nulls and edges in every place, with and without each option. Stores: chunks absent or failing, both orders. Cadences: starts on the 31st and a leap day. Axes: values at both ends of the range, references before and after the Gregorian switch. Routes: every combination of role, keys, endpoint, switch and region. Fetches: every answer in every position. Layouts: 3 x 4 x 3 cells in shards of 2, teams that tile, overlap or leave a gap, reopened handles. Histories: every three operations of 17 (or 8 of a single writer). |
| `crash_in_commit`, `two_kinds_of_lock`, `early_question` | See section 6: a documented claim each, which the code does not keep. | The smallest instance that shows it. |

### Properties

- *Single flight.* `SingleFlight` (whoever is past the second look holds the
  lock, and nobody offline does), `EntryIsUsed` (no download without a cause, no
  offline miss of what is there), `RacesAreHarmless` in `SharedStore`.
- *Consistency of the two files.* `ManifestDescribesTip` speaks of the last
  committed blob and holds through evictions, two extensions and 304s (its mutant lets the
  lock go on a 304); `ManifestDescribesBlob` of whatever file a lookup finds.
  `EntryIsConsistent` is that of `SharedStore`: with crashes and steals anywhere
  but between the two writes of the last commit.
- *Truth of answers.* `HitIsFresh` compares a hit with all the source was during
  that very fetch; `FailuresAreTheSources` a failure; `OfflineFinds`,
  `ServedBytesAreExpected`, `OutcomesAreTheSources`.
- *Rung 0.* `MemoIsSound`, `VerdictIsSound`.
- *Abstractions.* `EntryKept` (`FetchCache` implements `CacheEntry`),
  `DeliversInOrder` (`PrefetchGroup` implements `EpochOrder`) and `CommittedKept`
  (`StreamWriter` implements `CommittedRecords`).
- *The window.* `GenerationsDoNotMix` (one decoder a sample, and results of the
  running order only), `WindowIsAccounted` (the head is admitted, slots are
  counted as the two `expect`s of `take` want them, the budget is kept; the last
  for members whose samples have one size, since the code estimates by the last
  one), `QuietAfterCancel`, `DecodesAreShared`.
- *The streamed store.* `TokensContinuePrefix`, `CommittedIsReadable`,
  `RewriteIsRefused`; `LayoutIsExact` for cells, `ManifestIsTheStore` for the
  document: an owner that dies after every operation ends with the same one.
- *The provider.* `BufferIsOfAnchor` (a definition that reads the files directly),
  `SeamDecodesOnce`, `WarmedRunIsWhole`, `WarmAndScheduleCover`.
- *Pure parts.* `ReadsAreTheCellsAsked`, `WindowsAreTheirOwnReads`,
  `StoreReadsAreTheCellsAsked`, `AnchorsAreExact`, `TimesAreThoseWritten`,
  `SigningIsStated`.
- *Progress.* `FetchReturns` (twice), `TakeReturns`, `CloseReturns`,
  `RequestReturns`.

### Fairness

Each specification assumes weak fairness of each process or thread, one
at a time, and of nothing else but what is listed here.

- `FetchCache`: `Step(p)` for every `p`. The scheduler runs every thread, a
  transport answers or times out, and a blocked `flock` is granted in the end,
  which in these instances needs no more than weak fairness because fetches are
  finite in number. Crashes, failures, evictions and source changes are never fair.
- `SharedStore`: also `GrowStale`, the passing of time.
- `PrefetchGroup`: each worker, the consumer's return from a wait, and
  `NextFile`. A decode ends or panics. Nothing obliges the consumer to call,
  and `FinishWarmUp` is not fair: `TakeReturns` must hold with the warm-up stuck
  in a download. `CloseReturns`, which joins that thread, has its fairness as
  a premise.
- `SharedFiles`: each worker's `Step`. Failure is not fair.

`StreamWriter`, `ProviderCadence` and `Algorithms` have no liveness: their code
runs when it is called and waits for nobody (the CDS poll, which does, is bounded
by its own clock and checked as a bound in `OutcomesAreTheSources`).

`stream` and `algorithms` say `CHECK_DEADLOCK FALSE`: a store whose callers are
done, and an input that was compared, are ends. Elsewhere a step that changes
nothing (`Finished`, `Over`, `Idle`, `Gone`) says when the program is over.

## 4. What is proved

All for arbitrary constants: any number of processes, bindings, sources, contents,
writers, records, members, workers and files, and any limits. The last column
is the hypothesis, where a theorem has one.

| Theorem | Says | If |
|---|---|---|
| `FetchCacheProofs!TypeCorrect` | types of `FetchCache`, and what each phase may rely on | |
| `SingleFlightAlways` | `SingleFlight` | |
| `TipAlways` | `ManifestDescribesTip` | |
| `FetchCacheImplementsEntry` | `FetchCache` implements `CacheEntry` | |
| `HitIsFreshAlways` | `HitIsFresh` | |
| `ManifestDescribesBlobAlways` | `ManifestDescribesBlob` | all sources give one extension, and no commit loses its manifest |
| `FailuresAreTheSourcesAlways` | `FailuresAreTheSources` | |
| `ServedBytesAreExpectedAlways` | `ServedBytesAreExpected`: hits and downloads give the declared bytes, a 304 those or what was committed under another declaration | `verify_on_read` is on, and offline reads declare no checksum |
| `EntryIsUsedAlways` | `EntryIsUsed` | |
| `SharedStoreProofs!TypeCorrect` | types of `SharedStore` | |
| `RacesAreHarmlessAlways` | `RacesAreHarmless` | the bindings that download have one kind of lock |
| `EntryIsConsistentAlways` | `EntryIsConsistent` | the same |
| `OfflineFindsAlways` | `OfflineFinds` | no Python process downloads |
| `MemoIsSoundAlways`, `VerdictIsSoundAlways` | rung 0 | `MarginCovers` |
| `PrefetchGroupProofs!TypeCorrect` | types of `PrefetchGroup` | |
| `GenerationsDoNotMixAlways` | `GenerationsDoNotMix` | |
| `DeliversInOrderAlways` | `PrefetchGroup` implements `EpochOrder` | |
| `QuietAfterCancelAlways` | `QuietAfterCancel` | |
| `WindowIsCounted` | the head is admitted, a sample is held exactly while slots use it | |
| `WindowIsAccountedAlways` | `WindowIsAccounted`, the byte budget included | the samples of a member have one size |
| `DecodesAreSharedAlways` | the shared files | |
| `StreamWriterProofs!TypeCorrect` | types of `StreamWriter` | |
| `TokensContinuePrefixAlways` | `TokensContinuePrefix` | callers keep to the protocol |
| `RewriteIsRefusedAlways` | `RewriteIsRefused` | the same |
| `CommittedIsReadableAlways` | `CommittedIsReadable` | the same |
| `ReadersAreServed` | `StreamWriter` implements `CommittedRecords` | the same |
| `CalendarProofs!FloorIndexExact` | `floor_index` finds the interval of an instant, from any guess by the mean month | |
| `CadencesAreExact` | anchors rise and clamp to month ends, indices bracket their instant: what `AnchorsAreExact` checks of an input | |
| `ProviderCadenceProofs!BufferIsOfAnchorAlways` | `BufferIsOfAnchor`, the types and the bound on kept files included | |
| `SeamDecodesOnceAlways` | `SeamDecodesOnce` | |
| `WarmedRunIsWholeAlways` | `WarmedRunIsWhole` | |
| `WarmAndScheduleCoverAlways` | `WarmAndScheduleCover` | |

The hypotheses are the code's own limits. Each was met as a proof that would not
go through or a counterexample of TLC, and is a line of section 6 or the default of
the code's callers:

- *one extension, no lost manifest*: mirrors with another extension, and the run
  `crash_in_commit`;
- *offline reads declare no checksum*: `fetch` answers offline from the manifest
  before it looks at the declared one (`rust/src/cache.rs:173`);
- *one kind of lock*: the run `two_kinds_of_lock`;
- *no Python process downloads*: `put_blob` of Python unlinks first;
- *one size*: behind the head the group admits by the last size of a member
  (`rust/src/prefetch.rs:1016`);
- *callers keep to the protocol* is `Habits = {}`: a caller drops a handle whose write
  failed, and offers an item that its handle counts as committed only when none of its
  tokens is on the way. The run `early_question` shows one that does otherwise.

The arguments:

- **Types.** `TypeOK` of `FetchCache` is not inductive: a commit stores
  `call[p].sha`, which is typed as possibly absent. `PhaseOK` says which locals each
  phase may rely on. `Typed` is the conjunction. `LocalsOK(p)` is what every step of
  `p` leaves, so that each action needs to prove only that.
- **Single flight.** Needs no strengthening beyond `Typed`: a step moves one
  process (`StepIsLocal`), and enters the download only under the lock
  (`EntersUnderLock`).
- **The tip.** `TipInv` adds `DownloadKnows`: before its commit, the downloading
  fetch's prior manifest describes the last blob (or that blob was evicted),
  and between the two writes the last blob is the one in its hand. A 304 that
  arrives late writes the prior manifest back, and this says why that is right.
- **The abstraction.** `CallOK` (a running fetch has no outcome, and one that
  judges an entry holds its manifest) is enough; `MapMoves`, `MapReturn`,
  `MapHit` and `MapFill` say what the mapped variables do, action by action.
- **Freshness.** `FreshInv`: the witness of a running fetch includes the source
  as it is, and past rung 0 it includes the evidence for the coming answer.
- **The blob a lookup finds.** `FileInv`: with one extension there is one file,
  and the last commit wrote it.
- **Failures.** `FailInv`: a source that the loop has passed with an absence was
  absent in some state of this fetch, a blob that is gone after the lookup was
  evicted, and only a fetch with validators gets a 304. So a final "not found"
  is one of the sources, or of the eviction in section 6.
- **Declared checksums.** `BytesInv`: bytes that pass the check before the commit are those
  committed, and until the manifest is recorded the lock keeps others from
  committing in between. `CommitsInv`: every blob is in `committed`, and so is what a 304
  serves; what was committed under a declaration is what was declared
  (`CommitsAreChecked`), so other bytes came under another.
- **Causes.** The longest argument. `EntryIsUsed` bounds downloads by causes: changes,
  evictions, expiries, faults and the first. By itself this is not inductive: it must say
  where a cause that is not spent yet is. `CauseInv` does: causes less downloads is at
  least nothing; when it is nothing the entry holds the current answer, and whoever is
  in the download is there in vain and gets a 304 or a refusal; when it is one, a
  fetch that has downloaded and not committed brings that answer. TLC checked
  `CauseInv` on four instances before the proof was begun.
- **Entries shared by bindings.** `LockInv`: among those of one kind the lock file
  names one holder, whoever died. `DownloadInv` pays each download: by a
  version of the source that is recorded, by a crash, or by the process inside.
  `CommitInv`: the manifest describes the blob unless somebody is between the two
  renames or the last to be there died there; a death anywhere else, and the steal that
  follows it, leave the two files alone. `ReadersInv` needs neither: without Python's unlink
  a complete entry stays complete.
- **Rung 0.** `MarginCovers` is `Granularity + Lag <= Margin + 1`. A digest
  is kept for use only when its file was stamped more than the margin before the clock was
  read, so every later write gets another stamp (`AllSettled`); a digest with
  the stamp a reader saw is that of a content the file had since
  (`MemoExplained`, `ReadExplained`). The bound is tight: with
  `Granularity + Lag = Margin + 2` TLC finds `MemoIsSound` violated. A tick is
  whatever unit one counts in; in the nanoseconds of the code the bound says that
  granularity and lag together stay within the two seconds of `RACY_MARGIN`:
  a file system of whole seconds leaves a second for the server's clock to lag
  behind, and one of two seconds (FAT) leaves nothing.
- **Shared files.** `IInv`: the files marked are those being decoded, by one
  worker each, and whoever sleeps waits for a marked one. It does not depend on
  the list, so neither capacity nor eviction matters to it.
- **The prefetch group.** `IInv` is a conjunction of named parts. `SlotsOK`: a cell is held
  exactly while live slots before `admitted` use it, and counts them. `OwnOK` and
  `DecodeInv`: what is in the window came from the order that runs, and a sample in
  flight has one worker of that generation. `DataOK` and `OrderOK`: what is in
  a cell is its own sample's. `HeadOK`: the head is always admitted. `RunningInv`: the
  count that `cancel` waits for is the number of workers that decode.
  `BudgetInv` adds the bytes under one size for each member. The window's sums
  are sums over finite sets: `Total` states them as the sizes of sets of units, so that the
  library's facts on cardinality apply; the induction over subsets
  that is left is `SubsetInduction`, from the well-foundedness of strict subsets.
- **The streaming writer.** `Protocol` says what handles know: the owner's view is the
  manifest, a contributor counts every committed item by its view or its own
  tokens (`Knows`); a commit carries only items that every writer has sent, and
  what is named of the records stays a prefix. `StoreInv` says that what a token
  names is on disk and what was flushed is what its writer gave last; `ShapeInv` that the
  shapes cover the manifest before it is written. `ReadersAreServed` follows: a
  commit publishes what is on disk, and no later write reaches it.
- **The calendar.** `DateOf` and `DaysOf` are inverse to each other on the proleptic
  calendar (an era of 400 years is arithmetic with bounds; the months of a year are twelve
  cases), so months added to a date land in the month counted, on its day or its last
  (`AnchorOfMonths`). Hence anchors rise strictly by a second at least (`AnchorStep`,
  `AnchorOrder`), every instant has one interval (`FloorExists`), and the two walks
  from the guess end there: they are recursive functions, and a function equal to
  its own equation is exhibited for each rather than found by induction.
- **The provider.** A read is followed through its call. `FreshAddrIsFree`: the list keeps two
  files, a call holds one more, the memo at most four entries, so one of eight addresses is
  free and neither held nor remembered; hence `GotOK`, the memo's entry at the address of the
  file got is that file's. `RecordIsDue`: whatever the layout of the file, the record found by its
  axis, or by the cadence offset where the axis does not reach, is the one due, and is
  there when `Holds` says so. `Reads` puts a sample together from these. `IInv`
  says what calls leave for the next: a list and memo that fit (`ListOK`, `MemoOK`),
  a buffer that is the sample of a cadence anchor, the files of that buffer still kept right after a
  refresh (`DrawnInv`), and after a prefetch every file that covers an instant between the
  lower bound and the window's end on the disk (`WarmedInv`). The last is what makes a warmed run whole:
  the file of an anchor inside the window covers that anchor, and so is one of them,
  whether or not the two periods divide each other. TLC checked the parts of `IInv` on the
  run `cadence` before the proof was begun.

  The proof found a flaw of the model: `Wanted` named the file of the instant instead of that of its
  cadence anchor, which differ where the periods do not divide, so that a read could not fail
  there. It was put right, and the runs repeated.

Constants get only assumptions that say they have their types, with distinct model
values where the code has distinct cases, and finitely many workers and
writers: `ConstantsAssumption`, `TimeAssumption`, `FilesAssumption` and the assumptions of
`SharedStore`, `PrefetchGroup` and `StreamWriter`. `SourcesAssumption` says of the loaders of
`ProviderCadence` that their periods are positive, as `CalendarPeriod::parse` and the
provider's constructor require, and that starts, ends, windows and instants are whole seconds.

## 5. What is model-checked only, and what is not modelled

Model-checked only:

- every liveness property, since the prover does not reason about fairness;
- `Algorithms`: what folds compute for every input would need induction over
  data, which the prover cannot do. Of its properties only the one about cadences has a
  counterpart among the theorems (`CadencesAreExact`, for a period however it was written).

Not modelled:

- the Python and Julia writers, providers and prefetch groups: twins of the Rust
  ones, with thread and process pools and tasks of their own;
- the RFC 3339 arithmetic of TTLs, and the headers that carry validators;
- conditional requests of the Python and Julia fetchers;
- the steal of a pidfile in its single system calls, which are a library's;
- generic CSV and JSON, raster and shape readers, the parsing of reader options,
  the browser's file system, templates, ERA5 requests, keys and the cache manifest's codec: functions of their input, or
  forwarding to libraries;
- of the provider, loaders without a cadence, unit conversion, remote providers
  in a browser.


## 6. Where code and documents disagree

Three runs end in a violation.

- `crash_in_commit`: `commit_blob` and `put_meta` are two renames
  (`rust/src/cache.rs:433`). If the second never happens on a re-ingest, the old manifest stays
  beside the new blob and is served as a hit; `spec/cache-format.md:78` says
  that `sha256_content` is the "sha256 of the blob bytes", which it is not here. (Where the two
  contents differ in length, `bytes` on line 79 is wrong as well.)
- `two_kinds_of_lock`: `julia/src/store.jl:89` promises one download between
  Julia and Python. A pidfile does not exclude a flock on the same path, and both download.
- `early_question`: `spec/writer.md:249` says that writing a committed record is an
  error. `refresh_view` (`rust/src/format/zarr_stream.rs:2064`) forgets the records
  tokened since `join`; a contributor that asks about one record while the token
  of another is on its way may then overwrite the other after it was committed.
  The first call need not be refused: offering a record that was committed once
  and invalidated since reads the manifest again in the same way. The proof of
  `RewriteIsRefusedAlways` asked for that, and `Mannerly` excludes both.

Others were met while modelling. They follow from the code as read, and the properties
are stated so as to keep clear of them:

- A mirror with another extension commits its blob beside the old one, and
  `get_blob_hinted`, asked with the canonical extension, goes on finding the
  old one under the new manifest (`rust/src/cache.rs:419`, `local.rs:182`).
  This is the first assumption of `ManifestDescribesBlobAlways`.
- A declared checksum is compared with the manifest on a hit and with the bytes of a
  download, and on a 304 with nothing (`rust/src/cache.rs:367`): a fetch that declares
  one, misses because the manifest has another digest, and is told "not modified" by
  the source is handed the very blob it had refused. `spec/cache-format.md:107` calls the
  checksum the strongest rung, `rust/src/validate.rs:12` says that it beats everything.
  It takes another caller of that URL that declared another checksum or none;
  `ServedBytesAreExpected` says exactly that.
- With `verify_on_read`, a blob evicted between lookup and verification is an
  `Io` error of kind `NotFound`, which `is_not_found` reports as an absence at
  the source (`rust/src/cache.rs:444`, `error.rs:206`). `NotFoundIsSound` exempts it.
- A blob without a manifest is a miss offline in Rust (`rust/src/cache.rs:173`)
  and is served in Python and Julia.
- Python's `put_blob` unlinks the old blob before the new one is in place
  (`earthsciio/backends/local.py:143`); an offline reader in between misses an
  entry that was complete when it began.
- A worker that waited for a file gets no hold on it: when two others are
  published before it runs, it decodes the file again (`rust/src/prefetch.rs:814`;
  `spec/prefetch.md:278` speaks of files awaited rather than decoded twice).
- Behind the head, a slot is admitted by its member's last size. One that turns out larger
  than `max_bytes` is held beside others (`prefetch.rs:1016`; `spec/prefetch.md:267`
  says alone).
- In the streaming writer, `flush` empties the set of dirty shards before it
  writes them (`rust/src/format/zarr_stream.rs:2230`), and `place_record` counts
  a record as pending before its full shard is written (`:1996`): a caller that
  goes on with the handle after a failed write may commit records that are not
  on disk. The habit `"retries writes"` of `StreamWriter` is that caller.
- `resume` with a time writes the smaller shapes before the manifest (`:1762`): a
  reader, or a crash, in between meets named records that are out of shape. A
  contributor that resumes before the owner has truncated counts from the longer
  manifest.
- Tokens carry no generation: one delivered after its records were invalidated is
  accepted (`:2515`), whatever was rewritten since. A truncation keeps the blobs of
  the records it cuts committed.
- `Provider::prefetch` promises every file of its window (`rust/src/provider.rs:855`).
  It leaves out the successor file of the last bracket when that file's anchor is
  not before the window's end, and, where the file period does not divide into
  records, the file of the cadence anchor before the window's start.
  `WarmedRunIsWhole` is stated for what it does cover.
- A bracket clamped by a failure at a seam stays clamped until the anchor changes
  (`provider.rs:1078`).
- A signed S3 fetch asks for HEAD and then for ranges without `If-Match`
  (`rust/src/transport/s3.rs:346`): an object replaced in between is put together
  from two.
- The cached and the direct path of an `s3://` read are to differ only in whether bytes
  touch the disk (`rust/src/format/zarr_object_store.rs:252`). They part in two places, which
  `SigningIsStated` names as its exceptions. A credential named against the bucket
  is a statement that it be signed (`:179`, `s3_config.rs:273`); the cached path does sign, while the
  direct one lets an `AWS_SKIP_SIGNATURE=true` of the environment, which the cached one never asks,
  outweigh it (`AmbientSkipWins`). And the region is documented to be
  `EARTHSCI_S3_REGION`, then `AWS_REGION` (`:257`): the direct path harvests `AWS_REGION`
  with the environment before it looks for the crate's own variable, so with both set it takes
  the other one (`AmbientRegionWins`). Without a statement about the bucket an
  `AWS_SKIP_SIGNATURE=false` signs the direct path alone.
- A Parquet column of a type without a rank-1 reading that is named in
  `float_columns` should stay a non-field (the comment at
  `rust/src/format/parquet.rs:413`). It does when it is nested or binary; one
  of intervals, or a dictionary of binaries, gets an accumulator and fails the
  read at its first batch. Two columns of one name are taken out of the
  accumulators twice, and the second `expect` (`:370`) panics.
- A CDS poll that fails once abandons the job (`rust/src/transport/cds.rs:164`);
  the next fetch submits it again.

## 7. Plan

What is left, in this order:

1. Proofs for operators of the pure modules that sum or choose over finite sets, by
   the induction of `PrefetchGroupProofs`.
2. The Python and Julia prefetch groups against the same `EpochOrder`, and their
   writers against `CommittedRecords`.
3. The conditional requests of the Python and Julia fetchers in `SharedStore`.
4. `ProviderCadence` under a `PrefetchGroup`: providers called from several threads.
