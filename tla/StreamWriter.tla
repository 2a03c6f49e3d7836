--------------------------- MODULE StreamWriter ---------------------------
(* The streaming Zarr writer of rust/src/format/zarr_stream.rs: several    *)
(* writers, each with a region of one logical array, write records into    *)
(* time shards and hand tokens to the owner, whose manifest commits them.  *)
(*                                                                         *)
(* Writer 0 is the owner (or the Single writer), the others contributors.  *)
(* A region is shard aligned, so every shard object has one writer and the *)
(* store is disk[w][x]: what w's region of item x holds, Fill before it is *)
(* written. A writer's many arrays are one part per item; the times, the   *)
(* blobs, the generations and commit_seq are left out.                     *)
EXTENDS Integers, FiniteSets

CONSTANTS
    NumRecords,     \* records there may be; in indexed mode there are as many
    ShardLen,       \* records in a time shard
    Statics,        \* the time-less variables
    Value,          \* contents of a region of an item
    Fill,           \* the fill value of what is not written
    Emit,           \* Emit[i]: what the deterministic simulation appends as record i
    Modes,          \* [team, indexed, single, statics, limit]: the stores to be checked; limit
                    \* bounds the caller's calls and the environment's faults
    Habits          \* what callers do beyond the protocol (see Mannerly and Fail)

Rec  == 0 .. NumRecords - 1
Item == Rec \cup Statics

ASSUME WriterAssumption ==
    /\ NumRecords \in Nat /\ ShardLen \in Nat \ {0}
    /\ Rec \cap Statics = {}
    /\ Fill \notin Value /\ Emit \in [Rec -> Value]
    /\ \A m \in Modes :
          /\ 0 \in m.team /\ IsFiniteSet(m.team) /\ m.statics \subseteq Statics
          /\ Fill \notin [m.team -> Value]
    /\ Habits \subseteq {"asks early", "retries writes"}

VARIABLES
    mode,       \* fixed at the start: who writes, the time mode, the statics
    disk,       \* disk[w][x]: the data objects in the store
    shape,      \* the least shape[time] of the arrays' zarr.json (append mode)
    manifest,   \* the items output_manifest.json names as committed
    h,          \* h[w]: the handle of writer w
    tokens,     \* the tokens on their way to the owner
    commit,     \* the owner's call that writes shapes and manifest
    left,       \* what remains of mode.limit
    last        \* history: the content last accepted from w for x, if it may count

vars == <<mode, disk, shape, manifest, h, tokens, commit, left, last>>

Team  == mode.team
Owner == 0
Contributors == Team \ {Owner}

Shard(i) == i \div ShardLen
Shards   == {Shard(i) : i \in Rec}
Slots(s) == {i \in Rec : Shard(i) = s}
\* The slots that make shard s complete: the last one of an indexed store may be short.
Whole(s) == IF mode.indexed THEN Slots(s) ELSE s * ShardLen .. (s + 1) * ShardLen - 1

Recs(X) == X \cap Rec
Token   == [from : Team, items : SUBSET Item]
Sent(w) == UNION {t.items : t \in {u \in tokens : u.from = w}}

NoHandle ==
    [up |-> FALSE, view |-> {}, next |-> 0, reload |-> FALSE,
     buf |-> [i \in Rec |-> Fill], open |-> {}, slots |-> {},
     dirty |-> {}, flushed |-> {}, pending |-> {}, tokened |-> {}]

NoCommit == [phase |-> "idle", items |-> {}, used |-> {}, closing |-> FALSE]

Spend(k) == left[k] > 0 /\ left' = [left EXCEPT ![k] = @ - 1]

\* create: the owner has laid the store out; nothing can be on disk under its handle.
Init ==
    /\ mode \in Modes
    /\ disk = [w \in Team |-> [x \in Item |-> Fill]]
    /\ shape = 0 /\ manifest = {} /\ tokens = {}
    /\ h = [w \in Team |-> IF w = Owner THEN [NoHandle EXCEPT !.up = TRUE] ELSE NoHandle]
    /\ commit = NoCommit /\ left = mode.limit
    /\ last = disk

-----------------------------------------------------------------------------
(* Opening a handle                                                        *)

\* reload_open_append: the committed records of the shard that n ends in.
OpenSlots(n) == {i \in Rec : Shard(i) = Shard(n) /\ i < n}

\* (mutant) Opened without reload_open_append: the open shard starts empty.
OpenedEmpty(w, seen) ==
    [NoHandle EXCEPT !.up = TRUE, !.view = seen, !.reload = TRUE,
        !.next = IF mode.indexed THEN 0 ELSE Cardinality(Recs(seen))]

Opened(w, seen) ==
    LET n    == Cardinality(Recs(seen))
        part == IF mode.indexed THEN {} ELSE OpenSlots(n) IN
    [NoHandle EXCEPT
        !.up = TRUE, !.view = seen, !.next = IF mode.indexed THEN 0 ELSE n, !.reload = TRUE,
        !.open = {Shard(i) : i \in part}, !.slots = part,
        !.buf = [i \in Rec |-> IF i \in part THEN disk[w][i] ELSE Fill]]

\* The records with t <= at, of which there are n. The statics stay.
Kept(n) == {x \in manifest : x \in Rec => x < n}

\* resume of the owner that truncates nothing. Tokens of handles that are gone are dropped.
ResumeOwner ==
    /\ \A w \in Team : ~h[w].up
    /\ commit.phase = "idle"
    /\ h' = [h EXCEPT ![Owner] = Opened(Owner, manifest)]
    /\ tokens' = {}
    /\ UNCHANGED <<mode, disk, shape, manifest, commit, left, last>>

\* resume of the owner that truncates: the shapes shrink before the manifest does.
TruncateShapes(n) ==
    /\ ~mode.indexed /\ Spend("cut")
    /\ \A w \in Team : ~h[w].up
    /\ commit.phase = "idle" /\ Kept(n) # manifest
    /\ shape' = n
    /\ commit' = [NoCommit EXCEPT !.phase = "cut", !.items = Kept(n)]
    /\ tokens' = {}
    /\ UNCHANGED <<mode, disk, manifest, h, last>>

\* (mutant) The truncating owner goes on at its old next index.
TruncateManifestOnly ==
    /\ commit.phase = "cut"
    /\ manifest' = commit.items
    /\ h' = [h EXCEPT ![Owner] = Opened(Owner, manifest)]
    /\ commit' = NoCommit
    /\ UNCHANGED <<mode, disk, shape, tokens, left, last>>

TruncateManifest ==
    /\ commit.phase = "cut"
    /\ manifest' = commit.items
    /\ h' = [h EXCEPT ![Owner] = Opened(Owner, commit.items)]
    /\ commit' = NoCommit
    /\ UNCHANGED <<mode, disk, shape, tokens, left, last>>

\* join, and resume of a contributor: the callers' barrier puts the owner first, so that
\* the manifest is truncated already. A writer that was closed comes back when none of
\* its tokens is on the way.
OpenContributor(w) ==
    /\ w \in Contributors /\ ~h[w].up /\ h[Owner].up /\ Sent(w) = {}
    /\ h' = [h EXCEPT ![w] = Opened(w, manifest)]
    /\ UNCHANGED <<mode, disk, shape, manifest, tokens, commit, left, last>>

-----------------------------------------------------------------------------
(* Writing                                                                 *)

\* The handle of w is not inside a commit of its own.
Free(w) == h[w].up /\ (w = Owner => commit.phase = "idle")

\* The job is over: a fault the callers do not retry, a preemption, the end. Handles and
\* tokens are gone.
Abort ==
    /\ h' = [w \in Team |-> NoHandle]
    /\ tokens' = {} /\ commit' = NoCommit
    /\ last' = [w \in Team |-> [x \in Item |-> IF x \in manifest THEN last[w][x] ELSE Fill]]

\* The handle after a call that reports a store failure: a caller that retries goes on with it.
Fail(w, handle) ==
    IF "retries writes" \in Habits
    THEN h' = [h EXCEPT ![w] = handle] /\ UNCHANGED <<tokens, commit, last>>
    ELSE Abort

\* What write_shard leaves of w's region when it writes the shards ss from buf.
Written(w, ss, buf) ==
    [disk EXCEPT ![w] = [x \in Item |-> IF x \in Rec /\ Shard(x) \in ss THEN buf[x] ELSE disk[w][x]]]

\* (mutant) ensure_open never reads a shard back.
WithOpenEmpty(me, w, s) ==
    IF s \in me.open THEN me
    ELSE [me EXCEPT !.open = @ \cup {s}, !.buf = [i \in Rec |-> IF Shard(i) = s THEN Fill ELSE @[i]]]

\* ensure_open: an indexed shard that may be on disk is read back, any other starts empty.
WithOpen(me, w, s) ==
    IF s \in me.open THEN me
    ELSE [me EXCEPT !.open = @ \cup {s},
              !.buf = [i \in Rec |->
                  IF Shard(i) # s THEN @[i]
                  ELSE IF mode.indexed /\ (me.reload \/ s \in me.flushed) THEN disk[w][i] ELSE Fill]]

\* place_record, up to the write of the shard: the record counts as pending already.
Placed(me, w, i, v) ==
    LET o == WithOpen(me, w, Shard(i)) IN
    [o EXCEPT !.buf[i] = v, !.slots = @ \cup {i}, !.pending = @ \cup {i}]

\* A shard that was written complete is closed.
Closed(me, s) ==
    [me EXCEPT !.open = @ \ {s}, !.dirty = @ \ {s}, !.flushed = @ \cup {s},
               !.slots = @ \ Slots(s),
               !.buf = [i \in Rec |-> IF Shard(i) = s THEN Fill ELSE @[i]]]

\* The rest of place_record for the placed handle p: a complete shard is written at once.
Finish(w, p, i, v, next) ==
    LET s == Shard(i)
        full == Whole(s) \subseteq p.slots IN
    \/ /\ ~full
       /\ h' = [h EXCEPT ![w] = [p EXCEPT !.dirty = @ \cup {s}, !.next = next]]
       /\ last' = [last EXCEPT ![w][i] = v]
       /\ UNCHANGED <<disk, tokens, commit>>
    \/ /\ full
       /\ disk' = Written(w, {s}, p.buf)
       /\ h' = [h EXCEPT ![w] = [Closed(p, s) EXCEPT !.next = next]]
       /\ last' = [last EXCEPT ![w][i] = v]
       /\ UNCHANGED <<tokens, commit>>

\* write_shard fails for a complete shard, having written it or not.
FinishFails(w, p, i) ==
    LET s == Shard(i) IN
    /\ Whole(s) \subseteq p.slots
    /\ Spend("fault")
    /\ disk' \in {disk, Written(w, {s}, p.buf)}
    /\ Fail(w, p)

\* write_record: the next index, in append mode.
WriteRecord(w) ==
    LET me == h[w]
        i  == me.next
        p  == Placed(me, w, i, Emit[i]) IN
    /\ Free(w) /\ ~mode.indexed /\ i \in Rec
    /\ \/ Finish(w, p, i, Emit[i], i + 1) /\ UNCHANGED left
       \/ FinishFails(w, p, i)
    /\ UNCHANGED <<mode, shape, manifest>>

\* (mutant) A contributor does not count what it has tokened.
SuspectsView(w, x) == x \in h[w].view

\* record_committed and static_committed. The owner knows; a contributor that has reason to
\* think that x is committed reads the manifest again, and forgets what it has tokened.
Suspects(w, x) == x \in h[w].view \/ (w # Owner /\ x \in h[w].tokened)

Refreshed(w, x) ==
    IF w # Owner /\ Suspects(w, x)
    THEN [h[w] EXCEPT !.view = manifest, !.tokened = {}]
    ELSE h[w]

SeenCommitted(w, x) == Suspects(w, x) /\ x \in Refreshed(w, x).view

\* No caller, the owner no more than a contributor, offers an item again while a token of its
\* own still carries it: it waits until that token is committed or lost. One that keeps
\* to the protocol offers an item that its handle counts as committed, and so makes it read
\* the manifest again, only when none of its tokens is on the way.
Mannerly(w, x) ==
    /\ x \notin Sent(w)
    /\ w # Owner /\ Suspects(w, x) => Sent(w) = {} \/ "asks early" \in Habits

\* write_record_at: any record not committed, in indexed mode.
WriteRecordAt(w, i, v) ==
    /\ Free(w) /\ mode.indexed /\ Mannerly(w, i) /\ ~SeenCommitted(w, i)
    /\ LET p == Placed(Refreshed(w, i), w, i, v) IN
       \/ Spend("write") /\ Finish(w, p, i, v, p.next)
       \/ FinishFails(w, p, i)
    /\ UNCHANGED <<mode, shape, manifest>>

\* write_static: written now, and pending only when that succeeded.
WriteStatic(w, x, v) ==
    LET me == Refreshed(w, x) IN
    /\ Free(w) /\ Mannerly(w, x) /\ ~SeenCommitted(w, x)
    /\ \/ /\ Spend("write")
          /\ disk' = [disk EXCEPT ![w][x] = v]
          /\ last' = [last EXCEPT ![w][x] = v]
          /\ h' = [h EXCEPT ![w] = [me EXCEPT !.pending = @ \cup {x}]]
          /\ UNCHANGED <<tokens, commit>>
       \/ /\ Spend("fault")
          /\ disk' \in {disk, [disk EXCEPT ![w][x] = v]}
          /\ Fail(w, me)
    /\ UNCHANGED <<mode, shape, manifest>>

\* Either of them on an item that is committed: an error, and perhaps a new view.
RefuseWrite(w, x) ==
    /\ Free(w) /\ Mannerly(w, x) /\ SeenCommitted(w, x)
    /\ x \in Rec => mode.indexed
    /\ h' = [h EXCEPT ![w] = Refreshed(w, x)]
    /\ UNCHANGED <<mode, disk, shape, manifest, tokens, commit, left, last>>

-----------------------------------------------------------------------------
(* Flushing                                                                *)

\* The handle after its dirty shards are written.
Clean(me) == [me EXCEPT !.dirty = {}, !.flushed = @ \cup me.dirty]

Untold(me) == [me EXCEPT !.pending = {}, !.tokened = @ \cup me.pending]

OwnToken(w) == [from |-> w, items |-> h[w].pending]

\* flush: write the dirty shards and hand out a token. (One without items is worth nothing.)
Flush(w) ==
    /\ Free(w) /\ ~mode.single /\ h[w].pending # {}
    /\ disk' = Written(w, h[w].dirty, h[w].buf)
    /\ h' = [h EXCEPT ![w] = Untold(Clean(h[w]))]
    /\ tokens' = tokens \cup {OwnToken(w)}
    /\ UNCHANGED <<mode, shape, manifest, commit, left, last>>

\* The write of shard s fails in a flush: the dirty set is empty already.
FlushFails(w) ==
    /\ Free(w) /\ Spend("fault")
    /\ \E s \in h[w].dirty :
          LET done == {r \in h[w].dirty : r < s} IN
          /\ \E wrote \in {done, done \cup {s}} : disk' = Written(w, wrote, h[w].buf)
          /\ Fail(w, [h[w] EXCEPT !.dirty = {}, !.flushed = @ \cup done])
    /\ UNCHANGED <<mode, shape, manifest>>

-----------------------------------------------------------------------------
(* Committing                                                              *)

\* verify: one token of each writer, the same items in all, none committed, and in append
\* mode the records that follow the committed ones.
Verify(ts) ==
    LET items == UNION {t.items : t \in ts}
        n     == Cardinality(Recs(h[Owner].view)) IN
    /\ \A w \in Team : Cardinality({t \in ts : t.from = w}) = 1
    /\ \A t \in ts : t.items = items
    /\ items \cap h[Owner].view = {}
    /\ ~mode.indexed => Recs(items) = n .. n + Cardinality(Recs(items)) - 1

\* (mutant) The shapes are left to the next commit.
BeginCommitManifest(ts, closing) ==
    commit' = [phase |-> "manifest", items |-> UNION {t.items : t \in ts}, used |-> ts, closing |-> closing]

\* apply_commit: shapes first if records are appended, the manifest last.
BeginCommit(ts, closing) ==
    LET items == UNION {t.items : t \in ts} IN
    commit' = [phase |-> IF mode.indexed \/ Recs(items) = {} THEN "manifest" ELSE "shapes",
               items |-> items, used |-> ts, closing |-> closing]

\* commit, with any of the tokens that were delivered.
Commit ==
    /\ Free(Owner) /\ ~mode.single
    /\ \E ts \in SUBSET tokens : ts # {} /\ Verify(ts) /\ BeginCommit(ts, FALSE)
    /\ UNCHANGED <<mode, disk, shape, manifest, h, tokens, left, last>>

\* flush and close of the Single writer, close of the owner: the own token goes straight in.
\* A close consumes the handle, also when verify refuses.
FlushAndCommit(closing) ==
    /\ Free(Owner) /\ (mode.single \/ closing)
    /\ h[Owner].pending # {}
    /\ disk' = Written(Owner, h[Owner].dirty, h[Owner].buf)
    /\ \E others \in SUBSET tokens :
          LET ts == others \cup {OwnToken(Owner)} IN
          \/ /\ Verify(ts) /\ BeginCommit(ts, closing)
             /\ h' = [h EXCEPT ![Owner] = Clean(@)]
          \/ /\ ~Verify(ts) /\ UNCHANGED commit
             /\ h' = [h EXCEPT ![Owner] = IF closing THEN NoHandle ELSE Clean(@)]
    /\ UNCHANGED <<mode, shape, manifest, tokens, left, last>>

GrowShapes ==
    /\ commit.phase = "shapes"
    /\ shape' = Cardinality(Recs(manifest \cup commit.items))
    /\ commit' = [commit EXCEPT !.phase = "manifest"]
    /\ UNCHANGED <<mode, disk, manifest, h, tokens, left, last>>

\* The handle of the owner after its commit: a close consumed it.
AfterCommit(me) == IF commit.closing THEN NoHandle ELSE me

\* The items X are committed: they are no longer pending.
Committed(me, X) == [me EXCEPT !.view = manifest \cup X, !.pending = @ \ X, !.tokened = @ \cup X]

WriteManifest ==
    /\ commit.phase = "manifest"
    /\ manifest' = manifest \cup commit.items
    /\ h' = [h EXCEPT ![Owner] = AfterCommit(Committed(@, commit.items))]
    /\ tokens' = tokens \ commit.used
    /\ commit' = NoCommit
    /\ UNCHANGED <<mode, disk, shape, left, last>>

\* A PUT of the shapes or of the manifest fails: the owner's state is as before the commit,
\* and the tokens may be committed again. A resume that fails leaves no handle. A manifest
\* whose PUT fails is the old one: that it is replaced and the failure reported all the same
\* is left out.
CommitFails ==
    /\ commit.phase # "idle" /\ Spend("fault")
    /\ \/ commit.phase = "shapes" /\ shape' \in {shape, Cardinality(Recs(manifest \cup commit.items))}
       \/ commit.phase \in {"manifest", "cut"} /\ UNCHANGED shape
    /\ h' = [h EXCEPT ![Owner] = AfterCommit(@)]
    /\ commit' = NoCommit
    /\ UNCHANGED <<mode, disk, manifest, tokens, last>>

\* invalidate and invalidate_statics: uncommitted in memory and in the manifest; when the PUT
\* fails transact puts the memory back, and nothing has happened.
Invalidate(X) ==
    /\ Free(Owner) /\ Spend("invalidate")
    /\ X # {} /\ X \subseteq h[Owner].view
    /\ \/ X \subseteq Rec /\ mode.indexed
       \/ X \subseteq Statics
    /\ manifest' = manifest \ X
    /\ h' = [h EXCEPT ![Owner].view = @ \ X]
    /\ UNCHANGED <<mode, disk, shape, tokens, commit, last>>

-----------------------------------------------------------------------------
(* The end of a handle                                                     *)

\* close of a contributor (or of an owner with nothing more to commit).
Close(w) ==
    /\ Free(w) /\ h[w].pending = {} /\ h[w].dirty = {}
    /\ h' = [h EXCEPT ![w] = NoHandle]
    /\ UNCHANGED <<mode, disk, shape, manifest, tokens, commit, left, last>>

\* The job is preempted at any time, also inside a flush of several shards.
Preempt ==
    /\ Spend("preempt")
    /\ \E s \in [Team -> Shards \cup {-1}] :
          disk' = [w \in Team |-> Written(w, {r \in h[w].dirty : r <= s[w]}, h[w].buf)[w]]
    /\ Abort
    /\ UNCHANGED <<mode, shape, manifest>>

Next ==
    \/ ResumeOwner \/ TruncateManifest
    \/ \E n \in 0 .. NumRecords : TruncateShapes(n)
    \/ \E w \in Team :
          \/ OpenContributor(w) \/ WriteRecord(w) \/ Flush(w) \/ FlushFails(w) \/ Close(w)
          \/ \E i \in Rec, v \in Value : WriteRecordAt(w, i, v)
          \/ \E x \in mode.statics, v \in Value : WriteStatic(w, x, v)
          \/ \E x \in Item : RefuseWrite(w, x)
    \/ Commit \/ GrowShapes \/ WriteManifest \/ CommitFails \/ Preempt
    \/ \E closing \in BOOLEAN : FlushAndCommit(closing)
    \/ \E X \in SUBSET Item : Invalidate(X)

Spec == Init /\ [][Next]_vars

-----------------------------------------------------------------------------
(* Properties                                                              *)

\* What readers get: an item the manifest names, within the array's shape.
Visible ==
    [x \in Item |-> IF x \in manifest /\ (x \in Rec /\ ~mode.indexed => x < shape)
                    THEN [w \in Team |-> disk[w][x]] ELSE Fill]

Reader == INSTANCE CommittedRecords WITH
    Content <- UNION {[m.team -> Value] : m \in Modes}, Absent <- Fill, visible <- Visible

\* A committed record or static appears with every writer's region of it, and what a reader
\* can get never changes under the reader, whatever is flushed, lost or resumed meanwhile.
CommittedKept == Reader!Spec

\* A committed item is on disk as its writers gave it last: no flush, reload or failed
\* write leaves a region of it unwritten or old.
CommittedIsWritten ==
    \A x \in manifest, w \in Team : disk[w][x] \in Value /\ disk[w][x] = last[w][x]

\* The manifest never names records that the shapes do not hold yet: shapes grow first.
NamedRecordsAreInShape ==
    ~mode.indexed /\ ~(Recs(manifest') \subseteq manifest) => Cardinality(Recs(manifest')) <= shape'

\* Whatever the manifest comes to name can be read: it is whole on disk, and in shape.
CommittedIsReadable == []CommittedIsWritten /\ [][NamedRecordsAreInShape]_vars

\* Append mode: what a writer has written beyond the committed records, sent or not, is
\* exactly their continuation, so that the next commit of all writers can succeed.
TokensContinuePrefix ==
    \A w \in Team : h[w].up /\ ~mode.indexed =>
        Recs(manifest \cup Sent(w) \cup h[w].pending) = 0 .. h[w].next - 1

\* Writing an item that is committed is an error at the call, whichever writer makes it.
RewriteIsRefused ==
    [][\A w \in Team : h'[w].pending \cap manifest' \subseteq h[w].pending]_vars
=============================================================================
