----------------------------- MODULE FetchCache -----------------------------
(***************************************************************************)
(* One entry of the content-addressed cache (rust/src/cache.rs over        *)
(* rust/src/store/local.rs), fetched by several threads or OS processes    *)
(* that share the cache root.  Every fetch is the whole of Cache::fetch:   *)
(* the lock-free hit check (the validation ladder with rung 0), the        *)
(* per-blob lock, the re-check under it, the conditional download over     *)
(* the canonical URL and its mirrors, the commit and the manifest.         *)
(*                                                                         *)
(* The contents of an object are values; a digest is the value itself, so  *)
(* two contents never collide.  An ETag (or Last-Modified) is Tag of the   *)
(* contents.  A TTL is a flag that the Expire step clears.                 *)
(***************************************************************************)
EXTENDS Naturals

CONSTANTS
    Procs,            \* threads or processes that fetch this URL
    Offline,          \* those whose Cache was built offline
    Content,          \* what an object can hold
    Torn,             \* a copy that mixes two contents
    None,             \* no blob, no manifest, no lock holder, no validator
    FirstContent,     \* what every source holds at first
    Later,            \* Later[c]: the contents c can be rewritten to
    Len,              \* the length of each content
    Tag,              \* the validator a server sends with a content, or None
    NumSources,       \* the canonical URL is source 1, the mirrors follow
    FileSources,      \* the sources that are file:// URLs
    Ext,              \* Ext[s]: the blob extension source s gives
    Bare,             \* "no extension"
    Incomplete,       \* the loader's period is still open
    Expected,         \* Expected[p]: the checksum p's requests declare, or None
    VerifyOnRead,     \* CacheBuilder::verify_on_read
    Recheck,          \* CacheBuilder::revalidate_file_sources
    Limit             \* how many fetches, changes, evictions, ... a run has

Sources   == 1 .. NumSources
Exts      == {Ext[s] : s \in Sources} \cup {Bare}
Budgets   == {"fetch", "change", "evict", "fault", "expire"}
States    == {"ok", "missing", "down"}
Bytes     == Content \cup {Torn}
Tags      == {Tag[c] : c \in Content} \cup {None}
Manifest  == [sha : Bytes, tag : Tags, fresh : BOOLEAN]

ASSUME ConstantsAssumption ==
    /\ NumSources \in Nat \ {0}
    /\ Offline \subseteq Procs
    /\ FileSources \subseteq Sources
    /\ FirstContent \in Content
    /\ Torn \notin Content
    /\ None \notin Bytes \cup Procs \cup Manifest
    /\ States \cap Content = {}
    /\ Later \in [Content -> SUBSET Content]
    /\ Len \in [Bytes -> Nat]
    /\ Expected \in [Procs -> Content \cup {None}]
    /\ Incomplete \in BOOLEAN /\ VerifyOnRead \in BOOLEAN /\ Recheck \in BOOLEAN
    /\ Limit \in [Budgets -> Nat]

VARIABLES
    src,        \* src[s]: what source s would answer now
    blob,       \* blob[e]: the file <key>.e, or None
    meta,       \* the manifest, or None
    lock,       \* the holder of the flock on <key>.lock, or None
    pc, call,   \* where each fetch is, and its locals
    tip,        \* (history) the extension of the last committed blob
    dirty,      \* (history) a commit lost its manifest
    downloads,  \* (history) blobs committed
    committed,  \* (history) which bytes were committed under which declared checksum
    witness,    \* (history) what held at some time during each fetch
    used        \* how much of each Limit is spent

store == <<blob, meta, tip, dirty>>
vars  == <<src, blob, meta, lock, pc, call, tip, dirty, downloads, committed, witness, used>>

MaybeMeta == Manifest \cup {None}
Labels    == {"idle", "lookup", "meta", "stat", "hash", "verify", "wait",
              "prior", "source", "copy", "commit", "record", "touch", "refresh"}
Outcomes  == {"none", "hit", "downloaded", "notmodified", "cachemiss",
              "absent", "failed", "integrity", "stale304", "crashed"}

NoCall == [path |-> Bare, man |-> None, at |-> 1, validators |-> TRUE,
           prior |-> None, absent |-> TRUE, sha |-> None, tag |-> None,
           out |-> "none", bytes |-> None]

-----------------------------------------------------------------------------
(* Helpers.                                                                *)

Spend(kind) == /\ used[kind] < Limit[kind]
               /\ used' = [used EXCEPT ![kind] = @ + 1]

Goto(p, label) == pc' = [pc EXCEPT ![p] = label]

\* LocalStore::get_blob_hinted: the hinted extension, then the bare key, then
\* whatever the directory scan meets first.
Found(hint) ==
    IF blob[hint] # None THEN {hint}
    ELSE IF blob[Bare] # None THEN {Bare}
    ELSE {e \in Exts : blob[e] # None}

\* validate::decide_at: the ladder below rung 0.
Decide(p, m) ==
    CASE Expected[p] # None -> IF m.sha = Expected[p] THEN "Hit" ELSE "Miss"
      [] Expected[p] = None /\ ~Incomplete -> "Hit"
      [] Expected[p] = None /\ Incomplete /\ m.tag # None -> "Revalidate"
      [] OTHER -> IF m.fresh THEN "Hit" ELSE "Miss"

\* (mutant) The lock outlives the call.
ReturnLocked(p, out) ==
    /\ Goto(p, "idle")
    /\ call' = [call EXCEPT ![p].out = out]
    /\ UNCHANGED lock

\* A fetch returns: BlobLock drops with the call, so a held lock is released.
Return(p, out) ==
    /\ Goto(p, "idle")
    /\ lock' = IF lock = p THEN None ELSE lock
    /\ call' = [call EXCEPT ![p].out = out]

\* A successful return hands out a path; "bytes" is what is there at that time.
Serve(p, out, path, man) ==
    /\ Goto(p, "idle")
    /\ lock' = IF lock = p THEN None ELSE lock
    /\ call' = [call EXCEPT ![p].out = out, ![p].path = path,
                            ![p].man = man, ![p].bytes = blob[path]]

\* (mutant) The slow path forgets the lock.
NoHitWithoutLock(p) ==
    IF p \in Offline THEN Return(p, "cachemiss")
    ELSE Goto(p, "prior") /\ UNCHANGED <<lock, call>>

\* The check found nothing to serve: CacheMiss offline; otherwise the lock,
\* or, when the check ran under the lock, the download.
NoHit(p) ==
    IF p \in Offline THEN Return(p, "cachemiss")
    ELSE /\ Goto(p, IF lock = p THEN "prior" ELSE "wait")
         /\ UNCHANGED <<lock, call>>

-----------------------------------------------------------------------------
(* The hit check (try_hit, read_offline).  Each file operation is a step:  *)
(* it runs without the lock the first time and under it the second.        *)

Start(p) ==
    /\ pc[p] = "idle"
    /\ Spend("fetch")
    /\ call' = [call EXCEPT ![p] = NoCall]
    /\ Goto(p, "lookup")
    /\ UNCHANGED <<src, store, lock, downloads>>

LookupBlob(p) ==
    /\ pc[p] = "lookup"
    /\ \/ \E e \in Found(Ext[1]) :
            /\ call' = [call EXCEPT ![p].path = e]
            /\ Goto(p, "meta")
            /\ UNCHANGED lock
       \/ Found(Ext[1]) = {} /\ NoHit(p)
    /\ UNCHANGED <<src, store, downloads, used>>

\* Past rung 0 the entry is served, after a verification if one is asked for.
Accept(p, man) ==
    IF VerifyOnRead
    THEN /\ Goto(p, "verify")
         /\ call' = [call EXCEPT ![p].man = man]
         /\ UNCHANGED lock
    ELSE Serve(p, "hit", call[p].path, man)

ReadMeta(p) ==
    /\ pc[p] = "meta"
    /\ IF meta = None THEN NoHit(p)
       ELSE IF p \in Offline THEN Accept(p, meta)
       ELSE IF Decide(p, meta) # "Hit" THEN NoHit(p)
       ELSE IF Recheck /\ 1 \in FileSources
            THEN /\ Goto(p, "stat")
                 /\ call' = [call EXCEPT ![p].man = meta]
                 /\ UNCHANGED lock
            ELSE Accept(p, meta)
    /\ UNCHANGED <<src, store, downloads, used>>

\* Nothing at the canonical path: a miss, unless a mirror may have served it.
SourceMissing(p) == IF NumSources = 1 THEN NoHit(p) ELSE Accept(p, call[p].man)

\* Rung 0, SourceRevalidator::state: stat, then hash.  (Its memo of earlier
\* hashes is a module of its own.)
StatSource(p) ==
    /\ pc[p] = "stat"
    /\ CASE src[1].state = "missing" -> SourceMissing(p)
         [] src[1].state = "down"    -> Accept(p, call[p].man)
         [] OTHER ->
              IF Len[src[1].content] # Len[call[p].man.sha] THEN NoHit(p)
              ELSE Goto(p, "hash") /\ UNCHANGED <<lock, call>>
    /\ UNCHANGED <<src, store, downloads, used>>

\* (mutant) An equal length is taken for an equal file.
TrustLength(p) ==
    /\ pc[p] = "hash"
    /\ Accept(p, call[p].man)
    /\ UNCHANGED <<src, store, downloads, used>>

HashSource(p) ==
    /\ pc[p] = "hash"
    /\ CASE src[1].state = "missing" -> SourceMissing(p)
         [] src[1].state = "down"    -> Accept(p, call[p].man)
         [] OTHER -> IF src[1].content = call[p].man.sha
                     THEN Accept(p, call[p].man) ELSE NoHit(p)
    /\ UNCHANGED <<src, store, downloads, used>>

\* verify_integrity.  A blob that is gone is an Io error of kind NotFound,
\* which Error::is_not_found reports as an absence.
VerifyBlob(p) ==
    /\ pc[p] = "verify"
    /\ LET got == blob[call[p].path] IN
       IF got = None THEN Return(p, "absent")
       ELSE IF got # call[p].man.sha THEN Return(p, "integrity")
       ELSE Serve(p, "hit", call[p].path, call[p].man)
    /\ UNCHANGED <<src, store, downloads, used>>

\* (mutant) No second check under the lock.
AcquireAndDownload(p) ==
    /\ pc[p] = "wait"
    /\ lock = None
    /\ lock' = p
    /\ Goto(p, "prior")
    /\ UNCHANGED <<src, store, call, downloads, used>>

\* LocalStore::lock: a blocking flock; then try_hit again.
AcquireLock(p) ==
    /\ pc[p] = "wait"
    /\ lock = None
    /\ lock' = p
    /\ Goto(p, "lookup")
    /\ UNCHANGED <<src, store, call, downloads, used>>

-----------------------------------------------------------------------------
(* The download, under the lock (download_locked_with).                    *)

BeginDownload(p) ==
    /\ pc[p] = "prior"
    /\ call' = [call EXCEPT ![p].prior = meta, ![p].at = 1, ![p].absent = TRUE]
    /\ Goto(p, "source")
    /\ UNCHANGED <<src, store, lock, downloads, used>>

\* (mutant) Only the last source's failure is looked at.
LastSourceDecides(p, isAbsence) ==
    IF call[p].at < NumSources
    THEN /\ call' = [call EXCEPT ![p].at = @ + 1]
         /\ UNCHANGED <<pc, lock>>
    ELSE Return(p, IF isAbsence THEN "absent" ELSE "failed")

\* A source failed: remember whether every one so far was a definite absence
\* and go on with the next; when none is left, AllMirrorsFailed.
NextSource(p, isAbsence) ==
    LET absent == call[p].absent /\ isAbsence IN
    IF call[p].at < NumSources
    THEN /\ call' = [call EXCEPT ![p].at = @ + 1, ![p].absent = absent]
         /\ UNCHANGED <<pc, lock>>
    ELSE Return(p, IF absent THEN "absent" ELSE "failed")

\* (mutant) Only a download needs the lock, so a 304 lets it go.
UnchangedUnlocked(p) ==
    /\ Goto(p, "touch")
    /\ lock' = None
    /\ UNCHANGED call

\* The answer is a 304: nothing was staged, the lock is still held.
Unchanged(p) == Goto(p, "touch") /\ UNCHANGED <<lock, call>>

\* The validators the conditional request carries.
Conditional(p) ==
    IF call[p].prior # None /\ call[p].validators THEN call[p].prior.tag ELSE None

ContactSource(p) ==
    LET s == call[p].at
        c == src[s].content IN
    /\ pc[p] = "source"
    /\ CASE src[s].state = "missing" -> NextSource(p, TRUE)
         [] src[s].state = "down"    -> NextSource(p, FALSE)
         [] OTHER ->
              IF s \in FileSources
              THEN /\ call' = [call EXCEPT ![p].sha = c, ![p].tag = None]
                   /\ Goto(p, "copy") /\ UNCHANGED lock
              ELSE IF Tag[c] # None /\ Conditional(p) = Tag[c]
              THEN Unchanged(p)
              ELSE /\ call' = [call EXCEPT ![p].sha = c, ![p].tag = Tag[c]]
                   /\ Goto(p, "commit") /\ UNCHANGED lock
    /\ UNCHANGED <<src, store, downloads, used>>

\* FileTransport::fetch ends its copy.  What a rewrite meanwhile did to it is
\* decided by ChangeSource.
FinishCopy(p) ==
    /\ pc[p] = "copy"
    /\ Goto(p, "commit")
    /\ UNCHANGED <<src, store, lock, call, downloads, used>>

-----------------------------------------------------------------------------
(* The commit (commit_result).                                             *)

\* (mutant) "The content is identical (same key)", so an older blob is kept.
KeepExistingBlob(e, sha) ==
    blob' = [blob EXCEPT ![e] = IF @ = None THEN sha ELSE @]

\* Store::commit_blob renames the staging file to <key>.<ext of the source>.
RenameBlob(e, sha) == blob' = [blob EXCEPT ![e] = sha]

\* (mutant) Prior blobs are unlinked before the rename, as a step of its own.
UnlinkThenCommit(p) ==
    LET e == Ext[call[p].at] IN
    /\ pc[p] = "commit"
    /\ \/ /\ \E x \in Exts : blob[x] # None
          /\ blob' = [x \in Exts |-> None]
          /\ UNCHANGED <<tip, downloads, call, pc, lock>>
       \/ /\ \A x \in Exts : blob[x] = None
          /\ RenameBlob(e, call[p].sha)
          /\ tip' = e
          /\ downloads' = downloads + 1
          /\ call' = [call EXCEPT ![p].path = e]
          /\ Goto(p, "record")
          /\ UNCHANGED lock
    /\ UNCHANGED <<src, meta, dirty, used>>

\* (mutant) The declared checksum is not looked at.
CommitUnchecked(p) ==
    LET e == Ext[call[p].at] IN
    /\ pc[p] = "commit"
    /\ RenameBlob(e, call[p].sha)
    /\ tip' = e
    /\ downloads' = downloads + 1
    /\ call' = [call EXCEPT ![p].path = e]
    /\ Goto(p, "record")
    /\ UNCHANGED <<src, meta, dirty, used, lock>>

CommitBlob(p) ==
    LET e == Ext[call[p].at] IN
    /\ pc[p] = "commit"
    /\ IF Expected[p] # None /\ call[p].sha # Expected[p]
       THEN /\ Return(p, "integrity")
            /\ UNCHANGED <<blob, tip, downloads>>
       ELSE /\ RenameBlob(e, call[p].sha)
            /\ tip' = e
            /\ downloads' = downloads + 1
            /\ call' = [call EXCEPT ![p].path = e]
            /\ Goto(p, "record")
            /\ UNCHANGED lock
    /\ UNCHANGED <<src, meta, dirty, used>>

WriteManifest(p) ==
    LET man == [sha |-> call[p].sha, tag |-> call[p].tag, fresh |-> TRUE] IN
    /\ pc[p] = "record"
    /\ meta' = man
    /\ dirty' = FALSE
    /\ Serve(p, "downloaded", call[p].path, man)
    /\ UNCHANGED <<src, blob, tip, downloads, used>>

\* put_meta fails (a full disk): after commit_blob, or on a 304, where the
\* blob is none of this call's.
FailManifest(p) ==
    /\ pc[p] \in {"record", "refresh"}
    /\ Spend("fault")
    /\ dirty' = (dirty \/ pc[p] = "record")
    /\ Return(p, "failed")
    /\ UNCHANGED <<src, blob, meta, tip, downloads>>

\* The lookup of the blob after a 304 found it in e, or found nothing.
Refound(p, e) ==
    /\ call' = [call EXCEPT ![p].path = e]
    /\ Goto(p, "refresh")
    /\ UNCHANGED lock

\* (mutant) A 304 without a blob is final.
TouchWithoutRetry(p) ==
    LET found == Found(Ext[call[p].at]) IN
    /\ pc[p] = "touch"
    /\ \/ \E e \in found : Refound(p, e)
       \/ found = {} /\ Return(p, "stale304")
    /\ UNCHANGED <<src, store, downloads, used>>

\* 304 Not Modified: the blob is looked up; when it is gone, the source is
\* asked once more without validators (download_locked).
TouchBlob(p) ==
    LET found == Found(Ext[call[p].at]) IN
    /\ pc[p] = "touch"
    /\ \/ \E e \in found : Refound(p, e)
       \/ /\ found = {}
          /\ IF call[p].validators
             THEN /\ call' = [call EXCEPT ![p].validators = FALSE]
                  /\ Goto(p, "prior") /\ UNCHANGED lock
             ELSE Return(p, "stale304")
    /\ UNCHANGED <<src, store, downloads, used>>

\* The manifest read before the request is written back, refreshed.  Nothing
\* here looks at a declared checksum.
RefreshManifest(p) ==
    LET man == [call[p].prior EXCEPT !.fresh = TRUE] IN
    /\ pc[p] = "refresh"
    /\ meta' = man
    /\ Serve(p, "notmodified", call[p].path, man)
    /\ UNCHANGED <<src, blob, tip, dirty, downloads, used>>

-----------------------------------------------------------------------------
(* What happens around the fetches.                                        *)

\* The copies of source s under way hold parts of two contents.
Mixed(s) == [p \in Procs |->
    IF pc[p] = "copy" /\ call[p].at = s THEN [call[p] EXCEPT !.sha = Torn] ELSE call[p]]

\* A source is rewritten, disappears, cannot be reached, or comes back.  A
\* file rewritten in place tears a copy of it that is under way; one renamed
\* over leaves the copy the old bytes.
ChangeSource(s) ==
    /\ Spend("change")
    /\ \/ /\ \E c \in Later[src[s].content] : src' = [src EXCEPT ![s].content = c]
          /\ call' \in {call, Mixed(s)}
       \/ /\ \E st \in States \ {src[s].state} : src' = [src EXCEPT ![s].state = st]
          /\ UNCHANGED call
    /\ UNCHANGED <<store, lock, pc, downloads>>

\* A cleanup removes a blob or the manifest: the store has no operation for
\* it, callers and operators delete the files.
EvictBlob(e) ==
    /\ blob[e] # None
    /\ Spend("evict")
    /\ blob' = [blob EXCEPT ![e] = None]
    /\ UNCHANGED <<src, meta, tip, dirty, lock, pc, call, downloads>>

EvictManifest ==
    /\ meta # None
    /\ Spend("evict")
    /\ meta' = None
    /\ UNCHANGED <<src, blob, tip, dirty, lock, pc, call, downloads>>

\* The TTL of an open period runs out.
Expire ==
    /\ meta # None /\ meta.fresh
    /\ Spend("expire")
    /\ meta' = [meta EXCEPT !.fresh = FALSE]
    /\ UNCHANGED <<src, blob, tip, dirty, lock, pc, call, downloads>>

\* The process dies: the kernel drops its flock, its locals are gone, the
\* files stay as they are.
Crash(p) ==
    /\ pc[p] # "idle"
    /\ Spend("fault")
    /\ Goto(p, "idle")
    /\ lock' = IF lock = p THEN None ELSE lock
    /\ call' = [call EXCEPT ![p] = [NoCall EXCEPT !.out = "crashed"]]
    /\ dirty' = (dirty \/ pc[p] = "record")
    /\ UNCHANGED <<src, blob, meta, tip, downloads>>

\* The run is over when the fetches are spent and all have returned.
Finished ==
    /\ \A p \in Procs : pc[p] = "idle"
    /\ used["fetch"] = Limit["fetch"]
    /\ UNCHANGED <<src, store, lock, pc, call, downloads, used>>

-----------------------------------------------------------------------------
\* What an observer of the canonical source sees.
View == IF src[1].state = "ok" THEN src[1].content ELSE src[1].state

Moment == [seen   |-> {View},
           gone   |-> {s \in Sources : src[s].state = "missing"},
           lacked |-> meta = None \/ \A e \in Exts : blob[e] = None]

\* (history) Each running fetch collects the moments it lives through, and a
\* commit is remembered with what its request declared.
Observe ==
    /\ witness' = [p \in Procs |->
         IF pc[p] = "idle" THEN IF pc'[p] = "idle" THEN witness[p] ELSE Moment'
         ELSE [seen   |-> witness[p].seen \cup Moment'.seen,
               gone   |-> witness[p].gone \cup Moment'.gone,
               lacked |-> witness[p].lacked \/ used'["evict"] # used["evict"]]]
    /\ committed' = committed \cup
         {<<Expected[p], call[p].sha>> : p \in {q \in Procs : pc[q] = "commit" /\ pc'[q] = "record"}}

\* Nothing is stored yet.
Cold ==
    /\ blob = [e \in Exts |-> None]
    /\ meta = None
    /\ tip = Bare
    /\ downloads = 0
    /\ committed = {}

\* An earlier run has fetched the entry from source s and declared nothing.
\* What a mirror gave counts for nothing: the canonical source may replace it.
Warm(s) ==
    /\ blob = [e \in Exts |-> IF e = Ext[s] THEN FirstContent ELSE None]
    /\ meta = [sha |-> FirstContent, fresh |-> TRUE,
               tag |-> IF s \in FileSources THEN None ELSE Tag[FirstContent]]
    /\ tip = Ext[s]
    /\ downloads = IF s = 1 THEN 1 ELSE 0
    /\ committed = {<<None, FirstContent>>}

Init ==
    /\ src = [s \in Sources |-> [state |-> "ok", content |-> FirstContent]]
    /\ Cold \/ \E s \in Sources : Warm(s)
    /\ lock = None
    /\ pc = [p \in Procs |-> "idle"]
    /\ call = [p \in Procs |-> NoCall]
    /\ dirty = FALSE
    /\ witness = [p \in Procs |-> Moment]
    /\ used = [k \in Budgets |-> 0]

Step(p) ==
    \/ LookupBlob(p) \/ ReadMeta(p) \/ StatSource(p) \/ HashSource(p)
    \/ VerifyBlob(p) \/ AcquireLock(p) \/ BeginDownload(p) \/ ContactSource(p)
    \/ FinishCopy(p) \/ CommitBlob(p) \/ WriteManifest(p) \/ TouchBlob(p)
    \/ RefreshManifest(p)

Environment ==
    \/ \E s \in Sources : ChangeSource(s)
    \/ \E e \in Exts : EvictBlob(e)
    \/ EvictManifest
    \/ Expire

Action ==
    \/ \E p \in Procs : Start(p) \/ Step(p) \/ FailManifest(p) \/ Crash(p)
    \/ Environment
    \/ Finished

Next == Action /\ Observe

Spec == Init /\ [][Next]_vars

\* Every process is scheduled; a transport answers or times out.
FairSpec == Spec /\ \A p \in Procs : WF_vars(Step(p) /\ Observe)

-----------------------------------------------------------------------------
(* Properties.                                                             *)

Call == [path : Exts, man : MaybeMeta, at : Sources, validators : BOOLEAN,
         prior : MaybeMeta, absent : BOOLEAN, sha : Bytes \cup {None},
         tag : Tags, out : Outcomes, bytes : Bytes \cup {None}]

\* Every variable has its type (the witness and the commits are histories).
TypeOK ==
    /\ src \in [Sources -> [state : States, content : Content]]
    /\ blob \in [Exts -> Bytes \cup {None}]
    /\ meta \in MaybeMeta
    /\ lock \in Procs \cup {None}
    /\ pc \in [Procs -> Labels]
    /\ call \in [Procs -> Call]
    /\ tip \in Exts
    /\ dirty \in BOOLEAN
    /\ downloads \in Nat
    /\ used \in [Budgets -> Nat]

Downloading == {"prior", "source", "copy", "commit", "record", "touch", "refresh"}

\* Whoever downloads holds the lock, so two downloads of one entry never
\* overlap and nobody offline ever downloads.
SingleFlight == \A p \in Procs : pc[p] \in Downloading => lock = p /\ p \notin Offline

\* Between the two writes of a commit the entry is not settled; after a commit
\* whose manifest was lost it is not until the next one.
Settled == ~dirty /\ \A p \in Procs : pc[p] # "record"

\* A settled entry's manifest describes the last committed blob, through every
\* interleaving of fetches with evictions, blobs of several extensions, and 304s
\* that write an older manifest back (commit_result).
ManifestDescribesTip ==
    Settled /\ meta # None /\ blob[tip] # None => blob[tip] = meta.sha

\* The manifest describes whatever file a lookup by key would serve
\* (spec/cache-format.md section 3: the manifest carries its blob's digest and
\* its on-disk length), whenever no fetch holds the lock.
ManifestDescribesBlob ==
    lock = None /\ meta # None =>
        \A e \in Found(Ext[1]) : blob[e] = meta.sha

\* A fetch is answered from the cache only with an entry the canonical file
\* matched at some time during that fetch; a source that could not be read, or
\* is missing while mirrors are configured, is no evidence against it.
HitIsFresh ==
    Recheck /\ 1 \in FileSources =>
    \A p \in Procs \ Offline : call[p].out = "hit" =>
        \/ call[p].man.sha \in witness[p].seen
        \/ "down" \in witness[p].seen
        \/ NumSources > 1 /\ "missing" \in witness[p].seen

\* "Not found" is a verdict on the sources: every one of them was missing at
\* some time during the fetch (error.rs: "the source DEFINITIVELY reported that
\* the object does not exist").  A blob evicted between its look-up and the
\* verify_on_read of it passes for an absent source too.
NotFoundIsSound ==
    \A p \in Procs : call[p].out = "absent" =>
        witness[p].gone = Sources \/ (VerifyOnRead /\ used["evict"] > 0)

\* An offline read reports a miss only of an entry that was incomplete when it
\* started, or that was evicted meanwhile: a re-ingest never makes one vanish.
OfflineMissIsSound ==
    \A p \in Procs : call[p].out = "cachemiss" => witness[p].lacked

\* N racing fetchers download once; each further download answers a change of
\* a source, an eviction, an expiry or a fault.
DownloadsAreCaused ==
    downloads <= 1 + used["change"] + used["evict"] + used["expire"] + used["fault"]

\* What the cache holds is used: neither fetched again nor missed offline.
EntryIsUsed == DownloadsAreCaused /\ OfflineMissIsSound

\* A manifest whose blob was evicted never makes the entry unfetchable: the
\* 304 it provokes is retried without validators.
NoStale304 == \A p \in Procs : call[p].out # "stale304"

\* A fetch fails for its sources' reasons, never for what the cache has lost.
FailuresAreTheSources == NotFoundIsSound /\ NoStale304

Answered == {"hit", "downloaded", "notmodified"}

\* A fetch that declares a checksum is never answered with other bytes by a hit
\* or a download, not even after a crash between a blob and its manifest.  Only
\* a 304, where the code does not look at the checksum, hands it other bytes,
\* and then those that a fetch with another declaration, or none, committed.
ServedBytesAreExpected ==
    \A p \in Procs : Expected[p] # None /\ call[p].out \in Answered =>
        \/ call[p].bytes \in {Expected[p], None}
        \/ /\ call[p].out = "notmodified"
           /\ \E declared \in (Content \cup {None}) \ {Expected[p]} :
                 <<declared, call[p].bytes>> \in committed

\* The cache keeps its promise (CacheEntry): whatever files it goes through,
\* each fetch is answered from one atomic manifest, or has stored the answer
\* itself as the entry's only filler.
Entry == INSTANCE CacheEntry WITH
    entry  <- meta,
    filler <- lock,
    busy   <- {p \in Procs : pc[p] # "idle"},
    view   <- [p \in Procs |-> call[p].man],
    got    <- [p \in Procs |->
                 IF call[p].out \in Answered
                 THEN call[p].man ELSE None]

EntryKept == Entry!Spec

\* Every fetch returns, whatever the others do while it waits for the lock.
FetchReturns == \A p \in Procs : pc[p] # "idle" ~> pc[p] = "idle"

=============================================================================
