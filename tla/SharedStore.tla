---------------------------- MODULE SharedStore ----------------------------
(***************************************************************************)
(* One cache entry shared by the three bindings: Rust (rust/src/store/     *)
(* local.rs), Python (earthsciio/backends/local.py, cache.py) and Julia    *)
(* (julia/src/store.jl, cache.jl), each a process of its own.  FetchCache  *)
(* follows one binding through its whole fetch; here a fetch is reduced to *)
(* what the bindings do differently to the same files: how they lock, what *)
(* they count as a hit, and how they commit.                               *)
(*                                                                         *)
(* A flock holds the inode it was opened on and leaves the file behind.  A *)
(* Julia pidfile is the file: created exclusively, refreshed by its living *)
(* holder, removed at the end, stolen when nobody has refreshed it.        *)
(* Pidfile.mkpidlock is a library; its steal is one step here, which spares*)
(* it the races it may have on its own.                                    *)
(***************************************************************************)
EXTENDS Naturals, FiniteSets

CONSTANTS
    Procs,
    Mixes,         \* [lang, offline, versions, fetches]: each process's binding, who reads
                   \* offline, how many versions the source has in time, how many fetches
    None,
    MaxCrashes, MaxInodes     \* bounds

ASSUME StoreAssumption ==
    /\ Mixes \subseteq [lang : [Procs -> {"rust", "python", "julia"}],
                   offline : SUBSET Procs, versions : Nat, fetches : Nat]
    /\ {MaxCrashes, MaxInodes} \subseteq Nat
    /\ None \notin Procs \cup Nat

VARIABLES
    mix,           \* which of the Mixes the processes are
    source,        \* the version of the source file, rewritten in place
    blob, meta,    \* the version each file of the entry holds, or None
    lockfile,      \* the inode under the lock's name, or 0
    flock,         \* flock[i]: who holds a flock on inode i, or None
    stale,         \* the lock file has not been touched for stale_age
    pc, inode, want, got,   \* each process: where it is, and its locals
    out,           \* the answer of its last fetch
    whole,         \* (history) the entry was complete when the fetch began
    torn,          \* (history) the last process to replace the blob died before its manifest
    downloads, inodes, fetches, crashes

files  == <<blob, meta, downloads>>
locks  == <<lockfile, flock, stale, inodes>>
bounds == <<fetches, crashes>>
vars   == <<mix, source, files, locks, pc, inode, want, got, out, whole, torn, bounds>>

Lang    == mix.lang
Offline == mix.offline

Inodes   == 1 .. MaxInodes

Goto(p, label) == pc' = [pc EXCEPT ![p] = label]

\* The process is inside: it came by its lock and still holds it.
Holds(p) == inode[p] # 0 /\ pc[p] # "wait"

-----------------------------------------------------------------------------
(* The lock.                                                               *)

\* (mutant) The lock file goes with its first holder.
ReleaseAndRemove(p, crashed) ==
    IF ~Holds(p) THEN UNCHANGED <<lockfile, flock>>
    ELSE lockfile' = 0 /\ flock' = [flock EXCEPT ![inode[p]] = None]

\* What the end of a fetch or of a process does to the locks.
Release(p, crashed) ==
    LET i == inode[p] IN
    IF ~Holds(p) THEN UNCHANGED <<lockfile, flock>>
    ELSE IF Lang[p] = "julia"
         THEN /\ lockfile' = IF lockfile = i /\ ~crashed THEN 0 ELSE lockfile
              /\ UNCHANGED flock
         ELSE /\ flock' = [flock EXCEPT ![i] = None]
              /\ UNCHANGED lockfile

\* A new inode appears under the lock's name.
CreateLockFile(p) ==
    /\ inodes < MaxInodes
    /\ inodes' = inodes + 1
    /\ lockfile' = inodes + 1
    /\ stale' = FALSE
    /\ inode' = [inode EXCEPT ![p] = inodes + 1]

\* Rust and Python open the file, creating it when it is not there.
OpenLockFile(p) ==
    /\ pc[p] = "open" /\ Lang[p] # "julia"
    /\ IF lockfile = 0 THEN CreateLockFile(p)
       ELSE inode' = [inode EXCEPT ![p] = lockfile] /\ UNCHANGED <<inodes, lockfile, stale>>
    /\ Goto(p, "wait")
    /\ UNCHANGED <<source, files, flock, want, got, out, whole, torn, bounds>>

\* flock(LOCK_EX) is granted; then the entry is looked at again.
TakeFlock(p) ==
    /\ pc[p] = "wait"
    /\ flock[inode[p]] = None
    /\ flock' = [flock EXCEPT ![inode[p]] = p]
    /\ Goto(p, "look")
    /\ UNCHANGED <<source, files, lockfile, stale, inodes, inode, want, got, out,
                   whole, torn, bounds>>

\* (mutant) Any pidfile that stands in the way is removed.
MayCreate(p) == TRUE

\* (mutant) A pidfile is never stolen.
NeverStolen(p) == lockfile = 0

\* mkpidlock: the file is not there, or it is stale.
PidfileIsFree(p) == lockfile = 0 \/ stale

TakePidfile(p) ==
    /\ pc[p] = "open" /\ Lang[p] = "julia"
    /\ PidfileIsFree(p)
    /\ CreateLockFile(p)
    /\ Goto(p, "look")
    /\ UNCHANGED <<source, files, flock, want, got, out, whole, torn, bounds>>

\* (mutant) Nobody refreshes its pidfile.
GrowStaleAnyway ==
    /\ lockfile # 0 /\ ~stale
    /\ stale' = TRUE
    /\ UNCHANGED <<source, files, lockfile, flock, inodes, pc, inode, want, got, out,
                   whole, torn, bounds>>

\* The file grows older than stale_age; a living Julia holder keeps it young.
GrowStale ==
    /\ lockfile # 0 /\ ~stale
    /\ ~ \E p \in Procs : Lang[p] = "julia" /\ inode[p] = lockfile
    /\ stale' = TRUE
    /\ UNCHANGED <<source, files, lockfile, flock, inodes, pc, inode, want, got, out,
                   whole, torn, bounds>>

-----------------------------------------------------------------------------
(* The fetch.                                                              *)

Begin(p) ==
    /\ pc[p] = "idle"
    /\ fetches < mix.fetches
    /\ fetches' = fetches + 1
    /\ Goto(p, "look")
    /\ out' = [out EXCEPT ![p] = "none"]
    /\ whole' = [whole EXCEPT ![p] = blob # None /\ meta # None]
    /\ UNCHANGED <<source, files, locks, inode, want, got, torn, crashes>>

Return(p, answer) ==
    /\ Release(p, FALSE)
    /\ Goto(p, "idle")
    /\ inode' = [inode EXCEPT ![p] = 0]
    /\ out' = [out EXCEPT ![p] = answer]
    /\ UNCHANGED want

\* Nothing to serve: a miss offline, else the lock, else the download.
Miss(p, present) ==
    IF p \in Offline THEN Return(p, "cachemiss")
    ELSE /\ Goto(p, IF Holds(p) THEN "download" ELSE "open")
         /\ want' = [want EXCEPT ![p] = IF Holds(p) THEN @ ELSE present]
         /\ UNCHANGED <<inode, out, lockfile, flock>>

\* Looking again under the lock, Julia serves a blob that it was missing
\* before on presence alone (_locked_fetch).
Look(p) ==
    /\ pc[p] = "look"
    /\ IF blob = None THEN Miss(p, FALSE)
       ELSE IF Lang[p] = "julia" /\ Holds(p) /\ ~want[p] THEN Return(p, "hit")
       ELSE Goto(p, "check") /\ UNCHANGED <<inode, want, out, lockfile, flock>>
    /\ UNCHANGED <<source, files, stale, inodes, got, whole, torn, bounds>>

\* A manifest that matches the source is a hit.  Without a manifest Julia
\* serves the blob, Python only offline, Rust never.
Check(p) ==
    /\ pc[p] = "check"
    /\ IF \/ p \in Offline /\ (meta # None \/ Lang[p] # "rust")
          \/ p \notin Offline /\ (meta = source \/ (meta = None /\ Lang[p] = "julia"))
       THEN Return(p, "hit") ELSE Miss(p, TRUE)
    /\ UNCHANGED <<source, files, stale, inodes, got, whole, torn, bounds>>

Download(p) ==
    /\ pc[p] = "download"
    /\ got' = [got EXCEPT ![p] = source]
    /\ Goto(p, IF Lang[p] = "python" THEN "unlink" ELSE "rename")
    /\ UNCHANGED <<source, files, locks, inode, want, out, whole, torn, bounds>>

\* Python's put_blob drops any prior blob first.
UnlinkBlob(p) ==
    /\ pc[p] = "unlink"
    /\ blob' = None
    /\ Goto(p, "rename")
    /\ UNCHANGED <<source, meta, downloads, locks, inode, want, got, out, whole, torn, bounds>>

\* (mutant) The old blob makes way before the new one is there.
UnlinkFirst(p) ==
    /\ pc[p] = "rename"
    /\ IF blob # None
       THEN blob' = None /\ UNCHANGED <<downloads, pc>>
       ELSE /\ blob' = got[p] /\ downloads' = downloads + 1
            /\ Goto(p, "record")
    /\ UNCHANGED <<source, meta, locks, inode, want, got, out, whole, torn, bounds>>

RenameBlob(p) ==
    /\ pc[p] = "rename"
    /\ blob' = got[p]
    /\ downloads' = downloads + 1
    /\ Goto(p, "record")
    /\ UNCHANGED <<source, meta, locks, inode, want, got, out, whole, torn, bounds>>

RecordManifest(p) ==
    /\ pc[p] = "record"
    /\ meta' = got[p]
    /\ torn' = FALSE
    /\ Return(p, "downloaded")
    /\ UNCHANGED <<source, blob, downloads, stale, inodes, got, whole, bounds>>

\* The old blob is gone and the manifest still describes it.
BetweenFiles(p) == pc[p] = "record" \/ (pc[p] = "rename" /\ Lang[p] = "python")

\* A process dies: its flock goes with it, its pidfile stays.
Crash(p) ==
    /\ pc[p] # "idle"
    /\ crashes < MaxCrashes
    /\ crashes' = crashes + 1
    /\ Release(p, TRUE)
    /\ Goto(p, "idle")
    /\ inode' = [inode EXCEPT ![p] = 0]
    /\ out' = [out EXCEPT ![p] = "crashed"]
    /\ torn' = (torn \/ BetweenFiles(p))
    /\ UNCHANGED <<source, files, stale, inodes, want, got, whole, fetches>>

Rewrite ==
    /\ source < mix.versions
    /\ source' = source + 1
    /\ UNCHANGED <<files, locks, pc, inode, want, got, out, whole, torn, bounds>>

Over ==
    /\ fetches = mix.fetches /\ \A p \in Procs : pc[p] = "idle"
    /\ UNCHANGED vars

Init ==
    /\ mix \in Mixes
    /\ source = 1
    /\ blob = None /\ meta = None /\ downloads = 0
    /\ lockfile = 0 /\ stale = FALSE /\ inodes = 0
    /\ flock = [i \in Inodes |-> None]
    /\ pc = [p \in Procs |-> "idle"] /\ out = [p \in Procs |-> "none"]
    /\ inode = [p \in Procs |-> 0]
    /\ want = [p \in Procs |-> FALSE] /\ got = [p \in Procs |-> 1]
    /\ whole = [p \in Procs |-> FALSE] /\ torn = FALSE
    /\ fetches = 0 /\ crashes = 0

Step(p) ==
    \/ Look(p) \/ Check(p) \/ OpenLockFile(p) \/ TakeFlock(p) \/ TakePidfile(p)
    \/ Download(p) \/ UnlinkBlob(p) \/ RenameBlob(p) \/ RecordManifest(p)

Next ==
    /\ UNCHANGED mix
    /\ \/ \E p \in Procs : Begin(p) \/ Step(p) \/ Crash(p)
       \/ GrowStale
       \/ Rewrite
       \/ Over

Spec == Init /\ [][Next]_vars

\* Every process is scheduled, and an abandoned file grows old.
FairSpec == Spec /\ WF_vars(GrowStale /\ UNCHANGED mix) /\ \A p \in Procs : WF_vars(Step(p) /\ UNCHANGED mix)

-----------------------------------------------------------------------------
(* Properties.                                                             *)

\* One process at a time is inside the lock.
LockExcludes == \A p, q \in Procs : Holds(p) /\ Holds(q) => p = q

\* Racing processes download once; each further download answers a rewrite of
\* the source or a crash (spec/cache-format.md section 6).
DownloadsOnce == downloads <= source + crashes

\* Bindings that share a kind of lock race safely.
RacesAreHarmless == LockExcludes /\ DownloadsOnce

\* Once nobody is inside, the manifest describes the blob, unless the last one
\* to replace the blob died before it had recorded it: whoever died elsewhere,
\* and whoever took over its lock, left them together.
EntryIsConsistent ==
    (\A p \in Procs : ~Holds(p)) /\ ~torn => blob = meta

\* A re-ingest never makes a complete entry vanish under an offline reader.
OfflineFinds == \A p \in Procs : out[p] = "cachemiss" => ~whole[p]

\* Every fetch returns, the lock of a dead holder included.
FetchReturns == \A p \in Procs : pc[p] # "idle" ~> pc[p] = "idle"

=============================================================================
