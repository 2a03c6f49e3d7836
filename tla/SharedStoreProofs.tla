------------------------- MODULE SharedStoreProofs -------------------------
(***************************************************************************)
(* What the races of SharedStore may do to the shared entry, proved for    *)
(* every number of processes, fetches, rewrites, crashes and every mix of  *)
(* bindings whose locks are of one kind.  Across the two kinds it is false *)
(* (the run two_kinds_of_lock).                                            *)
(***************************************************************************)
EXTENDS SharedStore, TLAPS

Version == Nat \ {0}
Inside  == {"download", "unlink", "rename", "record"}

Typed ==
    /\ mix \in Mixes
    /\ source \in Version
    /\ blob \in Version \cup {None} /\ meta \in Version \cup {None}
    /\ inodes \in 0 .. MaxInodes /\ lockfile \in 0 .. inodes /\ stale \in BOOLEAN
    /\ flock \in [Inodes -> Procs \cup {None}]
    /\ pc \in [Procs -> {"idle", "open", "wait", "look", "check"} \cup Inside]
    /\ inode \in [Procs -> 0 .. inodes]
    /\ want \in [Procs -> BOOLEAN] /\ got \in [Procs -> Version]
    /\ out \in [Procs -> {"none", "cachemiss", "hit", "downloaded", "crashed"}]
    /\ whole \in [Procs -> BOOLEAN]
    /\ torn \in BOOLEAN /\ downloads \in Nat /\ fetches \in Nat /\ crashes \in Nat

\* Those who may lock, lock alike.
OneKind ==
    \A p, q \in Procs \ Offline : Lang[p] = "julia" <=> Lang[q] = "julia"

\* No binding that may download unlinks the old blob first.
NobodyUnlinks == \A p \in Procs \ Offline : Lang[p] # "python"

-----------------------------------------------------------------------------
(* The inductive invariants.                                               *)

\* Where a process has a lock file open, and what holding it means for either kind.
LockHeld(p) ==
    /\ pc[p] \in {"idle", "open"} => inode[p] = 0
    /\ pc[p] = "open" => p \notin Offline
    /\ pc[p] = "wait" => Lang[p] # "julia" /\ inode[p] # 0
    /\ pc[p] \in Inside => Holds(p)
    /\ inode[p] # 0 => p \notin Offline /\ inode[p] = lockfile
    /\ Holds(p) => IF Lang[p] = "julia" THEN ~stale ELSE flock[inode[p]] = p

LockInv == (\A p \in Procs : LockHeld(p)) /\ LockExcludes

Recorded == IF meta = None THEN 0 ELSE meta
AtLeastOne(n) == IF n = 0 THEN 1 ELSE n

\* Every download is paid for by the version that the manifest has come to name, by a
\* crash, or by the process that is inside and has not recorded it yet.
Paid(p) ==
    /\ pc[p] = "download" => downloads + 1 <= source + crashes
    /\ pc[p] \in {"unlink", "rename"} => got[p] <= source /\ downloads + 1 <= got[p] + crashes
    /\ pc[p] = "record" =>
          /\ got[p] <= source /\ downloads <= got[p] + crashes
          /\ downloads <= Recorded + crashes + 1
          /\ blob = got[p]

DownloadInv ==
    /\ Recorded <= source
    /\ \A p \in Procs : Paid(p)
    /\ (\A p \in Procs : pc[p] # "record") => downloads <= Recorded + crashes
    /\ blob = None /\ (\A p \in Procs : pc[p] \notin {"unlink", "rename"}) =>
          downloads + 1 <= AtLeastOne(Recorded) + crashes

\* Between commits the manifest describes the blob, unless the last was cut short.
CommitInv ==
    /\ \A p \in Procs : pc[p] = "unlink" => Lang[p] = "python"
    /\ ~torn /\ (\A p \in Procs : ~BetweenFiles(p)) => blob = meta

\* What was whole when a fetch began stays there: offline a process only reads, and no
\* other unlinks.
ReaderInv(p) ==
    /\ p \in Offline => pc[p] \in {"idle", "look", "check"}
    /\ pc[p] # "unlink"
    /\ whole[p] => /\ pc[p] # "idle" => blob # None /\ meta # None
                   /\ out[p] # "cachemiss"

-----------------------------------------------------------------------------
(* Types.                                                                  *)

\* The initial state has its types.
LEMMA InitTyped == Init => Typed
<1>1. MaxInodes \in Nat /\ None \notin Procs
  BY StoreAssumption
<1>2. ASSUME Init
      PROVE  /\ mix \in Mixes /\ source \in Version /\ blob = None /\ meta = None
             /\ inodes = 0 /\ lockfile = 0 /\ stale = FALSE
             /\ torn = FALSE /\ downloads = 0 /\ fetches = 0 /\ crashes = 0
  BY <1>2 DEF Init, Version
<1>3. ASSUME Init
      PROVE  /\ flock \in [Inodes -> Procs \cup {None}] /\ inode \in [Procs -> 0 .. 0]
             /\ pc \in [Procs -> {"idle", "open", "wait", "look", "check"} \cup Inside]
             /\ want \in [Procs -> BOOLEAN] /\ got \in [Procs -> Version]
             /\ out \in [Procs -> {"none", "cachemiss", "hit", "downloaded", "crashed"}]
             /\ whole \in [Procs -> BOOLEAN]
  BY <1>3 DEF Init, Inside, Version
<1> QED BY <1>1, <1>2, <1>3 DEF Typed

\* What a return leaves in the locks and the locals has its type.
LEMMA ReturnTyped ==
    ASSUME Typed, NEW p \in Procs, NEW answer \in {"cachemiss", "hit", "downloaded"},
           Return(p, answer)
    PROVE  /\ lockfile' \in 0 .. inodes
           /\ flock' \in [Inodes -> Procs \cup {None}]
           /\ pc' \in [Procs -> {"idle", "open", "wait", "look", "check"} \cup Inside]
           /\ inode' \in [Procs -> 0 .. inodes]
           /\ out' \in [Procs -> {"none", "cachemiss", "hit", "downloaded", "crashed"}]
           /\ want' = want
BY DEF Typed, Return, Release, Goto, Inodes

\* A step keeps the types.
LEMMA TypedStep == Typed /\ [Next]_vars => Typed'
<1> SUFFICES ASSUME Typed, [Next]_vars PROVE Typed'
  OBVIOUS
<1>1. CASE UNCHANGED vars
  BY <1>1 DEF Typed, vars, files, locks, bounds, Inodes
<1>2. CASE GrowStale /\ UNCHANGED mix
  BY <1>2 DEF Typed, GrowStale, files, bounds, Inodes
<1>3. CASE Rewrite /\ UNCHANGED mix
  BY <1>3 DEF Typed, Rewrite, files, locks, bounds, Inodes, Version
<1>4. ASSUME NEW p \in Procs, Begin(p), UNCHANGED mix PROVE Typed'
  BY <1>4 DEF Typed, Begin, Goto, files, locks, Inodes
<1>5. ASSUME NEW p \in Procs, Look(p) \/ Check(p), UNCHANGED mix PROVE Typed'
  <2>1. UNCHANGED <<mix, source, files, stale, inodes, got, whole, torn, bounds>>
    BY <1>5 DEF Look, Check
  <2>2. CASE \E answer \in {"cachemiss", "hit", "downloaded"} : Return(p, answer)
    BY <2>1, <2>2, ReturnTyped DEF Typed, files, bounds, Inodes
  <2>3. CASE \E present \in BOOLEAN : Miss(p, present)
    BY <2>1, <2>2, <2>3 DEF Typed, Miss, Goto, files, bounds, Inodes, Inside
  <2>4. CASE Goto(p, "check") /\ UNCHANGED <<inode, want, out, lockfile, flock>>
    BY <2>1, <2>4 DEF Typed, Goto, files, bounds, Inodes
  <2> QED BY <1>5, <2>2, <2>3, <2>4 DEF Look, Check
<1>6. ASSUME NEW p \in Procs, OpenLockFile(p) \/ TakeFlock(p) \/ TakePidfile(p), UNCHANGED mix
      PROVE  Typed'
  <2>1. MaxInodes \in Nat
    BY StoreAssumption
  <2>2. CASE TakeFlock(p)
    BY <2>2, <1>6 DEF Typed, TakeFlock, Goto, files, bounds, Inodes
  <2>3. CASE CreateLockFile(p) /\ (OpenLockFile(p) \/ TakePidfile(p))
    <3>1. inodes' \in 0 .. MaxInodes /\ lockfile' \in 0 .. inodes' /\ inode' \in [Procs -> 0 .. inodes']
      BY <2>1, <2>3 DEF Typed, CreateLockFile
    <3>2. pc' \in [Procs -> {"idle", "open", "wait", "look", "check"} \cup Inside]
      BY <2>3 DEF Typed, OpenLockFile, TakePidfile, Goto
    <3> QED BY <3>1, <3>2, <2>3, <1>6
            DEF Typed, CreateLockFile, OpenLockFile, TakePidfile, files, bounds, Inodes
  <2>4. CASE OpenLockFile(p) /\ ~CreateLockFile(p)
    BY <2>4, <1>6 DEF Typed, OpenLockFile, Goto, files, bounds, Inodes
  <2> QED BY <1>6, <2>2, <2>3, <2>4 DEF TakePidfile
<1>7. ASSUME NEW p \in Procs, Download(p) \/ UnlinkBlob(p) \/ RenameBlob(p), UNCHANGED mix
      PROVE  Typed'
  <2>1. pc' \in [Procs -> {"idle", "open", "wait", "look", "check"} \cup Inside]
    BY <1>7 DEF Typed, Download, UnlinkBlob, RenameBlob, Goto, Inside
  <2>2. /\ UNCHANGED <<source, meta, locks, inode, want, out, whole, torn, bounds>>
        /\ blob' \in Version \cup {None} /\ downloads' \in Nat /\ got' \in [Procs -> Version]
    BY <1>7 DEF Typed, Download, UnlinkBlob, RenameBlob, files
  <2> QED BY <1>7, <2>1, <2>2 DEF Typed, locks, bounds, Inodes
<1>8. ASSUME NEW p \in Procs, RecordManifest(p), UNCHANGED mix PROVE Typed'
  BY <1>8, ReturnTyped DEF Typed, RecordManifest, files, bounds, Inodes
<1>9. ASSUME NEW p \in Procs, Crash(p), UNCHANGED mix PROVE Typed'
  <2>1. /\ lockfile' \in 0 .. inodes
        /\ flock' \in [Inodes -> Procs \cup {None}]
    BY <1>9 DEF Typed, Crash, Release, Inodes
  <2> QED BY <1>9, <2>1 DEF Typed, Crash, Goto, files, Inodes
<1> QED BY <1>1, <1>2, <1>3, <1>4, <1>5, <1>6, <1>7, <1>8, <1>9 DEF Next, Step, Over

\* The state of the bindings and the entry is well typed.
THEOREM TypeCorrect == Spec => []Typed
BY InitTyped, TypedStep, PTL DEF Spec


-----------------------------------------------------------------------------
(* The lock.                                                               *)

\* At the start nobody has a lock file open.
LEMMA InitLock == Init => LockInv
BY DEF Init, LockInv, LockHeld, LockExcludes, Holds, Inside

\* Two processes that are about the lock are of one kind.
LEMMA SameKind ==
    ASSUME Typed, OneKind, LockInv, NEW p \in Procs, NEW q \in Procs,
           p \notin Offline, inode[q] # 0
    PROVE  Lang[p] = "julia" <=> Lang[q] = "julia"
BY DEF LockInv, LockHeld, OneKind

\* A step that touches no lock file and moves p only, and not out of the lock.
LEMMA LockUntouched ==
    ASSUME Typed, LockInv, NEW p \in Procs,
           UNCHANGED <<mix, lockfile, flock, stale, inode>>,
           pc' = [pc EXCEPT ![p] = pc'[p]],
           pc'[p] \in {"open", "idle"} => inode[p] = 0,
           pc'[p] = "open" => p \notin Offline,
           pc[p] # "wait" /\ pc'[p] # "wait",
           pc'[p] \in Inside => Holds(p)
    PROVE  LockInv'
<1>1. \A q \in Procs : Holds(q)' <=> Holds(q)
  BY DEF Typed, Holds
<1>2. ASSUME NEW q \in Procs PROVE LockHeld(q)'
  <2>1. LockHeld(q)
    BY DEF LockInv
  <2> QED BY <1>1, <2>1 DEF Typed, LockHeld, Offline, Lang
<1> QED BY <1>1, <1>2 DEF LockInv, LockExcludes

\* Whoever goes idle gives up its lock and nobody else's.
LEMMA ReleaseLock ==
    ASSUME Typed, OneKind, LockInv, NEW p \in Procs, NEW crashed \in BOOLEAN,
           Release(p, crashed), Goto(p, "idle"), inode' = [inode EXCEPT ![p] = 0],
           UNCHANGED <<mix, stale>>
    PROVE  LockInv'
<1>1. \A q \in Procs \ {p} : (Holds(q)' <=> Holds(q)) /\ pc'[q] = pc[q] /\ inode'[q] = inode[q]
  BY DEF Typed, Holds, Goto
<1>2. ~Holds(p)' /\ pc'[p] = "idle" /\ inode'[p] = 0
  BY DEF Typed, Holds, Goto
<1>3. ASSUME NEW q \in Procs \ {p}, inode[q] # 0
      PROVE  inode[q] = lockfile' /\ (Holds(q) /\ Lang[q] # "julia" => flock'[inode[q]] = q)
  <2>1. inode[q] = lockfile /\ (Holds(q) /\ Lang[q] # "julia" => flock[inode[q]] = q)
    BY <1>3 DEF LockInv, LockHeld
  <2>2. CASE ~Holds(p)
    BY <2>1, <2>2 DEF Release
  <2>3. CASE Holds(p)
    <3>1. ~Holds(q) /\ pc[q] = "wait" /\ Lang[q] # "julia"
      BY <1>3, <2>3 DEF LockInv, LockHeld, LockExcludes, Holds
    <3>2. Lang[p] # "julia"
      BY <1>3, <2>3, <3>1, SameKind DEF LockInv, LockHeld, Holds
    <3> QED BY <2>1, <2>3, <3>1, <3>2 DEF Release
  <2> QED BY <2>2, <2>3
<1>4. ASSUME NEW q \in Procs PROVE LockHeld(q)'
  <2>1. LockHeld(q)
    BY DEF LockInv
  <2> QED BY <1>1, <1>2, <1>3, <2>1 DEF LockHeld, Inside, Lang, Offline, Holds
<1> QED BY <1>1, <1>2, <1>4 DEF LockInv, LockExcludes

\* Taking the flock, opening its file, creating a pidfile.
LEMMA AcquireLock ==
    ASSUME Typed, OneKind, LockInv, NEW p \in Procs, UNCHANGED mix,
           OpenLockFile(p) \/ TakeFlock(p) \/ TakePidfile(p)
    PROVE  LockInv'
<1>1. \A q \in Procs : LockHeld(q)
  BY DEF LockInv
<1>2. CASE TakeFlock(p)
  <2>1. /\ pc' = [pc EXCEPT ![p] = "look"] /\ UNCHANGED <<lockfile, stale, inode, mix>>
        /\ inode[p] # 0 /\ inode[p] = lockfile /\ Lang[p] # "julia" /\ p \notin Offline
        /\ flock' = [flock EXCEPT ![lockfile] = p] /\ flock[lockfile] = None
    BY <1>1, <1>2 DEF TakeFlock, Goto, LockHeld
  <2>2. lockfile \in Inodes
    BY <2>1, StoreAssumption DEF Typed, Inodes
  <2>3. ASSUME NEW q \in Procs PROVE ~Holds(q)
    <3>1. SUFFICES ASSUME Holds(q) PROVE FALSE
      OBVIOUS
    <3>2. inode[q] = lockfile /\ Lang[q] # "julia"
      BY <1>1, <2>1, <3>1, SameKind DEF Holds, LockHeld
    <3> QED BY <1>1, <2>1, <3>1, <3>2, StoreAssumption DEF LockHeld
  <2>4. ASSUME NEW q \in Procs PROVE LockHeld(q)' /\ (Holds(q)' => q = p)
    BY <1>1, <2>1, <2>2, <2>3 DEF LockHeld, Holds, Typed, Inside, Lang, Offline
  <2> QED BY <2>4 DEF LockInv, LockExcludes
<1>3. CASE OpenLockFile(p) /\ lockfile # 0
  <2>1. /\ pc' = [pc EXCEPT ![p] = "wait"] /\ inode' = [inode EXCEPT ![p] = lockfile]
        /\ UNCHANGED <<lockfile, stale, flock, mix>> /\ pc[p] = "open" /\ Lang[p] # "julia"
    BY <1>3 DEF OpenLockFile, Goto
  <2>2. p \notin Offline /\ ~Holds(p) /\ ~Holds(p)'
    BY <1>1, <2>1 DEF LockHeld, Holds, Typed
  <2>3. ASSUME NEW q \in Procs PROVE LockHeld(q)' /\ (Holds(q)' <=> Holds(q))
    BY <1>1, <1>3, <2>1, <2>2 DEF LockHeld, Holds, Typed, Inside, Lang, Offline
  <2> QED BY <2>3 DEF LockInv, LockExcludes
<1>4. CASE CreateLockFile(p) /\ ((OpenLockFile(p) /\ lockfile = 0) \/ TakePidfile(p))
  <2>1. /\ inode' = [inode EXCEPT ![p] = inodes + 1] /\ lockfile' = inodes + 1 /\ ~stale'
        /\ pc' = [pc EXCEPT ![p] = IF Lang[p] = "julia" THEN "look" ELSE "wait"]
        /\ UNCHANGED <<flock, mix>> /\ pc[p] = "open"
        /\ lockfile = 0 \/ (stale /\ Lang[p] = "julia")
    BY <1>4 DEF CreateLockFile, OpenLockFile, TakePidfile, PidfileIsFree, Goto, Typed
  <2>2. p \notin Offline /\ inode[p] = 0
    BY <1>1, <2>1 DEF LockHeld
  <2>3. ASSUME NEW q \in Procs PROVE inode[q] = 0
    <3>1. SUFFICES ASSUME inode[q] # 0 PROVE FALSE
      OBVIOUS
    <3>2. inode[q] = lockfile /\ lockfile # 0
      BY <1>1, <3>1 DEF LockHeld
    <3>3. stale /\ Lang[q] = "julia"
      BY <2>1, <2>2, <3>1, <3>2, SameKind
    <3> QED BY <1>1, <3>1, <3>3 DEF LockHeld, Holds
  <2>4. ASSUME NEW q \in Procs PROVE LockHeld(q)' /\ (Holds(q)' => q = p)
    BY <1>1, <2>1, <2>2, <2>3 DEF LockHeld, Holds, Typed, Inside, Lang, Offline
  <2> QED BY <2>4 DEF LockInv, LockExcludes
<1> QED BY <1>2, <1>3, <1>4 DEF OpenLockFile, TakePidfile

\* A step keeps the lock's invariant, between bindings whose locks are of one kind.
LEMMA LockStep == Typed /\ OneKind /\ LockInv /\ [Next]_vars => LockInv'
<1> SUFFICES ASSUME Typed, OneKind, LockInv, [Next]_vars PROVE LockInv'
  OBVIOUS
<1>0. \A q \in Procs : LockHeld(q)
  BY DEF LockInv
<1>1. CASE UNCHANGED vars
  BY <1>1 DEF LockInv, LockHeld, LockExcludes, Holds, Lang, Offline, vars, locks
<1>2. CASE (GrowStale \/ Rewrite) /\ UNCHANGED mix
  <2>1. UNCHANGED <<lockfile, flock, pc, inode>>
    BY <1>2 DEF GrowStale, Rewrite, locks
  <2>2. \A q \in Procs : Holds(q) /\ Lang[q] = "julia" => ~stale'
    BY <1>0, <1>2 DEF GrowStale, Rewrite, locks, LockHeld, Holds
  <2>3. \A q \in Procs : LockHeld(q)'
    BY <1>0, <1>2, <2>1, <2>2 DEF LockHeld, Holds, Lang, Offline
  <2> QED BY <2>1, <2>3 DEF LockInv, LockExcludes, Holds
<1>3. ASSUME NEW p \in Procs, Begin(p), UNCHANGED mix PROVE LockInv'
  BY <1>0, <1>3, LockUntouched DEF Begin, Goto, LockHeld, Typed, locks, Inside
<1>4. ASSUME NEW p \in Procs, NEW answer, Return(p, answer), UNCHANGED <<mix, stale>> PROVE LockInv'
  BY <1>4, ReleaseLock DEF Return
<1>5. ASSUME NEW p \in Procs, Look(p) \/ Check(p), UNCHANGED mix PROVE LockInv'
  <2>1. CASE \E answer \in {"cachemiss", "hit"} : Return(p, answer)
    BY <2>1, <1>4, <1>5 DEF Look, Check
  <2>2. CASE \E present \in BOOLEAN : Miss(p, present) /\ p \notin Offline
    <3>1. pc' = [pc EXCEPT ![p] = IF Holds(p) THEN "download" ELSE "open"]
          /\ UNCHANGED <<inode, lockfile, flock, stale>>
      BY <1>5, <2>2 DEF Miss, Goto, Look, Check
    <3>2. pc[p] \in {"look", "check"} /\ (~Holds(p) => inode[p] = 0)
      BY <1>5 DEF Look, Check, Holds
    <3> QED BY <1>5, <2>2, <3>1, <3>2, LockUntouched DEF Typed, Inside
  <2>3. CASE Goto(p, "check") /\ UNCHANGED <<inode, want, out, lockfile, flock>>
    BY <1>5, <2>3, LockUntouched DEF Goto, Typed, Inside, Look, Check
  <2> QED BY <1>5, <2>1, <2>2, <2>3 DEF Look, Check, Miss
<1>6. ASSUME NEW p \in Procs, Download(p) \/ UnlinkBlob(p) \/ RenameBlob(p), UNCHANGED mix
      PROVE  LockInv'
  <2>1. Holds(p) /\ pc[p] # "wait"
    BY <1>0, <1>6 DEF Download, UnlinkBlob, RenameBlob, LockHeld, Inside
  <2>2. pc' = [pc EXCEPT ![p] = pc'[p]] /\ pc'[p] \in Inside
    BY <1>6 DEF Download, UnlinkBlob, RenameBlob, Goto, Typed, Inside
  <2> QED BY <1>6, <2>1, <2>2, LockUntouched DEF Download, UnlinkBlob, RenameBlob, locks, Inside
<1>7. ASSUME NEW p \in Procs, RecordManifest(p), UNCHANGED mix PROVE LockInv'
  BY <1>4, <1>7 DEF RecordManifest
<1>8. ASSUME NEW p \in Procs, Crash(p), UNCHANGED mix PROVE LockInv'
  BY <1>8, ReleaseLock DEF Crash
<1> QED BY <1>1, <1>2, <1>3, <1>5, <1>6, <1>7, <1>8, AcquireLock DEF Next, Step, Over


-----------------------------------------------------------------------------
(* The entry.                                                              *)

\* Nothing is downloaded at the start.
LEMMA InitEntry == Init => DownloadInv /\ CommitInv
BY StoreAssumption DEF Init, DownloadInv, Paid, CommitInv, Recorded, AtLeastOne, BetweenFiles

\* While a process is inside, every other is outside.
LEMMA OthersOutside ==
    ASSUME Typed, LockInv, NEW p \in Procs, Holds(p), NEW q \in Procs \ {p}
    PROVE  pc[q] \notin Inside
BY DEF LockInv, LockHeld, LockExcludes

\* What an older version pays for, a later one pays for.
LEMMA Later ==
    ASSUME NEW v \in Nat, NEW w \in Nat, v <= w, NEW c \in Nat, NEW n \in Nat
    PROVE  (n <= v => n <= w) /\ (n + 1 <= v + c => n + 1 <= w + c)
OBVIOUS

\* A step that leaves the entry alone, and starts a download only for a reason.
LEMMA EntryUntouched ==
    ASSUME Typed, LockInv, DownloadInv, CommitInv, NEW p \in Procs,
           UNCHANGED <<mix, torn, blob, meta, downloads, crashes, got>>,
           source' \in Version, source <= source',
           \A q \in Procs \ {p} : pc'[q] = pc[q],
           pc[p] \notin Inside, pc'[p] \notin Inside \ {"download"},
           pc'[p] = "download" => downloads + 1 <= source + crashes
    PROVE  DownloadInv' /\ CommitInv'
<1>1. Recorded' = Recorded /\ Recorded \in Nat /\ source \in Nat
  BY DEF Recorded, Typed, Version
<1>2. \A q \in Procs : Paid(q)
  BY DEF DownloadInv
<1>3. ASSUME NEW q \in Procs PROVE Paid(q)'
  <2>1. downloads \in Nat /\ crashes \in Nat /\ got[q] \in Nat /\ source' \in Nat
    BY DEF Typed, Version
  <2>2. CASE q = p
    BY <1>1, <2>1, <2>2 DEF Paid, Inside
  <2>3. CASE q # p
    <3>1. Paid(q) /\ pc'[q] = pc[q] /\ got'[q] = got[q]
      BY <1>2, <2>3
    <3>2. source <= source' /\ blob' = blob /\ downloads' = downloads /\ crashes' = crashes
      OBVIOUS
    <3>3. /\ pc[q] = "download" => downloads + 1 <= source + crashes
          /\ pc[q] \in {"unlink", "rename", "record"} => got[q] <= source
      BY <3>1 DEF Paid
    <3>4. /\ downloads + 1 <= source + crashes => downloads + 1 <= source' + crashes
          /\ got[q] <= source => got[q] <= source'
      BY <1>1, <2>1, Later
    <3> QED BY <1>1, <3>1, <3>2, <3>3, <3>4 DEF Paid
  <2> QED BY <2>2, <2>3
<1>4. \A q \in Procs : \A label \in Inside \ {"download"} : pc'[q] = label <=> pc[q] = label
  BY DEF Inside
<1>5. Recorded <= source'
  BY <1>1 DEF DownloadInv, Version
<1>6. (\A q \in Procs : pc'[q] # "record") <=> (\A q \in Procs : pc[q] # "record")
  BY <1>4 DEF Inside
<1>7. (\A q \in Procs : pc'[q] \notin {"unlink", "rename"}) <=> (\A q \in Procs : pc[q] \notin {"unlink", "rename"})
  BY <1>4 DEF Inside
<1>8. ASSUME NEW q \in Procs
      PROVE  (BetweenFiles(q)' <=> BetweenFiles(q)) /\ (pc'[q] = "unlink" => pc[q] = "unlink")
  <2>1. /\ pc'[q] = "record" <=> pc[q] = "record"
        /\ pc'[q] = "rename" <=> pc[q] = "rename"
        /\ pc'[q] = "unlink" <=> pc[q] = "unlink"
    BY <1>4 DEF Inside
  <2> QED BY <2>1 DEF BetweenFiles, Lang
<1>9. DownloadInv'
  BY <1>1, <1>3, <1>5, <1>6, <1>7 DEF DownloadInv
<1>10. CommitInv'
  BY <1>8 DEF CommitInv, Lang
<1> QED BY <1>9, <1>10

\* A lookup under the lock that finds no hit has a reason to download: the source has
\* moved on, or a crash left no blob or no manifest.
LEMMA MissHasReason ==
    ASSUME Typed, LockInv, DownloadInv, NEW p \in Procs, Holds(p), p \notin Offline,
           \/ pc[p] = "look" /\ blob = None
           \/ pc[p] = "check" /\ ~(meta = source \/ (meta = None /\ Lang[p] = "julia"))
    PROVE  downloads + 1 <= source + crashes
<1>1. \A q \in Procs : pc[q] \notin Inside
  BY OthersOutside DEF Inside
<1>2. downloads <= Recorded + crashes /\ Recorded <= source
  BY <1>1 DEF DownloadInv, Inside
<1>3. Recorded \in Nat /\ downloads \in Nat /\ crashes \in Nat /\ source \in Nat /\ source >= 1
  BY DEF Typed, Version, Recorded
<1>4. CASE pc[p] = "look" /\ blob = None
  <2>1. downloads + 1 <= AtLeastOne(Recorded) + crashes
    BY <1>1, <1>4 DEF DownloadInv, Inside
  <2> QED BY <1>2, <1>3, <2>1 DEF AtLeastOne
<1>5. CASE pc[p] = "check" /\ meta # source
  <2>1. Recorded # source
    BY <1>3, <1>5 DEF Recorded
  <2> QED BY <1>2, <1>3, <2>1
<1> QED BY <1>4, <1>5

\* Downloading, replacing the blob, recording it.
LEMMA EntryWritten ==
    ASSUME Typed, LockInv, DownloadInv, CommitInv, NEW p \in Procs, UNCHANGED mix,
           Download(p) \/ UnlinkBlob(p) \/ RenameBlob(p) \/ RecordManifest(p)
    PROVE  DownloadInv' /\ CommitInv'
<1>0. Holds(p) /\ Paid(p)
  BY DEF LockInv, LockHeld, Inside, DownloadInv, Download, UnlinkBlob, RenameBlob, RecordManifest
<1>1. \A q \in Procs \ {p} : pc[q] \notin Inside /\ pc'[q] = pc[q]
  <2>1. \E label : pc' = [pc EXCEPT ![p] = label]
    BY DEF Goto, Return, Download, UnlinkBlob, RenameBlob, RecordManifest
  <2> QED BY <1>0, <2>1, OthersOutside DEF Typed
<1>2. /\ source \in Version /\ downloads \in Nat /\ crashes \in Nat /\ got[p] \in Version
      /\ Recorded \in Nat /\ Recorded <= source
  BY DEF Typed, Recorded, Version, DownloadInv
<1>3. UNCHANGED <<source, crashes>> /\ (UNCHANGED torn \/ RecordManifest(p))
  BY DEF Download, UnlinkBlob, RenameBlob, RecordManifest, bounds
<1>4. \A q \in Procs \ {p} : Paid(q)'
  BY <1>1 DEF Paid, Inside
<1>5. pc'[p] \in Inside => downloads <= Recorded + crashes
  BY <1>1, <1>0 DEF DownloadInv, Inside, Download, UnlinkBlob, RenameBlob, RecordManifest, Return, Goto, Typed
<1>9. \A q \in Procs \ {p} : ~BetweenFiles(q) /\ ~BetweenFiles(q)' /\ pc'[q] # "unlink"
  BY <1>1 DEF BetweenFiles, Inside
<1>6. CASE Download(p)
  <2>1. /\ got'[p] = source /\ UNCHANGED <<blob, meta, downloads>> /\ pc[p] = "download"
        /\ pc'[p] = IF Lang[p] = "python" THEN "unlink" ELSE "rename"
    BY <1>6 DEF Download, Goto, Typed, files
  <2>2. Paid(p)' /\ Recorded' = Recorded
    BY <1>0, <1>2, <1>3, <2>1 DEF Paid, Recorded, Version
  <2>3. DownloadInv'
    BY <1>2, <1>3, <1>4, <1>5, <2>1, <2>2 DEF DownloadInv, Inside
  <2>4. ~torn => blob = meta
    BY <1>9, <2>1 DEF CommitInv, BetweenFiles
  <2>5. UNCHANGED torn
    BY <1>6 DEF Download
  <2> QED BY <1>9, <2>1, <2>3, <2>4, <2>5 DEF CommitInv, Lang
<1>7. CASE UnlinkBlob(p)
  <2>1. /\ UNCHANGED <<meta, downloads, got>> /\ pc[p] = "unlink" /\ pc'[p] = "rename"
    BY <1>7 DEF UnlinkBlob, Goto, Typed
  <2>2. Paid(p)' /\ Recorded' = Recorded
    BY <1>0, <1>3, <2>1 DEF Paid, Recorded
  <2>3. DownloadInv'
    BY <1>2, <1>3, <1>4, <1>5, <2>1, <2>2 DEF DownloadInv, Inside
  <2>4. BetweenFiles(p)'
    BY <2>1 DEF CommitInv, BetweenFiles, Lang
  <2> QED BY <1>9, <2>1, <2>3, <2>4 DEF CommitInv
<1>8. CASE RenameBlob(p)
  <2>1. /\ UNCHANGED <<meta, got>> /\ pc[p] = "rename" /\ pc'[p] = "record"
        /\ blob' = got[p] /\ downloads' = downloads + 1
    BY <1>8 DEF RenameBlob, Goto, Typed
  <2>2. Paid(p)' /\ Recorded' = Recorded
    BY <1>0, <1>2, <1>3, <1>5, <2>1 DEF Paid, Recorded, Version, Inside
  <2>3. blob' # None
    BY <1>2, <2>1, StoreAssumption DEF Version
  <2>4. DownloadInv'
    BY <1>2, <1>3, <1>4, <2>1, <2>2, <2>3 DEF DownloadInv, Inside
  <2> QED BY <1>9, <2>1, <2>4 DEF CommitInv, BetweenFiles
<1>10. CASE RecordManifest(p)
  <2>1. /\ UNCHANGED <<blob, downloads, got>> /\ pc[p] = "record" /\ pc'[p] = "idle" /\ meta' = got[p]
    BY <1>10 DEF RecordManifest, Return, Goto, Typed
  <2>2. Recorded' = got[p] /\ blob' = meta' /\ blob' # None
    BY <1>0, <1>2, <2>1, StoreAssumption DEF Recorded, Paid, Version
  <2>3. Paid(p)' /\ got[p] <= source /\ downloads <= got[p] + crashes
    BY <1>0, <2>1 DEF Paid
  <2>4. DownloadInv'
    BY <1>2, <1>3, <1>4, <2>1, <2>2, <2>3 DEF DownloadInv
  <2> QED BY <1>9, <2>1, <2>2, <2>4 DEF CommitInv
<1> QED BY <1>6, <1>7, <1>8, <1>10

\* A process that dies may leave the entry half replaced: the crash is counted.
LEMMA EntryAfterCrash ==
    ASSUME Typed, LockInv, DownloadInv, CommitInv, NEW p \in Procs, UNCHANGED mix, Crash(p)
    PROVE  DownloadInv' /\ CommitInv'
<1>1. /\ UNCHANGED <<source, blob, meta, downloads, got>> /\ crashes' = crashes + 1
      /\ pc' = [pc EXCEPT ![p] = "idle"]
  BY DEF Crash, files, Goto
<1>2. /\ source \in Nat /\ downloads \in Nat /\ crashes \in Nat /\ Recorded \in Nat
      /\ Recorded' = Recorded /\ Recorded <= source
  BY <1>1 DEF Typed, Recorded, Version, DownloadInv
<1>3. downloads <= Recorded + crashes + 1
  <2>1. CASE \E q \in Procs : pc[q] = "record"
    BY <2>1 DEF DownloadInv, Paid
  <2>2. CASE \A q \in Procs : pc[q] # "record"
    BY <1>2, <2>2 DEF DownloadInv
  <2> QED BY <2>1, <2>2
<1>4. ASSUME NEW q \in Procs PROVE Paid(q)'
  <2>1. Paid(q) /\ got[q] \in Nat /\ got'[q] = got[q] /\ (pc'[q] = pc[q] \/ pc'[q] = "idle")
    BY <1>1 DEF DownloadInv, Typed, Version
  <2> QED BY <1>1, <1>2, <2>1 DEF Paid
<1>5. blob' = None => downloads' + 1 <= AtLeastOne(Recorded') + crashes'
  <2>1. SUFFICES ASSUME blob = None PROVE downloads <= AtLeastOne(Recorded) + crashes
    BY <1>1, <1>2 DEF AtLeastOne
  <2>2. \A q \in Procs : pc[q] # "record"
    BY <2>1, StoreAssumption DEF DownloadInv, Paid, Typed, Version
  <2> QED BY <1>2, <2>2 DEF DownloadInv, AtLeastOne
<1>6. DownloadInv'
  BY <1>1, <1>2, <1>3, <1>4, <1>5 DEF DownloadInv
<1>7. ~torn' => ~torn /\ ~BetweenFiles(p)
  BY DEF Crash
<1>8. \A q \in Procs : (BetweenFiles(q) => q = p \/ BetweenFiles(q)') /\ (pc'[q] = "unlink" => pc[q] = "unlink")
  BY <1>1 DEF BetweenFiles, Lang, Typed
<1>9. CommitInv'
  BY <1>1, <1>7, <1>8 DEF CommitInv, Lang
<1> QED BY <1>6, <1>9

\* A step keeps the accounts of the entry, between bindings whose locks are of one kind.
LEMMA EntryStep ==
    Typed /\ LockInv /\ DownloadInv /\ CommitInv /\ [Next]_vars => DownloadInv' /\ CommitInv'
<1> SUFFICES ASSUME Typed, LockInv, DownloadInv, CommitInv, [Next]_vars
             PROVE  DownloadInv' /\ CommitInv'
  OBVIOUS
<1>0. UNCHANGED mix
  BY DEF Next, vars
<1>1. CASE UNCHANGED vars
  BY <1>1 DEF DownloadInv, CommitInv, Paid, Recorded, BetweenFiles, Lang, vars, files, bounds
<1>2. ASSUME NEW p \in Procs,
             Begin(p) \/ Look(p) \/ Check(p) \/ OpenLockFile(p) \/ TakeFlock(p) \/ TakePidfile(p)
      PROVE  DownloadInv' /\ CommitInv'
  <2>1. /\ UNCHANGED <<source, torn, blob, meta, downloads, crashes, got>>
        /\ \E label : pc' = [pc EXCEPT ![p] = label]
    BY <1>2 DEF Begin, Look, Check, OpenLockFile, TakeFlock, TakePidfile, Goto, Miss, Return, files, bounds
  <2>2. pc[p] \notin Inside
    BY <1>2 DEF Begin, Look, Check, OpenLockFile, TakeFlock, TakePidfile, Inside
  <2>3. pc'[p] \notin Inside \ {"download"}
    BY <1>2 DEF Begin, Look, Check, OpenLockFile, TakeFlock, TakePidfile, Goto, Miss, Return, Inside, Typed
  <2>4. ASSUME pc'[p] = "download" PROVE downloads + 1 <= source + crashes
    <3>1. Holds(p) /\ p \notin Offline /\ (Look(p) \/ Check(p))
      BY <1>2, <2>4
         DEF Begin, Look, Check, OpenLockFile, TakeFlock, TakePidfile, Goto, Miss, Return, Typed
    <3>2. \/ pc[p] = "look" /\ blob = None
          \/ pc[p] = "check" /\ ~(meta = source \/ (meta = None /\ Lang[p] = "julia"))
      BY <2>4, <3>1 DEF Look, Check, Goto, Return, Typed
    <3> QED BY <3>1, <3>2, MissHasReason
  <2>5. source' \in Version /\ source <= source' /\ \A q \in Procs \ {p} : pc'[q] = pc[q]
    BY <2>1 DEF Typed, Version
  <2> QED BY <2>1, <2>2, <2>3, <2>4, <2>5, <1>0, EntryUntouched
<1>3. CASE GrowStale
  BY <1>0, <1>3 DEF GrowStale, DownloadInv, CommitInv, Paid, Recorded, BetweenFiles, Lang, files, bounds
<1>4. CASE Rewrite
  <2>1. UNCHANGED <<blob, meta, torn, downloads, crashes, got, pc>> /\ source' = source + 1 /\ source \in Nat
    BY <1>4 DEF Rewrite, files, bounds, Typed, Version
  <2>2. downloads \in Nat /\ crashes \in Nat /\ Recorded \in Nat /\ Recorded' = Recorded
    BY <2>1 DEF Typed, Version, Recorded
  <2>3. ASSUME NEW p \in Procs PROVE Paid(p)'
    <3>1. Paid(p) /\ got[p] \in Nat
      BY DEF DownloadInv, Typed, Version
    <3> QED BY <2>1, <2>2, <3>1 DEF Paid
  <2>4. DownloadInv'
    BY <2>1, <2>2, <2>3 DEF DownloadInv
  <2> QED BY <1>0, <2>1, <2>4 DEF CommitInv, BetweenFiles, Lang
<1> QED BY <1>0, <1>1, <1>2, <1>3, <1>4, EntryWritten, EntryAfterCrash DEF Next, Step, Over

\* The invariant of the shared entry, for the mixes that lock alike.
EntryInv == OneKind => LockInv /\ DownloadInv /\ CommitInv

LEMMA EntryInvAlways == Spec => [](Typed /\ EntryInv)
<1>1. Init => Typed /\ EntryInv
  BY InitTyped, InitLock, InitEntry DEF EntryInv
<1>2. Typed /\ EntryInv /\ [Next]_vars => (Typed /\ EntryInv)'
  <2>1. [Next]_vars => (OneKind' <=> OneKind)
    BY DEF Next, vars, OneKind, Lang, Offline
  <2> QED BY <2>1, TypedStep, LockStep, EntryStep DEF EntryInv
<1> QED BY <1>1, <1>2, PTL DEF Spec

\* spec/cache-format.md section 6 between bindings whose locks are of one kind: one of
\* them at a time is inside the lock, flock or pidfile, and racing fetches download once.
\* Every further download answers a rewrite of the source or a crash.
THEOREM RacesAreHarmlessAlways == Spec => [](OneKind => RacesAreHarmless)
<1>1. Typed /\ EntryInv => (OneKind => RacesAreHarmless)
  <2> SUFFICES ASSUME Typed, LockInv, DownloadInv PROVE DownloadsOnce
    BY DEF EntryInv, RacesAreHarmless, LockInv
  <2>1. /\ source \in Nat /\ downloads \in Nat /\ crashes \in Nat /\ Recorded \in Nat
        /\ Recorded <= source
    BY DEF Typed, Version, Recorded, DownloadInv
  <2>2. CASE \A p \in Procs : pc[p] # "record"
    BY <2>1, <2>2 DEF DownloadInv, DownloadsOnce
  <2>3. ASSUME NEW p \in Procs, pc[p] = "record" PROVE DownloadsOnce
    <3>1. Paid(p) /\ got[p] \in Nat
      BY DEF DownloadInv, Typed, Version
    <3> QED BY <2>1, <2>3, <3>1 DEF Paid, DownloadsOnce
  <2> QED BY <2>2, <2>3
<1> QED BY <1>1, EntryInvAlways, PTL

\* Between them the manifest describes the blob whenever nobody is inside, unless the last
\* to replace the blob died before its manifest: a pidfile stolen from, or a flock left by,
\* whoever died anywhere else leaves the two together.
THEOREM EntryIsConsistentAlways == Spec => [](OneKind => EntryIsConsistent)
<1>1. Typed /\ EntryInv => (OneKind => EntryIsConsistent)
  BY DEF EntryInv, EntryIsConsistent, CommitInv, BetweenFiles, LockInv, LockHeld, Inside
<1> QED BY <1>1, EntryInvAlways, PTL

-----------------------------------------------------------------------------
(* The offline reader.                                                     *)

ReadersInv == NobodyUnlinks => \A p \in Procs : ReaderInv(p)

\* Without Python nothing takes a file of the entry away.
LEMMA ReaderStep == Typed /\ ReadersInv /\ [Next]_vars => ReadersInv'
<1> SUFFICES ASSUME Typed, ReadersInv, [Next]_vars, NobodyUnlinks, NEW q \in Procs
             PROVE  ReaderInv(q)'
  BY DEF ReadersInv, Next, vars, NobodyUnlinks, Offline, Lang
<1>0. /\ \A p \in Procs : ReaderInv(p)
      /\ UNCHANGED mix
  BY DEF ReadersInv, Next, vars
<1>1. (blob # None => blob' # None) /\ (meta # None => meta' # None)
  <2>1. None \notin Version
    BY StoreAssumption DEF Version
  <2>2. ASSUME NEW p \in Procs, ~(UnlinkBlob(p) \/ RenameBlob(p) \/ RecordManifest(p)), Begin(p) \/ Step(p) \/ Crash(p)
        PROVE  UNCHANGED <<blob, meta>>
    BY <2>2 DEF Begin, Step, Crash, Look, Check, OpenLockFile, TakeFlock, TakePidfile, Download, files
  <2>3. ASSUME NEW p \in Procs PROVE ~UnlinkBlob(p)
    BY <1>0 DEF ReaderInv, UnlinkBlob
  <2>4. ASSUME NEW p \in Procs, RenameBlob(p) \/ RecordManifest(p)
        PROVE  (blob # None => blob' # None) /\ (meta # None => meta' # None)
    BY <2>1, <2>4 DEF RenameBlob, RecordManifest, Typed
  <2>5. CASE UNCHANGED vars \/ GrowStale \/ Rewrite \/ Over
    BY <2>5 DEF vars, GrowStale, Rewrite, Over, files
  <2> QED BY <2>2, <2>3, <2>4, <2>5 DEF Next
<1>2. CASE UNCHANGED <<pc, out, whole>>
  BY <1>0, <1>1, <1>2 DEF ReaderInv, Offline
<1>3. ASSUME NEW p \in Procs, Begin(p) PROVE ReaderInv(q)'
  BY <1>0, <1>1, <1>3 DEF ReaderInv, Begin, Goto, Offline, Typed, files
<1>4. ASSUME NEW p \in Procs, Step(p) \/ Crash(p), pc' # pc \/ out' # out \/ whole' # whole
      PROVE  ReaderInv(q)'
  <2>1. whole' = whole /\ pc[p] # "idle" /\ \A r \in Procs \ {p} : pc'[r] = pc[r] /\ out'[r] = out[r]
    <3>1. whole' = whole /\ pc[p] # "idle"
      BY <1>4 DEF Step, Look, Check, OpenLockFile, TakeFlock, TakePidfile, Download,
                 UnlinkBlob, RenameBlob, RecordManifest, Crash
    <3>2. \E label, answer : pc' = [pc EXCEPT ![p] = label] /\ (out' = out \/ out' = [out EXCEPT ![p] = answer])
      BY <1>4 DEF Step, Look, Check, Miss, Return, OpenLockFile, TakeFlock, TakePidfile, Download,
                 UnlinkBlob, RenameBlob, RecordManifest, Crash, Goto
    <3> QED BY <3>1, <3>2 DEF Typed
  <2>2. CASE q # p
    BY <1>0, <1>1, <2>1, <2>2 DEF ReaderInv, Offline
  <2>3. CASE q = p /\ (Look(p) \/ Check(p))
    <3>1. whole[p] => blob # None /\ meta # None
      BY <1>0, <2>1 DEF ReaderInv
    <3>2. p \in Offline /\ whole[p] => out'[p] # "cachemiss"
      BY <1>0, <2>3, <3>1 DEF Look, Check, Return, Miss, Typed, ReaderInv
    <3>3. p \notin Offline /\ whole[p] => out'[p] # "cachemiss"
      BY <1>0, <2>3, <3>1 DEF Look, Check, Return, Miss, Typed, ReaderInv
    <3>4. pc'[p] # "unlink" /\ (p \in Offline => pc'[p] \in {"idle", "look", "check"})
      BY <1>0, <2>3 DEF Look, Check, Return, Miss, Goto, Typed, ReaderInv
    <3> QED BY <1>0, <1>1, <2>1, <2>3, <3>1, <3>2, <3>3, <3>4 DEF ReaderInv, Offline
  <2>4. CASE q = p /\ p \notin Offline /\ ~(Look(p) \/ Check(p))
    <3>1. pc'[p] # "unlink"
      BY <1>4, <2>4 DEF NobodyUnlinks, Step, OpenLockFile, TakeFlock, TakePidfile, Download, UnlinkBlob,
                       RenameBlob, RecordManifest, Crash, Return, Goto, Typed
    <3>2. out'[p] = "cachemiss" => out[p] = "cachemiss"
      BY <1>4, <2>4 DEF Step, OpenLockFile, TakeFlock, TakePidfile, Download, UnlinkBlob,
                       RenameBlob, RecordManifest, Crash, Return, Typed
    <3> QED BY <1>0, <1>1, <2>1, <2>4, <3>1, <3>2 DEF ReaderInv, Offline
  <2>5. CASE q = p /\ p \in Offline /\ ~(Look(p) \/ Check(p))
    <3>1. Crash(p)
      BY <1>0, <1>4, <2>5 DEF ReaderInv, Step, OpenLockFile, TakeFlock, TakePidfile, Download, UnlinkBlob,
                       RenameBlob, RecordManifest
    <3> QED BY <1>0, <2>1, <2>5, <3>1 DEF ReaderInv, Crash, Goto, Typed, Offline
  <2> QED BY <2>2, <2>3, <2>4, <2>5
<1> QED BY <1>2, <1>3, <1>4 DEF Next, vars, GrowStale, Rewrite, Over

\* Without Python's unlink of the old blob, a re-ingest never makes an entry that was
\* complete vanish under an offline reader, whatever the locks are.
THEOREM OfflineFindsAlways == Spec => [](NobodyUnlinks => OfflineFinds)
<1>1. Init => ReadersInv
  BY DEF Init, ReadersInv, ReaderInv
<1>2. ReadersInv => (NobodyUnlinks => OfflineFinds)
  BY DEF ReadersInv, ReaderInv, OfflineFinds
<1> QED BY <1>1, <1>2, ReaderStep, TypeCorrect, PTL DEF Spec

=============================================================================
