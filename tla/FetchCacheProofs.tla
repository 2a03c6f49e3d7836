-------------------------- MODULE FetchCacheProofs --------------------------
(***************************************************************************)
(* Theorems about FetchCache, for every number of processes, sources,      *)
(* contents, extensions and validators, and every limit: its types, the    *)
(* single flight and the last committed blob; that it implements           *)
(* CacheEntry; and what a fetch is answered with.                          *)
(***************************************************************************)
EXTENDS FetchCache, TLAPS

\* The locals a phase relies on are there: a staged digest before the commit
\* and the manifest record, a prior manifest once a 304 arrived.
PhaseOK ==
    \A p \in Procs :
        /\ pc[p] \in {"copy", "commit", "record"} => call[p].sha \in Bytes
        /\ pc[p] \in {"touch", "refresh"} => call[p].prior \in Manifest

Typed == TypeOK /\ PhaseOK

-----------------------------------------------------------------------------
(* The helpers every action is built from.                                 *)

\* What a step leaves in the locals when it moves process p only.
LocalsOK(p) ==
    /\ pc' \in [Procs -> Labels]
    /\ call' \in [Procs -> Call]
    /\ lock' \in Procs \cup {None}
    /\ \A q \in Procs \ {p} : pc'[q] = pc[q] /\ call'[q] = call[q]

\* What a return leaves in the locals has its type.
LEMMA ReturnTyped ==
    ASSUME Typed, NEW p \in Procs, NEW out \in Outcomes, Return(p, out)
    PROVE  LocalsOK(p) /\ pc'[p] = "idle"
<1>1. pc \in [Procs -> Labels] /\ call \in [Procs -> Call] /\ lock \in Procs \cup {None}
  BY DEF Typed, TypeOK
<1>2. pc' \in [Procs -> Labels] /\ lock' \in Procs \cup {None} /\ pc'[p] = "idle"
  BY <1>1 DEF Return, Goto, Labels
<1>3. call' \in [Procs -> Call]
  <2>1. [call[p] EXCEPT !.out = out] \in Call
    BY <1>1 DEF Call
  <2>2. call' = [call EXCEPT ![p] = [call[p] EXCEPT !.out = out]]
    BY <1>1 DEF Return
  <2> QED BY <1>1, <2>1, <2>2
<1> QED BY <1>1, <1>2, <1>3 DEF LocalsOK, Return, Goto

\* So has what a successful return hands out.
LEMMA ServeTyped ==
    ASSUME Typed, NEW p \in Procs, NEW out \in Outcomes, NEW e \in Exts,
           NEW m \in MaybeMeta, Serve(p, out, e, m)
    PROVE  LocalsOK(p) /\ pc'[p] = "idle"
<1>1. /\ pc \in [Procs -> Labels] /\ call \in [Procs -> Call] /\ lock \in Procs \cup {None}
      /\ blob[e] \in Bytes \cup {None}
  BY DEF Typed, TypeOK
<1>2. pc' \in [Procs -> Labels] /\ lock' \in Procs \cup {None} /\ pc'[p] = "idle"
  BY <1>1 DEF Serve, Goto, Labels
<1>3. call' \in [Procs -> Call]
  <2> DEFINE new == [call[p] EXCEPT !.out = out, !.path = e, !.man = m, !.bytes = blob[e]]
  <2>1. new \in Call
    BY <1>1 DEF Call
  <2>2. call' = [call EXCEPT ![p] = new]
    BY <1>1 DEF Serve
  <2> QED BY <1>1, <2>1, <2>2
<1> QED BY <1>1, <1>2, <1>3 DEF LocalsOK, Serve, Goto

\* A miss offline, the queue for the lock, or the download under it.
LEMMA NoHitTyped ==
    ASSUME Typed, NEW p \in Procs, NoHit(p)
    PROVE  LocalsOK(p) /\ pc'[p] \in {"idle", "prior", "wait"}
<1>1. CASE p \in Offline
  BY <1>1, ReturnTyped DEF NoHit, Outcomes
<1>2. CASE p \notin Offline
  BY <1>2 DEF NoHit, LocalsOK, Goto, Typed, TypeOK, Labels
<1> QED BY <1>1, <1>2

\* The verification or the answer.
LEMMA AcceptTyped ==
    ASSUME Typed, NEW p \in Procs, NEW m \in MaybeMeta, Accept(p, m)
    PROVE  LocalsOK(p) /\ pc'[p] \in {"idle", "verify"}
<1>1. call[p] \in Call /\ call[p].path \in Exts
  BY DEF Typed, TypeOK, Call
<1>2. CASE VerifyOnRead
  <2>1. [call[p] EXCEPT !.man = m] \in Call
    BY <1>1 DEF Call
  <2>2. call' = [call EXCEPT ![p] = [call[p] EXCEPT !.man = m]]
    BY <1>2 DEF Accept
  <2> QED BY <1>2, <2>1, <2>2 DEF Accept, LocalsOK, Goto, Typed, TypeOK, Labels
<1>3. CASE ~VerifyOnRead
  BY <1>1, <1>3, ServeTyped DEF Accept, Outcomes
<1> QED BY <1>2, <1>3

\* Spending a budget leaves a count for each.
LEMMA SpendTyped ==
    ASSUME Typed, NEW k \in Budgets, Spend(k)
    PROVE  used' \in [Budgets -> Nat]
BY DEF Typed, TypeOK, Spend

\* A step of p that types the store and p's own locals keeps Typed.
LEMMA TypedAfter ==
    ASSUME Typed, NEW p \in Procs, LocalsOK(p), src' = src,
           blob' \in [Exts -> Bytes \cup {None}], meta' \in MaybeMeta,
           tip' \in Exts, dirty' \in BOOLEAN, downloads' \in Nat,
           used' \in [Budgets -> Nat],
           pc'[p] \in {"copy", "commit", "record"} => call'[p].sha \in Bytes,
           pc'[p] \in {"touch", "refresh"} => call'[p].prior \in Manifest
    PROVE  Typed'
BY DEF Typed, TypeOK, PhaseOK, LocalsOK

-----------------------------------------------------------------------------
(* Typed is inductive: the hit check.                                      *)

LEMMA StartTyped ==
    ASSUME ConstantsAssumption, Typed, NEW p \in Procs, Start(p) PROVE Typed'
<1>1. NoCall \in Call
  BY DEF ConstantsAssumption, NoCall, Call, Exts, MaybeMeta, Sources, Tags, Outcomes
<1>2. LocalsOK(p) /\ pc'[p] = "lookup"
  BY <1>1 DEF Start, LocalsOK, Goto, Typed, TypeOK, Labels
<1>3. used' \in [Budgets -> Nat]
  BY SpendTyped DEF Start, Budgets
<1> QED BY <1>2, <1>3, TypedAfter DEF Start, store, Typed, TypeOK

LEMMA LookupBlobTyped ==
    ASSUME ConstantsAssumption, Typed, NEW p \in Procs, LookupBlob(p) PROVE Typed'
<1>1. ASSUME NEW e \in Found(Ext[1]), call' = [call EXCEPT ![p].path = e],
             Goto(p, "meta"), UNCHANGED lock
      PROVE  LocalsOK(p) /\ pc'[p] = "meta"
  <2>1. e \in Exts
    BY <1>1 DEF Found, Exts, ConstantsAssumption, Sources
  <2>2. [call[p] EXCEPT !.path = e] \in Call
    <3>1. call[p] \in Call
      BY DEF Typed, TypeOK
    <3> QED BY <2>1, <3>1 DEF Call
  <2>3. call' = [call EXCEPT ![p] = [call[p] EXCEPT !.path = e]]
    BY <1>1
  <2> QED BY <1>1, <2>2, <2>3 DEF LocalsOK, Goto, Typed, TypeOK, Labels
<1>2. LocalsOK(p) /\ pc'[p] \in {"meta", "idle", "prior", "wait"}
  BY <1>1, NoHitTyped DEF LookupBlob
<1> QED BY <1>2, TypedAfter DEF LookupBlob, store, Typed, TypeOK

LEMMA ReadMetaTyped ==
    ASSUME Typed, NEW p \in Procs, ReadMeta(p) PROVE Typed'
<1>1. meta \in MaybeMeta
  BY DEF Typed, TypeOK
<1>2. ASSUME Goto(p, "stat"), call' = [call EXCEPT ![p].man = meta], UNCHANGED lock
      PROVE  LocalsOK(p) /\ pc'[p] = "stat"
  <2>1. [call[p] EXCEPT !.man = meta] \in Call
    BY <1>1 DEF Typed, TypeOK, Call
  <2>2. call' = [call EXCEPT ![p] = [call[p] EXCEPT !.man = meta]]
    BY <1>2
  <2> QED BY <1>2, <2>1, <2>2 DEF LocalsOK, Goto, Typed, TypeOK, Labels
<1>3. LocalsOK(p) /\ pc'[p] \in {"idle", "prior", "wait", "verify", "stat"}
  BY <1>1, <1>2, NoHitTyped, AcceptTyped DEF ReadMeta
<1> QED BY <1>3, TypedAfter DEF ReadMeta, store, Typed, TypeOK

LEMMA RungZeroTyped ==
    ASSUME Typed, NEW p \in Procs, StatSource(p) \/ HashSource(p) PROVE Typed'
<1>1. call[p].man \in MaybeMeta
  BY DEF Typed, TypeOK, Call
<1>2. SourceMissing(p) => LocalsOK(p) /\ pc'[p] \in {"idle", "prior", "wait", "verify"}
  BY <1>1, NoHitTyped, AcceptTyped DEF SourceMissing
<1>3. Goto(p, "hash") /\ UNCHANGED <<lock, call>> => LocalsOK(p) /\ pc'[p] = "hash"
  BY DEF LocalsOK, Goto, Typed, TypeOK, Labels
<1>4. LocalsOK(p) /\ pc'[p] \in {"idle", "prior", "wait", "verify", "hash"}
  BY <1>1, <1>2, <1>3, NoHitTyped, AcceptTyped DEF StatSource, HashSource
<1> QED BY <1>4, TypedAfter DEF StatSource, HashSource, store, Typed, TypeOK

LEMMA VerifyBlobTyped ==
    ASSUME Typed, NEW p \in Procs, VerifyBlob(p) PROVE Typed'
<1>1. call[p].man \in MaybeMeta /\ call[p].path \in Exts
  BY DEF Typed, TypeOK, Call
<1>2. LocalsOK(p) /\ pc'[p] = "idle"
  BY <1>1, ReturnTyped, ServeTyped DEF VerifyBlob, Outcomes
<1> QED BY <1>2, TypedAfter DEF VerifyBlob, store, Typed, TypeOK

LEMMA AcquireLockTyped ==
    ASSUME Typed, NEW p \in Procs, AcquireLock(p) PROVE Typed'
<1>1. LocalsOK(p) /\ pc'[p] = "lookup"
  BY DEF AcquireLock, LocalsOK, Goto, Typed, TypeOK, Labels
<1> QED BY <1>1, TypedAfter DEF AcquireLock, store, Typed, TypeOK

-----------------------------------------------------------------------------
(* Typed is inductive: the download and the commit.                        *)

LEMMA BeginDownloadTyped ==
    ASSUME ConstantsAssumption, Typed, NEW p \in Procs, BeginDownload(p) PROVE Typed'
<1> DEFINE new == [call[p] EXCEPT !.prior = meta, !.at = 1, !.absent = TRUE]
<1>1. call[p] \in Call /\ meta \in MaybeMeta /\ 1 \in Sources
  BY DEF Typed, TypeOK, Sources, ConstantsAssumption
<1>2. new \in Call
  BY <1>1 DEF Call
<1>3. call' = [call EXCEPT ![p] = new]
  BY DEF BeginDownload
<1>4. LocalsOK(p) /\ pc'[p] = "source"
  BY <1>2, <1>3 DEF BeginDownload, LocalsOK, Goto, Typed, TypeOK, Labels
<1> QED BY <1>4, TypedAfter DEF BeginDownload, store, Typed, TypeOK

LEMMA NextSourceTyped ==
    ASSUME ConstantsAssumption, Typed, NEW p \in Procs, NEW b \in BOOLEAN,
           pc[p] = "source", NextSource(p, b)
    PROVE  LocalsOK(p) /\ pc'[p] \in {"source", "idle"}
<1> DEFINE absent == call[p].absent /\ b
           new == [call[p] EXCEPT !.at = @ + 1, !.absent = absent]
<1>1. call[p] \in Call /\ absent \in BOOLEAN
  BY DEF Typed, TypeOK, Call
<1>2. CASE call[p].at < NumSources
  <2>1. call[p].at + 1 \in Sources
    BY <1>1, <1>2 DEF Call, Sources, ConstantsAssumption
  <2>2. new \in Call
    BY <1>1, <2>1 DEF Call
  <2>3. call' = [call EXCEPT ![p] = new] /\ UNCHANGED <<pc, lock>>
    BY <1>2 DEF NextSource
  <2> QED BY <2>2, <2>3 DEF LocalsOK, Typed, TypeOK
<1>3. CASE ~(call[p].at < NumSources)
  <2>1. Return(p, IF absent THEN "absent" ELSE "failed")
    BY <1>3 DEF NextSource
  <2> QED BY <2>1, ReturnTyped DEF Outcomes
<1> QED BY <1>2, <1>3

LEMMA ContactSourceTyped ==
    ASSUME ConstantsAssumption, Typed, NEW p \in Procs, ContactSource(p) PROVE Typed'
<1> DEFINE s == call[p].at
           c == src[s].content
<1>1. /\ call[p] \in Call /\ s \in Sources /\ c \in Content /\ c \in Bytes
      /\ Tag[c] \in Tags /\ None \in Tags
  BY DEF Typed, TypeOK, Call, Bytes, Tags
<1>2. ASSUME NEW t \in Tags, NEW l \in {"copy", "commit"},
             call' = [call EXCEPT ![p].sha = c, ![p].tag = t], Goto(p, l), UNCHANGED lock
      PROVE  LocalsOK(p) /\ pc'[p] = l /\ call'[p].sha = c
  <2> DEFINE new == [call[p] EXCEPT !.sha = c, !.tag = t]
  <2>1. new \in Call /\ new.sha = c
    BY <1>1 DEF Call
  <2>2. call' = [call EXCEPT ![p] = new]
    BY <1>2
  <2>3. call \in [Procs -> Call] /\ pc \in [Procs -> Labels] /\ lock \in Procs \cup {None}
    BY DEF Typed, TypeOK
  <2> QED BY <1>2, <2>1, <2>2, <2>3 DEF LocalsOK, Goto, Labels
<1>3. CASE src[s].state \in {"missing", "down"}
  <2>1. NextSource(p, TRUE) \/ NextSource(p, FALSE)
    BY <1>3 DEF ContactSource
  <2>2. LocalsOK(p) /\ pc'[p] \in {"source", "idle"}
    BY <2>1, NextSourceTyped DEF ContactSource
  <2> QED BY <2>2, TypedAfter DEF ContactSource, store, Typed, TypeOK
<1>4. CASE src[s].state \notin {"missing", "down"} /\ s \in FileSources
  <2>1. LocalsOK(p) /\ pc'[p] = "copy" /\ call'[p].sha = c
    BY <1>1, <1>2, <1>4 DEF ContactSource
  <2> QED BY <1>1, <2>1, TypedAfter DEF ContactSource, store, Typed, TypeOK
<1>5. CASE /\ src[s].state \notin {"missing", "down"} /\ s \notin FileSources
           /\ Tag[c] # None /\ Conditional(p) = Tag[c]
  <2>1. Goto(p, "touch") /\ UNCHANGED <<lock, call>>
    BY <1>5 DEF ContactSource, Unchanged
  <2>2. call[p].prior \in Manifest
    BY <1>1, <1>5 DEF Conditional, Call, MaybeMeta
  <2>3. LocalsOK(p) /\ pc'[p] = "touch" /\ call'[p].prior \in Manifest
    BY <2>1, <2>2 DEF LocalsOK, Goto, Typed, TypeOK, Labels
  <2> QED BY <2>3, TypedAfter DEF ContactSource, store, Typed, TypeOK
<1>6. CASE /\ src[s].state \notin {"missing", "down"} /\ s \notin FileSources
           /\ ~(Tag[c] # None /\ Conditional(p) = Tag[c])
  <2>1. LocalsOK(p) /\ pc'[p] = "commit" /\ call'[p].sha = c
    BY <1>1, <1>2, <1>6 DEF ContactSource
  <2> QED BY <1>1, <2>1, TypedAfter DEF ContactSource, store, Typed, TypeOK
<1> QED BY <1>3, <1>4, <1>5, <1>6

LEMMA FinishCopyTyped ==
    ASSUME Typed, NEW p \in Procs, FinishCopy(p) PROVE Typed'
<1>1. LocalsOK(p) /\ pc'[p] = "commit" /\ call'[p].sha \in Bytes
  BY DEF FinishCopy, LocalsOK, Goto, Typed, TypeOK, PhaseOK, Labels
<1> QED BY <1>1, TypedAfter DEF FinishCopy, store, Typed, TypeOK

LEMMA CommitBlobTyped ==
    ASSUME Typed, NEW p \in Procs, CommitBlob(p) PROVE Typed'
<1> DEFINE e == Ext[call[p].at]
           new == [call[p] EXCEPT !.path = e]
<1>1. call[p] \in Call /\ call[p].sha \in Bytes /\ e \in Exts
  BY DEF Typed, TypeOK, PhaseOK, CommitBlob, Call, Exts
<1>2. CASE Return(p, "integrity") /\ UNCHANGED <<blob, tip, downloads>>
  <2>1. LocalsOK(p) /\ pc'[p] = "idle"
    BY <1>2, ReturnTyped DEF Outcomes
  <2> QED BY <1>2, <2>1, TypedAfter DEF CommitBlob, Typed, TypeOK
<1>3. CASE /\ RenameBlob(e, call[p].sha) /\ tip' = e /\ downloads' = downloads + 1
           /\ call' = [call EXCEPT ![p].path = e] /\ Goto(p, "record") /\ UNCHANGED lock
  <2>1. new \in Call /\ new.sha = call[p].sha
    BY <1>1 DEF Call
  <2>2. call' = [call EXCEPT ![p] = new]
    BY <1>3
  <2>3. LocalsOK(p) /\ call'[p].sha \in Bytes /\ pc'[p] = "record"
    BY <1>1, <1>3, <2>1, <2>2 DEF LocalsOK, Goto, Typed, TypeOK, Labels
  <2>4. blob' \in [Exts -> Bytes \cup {None}] /\ downloads' \in Nat
    BY <1>1, <1>3 DEF RenameBlob, Typed, TypeOK
  <2> QED BY <1>1, <1>3, <2>3, <2>4, TypedAfter DEF CommitBlob, Typed, TypeOK
<1> QED BY <1>2, <1>3 DEF CommitBlob

LEMMA RecordTyped ==
    ASSUME Typed, NEW p \in Procs, WriteManifest(p) \/ FailManifest(p) PROVE Typed'
<1>1. CASE WriteManifest(p)
  <2> DEFINE man == [sha |-> call[p].sha, tag |-> call[p].tag, fresh |-> TRUE]
  <2>1. call[p] \in Call /\ call[p].sha \in Bytes
    BY <1>1 DEF Typed, TypeOK, PhaseOK, WriteManifest
  <2>2. man \in MaybeMeta /\ call[p].path \in Exts
    BY <2>1 DEF Call, Manifest, MaybeMeta
  <2>3. LocalsOK(p) /\ pc'[p] = "idle"
    BY <1>1, <2>2, ServeTyped DEF WriteManifest, Outcomes
  <2> QED BY <1>1, <2>2, <2>3, TypedAfter DEF WriteManifest, Typed, TypeOK
<1>2. CASE FailManifest(p)
  <2>1. LocalsOK(p) /\ pc'[p] = "idle"
    BY <1>2, ReturnTyped DEF FailManifest, Outcomes
  <2>2. used' \in [Budgets -> Nat]
    BY <1>2, SpendTyped DEF FailManifest, Budgets
  <2> QED BY <1>2, <2>1, <2>2, TypedAfter DEF FailManifest, Typed, TypeOK
<1> QED BY <1>1, <1>2

\* The lookup after a 304: the blob it found, the request without validators,
\* or the error.
LEMMA TouchMoves ==
    ASSUME ConstantsAssumption, Typed, NEW p \in Procs, TouchBlob(p)
    PROVE  /\ pc[p] = "touch" /\ pc'[p] \in {"refresh", "prior", "idle"}
           /\ UNCHANGED <<src, blob, meta, tip, dirty, downloads, used>>
           /\ \/ /\ pc'[p] = "refresh" /\ UNCHANGED lock
                 /\ \E e \in Found(Ext[call[p].at]) :
                       e \in Exts /\ call'[p] = [call[p] EXCEPT !.path = e]
              \/ /\ pc'[p] = "prior" /\ UNCHANGED lock
                 /\ Found(Ext[call[p].at]) = {} /\ call[p].validators
                 /\ call'[p] = [call[p] EXCEPT !.validators = FALSE]
              \/ /\ pc'[p] = "idle" /\ Return(p, "stale304")
                 /\ Found(Ext[call[p].at]) = {} /\ ~call[p].validators
           /\ LocalsOK(p)
           /\ pc'[p] # "idle" => call'[p].prior = call[p].prior /\ call'[p].sha = call[p].sha
                                 /\ call'[p].man = call[p].man /\ call'[p].out = call[p].out
<1> USE DEF Goto
<1>1. /\ call \in [Procs -> Call] /\ pc \in [Procs -> Labels] /\ call[p] \in Call
      /\ pc[p] = "touch" /\ UNCHANGED <<src, blob, meta, tip, dirty, downloads, used>>
  BY DEF Typed, TypeOK, TouchBlob, store
<1>2. Found(Ext[call[p].at]) \subseteq Exts
  BY <1>1 DEF Found, Exts, Call
<1>3. ASSUME NEW e \in Found(Ext[call[p].at]), Refound(p, e)
      PROVE  /\ pc'[p] = "refresh" /\ call'[p] = [call[p] EXCEPT !.path = e] /\ LocalsOK(p)
             /\ call'[p].prior = call[p].prior /\ call'[p].sha = call[p].sha
             /\ call'[p].man = call[p].man /\ call'[p].out = call[p].out
  <2>1. [call[p] EXCEPT !.path = e] \in Call
    BY <1>1, <1>2, <1>3 DEF Call
  <2>2. call' = [call EXCEPT ![p] = [call[p] EXCEPT !.path = e]]
    BY <1>3 DEF Refound
  <2>3. LocalsOK(p) /\ pc'[p] = "refresh" /\ call'[p] = [call[p] EXCEPT !.path = e]
    BY <1>1, <1>3, <2>1, <2>2 DEF LocalsOK, Refound, Labels, Typed, TypeOK
  <2> QED BY <1>1, <2>3 DEF Call
<1>4. ASSUME call' = [call EXCEPT ![p].validators = FALSE], Goto(p, "prior"), UNCHANGED lock
      PROVE  /\ pc'[p] = "prior" /\ call'[p] = [call[p] EXCEPT !.validators = FALSE] /\ LocalsOK(p)
             /\ call'[p].prior = call[p].prior /\ call'[p].sha = call[p].sha
             /\ call'[p].man = call[p].man /\ call'[p].out = call[p].out
  <2>1. [call[p] EXCEPT !.validators = FALSE] \in Call
    BY <1>1 DEF Call
  <2>2. call' = [call EXCEPT ![p] = [call[p] EXCEPT !.validators = FALSE]]
    BY <1>4
  <2>3. LocalsOK(p) /\ pc'[p] = "prior" /\ call'[p] = [call[p] EXCEPT !.validators = FALSE]
    BY <1>1, <1>4, <2>1, <2>2 DEF LocalsOK, Labels, Typed, TypeOK
  <2> QED BY <1>1, <2>3 DEF Call
<1>5. Return(p, "stale304") => LocalsOK(p) /\ pc'[p] = "idle"
  BY ReturnTyped DEF Outcomes
<1>6. CASE \E e \in Found(Ext[call[p].at]) : Refound(p, e)
  <2>1. PICK e \in Found(Ext[call[p].at]) : Refound(p, e)
    BY <1>6
  <2> QED BY <1>1, <1>2, <1>3, <2>1 DEF Refound
<1>7. CASE ~ \E e \in Found(Ext[call[p].at]) : Refound(p, e)
  BY <1>1, <1>4, <1>5, <1>7 DEF TouchBlob
<1> QED BY <1>6, <1>7

LEMMA TouchBlobTyped ==
    ASSUME ConstantsAssumption, Typed, NEW p \in Procs, TouchBlob(p) PROVE Typed'
<1>1. /\ LocalsOK(p) /\ pc[p] = "touch" /\ pc'[p] \in {"refresh", "prior", "idle"}
      /\ pc'[p] # "idle" => call'[p].prior = call[p].prior
      /\ UNCHANGED <<src, blob, meta, tip, dirty, downloads, used>>
  BY TouchMoves
<1>2. call[p].prior \in Manifest
  BY <1>1 DEF Typed, PhaseOK
<1> QED BY <1>1, <1>2, TypedAfter DEF Typed, TypeOK

\* The refreshed manifest is one.
LEMMA RefreshedTyped ==
    ASSUME Typed, NEW p \in Procs, pc[p] \in {"touch", "refresh"}
    PROVE  /\ [call[p].prior EXCEPT !.fresh = TRUE] \in Manifest
           /\ [call[p].prior EXCEPT !.fresh = TRUE].sha = call[p].prior.sha
           /\ [call[p].prior EXCEPT !.fresh = TRUE].tag = call[p].prior.tag
           /\ [call[p].prior EXCEPT !.fresh = TRUE].fresh = TRUE
           /\ call[p].prior \in Manifest
<1>1. call[p].prior \in Manifest
  BY DEF Typed, PhaseOK
<1> QED BY <1>1 DEF Manifest

LEMMA RefreshTyped ==
    ASSUME Typed, NEW p \in Procs, RefreshManifest(p) PROVE Typed'
<1> DEFINE man == [call[p].prior EXCEPT !.fresh = TRUE]
<1>1. pc[p] = "refresh" /\ Serve(p, "notmodified", call[p].path, man) /\ meta' = man
  BY DEF RefreshManifest
<1>2. man \in MaybeMeta /\ call[p].path \in Exts
  BY <1>1, RefreshedTyped DEF MaybeMeta, Typed, TypeOK, Call
<1> HIDE DEF man
<1>3. LocalsOK(p) /\ pc'[p] = "idle"
  BY <1>1, <1>2, ServeTyped DEF Outcomes
<1> QED BY <1>1, <1>2, <1>3, TypedAfter DEF RefreshManifest, Typed, TypeOK

-----------------------------------------------------------------------------
(* Typed is inductive: the environment.                                    *)

LEMMA CrashTyped ==
    ASSUME ConstantsAssumption, Typed, NEW p \in Procs, Crash(p) PROVE Typed'
<1>1. [NoCall EXCEPT !.out = "crashed"] \in Call
  <2>1. NoCall \in Call
    BY DEF ConstantsAssumption, NoCall, Call, Exts, MaybeMeta, Sources, Tags, Outcomes
  <2> QED BY <2>1 DEF Call, Outcomes
<1>2. LocalsOK(p) /\ pc'[p] = "idle"
  BY <1>1 DEF Crash, LocalsOK, Goto, Typed, TypeOK, Labels
<1>3. used' \in [Budgets -> Nat]
  BY SpendTyped DEF Crash, Budgets
<1> QED BY <1>2, <1>3, TypedAfter DEF Crash, Typed, TypeOK

\* A change of a source tears copies at most.
LEMMA ChangeLeaves ==
    ASSUME Typed, NEW s \in Sources, ChangeSource(s)
    PROVE  /\ UNCHANGED <<pc, lock, blob, meta, tip, dirty, downloads>>
           /\ call' \in [Procs -> Call]
           /\ \A q \in Procs :
                \/ call'[q] = call[q]
                \/ pc[q] = "copy" /\ call'[q] = [call[q] EXCEPT !.sha = Torn]
<1>1. call \in [Procs -> Call] /\ Torn \in Bytes
  BY DEF Typed, TypeOK, Bytes
<1>2. \A q \in Procs : [call[q] EXCEPT !.sha = Torn] \in Call
  BY <1>1 DEF Call
<1>3. call' = call \/ call' = Mixed(s)
  BY DEF ChangeSource
<1> QED BY <1>1, <1>2, <1>3 DEF ChangeSource, store, Mixed

\* What happens around the fetches moves none of them: at most it tears one's
\* copy.
LEMMA EnvironmentLeaves ==
    ASSUME Typed, Environment
    PROVE  /\ UNCHANGED <<pc, lock, tip, dirty, downloads>>
           /\ call' \in [Procs -> Call]
           /\ \A q \in Procs :
                /\ call'[q].path = call[q].path /\ call'[q].man = call[q].man
                /\ call'[q].at = call[q].at /\ call'[q].validators = call[q].validators
                /\ call'[q].prior = call[q].prior /\ call'[q].absent = call[q].absent
                /\ call'[q].out = call[q].out /\ call'[q].bytes = call[q].bytes
                /\ call'[q].tag = call[q].tag
                /\ call'[q].sha = call[q].sha \/ (pc[q] = "copy" /\ call'[q].sha = Torn)
<1>1. call \in [Procs -> Call]
  BY DEF Typed, TypeOK
<1>2. CASE \E s \in Sources : ChangeSource(s)
  <2>1. PICK s \in Sources : ChangeSource(s)
    BY <1>2
  <2>2. /\ UNCHANGED <<pc, lock, tip, dirty, downloads>>
        /\ call' \in [Procs -> Call]
        /\ \A q \in Procs :
             \/ call'[q] = call[q]
             \/ pc[q] = "copy" /\ call'[q] = [call[q] EXCEPT !.sha = Torn]
    BY <2>1, ChangeLeaves
  <2>3. \A q \in Procs : LET new == [call[q] EXCEPT !.sha = Torn]
          IN /\ new.path = call[q].path /\ new.man = call[q].man
             /\ new.at = call[q].at /\ new.validators = call[q].validators
             /\ new.prior = call[q].prior /\ new.absent = call[q].absent
             /\ new.out = call[q].out /\ new.bytes = call[q].bytes
             /\ new.tag = call[q].tag /\ new.sha = Torn
    BY <1>1 DEF Call
  <2> QED BY <2>2, <2>3
<1>3. CASE ~ \E s \in Sources : ChangeSource(s)
  <2>1. UNCHANGED <<pc, lock, tip, dirty, downloads, call>>
    BY <1>3 DEF Environment, EvictBlob, EvictManifest, Expire
  <2> QED BY <1>1, <2>1
<1> QED BY <1>2, <1>3

LEMMA EnvironmentTyped ==
    ASSUME ConstantsAssumption, Typed, Environment PROVE Typed'
<1>1. ASSUME NEW s \in Sources, ChangeSource(s) PROVE Typed'
  <2>1. used' \in [Budgets -> Nat]
    BY <1>1, SpendTyped DEF ChangeSource, Budgets
  <2>2. src[s] \in [state : States, content : Content]
    BY DEF Typed, TypeOK
  <2>3. \E r \in [state : States, content : Content] : src' = [src EXCEPT ![s] = r]
    <3>1. CASE \E c \in Later[src[s].content] : src' = [src EXCEPT ![s].content = c]
      <4>1. PICK c \in Later[src[s].content] : src' = [src EXCEPT ![s].content = c]
        BY <3>1
      <4>2. c \in Content
        BY <2>2 DEF ConstantsAssumption
      <4>3. [src[s] EXCEPT !.content = c] \in [state : States, content : Content]
        BY <2>2, <4>2
      <4> QED BY <4>1, <4>3
    <3>2. CASE \E st \in States \ {src[s].state} : src' = [src EXCEPT ![s].state = st]
      <4>1. PICK st \in States : src' = [src EXCEPT ![s].state = st]
        BY <3>2
      <4>2. [src[s] EXCEPT !.state = st] \in [state : States, content : Content]
        BY <2>2, <4>1
      <4> QED BY <4>1, <4>2
    <3> QED BY <1>1, <3>1, <3>2 DEF ChangeSource
  <2>4. /\ UNCHANGED <<pc, lock, blob, meta, tip, dirty, downloads>>
        /\ call' \in [Procs -> Call]
    BY <1>1, ChangeLeaves
  <2>5. PhaseOK'
    <3>1. /\ UNCHANGED pc
          /\ \A q \in Procs : /\ call'[q].prior = call[q].prior
                               /\ call'[q].sha \in {call[q].sha, Torn}
      BY <1>1, EnvironmentLeaves DEF Environment
    <3>2. ASSUME NEW q \in Procs
          PROVE  /\ pc'[q] \in {"copy", "commit", "record"} => call'[q].sha \in Bytes
                 /\ pc'[q] \in {"touch", "refresh"} => call'[q].prior \in Manifest
      BY <3>1 DEF Typed, PhaseOK, Bytes
    <3> QED BY <3>2 DEF PhaseOK
  <2> QED BY <2>1, <2>3, <2>4, <2>5 DEF Typed, TypeOK
<1>2. ASSUME NEW e \in Exts, EvictBlob(e) PROVE Typed'
  BY <1>2, SpendTyped DEF EvictBlob, Budgets, Typed, TypeOK, PhaseOK
<1>3. CASE EvictManifest
  BY <1>3, SpendTyped DEF EvictManifest, Budgets, Typed, TypeOK, PhaseOK, MaybeMeta
<1>4. CASE Expire
  <2>1. meta \in Manifest
    BY <1>4 DEF Expire, Typed, TypeOK, MaybeMeta
  <2>2. [meta EXCEPT !.fresh = FALSE] \in MaybeMeta
    BY <2>1 DEF Manifest, MaybeMeta
  <2> QED BY <1>4, <2>2, SpendTyped DEF Expire, Budgets, Typed, TypeOK, PhaseOK
<1> QED BY <1>1, <1>2, <1>3, <1>4 DEF Environment

-----------------------------------------------------------------------------
\* A cache that an earlier program filled has its types.
LEMMA WarmTyped ==
    ASSUME NEW s \in Sources, Warm(s)
    PROVE  blob \in [Exts -> Bytes \cup {None}] /\ meta \in Manifest /\ tip \in Exts
           /\ downloads \in Nat
BY ConstantsAssumption DEF Warm, ConstantsAssumption, Bytes, Tags, Manifest, Exts

\* Cold or warm, the first state has its types.
LEMMA TypedAtFirst ==
    ASSUME Init PROVE Typed
<1>1. NoCall \in Call
  BY ConstantsAssumption
     DEF ConstantsAssumption, NoCall, Call, Exts, MaybeMeta, Sources, Tags, Outcomes
<1>2. Cold => blob \in [Exts -> Bytes \cup {None}] /\ meta \in MaybeMeta /\ tip \in Exts
             /\ downloads \in Nat
  BY DEF Cold, MaybeMeta, Exts
<1>3. TypeOK
  BY <1>1, <1>2, WarmTyped, ConstantsAssumption
     DEF ConstantsAssumption, Init, TypeOK, States, MaybeMeta, Labels
<1>4. PhaseOK
  BY DEF Init, PhaseOK
<1> QED BY <1>3, <1>4 DEF Typed

(* Every reachable state has its types and its phases their locals: the    *)
(* fact the other proofs rest on.                                          *)
THEOREM TypedAlways == Spec => []Typed
<1>1. Init => Typed
  BY TypedAtFirst
<1>2. Typed /\ [Next]_vars => Typed'
  <2> SUFFICES ASSUME Typed, [Next]_vars PROVE Typed'
    OBVIOUS
  <2> USE ConstantsAssumption
  <2>1. ASSUME NEW p \in Procs, Start(p) PROVE Typed'
    BY <2>1, StartTyped
  <2>2. ASSUME NEW p \in Procs, Step(p) PROVE Typed'
    BY <2>2, LookupBlobTyped, ReadMetaTyped, RungZeroTyped, VerifyBlobTyped,
       AcquireLockTyped, BeginDownloadTyped, ContactSourceTyped, FinishCopyTyped,
       CommitBlobTyped, RecordTyped, TouchBlobTyped, RefreshTyped DEF Step
  <2>3. ASSUME NEW p \in Procs, FailManifest(p) PROVE Typed'
    BY <2>3, RecordTyped
  <2>4. ASSUME NEW p \in Procs, Crash(p) PROVE Typed'
    BY <2>4, CrashTyped
  <2>5. CASE Environment
    BY <2>5, EnvironmentTyped
  <2>6. CASE Finished \/ UNCHANGED vars
    BY <2>6 DEF Finished, vars, store, Typed, TypeOK, PhaseOK
  <2> QED BY <2>1, <2>2, <2>3, <2>4, <2>5, <2>6 DEF Next, Action
<1> QED BY <1>1, <1>2, PTL DEF Spec


\* Every variable of the cache keeps its type.
THEOREM TypeCorrect == Spec => []TypeOK
<1>1. Typed => TypeOK
  BY DEF Typed
<1> QED BY <1>1, TypedAlways, PTL

-----------------------------------------------------------------------------
(* The lock.                                                               *)

\* Whatever a step of p does, the locals of the others stay, and it releases
\* or takes the lock for p alone.
LEMMA StepIsLocal ==
    ASSUME Typed, NEW p \in Procs,
           Start(p) \/ Step(p) \/ FailManifest(p) \/ Crash(p)
    PROVE  /\ \A q \in Procs \ {p} : pc'[q] = pc[q] /\ call'[q] = call[q]
           /\ lock' \in {lock, p, None}
           /\ lock' # lock => lock \in {p, None}
           /\ lock # None /\ lock' = None => pc'[p] = "idle"
<1> USE DEF Goto
<1>1. /\ pc \in [Procs -> Labels] /\ call \in [Procs -> Call]
  BY DEF Typed, TypeOK
<1>2. CASE Start(p) \/ Crash(p) \/ AcquireLock(p) \/ BeginDownload(p) \/ FinishCopy(p)
  BY <1>1, <1>2 DEF Start, Crash, AcquireLock, BeginDownload, FinishCopy
<1>3. CASE WriteManifest(p) \/ FailManifest(p) \/ RefreshManifest(p) \/ CommitBlob(p)
  BY <1>1, <1>3 DEF WriteManifest, FailManifest, RefreshManifest, CommitBlob, Serve, Return
<1>7. CASE TouchBlob(p)
  BY <1>1, <1>7 DEF TouchBlob, Refound, Return
<1>4. CASE VerifyBlob(p) \/ ContactSource(p)
  BY <1>1, <1>4 DEF VerifyBlob, ContactSource, Unchanged, NextSource, Serve, Return
<1>5. CASE LookupBlob(p) \/ ReadMeta(p)
  BY <1>1, <1>5 DEF LookupBlob, ReadMeta, NoHit, Accept, Serve, Return
<1>6. CASE StatSource(p) \/ HashSource(p)
  BY <1>1, <1>6 DEF StatSource, HashSource, SourceMissing, NoHit, Accept, Serve, Return
<1> QED BY <1>2, <1>3, <1>4, <1>5, <1>6, <1>7 DEF Step

\* A step that ends in the download either was there before, or found nothing
\* to serve while its process, an online one, held the lock.
LEMMA EntersUnderLock ==
    ASSUME Typed, NEW p \in Procs,
           Start(p) \/ Step(p) \/ FailManifest(p) \/ Crash(p),
           pc'[p] \in Downloading
    PROVE  /\ lock' = lock
           /\ pc[p] \in Downloading \/ (lock = p /\ p \notin Offline)
<1> USE DEF Goto, Downloading
<1>1. pc \in [Procs -> Labels]
  BY DEF Typed, TypeOK
<1>2. CASE Start(p) \/ Crash(p) \/ AcquireLock(p) \/ BeginDownload(p) \/ FinishCopy(p)
  BY <1>1, <1>2 DEF Start, Crash, AcquireLock, BeginDownload, FinishCopy
<1>3. CASE WriteManifest(p) \/ FailManifest(p) \/ RefreshManifest(p) \/ CommitBlob(p)
  BY <1>1, <1>3 DEF WriteManifest, FailManifest, RefreshManifest, CommitBlob, Serve, Return
<1>7. CASE TouchBlob(p)
  BY <1>1, <1>7 DEF TouchBlob, Refound, Return
<1>4. CASE VerifyBlob(p) \/ ContactSource(p)
  BY <1>1, <1>4 DEF VerifyBlob, ContactSource, Unchanged, NextSource, Serve, Return
<1>5. CASE LookupBlob(p) \/ ReadMeta(p)
  BY <1>1, <1>5 DEF LookupBlob, ReadMeta, NoHit, Accept, Serve, Return
<1>6. CASE StatSource(p) \/ HashSource(p)
  BY <1>1, <1>6 DEF StatSource, HashSource, SourceMissing, NoHit, Accept, Serve, Return
<1> QED BY <1>2, <1>3, <1>4, <1>5, <1>6, <1>7 DEF Step

LEMMA SingleFlightStep ==
    ASSUME Typed, SingleFlight, [Next]_vars PROVE SingleFlight'
<1>1. ASSUME NEW p \in Procs, Start(p) \/ Step(p) \/ FailManifest(p) \/ Crash(p)
      PROVE  SingleFlight'
  <2> SUFFICES ASSUME NEW q \in Procs, pc'[q] \in Downloading
               PROVE  lock' = q /\ q \notin Offline
    BY DEF SingleFlight
  <2>1. CASE q = p
    BY <1>1, <2>1, EntersUnderLock DEF SingleFlight
  <2>2. CASE q # p
    <3>1. pc'[q] = pc[q] /\ lock' \in {lock, p, None} /\ (lock' # lock => lock \in {p, None})
      BY <1>1, <2>2, StepIsLocal
    <3>2. lock = q /\ q \notin Offline
      BY <3>1 DEF SingleFlight
    <3>3. q # None
      BY ConstantsAssumption DEF ConstantsAssumption
    <3> QED BY <2>2, <3>1, <3>2, <3>3
  <2> QED BY <2>1, <2>2
<1>2. CASE Environment
  BY <1>2, EnvironmentLeaves DEF SingleFlight
<1>3. CASE Finished \/ UNCHANGED vars
  BY <1>3 DEF Finished, vars, SingleFlight
<1> QED BY <1>1, <1>2, <1>3 DEF Next, Action

\* At most one fetch downloads at a time, and none that is offline does.
THEOREM SingleFlightAlways == Spec => []SingleFlight
<1>1. Init => SingleFlight
  BY DEF Init, SingleFlight, Downloading
<1>2. Typed /\ SingleFlight /\ [Next]_vars => SingleFlight'
  BY SingleFlightStep
<1> QED BY <1>1, <1>2, TypedAlways, PTL DEF Spec

-----------------------------------------------------------------------------
(* The manifest and the blob.                                              *)

\* What the downloading fetch knows of the entry: before its commit, that the
\* manifest it read describes the last blob; after it, that the last blob is
\* the one it is about to describe.  An eviction may have taken either away.
DownloadKnows ==
    \A p \in Procs :
        /\ pc[p] \in {"source", "copy", "touch", "refresh"} /\ ~dirty /\ call[p].prior # None =>
              blob[tip] \in {None, call[p].prior.sha}
        /\ pc[p] = "record" => blob[tip] \in {None, call[p].sha}

\* The inductive invariant behind ManifestDescribesTip.
TipInv == SingleFlight /\ ManifestDescribesTip /\ DownloadKnows

\* While p downloads, no other fetch does.
LEMMA OthersOutside ==
    ASSUME SingleFlight, NEW p \in Procs, pc[p] \in Downloading
    PROVE  \A q \in Procs \ {p} : pc[q] \notin Downloading
BY DEF SingleFlight

\* Steps that leave the store alone: at most they read it.
LEMMA ReadersKeepTip ==
    ASSUME Typed, TipInv, NEW p \in Procs, UNCHANGED store,
           \/ Start(p) \/ LookupBlob(p) \/ ReadMeta(p) \/ StatSource(p) \/ HashSource(p)
           \/ VerifyBlob(p) \/ AcquireLock(p) \/ BeginDownload(p) \/ ContactSource(p)
           \/ FinishCopy(p) \/ TouchBlob(p)
    PROVE  ManifestDescribesTip' /\ DownloadKnows'
<1>1. /\ pc \in [Procs -> Labels] /\ call \in [Procs -> Call]
      /\ \A q \in Procs \ {p} : pc'[q] = pc[q] /\ call'[q] = call[q]
  BY StepIsLocal DEF Step, Typed, TypeOK
<1>2. /\ pc[p] # "record" /\ pc'[p] # "record"
      /\ pc'[p] \in {"source", "copy", "touch", "refresh"} =>
            \/ pc[p] = "prior" /\ call'[p].prior = meta
            \/ /\ pc[p] \in {"source", "copy", "touch", "refresh"}
               /\ call'[p].prior = call[p].prior
  <2> USE DEF Goto
  <2>1. call[p] \in Call
    BY <1>1
  <2>2. CASE Start(p) \/ AcquireLock(p)
    BY <1>1, <2>2 DEF Start, AcquireLock
  <2>3. CASE BeginDownload(p)
    BY <1>1, <2>1, <2>3 DEF BeginDownload, Call
  <2>4. CASE ContactSource(p)
    BY <1>1, <2>1, <2>4 DEF ContactSource, Unchanged, NextSource, Return, Call
  <2>5. CASE FinishCopy(p) \/ VerifyBlob(p)
    BY <1>1, <2>1, <2>5 DEF FinishCopy, VerifyBlob, Serve, Return, Call
  <2>8. CASE TouchBlob(p)
    BY <2>8, TouchMoves, ConstantsAssumption
  <2>6. CASE LookupBlob(p) \/ ReadMeta(p)
    BY <1>1, <2>6 DEF LookupBlob, ReadMeta, NoHit, Accept, Serve, Return
  <2>7. CASE StatSource(p) \/ HashSource(p)
    BY <1>1, <2>7 DEF StatSource, HashSource, SourceMissing, NoHit, Accept, Serve, Return
  <2> QED BY <2>2, <2>3, <2>4, <2>5, <2>6, <2>7, <2>8
<1>3. blob' = blob /\ meta' = meta /\ tip' = tip /\ dirty' = dirty
  BY DEF store
<1>4. Settled' <=> Settled
  BY <1>1, <1>2, <1>3 DEF Settled
<1>5. ManifestDescribesTip'
  BY <1>3, <1>4 DEF TipInv, ManifestDescribesTip
<1>6. pc[p] = "prior" /\ ~dirty => Settled
  BY OthersOutside DEF TipInv, Settled, Downloading
<1>7. ASSUME NEW q \in Procs
      PROVE  /\ pc'[q] \in {"source", "copy", "touch", "refresh"} /\ ~dirty' /\ call'[q].prior # None =>
                  blob'[tip'] \in {None, call'[q].prior.sha}
             /\ pc'[q] = "record" => blob'[tip'] \in {None, call'[q].sha}
  <2>1. CASE q = p
    BY <1>2, <1>3, <1>6, <2>1 DEF TipInv, DownloadKnows, ManifestDescribesTip
  <2>2. CASE q # p
    BY <1>1, <1>3, <2>2 DEF TipInv, DownloadKnows
  <2> QED BY <2>1, <2>2
<1> QED BY <1>5, <1>7 DEF DownloadKnows

\* Steps that write the store: each is the only download under way.
LEMMA WritersKeepTip ==
    ASSUME Typed, TipInv, NEW p \in Procs,
           CommitBlob(p) \/ WriteManifest(p) \/ FailManifest(p) \/ RefreshManifest(p)
    PROVE  ManifestDescribesTip' /\ DownloadKnows'
<1>1. /\ pc \in [Procs -> Labels] /\ call \in [Procs -> Call]
      /\ \A q \in Procs \ {p} : pc'[q] = pc[q] /\ call'[q] = call[q]
  BY StepIsLocal DEF Step, Typed, TypeOK
<1>2. \A q \in Procs \ {p} : pc'[q] \notin Downloading
  BY <1>1, OthersOutside DEF TipInv, Downloading, CommitBlob, WriteManifest, FailManifest, RefreshManifest
<1>3. SUFFICES /\ Settled' /\ meta' # None /\ blob'[tip'] # None => blob'[tip'] = meta'.sha
               /\ pc'[p] \notin {"source", "copy", "touch", "refresh"}
               /\ pc'[p] = "record" => blob'[tip'] \in {None, call'[p].sha}
  BY <1>2 DEF ManifestDescribesTip, DownloadKnows, Downloading
<1>4. call[p] \in Call /\ Ext[call[p].at] \in Exts /\ blob \in [Exts -> Bytes \cup {None}]
  BY <1>1 DEF Call, Exts, Typed, TypeOK
<1> USE DEF Goto
<1>5. CASE CommitBlob(p)
  <2>1. CASE pc'[p] = "record"
    <3>1. blob'[tip'] = call[p].sha
      BY <1>1, <1>4, <1>5, <2>1 DEF CommitBlob, RenameBlob, Return
    <3>2. call'[p] = [call[p] EXCEPT !.path = Ext[call[p].at]]
      BY <1>1, <1>5, <2>1 DEF CommitBlob, Return
    <3>3. call'[p].sha = call[p].sha
      BY <1>4, <3>2 DEF Call
    <3> QED BY <2>1, <3>1, <3>3 DEF Settled
  <2>2. CASE pc'[p] # "record"
    <3>1. pc'[p] = "idle" /\ UNCHANGED <<blob, tip, meta, dirty>>
      BY <1>1, <1>5, <2>2 DEF CommitBlob, Return
    <3>2. Settled' => Settled
      BY <1>1, <1>5, <3>1 DEF Settled, CommitBlob
    <3> QED BY <3>1, <3>2 DEF TipInv, ManifestDescribesTip
  <2> QED BY <2>1, <2>2
<1>6. CASE WriteManifest(p)
  <2>1. pc'[p] = "idle" /\ meta'.sha = call[p].sha /\ blob' = blob /\ tip' = tip
    BY <1>1, <1>6 DEF WriteManifest, Serve
  <2>2. blob[tip] \in {None, call[p].sha}
    BY <1>6 DEF WriteManifest, TipInv, DownloadKnows
  <2> QED BY <2>1, <2>2
<1>7. CASE FailManifest(p)
  <2>1. /\ pc'[p] = "idle" /\ UNCHANGED <<blob, tip, meta>>
        /\ dirty' = (dirty \/ pc[p] = "record")
    BY <1>1, <1>7 DEF FailManifest, Return
  <2>2. Settled' => Settled
    BY <1>1, <2>1 DEF Settled
  <2> QED BY <2>1, <2>2 DEF TipInv, ManifestDescribesTip
<1>8. CASE RefreshManifest(p)
  <2>1. /\ pc[p] = "refresh" /\ pc'[p] = "idle" /\ UNCHANGED <<blob, tip, dirty>>
        /\ meta' = [call[p].prior EXCEPT !.fresh = TRUE]
    BY <1>1, <1>8 DEF RefreshManifest, Serve
  <2>2. meta'.sha = call[p].prior.sha /\ call[p].prior # None
    BY <2>1, RefreshedTyped, ConstantsAssumption DEF ConstantsAssumption
  <2>3. ~dirty => blob[tip] \in {None, call[p].prior.sha}
    BY <2>1, <2>2 DEF TipInv, DownloadKnows
  <2> QED BY <2>1, <2>2, <2>3 DEF Settled
<1> QED BY <1>5, <1>6, <1>7, <1>8

LEMMA CrashKeepsTip ==
    ASSUME Typed, TipInv, NEW p \in Procs, Crash(p)
    PROVE  ManifestDescribesTip' /\ DownloadKnows'
<1>1. /\ pc \in [Procs -> Labels] /\ call \in [Procs -> Call]
      /\ \A q \in Procs \ {p} : pc'[q] = pc[q] /\ call'[q] = call[q]
  BY StepIsLocal DEF Typed, TypeOK
<1>2. pc'[p] = "idle" /\ UNCHANGED <<blob, meta, tip>>
  BY <1>1 DEF Crash, Goto
<1>3. /\ ~dirty' => ~dirty /\ pc[p] # "record"
      /\ Settled' => Settled
  BY <1>1, <1>2 DEF Crash, Settled
<1>4. ManifestDescribesTip'
  BY <1>2, <1>3 DEF TipInv, ManifestDescribesTip
<1>5. DownloadKnows'
  BY <1>1, <1>2, <1>3 DEF TipInv, DownloadKnows
<1> QED BY <1>4, <1>5

LEMMA EnvironmentKeepsTip ==
    ASSUME Typed, TipInv, Environment
    PROVE  ManifestDescribesTip' /\ DownloadKnows'
<1>1. /\ UNCHANGED <<tip, dirty>>
      /\ blob'[tip'] \in {None, blob[tip]}
      /\ meta' = None \/ (meta # None /\ meta' # None => meta'.sha = meta.sha)
  <2>1. ASSUME NEW s \in Sources, ChangeSource(s)
        PROVE  UNCHANGED <<tip, dirty, blob, meta>>
    BY <2>1 DEF ChangeSource, store
  <2>2. ASSUME NEW e \in Exts, EvictBlob(e)
        PROVE  UNCHANGED <<tip, dirty, meta>> /\ blob'[tip'] \in {None, blob[tip]}
    BY <2>2 DEF EvictBlob, Typed, TypeOK
  <2>3. CASE EvictManifest
    BY <2>3 DEF EvictManifest
  <2>4. CASE Expire
    <3>1. meta \in Manifest
      BY <2>4 DEF Expire, Typed, TypeOK, MaybeMeta
    <3>2. [meta EXCEPT !.fresh = FALSE].sha = meta.sha
      BY <3>1 DEF Manifest
    <3> QED BY <2>4, <3>2 DEF Expire
  <2> QED BY <2>1, <2>2, <2>3, <2>4 DEF Environment
<1>0. pc' = pc
  BY EnvironmentLeaves
<1>2. Settled' <=> Settled
  BY <1>0, <1>1 DEF Settled
<1>3. meta' # None => meta # None
  BY DEF Environment, ChangeSource, EvictBlob, EvictManifest, Expire, store
<1>4. ManifestDescribesTip'
  BY <1>1, <1>2, <1>3 DEF TipInv, ManifestDescribesTip
<1>5. ASSUME NEW q \in Procs
      PROVE  /\ pc'[q] \in {"source", "copy", "touch", "refresh"} /\ ~dirty' /\ call'[q].prior # None =>
                  blob'[tip'] \in {None, call'[q].prior.sha}
             /\ pc'[q] = "record" => blob'[tip'] \in {None, call'[q].sha}
  <2>1. /\ pc'[q] = pc[q] /\ call'[q].prior = call[q].prior
        /\ (pc[q] = "record" => call'[q].sha = call[q].sha)
    BY EnvironmentLeaves
  <2>2. dirty' = dirty /\ blob'[tip'] \in {None, blob[tip]}
    BY <1>1
  <2>3. /\ pc[q] \in {"source", "copy", "touch", "refresh"} /\ ~dirty /\ call[q].prior # None =>
              blob[tip] \in {None, call[q].prior.sha}
        /\ pc[q] = "record" => blob[tip] \in {None, call[q].sha}
    BY DEF TipInv, DownloadKnows
  <2> QED BY <2>1, <2>2, <2>3
<1> QED BY <1>4, <1>5 DEF DownloadKnows

\* A settled entry's manifest describes the last committed blob, for any
\* number of fetches, sources, evictions and faults.
THEOREM TipAlways == Spec => []ManifestDescribesTip
<1>1. Init => TipInv
  <2> SUFFICES ASSUME Init PROVE TipInv
    OBVIOUS
  <2>1. meta # None => blob[tip] = meta.sha
    BY DEF Init, Cold, Warm, Exts
  <2> QED BY <2>1 DEF Init, TipInv, SingleFlight, ManifestDescribesTip, DownloadKnows, Downloading
<1>2. Typed /\ TipInv /\ [Next]_vars => TipInv'
  <2> SUFFICES ASSUME Typed, TipInv, [Next]_vars PROVE TipInv'
    OBVIOUS
  <2>1. SingleFlight'
    BY SingleFlightStep DEF TipInv
  <2>2. ASSUME NEW p \in Procs, Start(p) \/ Step(p) \/ FailManifest(p) \/ Crash(p)
        PROVE  ManifestDescribesTip' /\ DownloadKnows'
    <3>1. CASE \/ Start(p) \/ LookupBlob(p) \/ ReadMeta(p) \/ StatSource(p) \/ HashSource(p)
               \/ VerifyBlob(p) \/ AcquireLock(p) \/ BeginDownload(p) \/ ContactSource(p)
               \/ FinishCopy(p) \/ TouchBlob(p)
      <4>1. UNCHANGED store
        BY <3>1 DEF Start, LookupBlob, ReadMeta, StatSource, HashSource, VerifyBlob,
           AcquireLock, BeginDownload, ContactSource, FinishCopy, TouchBlob
      <4> QED BY <3>1, <4>1, ReadersKeepTip
    <3>2. CASE CommitBlob(p) \/ WriteManifest(p) \/ FailManifest(p) \/ RefreshManifest(p)
      BY <3>2, WritersKeepTip
    <3>3. CASE Crash(p)
      BY <3>3, CrashKeepsTip
    <3> QED BY <2>2, <3>1, <3>2, <3>3 DEF Step
  <2>3. ASSUME Environment PROVE ManifestDescribesTip' /\ DownloadKnows'
    BY <2>3, EnvironmentKeepsTip
  <2>4. ASSUME Finished \/ UNCHANGED vars PROVE ManifestDescribesTip' /\ DownloadKnows'
    BY <2>4 DEF Finished, vars, store, TipInv, ManifestDescribesTip, DownloadKnows, Settled
  <2> QED BY <2>1, <2>2, <2>3, <2>4 DEF Next, Action, TipInv
<1>3. TipInv => ManifestDescribesTip
  BY DEF TipInv
<1> QED BY <1>1, <1>2, <1>3, TypedAlways, PTL DEF Spec

-----------------------------------------------------------------------------
(***************************************************************************)
(* FetchCache implements CacheEntry: every step of a fetch is a step of    *)
(* the one-value entry, or changes nothing of it.                          *)
(***************************************************************************)

\* A fetch under way has no outcome yet, and one whose entry is being judged
\* holds the manifest it judges.
CallOK ==
    \A p \in Procs :
        /\ pc[p] # "idle" => call[p].out = "none"
        /\ pc[p] \in {"stat", "hash", "verify"} => call[p].man # None

Busy == {p \in Procs : pc[p] # "idle"}
Viewed == [p \in Procs |-> call[p].man]
Got == [p \in Procs |-> IF call[p].out \in Answered THEN call[p].man ELSE None]

-----------------------------------------------------------------------------
\* How the abstract variables move when only p's locals do.
LEMMA MapMoves ==
    ASSUME Typed, NEW p \in Procs, LocalsOK(p)
    PROVE  /\ Viewed' = [Viewed EXCEPT ![p] = call'[p].man]
           /\ Got' = [Got EXCEPT ![p] = IF call'[p].out \in Answered THEN call'[p].man ELSE None]
           /\ pc'[p] = "idle" => Busy' = Busy \ {p}
           /\ pc'[p] # "idle" => Busy' = Busy \cup {p}
<1>1. /\ pc' \in [Procs -> Labels] /\ call' \in [Procs -> Call]
      /\ \A q \in Procs \ {p} : pc'[q] = pc[q] /\ call'[q] = call[q]
  BY DEF LocalsOK
<1>2. Viewed' = [Viewed EXCEPT ![p] = call'[p].man]
  BY <1>1 DEF Viewed
<1>3. Got' = [Got EXCEPT ![p] = IF call'[p].out \in Answered THEN call'[p].man ELSE None]
  BY <1>1 DEF Got
<1>4. pc'[p] = "idle" => Busy' = Busy \ {p}
  BY <1>1 DEF Busy
<1>5. pc'[p] # "idle" => Busy' = Busy \cup {p}
  BY <1>1 DEF Busy
<1> QED BY <1>2, <1>3, <1>4, <1>5

\* A step of a running fetch that keeps its view and stays under way stutters.
LEMMA MapStutter ==
    ASSUME Typed, CallOK, NEW p \in Procs, pc[p] # "idle", LocalsOK(p),
           call'[p].man = call[p].man, call'[p].out = "none", pc'[p] # "idle",
           UNCHANGED <<lock, meta>>
    PROVE  UNCHANGED <<meta, lock, Busy, Viewed, Got>>
<1>1. Viewed' = Viewed
  BY MapMoves DEF Viewed
<1>2. Got' = Got
  BY MapMoves DEF Got, CallOK, Answered
<1>3. Busy' = Busy
  BY MapMoves DEF Busy
<1> QED BY <1>1, <1>2, <1>3

\* A return without an answer is a failure.
LEMMA MapReturn ==
    ASSUME Typed, CallOK, NEW p \in Procs, pc[p] # "idle",
           NEW out \in Outcomes \ Answered, Return(p, out), UNCHANGED meta
    PROVE  Entry!Fail(p)
<1>1. LocalsOK(p) /\ pc'[p] = "idle"
  BY ReturnTyped
<1>2. call'[p].out = out /\ call'[p].man = call[p].man
  BY DEF Return, Typed, TypeOK, Call
<1>3. Viewed' = Viewed
  BY <1>1, <1>2, MapMoves DEF Viewed
<1>4. Got' = Got
  BY <1>1, <1>2, MapMoves DEF Got, CallOK, Answered
<1>5. Busy' = Busy \ {p} /\ p \in Busy
  BY <1>1, MapMoves DEF Busy
<1>6. lock' = IF lock = p THEN None ELSE lock
  BY DEF Return
<1> QED BY <1>3, <1>4, <1>5, <1>6 DEF Entry!Fail, Entry!Leave, Viewed, Got, Busy, Answered

\* A hit answers with the view or with the entry itself.
LEMMA MapHit ==
    ASSUME Typed, CallOK, NEW p \in Procs, pc[p] # "idle", NEW e \in Exts,
           NEW m \in {call[p].man, meta} \ {None}, Serve(p, "hit", e, m), UNCHANGED meta
    PROVE  Entry!Answer(p)
<1>1. m \in MaybeMeta
  BY DEF Typed, TypeOK, Call
<1>2. LocalsOK(p) /\ pc'[p] = "idle"
  BY <1>1, ServeTyped DEF Outcomes
<1>3. call'[p].out = "hit" /\ call'[p].man = m
  BY DEF Serve, Typed, TypeOK, Call
<1>4. Viewed' = [Viewed EXCEPT ![p] = m] /\ Got' = [Got EXCEPT ![p] = m]
  BY <1>2, <1>3, MapMoves DEF Answered
<1>5. Busy' = Busy \ {p} /\ p \in Busy
  BY <1>2, MapMoves DEF Busy
<1>6. lock' = IF lock = p THEN None ELSE lock
  BY DEF Serve
<1>7. m \in {Viewed[p], meta} \ {None}
  BY DEF Viewed
<1> QED BY <1>4, <1>5, <1>6, <1>7 DEF Entry!Answer, Entry!Leave, Viewed, Got, Busy, Answered

\* An answer the fetch stores itself is a fill.
LEMMA MapFill ==
    ASSUME Typed, SingleFlight, NEW p \in Procs, pc[p] \in Downloading, NEW e \in Exts,
           NEW m \in Manifest, NEW out \in {"downloaded", "notmodified"},
           Serve(p, out, e, m), meta' = m
    PROVE  Entry!Fill(p)
<1>1. LocalsOK(p) /\ pc'[p] = "idle"
  BY ServeTyped DEF Outcomes, MaybeMeta
<1>2. call'[p].out = out /\ call'[p].man = m
  BY DEF Serve, Typed, TypeOK, Call
<1>3. Viewed' = [Viewed EXCEPT ![p] = m] /\ Got' = [Got EXCEPT ![p] = m]
  BY <1>1, <1>2, MapMoves DEF Answered
<1>4. Busy' = Busy \ {p} /\ p \in Busy
  BY <1>1, MapMoves DEF Busy, Downloading
<1>5. lock = p /\ lock' = IF lock = p THEN None ELSE lock
  BY DEF Serve, SingleFlight
<1> QED BY <1>3, <1>4, <1>5 DEF Entry!Fill, Entry!Leave, Viewed, Got, Busy, Answered

-----------------------------------------------------------------------------
\* A step of the entry, or none.
EntryStep == Entry!Next \/ UNCHANGED <<meta, lock, Busy, Viewed, Got>>

LEMMA MapNoHit ==
    ASSUME Typed, CallOK, NEW p \in Procs, pc[p] # "idle", NoHit(p), UNCHANGED meta
    PROVE  EntryStep
<1>1. CASE p \in Offline
  BY <1>1, MapReturn DEF NoHit, EntryStep, Entry!Next, Outcomes, Answered
<1>2. CASE p \notin Offline
  <2>1. LocalsOK(p) /\ pc'[p] \in {"prior", "wait"} /\ UNCHANGED <<lock, call>>
    BY <1>2, NoHitTyped DEF NoHit, Goto, Typed, TypeOK
  <2> QED BY <2>1, MapStutter DEF EntryStep, CallOK
<1> QED BY <1>1, <1>2

LEMMA MapAccept ==
    ASSUME Typed, CallOK, NEW p \in Procs, pc[p] # "idle",
           NEW m \in {call[p].man, meta} \ {None}, Accept(p, m), UNCHANGED meta
    PROVE  EntryStep
<1>1. m \in MaybeMeta /\ call[p].path \in Exts
  BY DEF Typed, TypeOK, Call
<1>2. CASE VerifyOnRead
  <2>1. LocalsOK(p)
    BY <1>1, AcceptTyped
  <2>2. /\ pc'[p] = "verify" /\ lock' = lock
        /\ call'[p].man = m /\ call'[p].out = "none"
    BY <1>2 DEF Accept, Goto, CallOK, Typed, TypeOK, Call
  <2>3. CASE m = call[p].man
    BY <2>1, <2>2, <2>3, MapStutter DEF EntryStep
  <2>4. CASE m = meta
    <3>1. Viewed' = [Viewed EXCEPT ![p] = meta]
      BY <2>1, <2>2, <2>4, MapMoves
    <3>2. Got' = Got
      BY <2>1, <2>2, MapMoves DEF Got, CallOK, Answered
    <3>3. Busy' = Busy /\ p \in Busy
      BY <2>1, <2>2, MapMoves DEF Busy
    <3>4. Entry!Look(p)
      BY <2>2, <3>1, <3>2, <3>3 DEF Entry!Look, Viewed, Got, Busy, Answered
    <3> QED BY <3>4 DEF EntryStep, Entry!Next
  <2> QED BY <2>3, <2>4
<1>3. CASE ~VerifyOnRead
  BY <1>1, <1>3, MapHit DEF Accept, EntryStep, Entry!Next
<1> QED BY <1>2, <1>3

\* The hit check.
LEMMA CheckMaps ==
    ASSUME Typed, CallOK, NEW p \in Procs,
           \/ LookupBlob(p) \/ ReadMeta(p) \/ StatSource(p) \/ HashSource(p)
           \/ VerifyBlob(p) \/ AcquireLock(p)
    PROVE  EntryStep
<1>0. call[p] \in Call /\ call[p].path \in Exts /\ pc \in [Procs -> Labels] /\ call \in [Procs -> Call]
  BY DEF Typed, TypeOK, Call
<1>1. CASE LookupBlob(p)
  <2>1. CASE NoHit(p)
    BY <1>1, <2>1, MapNoHit DEF LookupBlob, store
  <2>2. CASE ~NoHit(p)
    <3>1. PICK e : call' = [call EXCEPT ![p].path = e] /\ Goto(p, "meta") /\ UNCHANGED <<lock, meta>>
      BY <1>1, <2>2 DEF LookupBlob, store
    <3>2. call'[p] = [call[p] EXCEPT !.path = e] /\ pc'[p] = "meta" /\ pc[p] = "lookup"
      BY <1>0, <1>1, <3>1 DEF LookupBlob, Goto
    <3>3. call'[p].man = call[p].man /\ call'[p].out = "none"
      BY <1>0, <3>2 DEF CallOK, Call
    <3>4. \A q \in Procs : call'[q].man = call[q].man /\ call'[q].out = call[q].out
      BY <1>0, <3>1, <3>2, <3>3 DEF CallOK
    <3>5. UNCHANGED <<Viewed, Got, Busy>>
      BY <1>0, <3>1, <3>2, <3>4 DEF Viewed, Got, Busy, Goto
    <3> QED BY <3>1, <3>5 DEF EntryStep
  <2> QED BY <2>1, <2>2
<1>2. CASE ReadMeta(p)
  <2>1. CASE NoHit(p)
    BY <1>2, <2>1, MapNoHit DEF ReadMeta, store
  <2>2. CASE meta # None /\ Accept(p, meta)
    BY <1>2, <2>2, MapAccept DEF ReadMeta, store
  <2>3. CASE /\ meta # None /\ Goto(p, "stat")
             /\ call' = [call EXCEPT ![p].man = meta] /\ UNCHANGED lock
    <3>1. /\ pc'[p] = "stat" /\ lock' = lock /\ meta' = meta
          /\ call'[p].man = meta /\ call'[p].out = "none" /\ p \in Busy
      BY <1>0, <1>2, <2>3 DEF ReadMeta, store, Goto, CallOK, Call, Busy
    <3>2. \A q \in Procs \ {p} : pc'[q] = pc[q] /\ call'[q] = call[q]
      BY <1>0, <2>3 DEF Goto
    <3>3. Viewed' = [Viewed EXCEPT ![p] = meta] /\ Busy' = Busy
      BY <1>0, <2>3, <3>1, <3>2 DEF Viewed, Busy, Goto
    <3>4. Got' = Got
      BY <1>0, <2>3, <3>1, <3>2 DEF Got, CallOK, Answered, Busy
    <3>5. Entry!Look(p)
      BY <3>1, <3>3, <3>4 DEF Entry!Look, Viewed, Got, Busy, Answered
    <3> QED BY <3>5 DEF EntryStep, Entry!Next
  <2> QED BY <1>2, <2>1, <2>2, <2>3 DEF ReadMeta
<1>3. CASE StatSource(p) \/ HashSource(p)
  <2>1. call[p].man # None /\ pc[p] \in {"stat", "hash"} /\ UNCHANGED meta
    BY <1>3 DEF StatSource, HashSource, CallOK, store
  <2>2. CASE NoHit(p)
    BY <2>1, <2>2, MapNoHit
  <2>3. CASE Accept(p, call[p].man)
    BY <2>1, <2>3, MapAccept
  <2>4. CASE Goto(p, "hash") /\ UNCHANGED <<lock, call>>
    BY <1>0, <2>1, <2>4 DEF EntryStep, Viewed, Got, Busy, Goto
  <2> QED BY <1>3, <2>2, <2>3, <2>4 DEF StatSource, HashSource, SourceMissing
<1>4. CASE VerifyBlob(p)
  <2>1. call[p].man # None /\ pc[p] = "verify" /\ UNCHANGED meta
    BY <1>4 DEF VerifyBlob, CallOK, store
  <2> QED BY <1>0, <1>4, <2>1, MapReturn, MapHit
          DEF VerifyBlob, EntryStep, Entry!Next, Outcomes, Answered
<1>5. CASE AcquireLock(p)
  <2>1. /\ lock = None /\ lock' = p /\ p \in Busy
        /\ UNCHANGED <<meta, Viewed, Got, Busy>>
    BY <1>0, <1>5 DEF AcquireLock, store, Viewed, Got, Busy, Goto
  <2>2. Entry!Enter(p)
    BY <2>1 DEF Entry!Enter, Viewed, Got, Busy, Answered
  <2> QED BY <2>2 DEF EntryStep, Entry!Next
<1> QED BY <1>1, <1>2, <1>3, <1>4, <1>5

\* The download and the commit.
LEMMA DownloadMaps ==
    ASSUME ConstantsAssumption, Typed, CallOK, SingleFlight, NEW p \in Procs,
           \/ BeginDownload(p) \/ ContactSource(p) \/ FinishCopy(p) \/ CommitBlob(p)
           \/ WriteManifest(p) \/ FailManifest(p) \/ TouchBlob(p) \/ RefreshManifest(p)
    PROVE  EntryStep
<1>0. /\ call[p] \in Call /\ pc \in [Procs -> Labels] /\ call \in [Procs -> Call]
      /\ pc[p] \in Downloading /\ pc[p] # "idle" /\ call[p].out = "none"
  BY DEF Typed, TypeOK, Downloading, CallOK, BeginDownload, ContactSource, FinishCopy,
         CommitBlob, WriteManifest, FailManifest, TouchBlob, RefreshManifest
<1>1. ASSUME UNCHANGED <<lock, meta>>, \A q \in Procs \ {p} : pc'[q] = pc[q] /\ call'[q] = call[q],
             pc' \in [Procs -> Labels], pc'[p] # "idle",
             call'[p].man = call[p].man, call'[p].out = "none"
      PROVE  EntryStep
  BY <1>0, <1>1 DEF EntryStep, Viewed, Got, Busy
<1>2. ASSUME NEW out \in Outcomes \ Answered, Return(p, out), UNCHANGED meta PROVE EntryStep
  BY <1>0, <1>2, MapReturn DEF EntryStep, Entry!Next
<1> USE DEF Goto
<1>3. CASE BeginDownload(p)
  <2>1. call'[p] = [call[p] EXCEPT !.prior = meta, !.at = 1, !.absent = TRUE]
    BY <1>0, <1>3 DEF BeginDownload
  <2>2. call'[p].man = call[p].man /\ call'[p].out = "none"
    BY <1>0, <2>1 DEF Call
  <2> QED BY <1>0, <1>1, <1>3, <2>2 DEF BeginDownload, store, Labels
<1>4. CASE ContactSource(p)
  <2>1. CASE \E out \in {"absent", "failed"} : Return(p, out)
    BY <1>2, <1>4, <2>1 DEF ContactSource, store, Outcomes, Answered
  <2>2. CASE ~ \E out \in {"absent", "failed"} : Return(p, out)
    <3>1. \E new : /\ call' = [call EXCEPT ![p] = new]
                   /\ new.man = call[p].man /\ new.out = "none"
                   /\ pc' \in [Procs -> Labels] /\ pc'[p] # "idle" /\ UNCHANGED lock
                   /\ \A q \in Procs \ {p} : pc'[q] = pc[q]
      <4>1. ASSUME NEW b \in BOOLEAN, NextSource(p, b)
            PROVE  call' = [call EXCEPT ![p] = [call[p] EXCEPT !.at = @ + 1, !.absent = call[p].absent /\ b]]
                   /\ UNCHANGED <<pc, lock>>
        BY <2>2, <4>1 DEF NextSource
      <4>2. \A b : LET new == [call[p] EXCEPT !.at = @ + 1, !.absent = b]
                   IN  new.man = call[p].man /\ new.out = "none"
        BY <1>0 DEF Call
      <4>3. \A c, t : LET new == [call[p] EXCEPT !.sha = c, !.tag = t]
                      IN  new.man = call[p].man /\ new.out = "none"
        BY <1>0 DEF Call
      <4>4. CASE \E b \in BOOLEAN : NextSource(p, b)
        BY <1>0, <4>1, <4>2, <4>4
      <4>5. CASE \E c, t : \E l \in {"copy", "commit"} :
                    call' = [call EXCEPT ![p].sha = c, ![p].tag = t] /\ Goto(p, l) /\ UNCHANGED lock
        <5>1. PICK c, t : \E l \in {"copy", "commit"} :
                    call' = [call EXCEPT ![p].sha = c, ![p].tag = t] /\ Goto(p, l) /\ UNCHANGED lock
          BY <4>5
        <5>2. call' = [call EXCEPT ![p] = [call[p] EXCEPT !.sha = c, !.tag = t]]
          BY <5>1
        <5> DEFINE new == [call[p] EXCEPT !.sha = c, !.tag = t]
        <5>3. new.man = call[p].man /\ new.out = "none"
          BY <4>3
        <5>4. call' = [call EXCEPT ![p] = new]
          BY <5>2
        <5>5. /\ pc' \in [Procs -> Labels] /\ pc'[p] # "idle" /\ UNCHANGED lock
              /\ \A q \in Procs \ {p} : pc'[q] = pc[q]
          BY <1>0, <5>1 DEF Labels
        <5> HIDE DEF new
        <5> QED BY <5>3, <5>4, <5>5
      <4>6. CASE Goto(p, "touch") /\ UNCHANGED <<lock, call>>
        <5>1. call' = [call EXCEPT ![p] = call[p]]
          BY <1>0, <4>6
        <5> QED BY <1>0, <4>6, <5>1 DEF Labels
      <4> QED BY <1>4, <4>4, <4>5, <4>6 DEF ContactSource, Unchanged
    <3> QED BY <1>0, <1>1, <1>4, <3>1 DEF ContactSource, store
  <2> QED BY <2>1, <2>2
<1>5. CASE FinishCopy(p)
  BY <1>0, <1>1, <1>5 DEF FinishCopy, store, Labels
<1>6. CASE CommitBlob(p)
  <2>1. CASE Return(p, "integrity")
    BY <1>2, <1>6, <2>1 DEF CommitBlob, Outcomes, Answered
  <2>2. CASE ~Return(p, "integrity")
    <3>1. call'[p] = [call[p] EXCEPT !.path = Ext[call[p].at]]
      BY <1>0, <1>6, <2>2 DEF CommitBlob
    <3>2. call'[p].man = call[p].man /\ call'[p].out = "none"
      BY <1>0, <3>1 DEF Call
    <3> QED BY <1>0, <1>1, <1>6, <2>2, <3>2 DEF CommitBlob, Labels
  <2> QED BY <2>1, <2>2
<1>7. CASE WriteManifest(p)
  <2> DEFINE man == [sha |-> call[p].sha, tag |-> call[p].tag, fresh |-> TRUE]
  <2>1. call[p].sha \in Bytes
    BY <1>7 DEF Typed, PhaseOK, WriteManifest
  <2>2. man \in Manifest /\ call[p].path \in Exts
    BY <1>0, <2>1 DEF Call, Manifest
  <2>3. Entry!Fill(p)
    BY <1>0, <1>7, <2>2, MapFill DEF WriteManifest
  <2> QED BY <2>3 DEF EntryStep, Entry!Next
<1>8. CASE FailManifest(p)
  BY <1>2, <1>8 DEF FailManifest, Outcomes, Answered
<1>9. CASE TouchBlob(p)
  <2>1. /\ LocalsOK(p) /\ UNCHANGED meta
        /\ \/ pc'[p] # "idle" /\ UNCHANGED lock
           \/ Return(p, "stale304")
        /\ pc'[p] # "idle" => call'[p].man = call[p].man /\ call'[p].out = call[p].out
    BY <1>9, TouchMoves
  <2>2. CASE Return(p, "stale304")
    BY <1>2, <2>1, <2>2 DEF Outcomes, Answered
  <2>3. CASE pc'[p] # "idle" /\ UNCHANGED lock
    BY <1>0, <2>1, <2>3, MapStutter DEF EntryStep
  <2> QED BY <2>1, <2>2, <2>3
<1>10. CASE RefreshManifest(p)
  <2> DEFINE man == [call[p].prior EXCEPT !.fresh = TRUE]
  <2>1. Serve(p, "notmodified", call[p].path, man) /\ meta' = man
    BY <1>10 DEF RefreshManifest
  <2>2. man \in Manifest /\ call[p].path \in Exts
    BY <1>0, <1>10, RefreshedTyped DEF RefreshManifest, Call
  <2> HIDE DEF man
  <2>3. Entry!Fill(p)
    BY <1>0, <2>1, <2>2, MapFill
  <2> QED BY <2>3 DEF EntryStep, Entry!Next
<1> QED BY <1>3, <1>4, <1>5, <1>6, <1>7, <1>8, <1>9, <1>10

\* A new call, and a call that ends in a crash.
LEMMA StartCrashMap ==
    ASSUME ConstantsAssumption, Typed, CallOK, NEW p \in Procs, Start(p) \/ Crash(p)
    PROVE  EntryStep
<1>0. call[p] \in Call /\ pc \in [Procs -> Labels] /\ call \in [Procs -> Call]
  BY DEF Typed, TypeOK
<1>1. CASE Start(p)
  <2>1. /\ call'[p].man = None /\ call'[p].out = "none" /\ pc'[p] # "idle" /\ p \notin Busy
        /\ \A q \in Procs \ {p} : pc'[q] = pc[q] /\ call'[q] = call[q]
        /\ UNCHANGED <<meta, lock>>
    BY <1>0, <1>1 DEF Start, NoCall, Goto, Busy, store
  <2>2. Busy' = Busy \cup {p}
    BY <1>0, <1>1, <2>1 DEF Busy, Start, Goto
  <2>3. Viewed' = [Viewed EXCEPT ![p] = None]
    BY <1>0, <1>1, <2>1 DEF Viewed, Start
  <2>4. Got' = [Got EXCEPT ![p] = None]
    BY <1>0, <1>1, <2>1 DEF Got, Start, Answered
  <2>5. Entry!Ask(p)
    BY <2>1, <2>2, <2>3, <2>4 DEF Entry!Ask, Viewed, Got, Busy, Answered
  <2> QED BY <2>5 DEF EntryStep, Entry!Next
<1>2. CASE Crash(p)
  <2>1. /\ call'[p].man = None /\ call'[p].out = "crashed" /\ pc'[p] = "idle" /\ p \in Busy
        /\ \A q \in Procs \ {p} : pc'[q] = pc[q] /\ call'[q] = call[q]
        /\ meta' = meta /\ lock' = (IF lock = p THEN None ELSE lock)
    BY <1>0, <1>2 DEF Crash, NoCall, Goto, Busy
  <2>2. Busy' = Busy \ {p}
    BY <1>0, <1>2, <2>1 DEF Busy, Crash, Goto
  <2>3. Viewed' = [Viewed EXCEPT ![p] = None]
    <3>1. \A q \in Procs : call'[q].man = IF q = p THEN None ELSE call[q].man
      BY <2>1
    <3> QED BY <3>1 DEF Viewed
  <2>4. Got' = Got
    <3>1. call[p].out = "none"
      BY <1>2 DEF CallOK, Crash
    <3>2. \A q \in Procs : (IF call'[q].out \in Answered THEN call'[q].man ELSE None)
                          = (IF call[q].out \in Answered THEN call[q].man ELSE None)
      BY <2>1, <3>1 DEF Answered
    <3> QED BY <3>2 DEF Got
  <2>5. Entry!Fail(p)
    BY <2>1, <2>2, <2>3, <2>4 DEF Entry!Fail, Entry!Leave, Viewed, Got, Busy, Answered
  <2> QED BY <2>5 DEF EntryStep, Entry!Next
<1> QED BY <1>1, <1>2

LEMMA EnvironmentMaps ==
    ASSUME Typed, Environment PROVE EntryStep
<1>1. /\ UNCHANGED <<lock, pc>>
      /\ \A q \in Procs : call'[q].man = call[q].man /\ call'[q].out = call[q].out
  BY EnvironmentLeaves
<1>2. UNCHANGED <<lock, Viewed, Got, Busy>>
  BY <1>1 DEF Viewed, Got, Busy
<1>3. CASE meta' = meta
  BY <1>2, <1>3 DEF EntryStep
<1>4. CASE EvictManifest
  <2>1. Entry!Lose
    BY <1>2, <1>4 DEF EvictManifest, Entry!Lose, Viewed, Got, Busy, Answered
  <2> QED BY <2>1 DEF EntryStep, Entry!Next
<1>5. CASE Expire
  <2>1. Entry!Age
    BY <1>2, <1>5 DEF Expire, Entry!Age, Viewed, Got, Busy, Answered
  <2> QED BY <2>1 DEF EntryStep, Entry!Next
<1> QED BY <1>3, <1>4, <1>5 DEF Environment, ChangeSource, EvictBlob, store

\* CallOK is inductive.
LEMMA CallOKStep ==
    ASSUME ConstantsAssumption, Typed, CallOK, [Next]_vars PROVE CallOK'
<1>1. ASSUME NEW p \in Procs, Start(p) \/ Step(p) \/ FailManifest(p) \/ Crash(p)
      PROVE  CallOK'
  <2>0. /\ call[p] \in Call /\ pc \in [Procs -> Labels] /\ call \in [Procs -> Call]
        /\ \A q \in Procs \ {p} : pc'[q] = pc[q] /\ call'[q] = call[q]
    BY <1>1, StepIsLocal DEF Typed, TypeOK
  <2>1. SUFFICES /\ pc'[p] # "idle" => call'[p].out = "none"
                 /\ pc'[p] \in {"stat", "hash", "verify"} => call'[p].man # None
    BY <2>0 DEF CallOK
  <2> USE DEF Goto
  <2>2. CASE Start(p) \/ Crash(p) \/ AcquireLock(p)
    BY <2>0, <2>2 DEF Start, Crash, AcquireLock, NoCall, CallOK
  <2>3. CASE WriteManifest(p) \/ FailManifest(p) \/ VerifyBlob(p)
    BY <2>0, <2>3 DEF WriteManifest, FailManifest, VerifyBlob, Serve, Return
  <2>4. CASE BeginDownload(p) \/ FinishCopy(p)
    BY <2>0, <2>4 DEF BeginDownload, FinishCopy, CallOK, Call
  <2>8. CASE CommitBlob(p)
    BY <2>0, <2>8 DEF CommitBlob, Return, CallOK, Call
  <2>9. CASE TouchBlob(p)
    BY <2>9, TouchMoves DEF CallOK
  <2>10. CASE RefreshManifest(p)
    BY <2>0, <2>10 DEF RefreshManifest, Serve
  <2>5. CASE ContactSource(p)
    BY <2>0, <2>5 DEF ContactSource, Unchanged, NextSource, Return, CallOK, Call
  <2>6. CASE LookupBlob(p) \/ ReadMeta(p)
    BY <2>0, <2>6 DEF LookupBlob, ReadMeta, NoHit, Accept, Serve, Return, CallOK, Call
  <2>7. CASE StatSource(p) \/ HashSource(p)
    BY <2>0, <2>7 DEF StatSource, HashSource, SourceMissing, NoHit, Accept, Serve, Return,
                      CallOK, Call
  <2> QED BY <1>1, <2>2, <2>3, <2>4, <2>5, <2>6, <2>7, <2>8, <2>9, <2>10 DEF Step
<1>2. CASE Environment
  BY <1>2, EnvironmentLeaves DEF CallOK
<1>3. CASE Finished \/ UNCHANGED vars
  BY <1>3 DEF Finished, vars, CallOK
<1> QED BY <1>1, <1>2, <1>3 DEF Next, Action

\* The cache implements the one-value entry: each fetch is answered from one
\* atomic manifest or stores its own answer as the entry's only filler.
THEOREM FetchCacheImplementsEntry == Spec => EntryKept
<1>1. Init => CallOK /\ SingleFlight
  BY DEF Init, CallOK, SingleFlight, Downloading
<1>2. Init => Entry!Init
  <2> SUFFICES ASSUME Init PROVE Entry!Init
    OBVIOUS
  <2>1. Typed
    BY TypedAtFirst
  <2> QED BY <2>1 DEF Init, Entry!Init, NoCall, Answered, Typed, TypeOK, MaybeMeta
<1>3. Typed /\ CallOK /\ [Next]_vars => CallOK'
  BY ConstantsAssumption, CallOKStep
<1>4. Typed /\ CallOK /\ SingleFlight /\ [Next]_vars => [Entry!Next]_(Entry!vars)
  <2> SUFFICES ASSUME Typed, CallOK, SingleFlight, [Next]_vars PROVE EntryStep
    BY DEF EntryStep, Entry!vars, Busy, Viewed, Got, Answered
  <2> USE ConstantsAssumption
  <2>1. ASSUME NEW p \in Procs, Start(p) \/ Step(p) \/ FailManifest(p) \/ Crash(p)
        PROVE  EntryStep
    BY <2>1, StartCrashMap, CheckMaps, DownloadMaps DEF Step
  <2>2. CASE Environment
    BY <2>2, EnvironmentMaps
  <2>3. CASE Finished \/ UNCHANGED vars
    BY <2>3 DEF Finished, vars, store, EntryStep, Busy, Viewed, Got
  <2> QED BY <2>1, <2>2, <2>3 DEF Next, Action
<1> QED BY <1>1, <1>2, <1>3, <1>4, TypedAlways, SingleFlightAlways, PTL
        DEF Spec, EntryKept, Entry!Spec

-----------------------------------------------------------------------------
(***************************************************************************)
(* What a fetch of FetchCache is answered with: that a hit on a local      *)
(* source is fresh, when the manifest describes the file a lookup finds,   *)
(* what a failure means, that a declared checksum is kept, and that every  *)
(* download has a cause.                                                   *)
(***************************************************************************)

Rechecked(p) == Recheck /\ 1 \in FileSources /\ p \notin Offline

\* What justifies a hit: the source matched during the fetch, or could not say.
Evidence(p) ==
    \/ call[p].man.sha \in witness[p].seen
    \/ "down" \in witness[p].seen
    \/ NumSources > 1 /\ "missing" \in witness[p].seen

\* A running fetch has seen the source as it is, and past rung 0 it holds the
\* evidence for the answer it is about to give.
FreshInv ==
    \A p \in Procs :
        /\ pc[p] # "idle" => View \in witness[p].seen
        /\ Rechecked(p) /\ (pc[p] = "verify" \/ call[p].out = "hit") => Evidence(p)

-----------------------------------------------------------------------------
\* How the observer moves.
LEMMA ObserveMoves ==
    ASSUME Observe, NEW p \in Procs
    PROVE  /\ pc'[p] # "idle" => View' \in witness'[p].seen
           /\ pc[p] # "idle" => witness[p].seen \subseteq witness'[p].seen
           /\ pc[p] = "idle" /\ pc'[p] = "idle" => witness'[p] = witness[p]
BY DEF Observe, Moment

\* Rung 0 accepts only on evidence.
LEMMA RungZeroEvidence ==
    ASSUME Typed, CallOK, FreshInv, NEW p \in Procs, StatSource(p) \/ HashSource(p),
           pc'[p] = "verify" \/ call'[p].out = "hit"
    PROVE  /\ call'[p].man = call[p].man
           /\ \/ call[p].man.sha \in witness[p].seen
              \/ "down" \in witness[p].seen
              \/ NumSources > 1 /\ "missing" \in witness[p].seen
<1>0. /\ call[p] \in Call /\ pc \in [Procs -> Labels] /\ call \in [Procs -> Call]
      /\ call[p].out = "none" /\ pc[p] \in {"stat", "hash"}
      /\ src[1].state \in States /\ View \in witness[p].seen
      /\ NumSources \in Nat \ {0}
  <2>1. src[1] \in [state : States, content : Content]
    <3>1. 1 \in Sources
      BY ConstantsAssumption DEF Sources, ConstantsAssumption
    <3>2. src \in [Sources -> [state : States, content : Content]]
      BY DEF Typed, TypeOK
    <3> QED BY <3>1, <3>2
  <2>2. pc[p] \in {"stat", "hash"}
    BY DEF StatSource, HashSource
  <2>3. call[p].out = "none" /\ View \in witness[p].seen
    BY <2>2 DEF CallOK, FreshInv
  <2> QED BY <2>1, <2>2, <2>3, ConstantsAssumption DEF Typed, TypeOK, ConstantsAssumption
<1>1. ~NoHit(p)
  <2>1. CASE Return(p, "cachemiss")
    BY <1>0, <2>1 DEF Return, Goto, Call
  <2>2. CASE Goto(p, IF lock = p THEN "prior" ELSE "wait") /\ UNCHANGED <<lock, call>>
    BY <1>0, <2>2 DEF Goto
  <2> QED BY <2>1, <2>2 DEF NoHit
<1>2. ~(Goto(p, "hash") /\ UNCHANGED <<lock, call>>)
  BY <1>0 DEF Goto
<1>3. Accept(p, call[p].man)
  BY <1>1, <1>2 DEF StatSource, HashSource, SourceMissing
<1>4. call'[p].man = call[p].man
  BY <1>0, <1>3 DEF Accept, Serve, Call
<1>5. \/ src[1].state = "missing" /\ NumSources # 1
      \/ src[1].state = "down"
      \/ src[1].state = "ok" /\ src[1].content = call[p].man.sha
  BY <1>0, <1>1, <1>2 DEF StatSource, HashSource, SourceMissing, States
<1> QED BY <1>0, <1>4, <1>5 DEF View

\* The evidence outlives every step.
LEMMA FreshInvStep ==
    ASSUME Typed, CallOK, FreshInv, Next PROVE FreshInv'
<1>1. SUFFICES ASSUME NEW p \in Procs, Rechecked(p),
                      pc'[p] = "verify" \/ call'[p].out = "hit"
               PROVE  Evidence(p)'
  BY ObserveMoves DEF Next, FreshInv, Rechecked
<1>2. /\ pc[p] # "idle" => witness[p].seen \subseteq witness'[p].seen
      /\ pc[p] = "idle" /\ pc'[p] = "idle" => witness'[p] = witness[p]
  BY ObserveMoves DEF Next
<1>3. ASSUME pc'[p] = pc[p], call'[p].man = call[p].man, call'[p].out = call[p].out
      PROVE  Evidence(p)'
  BY <1>1, <1>2, <1>3 DEF FreshInv, Evidence
<1>4. ASSUME NEW q \in Procs, Start(q) \/ Step(q) \/ FailManifest(q) \/ Crash(q)
      PROVE  Evidence(p)'
  <2>1. CASE q # p
    BY <1>3, <1>4, <2>1, StepIsLocal
  <2>2. CASE q = p
    <3>0. /\ call[p] \in Call /\ pc \in [Procs -> Labels] /\ call \in [Procs -> Call]
      BY DEF Typed, TypeOK
    <3> USE DEF Goto
    <3>1. CASE StatSource(p) \/ HashSource(p)
      <4>1. pc[p] # "idle"
        BY <3>1 DEF StatSource, HashSource
      <4> QED BY <1>1, <1>2, <3>1, <4>1, RungZeroEvidence DEF Evidence
    <3>2. CASE VerifyBlob(p)
      <4>1. Evidence(p) /\ pc[p] # "idle"
        BY <1>1, <3>2 DEF VerifyBlob, FreshInv
      <4>2. call'[p].man = call[p].man
        BY <1>1, <3>0, <3>2 DEF VerifyBlob, Serve, Return, Call
      <4> QED BY <1>2, <4>1, <4>2 DEF Evidence
    <3>3. CASE LookupBlob(p) \/ ReadMeta(p)
      <4>1. pc[p] # "idle" /\ call[p].out = "none"
        BY <3>3 DEF LookupBlob, ReadMeta, CallOK
      <4>2. pc'[p] # "verify" /\ call'[p].out # "hit"
        BY <1>1, <3>0, <3>3, <4>1 DEF Rechecked, LookupBlob, ReadMeta, NoHit, Return, Call
      <4> QED BY <1>1, <4>2
    <3>4. CASE Start(p) \/ Crash(p) \/ AcquireLock(p)
      BY <1>1, <3>0, <3>4 DEF Start, Crash, AcquireLock, NoCall, CallOK
    <3>5. CASE BeginDownload(p) \/ FinishCopy(p)
      BY <1>1, <3>0, <3>5 DEF BeginDownload, FinishCopy, CallOK, Call
    <3>6. CASE ContactSource(p)
      BY <1>1, <3>0, <3>6 DEF ContactSource, Unchanged, NextSource, Return, CallOK, Call
    <3>7. CASE CommitBlob(p) \/ WriteManifest(p) \/ FailManifest(p)
      BY <1>1, <3>0, <3>7 DEF CommitBlob, WriteManifest, FailManifest, Serve, Return, CallOK, Call
    <3>8. CASE TouchBlob(p)
      <4>1. call[p].out = "none"
        BY <3>8, TouchMoves, ConstantsAssumption DEF CallOK
      <4>2. Return(p, "stale304") => call'[p].out = "stale304"
        BY <3>0 DEF Return, Call
      <4>3. pc'[p] # "verify" /\ call'[p].out # "hit"
        BY <3>8, <4>1, <4>2, TouchMoves, ConstantsAssumption
      <4> QED BY <1>1, <4>3
    <3>9. CASE RefreshManifest(p)
      BY <1>1, <3>0, <3>9 DEF RefreshManifest, Serve, Call
    <3> QED BY <1>4, <2>2, <3>1, <3>2, <3>3, <3>4, <3>5, <3>6, <3>7, <3>8, <3>9 DEF Step
  <2> QED BY <2>1, <2>2
<1>5. CASE Environment
  BY <1>3, <1>5, EnvironmentLeaves
<1>6. CASE Finished
  BY <1>3, <1>6 DEF Finished
<1> QED BY <1>4, <1>5, <1>6 DEF Next, Action

\* A hit on a local source is fresh: whatever the interleaving, the manifest it
\* is answered with matched the source during the fetch, or the source could
\* not be consulted, or it was missing with mirrors configured.
THEOREM HitIsFreshAlways == Spec => []HitIsFresh
<1>1. Init => CallOK /\ FreshInv
  BY DEF Init, CallOK, FreshInv, NoCall
<1>2. Typed /\ CallOK /\ [Next]_vars => CallOK'
  BY ConstantsAssumption, CallOKStep
<1>3. Typed /\ CallOK /\ FreshInv /\ [Next]_vars => FreshInv'
  <2>1. UNCHANGED vars /\ FreshInv => FreshInv'
    BY DEF vars, FreshInv, Evidence, Rechecked, View
  <2> QED BY <2>1, FreshInvStep
<1>4. FreshInv => HitIsFresh
  BY DEF FreshInv, HitIsFresh, Rechecked, Evidence
<1> QED BY <1>1, <1>2, <1>3, <1>4, TypedAlways, PTL DEF Spec

-----------------------------------------------------------------------------
(* The file a lookup finds.                                                *)

OneExtension == \A s \in Sources : Ext[s] = Ext[1]
NoFaults     == Limit["fault"] = 0

\* With one extension every blob file is the last one committed, and without
\* faults no commit ever loses its manifest.
OneFile == \A e \in Exts : blob[e] # None => e = tip
Clean   == used["fault"] = 0 /\ ~dirty

\* With one extension the last committed blob, if there is one, is under it.
TipIsOne == (\E e \in Exts : blob[e] # None) => tip = Ext[1]

FileInv == OneFile /\ Clean /\ TipIsOne

LEMMA FileInvStep ==
    ASSUME OneExtension, NoFaults, Typed, FileInv, [Next]_vars PROVE FileInv'
<1>0. used \in [Budgets -> Nat] /\ "fault" \in Budgets /\ blob \in [Exts -> Bytes \cup {None}]
  BY DEF Typed, TypeOK, Budgets
<1>1. ASSUME UNCHANGED <<blob, tip, dirty>>, used' = used \/ \E k \in Budgets \ {"fault"} : Spend(k)
      PROVE  FileInv'
  BY <1>0, <1>1 DEF FileInv, OneFile, Clean, TipIsOne, Spend
<1>2. ~Spend("fault")
  BY DEF Spend, NoFaults, FileInv, Clean
<1>3. ASSUME NEW p \in Procs, Start(p) \/ Step(p) \/ FailManifest(p) \/ Crash(p)
      PROVE  FileInv'
  <2>1. CASE CommitBlob(p)
    <3>1. CASE blob' = blob /\ tip' = tip
      BY <1>1, <2>1, <3>1 DEF CommitBlob
    <3>2. CASE ~(blob' = blob /\ tip' = tip)
      <4>1. call[p].at \in Sources
        BY DEF Typed, TypeOK, Call
      <4>2. /\ tip' = Ext[1] /\ blob' = [blob EXCEPT ![Ext[1]] = call[p].sha]
            /\ UNCHANGED <<dirty, used>>
        BY <2>1, <3>2, <4>1 DEF CommitBlob, RenameBlob, OneExtension
      <4> QED BY <1>0, <4>2 DEF FileInv, OneFile, Clean, TipIsOne
    <3> QED BY <3>1, <3>2
  <2>2. CASE Start(p)
    BY <1>1, <2>2 DEF Start, store, Budgets
  <2>3. CASE WriteManifest(p)
    BY <2>3 DEF WriteManifest, FileInv, OneFile, Clean, TipIsOne
  <2>4. CASE TouchBlob(p) \/ RefreshManifest(p)
    BY <1>1, <2>4 DEF TouchBlob, RefreshManifest, store
  <2>5. CASE FailManifest(p) \/ Crash(p)
    BY <1>2, <2>5 DEF FailManifest, Crash
  <2>6. CASE \/ LookupBlob(p) \/ ReadMeta(p) \/ StatSource(p) \/ HashSource(p) \/ VerifyBlob(p)
             \/ AcquireLock(p) \/ BeginDownload(p) \/ ContactSource(p) \/ FinishCopy(p)
    BY <1>1, <2>6 DEF LookupBlob, ReadMeta, StatSource, HashSource, VerifyBlob, AcquireLock,
       BeginDownload, ContactSource, FinishCopy, store
  <2> QED BY <1>3, <2>1, <2>2, <2>3, <2>4, <2>5, <2>6 DEF Step
<1>4. CASE Environment
  <2>1. ASSUME NEW e \in Exts, EvictBlob(e) PROVE FileInv'
    BY <1>0, <2>1 DEF EvictBlob, Spend, FileInv, OneFile, Clean, TipIsOne, Budgets
  <2>2. CASE (\E s \in Sources : ChangeSource(s)) \/ EvictManifest \/ Expire
    BY <1>1, <2>2 DEF ChangeSource, EvictManifest, Expire, store, Budgets
  <2> QED BY <1>4, <2>1, <2>2 DEF Environment
<1>5. CASE Finished \/ UNCHANGED vars
  BY <1>1, <1>5 DEF Finished, vars, store
<1> QED BY <1>3, <1>4, <1>5 DEF Next, Action

\* When every source of a request gives one extension and no commit is cut
\* short, the manifest describes the file a lookup finds whenever the lock is
\* free.  Without the second it is false (the run crash_in_commit), and so it is
\* with a mirror of another extension, which commits beside the file found first.
THEOREM ManifestDescribesBlobAlways ==
    ASSUME OneExtension, NoFaults PROVE Spec => []ManifestDescribesBlob
<1>1. Init => FileInv
  BY DEF Init, Cold, Warm, FileInv, OneFile, Clean, TipIsOne, Budgets, OneExtension, Exts
<1>2. Typed /\ FileInv /\ [Next]_vars => FileInv'
  BY FileInvStep
<1>3. Typed /\ SingleFlight /\ ManifestDescribesTip /\ FileInv => ManifestDescribesBlob
  <2> SUFFICES ASSUME Typed, SingleFlight, ManifestDescribesTip, FileInv,
                      lock = None, meta # None, NEW e \in Found(Ext[1])
               PROVE  blob[e] = meta.sha
    BY DEF ManifestDescribesBlob
  <2>1. Settled
    <3>1. \A p \in Procs : p # None
      BY ConstantsAssumption DEF ConstantsAssumption
    <3> QED BY <3>1 DEF Settled, FileInv, Clean, SingleFlight, Downloading
  <2>2. e \in Exts /\ blob[e] # None
    BY ConstantsAssumption DEF Found, Exts, Sources, ConstantsAssumption
  <2> QED BY <2>1, <2>2 DEF FileInv, OneFile, ManifestDescribesTip
<1> QED BY <1>1, <1>2, <1>3, TypedAlways, SingleFlightAlways, TipAlways, PTL DEF Spec

-----------------------------------------------------------------------------
(* Failures.                                                               *)

\* The phases of a fetch that has found a blob and not yet answered with it.
Judging == {"meta", "stat", "hash", "verify"}

\* What lies behind each phase from which a fetch can fail: a blob that is not
\* there any more was evicted; the sources asked so far were all missing while
\* the fetch ran; a 304 answers a request that carried validators.
FailInv ==
    \A p \in Procs :
        /\ witness[p].gone \subseteq Sources
        /\ pc[p] # "idle" =>
              \A s \in Sources : src[s].state = "missing" => s \in witness[p].gone
        /\ pc[p] \in Judging => blob[call[p].path] # None \/ used["evict"] > 0
        /\ pc[p] = "verify" => VerifyOnRead
        /\ pc[p] = "source" /\ call[p].absent =>
              \A s \in Sources : s < call[p].at => s \in witness[p].gone
        /\ pc[p] = "touch" => call[p].validators
        /\ call[p].out = "absent" =>
              witness[p].gone = Sources \/ (VerifyOnRead /\ used["evict"] > 0)
        /\ call[p].out # "stale304"

\* How the observer's record of the missing sources moves.
LEMMA GoneMoves ==
    ASSUME Observe, NEW p \in Procs, witness[p].gone \subseteq Sources
    PROVE  /\ witness'[p].gone \subseteq Sources
           /\ pc'[p] # "idle" =>
                 \A s \in Sources : src'[s].state = "missing" => s \in witness'[p].gone
           /\ pc[p] # "idle" => witness[p].gone \subseteq witness'[p].gone
           /\ pc[p] = "idle" /\ pc'[p] = "idle" => witness'[p] = witness[p]
BY DEF Observe, Moment

\* A blob disappears by an eviction only, and evictions are counted for good.
LEMMA BlobsVanishByEviction ==
    ASSUME Typed, Action
    PROVE  /\ used["evict"] > 0 => used'["evict"] > 0
           /\ \A e \in Exts : blob[e] # None => blob'[e] # None \/ used'["evict"] > 0
<1>0. /\ used \in [Budgets -> Nat] /\ "evict" \in Budgets
      /\ blob \in [Exts -> Bytes \cup {None}]
  BY DEF Typed, TypeOK, Budgets
<1>1. ASSUME NEW k \in Budgets, Spend(k) PROVE used["evict"] > 0 => used'["evict"] > 0
  BY <1>0, <1>1 DEF Spend
<1>2. ASSUME NEW p \in Procs, CommitBlob(p)
      PROVE  \A e \in Exts : blob[e] # None => blob'[e] # None
  <2>1. call[p].sha # None
    BY <1>2, ConstantsAssumption DEF Typed, PhaseOK, CommitBlob, ConstantsAssumption
  <2> QED BY <1>0, <1>2, <2>1 DEF CommitBlob, RenameBlob
<1>3. ASSUME NEW p \in Procs, Start(p) \/ Step(p) \/ FailManifest(p) \/ Crash(p),
             ~CommitBlob(p)
      PROVE  blob' = blob /\ (used' = used \/ \E k \in Budgets : Spend(k))
  BY <1>3 DEF Step, Start, LookupBlob, ReadMeta, StatSource, HashSource, VerifyBlob,
     AcquireLock, BeginDownload, ContactSource, FinishCopy, WriteManifest, TouchBlob,
     RefreshManifest, FailManifest, Crash, store, Budgets
<1>4. ASSUME NEW e \in Exts, EvictBlob(e) PROVE used'["evict"] > 0
  BY <1>0, <1>4 DEF EvictBlob, Spend
<1>5. ASSUME (\E s \in Sources : ChangeSource(s)) \/ EvictManifest \/ Expire
      PROVE  blob' = blob /\ \E k \in Budgets : Spend(k)
  BY <1>5 DEF ChangeSource, EvictManifest, Expire, store, Budgets
<1>6. CASE \E p \in Procs : Start(p) \/ Step(p) \/ FailManifest(p) \/ Crash(p)
  <2>1. CASE \E p \in Procs : CommitBlob(p)
    BY <1>2, <2>1 DEF CommitBlob
  <2>2. CASE ~\E p \in Procs : CommitBlob(p)
    BY <1>1, <1>3, <1>6, <2>2
  <2> QED BY <2>1, <2>2
<1>7. CASE Environment
  BY <1>1, <1>4, <1>5, <1>7 DEF Environment
<1>8. CASE Finished
  BY <1>8 DEF Finished, store
<1> QED BY <1>6, <1>7, <1>8 DEF Action

\* What p's own steps leave behind them, apart from the record of its sources.
LEMMA OwnFailures ==
    ASSUME Typed, CallOK, FailInv, NEW p \in Procs,
           Start(p) \/ Step(p) \/ FailManifest(p) \/ Crash(p)
    PROVE  /\ pc'[p] \in Judging =>
                 \/ pc[p] \in Judging /\ call'[p].path = call[p].path
                 \/ blob'[call'[p].path] # None
           /\ pc'[p] = "verify" => VerifyOnRead
           /\ pc'[p] = "source" /\ call'[p].absent =>
                 \A s \in Sources : s < call'[p].at =>
                    pc[p] # "idle" /\ s \in witness[p].gone
           /\ pc'[p] = "touch" => call'[p].validators
           /\ call'[p].out = "absent" =>
                 /\ pc[p] # "idle"
                 /\ \/ Sources \subseteq witness[p].gone
                    \/ VerifyOnRead /\ used["evict"] > 0
           /\ call'[p].out # "stale304"
<1> USE DEF Goto, Judging
<1>0. /\ call[p] \in Call /\ pc \in [Procs -> Labels] /\ call \in [Procs -> Call]
      /\ pc[p] # "idle" => call[p].out = "none"
      /\ call[p].path \in Exts /\ call[p].at \in Sources /\ NumSources \in Nat
      /\ Sources = 1 .. NumSources
  BY ConstantsAssumption DEF Typed, TypeOK, CallOK, Call, Sources, ConstantsAssumption
<1>1. CASE Start(p) \/ Crash(p)
  BY <1>0, <1>1 DEF Start, Crash, NoCall
<1>2. CASE AcquireLock(p) \/ FinishCopy(p)
  <2>1. pc'[p] \in {"lookup", "commit"} /\ pc[p] # "idle"
    BY <1>0, <1>2 DEF AcquireLock, FinishCopy
  <2>2. call'[p].out = "none"
    BY <1>0, <1>2, <2>1 DEF AcquireLock, FinishCopy, Call
  <2> QED BY <2>1, <2>2
<1>3. CASE BeginDownload(p)
  BY <1>0, <1>3 DEF BeginDownload, Call
<1>4. CASE ReadMeta(p) \/ StatSource(p) \/ HashSource(p)
  <2>1. pc[p] \in Judging /\ pc[p] # "idle"
    BY <1>4 DEF ReadMeta, StatSource, HashSource
  <2>2. CASE NoHit(p)
    BY <1>0, <2>1, <2>2 DEF NoHit, Return, Call
  <2>3. ASSUME NEW m, Accept(p, m)
        PROVE  /\ pc'[p] = "verify" => VerifyOnRead
               /\ pc'[p] \in {"verify", "idle"}
               /\ call'[p].out \in {"none", "hit"}
               /\ pc'[p] # "idle" => call'[p].path = call[p].path
    <3>1. CASE VerifyOnRead
      BY <1>0, <2>1, <2>3, <3>1 DEF Accept, Call
    <3>2. CASE ~VerifyOnRead
      BY <1>0, <2>1, <2>3, <3>2 DEF Accept, Serve, Call
    <3> QED BY <3>1, <3>2
  <2>4. CASE \E m : Accept(p, m)
    BY <2>1, <2>3, <2>4
  <2>5. CASE /\ Goto(p, "stat") /\ call' = [call EXCEPT ![p].man = meta]
    BY <1>0, <2>1, <2>5 DEF Call
  <2>6. CASE Goto(p, "hash") /\ UNCHANGED <<lock, call>>
    BY <1>0, <2>1, <2>6 DEF Call
  <2> QED BY <1>4, <2>2, <2>4, <2>5, <2>6 DEF ReadMeta, StatSource, HashSource, SourceMissing
<1>5. CASE LookupBlob(p)
  <2>1. CASE NoHit(p)
    BY <1>0, <1>5, <2>1 DEF LookupBlob, NoHit, Return, Call
  <2>2. ASSUME NEW e \in Found(Ext[1]), call' = [call EXCEPT ![p].path = e], Goto(p, "meta")
        PROVE  pc'[p] = "meta" /\ call'[p].path = e /\ call'[p].out = "none" /\ blob[e] # None
    BY <1>0, <1>5, <2>2 DEF LookupBlob, Call, Found
  <2>3. blob' = blob
    BY <1>5 DEF LookupBlob, store
  <2> QED BY <1>5, <2>1, <2>2, <2>3 DEF LookupBlob
<1>6. CASE VerifyBlob(p)
  <2>1. pc'[p] = "idle" /\ call'[p].out \in {"absent", "integrity", "hit"}
    BY <1>0, <1>6 DEF VerifyBlob, Return, Serve, Call
  <2>2. call'[p].out = "absent" => blob[call[p].path] = None
    BY <1>0, <1>6 DEF VerifyBlob, Return, Serve, Call
  <2> QED BY <1>0, <1>6, <2>1, <2>2 DEF VerifyBlob, FailInv
<1>7. CASE ContactSource(p)
  <2>0. pc[p] = "source"
    BY <1>7 DEF ContactSource
  <2>1. ASSUME NEW b \in BOOLEAN, NextSource(p, b), b => src[call[p].at].state = "missing"
        PROVE  /\ pc'[p] \in {"source", "idle"}
               /\ pc'[p] = "source" /\ call'[p].absent =>
                    \A s \in Sources : s < call'[p].at => s \in witness[p].gone
               /\ call'[p].out = "absent" => Sources \subseteq witness[p].gone
               /\ call'[p].out # "stale304"
    <3>1. call[p].absent /\ b =>
             \A s \in Sources : s <= call[p].at => s \in witness[p].gone
      BY <1>0, <2>0, <2>1 DEF FailInv
    <3>2. CASE call[p].at < NumSources
      <4> DEFINE new == [call[p] EXCEPT !.at = call[p].at + 1, !.absent = call[p].absent /\ b]
      <4>1. call' = [call EXCEPT ![p] = new] /\ pc' = pc
        BY <2>1, <3>2 DEF NextSource
      <4>2. new.at = call[p].at + 1 /\ (new.absent <=> call[p].absent /\ b) /\ new.out = call[p].out
        BY <1>0 DEF Call
      <4>3. call'[p] = new
        BY <1>0, <4>1
      <4> HIDE DEF new
      <4> QED BY <1>0, <2>0, <3>1, <4>1, <4>2, <4>3
    <3>3. CASE ~(call[p].at < NumSources)
      <4>1. /\ pc'[p] = "idle"
            /\ call'[p].out = IF call[p].absent /\ b THEN "absent" ELSE "failed"
        BY <1>0, <2>1, <3>3 DEF NextSource, Return, Call
      <4>2. \A s \in Sources : s <= call[p].at
        BY <1>0, <3>3
      <4> QED BY <3>1, <4>1, <4>2
    <3> QED BY <3>2, <3>3
  <2>2. CASE NextSource(p, TRUE) /\ src[call[p].at].state = "missing"
    BY <2>0, <2>1, <2>2
  <2>3. CASE NextSource(p, FALSE)
    BY <2>0, <2>1, <2>3
  <2>4. CASE \E c, t : \E l \in {"copy", "commit"} :
                call' = [call EXCEPT ![p].sha = c, ![p].tag = t] /\ Goto(p, l)
    BY <1>0, <2>0, <2>4 DEF Call
  <2>5. CASE /\ \E t : t # None /\ Conditional(p) = t
             /\ Goto(p, "touch") /\ UNCHANGED <<lock, call>>
    BY <1>0, <2>0, <2>5 DEF Call, Conditional
  <2> QED
    <3>1. CASE src[call[p].at].state = "missing"
      BY <1>7, <2>2, <3>1 DEF ContactSource
    <3>2. CASE src[call[p].at].state # "missing"
      BY <1>7, <2>3, <2>4, <2>5, <3>2 DEF ContactSource, Unchanged
    <3> QED BY <3>1, <3>2
<1>8. CASE CommitBlob(p) \/ WriteManifest(p) \/ FailManifest(p)
  BY <1>0, <1>8 DEF CommitBlob, WriteManifest, FailManifest, Serve, Return, Call
<1>9. CASE TouchBlob(p)
  <2>1. /\ pc[p] = "touch" /\ pc'[p] \in {"refresh", "prior"}
        /\ pc'[p] # "idle" => call'[p].out = call[p].out
    BY <1>9, TouchMoves, ConstantsAssumption DEF FailInv
  <2> QED BY <1>0, <2>1
<1>10. CASE RefreshManifest(p)
  <2>1. pc'[p] = "idle" /\ call'[p].out = "notmodified"
    BY <1>0, <1>10 DEF RefreshManifest, Serve, Call
  <2> QED BY <2>1
<1> QED BY <1>1, <1>2, <1>3, <1>4, <1>5, <1>6, <1>7, <1>8, <1>9, <1>10 DEF Step

LEMMA FailInvStep ==
    ASSUME Typed, CallOK, FailInv, Next PROVE FailInv'
<1>1. SUFFICES ASSUME NEW p \in Procs
      PROVE  /\ pc'[p] \in Judging => blob'[call'[p].path] # None \/ used'["evict"] > 0
             /\ pc'[p] = "verify" => VerifyOnRead
             /\ pc'[p] = "source" /\ call'[p].absent =>
                   \A s \in Sources : s < call'[p].at => s \in witness'[p].gone
             /\ pc'[p] = "touch" => call'[p].validators
             /\ call'[p].out = "absent" =>
                   witness'[p].gone = Sources \/ (VerifyOnRead /\ used'["evict"] > 0)
             /\ call'[p].out # "stale304"
  BY GoneMoves DEF Next, FailInv
<1>2. /\ witness'[p].gone \subseteq Sources
      /\ pc[p] # "idle" => witness[p].gone \subseteq witness'[p].gone
      /\ pc[p] = "idle" /\ pc'[p] = "idle" => witness'[p] = witness[p]
  BY GoneMoves DEF Next, FailInv
<1>3. /\ used["evict"] > 0 => used'["evict"] > 0
      /\ \A e \in Exts : blob[e] # None => blob'[e] # None \/ used'["evict"] > 0
  BY BlobsVanishByEviction DEF Next
<1>4. call[p].path \in Exts
  BY DEF Typed, TypeOK, Call
<1>5. CASE /\ pc'[p] = pc[p] /\ call'[p].path = call[p].path /\ call'[p].absent = call[p].absent
           /\ call'[p].at = call[p].at /\ call'[p].validators = call[p].validators
           /\ call'[p].out = call[p].out
  <2>1. pc[p] \in Judging => blob'[call'[p].path] # None \/ used'["evict"] > 0
    BY <1>3, <1>4, <1>5 DEF FailInv
  <2>2. call[p].out = "absent" =>
           witness'[p].gone = Sources \/ (VerifyOnRead /\ used'["evict"] > 0)
    BY <1>2, <1>3, <1>5 DEF FailInv
  <2>3. pc[p] = "source" /\ call[p].absent =>
           \A s \in Sources : s < call[p].at => s \in witness'[p].gone
    BY <1>2 DEF FailInv
  <2> QED BY <1>5, <2>1, <2>2, <2>3 DEF FailInv
<1>6. CASE Start(p) \/ Step(p) \/ FailManifest(p) \/ Crash(p)
  <2>1. pc'[p] \in Judging => blob'[call'[p].path] # None \/ used'["evict"] > 0
    BY <1>3, <1>4, <1>6, OwnFailures DEF FailInv
  <2>2. call'[p].out = "absent" =>
           witness'[p].gone = Sources \/ (VerifyOnRead /\ used'["evict"] > 0)
    BY <1>2, <1>3, <1>6, OwnFailures
  <2>3. pc'[p] = "source" /\ call'[p].absent =>
           \A s \in Sources : s < call'[p].at => s \in witness'[p].gone
    BY <1>2, <1>6, OwnFailures
  <2> QED BY <1>6, <2>1, <2>2, <2>3, OwnFailures
<1>7. CASE \E q \in Procs \ {p} : Start(q) \/ Step(q) \/ FailManifest(q) \/ Crash(q)
  BY <1>5, <1>7, StepIsLocal
<1>8. CASE Environment
  BY <1>5, <1>8, EnvironmentLeaves
<1>9. CASE Finished
  BY <1>5, <1>9 DEF Finished
<1> QED BY <1>6, <1>7, <1>8, <1>9 DEF Next, Action

\* A fetch fails for its sources' reasons: "not found" means that every source
\* was missing while the fetch ran, or that its blob was evicted between the
\* look-up and its verification, and no 304 is ever final without a blob.
THEOREM FailuresAreTheSourcesAlways == Spec => []FailuresAreTheSources
<1>1. Init => CallOK /\ FailInv
  BY DEF Init, CallOK, FailInv, NoCall, Moment, Judging
<1>2. Typed /\ CallOK /\ [Next]_vars => CallOK'
  BY ConstantsAssumption, CallOKStep
<1>3. Typed /\ CallOK /\ FailInv /\ [Next]_vars => FailInv'
  <2>1. UNCHANGED vars /\ FailInv => FailInv'
    BY DEF vars, FailInv
  <2> QED BY <2>1, FailInvStep
<1>4. FailInv => FailuresAreTheSources
  BY DEF FailInv, FailuresAreTheSources, NotFoundIsSound, NoStale304
<1> QED BY <1>1, <1>2, <1>3, <1>4, TypedAlways, PTL DEF Spec

-----------------------------------------------------------------------------
(* Declared checksums.                                                     *)

\* A fetch with a declared checksum judges only a manifest that carries it and
\* records only a download that has it; the blob it committed is still that
\* download when the manifest is written, unless it was evicted.
BytesInv ==
    \A p \in Procs : Expected[p] # None =>
        /\ pc[p] \in {"stat", "hash", "verify"} => call[p].man.sha = Expected[p]
        /\ pc[p] = "record" =>
              /\ call[p].sha = Expected[p]
              /\ blob[call[p].path] \in {None, Expected[p]}
        /\ call[p].out \in {"hit", "downloaded"} => call[p].bytes \in {None, Expected[p]}

\* What p's own steps do to that.
LEMMA OwnBytes ==
    ASSUME VerifyOnRead, Typed, CallOK, BytesInv,
           NEW p \in Procs \ Offline, Expected[p] # None,
           Start(p) \/ Step(p) \/ FailManifest(p) \/ Crash(p)
    PROVE  /\ pc'[p] \in {"stat", "hash", "verify"} => call'[p].man.sha = Expected[p]
           /\ pc'[p] = "record" =>
                 /\ call'[p].sha = Expected[p]
                 /\ blob'[call'[p].path] \in {None, Expected[p]}
           /\ call'[p].out \in {"hit", "downloaded"} =>
                 call'[p].bytes \in {None, Expected[p]}
<1> USE DEF Goto
<1>0. /\ call[p] \in Call /\ pc \in [Procs -> Labels] /\ call \in [Procs -> Call]
      /\ pc[p] # "idle" => call[p].out = "none"
      /\ call[p].at \in Sources /\ blob \in [Exts -> Bytes \cup {None}]
  BY DEF Typed, TypeOK, CallOK, Call
<1>1. ASSUME NoHit(p), pc[p] # "idle"
      PROVE  pc'[p] \in {"prior", "wait"} /\ call'[p].out = "none"
  BY <1>0, <1>1 DEF NoHit
<1>2. ASSUME NEW m, Accept(p, m), pc[p] # "idle"
      PROVE  pc'[p] = "verify" /\ call'[p].out = "none" /\ call'[p].man = m
  BY <1>0, <1>2 DEF Accept, Call
<1>3. CASE Start(p) \/ Crash(p)
  BY <1>0, <1>3 DEF Start, Crash, NoCall
<1>4. CASE LookupBlob(p)
  <2>1. CASE NoHit(p)
    BY <1>1, <1>4, <2>1 DEF LookupBlob
  <2>2. CASE ~NoHit(p)
    BY <1>0, <1>4, <2>2 DEF LookupBlob, Call
  <2> QED BY <2>1, <2>2
<1>5. CASE ReadMeta(p)
  <2>0. pc[p] = "meta"
    BY <1>5 DEF ReadMeta
  <2>1. CASE NoHit(p)
    BY <1>1, <2>0, <2>1
  <2>2. CASE ~NoHit(p)
    <3>1. Decide(p, meta) = "Hit"
      BY <1>5, <2>2 DEF ReadMeta
    <3>2. meta.sha = Expected[p]
      BY <3>1 DEF Decide
    <3>3. CASE Accept(p, meta)
      BY <1>2, <2>0, <3>2, <3>3
    <3>4. CASE Goto(p, "stat") /\ call' = [call EXCEPT ![p].man = meta]
      BY <1>0, <2>0, <3>2, <3>4 DEF Call
    <3> QED BY <1>5, <2>2, <3>3, <3>4 DEF ReadMeta
  <2> QED BY <2>1, <2>2
<1>6. CASE StatSource(p) \/ HashSource(p)
  <2>0. pc[p] \in {"stat", "hash"} /\ call[p].man.sha = Expected[p]
    BY <1>6 DEF StatSource, HashSource, BytesInv
  <2>1. CASE NoHit(p)
    BY <1>1, <2>0, <2>1
  <2>2. CASE Accept(p, call[p].man)
    BY <1>2, <2>0, <2>2
  <2>3. CASE Goto(p, "hash") /\ UNCHANGED <<lock, call>>
    BY <1>0, <2>0, <2>3
  <2> QED BY <1>6, <2>1, <2>2, <2>3 DEF StatSource, HashSource, SourceMissing
<1>7. CASE VerifyBlob(p)
  <2>0. pc[p] = "verify" /\ call[p].man.sha = Expected[p]
    BY <1>7 DEF VerifyBlob, BytesInv
  <2>1. CASE \E out \in {"absent", "integrity"} : Return(p, out)
    BY <1>0, <2>1 DEF Return, Call
  <2>2. CASE Serve(p, "hit", call[p].path, call[p].man) /\ blob[call[p].path] = call[p].man.sha
    BY <1>0, <2>0, <2>2 DEF Serve, Call
  <2> QED BY <1>7, <2>1, <2>2 DEF VerifyBlob
<1>8. CASE AcquireLock(p) \/ BeginDownload(p) \/ FinishCopy(p)
  <2>1. pc'[p] \in {"lookup", "source", "commit"} /\ pc[p] # "idle"
    BY <1>0, <1>8 DEF AcquireLock, BeginDownload, FinishCopy
  <2>2. call'[p].out = "none"
    BY <1>0, <1>8, <2>1 DEF AcquireLock, BeginDownload, FinishCopy, Call
  <2> QED BY <2>1, <2>2
<1>9. CASE ContactSource(p)
  <2>0. pc[p] = "source"
    BY <1>9 DEF ContactSource
  <2>1. CASE \E b \in BOOLEAN : NextSource(p, b)
    BY <1>0, <2>0, <2>1 DEF NextSource, Return, Call
  <2>2. CASE \E c, t : \E l \in {"copy", "commit"} :
                call' = [call EXCEPT ![p].sha = c, ![p].tag = t] /\ Goto(p, l)
    BY <1>0, <2>0, <2>2 DEF Call
  <2>3. CASE Goto(p, "touch") /\ UNCHANGED call
    BY <1>0, <2>0, <2>3
  <2> QED BY <1>9, <2>1, <2>2, <2>3 DEF ContactSource, Unchanged
<1>10. CASE CommitBlob(p)
  <2>0. pc[p] = "commit"
    BY <1>10 DEF CommitBlob
  <2>1. CASE Return(p, "integrity")
    BY <1>0, <2>0, <2>1 DEF Return, Call
  <2>2. CASE ~Return(p, "integrity")
    <3>1. /\ call[p].sha = Expected[p] /\ pc'[p] = "record"
          /\ call' = [call EXCEPT ![p].path = Ext[call[p].at]]
          /\ blob' = [blob EXCEPT ![Ext[call[p].at]] = call[p].sha]
      BY <1>0, <1>10, <2>2 DEF CommitBlob, RenameBlob
    <3>2. /\ call'[p].path = Ext[call[p].at] /\ call'[p].sha = call[p].sha
          /\ call'[p].out = "none"
      BY <1>0, <2>0, <3>1 DEF Call
    <3>3. Ext[call[p].at] \in Exts
      BY <1>0 DEF Exts
    <3> QED BY <1>0, <3>1, <3>2, <3>3
  <2> QED BY <2>1, <2>2
<1>11. CASE WriteManifest(p)
  <2>0. pc[p] = "record" /\ blob[call[p].path] \in {None, Expected[p]}
    BY <1>11 DEF WriteManifest, BytesInv
  <2>1. pc'[p] = "idle" /\ call'[p].bytes = blob[call[p].path]
    BY <1>0, <1>11 DEF WriteManifest, Serve, Call
  <2> QED BY <2>0, <2>1
<1>12. CASE FailManifest(p)
  BY <1>0, <1>12 DEF FailManifest, Return, Call
<1>13. CASE TouchBlob(p)
  <2>1. Return(p, "stale304") => call'[p].out = "stale304"
    BY <1>0 DEF Return, Call
  <2>2. /\ pc'[p] \in {"refresh", "prior", "idle"} /\ pc[p] = "touch"
        /\ call'[p].out \in {"none", "stale304"}
    BY <1>0, <1>13, <2>1, TouchMoves, ConstantsAssumption
  <2> QED BY <2>2
<1>14. CASE RefreshManifest(p)
  <2>1. pc'[p] = "idle" /\ call'[p].out = "notmodified"
    BY <1>0, <1>14 DEF RefreshManifest, Serve, Call
  <2> QED BY <2>1
<1> QED BY <1>3, <1>4, <1>5, <1>6, <1>7, <1>8, <1>9, <1>10, <1>11, <1>12, <1>13, <1>14 DEF Step

\* While p records, a blob changes by an eviction only.
LEMMA OnlyEvictedMeanwhile ==
    ASSUME Typed, SingleFlight, Action, NEW p \in Procs, pc[p] = "record"
    PROVE  blob' = blob \/ \E e \in Exts : blob' = [blob EXCEPT ![e] = None]
<1>1. \A q \in Procs : pc[q] # "commit"
  BY OthersOutside DEF Downloading
<1>2. ASSUME NEW q \in Procs, Start(q) \/ Step(q) \/ FailManifest(q) \/ Crash(q)
      PROVE  blob' = blob
  BY <1>1, <1>2 DEF Step, Start, LookupBlob, ReadMeta, StatSource, HashSource, VerifyBlob,
     AcquireLock, BeginDownload, ContactSource, FinishCopy, CommitBlob, WriteManifest,
     TouchBlob, RefreshManifest, FailManifest, Crash, store
<1>3. CASE Environment
  BY <1>3 DEF Environment, ChangeSource, EvictBlob, EvictManifest, Expire, store
<1>4. CASE Finished
  BY <1>4 DEF Finished, store
<1> QED BY <1>2, <1>3, <1>4 DEF Action

LEMMA BytesInvStep ==
    ASSUME VerifyOnRead, \A p \in Offline : Expected[p] = None,
           Typed, CallOK, SingleFlight, BytesInv, Next
    PROVE  BytesInv'
<1>1. SUFFICES ASSUME NEW p \in Procs \ Offline, Expected[p] # None
      PROVE  /\ pc'[p] \in {"stat", "hash", "verify"} => call'[p].man.sha = Expected[p]
             /\ pc'[p] = "record" =>
                   /\ call'[p].sha = Expected[p]
                   /\ blob'[call'[p].path] \in {None, Expected[p]}
             /\ call'[p].out \in {"hit", "downloaded"} =>
                   call'[p].bytes \in {None, Expected[p]}
  BY DEF BytesInv
<1>2. CASE /\ pc'[p] = pc[p] /\ call'[p].man = call[p].man /\ call'[p].path = call[p].path
           /\ call'[p].out = call[p].out /\ call'[p].bytes = call[p].bytes
           /\ pc[p] = "record" => call'[p].sha = call[p].sha
  <2>1. pc[p] = "record" => blob'[call[p].path] \in {None, Expected[p]}
    <3> SUFFICES ASSUME pc[p] = "record" PROVE blob'[call[p].path] \in {None, Expected[p]}
      OBVIOUS
    <3>1. blob[call[p].path] \in {None, Expected[p]}
      BY <1>1 DEF BytesInv
    <3>2. blob' = blob \/ \E e \in Exts : blob' = [blob EXCEPT ![e] = None]
      BY OnlyEvictedMeanwhile DEF Next
    <3>3. call[p].path \in Exts /\ blob \in [Exts -> Bytes \cup {None}]
      BY DEF Typed, TypeOK, Call
    <3> QED BY <3>1, <3>2, <3>3
  <2> QED BY <1>1, <1>2, <2>1 DEF BytesInv
<1>3. CASE Start(p) \/ Step(p) \/ FailManifest(p) \/ Crash(p)
  BY <1>1, <1>3, OwnBytes
<1>4. CASE \E q \in Procs \ {p} : Start(q) \/ Step(q) \/ FailManifest(q) \/ Crash(q)
  BY <1>2, <1>4, StepIsLocal
<1>5. CASE Environment
  BY <1>2, <1>5, EnvironmentLeaves
<1>6. CASE Finished
  BY <1>2, <1>6 DEF Finished
<1> QED BY <1>3, <1>4, <1>5, <1>6 DEF Next, Action

\* Every blob was committed, by this run or by the earlier one, under the
\* declaration it agrees with; and what a 304 handed out was such a blob.
CommitsInv ==
    /\ \A e \in Exts : blob[e] # None => \E d : <<d, blob[e]>> \in committed
    /\ \A c \in committed : c[1] \in Content \cup {None} /\ c[1] \in {None, c[2]}
    /\ \A p \in Procs : call[p].out = "notmodified" /\ call[p].bytes # None =>
          \E d : <<d, call[p].bytes>> \in committed

\* A commit that goes on to its manifest found the checksum as declared.
LEMMA CommitsAreChecked ==
    ASSUME Typed, Action, NEW p \in Procs, pc[p] = "commit", pc'[p] = "record"
    PROVE  Expected[p] \in {None, call[p].sha} /\ Expected[p] \in Content \cup {None}
<1>1. Expected[p] \in Content \cup {None}
  BY ConstantsAssumption DEF ConstantsAssumption
<1>2. ASSUME NEW q \in Procs, Start(q) \/ Step(q) \/ FailManifest(q) \/ Crash(q)
      PROVE  q = p /\ CommitBlob(p)
  <2>1. q = p
    BY <1>2, StepIsLocal
  <2>2. ~Crash(p)
    BY DEF Crash, Goto, Typed, TypeOK
  <2> QED BY <1>2, <2>1, <2>2 DEF Start, Step, FailManifest, LookupBlob, ReadMeta, StatSource,
          HashSource, VerifyBlob, AcquireLock, BeginDownload, ContactSource, FinishCopy,
          WriteManifest, TouchBlob, RefreshManifest
<1>3. CommitBlob(p)
  <2>1. ~Environment
    BY EnvironmentLeaves
  <2>2. ~Finished
    BY DEF Finished
  <2> QED BY <1>2, <2>1, <2>2 DEF Action
<1>4. ~Return(p, "integrity")
  BY DEF Return, Goto, Typed, TypeOK
<1> QED BY <1>1, <1>3, <1>4 DEF CommitBlob

\* Only a refreshed manifest answers with "notmodified".
LEMMA OnlyRefreshAnswers ==
    ASSUME Typed, CallOK, NEW p \in Procs,
           Start(p) \/ Step(p) \/ FailManifest(p) \/ Crash(p),
           call'[p].out = "notmodified"
    PROVE  RefreshManifest(p) /\ call'[p].bytes = blob[call[p].path]
<1>0. /\ call[p] \in Call /\ call \in [Procs -> Call]
      /\ pc[p] # "idle" => call[p].out = "none"
  BY DEF Typed, TypeOK, CallOK
<1>1. ASSUME NEW out \in {"cachemiss", "absent", "failed", "integrity", "stale304"}
      PROVE  ~Return(p, out)
  BY <1>0, <1>1 DEF Return, Call
<1>2. ASSUME NEW out \in {"hit", "downloaded"}, NEW e, NEW m PROVE ~Serve(p, out, e, m)
  BY <1>0, <1>2 DEF Serve, Call
<1>3. call'[p].out # call[p].out \/ pc[p] = "idle"
  BY <1>0
<1>4. ~(Start(p) \/ Crash(p))
  BY <1>0 DEF Start, Crash, NoCall
<1>5. ~(FailManifest(p) \/ WriteManifest(p) \/ VerifyBlob(p))
  BY <1>1, <1>2 DEF FailManifest, WriteManifest, VerifyBlob
<1>6. ~(AcquireLock(p) \/ BeginDownload(p) \/ FinishCopy(p))
  BY <1>0, <1>3 DEF AcquireLock, BeginDownload, FinishCopy, Call
<1>7. ~CommitBlob(p)
  BY <1>0, <1>1, <1>3 DEF CommitBlob, Call
<1>8. ~TouchBlob(p)
  BY <1>0, <1>1, TouchMoves, ConstantsAssumption
<1>9. ~ContactSource(p)
  BY <1>0, <1>1, <1>3 DEF ContactSource, Unchanged, NextSource, Call
<1>10. pc[p] # "idle" => ~NoHit(p) /\ \A m : ~Accept(p, m)
  BY <1>0, <1>1, <1>2, <1>3 DEF NoHit, Accept, Call
<1>11. ~(LookupBlob(p) \/ ReadMeta(p))
  BY <1>0, <1>3, <1>10 DEF LookupBlob, ReadMeta, Call
<1>12. ~(StatSource(p) \/ HashSource(p))
  BY <1>0, <1>3, <1>10 DEF StatSource, HashSource, SourceMissing
<1>13. RefreshManifest(p)
  BY <1>4, <1>5, <1>6, <1>7, <1>8, <1>9, <1>11, <1>12 DEF Step
<1> QED BY <1>0, <1>13 DEF RefreshManifest, Serve, Call

\* CommitsInv is inductive.
LEMMA CommitsInvStep ==
    ASSUME Typed, CallOK, CommitsInv, Next PROVE CommitsInv'
<1>1. /\ committed' = committed \cup
           {<<Expected[p], call[p].sha>> : p \in {q \in Procs : pc[q] = "commit" /\ pc'[q] = "record"}}
      /\ committed \subseteq committed'
  BY DEF Next, Observe
<1>2. \A c \in committed' : c[1] \in Content \cup {None} /\ c[1] \in {None, c[2]}
  <2> SUFFICES ASSUME NEW c \in committed' \ committed
               PROVE  c[1] \in Content \cup {None} /\ c[1] \in {None, c[2]}
    BY DEF CommitsInv
  <2>1. PICK p \in Procs : pc[p] = "commit" /\ pc'[p] = "record" /\ c = <<Expected[p], call[p].sha>>
    BY <1>1
  <2> QED BY <2>1, CommitsAreChecked DEF Next
<1>3. ASSUME NEW e \in Exts, blob'[e] # None PROVE \E d : <<d, blob'[e]>> \in committed'
  <2>0. blob \in [Exts -> Bytes \cup {None}]
    BY DEF Typed, TypeOK
  <2>1. CASE blob'[e] = blob[e]
    BY <1>1, <1>3, <2>1 DEF CommitsInv
  <2>2. ASSUME NEW q \in Procs, CommitBlob(q), blob'[e] # blob[e]
        PROVE  \E d : <<d, blob'[e]>> \in committed'
    <3>1. /\ pc[q] = "commit" /\ pc'[q] = "record" /\ blob'[e] = call[q].sha
      BY <2>0, <2>2 DEF CommitBlob, RenameBlob, Goto, Typed, TypeOK
    <3>2. <<Expected[q], call[q].sha>> \in committed'
      BY <1>1, <3>1
    <3> QED BY <3>1, <3>2
  <2>3. ASSUME NEW q \in Procs, Start(q) \/ Step(q) \/ FailManifest(q) \/ Crash(q), ~CommitBlob(q)
        PROVE  blob' = blob
    BY <2>3 DEF Step, Start, LookupBlob, ReadMeta, StatSource, HashSource, VerifyBlob,
       AcquireLock, BeginDownload, ContactSource, FinishCopy, WriteManifest, TouchBlob,
       RefreshManifest, FailManifest, Crash, store
  <2>4. CASE Environment \/ Finished
    BY <1>3, <2>0, <2>1, <2>4 DEF Environment, ChangeSource, EvictBlob, EvictManifest, Expire,
       Finished, store
  <2> QED BY <2>1, <2>2, <2>3, <2>4 DEF Next, Action
<1>4. ASSUME NEW p \in Procs, call'[p].out = "notmodified", call'[p].bytes # None
      PROVE  \E d : <<d, call'[p].bytes>> \in committed'
  <2>1. CASE call'[p].out = call[p].out /\ call'[p].bytes = call[p].bytes
    BY <1>1, <1>4, <2>1 DEF CommitsInv
  <2>2. CASE Start(p) \/ Step(p) \/ FailManifest(p) \/ Crash(p)
    <3>1. call'[p].bytes = blob[call[p].path] /\ call[p].path \in Exts
      BY <1>4, <2>2, OnlyRefreshAnswers DEF Typed, TypeOK, Call
    <3> QED BY <1>1, <1>4, <3>1 DEF CommitsInv
  <2>3. CASE \E q \in Procs \ {p} : Start(q) \/ Step(q) \/ FailManifest(q) \/ Crash(q)
    BY <2>1, <2>3, StepIsLocal
  <2>4. CASE Environment \/ Finished
    BY <2>1, <2>4, EnvironmentLeaves DEF Finished
  <2> QED BY <2>2, <2>3, <2>4 DEF Next, Action
<1> QED BY <1>2, <1>3, <1>4 DEF CommitsInv

\* With verify_on_read a fetch that declares a checksum is answered by a hit or
\* a download with bytes that have it, or with a path whose file was evicted;
\* and by a 304 with those, or with bytes that a fetch which declared something
\* else, or nothing, committed.  An offline read looks at no declared checksum,
\* so it must not declare one.
THEOREM ServedBytesAreExpectedAlways ==
    ASSUME VerifyOnRead, \A p \in Offline : Expected[p] = None
    PROVE  Spec => []ServedBytesAreExpected
<1>1. Init => CallOK /\ BytesInv /\ CommitsInv
  <2>1. Init => CallOK /\ BytesInv
    BY DEF Init, CallOK, BytesInv, NoCall
  <2>2. ASSUME Init, Cold PROVE CommitsInv
    BY <2>2 DEF Init, Cold, CommitsInv, NoCall
  <2>3. ASSUME Init, NEW s \in Sources, Warm(s) PROVE CommitsInv
    BY <2>3 DEF Init, Warm, CommitsInv, NoCall
  <2> QED BY <2>1, <2>2, <2>3 DEF Init
<1>2. Typed /\ CallOK /\ [Next]_vars => CallOK'
  BY ConstantsAssumption, CallOKStep
<1>3. Typed /\ CallOK /\ SingleFlight /\ BytesInv /\ [Next]_vars => BytesInv'
  <2>1. UNCHANGED vars /\ BytesInv => BytesInv'
    BY DEF vars, BytesInv
  <2> QED BY <2>1, BytesInvStep
<1>4. Typed /\ CallOK /\ CommitsInv /\ [Next]_vars => CommitsInv'
  <2>1. UNCHANGED vars /\ CommitsInv => CommitsInv'
    BY DEF vars, CommitsInv
  <2> QED BY <2>1, CommitsInvStep
<1>5. BytesInv /\ CommitsInv => ServedBytesAreExpected
  <2> SUFFICES ASSUME BytesInv, CommitsInv, NEW p \in Procs, Expected[p] # None,
                      call[p].out = "notmodified", call[p].bytes \notin {Expected[p], None}
               PROVE  \E declared \in (Content \cup {None}) \ {Expected[p]} :
                         <<declared, call[p].bytes>> \in committed
    BY DEF BytesInv, ServedBytesAreExpected, Answered
  <2>1. PICK d : <<d, call[p].bytes>> \in committed
    BY DEF CommitsInv
  <2>2. d \in Content \cup {None} /\ d \in {None, call[p].bytes}
    BY <2>1 DEF CommitsInv
  <2> QED BY <2>1, <2>2
<1> QED BY <1>1, <1>2, <1>3, <1>4, <1>5, TypedAlways, SingleFlightAlways, PTL DEF Spec

-----------------------------------------------------------------------------
(* Downloads and their causes.                                             *)

\* What the downloads are accounted to.
Causes == 1 + used["change"] + used["evict"] + used["expire"] + used["fault"]

\* The source a download would end at now, and the validator it would record.
FirstOk(s) == /\ src[s].state = "ok"
              /\ \A t \in Sources : t < s => src[t].state # "ok"
TagOf(s)   == IF s \in FileSources THEN None ELSE Tag[src[s].content]

\* A manifest that a download would write again just as it is.
Current(m) ==
    /\ m \in Manifest /\ m.fresh
    /\ \E s \in Sources : FirstOk(s) /\ m.sha = src[s].content /\ m.tag = TagOf(s)

Stored == \E e \in Exts : blob[e] # None

\* No source before p's is to be had, so what p downloads is the current answer.
Ahead(p) == \A s \in Sources : s < call[p].at => src[s].state # "ok"

\* What p has in hand is that answer, or is what its checksum refuses.
Holds(p) ==
    /\ FirstOk(call[p].at)
    /\ call[p].sha = src[call[p].at].content /\ call[p].tag = TagOf(call[p].at)
Refused(p) == Expected[p] # None /\ call[p].sha # Expected[p]

\* Source s answers p with a 304, or with what p's checksum refuses.
Rejects(s, p) ==
    \/ Expected[p] # None /\ Expected[p] # src[s].content
    \/ s \notin FileSources /\ Tag[src[s].content] # None /\ Conditional(p) = Tag[src[s].content]

\* The next source that answers p at all does that.
Harmless(p) ==
    \E s \in Sources :
        /\ call[p].at <= s /\ src[s].state = "ok" /\ Rejects(s, p)
        /\ \A t \in Sources : call[p].at <= t /\ t < s => src[t].state # "ok"

\* When every cause is used up, the entry is the current answer, or is about to
\* be, and a fetch that downloads all the same does it in vain: for a
\* revalidation, or for a checksum the current answer does not have.
SpentFor(p) ==
    /\ pc[p] \in {"stat", "hash"} /\ lock = p => call[p].man = meta
    /\ pc[p] = "prior" =>
          /\ call[p].validators
          /\ \/ Expected[p] # None /\ Expected[p] # meta.sha
             \/ Expected[p] = None /\ meta.tag # None
    /\ pc[p] \in {"source", "touch", "refresh"} => Current(call[p].prior)
    /\ pc[p] = "source" => Ahead(p) /\ Harmless(p)
    /\ pc[p] \in {"copy", "commit"} => Refused(p)
    /\ pc[p] = "record" => Holds(p)

\* When one cause is left, a download that is committed is the current answer.
LastFor(p) ==
    /\ pc[p] = "source" => Ahead(p) \/ Harmless(p)
    /\ pc[p] \in {"copy", "commit"} => Holds(p) \/ Refused(p)

SpentEntry == Stored /\ (Current(meta) \/ \E p \in Procs : pc[p] = "record")

Unretried ==
    \A p \in Procs : pc[p] \notin Downloading \cup {"idle"} => call[p].validators

CauseInv ==
    /\ downloads <= Causes
    /\ downloads = Causes => SpentEntry /\ \A p \in Procs : SpentFor(p)
    /\ downloads + 1 >= Causes => \A p \in Procs : LastFor(p)

-----------------------------------------------------------------------------
\* The steps of a fetch that read the store at most.
Reads(p) ==
    \/ Start(p) \/ LookupBlob(p) \/ ReadMeta(p) \/ StatSource(p) \/ HashSource(p)
    \/ VerifyBlob(p) \/ AcquireLock(p) \/ BeginDownload(p) \/ ContactSource(p)
    \/ FinishCopy(p) \/ TouchBlob(p)

LEMMA CausesTyped == ASSUME Typed PROVE Causes \in Nat /\ downloads \in Nat
BY DEF Typed, TypeOK, Causes, Budgets

LEMMA ReadsMove ==
    ASSUME Typed, NEW p \in Procs, Reads(p)
    PROVE  /\ UNCHANGED <<src, blob, meta, downloads, Causes>>
           /\ pc[p] # "record" /\ pc'[p] # "record"
<1>0. pc \in [Procs -> Labels] /\ used \in [Budgets -> Nat]
  BY DEF Typed, TypeOK
<1>1. UNCHANGED <<src, blob, meta, downloads>>
  BY DEF Reads, Start, LookupBlob, ReadMeta, StatSource, HashSource, VerifyBlob, AcquireLock,
     BeginDownload, ContactSource, FinishCopy, TouchBlob, store
<1>2. Causes' = Causes
  <2>1. used' = used \/ Spend("fetch")
    BY DEF Reads, Start, LookupBlob, ReadMeta, StatSource, HashSource, VerifyBlob, AcquireLock,
       BeginDownload, ContactSource, FinishCopy, TouchBlob
  <2> QED BY <1>0, <2>1 DEF Causes, Spend, Budgets
<1> USE DEF Goto
<1>3. CASE Start(p) \/ AcquireLock(p) \/ BeginDownload(p) \/ FinishCopy(p)
  BY <1>0, <1>1, <1>2, <1>3 DEF Start, AcquireLock, BeginDownload, FinishCopy
<1>4. CASE ContactSource(p) \/ VerifyBlob(p)
  BY <1>0, <1>1, <1>2, <1>4 DEF ContactSource, Unchanged, NextSource, VerifyBlob, Return, Serve
<1>6. CASE TouchBlob(p)
  BY <1>1, <1>2, <1>6, TouchMoves, ConstantsAssumption
<1>5. CASE LookupBlob(p) \/ ReadMeta(p) \/ StatSource(p) \/ HashSource(p)
  BY <1>0, <1>1, <1>2, <1>5 DEF LookupBlob, ReadMeta, StatSource, HashSource, SourceMissing,
     NoHit, Accept, Return, Serve
<1> QED BY <1>3, <1>4, <1>5, <1>6 DEF Reads

\* A process that holds the lock and does not record finds the entry current.
LEMMA HeldIsCurrent ==
    ASSUME SingleFlight, SpentEntry, NEW p \in Procs, lock = p, pc[p] # "record"
    PROVE  Current(meta)
BY DEF SingleFlight, SpentEntry, Downloading

\* What the fetch of p needs of shared state, when nothing of it changes.
LEMMA ForIsLocal ==
    ASSUME NEW q \in Procs, pc'[q] = pc[q], call'[q] = call[q],
           UNCHANGED <<src, meta>>, lock' = q => lock = q
    PROVE  /\ SpentFor(q) => SpentFor(q)'
           /\ LastFor(q) => LastFor(q)'
<1>1. /\ Ahead(q)' <=> Ahead(q)
      /\ Harmless(q)' <=> Harmless(q)
      /\ Holds(q)' <=> Holds(q)
      /\ Refused(q)' <=> Refused(q)
      /\ Current(call[q].prior)' <=> Current(call[q].prior)
  BY DEF Ahead, Harmless, Rejects, Holds, Refused, Current, FirstOk, TagOf, Conditional
<1> QED BY <1>1 DEF SpentFor, LastFor

-----------------------------------------------------------------------------
(* The steps of one fetch.                                                 *)

\* Rung 0 finds nothing against an entry that is the current answer.
LEMMA RungZeroAccepts ==
    ASSUME ConstantsAssumption, Typed, NEW p \in Procs, Current(call[p].man),
           StatSource(p) \/ HashSource(p)
    PROVE  ~NoHit(p) \/ pc'[p] # "prior"
<1>0. pc \in [Procs -> Labels] /\ pc[p] \in {"stat", "hash"} /\ NumSources \in Nat \ {0}
  BY ConstantsAssumption DEF Typed, TypeOK, StatSource, HashSource, ConstantsAssumption
<1>1. PICK s \in Sources : FirstOk(s) /\ call[p].man.sha = src[s].content
  BY DEF Current
<1>2. NumSources = 1 => s = 1
  BY <1>0 DEF Sources
<1>3. src[1].state = "ok" => s = 1
  <2>1. s # 1 => 1 < s /\ 1 \in Sources
    BY <1>0 DEF Sources
  <2> QED BY <1>1, <2>1 DEF FirstOk
<1>4. src[1].state = "missing" => NumSources # 1
  BY <1>1, <1>2 DEF FirstOk
<1>5. src[1].state \in States
  <2>1. 1 \in Sources
    BY <1>0 DEF Sources
  <2> QED BY <2>1 DEF Typed, TypeOK
<1>6. Accept(p, call[p].man) \/ Goto(p, "hash")
  BY <1>1, <1>3, <1>4, <1>5 DEF StatSource, HashSource, SourceMissing, States
<1> QED BY <1>0, <1>6 DEF Accept, Serve, Goto

\* Up to the download.
LEMMA CheckKeepsCauses ==
    ASSUME ConstantsAssumption, Typed, SingleFlight, Unretried, NEW p \in Procs,
           \/ Start(p) \/ LookupBlob(p) \/ ReadMeta(p) \/ StatSource(p) \/ HashSource(p)
           \/ VerifyBlob(p) \/ AcquireLock(p)
    PROVE  /\ SpentEntry /\ SpentFor(p) => SpentFor(p)'
           /\ LastFor(p)'
           /\ pc'[p] # "idle" => call'[p].validators
<1> USE DEF Goto
<1>0. /\ pc \in [Procs -> Labels] /\ call \in [Procs -> Call] /\ call[p] \in Call
      /\ pc[p] \in {"idle", "lookup", "meta", "stat", "hash", "verify", "wait"}
      /\ pc[p] # "idle" => call[p].validators
      /\ meta' = meta
  BY DEF Typed, TypeOK, Unretried, Downloading, store, Start, LookupBlob, ReadMeta,
     StatSource, HashSource, VerifyBlob, AcquireLock
<1>1. ASSUME NoHit(p), pc[p] # "idle"
      PROVE  /\ pc'[p] \in {"idle", "wait", "prior"} /\ (pc'[p] = "prior" => lock = p)
             /\ pc'[p] # "idle" => call'[p].validators
  BY <1>0, <1>1 DEF NoHit, Return
<1>2. ASSUME NEW m, Accept(p, m), pc[p] # "idle"
      PROVE  pc'[p] \in {"idle", "verify"} /\ (pc'[p] # "idle" => call'[p].validators)
  BY <1>0, <1>2 DEF Accept, Serve, Call
<1>3. SUFFICES /\ pc'[p] \in {"idle", "lookup", "meta", "stat", "hash", "verify", "wait", "prior"}
               /\ pc'[p] # "idle" => call'[p].validators
               /\ SpentEntry /\ SpentFor(p) =>
                     /\ pc'[p] \in {"stat", "hash"} /\ lock' = p => call'[p].man = meta
                     /\ pc'[p] = "prior" =>
                           \/ Expected[p] # None /\ Expected[p] # meta.sha
                           \/ Expected[p] = None /\ meta.tag # None
  BY <1>0 DEF SpentFor, LastFor
<1>4. CASE Start(p)
  BY <1>0, <1>4 DEF Start, NoCall
<1>5. CASE AcquireLock(p)
  BY <1>0, <1>5 DEF AcquireLock
<1>6. CASE VerifyBlob(p)
  BY <1>0, <1>6 DEF VerifyBlob, Return, Serve
<1>7. CASE LookupBlob(p)
  <2>1. CASE Found(Ext[1]) = {} /\ NoHit(p)
    <3>1. ~SpentEntry
      BY <2>1 DEF SpentEntry, Stored, Found
    <3> QED BY <1>1, <1>7, <2>1, <3>1 DEF LookupBlob
  <2>2. CASE \E e : call' = [call EXCEPT ![p].path = e] /\ Goto(p, "meta")
    BY <1>0, <1>7, <2>2 DEF Call, LookupBlob
  <2> QED BY <1>7, <2>1, <2>2 DEF LookupBlob
<1>8. CASE ReadMeta(p)
  <2>0. pc[p] = "meta"
    BY <1>8 DEF ReadMeta
  <2>1. CASE NoHit(p)
    <3>1. ASSUME SpentEntry, pc'[p] = "prior"
          PROVE  \/ Expected[p] # None /\ Expected[p] # meta.sha
                 \/ Expected[p] = None /\ meta.tag # None
      <4>1. Current(meta) /\ p \notin Offline
        BY <1>0, <1>1, <2>0, <2>1, <3>1, HeldIsCurrent DEF NoHit, Return
      <4>2. meta # None
        BY <4>1, ConstantsAssumption DEF Current, ConstantsAssumption
      <4>3. ~(Accept(p, meta))
        BY <1>0, <3>1 DEF Accept, Serve
      <4>4. Decide(p, meta) # "Hit"
        BY <1>0, <1>8, <3>1, <4>1, <4>2, <4>3 DEF ReadMeta
      <4> QED BY <4>1, <4>4 DEF Decide, Current
    <3> QED BY <1>1, <2>0, <2>1, <3>1
  <2>2. CASE Accept(p, meta)
    BY <1>2, <2>0, <2>2
  <2>3. CASE Goto(p, "stat") /\ call' = [call EXCEPT ![p].man = meta]
    BY <1>0, <2>0, <2>3 DEF Call
  <2> QED BY <1>8, <2>1, <2>2, <2>3 DEF ReadMeta
<1>9. CASE StatSource(p) \/ HashSource(p)
  <2>0. pc[p] \in {"stat", "hash"}
    BY <1>9 DEF StatSource, HashSource
  <2>1. CASE NoHit(p)
    <3>1. ASSUME SpentEntry, SpentFor(p), pc'[p] = "prior" PROVE FALSE
      <4>1. lock = p
        BY <1>1, <2>0, <2>1, <3>1
      <4>2. Current(meta) /\ call[p].man = meta
        BY <2>0, <3>1, <4>1, HeldIsCurrent DEF SpentFor
      <4> QED BY <1>9, <2>1, <3>1, <4>2, RungZeroAccepts
    <3> QED BY <1>1, <2>0, <2>1, <3>1
  <2>2. CASE Accept(p, call[p].man)
    BY <1>2, <2>0, <2>2
  <2>3. CASE Goto(p, "hash") /\ UNCHANGED <<lock, call>>
    BY <1>0, <2>0, <2>3 DEF SpentFor
  <2> QED BY <1>9, <2>1, <2>2, <2>3 DEF StatSource, HashSource, SourceMissing
<1> QED BY <1>4, <1>5, <1>6, <1>7, <1>8, <1>9

\* The request.
LEMMA BeginKeepsCauses ==
    ASSUME ConstantsAssumption, Typed, SingleFlight, NEW p \in Procs, BeginDownload(p)
    PROVE  /\ SpentEntry /\ SpentFor(p) => SpentFor(p)'
           /\ LastFor(p)'
<1> DEFINE new == [call[p] EXCEPT !.prior = meta, !.at = 1, !.absent = TRUE]
<1>0. /\ pc \in [Procs -> Labels] /\ call \in [Procs -> Call] /\ call[p] \in Call
      /\ NumSources \in Nat \ {0} /\ pc[p] = "prior" /\ lock = p
  BY ConstantsAssumption DEF Typed, TypeOK, BeginDownload, SingleFlight, Downloading,
     ConstantsAssumption
<1>1. /\ new.prior = meta /\ new.at = 1 /\ new.validators = call[p].validators
  BY <1>0 DEF Call
<1>2. call'[p] = new /\ pc'[p] = "source" /\ UNCHANGED <<src, meta>>
  BY <1>0 DEF BeginDownload, Goto, store
<1> HIDE DEF new
<1>3. Ahead(p)'
  BY <1>0, <1>1, <1>2 DEF Ahead, Sources
<1>4. ASSUME SpentEntry, SpentFor(p) PROVE Current(call[p].prior)' /\ Harmless(p)'
  <2>1. Current(meta)
    BY <1>0, <1>4, HeldIsCurrent
  <2>2. PICK s \in Sources : FirstOk(s) /\ meta.sha = src[s].content /\ meta.tag = TagOf(s)
    BY <2>1 DEF Current
  <2>3. Conditional(p)' = meta.tag
    <3>1. meta # None
      BY <2>1, ConstantsAssumption DEF Current, ConstantsAssumption
    <3> QED BY <1>0, <1>1, <1>2, <1>4, <3>1 DEF Conditional, SpentFor
  <2>4. Rejects(s, p)'
    BY <1>0, <1>2, <1>4, <2>2, <2>3 DEF Rejects, SpentFor, TagOf
  <2>5. 1 <= s
    BY <1>0 DEF Sources
  <2>6. Harmless(p)'
    BY <1>1, <1>2, <2>2, <2>4, <2>5 DEF Harmless, FirstOk
  <2>7. Current(call[p].prior)'
    BY <1>1, <1>2, <2>1 DEF Current, FirstOk, TagOf
  <2> QED BY <2>6, <2>7
<1> QED BY <1>2, <1>3, <1>4 DEF SpentFor, LastFor

\* The answer of a source.
LEMMA ContactKeepsCauses ==
    ASSUME ConstantsAssumption, Typed, NEW p \in Procs, ContactSource(p)
    PROVE  /\ SpentFor(p) => SpentFor(p)'
           /\ LastFor(p) => LastFor(p)'
<1> DEFINE s == call[p].at
           c == src[s].content
<1>0. /\ pc \in [Procs -> Labels] /\ call \in [Procs -> Call] /\ call[p] \in Call
      /\ NumSources \in Nat \ {0} /\ pc[p] = "source" /\ s \in Sources
      /\ src' = src
  BY ConstantsAssumption DEF Typed, TypeOK, ContactSource, Call, ConstantsAssumption
<1>1. CASE src[s].state # "ok"
  <2>1. PICK b \in BOOLEAN : NextSource(p, b)
    <3>1. src[s].state \in States
      BY <1>0 DEF Typed, TypeOK
    <3> QED BY <1>1, <3>1 DEF ContactSource, States
  <2>2. CASE s < NumSources
    <3> DEFINE new == [call[p] EXCEPT !.at = s + 1, !.absent = call[p].absent /\ b]
    <3>1. /\ new.at = s + 1 /\ new.prior = call[p].prior
          /\ new.validators = call[p].validators
      BY <1>0 DEF Call
    <3>2. call'[p] = new /\ pc'[p] = "source"
      BY <1>0, <2>1, <2>2 DEF NextSource
    <3> HIDE DEF new
    <3>3. Ahead(p) => Ahead(p)'
      <4>1. \A t \in Sources : t < s + 1 => t < s \/ t = s
        BY <1>0 DEF Sources
      <4> QED BY <1>0, <1>1, <3>1, <3>2, <4>1 DEF Ahead
    <3>4. Conditional(p)' = Conditional(p)
      BY <3>1, <3>2 DEF Conditional
    <3>5. Harmless(p) => Harmless(p)'
      <4> SUFFICES ASSUME Harmless(p) PROVE Harmless(p)'
        OBVIOUS
      <4>1. PICK z \in Sources :
               /\ s <= z /\ src[z].state = "ok" /\ Rejects(z, p)
               /\ \A t \in Sources : s <= t /\ t < z => src[t].state # "ok"
        BY DEF Harmless
      <4>2. s + 1 <= z /\ \A t \in Sources : s + 1 <= t => s <= t
        <5>1. z # s
          BY <1>1, <4>1
        <5> QED BY <1>0, <4>1, <5>1 DEF Sources
      <4>3. Rejects(z, p)'
        BY <1>0, <3>4, <4>1 DEF Rejects
      <4> QED BY <1>0, <3>1, <3>2, <4>1, <4>2, <4>3 DEF Harmless
    <3>6. Current(call[p].prior) => Current(call[p].prior)'
      BY <1>0, <3>1, <3>2 DEF Current, FirstOk, TagOf
    <3> QED BY <1>0, <3>2, <3>3, <3>5, <3>6 DEF SpentFor, LastFor
  <2>3. CASE ~(s < NumSources)
    <3>1. pc'[p] = "idle"
      BY <1>0, <2>1, <2>3 DEF NextSource, Return, Goto
    <3> QED BY <3>1 DEF SpentFor, LastFor
  <2> QED BY <2>2, <2>3
<1>2. CASE src[s].state = "ok"
  <2>1. Ahead(p) => FirstOk(s)
    BY <1>2 DEF Ahead, FirstOk
  <2>2. Harmless(p) => Rejects(s, p)
    <3> SUFFICES ASSUME Harmless(p) PROVE Rejects(s, p)
      OBVIOUS
    <3>1. PICK z \in Sources :
             /\ s <= z /\ src[z].state = "ok" /\ Rejects(z, p)
             /\ \A t \in Sources : s <= t /\ t < z => src[t].state # "ok"
      BY DEF Harmless
    <3>2. z = s
      <4>1. ~(s < z)
        BY <1>0, <1>2, <3>1 DEF Sources
      <4> QED BY <1>0, <3>1, <4>1 DEF Sources
    <3> QED BY <3>1, <3>2
  <2>3. CASE Goto(p, "touch") /\ UNCHANGED <<lock, call>>
    <3>1. pc'[p] = "touch" /\ call'[p] = call[p]
      BY <1>0, <2>3 DEF Goto
    <3>2. Current(call[p].prior) => Current(call[p].prior)'
      BY <1>0, <3>1 DEF Current, FirstOk, TagOf
    <3> QED BY <1>0, <3>1, <3>2 DEF SpentFor, LastFor
  <2>4. ASSUME NEW t, NEW l \in {"copy", "commit"}, t = TagOf(s), Goto(p, l),
               call' = [call EXCEPT ![p].sha = c, ![p].tag = t],
               s \in FileSources \/ ~(Tag[c] # None /\ Conditional(p) = Tag[c])
        PROVE  (SpentFor(p) => SpentFor(p)') /\ (LastFor(p) => LastFor(p)')
    <3> DEFINE new == [call[p] EXCEPT !.sha = c, !.tag = t]
    <3>1. new.at = s /\ new.sha = c /\ new.tag = t
      BY <1>0 DEF Call
    <3>2. call'[p] = new /\ pc'[p] = l
      BY <1>0, <2>4 DEF Goto
    <3> HIDE DEF new
    <3>3. Ahead(p) => Holds(p)'
      BY <1>0, <2>1, <2>4, <3>1, <3>2 DEF Holds, FirstOk, TagOf
    <3>4. Harmless(p) => Refused(p)'
      BY <1>0, <2>2, <2>4, <3>1, <3>2 DEF Rejects, Refused
    <3> QED BY <1>0, <2>4, <3>2, <3>3, <3>4 DEF SpentFor, LastFor
  <2>5. CASE s \in FileSources
    BY <1>2, <2>4, <2>5 DEF ContactSource, TagOf
  <2>6. CASE s \notin FileSources
    BY <1>2, <2>3, <2>4, <2>6 DEF ContactSource, Unchanged, TagOf
  <2> QED BY <2>5, <2>6
<1> QED BY <1>1, <1>2

LEMMA CopyKeepsCauses ==
    ASSUME Typed, NEW p \in Procs, FinishCopy(p)
    PROVE  /\ SpentFor(p) => SpentFor(p)'
           /\ LastFor(p) => LastFor(p)'
<1>1. pc[p] = "copy" /\ pc'[p] = "commit" /\ UNCHANGED <<src, call>>
  BY DEF FinishCopy, Goto, Typed, TypeOK
<1>2. (Holds(p)' <=> Holds(p)) /\ (Refused(p)' <=> Refused(p))
  BY <1>1 DEF Holds, Refused, FirstOk, TagOf
<1> QED BY <1>1, <1>2 DEF SpentFor, LastFor

\* The lookup after a 304 finds the blob of a stored entry.
LEMMA TouchKeepsCauses ==
    ASSUME Typed, NEW p \in Procs, TouchBlob(p)
    PROVE  /\ SpentEntry /\ SpentFor(p) => SpentFor(p)'
           /\ LastFor(p)'
<1>1. /\ pc[p] = "touch" /\ pc'[p] \in {"refresh", "prior", "idle"} /\ src' = src
      /\ Found(Ext[call[p].at]) # {} => pc'[p] = "refresh" /\ call'[p].prior = call[p].prior
  BY TouchMoves, ConstantsAssumption
<1>2. LastFor(p)'
  BY <1>1 DEF LastFor
<1>3. ASSUME SpentEntry, SpentFor(p) PROVE SpentFor(p)'
  <2>1. Found(Ext[call[p].at]) # {}
    BY <1>3 DEF SpentEntry, Stored, Found
  <2>2. Current(call[p].prior)'
    BY <1>1, <1>3, <2>1 DEF SpentFor, Current, FirstOk, TagOf
  <2> QED BY <1>1, <2>1, <2>2 DEF SpentFor
<1> QED BY <1>2, <1>3

\* The steps that write the store.
LEMMA CommitKeepsCauses ==
    ASSUME ConstantsAssumption, Typed, NEW p \in Procs, CommitBlob(p)
    PROVE  \/ /\ Refused(p) /\ UNCHANGED <<src, blob, meta, downloads, Causes>>
              /\ pc'[p] = "idle"
           \/ /\ ~Refused(p) /\ UNCHANGED <<src, meta, Causes>>
              /\ downloads' = downloads + 1
              /\ pc'[p] = "record" /\ Stored'
              /\ Holds(p) => Holds(p)'
<1>0. /\ pc \in [Procs -> Labels] /\ call \in [Procs -> Call] /\ call[p] \in Call
      /\ blob \in [Exts -> Bytes \cup {None}] /\ call[p].sha \in Bytes
      /\ Ext[call[p].at] \in Exts
  BY DEF Typed, TypeOK, PhaseOK, CommitBlob, Call, Exts
<1>1. UNCHANGED <<src, meta, Causes>>
  BY DEF CommitBlob, Causes
<1>2. CASE Refused(p)
  BY <1>0, <1>1, <1>2 DEF CommitBlob, Refused, Return, Goto
<1>3. CASE ~Refused(p)
  <2> DEFINE new == [call[p] EXCEPT !.path = Ext[call[p].at]]
  <2>1. new.at = call[p].at /\ new.sha = call[p].sha /\ new.tag = call[p].tag
    BY <1>0 DEF Call
  <2>2. /\ call'[p] = new /\ pc'[p] = "record" /\ downloads' = downloads + 1
        /\ blob' = [blob EXCEPT ![Ext[call[p].at]] = call[p].sha]
    BY <1>0, <1>3 DEF CommitBlob, Refused, RenameBlob, Goto
  <2> HIDE DEF new
  <2>3. Stored'
    <3>1. call[p].sha # None
      BY <1>0, ConstantsAssumption DEF ConstantsAssumption
    <3> QED BY <1>0, <2>2, <3>1 DEF Stored
  <2>4. Holds(p) => Holds(p)'
    BY <1>1, <2>1, <2>2 DEF Holds, FirstOk, TagOf
  <2> QED BY <1>1, <1>3, <2>2, <2>3, <2>4
<1> QED BY <1>2, <1>3

LEMMA RecordKeepsCauses ==
    ASSUME Typed, NEW p \in Procs, WriteManifest(p)
    PROVE  /\ UNCHANGED <<src, blob, downloads, Causes>> /\ pc'[p] = "idle"
           /\ Holds(p) => Current(meta)'
<1>0. /\ pc \in [Procs -> Labels] /\ call[p] \in Call /\ call[p].at \in Sources
      /\ call[p].sha \in Bytes
  BY DEF Typed, TypeOK, PhaseOK, WriteManifest, Call
<1>1. UNCHANGED <<src, blob, downloads, Causes>> /\ pc'[p] = "idle"
  BY <1>0 DEF WriteManifest, Causes, Serve, Goto
<1>2. meta' = [sha |-> call[p].sha, tag |-> call[p].tag, fresh |-> TRUE]
  BY DEF WriteManifest
<1>3. /\ meta' \in Manifest /\ meta'.sha = call[p].sha /\ meta'.tag = call[p].tag
      /\ meta'.fresh
  BY <1>0, <1>2 DEF Manifest, Call
<1> QED BY <1>0, <1>1, <1>3 DEF Holds, Current, FirstOk, TagOf

LEMMA RefreshKeepsCauses ==
    ASSUME Typed, NEW p \in Procs, RefreshManifest(p)
    PROVE  /\ UNCHANGED <<src, blob, downloads, Causes>> /\ pc'[p] = "idle"
           /\ Current(call[p].prior) => Current(meta)'
<1>1. UNCHANGED <<src, blob, downloads, Causes>> /\ pc'[p] = "idle"
  BY DEF RefreshManifest, Causes, Serve, Goto, Typed, TypeOK
<1>2. pc[p] = "refresh" /\ meta' = [call[p].prior EXCEPT !.fresh = TRUE]
  BY DEF RefreshManifest
<1>3. /\ meta' \in Manifest /\ meta'.fresh
      /\ meta'.sha = call[p].prior.sha /\ meta'.tag = call[p].prior.tag
  BY <1>2, RefreshedTyped
<1> QED BY <1>1, <1>3 DEF Current, FirstOk, TagOf

\* A cause is one more download allowed.
LEMMA CauseGrows ==
    ASSUME Typed, NEW k \in Budgets \ {"fetch"}, Spend(k)
    PROVE  Causes' = Causes + 1
BY DEF Typed, TypeOK, Spend, Causes, Budgets

\* A source that changes does not turn a download in vain into one that counts,
\* unless it comes after the source that is asked.
LEMMA ChangeKeepsVain ==
    ASSUME Typed, NEW z \in Sources, ChangeSource(z), NEW p \in Procs,
           pc[p] = "source", Ahead(p), Harmless(p)
    PROVE  Ahead(p)' \/ Harmless(p)'
<1>0. /\ src \in [Sources -> [state : States, content : Content]]
      /\ call[p].at \in Nat /\ z \in Nat
  BY ConstantsAssumption DEF Typed, TypeOK, Call, Sources, ConstantsAssumption
<1>1. /\ call'[p].at = call[p].at /\ call'[p].prior = call[p].prior
      /\ call'[p].validators = call[p].validators
      /\ \A s \in Sources \ {z} : src'[s] = src[s]
  <2>1. Environment
    BY DEF Environment
  <2>2. \A s \in Sources \ {z} : src'[s] = src[s]
    BY <1>0 DEF ChangeSource
  <2> QED BY <2>1, <2>2, EnvironmentLeaves
<1>2. CASE z < call[p].at
  <2>1. Conditional(p)' = Conditional(p)
    BY <1>1 DEF Conditional
  <2>2. \A s \in Sources : call[p].at <= s => s # z
    BY <1>0, <1>2
  <2> QED BY <1>1, <2>1, <2>2 DEF Harmless, Rejects
<1>3. CASE ~(z < call[p].at)
  <2>1. \A s \in Sources : s < call[p].at => s # z
    BY <1>3
  <2> QED BY <1>1, <2>1 DEF Ahead
<1> QED BY <1>2, <1>3

\* A cause is added: an eviction, an expiry, a fault or a change of a source.
LEMMA CauseKeepsCauses ==
    ASSUME Typed, CauseInv, Causes' = Causes + 1, downloads' = downloads,
           \A p \in Procs : /\ pc'[p] # "idle" =>
                                 pc'[p] = pc[p] /\ call'[p].sha \in {call[p].sha, Torn}
                            /\ SpentFor(p) /\ pc'[p] = "source" => (Ahead(p) \/ Harmless(p))'
    PROVE  CauseInv'
<1>1. downloads <= Causes /\ Causes \in Nat /\ downloads \in Nat
  BY CausesTyped DEF CauseInv
<1>2. downloads' <= Causes' /\ downloads' # Causes'
  BY <1>1
<1>3. ASSUME downloads' + 1 >= Causes', NEW p \in Procs PROVE LastFor(p)'
  <2>1. downloads = Causes
    BY <1>1, <1>3
  <2>2. SpentFor(p)
    BY <2>1 DEF CauseInv
  <2>3. pc'[p] \in {"copy", "commit"} => Refused(p)'
    <3>1. Expected[p] # None => Expected[p] # Torn
      BY ConstantsAssumption DEF ConstantsAssumption
    <3> QED BY <2>2, <3>1 DEF SpentFor, Refused
  <2>4. pc'[p] = "source" => (Ahead(p) \/ Harmless(p))'
    BY <2>2
  <2> QED BY <2>3, <2>4 DEF LastFor
<1> QED BY <1>2, <1>3 DEF CauseInv

LEMMA EnvironmentKeepsCauses ==
    ASSUME Typed, CauseInv, Environment PROVE CauseInv'
<1>1. /\ UNCHANGED <<pc, downloads>>
      /\ \A q \in Procs : call'[q].at = call[q].at /\ call'[q].sha \in {call[q].sha, Torn}
  BY EnvironmentLeaves
<1>2. Causes' = Causes + 1
  <2>1. \E k \in Budgets \ {"fetch"} : Spend(k)
    BY DEF Environment, ChangeSource, EvictBlob, EvictManifest, Expire, Budgets
  <2> QED BY <2>1, CauseGrows
<1>3. ASSUME NEW p \in Procs, SpentFor(p), pc'[p] = "source"
      PROVE  (Ahead(p) \/ Harmless(p))'
  <2>1. pc[p] = "source" /\ Ahead(p) /\ Harmless(p)
    BY <1>1, <1>3 DEF SpentFor
  <2>2. CASE \E z \in Sources : ChangeSource(z)
    BY <2>1, <2>2, ChangeKeepsVain
  <2>3. CASE ~\E z \in Sources : ChangeSource(z)
    <3>1. UNCHANGED src
      BY <2>3 DEF Environment, EvictBlob, EvictManifest, Expire
    <3> QED BY <1>1, <2>1, <3>1 DEF Ahead
  <2> QED BY <2>2, <2>3
<1> QED BY <1>1, <1>2, <1>3, CauseKeepsCauses

LEMMA FaultKeepsCauses ==
    ASSUME Typed, CauseInv, NEW p \in Procs, FailManifest(p) \/ Crash(p) PROVE CauseInv'
<1>1. /\ \A q \in Procs \ {p} : pc'[q] = pc[q] /\ call'[q] = call[q]
      /\ pc \in [Procs -> Labels]
  BY StepIsLocal DEF Typed, TypeOK
<1>2. pc'[p] = "idle" /\ UNCHANGED <<src, downloads>>
  BY <1>1 DEF FailManifest, Crash, Return, Goto
<1>3. Causes' = Causes + 1
  BY CauseGrows DEF FailManifest, Crash, Budgets
<1>4. ASSUME NEW q \in Procs, SpentFor(q), pc'[q] = "source"
      PROVE  (Ahead(q) \/ Harmless(q))'
  <2>1. q # p /\ pc[q] = "source" /\ call'[q] = call[q]
    BY <1>1, <1>2, <1>4
  <2> QED BY <1>2, <1>4, <2>1 DEF SpentFor, Ahead
<1> QED BY <1>1, <1>2, <1>3, <1>4, CauseKeepsCauses

-----------------------------------------------------------------------------
(* The inductive invariant.                                                *)

LEMMA UnretriedStep ==
    ASSUME ConstantsAssumption, Typed, SingleFlight, Unretried, Next PROVE Unretried'
<1>1. ASSUME NEW p \in Procs, Start(p) \/ Step(p) \/ FailManifest(p) \/ Crash(p)
      PROVE  pc'[p] \notin Downloading \cup {"idle"} => call'[p].validators
  <2> USE DEF Goto, Downloading
  <2>0. pc \in [Procs -> Labels]
    BY DEF Typed, TypeOK
  <2>1. CASE \/ Start(p) \/ LookupBlob(p) \/ ReadMeta(p) \/ StatSource(p) \/ HashSource(p)
             \/ VerifyBlob(p) \/ AcquireLock(p)
    BY <2>1, CheckKeepsCauses
  <2>2. CASE BeginDownload(p) \/ FinishCopy(p)
    BY <2>0, <2>2 DEF BeginDownload, FinishCopy
  <2>3. CASE ContactSource(p)
    BY <2>0, <2>3 DEF ContactSource, Unchanged, NextSource, Return
  <2>4. CASE CommitBlob(p) \/ WriteManifest(p) \/ FailManifest(p) \/ Crash(p) \/ RefreshManifest(p)
    BY <2>0, <2>4 DEF CommitBlob, WriteManifest, FailManifest, Crash, RefreshManifest, Return, Serve
  <2>5. CASE TouchBlob(p)
    BY <2>5, TouchMoves
  <2> QED BY <1>1, <2>1, <2>2, <2>3, <2>4, <2>5 DEF Step
<1>2. CASE \E p \in Procs : Start(p) \/ Step(p) \/ FailManifest(p) \/ Crash(p)
  BY <1>1, <1>2, StepIsLocal DEF Unretried
<1>3. CASE Environment \/ Finished
  <2>1. UNCHANGED pc /\ \A q \in Procs : call'[q].validators = call[q].validators
    BY <1>3, EnvironmentLeaves DEF Finished
  <2> QED BY <2>1 DEF Unretried
<1> QED BY <1>2, <1>3 DEF Next, Action

\* While p reads the store, what the others rely on stays.
LEMMA ReadsKeepCauses ==
    ASSUME ConstantsAssumption, Typed, SingleFlight, Unretried, CauseInv,
           NEW p \in Procs, Reads(p)
    PROVE  CauseInv'
<1>1. /\ UNCHANGED <<src, blob, meta, downloads, Causes>>
      /\ pc[p] # "record" /\ pc'[p] # "record"
  BY ReadsMove
<1>2. /\ \A q \in Procs \ {p} : pc'[q] = pc[q] /\ call'[q] = call[q]
      /\ lock' \in {lock, p, None}
  BY StepIsLocal DEF Reads, Step
<1>3. \A q \in Procs \ {p} : (SpentFor(q) => SpentFor(q)') /\ (LastFor(q) => LastFor(q)')
  <2>1. \A q \in Procs \ {p} : lock' = q => lock = q
    BY <1>2, ConstantsAssumption DEF ConstantsAssumption
  <2> QED BY <1>1, <1>2, <2>1, ForIsLocal
<1>4. /\ SpentEntry /\ SpentFor(p) => SpentFor(p)'
      /\ LastFor(p) => LastFor(p)'
  <2>1. CASE BeginDownload(p)
    BY <2>1, BeginKeepsCauses
  <2>2. CASE ContactSource(p) \/ FinishCopy(p) \/ TouchBlob(p)
    BY <2>2, ContactKeepsCauses, CopyKeepsCauses, TouchKeepsCauses
  <2>3. CASE ~BeginDownload(p) /\ ~ContactSource(p) /\ ~FinishCopy(p) /\ ~TouchBlob(p)
    BY <2>3, CheckKeepsCauses DEF Reads
  <2> QED BY <2>1, <2>2, <2>3
<1>5. SpentEntry => SpentEntry'
  <2>1. Stored' <=> Stored
    BY <1>1 DEF Stored
  <2>2. Current(meta)' <=> Current(meta)
    BY <1>1 DEF Current, FirstOk, TagOf
  <2>3. \A q \in Procs : pc[q] = "record" => pc'[q] = "record"
    BY <1>1, <1>2
  <2> QED BY <2>1, <2>2, <2>3 DEF SpentEntry
<1> QED BY <1>1, <1>3, <1>4, <1>5 DEF CauseInv

\* A download that is committed takes a cause, and the last one takes it for
\* the current answer; while it runs no other fetch downloads.
LEMMA WritesKeepCauses ==
    ASSUME ConstantsAssumption, Typed, SingleFlight, CauseInv, NEW p \in Procs,
           CommitBlob(p) \/ WriteManifest(p) \/ RefreshManifest(p)
    PROVE  CauseInv'
<1>0. /\ downloads <= Causes /\ Causes \in Nat /\ downloads \in Nat
  BY CausesTyped DEF CauseInv
<1>1. /\ \A q \in Procs \ {p} : pc'[q] = pc[q] /\ call'[q] = call[q]
      /\ lock' \in {lock, p, None} /\ lock = p
      /\ pc[p] \in Downloading
      /\ \A q \in Procs \ {p} : pc[q] \notin Downloading
  <2>1. pc[p] \in Downloading
    BY DEF CommitBlob, WriteManifest, RefreshManifest, Downloading
  <2> QED BY <2>1, StepIsLocal, OthersOutside DEF Step, SingleFlight
<1>2. \A q \in Procs \ {p} : SpentFor(q)' /\ LastFor(q)'
  <2>1. \A q \in Procs \ {p} : lock' # q
    BY <1>1, ConstantsAssumption DEF ConstantsAssumption
  <2> QED BY <1>1, <2>1 DEF SpentFor, LastFor, Downloading
<1>3. ASSUME /\ downloads' <= Causes'
             /\ downloads' = Causes' => SpentEntry' /\ SpentFor(p)'
             /\ downloads' + 1 >= Causes' => LastFor(p)'
      PROVE  CauseInv'
  BY <1>2, <1>3 DEF CauseInv
<1>4. ASSUME UNCHANGED <<src, blob, downloads, Causes>>, pc'[p] = "idle",
             downloads = Causes => Current(meta)'
      PROVE  CauseInv'
  <2>1. Stored' <=> Stored
    BY <1>4 DEF Stored
  <2>2. LastFor(p)' /\ (downloads = Causes => SpentFor(p)' /\ SpentEntry')
    BY <1>4, <2>1 DEF SpentFor, LastFor, SpentEntry, CauseInv
  <2> QED BY <1>0, <1>2, <1>4, <2>2 DEF CauseInv
<1>5. CASE CommitBlob(p)
  <2>1. CASE /\ Refused(p) /\ UNCHANGED <<src, blob, meta, downloads, Causes>>
             /\ pc'[p] = "idle"
    <3>1. ASSUME downloads = Causes PROVE Current(meta)'
      <4>1. Current(meta)
        BY <1>1, <1>5, <3>1, HeldIsCurrent DEF CauseInv, CommitBlob
      <4> QED BY <2>1, <4>1 DEF Current, FirstOk, TagOf
    <3> QED BY <1>4, <2>1, <3>1
  <2>2. CASE /\ ~Refused(p) /\ UNCHANGED <<src, meta, Causes>>
             /\ downloads' = downloads + 1
             /\ pc'[p] = "record" /\ Stored'
             /\ Holds(p) => Holds(p)'
    <3>1. pc[p] = "commit"
      BY <1>5 DEF CommitBlob
    <3>2. downloads # Causes
      BY <2>2, <3>1 DEF CauseInv, SpentFor
    <3>3. LastFor(p)'
      BY <2>2 DEF LastFor
    <3>4. ASSUME downloads' = Causes' PROVE SpentEntry' /\ SpentFor(p)'
      <4>1. downloads + 1 >= Causes
        BY <1>0, <2>2, <3>4
      <4>2. Holds(p)'
        BY <2>2, <3>1, <4>1 DEF CauseInv, LastFor
      <4> QED BY <2>2, <4>2 DEF SpentEntry, SpentFor
    <3> QED BY <1>0, <1>3, <2>2, <3>2, <3>3, <3>4
  <2> QED BY <1>5, <2>1, <2>2, CommitKeepsCauses
<1>6. CASE WriteManifest(p)
  <2>1. downloads = Causes => Holds(p)
    BY <1>6 DEF CauseInv, SpentFor, WriteManifest
  <2> QED BY <1>4, <1>6, <2>1, RecordKeepsCauses
<1>7. CASE RefreshManifest(p)
  <2>1. downloads = Causes => Current(call[p].prior)
    BY <1>7 DEF CauseInv, SpentFor, RefreshManifest
  <2> QED BY <1>4, <1>7, <2>1, RefreshKeepsCauses
<1> QED BY <1>5, <1>6, <1>7

LEMMA CauseInvStep ==
    ASSUME ConstantsAssumption, Typed, SingleFlight, Unretried, CauseInv, [Next]_vars
    PROVE  CauseInv'
<1>1. ASSUME NEW p \in Procs, Start(p) \/ Step(p) \/ FailManifest(p) \/ Crash(p)
      PROVE  CauseInv'
  BY <1>1, ReadsKeepCauses, WritesKeepCauses, FaultKeepsCauses DEF Step, Reads
<1>2. CASE Environment
  BY <1>2, EnvironmentKeepsCauses
<1>3. CASE Finished \/ UNCHANGED vars
  <2>1. UNCHANGED <<src, blob, meta, lock, pc, call, downloads, used>>
    BY <1>3 DEF Finished, store, vars
  <2> QED BY <2>1 DEF CauseInv, Causes, SpentEntry, SpentFor, LastFor, Stored, Current, FirstOk,
             TagOf, Ahead, Harmless, Rejects, Conditional, Holds, Refused
<1> QED BY <1>1, <1>2, <1>3 DEF Next, Action

-----------------------------------------------------------------------------
(* Offline reads.                                                          *)

\* A fetch that nothing was evicted from has its entry in front of it.
LackInv ==
    \A p \in Procs :
        /\ pc[p] # "idle" /\ ~witness[p].lacked => meta # None /\ Stored
        /\ call[p].out = "cachemiss" => witness[p].lacked

\* An offline read does not look at the source.
OnlineChecks == \A p \in Offline : pc[p] \notin {"stat", "hash"}

\* A manifest and a blob are lost by evictions only.
LEMMA EntryLostByEviction ==
    ASSUME ConstantsAssumption, Typed, Action, meta # None, Stored, used'["evict"] = used["evict"]
    PROVE  meta' # None /\ Stored'
<1>0. /\ used \in [Budgets -> Nat] /\ "evict" \in Budgets
      /\ blob \in [Exts -> Bytes \cup {None}] /\ meta \in Manifest
      /\ \A m \in Manifest : m # None
  BY ConstantsAssumption DEF Typed, TypeOK, Budgets, MaybeMeta, ConstantsAssumption
<1>1. ~Spend("evict")
  BY <1>0 DEF Spend
<1>2. ASSUME NEW p \in Procs, Start(p) \/ Step(p) \/ FailManifest(p) \/ Crash(p)
      PROVE  meta' # None /\ Stored'
  <2>1. CASE CommitBlob(p)
    <3>1. meta' = meta /\ (blob' = blob \/ Stored')
      BY <2>1, CommitKeepsCauses
    <3> QED BY <3>1 DEF Stored
  <2>2. CASE WriteManifest(p)
    <3>1. call[p] \in Call /\ call[p].sha \in Bytes
      BY <2>2 DEF Typed, TypeOK, PhaseOK, WriteManifest
    <3>2. meta' \in Manifest /\ blob' = blob
      BY <2>2, <3>1 DEF WriteManifest, Manifest, Call
    <3> QED BY <1>0, <3>2 DEF Stored
  <2>3. CASE RefreshManifest(p)
    <3>1. pc[p] = "refresh" /\ meta' = [call[p].prior EXCEPT !.fresh = TRUE] /\ blob' = blob
      BY <2>3 DEF RefreshManifest
    <3>2. meta' \in Manifest
      BY <3>1, RefreshedTyped
    <3> QED BY <1>0, <3>1, <3>2 DEF Stored
  <2>4. CASE FailManifest(p) \/ Crash(p)
    BY <2>4 DEF FailManifest, Crash, Stored
  <2>5. CASE Reads(p)
    BY <2>5, ReadsMove DEF Stored
  <2> QED BY <1>2, <2>1, <2>2, <2>3, <2>4, <2>5 DEF Step, Reads
<1>3. CASE Environment
  <2>1. CASE Expire
    <3>1. [meta EXCEPT !.fresh = FALSE] \in Manifest
      BY <1>0 DEF Manifest
    <3> QED BY <1>0, <2>1, <3>1 DEF Expire, Stored
  <2>2. CASE \E s \in Sources : ChangeSource(s)
    BY <2>2 DEF ChangeSource, store, Stored
  <2> QED BY <1>1, <1>3, <2>1, <2>2 DEF Environment, EvictBlob, EvictManifest
<1>4. CASE Finished
  BY <1>4 DEF Finished, store, Stored
<1> QED BY <1>2, <1>3, <1>4 DEF Action

\* How the observer's record of that moves.
LEMMA LackMoves ==
    ASSUME ConstantsAssumption, Typed, Next, LackInv, NEW p \in Procs
    PROVE  /\ pc'[p] # "idle" /\ ~witness'[p].lacked => meta' # None /\ Stored'
           /\ pc[p] # "idle" /\ witness[p].lacked => witness'[p].lacked
           /\ pc[p] = "idle" /\ pc'[p] = "idle" => witness'[p] = witness[p]
<1>1. CASE pc[p] = "idle"
  BY <1>1 DEF Next, Observe, Moment, Stored
<1>2. CASE pc[p] # "idle"
  <2>1. witness'[p].lacked <=> witness[p].lacked \/ used'["evict"] # used["evict"]
    BY <1>2 DEF Next, Observe
  <2> QED BY <1>2, <2>1, EntryLostByEviction DEF Next, LackInv
<1> QED BY <1>1, <1>2

\* A fetch misses offline only where there is no manifest or no blob.
LEMMA MissIsLack ==
    ASSUME Typed, CallOK, OnlineChecks, NEW p \in Procs,
           Start(p) \/ Step(p) \/ FailManifest(p) \/ Crash(p),
           call'[p].out = "cachemiss"
    PROVE  pc[p] # "idle" /\ (meta = None \/ ~Stored)
<1> USE DEF Goto
<1>0. /\ call[p] \in Call /\ pc \in [Procs -> Labels] /\ call \in [Procs -> Call]
      /\ pc[p] # "idle" => call[p].out = "none"
  BY DEF Typed, TypeOK, CallOK
<1>1. ASSUME NEW out \in Outcomes \ {"cachemiss"}, Return(p, out) PROVE FALSE
  BY <1>0, <1>1 DEF Return, Call
<1>2. ASSUME NEW out \in Outcomes \ {"cachemiss"}, NEW e, NEW m, Serve(p, out, e, m) PROVE FALSE
  BY <1>0, <1>2 DEF Serve, Call
<1>3. ASSUME pc[p] # "idle", call'[p].out = call[p].out PROVE FALSE
  BY <1>0, <1>3
<1>4. ASSUME NEW m, Accept(p, m), pc[p] # "idle" PROVE FALSE
  <2>1. CASE VerifyOnRead
    BY <1>0, <1>4, <2>1 DEF Accept, Call
  <2>2. CASE ~VerifyOnRead
    BY <1>2, <1>4, <2>2 DEF Accept, Outcomes
  <2> QED BY <2>1, <2>2
<1>5. CASE Start(p) \/ Crash(p)
  BY <1>0, <1>5 DEF Start, Crash, NoCall
<1>6. CASE AcquireLock(p) \/ BeginDownload(p) \/ FinishCopy(p)
  <2>1. pc[p] # "idle" /\ call'[p].out = call[p].out
    BY <1>0, <1>6 DEF AcquireLock, BeginDownload, FinishCopy, Call
  <2> QED BY <1>3, <2>1
<1>7. CASE LookupBlob(p)
  <2>1. pc[p] = "lookup"
    BY <1>7 DEF LookupBlob
  <2>2. CASE Found(Ext[1]) = {}
    BY <2>1, <2>2 DEF Found, Stored
  <2>3. CASE Found(Ext[1]) # {}
    BY <1>0, <1>3, <1>7, <2>1, <2>3 DEF LookupBlob, Call
  <2> QED BY <2>2, <2>3
<1>8. CASE ReadMeta(p)
  <2>0. pc[p] = "meta"
    BY <1>8 DEF ReadMeta
  <2>1. CASE meta = None
    BY <2>0, <2>1
  <2>2. CASE Accept(p, meta)
    BY <1>4, <2>0, <2>2
  <2>3. CASE p \notin Offline /\ NoHit(p)
    BY <1>0, <1>3, <2>0, <2>3 DEF NoHit
  <2>4. CASE call' = [call EXCEPT ![p].man = meta]
    BY <1>0, <2>0, <2>4 DEF Call
  <2> QED BY <1>8, <2>1, <2>2, <2>3, <2>4 DEF ReadMeta
<1>9. CASE StatSource(p) \/ HashSource(p)
  <2>0. pc[p] \in {"stat", "hash"} /\ p \notin Offline
    BY <1>9 DEF StatSource, HashSource, OnlineChecks
  <2>1. CASE NoHit(p)
    BY <1>0, <1>3, <2>0, <2>1 DEF NoHit
  <2>2. CASE Accept(p, call[p].man)
    BY <1>4, <2>0, <2>2
  <2>3. CASE UNCHANGED call
    BY <1>3, <2>0, <2>3
  <2> QED BY <1>9, <2>1, <2>2, <2>3 DEF StatSource, HashSource, SourceMissing
<1>10. CASE VerifyBlob(p)
  BY <1>1, <1>2, <1>10 DEF VerifyBlob, Outcomes
<1>11. CASE ContactSource(p)
  <2>0. pc[p] = "source"
    BY <1>11 DEF ContactSource
  <2>1. ASSUME NEW b \in BOOLEAN, NextSource(p, b) PROVE FALSE
    <3>1. CASE call[p].at < NumSources
      BY <1>0, <2>0, <2>1, <3>1 DEF NextSource, Call
    <3>2. CASE ~(call[p].at < NumSources)
      BY <1>1, <2>1, <3>2 DEF NextSource, Outcomes
    <3> QED BY <3>1, <3>2
  <2>2. CASE \E c, t : call' = [call EXCEPT ![p].sha = c, ![p].tag = t]
    BY <1>0, <2>0, <2>2 DEF Call
  <2>3. CASE UNCHANGED call
    BY <1>3, <2>0, <2>3
  <2> QED BY <1>11, <2>1, <2>2, <2>3 DEF ContactSource, Unchanged
<1>12. CASE CommitBlob(p)
  <2>1. CASE Return(p, "integrity")
    BY <1>1, <2>1 DEF Outcomes
  <2>2. CASE call' = [call EXCEPT ![p].path = Ext[call[p].at]]
    BY <1>0, <1>12, <2>2 DEF CommitBlob, Call
  <2> QED BY <1>12, <2>1, <2>2 DEF CommitBlob
<1>13. CASE WriteManifest(p) \/ FailManifest(p)
  BY <1>1, <1>2, <1>13 DEF WriteManifest, FailManifest, Outcomes
<1>14. CASE TouchBlob(p)
  <2>1. /\ pc[p] = "touch"
        /\ pc'[p] # "idle" => call'[p].out = call[p].out
        /\ pc'[p] = "idle" => Return(p, "stale304")
    BY <1>14, TouchMoves, ConstantsAssumption
  <2> QED BY <1>1, <1>3, <2>1 DEF Outcomes
<1>15. CASE RefreshManifest(p)
  BY <1>2, <1>15 DEF RefreshManifest, Outcomes
<1> QED BY <1>5, <1>6, <1>7, <1>8, <1>9, <1>10, <1>11, <1>12, <1>13, <1>14, <1>15 DEF Step

LEMMA LackInvStep ==
    ASSUME ConstantsAssumption, Typed, CallOK, OnlineChecks, LackInv, Next PROVE LackInv'
<1>1. SUFFICES ASSUME NEW p \in Procs, call'[p].out = "cachemiss" PROVE witness'[p].lacked
  BY LackMoves DEF LackInv
<1>2. CASE pc'[p] = pc[p] /\ call'[p].out = call[p].out
  BY <1>1, <1>2, LackMoves DEF LackInv
<1>3. CASE Start(p) \/ Step(p) \/ FailManifest(p) \/ Crash(p)
  <2>1. pc[p] # "idle" /\ (meta = None \/ ~Stored)
    BY <1>1, <1>3, MissIsLack
  <2> QED BY <2>1, LackMoves DEF LackInv
<1>4. CASE \E q \in Procs \ {p} : Start(q) \/ Step(q) \/ FailManifest(q) \/ Crash(q)
  BY <1>2, <1>4, StepIsLocal
<1>5. CASE Environment \/ Finished
  BY <1>2, <1>5, EnvironmentLeaves DEF Finished
<1> QED BY <1>3, <1>4, <1>5 DEF Next, Action

LEMMA OnlineChecksStep ==
    ASSUME Typed, OnlineChecks, Next PROVE OnlineChecks'
<1>0. pc \in [Procs -> Labels]
  BY DEF Typed, TypeOK
<1>1. SUFFICES ASSUME NEW p \in Offline, p \in Procs, pc'[p] \in {"stat", "hash"} PROVE FALSE
  BY ConstantsAssumption DEF OnlineChecks, ConstantsAssumption
<1>2. pc[p] \notin {"stat", "hash"}
  BY <1>1 DEF OnlineChecks
<1>3. CASE Start(p) \/ Step(p) \/ FailManifest(p) \/ Crash(p)
  <2> USE DEF Goto
  <2>1. CASE Start(p) \/ Crash(p) \/ AcquireLock(p) \/ BeginDownload(p) \/ FinishCopy(p)
    BY <1>0, <1>1, <1>2, <2>1 DEF Start, Crash, AcquireLock, BeginDownload, FinishCopy
  <2>2. CASE WriteManifest(p) \/ FailManifest(p) \/ RefreshManifest(p) \/ CommitBlob(p)
    BY <1>0, <1>1, <1>2, <2>2 DEF WriteManifest, FailManifest, RefreshManifest, CommitBlob, Serve, Return
  <2>6. CASE TouchBlob(p)
    BY <1>1, <2>6, TouchMoves, ConstantsAssumption
  <2>3. CASE VerifyBlob(p) \/ ContactSource(p)
    BY <1>0, <1>1, <1>2, <2>3 DEF VerifyBlob, ContactSource, Unchanged, NextSource, Serve, Return
  <2>4. CASE LookupBlob(p) \/ ReadMeta(p)
    BY <1>0, <1>1, <1>2, <2>4 DEF LookupBlob, ReadMeta, NoHit, Accept, Serve, Return
  <2>5. CASE StatSource(p) \/ HashSource(p)
    BY <1>2, <2>5 DEF StatSource, HashSource
  <2> QED BY <1>3, <2>1, <2>2, <2>3, <2>4, <2>5, <2>6 DEF Step
<1>4. CASE pc'[p] = pc[p]
  BY <1>1, <1>2, <1>4
<1>5. CASE \E q \in Procs \ {p} : Start(q) \/ Step(q) \/ FailManifest(q) \/ Crash(q)
  BY <1>1, <1>4, <1>5, StepIsLocal
<1>6. CASE Environment \/ Finished
  BY <1>4, <1>6, EnvironmentLeaves DEF Finished
<1> QED BY <1>3, <1>5, <1>6 DEF Next, Action

-----------------------------------------------------------------------------
\* What the cache holds is used: whatever the fetches declare, revalidate and
\* lose, each further download answers a change of a source, an eviction, an
\* expiry or a fault, and an offline read misses only an entry that lacked a
\* file when it started or lost one meanwhile.
THEOREM EntryIsUsedAlways == Spec => []EntryIsUsed
<1>1. Init => CallOK /\ Unretried /\ CauseInv /\ LackInv /\ OnlineChecks
  <2> SUFFICES ASSUME Init PROVE CallOK /\ Unretried /\ CauseInv /\ LackInv /\ OnlineChecks
    OBVIOUS
  <2>1. CallOK /\ Unretried /\ OnlineChecks /\ LackInv
    BY ConstantsAssumption DEF Init, CallOK, Unretried, OnlineChecks, LackInv, NoCall,
       ConstantsAssumption
  <2>2. Causes = 1 /\ \A p \in Procs : LastFor(p) /\ SpentFor(p)
    BY DEF Init, Causes, Budgets, LastFor, SpentFor
  <2>3. downloads \in {0, 1} /\ (downloads = 1 => Warm(1))
    BY DEF Init, Cold, Warm
  <2>4. ASSUME Warm(1) PROVE SpentEntry
    <3>1. 1 \in Sources /\ Ext[1] \in Exts /\ FirstContent # None
      BY ConstantsAssumption DEF Sources, Exts, ConstantsAssumption, Bytes
    <3>2. Stored
      BY <2>4, <3>1 DEF Warm, Stored
    <3>3. FirstOk(1)
      BY <3>1, ConstantsAssumption DEF Init, FirstOk, Sources, ConstantsAssumption
    <3>4. meta \in Manifest
      BY <2>4, <3>1, WarmTyped
    <3>5. Current(meta)
      BY <2>4, <3>1, <3>3, <3>4 DEF Warm, Current, Init, TagOf
    <3> QED BY <3>2, <3>5 DEF SpentEntry
  <2> QED BY <2>1, <2>2, <2>3, <2>4 DEF CauseInv
<1>2. Typed /\ CallOK /\ [Next]_vars => CallOK'
  BY ConstantsAssumption, CallOKStep
<1>3. Typed /\ SingleFlight /\ Unretried /\ CauseInv /\ [Next]_vars => Unretried' /\ CauseInv'
  <2>1. UNCHANGED vars /\ Unretried => Unretried'
    BY DEF vars, Unretried
  <2> QED BY <2>1, ConstantsAssumption, UnretriedStep, CauseInvStep
<1>4. Typed /\ CallOK /\ OnlineChecks /\ LackInv /\ [Next]_vars => OnlineChecks' /\ LackInv'
  <2>1. UNCHANGED vars /\ OnlineChecks /\ LackInv => OnlineChecks' /\ LackInv'
    BY DEF vars, OnlineChecks, LackInv, Stored
  <2> QED BY <2>1, ConstantsAssumption, OnlineChecksStep, LackInvStep
<1>5. CauseInv /\ LackInv => EntryIsUsed
  BY DEF CauseInv, LackInv, EntryIsUsed, DownloadsAreCaused, OfflineMissIsSound, Causes
<1> QED BY <1>1, <1>2, <1>3, <1>4, <1>5, TypedAlways, SingleFlightAlways, PTL DEF Spec
=============================================================================
