------------------------- MODULE SourceRevalidator -------------------------
(***************************************************************************)
(* Rung 0 of the validation ladder with its memo of earlier digests        *)
(* (SourceRevalidator of rust/src/validate.rs), asked by several readers   *)
(* about local files that others rewrite meanwhile.                        *)
(*                                                                         *)
(* Time passes in ticks.  A write stamps the file with the server's clock, *)
(* truncated to the granularity of the file system: the stamp lies within  *)
(* Granularity + Lag ticks of the reader's clock, Lag being how far the    *)
(* server's clock may be behind it.  A replacement that restores an older  *)
(* stamp (cp --preserve=timestamps) is outside the model, as the code says *)
(* it is outside the check.                                                *)
(***************************************************************************)
EXTENDS Integers, FiniteSets

CONSTANTS
    Readers,
    Files,
    Content,
    Len,             \* the length of each content
    Torn,            \* the bytes of a file that changed while it was read
    None,
    Granularity,     \* of the file system's timestamps
    Lag,             \* of the file server's clock behind the reader's
    Margin,          \* RACY_MARGIN
    MemoCap,
    MaxClock, MaxCalls, MaxChanges   \* bounds

ASSUME TimeAssumption ==
    /\ Granularity \in Nat \ {0} /\ Lag \in Nat /\ Margin \in Nat
    /\ MemoCap \in Nat \ {0} /\ {MaxClock, MaxCalls, MaxChanges} \subseteq Nat
    /\ Len \in [Content -> Nat]
    /\ None \notin Content \cup {Torn} /\ Torn \notin Content
    /\ {"missing", "down"} \cap Content = {}

VARIABLES
    clock,
    source,      \* each file: its state, its contents and its mtime
    memo,        \* seen: the fingerprint of each path, or None
    call,        \* each reader's call and its locals
    seen,        \* (history) what each reader's file was during its call
    calls, changes

vars == <<clock, source, memo, call, seen, calls, changes>>

Labels == {"idle", "stat", "memo", "clock", "hash", "read", "remember"}
States == {"ok", "missing", "down"}

NoCall == [at |-> "idle", file |-> None, man |-> None, mtime |-> 0, len |-> 0,
           hashed |-> 0, sha |-> None, verdict |-> "none"]

\* What an observer of a file sees.
View(f) == IF source[f].state = "ok" THEN source[f].content ELSE source[f].state

\* (history) Every running call collects what its file becomes.
Witness == seen' = [r \in Readers |->
              IF call[r].at = "idle" THEN seen[r] ELSE seen[r] \cup {View(call[r].file)'}]

Return(r, verdict) ==
    call' = [call EXCEPT ![r] = [NoCall EXCEPT !.man = call[r].man, !.verdict = verdict]]

Verdict(sha, man) == IF sha = man THEN "current" ELSE "replaced"

-----------------------------------------------------------------------------
\* SourceRevalidator::state is asked about a file and a manifest's digest.
Ask(r, f, man) ==
    /\ call[r].at = "idle"
    /\ calls < MaxCalls
    /\ calls' = calls + 1
    /\ call' = [call EXCEPT ![r] = [NoCall EXCEPT !.at = "stat", !.file = f, !.man = man]]
    /\ seen' = [seen EXCEPT ![r] = {View(f)}]
    /\ UNCHANGED <<clock, source, memo, changes>>

\* stat_source, and the cheap half of the check: another length is another file.
Stat(r) ==
    LET file == source[call[r].file] IN
    /\ call[r].at = "stat"
    /\ CASE file.state = "missing" -> Return(r, "missing")
         [] file.state = "down"    -> Return(r, "unknown")
         [] OTHER -> IF Len[file.content] # Len[call[r].man] THEN Return(r, "replaced")
                     ELSE call' = [call EXCEPT ![r].at = "memo", ![r].mtime = file.mtime,
                                               ![r].len = Len[file.content]]
    /\ UNCHANGED <<clock, source, memo, seen, calls, changes>>

\* (mutant) Any digest with the same stamp is trusted.
IsNeverRacy(mtime, hashed) == FALSE

\* A digest taken within the margin of the mtime vouches for nothing later.
IsRacy(mtime, hashed) == mtime >= hashed - Margin

\* remembered: the digest of this exact length and mtime, if it is safe.
Matches(r, fp) ==
    fp.len = call[r].len /\ fp.mtime = call[r].mtime /\ ~IsRacy(fp.mtime, fp.hashed)

Consult(r) ==
    LET fp == memo[call[r].file] IN
    /\ call[r].at = "memo"
    /\ IF fp # None /\ Matches(r, fp) THEN Return(r, Verdict(fp.sha, call[r].man))
       ELSE call' = [call EXCEPT ![r].at = "clock"]
    /\ UNCHANGED <<clock, source, memo, seen, calls, changes>>

\* The time is read before the bytes.
ReadClock(r) ==
    /\ call[r].at = "clock"
    /\ call' = [call EXCEPT ![r].at = "hash", ![r].hashed = clock]
    /\ UNCHANGED <<clock, source, memo, seen, calls, changes>>

BeginRead(r) ==
    LET file == source[call[r].file] IN
    /\ call[r].at = "hash"
    /\ CASE file.state = "missing" -> Return(r, "missing")
         [] file.state = "down"    -> Return(r, "unknown")
         [] OTHER -> call' = [call EXCEPT ![r].at = "read", ![r].sha = file.content]
    /\ UNCHANGED <<clock, source, memo, seen, calls, changes>>

\* A file that was rewritten under the read gives its old bytes, its new ones,
\* or a mixture.
EndRead(r) ==
    LET now == source[call[r].file].content IN
    /\ call[r].at = "read"
    /\ \E sha \in {call[r].sha, now} \cup (IF now # call[r].sha THEN {Torn} ELSE {}) :
          call' = [call EXCEPT ![r].at = "remember", ![r].sha = sha]
    /\ UNCHANGED <<clock, source, memo, seen, calls, changes>>

\* (mutant) The time is that of the insertion, after the bytes were read.
StampLate(r) == [len |-> call[r].len, mtime |-> call[r].mtime, sha |-> call[r].sha, hashed |-> clock]

Fingerprint(r) ==
    [len |-> call[r].len, mtime |-> call[r].mtime, sha |-> call[r].sha, hashed |-> call[r].hashed]

\* A full memo is emptied first.
Remember(r) ==
    LET f == call[r].file
        full == Cardinality({g \in Files : memo[g] # None}) >= MemoCap IN
    /\ call[r].at = "remember"
    /\ memo' = [g \in Files |-> IF g = f THEN Fingerprint(r) ELSE IF full THEN None ELSE memo[g]]
    /\ Return(r, Verdict(call[r].sha, call[r].man))
    /\ UNCHANGED <<clock, source, seen, calls, changes>>

-----------------------------------------------------------------------------
Tick ==
    /\ clock < MaxClock
    /\ clock' = clock + 1
    /\ UNCHANGED <<source, memo, call, seen, calls, changes>>

Change == changes < MaxChanges /\ changes' = changes + 1

\* A file is written: a new stamp, but not always a new one to the eye.
Write(f, c) ==
    /\ Change
    /\ \E stamp \in 0 .. clock :
          /\ clock < stamp + Granularity + Lag
          /\ source' = [source EXCEPT ![f] = [state |-> "ok", content |-> c, mtime |-> stamp]]
    /\ UNCHANGED <<clock, memo, call, calls>>
    /\ Witness

\* A file is removed, cannot be reached, or can be reached again.
Lose(f) ==
    /\ Change
    /\ source[f].state # "missing"
    /\ \E state \in States \ {source[f].state} : source' = [source EXCEPT ![f].state = state]
    /\ UNCHANGED <<clock, memo, call, calls>>
    /\ Witness

Over == calls = MaxCalls /\ (\A r \in Readers : call[r].at = "idle") /\ UNCHANGED vars

Init ==
    /\ clock = 0
    /\ source \in [Files -> [state : {"ok"}, content : Content, mtime : {0}]]
    /\ memo = [f \in Files |-> None]
    /\ call = [r \in Readers |-> NoCall]
    /\ seen = [r \in Readers |-> {}]
    /\ calls = 0
    /\ changes = 0

Step(r) == Stat(r) \/ Consult(r) \/ ReadClock(r) \/ BeginRead(r)
           \/ EndRead(r) \/ Remember(r)

Next ==
    \/ \E r \in Readers : \/ \E f \in Files, man \in Content : Ask(r, f, man)
                          \/ Step(r)
    \/ \E f \in Files : Lose(f) \/ \E c \in Content : Write(f, c)
    \/ Tick
    \/ Over

Spec == Init /\ [][Next]_vars

-----------------------------------------------------------------------------
(* Properties.                                                             *)

Prints == [len : Nat, mtime : Nat, sha : Content \cup {Torn}, hashed : Nat]

\* Every variable has its type, no recorded time lies in the future, and the
\* memo keeps to its cap.
TypeOK ==
    /\ clock \in Nat
    /\ source \in [Files -> [state : States, content : Content, mtime : Nat]]
    /\ memo \in [Files -> Prints \cup {None}]
    /\ call \in [Readers -> [at : Labels, file : Files \cup {None}, man : Content \cup {None},
                             mtime : Nat, len : Nat, hashed : Nat, sha : Content \cup {Torn, None},
                             verdict : {"none", "current", "replaced", "missing", "unknown"}]]
    /\ calls \in Nat /\ changes \in Nat
    /\ Cardinality({f \in Files : memo[f] # None}) <= MemoCap
    /\ \A r \in Readers : call[r].hashed <= clock
    /\ \A f \in Files : memo[f] # None => memo[f].hashed <= clock

\* A fingerprint that would be used for the file as it is now has its digest:
\* a same-length rewrite within the file system's granularity is never hidden
\* behind a remembered digest (RACY_MARGIN).
MemoIsSound ==
    \A f \in Files :
        LET fp == memo[f] IN
        fp # None /\ ~IsRacy(fp.mtime, fp.hashed) /\ fp.mtime = source[f].mtime
          => fp.sha = source[f].content

\* A verdict is true of the file at some time during the call.
VerdictIsSound ==
    \A r \in Readers : call[r].at = "idle" =>
        CASE call[r].verdict = "current"  -> call[r].man \in seen[r]
          [] call[r].verdict = "replaced" -> \E c \in seen[r] \cap Content : c # call[r].man
          [] call[r].verdict = "missing"  -> "missing" \in seen[r]
          [] call[r].verdict = "unknown"  -> "down" \in seen[r]
          [] OTHER -> TRUE

=============================================================================
