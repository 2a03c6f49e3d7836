------------------------- MODULE RevalidatorProofs -------------------------
(***************************************************************************)
(* For any readers, files and contents: when the margin covers the         *)
(* granularity of the file system and the lag of its server's clock, no    *)
(* remembered digest hides a rewrite, and every verdict was true at some   *)
(* time during the call.                                                   *)
(*                                                                         *)
(* A digest is safe when it was taken more than the margin after its       *)
(* mtime.  Every later write then gets another mtime, so a safe digest     *)
(* with the mtime of the file is that of the file (Settled), and one with  *)
(* the mtime a reader saw is that of a content the file had since          *)
(* (Explains), in the memo and on its way into it alike.                   *)
(***************************************************************************)
EXTENDS SourceRevalidator, TLAPS

MarginCovers == Granularity + Lag <= Margin + 1

Call == [at : Labels, file : Files \cup {None}, man : Content \cup {None},
         mtime : Nat, len : Nat, hashed : Nat, sha : Content \cup {Torn, None},
         verdict : {"none", "current", "replaced", "missing", "unknown"}]

Sees    == Content \cup {"missing", "down"}
Past    == {"memo", "clock", "hash", "read", "remember"}     \* after the stat
Reading == {"read", "remember"}                              \* a digest in hand

Typed ==
    /\ clock \in Nat
    /\ source \in [Files -> [state : States, content : Content, mtime : Nat]]
    /\ memo \in [Files -> Prints \cup {None}]
    /\ call \in [Readers -> Call]
    /\ seen \in [Readers -> SUBSET Sees]
    /\ \A r \in Readers : call[r].at # "idle" => call[r].file \in Files /\ call[r].man \in Content
    /\ \A r \in Readers : call[r].at = "read" => call[r].sha \in Content
    /\ \A r \in Readers : call[r].at = "remember" => call[r].sha \in Content \cup {Torn}

\* No recorded time lies in the future.
Recorded ==
    /\ \A r \in Readers : call[r].hashed <= clock
    /\ \A f \in Files : memo[f] # None => memo[f].hashed <= clock

\* d is a fingerprint, or a call that is about to become one.
Safe(d)       == ~IsRacy(d.mtime, d.hashed)
Settled(f, d) == Safe(d) /\ d.mtime = source[f].mtime => d.sha = source[f].content

AllSettled ==
    /\ \A f \in Files : memo[f] # None => Settled(f, memo[f])
    /\ \A r \in Readers : call[r].at \in Reading => Settled(call[r].file, call[r])

\* Reader r saw the file with these bytes, or changing from some to others.
Explains(r, sha) ==
    \/ sha \in seen[r] /\ sha \in Content
    \/ sha = Torn /\ \E c, d \in Content : c \in seen[r] /\ d \in seen[r] /\ c # d

Witnessed ==
    /\ \A r \in Readers : call[r].at # "idle" => View(call[r].file) \in seen[r]
    /\ \A r \in Readers : call[r].at \in Past => source[call[r].file].content \in seen[r]

MemoExplained ==
    \A r \in Readers :
        LET fp == memo[call[r].file] IN
        call[r].at \in Past /\ fp # None /\ fp.mtime = call[r].mtime /\ Safe(fp)
          => Explains(r, fp.sha)

ReadExplained ==
    \A r, q \in Readers :
        /\ call[r].at \in Past /\ call[q].at \in Reading
        /\ call[q].file = call[r].file
        /\ q = r \/ (call[q].mtime = call[r].mtime /\ Safe(call[q]))
        => Explains(r, call[q].sha)

IInv == Typed /\ Recorded /\ AllSettled /\ Witnessed /\ MemoExplained /\ ReadExplained
        /\ VerdictIsSound

-----------------------------------------------------------------------------
LEMMA NoCallIsCall == NoCall \in Call
BY DEF NoCall, Call, Labels

LEMMA InitKeeps == Init => IInv
<1> SUFFICES ASSUME Init PROVE IInv
  OBVIOUS
<1>1. Typed
  BY NoCallIsCall DEF Init, Typed, NoCall, Sees, States
<1> QED BY <1>1 DEF Init, IInv, Typed, Recorded, AllSettled, Witnessed, MemoExplained,
                    ReadExplained, VerdictIsSound, NoCall, Past, Reading

\* What an answer must be, in terms of the call that gives it.
Sound(r, verdict) ==
    /\ verdict = "current"  => call[r].man \in seen[r]
    /\ verdict = "replaced" => \E c \in seen[r] \cap Content : c # call[r].man
    /\ verdict = "missing"  => "missing" \in seen[r]
    /\ verdict = "unknown"  => "down" \in seen[r]

LEMMA VerdictSound ==
    ASSUME Typed, NEW r \in Readers, call[r].at # "idle",
           NEW sha, Explains(r, sha)
    PROVE  Sound(r, Verdict(sha, call[r].man))
BY TimeAssumption DEF Typed, Explains, Verdict, Sound

\* The memo loses fingerprints or gains the one of a call.
Learns(r) ==
    /\ memo' \in [Files -> Prints \cup {None}]
    /\ \A f \in Files : memo'[f] # None =>
          \/ memo'[f] = memo[f]
          \/ f = call[r].file /\ call[r].at = "remember" /\ memo'[f] = Fingerprint(r)

\* A call returns a sound verdict, having perhaps remembered a digest.
LEMMA ReturnKeeps ==
    ASSUME IInv, NEW r \in Readers, call[r].at # "idle",
           NEW verdict \in {"current", "replaced", "missing", "unknown"},
           Sound(r, verdict), Return(r, verdict), Learns(r), UNCHANGED <<clock, source, seen>>
    PROVE  IInv'
<1> DEFINE new == [NoCall EXCEPT !.man = call[r].man, !.verdict = verdict]
<1>1. new \in Call /\ new.at = "idle" /\ new.man = call[r].man /\ new.verdict = verdict
      /\ new.hashed = 0
  BY DEF NoCall, Call, Labels, IInv, Typed
<1>2. call'[r] = new /\ \A q \in Readers : q # r => call'[q] = call[q]
  BY DEF Return, IInv, Typed
<1>3. call' \in [Readers -> Call]
  BY <1>1 DEF Return, IInv, Typed, new
<1> HIDE DEF new
<1>4. call[r].at = "remember" =>
        /\ Fingerprint(r).mtime = call[r].mtime /\ Fingerprint(r).hashed = call[r].hashed
        /\ Fingerprint(r).sha = call[r].sha
  BY DEF Fingerprint
<1>5. Typed'
  BY <1>1, <1>2, <1>3 DEF IInv, Typed, Learns
<1>6. Recorded'
  BY <1>1, <1>2, <1>4 DEF IInv, Typed, Recorded, Learns
<1>7. AllSettled'
  BY <1>1, <1>2, <1>4 DEF IInv, AllSettled, Settled, Safe, IsRacy, Reading, Learns
<1>8. Witnessed'
  BY <1>1, <1>2 DEF IInv, Witnessed, View, Past
<1>9. MemoExplained'
  <2> SUFFICES ASSUME NEW q \in Readers, call'[q].at \in Past, memo'[call'[q].file] # None,
                      memo'[call'[q].file].mtime = call'[q].mtime, Safe(memo'[call'[q].file])
               PROVE  Explains(q, memo'[call'[q].file].sha)
    BY DEF MemoExplained, Explains, Safe, IsRacy
  <2>1. q # r /\ call'[q] = call[q] /\ call[q].file \in Files
    BY <1>1, <1>2 DEF IInv, Typed, Past
  <2> DEFINE fp == memo'[call[q].file]
  <2>2. CASE fp = memo[call[q].file]
    BY <2>1, <2>2 DEF IInv, MemoExplained
  <2>3. CASE call[q].file = call[r].file /\ call[r].at = "remember" /\ fp = Fingerprint(r)
    BY <1>4, <2>1, <2>3 DEF IInv, ReadExplained, Reading, Safe
  <2> QED BY <2>1, <2>2, <2>3 DEF Learns
<1>10. ReadExplained'
  BY <1>1, <1>2 DEF IInv, ReadExplained, Explains, Safe, IsRacy, Past, Reading
<1>11. VerdictIsSound'
  BY <1>1, <1>2 DEF IInv, VerdictIsSound, Sound
<1> QED BY <1>5, <1>6, <1>7, <1>8, <1>9, <1>10, <1>11 DEF IInv

-----------------------------------------------------------------------------
(* The steps of a reader.                                                  *)

LEMMA AskKeeps ==
    ASSUME IInv, NEW r \in Readers, NEW f \in Files, NEW man \in Content, Ask(r, f, man)
    PROVE  IInv'
<1> DEFINE new == [NoCall EXCEPT !.at = "stat", !.file = f, !.man = man]
<1>1. new \in Call /\ new.at = "stat" /\ new.file = f /\ new.man = man /\ new.hashed = 0
  BY DEF NoCall, Call, Labels
<1>2. call'[r] = new /\ \A q \in Readers : q # r => call'[q] = call[q]
  BY DEF Ask, IInv, Typed
<1>3. call' \in [Readers -> Call]
  BY <1>1 DEF Ask, IInv, Typed, new
<1> HIDE DEF new
<1>4. seen'[r] = {View(f)} /\ \A q \in Readers : q # r => seen'[q] = seen[q]
  BY DEF Ask, IInv, Typed
<1>5. View(f) \in Sees
  BY DEF View, Sees, IInv, Typed, States
<1>6. UNCHANGED <<clock, source, memo>>
  BY DEF Ask
<1>7. seen' \in [Readers -> SUBSET Sees]
  BY <1>5 DEF Ask, IInv, Typed
<1>8. Typed'
  BY <1>1, <1>2, <1>3, <1>6, <1>7 DEF IInv, Typed
<1>9. Recorded'
  BY <1>1, <1>2, <1>6 DEF IInv, Typed, Recorded
<1>10. AllSettled'
  BY <1>1, <1>2, <1>6 DEF IInv, AllSettled, Settled, Safe, IsRacy, Reading
<1>11. Witnessed'
  BY <1>1, <1>2, <1>4, <1>6 DEF IInv, Witnessed, View, Past
<1>12. MemoExplained'
  BY <1>1, <1>2, <1>4, <1>6 DEF IInv, MemoExplained, Explains, Safe, IsRacy, Past
<1>13. ReadExplained'
  BY <1>1, <1>2, <1>4, <1>6 DEF IInv, ReadExplained, Explains, Safe, IsRacy, Past, Reading
<1>14. VerdictIsSound'
  BY <1>1, <1>2, <1>4 DEF IInv, VerdictIsSound
<1> QED BY <1>8, <1>9, <1>10, <1>11, <1>12, <1>13, <1>14 DEF IInv

\* A call goes on: its record changes, everything else stays.
Goes(r, new) ==
    /\ call' = [call EXCEPT ![r] = new]
    /\ UNCHANGED <<clock, source, memo, seen>>

LEMMA GoesKeeps ==
    ASSUME IInv, NEW r \in Readers, call[r].at # "idle", NEW new \in Call, Goes(r, new),
           new.at \in Past, new.file = call[r].file, new.man = call[r].man,
           new.hashed <= clock,
           new.at = "read" => new.sha \in Content,
           new.at = "remember" => new.sha \in Content \cup {Torn},
           new.at \in Reading => Settled(new.file, new),
           source[new.file].content \in seen[r],
           IF call[r].at = "stat" THEN source[new.file].mtime = new.mtime
                                  ELSE new.mtime = call[r].mtime,
           new.at \in Reading => call[r].at \in Past,
           new.at \in Reading =>
               \A q \in Readers : call[q].at \in Past /\ call[q].file = new.file
                  /\ (q = r \/ (call[q].mtime = new.mtime /\ Safe(new))) => Explains(q, new.sha)
    PROVE  IInv'
<1>1. call'[r] = new /\ \A q \in Readers : q # r => call'[q] = call[q]
  BY DEF Goes, IInv, Typed
<1>2. call' \in [Readers -> Call]
  BY DEF Goes, IInv, Typed
<1>3. UNCHANGED <<clock, source, memo, seen>>
  BY DEF Goes
<1>4. new.at # "idle" /\ call[r].at \in Labels /\ new.file \in Files
  BY DEF Past, IInv, Typed, Call
<1>5. Typed'
  BY <1>1, <1>2, <1>3 DEF IInv, Typed
<1>6. Recorded'
  BY <1>1, <1>3 DEF IInv, Typed, Recorded
<1>7. AllSettled'
  BY <1>1, <1>3 DEF IInv, AllSettled, Settled, Safe, IsRacy
<1>8. Witnessed'
  BY <1>1, <1>3 DEF IInv, Witnessed, View
<1>9. MemoExplained'
  <2> SUFFICES ASSUME NEW q \in Readers, call'[q].at \in Past, memo[call'[q].file] # None,
                      memo[call'[q].file].mtime = call'[q].mtime, Safe(memo[call'[q].file])
               PROVE  Explains(q, memo[call'[q].file].sha)
    BY <1>3 DEF MemoExplained, Explains, Safe, IsRacy
  <2>1. CASE q # r \/ call[r].at \in Past
    BY <1>1, <2>1 DEF IInv, MemoExplained, Past
  <2>2. CASE q = r /\ call[r].at = "stat"
    BY <1>1, <1>4, <2>2 DEF IInv, Typed, AllSettled, Settled, Explains
  <2> QED BY <1>4, <2>1, <2>2 DEF Labels, Past
<1>10. ReadExplained'
  <2> SUFFICES ASSUME NEW p \in Readers, NEW q \in Readers, call'[p].at \in Past,
                      call'[q].at \in Reading, call'[q].file = call'[p].file,
                      q = p \/ (call'[q].mtime = call'[p].mtime /\ Safe(call'[q]))
               PROVE  Explains(p, call'[q].sha)
    BY <1>3 DEF ReadExplained, Explains, Safe, IsRacy
  <2>1. CASE q = r
    BY <1>1, <2>1
  <2>2. CASE q # r /\ (p # r \/ call[r].at \in Past)
    BY <1>1, <2>2 DEF IInv, ReadExplained, Past
  <2>3. CASE q # r /\ p = r /\ call[r].at = "stat"
    BY <1>1, <1>4, <2>3 DEF IInv, Typed, AllSettled, Settled, Explains
  <2> QED BY <1>4, <2>1, <2>2, <2>3 DEF Labels, Past
<1>11. VerdictIsSound'
  BY <1>1, <1>3, <1>4 DEF IInv, VerdictIsSound
<1> QED BY <1>5, <1>6, <1>7, <1>8, <1>9, <1>10, <1>11 DEF IInv

LEMMA StatKeeps == ASSUME IInv, NEW r \in Readers, Stat(r) PROVE IInv'
<1> DEFINE f == call[r].file
           new == [call[r] EXCEPT !.at = "memo", !.mtime = source[f].mtime,
                                  !.len = Len[source[f].content]]
<1>1. /\ call[r].at = "stat" /\ call[r] \in Call /\ f \in Files /\ call[r].man \in Content
      /\ source[f] \in [state : States, content : Content, mtime : Nat]
      /\ View(f) \in seen[r] /\ call[r].hashed <= clock
      /\ UNCHANGED <<clock, source, memo, seen>>
  BY DEF Stat, IInv, Typed, Witnessed, Recorded
<1>2. Learns(r)
  BY <1>1 DEF Learns, IInv, Typed
<1>3. CASE source[f].state = "missing"
  <2>1. Return(r, "missing") /\ Sound(r, "missing")
    BY <1>1, <1>3 DEF Stat, Sound, View
  <2> QED BY <1>1, <1>2, <2>1, ReturnKeeps
<1>4. CASE source[f].state = "down"
  <2>1. Return(r, "unknown") /\ Sound(r, "unknown")
    BY <1>1, <1>4 DEF Stat, Sound, View
  <2> QED BY <1>1, <1>2, <2>1, ReturnKeeps
<1>5. CASE source[f].state = "ok" /\ Len[source[f].content] # Len[call[r].man]
  <2>1. Return(r, "replaced") /\ Sound(r, "replaced")
    BY <1>1, <1>5 DEF Stat, Sound, View
  <2> QED BY <1>1, <1>2, <2>1, ReturnKeeps
<1>6. CASE source[f].state = "ok" /\ Len[source[f].content] = Len[call[r].man]
  <2>1. call' = [call EXCEPT ![r] = new]
    BY <1>1, <1>6 DEF Stat
  <2>2. /\ new \in Call /\ new.at = "memo" /\ new.file = f /\ new.man = call[r].man
        /\ new.hashed = call[r].hashed /\ new.mtime = source[f].mtime
    BY <1>1, TimeAssumption DEF Call, Labels
  <2>3. source[f].content \in seen[r]
    BY <1>1, <1>6 DEF View
  <2> HIDE DEF new
  <2> QED BY <1>1, <2>1, <2>2, <2>3, GoesKeeps DEF Goes, Past, Reading
<1> QED BY <1>1, <1>3, <1>4, <1>5, <1>6 DEF States

LEMMA ConsultKeeps == ASSUME IInv, NEW r \in Readers, Consult(r) PROVE IInv'
<1> DEFINE fp == memo[call[r].file]
           new == [call[r] EXCEPT !.at = "clock"]
<1>1. /\ call[r].at = "memo" /\ call[r] \in Call /\ call[r].file \in Files
      /\ source[call[r].file].content \in seen[r] /\ call[r].hashed <= clock
      /\ UNCHANGED <<clock, source, memo, seen>>
  BY DEF Consult, IInv, Typed, Witnessed, Recorded, Past
<1>2. CASE fp # None /\ Matches(r, fp)
  <2>1. Explains(r, fp.sha)
    BY <1>1, <1>2 DEF IInv, MemoExplained, Matches, Safe, Past
  <2>2. Sound(r, Verdict(fp.sha, call[r].man))
    BY <1>1, <2>1, VerdictSound DEF IInv
  <2>3. Return(r, Verdict(fp.sha, call[r].man))
    BY <1>2 DEF Consult
  <2>4. Learns(r)
    BY <1>1 DEF Learns, IInv, Typed
  <2> QED BY <1>1, <2>2, <2>3, <2>4, ReturnKeeps DEF Verdict
<1>3. CASE ~(fp # None /\ Matches(r, fp))
  <2>1. call' = [call EXCEPT ![r] = new]
    BY <1>3 DEF Consult
  <2>2. /\ new \in Call /\ new.at = "clock" /\ new.file = call[r].file
        /\ new.man = call[r].man /\ new.hashed = call[r].hashed /\ new.mtime = call[r].mtime
    BY <1>1 DEF Call, Labels
  <2> HIDE DEF new
  <2> QED BY <1>1, <2>1, <2>2, GoesKeeps DEF Goes, Past, Reading
<1> QED BY <1>2, <1>3

LEMMA ReadClockKeeps == ASSUME IInv, NEW r \in Readers, ReadClock(r) PROVE IInv'
<1> DEFINE new == [call[r] EXCEPT !.at = "hash", !.hashed = clock]
<1>1. /\ call[r].at = "clock" /\ call[r] \in Call /\ call[r].file \in Files /\ clock \in Nat
      /\ source[call[r].file].content \in seen[r]
      /\ call' = [call EXCEPT ![r] = new]
      /\ UNCHANGED <<clock, source, memo, seen>>
  BY DEF ReadClock, IInv, Typed, Witnessed, Past
<1>2. /\ new \in Call /\ new.at = "hash" /\ new.file = call[r].file
      /\ new.man = call[r].man /\ new.hashed = clock /\ new.mtime = call[r].mtime
  BY <1>1 DEF Call, Labels
<1> HIDE DEF new
<1>3. new.hashed <= clock
  BY <1>1, <1>2
<1>4. Goes(r, new)
  BY <1>1 DEF Goes
<1> QED BY <1>1, <1>2, <1>3, <1>4, GoesKeeps DEF Past, Reading

LEMMA BeginReadKeeps == ASSUME IInv, NEW r \in Readers, BeginRead(r) PROVE IInv'
<1> DEFINE f == call[r].file
           new == [call[r] EXCEPT !.at = "read", !.sha = source[f].content]
<1>1. /\ call[r].at = "hash" /\ call[r] \in Call /\ f \in Files /\ call[r].hashed <= clock
      /\ source[f] \in [state : States, content : Content, mtime : Nat]
      /\ View(f) \in seen[r] /\ source[f].content \in seen[r]
      /\ UNCHANGED <<clock, source, memo, seen>>
  BY DEF BeginRead, IInv, Typed, Witnessed, Recorded, Past
<1>2. Learns(r)
  BY <1>1 DEF Learns, IInv, Typed
<1>3. CASE source[f].state = "missing"
  <2>1. Return(r, "missing") /\ Sound(r, "missing")
    BY <1>1, <1>3 DEF BeginRead, Sound, View
  <2> QED BY <1>1, <1>2, <2>1, ReturnKeeps
<1>4. CASE source[f].state = "down"
  <2>1. Return(r, "unknown") /\ Sound(r, "unknown")
    BY <1>1, <1>4 DEF BeginRead, Sound, View
  <2> QED BY <1>1, <1>2, <2>1, ReturnKeeps
<1>5. CASE source[f].state = "ok"
  <2>1. call' = [call EXCEPT ![r] = new]
    BY <1>1, <1>5 DEF BeginRead
  <2>2. /\ new \in Call /\ new.at = "read" /\ new.file = f /\ new.man = call[r].man
        /\ new.hashed = call[r].hashed /\ new.mtime = call[r].mtime
        /\ new.sha = source[f].content
    BY <1>1 DEF Call, Labels
  <2> HIDE DEF new
  <2>3. \A q \in Readers : call[q].at \in Past /\ call[q].file = f => Explains(q, new.sha)
    BY <1>1, <2>2 DEF IInv, Witnessed, Explains
  <2>4. Settled(f, new)
    BY <2>2 DEF Settled
  <2> QED BY <1>1, <2>1, <2>2, <2>3, <2>4, GoesKeeps DEF Goes, Past, Reading
<1> QED BY <1>1, <1>3, <1>4, <1>5 DEF States

\* What a read that a write overtook gives is a content each reader saw, or a
\* mixture of two of them.
LEMMA EndReadKeeps == ASSUME IInv, NEW r \in Readers, EndRead(r) PROVE IInv'
<1> DEFINE f == call[r].file
           now == source[f].content
<1>1. /\ call[r].at = "read" /\ call[r] \in Call /\ f \in Files /\ call[r].hashed <= clock
      /\ now \in Content /\ now \in seen[r] /\ call[r].sha \in Content
      /\ UNCHANGED <<clock, source, memo, seen>>
  BY DEF EndRead, IInv, Typed, Witnessed, Recorded, Past
<1>2. PICK sha \in {call[r].sha, now} \cup (IF now # call[r].sha THEN {Torn} ELSE {}) :
         call' = [call EXCEPT ![r].at = "remember", ![r].sha = sha]
  BY DEF EndRead
<1> DEFINE new == [call[r] EXCEPT !.at = "remember", !.sha = sha]
<1>3. call' = [call EXCEPT ![r] = new]
  BY <1>1, <1>2 DEF IInv, Typed
<1>4. /\ new \in Call /\ new.at = "remember" /\ new.file = f /\ new.man = call[r].man
      /\ new.hashed = call[r].hashed /\ new.mtime = call[r].mtime /\ new.sha = sha
      /\ sha \in Content \cup {Torn}
  BY <1>1, <1>2 DEF Call, Labels
<1> HIDE DEF new
<1>5. ASSUME NEW q \in Readers, call[q].at \in Past, call[q].file = f,
             q = r \/ (call[q].mtime = new.mtime /\ Safe(new))
      PROVE  Explains(q, sha)
  <2>1. now \in seen[q]
    BY <1>5 DEF IInv, Witnessed
  <2>2. call[r].sha \in seen[q]
    BY <1>1, <1>4, <1>5, TimeAssumption
       DEF IInv, ReadExplained, Explains, Reading, Safe
  <2> QED BY <1>1, <1>2, <2>1, <2>2 DEF Explains
<1>6. Settled(f, new)
  BY <1>1, <1>2, <1>4 DEF IInv, AllSettled, Settled, Safe, Reading
<1> QED BY <1>1, <1>3, <1>4, <1>5, <1>6, GoesKeeps DEF Goes, Past, Reading

LEMMA RememberKeeps == ASSUME IInv, NEW r \in Readers, Remember(r) PROVE IInv'
<1>1. /\ call[r].at = "remember" /\ call[r] \in Call /\ call[r].file \in Files
      /\ call[r].sha \in Content \cup {Torn}
      /\ UNCHANGED <<clock, source, seen>>
      /\ Return(r, Verdict(call[r].sha, call[r].man))
  BY DEF Remember, IInv, Typed
<1>2. Explains(r, call[r].sha)
  BY <1>1 DEF IInv, ReadExplained, Past, Reading
<1>3. Sound(r, Verdict(call[r].sha, call[r].man))
  BY <1>1, <1>2, VerdictSound DEF IInv
<1>4. Fingerprint(r) \in Prints
  BY <1>1 DEF Fingerprint, Prints, Call
<1>5. Learns(r)
  BY <1>1, <1>4 DEF Remember, Learns, IInv, Typed
<1> QED BY <1>1, <1>3, <1>5, ReturnKeeps DEF Verdict

-----------------------------------------------------------------------------
(* The world.                                                              *)

LEMMA TickKeeps == IInv /\ Tick => IInv'
<1> SUFFICES ASSUME IInv, Tick PROVE IInv'
  OBVIOUS
<1>1. /\ clock \in Nat /\ clock' = clock + 1
      /\ \A r \in Readers : call[r].hashed \in Nat
      /\ \A f \in Files : memo[f] # None => memo[f].hashed \in Nat
      /\ UNCHANGED <<source, memo, call, seen>>
  BY DEF Tick, IInv, Typed, Call, Prints
<1>2. Recorded'
  BY <1>1 DEF IInv, Recorded
<1>3. Typed'
  BY <1>1 DEF IInv, Typed
<1> QED BY <1>1, <1>2, <1>3 DEF IInv, AllSettled, Settled, Safe, IsRacy, Witnessed, View,
           MemoExplained, ReadExplained, Explains, VerdictIsSound

\* The witnesses only collect.
LEMMA WitnessGrows ==
    ASSUME IInv, Witness, UNCHANGED <<call, memo>>,
           source' \in [Files -> [state : States, content : Content, mtime : Nat]]
    PROVE  /\ seen' \in [Readers -> SUBSET Sees]
           /\ \A r \in Readers : seen[r] \subseteq seen'[r]
           /\ \A r \in Readers : call[r].at = "idle" => seen'[r] = seen[r]
           /\ \A r \in Readers : call[r].at # "idle" => View(call[r].file)' \in seen'[r]
           /\ MemoExplained' /\ ReadExplained' /\ VerdictIsSound'
<1>1. \A f \in Files : View(f)' \in Sees
  BY DEF View, Sees, States
<1>2. \A r \in Readers : seen'[r] = IF call[r].at = "idle" THEN seen[r]
                                    ELSE seen[r] \cup {View(call[r].file)'}
  BY DEF Witness
<1>3. seen' \in [Readers -> SUBSET Sees]
  BY <1>1, <1>2 DEF Witness, IInv, Typed, View
<1>4. \A r \in Readers : \A sha : Explains(r, sha) => Explains(r, sha)'
  BY <1>2 DEF Explains
<1>5. MemoExplained'
  BY <1>4 DEF IInv, MemoExplained, Safe, IsRacy
<1>6. ReadExplained'
  BY <1>4 DEF IInv, ReadExplained, Safe, IsRacy
<1>7. VerdictIsSound'
  BY <1>2 DEF IInv, VerdictIsSound
<1> QED BY <1>2, <1>3, <1>5, <1>6, <1>7

LEMMA LoseKeeps == ASSUME IInv, NEW f \in Files, Lose(f) PROVE IInv'
<1>1. PICK state \in States \ {source[f].state} : source' = [source EXCEPT ![f].state = state]
  BY DEF Lose
<1>2. Witness /\ UNCHANGED <<clock, memo, call>>
  BY DEF Lose
<1>3. source' \in [Files -> [state : States, content : Content, mtime : Nat]]
  BY <1>1 DEF IInv, Typed
<1>4. \A g \in Files : source'[g].content = source[g].content /\ source'[g].mtime = source[g].mtime
  BY <1>1 DEF IInv, Typed
<1>5. Typed' /\ Recorded'
  BY <1>2, <1>3, WitnessGrows DEF IInv, Typed, Recorded
<1>6. AllSettled'
  BY <1>2, <1>4 DEF IInv, Typed, AllSettled, Settled, Safe, IsRacy, Reading
<1>7. Witnessed'
  BY <1>2, <1>3, <1>4, WitnessGrows DEF IInv, Typed, Witnessed, View, Past
<1> QED BY <1>2, <1>3, <1>5, <1>6, <1>7, WitnessGrows DEF IInv

\* No safe digest has the mtime of a later write: here the margin must cover
\* the granularity and the lag.
LEMMA WriteKeeps ==
    ASSUME MarginCovers, IInv, NEW f \in Files, NEW c \in Content, Write(f, c)
    PROVE  IInv'
<1>1. PICK stamp \in 0 .. clock :
         /\ clock < stamp + Granularity + Lag
         /\ source' = [source EXCEPT ![f] = [state |-> "ok", content |-> c, mtime |-> stamp]]
  BY DEF Write
<1>2. Witness /\ UNCHANGED <<clock, memo, call>>
  BY DEF Write
<1>3. clock \in Nat /\ stamp \in Nat
  BY <1>1 DEF IInv, Typed
<1>4. source' \in [Files -> [state : States, content : Content, mtime : Nat]]
  BY <1>1, <1>3 DEF IInv, Typed, States
<1>5. source'[f] = [state |-> "ok", content |-> c, mtime |-> stamp]
      /\ \A g \in Files : g # f => source'[g] = source[g]
  BY <1>1 DEF IInv, Typed
<1>6. ASSUME NEW m \in Nat, NEW h \in Nat, h <= clock, ~IsRacy(m, h) PROVE m # stamp
  BY <1>1, <1>3, <1>6, TimeAssumption DEF IsRacy, MarginCovers
<1>7. Typed' /\ Recorded'
  BY <1>2, <1>4, WitnessGrows DEF IInv, Typed, Recorded
<1>8. AllSettled'
  <2>1. ASSUME NEW g \in Files, memo[g] # None PROVE Settled(g, memo[g])'
    <3>1. memo[g].mtime \in Nat /\ memo[g].hashed \in Nat /\ memo[g].hashed <= clock
      BY <2>1 DEF IInv, Typed, Recorded, Prints
    <3> QED BY <1>2, <1>5, <1>6, <2>1, <3>1 DEF IInv, AllSettled, Settled, Safe, IsRacy
  <2>2. ASSUME NEW r \in Readers, call[r].at \in Reading PROVE Settled(call[r].file, call[r])'
    <3>1. /\ call[r].mtime \in Nat /\ call[r].hashed \in Nat /\ call[r].hashed <= clock
          /\ call[r].file \in Files
      BY <2>2 DEF IInv, Typed, Recorded, Call, Reading
    <3> QED BY <1>2, <1>5, <1>6, <2>2, <3>1 DEF IInv, AllSettled, Settled, Safe, IsRacy
  <2> QED BY <1>2, <2>1, <2>2 DEF AllSettled
<1>9. Witnessed'
  <2>1. \A r \in Readers : call[r].at # "idle" => View(call[r].file)' \in seen'[r]
    BY <1>2, <1>4, WitnessGrows
  <2>2. ASSUME NEW r \in Readers, call[r].at \in Past
        PROVE  source'[call[r].file].content \in seen'[r]
    <3>1. call[r].at # "idle" /\ call[r].file \in Files
      BY <2>2 DEF IInv, Typed, Past
    <3>2. CASE call[r].file = f
      BY <1>2, <1>5, <2>1, <3>1, <3>2 DEF View
    <3>3. CASE call[r].file # f
      BY <1>2, <1>4, <1>5, <2>2, <3>1, <3>3, WitnessGrows DEF IInv, Witnessed
    <3> QED BY <3>2, <3>3
  <2> QED BY <1>2, <2>1, <2>2 DEF Witnessed, View
<1> QED BY <1>2, <1>4, <1>7, <1>8, <1>9, WitnessGrows DEF IInv

LEMMA StutterKeeps == IInv /\ UNCHANGED vars => IInv'
BY DEF vars, IInv, Typed, Recorded, AllSettled, Settled, Safe, IsRacy, Witnessed, View,
       MemoExplained, ReadExplained, Explains, VerdictIsSound

\* Every step keeps the invariant.
LEMMA StepKeeps == ASSUME MarginCovers PROVE IInv /\ [Next]_vars => IInv'
<1> SUFFICES ASSUME IInv, [Next]_vars PROVE IInv'
  OBVIOUS
<1>1. ASSUME NEW r \in Readers, Step(r) PROVE IInv'
  BY <1>1, StatKeeps, ConsultKeeps, ReadClockKeeps, BeginReadKeeps, EndReadKeeps, RememberKeeps
     DEF Step
<1> QED BY <1>1, AskKeeps, TickKeeps, LoseKeeps, WriteKeeps, StutterKeeps DEF Next, Over

LEMMA AlwaysIInv == ASSUME MarginCovers PROVE Spec => []IInv
BY InitKeeps, StepKeeps, PTL DEF Spec

\* No remembered digest that the memo would still use belongs to bytes the
\* file no longer has, however often and fast it is rewritten in place.
THEOREM MemoIsSoundAlways == ASSUME MarginCovers PROVE Spec => []MemoIsSound
<1>1. IInv => MemoIsSound
  BY DEF IInv, AllSettled, Settled, Safe, MemoIsSound
<1> QED BY <1>1, AlwaysIInv, PTL

\* What SourceRevalidator::state answers was so at some time during the call,
\* whoever filled the memo.
THEOREM VerdictIsSoundAlways == ASSUME MarginCovers PROVE Spec => []VerdictIsSound
BY AlwaysIInv, PTL DEF IInv

=============================================================================
