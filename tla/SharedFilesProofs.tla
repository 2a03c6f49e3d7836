------------------------- MODULE SharedFilesProofs -------------------------
(***************************************************************************)
(* For any number of workers and files: one decoder per file, and nobody   *)
(* asleep without a decode to wait for.  Neither depends on which files    *)
(* the list holds, so its guards are not used.                             *)
(***************************************************************************)
EXTENDS SharedFiles, TLAPS

\* The types the argument needs; a worker that is busy has a file.
Places ==
    /\ pc \in [Workers -> Labels]
    /\ file \in [Workers -> Files \cup {None}]
    /\ \A w \in Workers : pc[w] # "idle" => file[w] \in Files
    /\ loading \subseteq Files

IInv == Places /\ OneDecoder /\ SleepersAreServed

\* A worker takes on a file that nobody decodes.
LEMMA DecodeKeeps == ASSUME IInv, NEW w \in Workers, Decode(w) PROVE IInv'
<1> USE DEF Loads, Labels
<1>1. /\ pc[w] = "want" /\ file[w] \in Files /\ file[w] \notin loading
      /\ loading' = loading \cup {file[w]} /\ file' = file
      /\ pc' = [pc EXCEPT ![w] = "decoding"]
  BY DEF Decode, IInv, Places
<1>2. Places'
  BY <1>1 DEF IInv, Places
<1>3. \A v \in Workers : v # w => pc'[v] = pc[v]
  BY <1>1 DEF IInv, Places
<1>4. pc'[w] = "decoding"
  BY <1>1 DEF IInv, Places
<1>5. OneDecoder'
  BY <1>1, <1>3, <1>4 DEF IInv, OneDecoder
<1>6. SleepersAreServed'
  BY <1>1, <1>3, <1>4 DEF IInv, SleepersAreServed
<1> QED BY <1>2, <1>5, <1>6 DEF IInv

\* The guard drops: the mark goes, and everybody who slept looks again.
LEMMA WakeKeeps ==
    ASSUME IInv, NEW w \in Workers, pc[w] = "decoding",
           loading' = loading \ {file[w]}, WakeAll(w), file' = file
    PROVE  IInv'
<1> USE DEF Loads, Labels
<1>1. \A v \in Workers : pc'[v] = IF v = w THEN "idle"
                                  ELSE IF pc[v] = "asleep" THEN "want" ELSE pc[v]
  BY DEF WakeAll
<1>2. Places'
  BY <1>1 DEF IInv, Places, WakeAll
<1>3. OneDecoder'
  BY <1>1 DEF IInv, OneDecoder, Places
<1>4. SleepersAreServed'
  BY <1>1 DEF SleepersAreServed, IInv, Places
<1> QED BY <1>2, <1>3, <1>4 DEF IInv

LEMMA InitKeeps == Init => IInv
BY DEF Init, IInv, Places, OneDecoder, SleepersAreServed, Loads, Labels

\* Every step keeps the invariant.
LEMMA StepKeeps == IInv /\ [Next]_vars => IInv'
<1> SUFFICES ASSUME IInv, [Next]_vars PROVE IInv'
  OBVIOUS
<1> USE DEF Loads, Labels
<1>1. ASSUME UNCHANGED vars PROVE IInv'
  BY <1>1 DEF vars, IInv, Places, OneDecoder, SleepersAreServed
<1>2. ASSUME NEW w \in Workers, NEW f \in Files, Request(w, f) PROVE IInv'
  BY <1>2 DEF Request, IInv, Places, OneDecoder, SleepersAreServed
<1>3. ASSUME NEW w \in Workers, Use(w) PROVE IInv'
  BY <1>3 DEF Use, IInv, Places, OneDecoder, SleepersAreServed
<1>4. ASSUME NEW w \in Workers, Wait(w) PROVE IInv'
  BY <1>4 DEF Wait, IInv, Places, OneDecoder, SleepersAreServed
<1>5. ASSUME NEW w \in Workers, Publish(w) PROVE IInv'
  BY <1>5, WakeKeeps DEF Publish
<1>6. ASSUME NEW w \in Workers, Fail(w) PROVE IInv'
  BY <1>6, WakeKeeps DEF Fail
<1> QED BY <1>1, <1>2, <1>3, <1>4, <1>5, <1>6, DecodeKeeps DEF Next, Step, Idle

LEMMA AlwaysIInv == Spec => []IInv
BY InitKeeps, StepKeeps, PTL DEF Spec

\* At no time do two workers decode the same file, and no worker waits for a
\* decode that has ended, failed or panicked.
THEOREM DecodesAreSharedAlways == Spec => []DecodesAreShared
<1>1. IInv => DecodesAreShared
  BY DEF IInv, DecodesAreShared
<1>2. QED
  BY <1>1, AlwaysIInv, PTL

=============================================================================
