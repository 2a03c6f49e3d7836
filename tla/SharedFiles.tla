---------------------------- MODULE SharedFiles ----------------------------
(***************************************************************************)
(* The decoded files that the workers of a PrefetchGroup share for one     *)
(* member (SharedFiles of rust/src/prefetch.rs): a small most-recently-    *)
(* used list, and the files some worker is decoding, which the others wait *)
(* for.  A critical section of its mutex is one step.                      *)
(***************************************************************************)
EXTENDS Naturals, Sequences, FiniteSets

CONSTANTS
    Workers,
    Files,
    Capacity,      \* FILES_PER_MEMBER
    None,
    MaxRequests,   \* bound: file() calls of a run
    MaxFailures    \* bound: decodes that fail or panic

ASSUME FilesAssumption ==
    /\ Capacity \in Nat \ {0}
    /\ MaxRequests \in Nat /\ MaxFailures \in Nat
    /\ None \notin Files

VARIABLES
    ready,         \* the decoded files held, most recently used last
    loading,       \* the files being decoded
    pc,            \* each worker: idle, want (the mutex), asleep or decoding
    file,          \* the file it asked for
    requests, failures

vars == <<ready, loading, pc, file, requests, failures>>

Labels == {"idle", "want", "asleep", "decoding"}
Held   == {ready[i] : i \in DOMAIN ready}

Init ==
    /\ ready = <<>>
    /\ loading = {}
    /\ pc = [w \in Workers |-> "idle"]
    /\ file = [w \in Workers |-> None]
    /\ requests = 0
    /\ failures = 0

\* A sample reads a file.
Request(w, f) ==
    /\ pc[w] = "idle"
    /\ requests < MaxRequests
    /\ requests' = requests + 1
    /\ pc' = [pc EXCEPT ![w] = "want"]
    /\ file' = [file EXCEPT ![w] = f]
    /\ UNCHANGED <<ready, loading, failures>>

\* The held file moves to the tail.
Use(w) ==
    /\ pc[w] = "want" /\ file[w] \in Held
    /\ ready' = Append(SelectSeq(ready, LAMBDA f : f # file[w]), file[w])
    /\ pc' = [pc EXCEPT ![w] = "idle"]
    /\ UNCHANGED <<loading, file, requests, failures>>

Wait(w) ==
    /\ pc[w] = "want" /\ file[w] \notin Held /\ file[w] \in loading
    /\ pc' = [pc EXCEPT ![w] = "asleep"]
    /\ UNCHANGED <<ready, loading, file, requests, failures>>

Decode(w) ==
    /\ pc[w] = "want" /\ file[w] \notin Held \cup loading
    /\ loading' = loading \cup {file[w]}
    /\ pc' = [pc EXCEPT ![w] = "decoding"]
    /\ UNCHANGED <<ready, file, requests, failures>>

\* (mutant) Only one sleeper is woken.
WakeOne(w) ==
    LET asleep == {v \in Workers : pc[v] = "asleep"} IN
    IF asleep = {} THEN pc' = [pc EXCEPT ![w] = "idle"]
    ELSE \E v \in asleep : pc' = [pc EXCEPT ![w] = "idle", ![v] = "want"]

\* published.notify_all, and the decoder goes on.
WakeAll(w) ==
    pc' = [v \in Workers |-> IF v = w THEN "idle"
                             ELSE IF pc[v] = "asleep" THEN "want" ELSE pc[v]]

\* The Loading guard drops: the file joins the list, the oldest leave it.
Publish(w) ==
    LET list == Append(ready, file[w])
        over == IF Len(list) > Capacity THEN Len(list) - Capacity ELSE 0 IN
    /\ pc[w] = "decoding"
    /\ loading' = loading \ {file[w]}
    /\ ready' = SubSeq(list, over + 1, Len(list))
    /\ WakeAll(w)
    /\ UNCHANGED <<file, requests, failures>>

\* (mutant) A failed decode leaves its mark behind.
FailQuietly(w) ==
    /\ pc[w] = "decoding"
    /\ failures < MaxFailures
    /\ failures' = failures + 1
    /\ pc' = [pc EXCEPT ![w] = "idle"]
    /\ UNCHANGED <<ready, loading, file, requests>>

\* It also drops when the decode fails or panics: nothing is published.
Fail(w) ==
    /\ pc[w] = "decoding"
    /\ failures < MaxFailures
    /\ failures' = failures + 1
    /\ loading' = loading \ {file[w]}
    /\ WakeAll(w)
    /\ UNCHANGED <<ready, file, requests>>

Step(w) == Use(w) \/ Wait(w) \/ Decode(w) \/ Publish(w)

Idle == requests = MaxRequests /\ (\A w \in Workers : pc[w] = "idle") /\ UNCHANGED vars

Next == \/ \E w \in Workers : \/ \E f \in Files : Request(w, f)
                              \/ Step(w)
                              \/ Fail(w)
        \/ Idle

Spec == Init /\ [][Next]_vars

\* Threads are scheduled and decodes end.
FairSpec == Spec /\ \A w \in Workers : WF_vars(Step(w))

-----------------------------------------------------------------------------
(* Properties.                                                             *)

Loads(w, f) == pc[w] = "decoding" /\ file[w] = f

\* Every variable has its type; at most two files per member are held
\* (spec/prefetch.md section 3.6).
TypeOK ==
    /\ ready \in Seq(Files) /\ Len(ready) <= Capacity
    /\ loading \subseteq Files
    /\ pc \in [Workers -> Labels]
    /\ file \in [Workers -> Files \cup {None}]
    /\ \A w \in Workers : pc[w] # "idle" => file[w] \in Files
    /\ requests \in Nat /\ failures \in Nat

\* A file is marked as being decoded exactly while one worker decodes it, also
\* when decodes fail: nothing is decoded twice at a time.
OneDecoder ==
    /\ \A f \in Files : f \in loading <=> \E w \in Workers : Loads(w, f)
    /\ \A v, w \in Workers : \A f \in Files : Loads(v, f) /\ Loads(w, f) => v = w

\* Whoever sleeps waits for a decode that is still running, a failed or
\* panicking one included: nobody is left waiting for ever.
SleepersAreServed ==
    \A w \in Workers : pc[w] = "asleep" => file[w] \in loading

\* One decode serves all who need the file, and serves them.
DecodesAreShared == OneDecoder /\ SleepersAreServed

\* Every request is answered.
RequestReturns == \A w \in Workers : pc[w] # "idle" ~> pc[w] = "idle"

=============================================================================
