--------------------------- MODULE PrefetchGroup ---------------------------
(***************************************************************************)
(* The bounded look-ahead decoder of rust/src/prefetch.rs: one consumer    *)
(* takes epochs in a declared order, worker threads decode the members'    *)
(* samples ahead of it, a warm-up thread downloads files further ahead.    *)
(*                                                                         *)
(* Every critical section of the mutex over State is one step; "st" is     *)
(* that State.  A thread that waits on a condition variable is asleep      *)
(* until a notify_all.  A worker that ends a decode goes on to its next    *)
(* item in a step of its own, which adds interleavings and removes none.   *)
(* The decode queue holds the queued cells in the order they were          *)
(* admitted: cells and queue are emptied together, so it needs no variable.*)
(* Statistics, latencies and the text of errors are left out.              *)
(***************************************************************************)
EXTENDS Naturals, Sequences, FiniteSets, FiniteSetsExt

CONSTANTS
    NumMembers,      \* members, numbered in key order
    NumEpochs,
    Anchor,          \* Anchor[m][e]: the cadence anchor of member m in epoch e
    Size,            \* Size[k]: the bytes of sample k once decoded
    MayFail,         \* the samples whose decode may fail
    Orders,          \* the orders the consumer may declare
    Depth, MaxBytes, FetchAhead,     \* MaxBytes may be None
    Workers,
    None,
    MaxGeneration    \* bound: no start or cancel from there on

Members == 1 .. NumMembers
Epochs  == 1 .. NumEpochs
Keys    == {<<m, Anchor[m][e]>> : m \in Members, e \in Epochs}
Anchors == {k[2] : k \in Keys}

ASSUME GroupAssumption ==
    /\ NumMembers \in Nat \ {0} /\ NumEpochs \in Nat \ {0}
    /\ Anchor \in [Members -> [Epochs -> Anchors]]
    /\ Size \in [Keys -> Nat]
    /\ MayFail \subseteq Keys
    /\ Orders \subseteq Seq(Epochs) \ {<<>>}
    /\ Depth \in Nat \ {0} /\ FetchAhead \in Nat
    /\ None \notin Nat \cup Anchors
    /\ MaxBytes \in Nat \cup {None}
    /\ IsFiniteSet(Workers)
    /\ MaxGeneration \in Nat

VARIABLES
    st,          \* State<T>, under the mutex
    worker,      \* each decode thread and what it decodes
    warmer,      \* the warm-up thread
    consumer,    \* the call the consumer is in, and whether it sleeps in it
    out          \* the answer of the consumer's last take

vars == <<st, worker, warmer, consumer, out>>

NoCell == [status |-> "none", slots |-> 0, bytes |-> None, data |-> None, at |-> 0, born |-> 0]
Nobody == [m \in Members |-> None]

-----------------------------------------------------------------------------
(* What the critical sections do to the state.                             *)

KeyAt(s, i, m) == <<m, Anchor[m][s.order[i]]>>
KeysAt(s, i)   == {KeyAt(s, i, m) : m \in Members}
Live(s)        == s.next + 1 .. s.admitted

Done(cell)   == cell.status \in {"ready", "failed"}
HeadDone(s)  == s.next < s.admitted /\ \A k \in KeysAt(s, s.next + 1) : Done(s.cells[k])
AnyFailed(s) == \E i \in Live(s) : \E k \in KeysAt(s, i) : s.cells[k].status = "failed"

\* (mutant) The count of running decodes starts afresh with the order.
EndOrderAndForget(s, phase) ==
    [s EXCEPT !.phase = phase, !.generation = @ + 1, !.order = <<>>, !.next = 0,
              !.admitted = 0, !.cells = [k \in Keys |-> NoCell], !.running = 0,
              !.warmTo = 0, !.toWarm = {}, !.fetched = {}, !.prev = Nobody]

\* (mutant) The next order inherits the previous anchors.
EndOrderKeepingAnchors(s, phase) ==
    [s EXCEPT !.phase = phase, !.generation = @ + 1, !.order = <<>>, !.next = 0,
              !.admitted = 0, !.cells = [k \in Keys |-> NoCell],
              !.warmTo = 0, !.toWarm = {}, !.fetched = {}]

\* State::end_order.  What runs is not interrupted; the generation outdates it.
EndOrder(s, phase) ==
    [s EXCEPT !.phase = phase, !.generation = @ + 1, !.order = <<>>, !.next = 0,
              !.admitted = 0, !.cells = [k \in Keys |-> NoCell],
              !.warmTo = 0, !.toWarm = {}, !.fetched = {}, !.prev = Nobody]

\* A sample enters the window: the one taken last if it is the same, else a
\* queued decode with the member's last size as its estimate.
NewCell(s, k, uses) ==
    LET m == k[1]
        fresh == [NoCell EXCEPT !.slots = Cardinality(uses), !.born = s.generation,
                                !.at = CHOOSE i \in uses : \A j \in uses : i <= j]
    IN IF s.last[m] # None /\ s.last[m].anchor = k[2]
       THEN [fresh EXCEPT !.status = "ready", !.data = s.last[m].data, !.bytes = s.last[m].bytes]
       ELSE [fresh EXCEPT !.status = "queued", !.bytes = s.lastSize[m]]

\* The slots to admit, up to n, that use a sample.
Uses(s, n, k) == {i \in s.admitted + 1 .. n : k \in KeysAt(s, i)}

\* (mutant) Each slot restarts the count of the slots that share a sample.
AdmitWithoutSharing(s, n) ==
    [s EXCEPT !.admitted = n,
              !.cells = [k \in Keys |->
                  IF Uses(s, n, k) = {} THEN s.cells[k]
                  ELSE IF s.cells[k].status = "none" THEN NewCell(s, k, Uses(s, n, k))
                  ELSE [s.cells[k] EXCEPT !.slots = Cardinality(Uses(s, n, k))]]]

\* The positions up to n are admitted.
AdmitTo(s, n) ==
    [s EXCEPT !.admitted = n,
              !.cells = [k \in Keys |->
                  IF Uses(s, n, k) = {} THEN s.cells[k]
                  ELSE IF s.cells[k].status = "none" THEN NewCell(s, k, Uses(s, n, k))
                  ELSE [s.cells[k] EXCEPT !.slots = @ + Cardinality(Uses(s, n, k))]]]

\* committed_bytes: held or in flight, a failed sample counting for nothing.
Counted(s)   == {k \in Keys : s.cells[k].status \in {"queued", "running", "ready"}}
Committed(s) == MapThenSumSet(LAMBDA k : s.cells[k].bytes, Counted(s))

\* (mutant) What is in flight is not counted.
FitsHeld(s, n) ==
    n # s.next + 1 /\ MaxBytes # None =>
       LET held == {k \in Keys : s.cells[k].status = "ready"}
       IN MapThenSumSet(LAMBDA k : s.cells[k].bytes, held) <= MaxBytes

\* (mutant) No slot is exempt from the budget.
FitsLikeAnyOther(s, n) ==
    MaxBytes # None =>
       LET t == AdmitTo(s, n)
       IN (\A k \in Counted(t) : t.cells[k].bytes # None) /\ Committed(t) <= MaxBytes

\* The head is always admitted; behind it a slot must fit, at known sizes.
Fits(s, n) ==
    n # s.next + 1 /\ MaxBytes # None =>
       LET t == AdmitTo(s, n)
       IN (\A k \in Counted(t) : t.cells[k].bytes # None) /\ Committed(t) <= MaxBytes

\* State::admit goes on up to n: within the depth, not past a failed slot.
Admits(s, n) ==
    LET end == IF AnyFailed(s) THEN s.admitted
               ELSE IF s.next + Depth < Len(s.order) THEN s.next + Depth ELSE Len(s.order)
    IN /\ n \in s.admitted .. end
       /\ \A i \in s.admitted + 1 .. n : Fits(s, i)
       /\ n < end => ~Fits(s, n + 1)

\* The files of the slots behind the window are queued for a download, once.
QueueWarmUp(s) ==
    LET end == IF s.admitted + FetchAhead < Len(s.order) THEN s.admitted + FetchAhead
               ELSE Len(s.order)
        from == IF s.warmTo < s.admitted THEN s.admitted ELSE s.warmTo
        new  == UNION {KeysAt(s, i) : i \in from + 1 .. end} \ s.fetched
    IN IF FetchAhead = 0 \/ AnyFailed(s) THEN s
       ELSE [s EXCEPT !.warmTo = IF @ < end THEN end ELSE @,
                      !.toWarm = @ \cup new, !.fetched = @ \cup new]

Admit(s) == \E n \in s.admitted .. Len(s.order) :
                Admits(s, n) /\ st' = QueueWarmUp(AdmitTo(s, n))

\* work.notify_all and done.notify_all.
Woken(thread) == IF thread.pc = "asleep" THEN [thread EXCEPT !.pc = "awake"] ELSE thread
WakeConsumer  == consumer' = [consumer EXCEPT !.asleep = FALSE]

-----------------------------------------------------------------------------
(* The consumer.                                                           *)

Free      == [op |-> "none", asleep |-> FALSE]
In(op)    == [op |-> op, asleep |-> TRUE]
Joining   == [op |-> "join", asleep |-> FALSE]

NotifyWork == /\ worker' = [w \in Workers |-> Woken(worker[w])]
              /\ warmer' = Woken(warmer)

Start(order) ==
    /\ consumer = Free
    /\ st.phase # "closed"
    /\ st.generation < MaxGeneration
    /\ Admit([EndOrder(st, "active") EXCEPT !.order = order])
    /\ NotifyWork
    /\ UNCHANGED <<consumer, out>>

\* The slot of position i leaves the window.
Release(s, i) ==
    [s EXCEPT
        !.next = i,
        !.cells = [k \in Keys |-> IF k \notin KeysAt(s, i) THEN s.cells[k]
                                  ELSE IF s.cells[k].slots = 1 THEN NoCell
                                  ELSE [s.cells[k] EXCEPT !.slots = @ - 1]],
        !.prev = [m \in Members |-> KeyAt(s, i, m)[2]],
        !.last = [m \in Members |->
                     LET k == KeyAt(s, i, m) IN
                     [anchor |-> k[2], data |-> s.cells[k].data, bytes |-> s.cells[k].bytes]]]

\* A finished head is delivered; a failed one ends the order with the error of
\* its first failed member.
TakeHead ==
    LET i == st.next + 1
        failed == {m \in Members : st.cells[KeyAt(st, i, m)].status = "failed"} IN
    /\ IF failed # {}
       THEN /\ st' = EndOrder(st, "failed")
            /\ out' = [kind |-> "error", epoch |-> st.order[i],
                       member |-> CHOOSE m \in failed : \A o \in failed : m <= o]
            /\ UNCHANGED <<worker, warmer>>
       ELSE /\ Admit(Release(st, i))
            /\ out' = [kind |-> "sample", epoch |-> st.order[i],
                       data |-> [m \in Members |-> st.cells[KeyAt(st, i, m)].data],
                       changed |-> {m \in Members : st.prev[m] # KeyAt(st, i, m)[2]}]
            /\ NotifyWork
    /\ consumer' = Free

\* take of the next epoch; any other epoch, and any other phase, is refused
\* without a trace.
Take ==
    /\ consumer = Free
    /\ st.phase = "active"
    /\ st.next < Len(st.order)
    /\ IF HeadDone(st) THEN TakeHead
       ELSE consumer' = In("take") /\ UNCHANGED <<st, worker, warmer, out>>

ResumeTake ==
    /\ consumer.op = "take" /\ ~consumer.asleep
    /\ IF HeadDone(st) THEN TakeHead
       ELSE consumer' = In("take") /\ UNCHANGED <<st, worker, warmer, out>>

Cancel(wait) ==
    /\ consumer = Free
    /\ st.phase # "closed"
    /\ st.generation < MaxGeneration
    /\ st' = EndOrder(st, "cancelled")
    /\ consumer' = IF wait /\ st'.running > 0 THEN In("cancel") ELSE Free
    /\ UNCHANGED <<worker, warmer, out>>

ResumeCancel ==
    /\ consumer.op = "cancel" /\ ~consumer.asleep
    /\ consumer' = IF st.running > 0 THEN In("cancel") ELSE Free
    /\ UNCHANGED <<st, worker, warmer, out>>

\* (mutant) The sleeping threads are not told.
ShutdownSilently(s) ==
    /\ st' = [s EXCEPT !.shutdown = TRUE]
    /\ consumer' = Joining
    /\ UNCHANGED <<worker, warmer, out>>

\* The second half of close, and Drop: stop the threads, then join them.
Shutdown(s) ==
    /\ st' = [s EXCEPT !.shutdown = TRUE]
    /\ NotifyWork
    /\ consumer' = Joining
    /\ UNCHANGED out

Close ==
    /\ consumer = Free
    /\ st.phase # "closed"
    /\ LET s == EndOrder(st, "closed") IN
       IF s.running = 0 THEN Shutdown(s)
       ELSE st' = s /\ consumer' = In("close") /\ UNCHANGED <<worker, warmer, out>>

ResumeClose ==
    /\ consumer.op = "close" /\ ~consumer.asleep
    /\ IF st.running = 0 THEN Shutdown(st)
       ELSE consumer' = In("close") /\ UNCHANGED <<st, worker, warmer, out>>

Drop ==
    /\ consumer = Free
    /\ st.phase # "closed"
    /\ Shutdown(EndOrder(st, "closed"))

Join ==
    /\ consumer = Joining
    /\ \A w \in Workers : worker[w].pc = "exited"
    /\ warmer.pc = "exited"
    /\ consumer' = [Joining EXCEPT !.op = "gone"]
    /\ UNCHANGED <<st, worker, warmer, out>>

-----------------------------------------------------------------------------
(* The threads.                                                            *)

Resting(pc) == [pc |-> pc, gen |-> 0, key |-> None]

\* The front of the queue: the earliest admitted, in member order.
Queued(s)  == {k \in Keys : s.cells[k].status = "queued"}
Front(s, k) ==
    /\ k \in Queued(s)
    /\ \A o \in Queued(s) : \/ s.cells[k].at < s.cells[o].at
                            \/ s.cells[k].at = s.cells[o].at /\ k[1] <= o[1]

\* The head of the worker's loop: stop, sleep, or take the oldest sample.
NextItem(w) ==
    /\ worker[w].pc = "awake"
    /\ \/ /\ st.shutdown
          /\ worker' = [worker EXCEPT ![w] = Resting("exited")]
          /\ UNCHANGED st
       \/ /\ ~st.shutdown /\ Queued(st) = {}
          /\ worker' = [worker EXCEPT ![w] = Resting("asleep")]
          /\ UNCHANGED st
       \/ \E k \in Keys :
            /\ ~st.shutdown /\ Front(st, k)
            /\ st' = [st EXCEPT !.cells[k].status = "running", !.running = @ + 1]
            /\ worker' = [worker EXCEPT ![w] = [pc |-> "decoding", gen |-> st.generation, key |-> k]]
    /\ UNCHANGED <<warmer, consumer, out>>

\* (mutant) Whoever waits for the sample gets it, whichever order asked.
WantedByAnyone(gen, k) == st.cells[k].status # "none"

\* A sample decoded for an earlier order belongs nowhere.
Wanted(gen, k) == gen = st.generation /\ st.cells[k].status # "none"

\* The decode ends, or panics, and the result is stored under its key.
FinishDecode(w) ==
    LET k == worker[w].key
        s == [st EXCEPT !.running = @ - 1] IN
    /\ worker[w].pc = "decoding"
    /\ IF Wanted(worker[w].gen, k)
       THEN /\ \/ Admit([s EXCEPT !.cells[k] = [@ EXCEPT !.status = "ready", !.data = k[2],
                                                         !.bytes = Size[k], !.born = worker[w].gen],
                                  !.lastSize[k[1]] = Size[k]])
               \/ /\ k \in MayFail
                  /\ Admit([s EXCEPT !.cells[k] = [@ EXCEPT !.status = "failed", !.born = worker[w].gen]])
            /\ worker' = [v \in Workers |-> IF v = w THEN Resting("awake") ELSE Woken(worker[v])]
            /\ warmer' = Woken(warmer)
       ELSE /\ st' = s
            /\ worker' = [worker EXCEPT ![w] = Resting("awake")]
            /\ UNCHANGED warmer
    /\ WakeConsumer
    /\ UNCHANGED out

\* The warm-up thread; its errors are dropped.
NextFile ==
    /\ warmer.pc = "awake"
    /\ \/ /\ st.shutdown
          /\ warmer' = Resting("exited") /\ UNCHANGED st
       \/ /\ ~st.shutdown /\ st.toWarm = {}
          /\ warmer' = Resting("asleep") /\ UNCHANGED st
       \/ \E k \in st.toWarm :
            /\ ~st.shutdown
            /\ st' = [st EXCEPT !.toWarm = @ \ {k}]
            /\ warmer' = [pc |-> "warming", gen |-> st.generation, key |-> k]
    /\ UNCHANGED <<worker, consumer, out>>

FinishWarmUp ==
    /\ warmer.pc = "warming"
    /\ warmer' = Resting("awake")
    /\ UNCHANGED <<st, worker, consumer, out>>

\* The group is closed and joined.
Gone == consumer.op = "gone" /\ UNCHANGED vars

-----------------------------------------------------------------------------
Init ==
    /\ st = [phase |-> "idle", generation |-> 0, order |-> <<>>, next |-> 0, admitted |-> 0,
             cells |-> [k \in Keys |-> NoCell], warmTo |-> 0, toWarm |-> {}, fetched |-> {},
             prev |-> Nobody, last |-> Nobody, lastSize |-> Nobody,
             running |-> 0, shutdown |-> FALSE]
    /\ worker = [w \in Workers |-> Resting("awake")]
    /\ warmer = Resting("awake")
    /\ consumer = Free
    /\ out = [kind |-> "nothing"]

Call ==
    \/ \E order \in Orders : Start(order)
    \/ Take
    \/ \E wait \in BOOLEAN : Cancel(wait)
    \/ Close
    \/ Drop

Resume == ResumeTake \/ ResumeCancel \/ ResumeClose \/ Join

Run(w) == NextItem(w) \/ FinishDecode(w)
WarmUp == NextFile \/ FinishWarmUp

Next == Call \/ Resume \/ (\E w \in Workers : Run(w)) \/ WarmUp \/ Gone

Spec == Init /\ [][Next]_vars

\* Threads are scheduled and a decode ends.  Nothing obliges the consumer to
\* call, and a take must not depend on a download the warm-up is stuck in.
FairSpec == /\ Spec
            /\ WF_vars(Resume)
            /\ \A w \in Workers : WF_vars(Run(w))
            /\ WF_vars(NextFile)

-----------------------------------------------------------------------------
(* Properties.                                                             *)

\* What runs behind a sample is the current order's.  A running sample has
\* exactly one decode of the order behind it, so it neither is decoded twice
\* nor waits for nobody; and what is in the window came from the order that is
\* running: what a cancelled order still had in flight is discarded.
RunningHasOneDecoder ==
    \A k \in Keys :
        Cardinality({w \in Workers : /\ worker[w].pc = "decoding"
                                     /\ worker[w].gen = st.generation
                                     /\ worker[w].key = k})
        = IF st.cells[k].status = "running" THEN 1 ELSE 0

ResultsAreOwn == \A k \in Keys : Done(st.cells[k]) => st.cells[k].born = st.generation

GenerationsDoNotMix == RunningHasOneDecoder /\ ResultsAreOwn

\* The window holds what it should.  While epochs remain the next one is in
\* it, whatever the budget and whatever failed (the expect("the head slot is
\* always admitted") of take); a sample is held exactly while live slots use
\* it, and counts them, so that no take meets a slot whose sample is gone and
\* none stays behind in memory (the expect("live cell") of take); what is held
\* or in flight fits max_bytes unless the head is alone, for members whose
\* samples all have one size.
HeadIsAdmitted ==
    st.phase = "active" /\ st.next < Len(st.order) => st.next < st.admitted

SlotsAreCounted ==
    \A k \in Keys :
        /\ st.cells[k].slots = Cardinality({i \in Live(st) : k \in KeysAt(st, i)})
        /\ st.cells[k].slots = 0 <=> st.cells[k].status = "none"

BytesOf(k)   == IF st.cells[k].status \in {"none", "failed"} THEN 0 ELSE Size[k]
BudgetIsKept ==
    MaxBytes # None =>
        \/ st.admitted <= st.next + 1
        \/ MapThenSumSet(BytesOf, Keys) <= MaxBytes

WindowIsAccounted == HeadIsAdmitted /\ SlotsAreCounted /\ BudgetIsKept

\* cancel(true) comes back, and the threads are joined, only when no decode
\* is running any more.
QuietAfterCancel ==
    [][\/ Cancel(TRUE) /\ consumer' = Free
       \/ Close /\ consumer' = Joining
       \/ consumer.op \in {"cancel", "close"} /\ consumer'.op # consumer.op
       => \A w \in Workers : worker[w].pc # "decoding"]_vars

\* Every take is answered, whichever order the decodes end in.
TakeReturns == consumer.op = "take" ~> consumer.op = "none"

\* Closing ends: no thread sleeps through the shutdown.  The warm-up thread is
\* joined too, so its download has to come back.
CloseReturns == WF_vars(FinishWarmUp) => (st.phase = "closed" ~> consumer.op = "gone")

\* What the group promises its consumer (EpochOrder).
Promise == INSTANCE EpochOrder WITH
    rest <- SubSeq(st.order, st.next + 1, Len(st.order)),
    prev <- st.prev

DeliversInOrder == Promise!Spec

=============================================================================
