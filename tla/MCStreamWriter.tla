--------------------------- MODULE MCStreamWriter ---------------------------
(* Instances of StreamWriter for TLC.                                      *)
EXTENDS StreamWriter, TLC

CONSTANTS s1, v1, v2

MCEmit == [i \in Rec |-> IF i % 2 = 0 THEN v1 ELSE v2]

Budget(w, i, c, f, p) ==
    [k \in {"write", "invalidate", "cut", "fault", "preempt"} |->
        CASE k = "write" -> w [] k = "invalidate" -> i [] k = "cut" -> c [] k = "fault" -> f [] OTHER -> p]

Store(team, indexed, single, statics, limit) ==
    [team |-> team, indexed |-> indexed, single |-> single, statics |-> statics, limit |-> limit]

Appending == Store({0, 1}, FALSE, FALSE, {}, Budget(0, 0, 1, 1, 1))
Indexing  == Store({0, 1}, TRUE, FALSE, {}, Budget(4, 1, 0, 0, 0))
Restarted == Store({0, 1}, TRUE, FALSE, {}, Budget(2, 1, 0, 1, 1))
Fields    == Store({0, 1}, TRUE, FALSE, {s1}, Budget(3, 1, 0, 0, 0))
Alone     == Store({0}, FALSE, TRUE, {s1}, Budget(1, 0, 1, 1, 1))
AloneAt   == Store({0}, TRUE, TRUE, {}, Budget(4, 1, 0, 1, 1))

AllModes == {Appending, Indexing, Restarted, Fields, Alone, AloneAt}
Early == {Store({0, 1}, TRUE, FALSE, {}, Budget(5, 0, 0, 0, 0))}
=============================================================================
