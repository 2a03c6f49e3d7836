---------------------------- MODULE MCFetchCache ----------------------------
(* Instances of FetchCache for TLC.                                        *)
EXTENDS FetchCache, TLC

CONSTANTS p1, p2, p3, c1, c2, c3

MCLen  == [c \in Content \cup {Torn} |-> IF c = c3 THEN 2 ELSE 1]

\* A source that never returns to earlier contents, and one that may.
Forward == [c \in Content |-> CASE c = c1 -> {c2, c3} [] c = c2 -> {c3} [] OTHER -> {}]
Anyway  == [c \in Content |-> Content \ {c}]

NoTag    == [c \in Content |-> None]
EachTag  == [c \in Content |-> c]

\* Who declares a checksum: nobody, or the first process.
Undeclared == [p \in Procs |-> None]
Declared   == [p \in Procs |-> IF p = p1 THEN c1 ELSE None]

OneExt   == [s \in Sources |-> "nc"]
MirrorExt == [s \in Sources |-> IF s = 1 THEN "nc" ELSE "zip"]

Budget(f, c, ev, fa, ex) ==
    [k \in Budgets |-> CASE k = "fetch" -> f [] k = "change" -> c
                         [] k = "evict" -> ev [] k = "fault" -> fa [] OTHER -> ex]

LocalLimit    == Budget(3, 2, 0, 0, 1)
RemoteLimit   == Budget(2, 2, 1, 1, 0)

Symmetry == Permutations(Procs \ Offline)
=============================================================================
