----------------------------- MODULE CacheEntry -----------------------------
(***************************************************************************)
(* What the cache promises of one entry, without its files, its ladder or  *)
(* its transports: the manifest is one atomic value; a fetch is answered   *)
(* with a manifest it looked at during the call, or with one it stored     *)
(* itself; and it stores only while it is the entry's one filler.          *)
(***************************************************************************)
CONSTANTS Procs, Manifest, None

VARIABLES
    entry,      \* the manifest, or None
    filler,     \* the fetch that may store, or None
    busy,       \* the fetches under way
    view,       \* what each fetch looked at last
    got         \* what each fetch was answered with, or None

vars == <<entry, filler, busy, view, got>>

Init ==
    /\ entry \in Manifest \cup {None}
    /\ filler = None
    /\ busy = {}
    /\ view = [p \in Procs |-> None]
    /\ got = [p \in Procs |-> None]

Leave(p) ==
    /\ busy' = busy \ {p}
    /\ filler' = IF filler = p THEN None ELSE filler

Ask(p) ==
    /\ p \notin busy
    /\ busy' = busy \cup {p}
    /\ view' = [view EXCEPT ![p] = None]
    /\ got' = [got EXCEPT ![p] = None]
    /\ UNCHANGED <<entry, filler>>

Look(p) ==
    /\ p \in busy
    /\ view' = [view EXCEPT ![p] = entry]
    /\ UNCHANGED <<entry, filler, busy, got>>

Enter(p) ==
    /\ p \in busy
    /\ filler = None
    /\ filler' = p
    /\ UNCHANGED <<entry, busy, view, got>>

Answer(p) ==
    /\ p \in busy
    /\ \E m \in {view[p], entry} \ {None} :
          /\ got' = [got EXCEPT ![p] = m]
          /\ view' = [view EXCEPT ![p] = m]
    /\ Leave(p)
    /\ UNCHANGED entry

Fill(p) ==
    /\ p \in busy
    /\ filler = p
    /\ \E m \in Manifest :
          /\ entry' = m
          /\ got' = [got EXCEPT ![p] = m]
          /\ view' = [view EXCEPT ![p] = m]
    /\ Leave(p)

Fail(p) ==
    /\ p \in busy
    /\ Leave(p)
    /\ view' \in {view, [view EXCEPT ![p] = None]}
    /\ UNCHANGED <<entry, got>>

Lose == entry' = None /\ UNCHANGED <<filler, busy, view, got>>

Age ==
    /\ entry # None
    /\ entry' = [entry EXCEPT !.fresh = FALSE]
    /\ UNCHANGED <<filler, busy, view, got>>

Next ==
    \/ \E p \in Procs : \/ Ask(p) \/ Look(p) \/ Enter(p)
                        \/ Answer(p) \/ Fill(p) \/ Fail(p)
    \/ Lose
    \/ Age

Spec == Init /\ [][Next]_vars
=============================================================================
