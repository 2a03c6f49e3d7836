----------------------------- MODULE EpochOrder -----------------------------
(***************************************************************************)
(* What a PrefetchGroup promises its consumer (spec/prefetch.md sections   *)
(* 3.3 to 3.5 and 3.7): as if each take decoded its epoch on the spot, one *)
(* at a time, in the declared order.  Depth, budget, threads and the       *)
(* timing of decodes do not appear.                                        *)
(***************************************************************************)
EXTENDS Naturals, Sequences

CONSTANTS
    NumMembers, NumEpochs,
    Anchor,        \* Anchor[m][e]: the cadence anchor of member m in epoch e
    MayFail,       \* the samples whose decode may fail
    Orders,        \* the orders the consumer may declare
    None

VARIABLES
    rest,          \* the epochs of the order still to be taken
    prev,          \* each member's anchor at the previous take of this order
    out            \* the last answer

vars == <<rest, prev, out>>

Members == 1 .. NumMembers
Nobody  == [m \in Members |-> None]

Init == rest = <<>> /\ prev = Nobody /\ out = [kind |-> "nothing"]

Start(order) == rest' = order /\ prev' = Nobody /\ UNCHANGED out

\* Each member's data is its sample at the epoch's anchor, "changed" compares
\* that anchor with the one before.
Deliver ==
    LET at == [m \in Members |-> Anchor[m][Head(rest)]] IN
    /\ rest # <<>>
    /\ out' = [kind |-> "sample", epoch |-> Head(rest), data |-> at,
               changed |-> {m \in Members : at[m] # prev[m]}]
    /\ prev' = at
    /\ rest' = Tail(rest)

\* A member that cannot be decoded ends the order.
Fail(m) ==
    /\ rest # <<>>
    /\ <<m, Anchor[m][Head(rest)]>> \in MayFail
    /\ out' = [kind |-> "error", epoch |-> Head(rest), member |-> m]
    /\ rest' = <<>> /\ prev' = Nobody

Stop == rest' = <<>> /\ prev' = Nobody /\ UNCHANGED out

Next ==
    \/ \E order \in Orders : Start(order)
    \/ Deliver
    \/ \E m \in Members : Fail(m)
    \/ Stop

Spec == Init /\ [][Next]_vars
=============================================================================
