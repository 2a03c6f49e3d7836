-------------------------- MODULE MCPrefetchGroup --------------------------
\* Small instances of PrefetchGroup for TLC.
EXTENDS PrefetchGroup

\* A fine member with an anchor per epoch and a coarse one that repeats its own.
TwoCadences == << <<"a", "b", "c">>, <<"a", "a", "c">> >>

\* An order that comes back to an epoch, and the end of a sweep.
Mixed   == {<<2, 1, 2>>, <<1, 3>>}

EvenSizes  == [k \in Keys |-> IF k[1] = 1 THEN 2 ELSE 1]
SomeFail   == {<<1, "b">>, <<2, "a">>}
=============================================================================
