------------------------ MODULE PrefetchGroupProofs ------------------------
(***************************************************************************)
(* What PrefetchGroup keeps, proved for any number of members, epochs and  *)
(* workers, any orders, depth, budget and look-ahead: generations do not   *)
(* mix, the window holds what it should, a cancel leaves nothing running,  *)
(* and the consumer gets its epochs in the declared order.                 *)
(***************************************************************************)
EXTENDS PrefetchGroup, SequenceTheorems, FiniteSetTheorems, WellFoundedInduction, TLAPS

-----------------------------------------------------------------------------
(* Sums over finite sets, as the sizes of sets of units.                   *)

\* Induction over finite sets: Good holds every subset of S if it holds the empty set, and
\* each other set that it holds less any one element.
LEMMA SubsetInduction ==
    ASSUME NEW S, IsFiniteSet(S), NEW Good, {} \in Good,
           \A T \in SUBSET S : T # {} /\ (\A x \in T : T \ {x} \in Good) => T \in Good
    PROVE  SUBSET S \subseteq Good
<1> DEFINE R == StrictSubsetOrdering(S)
           Bad == (SUBSET S) \ Good
<1>1. IsWellFoundedOn(R, FiniteSubsetsOf(S)) /\ Bad \subseteq FiniteSubsetsOf(S)
  BY FS_StrictSubsetOrderingWellFounded, FS_Subset DEF FiniteSubsetsOf
<1>2. ASSUME Bad # {} PROVE \E T \in Bad : \A U \in Bad : <<U, T>> \notin R
  <2> HIDE DEF R, Bad
  <2> QED BY <1>1, <1>2, WFMin
<1>3. ASSUME NEW T \in Bad, \A U \in Bad : <<U, T>> \notin R PROVE FALSE
  <2>1. \A x \in T : <<T \ {x}, T>> \in R
    BY DEF StrictSubsetOrdering
  <2>2. \A x \in T : T \ {x} \in Good
    BY <1>3, <2>1
  <2> QED BY <2>2
<1> QED BY <1>2, <1>3

\* One unit for each byte of each element of T.
Units(f, T) == {p \in T \X Nat : 1 <= p[2] /\ p[2] <= f[p[1]]}
Total(f, T) == Cardinality(Units(f, T))

LEMMA UnitsOfOne ==
    ASSUME NEW f, NEW x, f[x] \in Nat
    PROVE  IsFiniteSet(Units(f, {x})) /\ Cardinality(Units(f, {x})) = f[x]
<1> DEFINE b == [n \in 1 .. f[x] |-> <<x, n>>]
<1>1. b \in Bijection(1 .. f[x], Units(f, {x}))
  <2>1. b \in [1 .. f[x] -> Units(f, {x})]
    BY DEF Units
  <2>2. \A u \in Units(f, {x}) : u[2] \in 1 .. f[x] /\ b[u[2]] = u
    BY DEF Units
  <2>3. \A i, j \in 1 .. f[x] : b[i] = b[j] => i = j
    OBVIOUS
  <2> HIDE DEF b
  <2> QED BY <2>1, <2>2, <2>3 DEF Bijection, Injection, Surjection, IsInjective
<1>2. IsFiniteSet(1 .. f[x]) /\ Cardinality(1 .. f[x]) = f[x]
  BY FS_Interval
<1>3. ExistsBijection(1 .. f[x], Units(f, {x}))
  BY <1>1 DEF ExistsBijection
<1> QED BY <1>2, <1>3, FS_Bijection

LEMMA UnitsAreFinite ==
    ASSUME NEW S, IsFiniteSet(S), NEW f, \A x \in S : f[x] \in Nat
    PROVE  \A T \in SUBSET S : IsFiniteSet(Units(f, T))
<1> DEFINE Good == {T \in SUBSET S : IsFiniteSet(Units(f, T))}
<1>1. {} \in Good
  BY FS_EmptySet DEF Units
<1>2. ASSUME NEW T \in SUBSET S, T # {}, \A x \in T : T \ {x} \in Good PROVE T \in Good
  <2>1. PICK x \in T : TRUE
    BY <1>2
  <2>2. Units(f, T) = Units(f, T \ {x}) \cup Units(f, {x})
    BY <2>1 DEF Units
  <2>3. IsFiniteSet(Units(f, T \ {x})) /\ IsFiniteSet(Units(f, {x}))
    BY <1>2, <2>1, UnitsOfOne
  <2>4. IsFiniteSet(Units(f, T \ {x}) \cup Units(f, {x}))
    BY <2>3, FS_Union
  <2> QED BY <2>2, <2>4
<1>3. SUBSET S \subseteq Good
  <2> HIDE DEF Good
  <2> QED BY <1>1, <1>2, SubsetInduction
<1> QED BY <1>3

\* The total counts each element once.
LEMMA TotalStep ==
    ASSUME NEW S, IsFiniteSet(S), NEW f, \A x \in S : f[x] \in Nat
    PROVE  /\ Total(f, {}) = 0
           /\ \A T \in SUBSET S : Total(f, T) \in Nat
           /\ \A T \in SUBSET S : \A x \in T : Total(f, T) = f[x] + Total(f, T \ {x})
<1>1. Total(f, {}) = 0
  <2>1. Units(f, {}) = {}
    BY DEF Units
  <2> QED BY <2>1, FS_EmptySet DEF Total
<1>2. ASSUME NEW T \in SUBSET S PROVE Total(f, T) \in Nat
  BY UnitsAreFinite, FS_CardinalityType DEF Total
<1>3. ASSUME NEW T \in SUBSET S, NEW x \in T PROVE Total(f, T) = f[x] + Total(f, T \ {x})
  <2>1. /\ Units(f, T) = Units(f, T \ {x}) \cup Units(f, {x})
        /\ Units(f, T \ {x}) \cap Units(f, {x}) = {}
    BY DEF Units
  <2>2. IsFiniteSet(Units(f, T \ {x})) /\ Cardinality(Units(f, T \ {x})) \in Nat
    BY UnitsAreFinite, FS_CardinalityType
  <2>3. IsFiniteSet(Units(f, {x})) /\ Cardinality(Units(f, {x})) = f[x]
    BY UnitsOfOne
  <2>4. Cardinality(Units(f, T)) = Cardinality(Units(f, T \ {x})) + f[x] - Cardinality({})
    <3> DEFINE A == Units(f, T \ {x})
               B == Units(f, {x})
    <3>1. Cardinality(A \cup B) = Cardinality(A) + Cardinality(B) - Cardinality(A \cap B)
      <4> HIDE DEF A, B
      <4> SUFFICES IsFiniteSet(A) /\ IsFiniteSet(B)
        BY FS_Union
      <4> QED BY <2>2, <2>3 DEF A, B
    <3> QED BY <3>1, <2>1, <2>3
  <2> QED BY <2>2, <2>3, <2>4, FS_EmptySet DEF Total
<1> QED BY <1>1, <1>2, <1>3

\* A smaller set has no greater total, nor has one of elements that count the same.
LEMMA TotalOfLess ==
    ASSUME NEW S, IsFiniteSet(S), NEW f, \A x \in S : f[x] \in Nat, NEW T \in SUBSET S
    PROVE  Total(f, T) <= Total(f, S)
<1>1. IsFiniteSet(Units(f, S)) /\ Units(f, T) \subseteq Units(f, S)
  BY UnitsAreFinite DEF Units
<1> QED BY <1>1, FS_Subset DEF Total

\* What adds up the elements of each subset of S one by one, in whatever order CHOOSE
\* gives them, is the total.
Adds(g, f, S) ==
    /\ g[{}] = 0
    /\ \A T \in SUBSET S : T # {} =>
          g[T] = f[CHOOSE x \in T : TRUE] + g[T \ {CHOOSE x \in T : TRUE}]

LEMMA SumIsTotal ==
    ASSUME NEW S, IsFiniteSet(S), NEW f, \A x \in S : f[x] \in Nat
    PROVE  /\ Adds([T \in SUBSET S |-> Total(f, T)], f, S)
           /\ \A g : Adds(g, f, S) => g[S] = Total(f, S)
<1> DEFINE t == [T \in SUBSET S |-> Total(f, T)]
<1>0. ASSUME NEW T \in SUBSET S, T # {} PROVE (CHOOSE x \in T : TRUE) \in T
  BY <1>0
<1>1. Adds(t, f, S)
  <2>1. ASSUME NEW T \in SUBSET S, T # {}
        PROVE  t[T] = f[CHOOSE x \in T : TRUE] + t[T \ {CHOOSE x \in T : TRUE}]
    <3> DEFINE c == CHOOSE x \in T : TRUE
    <3>1. c \in T
      BY <1>0, <2>1
    <3> HIDE DEF c
    <3>2. t[T] = f[c] + t[T \ {c}]
      BY <3>1, TotalStep
    <3> QED BY <3>2 DEF c
  <2>2. t[{}] = 0
    BY TotalStep
  <2> QED BY <2>1, <2>2 DEF Adds
<1>2. ASSUME NEW g, Adds(g, f, S) PROVE g[S] = t[S]
  <2> DEFINE Good == {T \in SUBSET S : g[T] = t[T]}
  <2>1. {} \in Good
    BY <1>1, <1>2 DEF Adds
  <2>2. ASSUME NEW T \in SUBSET S, T # {}, \A x \in T : T \ {x} \in Good PROVE T \in Good
    <3> DEFINE c == CHOOSE x \in T : TRUE
    <3>1. c \in T
      BY <1>0, <2>2
    <3>2. g[T] = f[c] + g[T \ {c}] /\ t[T] = f[c] + t[T \ {c}]
      <4> HIDE DEF t
      <4> QED BY <1>1, <1>2, <2>2 DEF Adds
    <3> HIDE DEF t, c
    <3> QED BY <2>2, <3>1, <3>2
  <2>3. SUBSET S \subseteq Good
    <3> HIDE DEF Good
    <3> QED BY <2>1, <2>2, SubsetInduction
  <2> HIDE DEF t
  <2> QED BY <2>3
<1> QED BY <1>1, <1>2

-----------------------------------------------------------------------------
(* The keys, and the types of the state.                                   *)

\* A set of numbers has a least one.
LEMMA LeastExists ==
    ASSUME NEW T \in SUBSET Nat, T # {}
    PROVE  \E x \in T : \A y \in T : x <= y
<1> DEFINE R == OpToRel(<, Nat)
<1>1. \A x, y \in Nat : <<y, x>> \notin R => x <= y
  BY DEF OpToRel
<1>2. \E x \in T : \A y \in T : <<y, x>> \notin R
  <2>1. IsWellFoundedOn(R, Nat)
    BY NatLessThanWellFounded
  <2> HIDE DEF R
  <2> QED BY <2>1, WFMin
<1>3. PICK x \in T : \A y \in T : <<y, x>> \notin R
  BY <1>2
<1>4. \A y \in T : x <= y
  <2> HIDE DEF R
  <2> QED BY <1>1, <1>3
<1> QED BY <1>4

LEMMA KeyFacts ==
    /\ \A m \in Members, e \in Epochs :
          Anchor[m][e] \in Anchors /\ <<m, Anchor[m][e]>> \in Keys
    /\ \A k \in Keys : k[1] \in Members /\ k[2] \in Anchors /\ k = <<k[1], k[2]>>
<1>1. \A m \in Members, e \in Epochs : <<m, Anchor[m][e]>> \in Keys
  BY DEF Keys
<1>2. \A k \in Keys : k[1] \in Members /\ k[2] \in Anchors /\ k = <<k[1], k[2]>>
  BY DEF Keys, Anchors
<1> QED BY <1>1, <1>2, GroupAssumption

LEMMA KeysAreFinite == IsFiniteSet(Keys)
<1> DEFINE f == [p \in Members \X Epochs |-> <<p[1], Anchor[p[1]][p[2]]>>]
<1>1. IsFiniteSet(Members) /\ IsFiniteSet(Epochs)
  BY FS_Interval, GroupAssumption DEF Members, Epochs
<1>2. IsFiniteSet(Members \X Epochs)
  BY <1>1, FS_Product
<1>3. f \in Surjection(Members \X Epochs, Keys)
  <2>1. f \in [Members \X Epochs -> Keys]
    BY DEF Keys
  <2>2. ASSUME NEW k \in Keys PROVE \E p \in Members \X Epochs : f[p] = k
    <3>1. PICK m \in Members, e \in Epochs : k = <<m, Anchor[m][e]>>
      BY DEF Keys
    <3>2. f[<<m, e>>] = k /\ <<m, e>> \in Members \X Epochs
      BY <3>1
    <3> HIDE DEF f
    <3> QED BY <3>2
  <2> HIDE DEF f
  <2> QED BY <2>1, <2>2 DEF Surjection
<1> HIDE DEF f
<1> QED BY <1>2, <1>3, FS_Surjection

Phases == {"idle", "active", "failed", "cancelled", "closed"}

Cell ==
    [status : {"none", "queued", "running", "ready", "failed"}, slots : Nat,
     bytes : Nat \cup {None}, data : Anchors \cup {None}, at : Nat, born : Nat]
Taken == [anchor : Anchors, data : Anchors \cup {None}, bytes : Nat \cup {None}]

State ==
    [phase : Phases, generation : Nat, order : Seq(Epochs), next : Nat, admitted : Nat,
     cells : [Keys -> Cell], warmTo : Nat, toWarm : SUBSET Keys, fetched : SUBSET Keys,
     prev : [Members -> Anchors \cup {None}], last : [Members -> Taken \cup {None}],
     lastSize : [Members -> Nat \cup {None}], running : Int, shutdown : BOOLEAN]

IsState(s) == s \in State /\ s.next <= s.admitted /\ s.admitted <= Len(s.order)

\* All of the state but what the warm-up alone looks at.
SameWindow(s, t) ==
    /\ t.phase = s.phase /\ t.generation = s.generation /\ t.order = s.order
    /\ t.next = s.next /\ t.admitted = s.admitted /\ t.cells = s.cells
    /\ t.prev = s.prev /\ t.last = s.last /\ t.lastSize = s.lastSize
    /\ t.running = s.running /\ t.shutdown = s.shutdown

LEMMA QueueWarmUpFacts ==
    ASSUME NEW s, IsState(s)
    PROVE  IsState(QueueWarmUp(s)) /\ SameWindow(s, QueueWarmUp(s))
<1> DEFINE end == IF s.admitted + FetchAhead < Len(s.order) THEN s.admitted + FetchAhead
                  ELSE Len(s.order)
           from == IF s.warmTo < s.admitted THEN s.admitted ELSE s.warmTo
           new == UNION {KeysAt(s, i) : i \in from + 1 .. end} \ s.fetched
<1>1. end \in Nat /\ from \in Nat /\ end <= Len(s.order)
  BY GroupAssumption DEF IsState, State
<1>2. new \subseteq Keys
  <2>1. \A i \in from + 1 .. end : s.order[i] \in Epochs
    BY <1>1 DEF IsState, State
  <2> QED BY <2>1, KeyFacts DEF KeysAt, KeyAt
<1>3. QueueWarmUp(s) = IF FetchAhead = 0 \/ AnyFailed(s) THEN s
       ELSE [s EXCEPT !.warmTo = IF @ < end THEN end ELSE @,
                      !.toWarm = @ \cup new, !.fetched = @ \cup new]
  BY DEF QueueWarmUp
<1> HIDE DEF end, from, new
<1>4. QueueWarmUp(s) = s
      \/ QueueWarmUp(s) = [s EXCEPT !.warmTo = IF @ < end THEN end ELSE @,
                      !.toWarm = @ \cup new, !.fetched = @ \cup new]
  BY <1>3
<1>5. CASE QueueWarmUp(s) = s
  BY <1>5 DEF SameWindow
<1>6. CASE QueueWarmUp(s) = [s EXCEPT !.warmTo = IF @ < end THEN end ELSE @,
                      !.toWarm = @ \cup new, !.fetched = @ \cup new]
  <2>1. s.toWarm \cup new \in SUBSET Keys /\ s.fetched \cup new \in SUBSET Keys
        /\ (IF s.warmTo < end THEN end ELSE s.warmTo) \in Nat
    BY <1>1, <1>2 DEF IsState, State
  <2> QED BY <1>6, <2>1 DEF IsState, State, SameWindow
<1> QED BY <1>4, <1>5, <1>6

LEMMA KeysAtFacts ==
    ASSUME NEW s, IsState(s), NEW i \in 1 .. Len(s.order)
    PROVE  /\ s.order[i] \in Epochs
           /\ \A m \in Members : KeyAt(s, i, m) \in KeysAt(s, i) /\ KeyAt(s, i, m)[1] = m
                                 /\ KeyAt(s, i, m)[2] = Anchor[m][s.order[i]]
           /\ KeysAt(s, i) \subseteq Keys
           /\ \A k \in KeysAt(s, i) : k = KeyAt(s, i, k[1])
<1>1. s.order[i] \in Epochs
  BY DEF IsState, State
<1> QED BY <1>1, KeyFacts DEF KeysAt, KeyAt

-----------------------------------------------------------------------------
(* What the critical sections do to the state, field by field.             *)

LiveUses(s, k) == {i \in Live(s) : k \in KeysAt(s, i)}

LEMMA UsesAreFinite ==
    ASSUME NEW s, IsState(s), NEW n \in Nat, NEW k
    PROVE  /\ IsFiniteSet(Uses(s, n, k)) /\ Cardinality(Uses(s, n, k)) \in Nat
           /\ Uses(s, n, k) \subseteq Nat
           /\ (Cardinality(Uses(s, n, k)) = 0 <=> Uses(s, n, k) = {})
           /\ IsFiniteSet(LiveUses(s, k)) /\ Cardinality(LiveUses(s, k)) \in Nat
           /\ LiveUses(s, k) \subseteq Nat
           /\ (Cardinality(LiveUses(s, k)) = 0 <=> LiveUses(s, k) = {})
<1>1. s.next \in Nat /\ s.admitted \in Nat
  BY DEF IsState, State
<1>2. IsFiniteSet(s.admitted + 1 .. n) /\ IsFiniteSet(Live(s))
  <2>1. s.admitted + 1 \in Int /\ n \in Int /\ s.next + 1 \in Int /\ s.admitted \in Int
    BY <1>1
  <2> QED BY <2>1, FS_Interval DEF Live
<1>3. Uses(s, n, k) \in SUBSET (s.admitted + 1 .. n) /\ LiveUses(s, k) \in SUBSET Live(s)
  BY DEF Uses, LiveUses
<1>4. IsFiniteSet(Uses(s, n, k)) /\ IsFiniteSet(LiveUses(s, k))
  BY <1>2, <1>3, FS_Subset
<1>5. s.admitted + 1 .. n \subseteq Nat /\ Live(s) \subseteq Nat
  BY <1>1 DEF Live
<1> QED BY <1>3, <1>4, <1>5, FS_CardinalityType, FS_EmptySet

LEMMA NewCellFacts ==
    ASSUME NEW s, IsState(s), NEW k \in Keys, NEW uses, uses \subseteq Nat, uses # {},
           Cardinality(uses) \in Nat
    PROVE  LET c == NewCell(s, k, uses) IN
           /\ c \in Cell
           /\ c.slots = Cardinality(uses) /\ c.born = s.generation
           /\ \/ /\ c.status = "ready" /\ s.last[k[1]] # None /\ s.last[k[1]].anchor = k[2]
                 /\ c.data = s.last[k[1]].data /\ c.bytes = s.last[k[1]].bytes
              \/ c.status = "queued" /\ c.bytes = s.lastSize[k[1]]
<1> DEFINE m == k[1]
           least == CHOOSE i \in uses : \A j \in uses : i <= j
           fresh == [NoCell EXCEPT !.slots = Cardinality(uses), !.born = s.generation,
                                   !.at = least]
<1>1. least \in Nat
  <2>1. \E i \in uses : \A j \in uses : i <= j
    BY LeastExists
  <2> QED BY <2>1
<1>2. m \in Members /\ s.generation \in Nat /\ s.last[m] \in Taken \cup {None}
      /\ s.lastSize[m] \in Nat \cup {None}
  BY KeyFacts DEF IsState, State
<1>3. fresh \in Cell /\ fresh.slots = Cardinality(uses) /\ fresh.born = s.generation
  <2> HIDE DEF least
  <2> QED BY <1>1, <1>2 DEF NoCell, Cell
<1>4. CASE s.last[m] # None /\ s.last[m].anchor = k[2]
  <2>1. NewCell(s, k, uses)
        = [fresh EXCEPT !.status = "ready", !.data = s.last[m].data, !.bytes = s.last[m].bytes]
    BY <1>4 DEF NewCell
  <2> HIDE DEF fresh
  <2> QED BY <1>2, <1>3, <1>4, <2>1 DEF Cell, Taken
<1>5. CASE ~(s.last[m] # None /\ s.last[m].anchor = k[2])
  <2>1. NewCell(s, k, uses) = [fresh EXCEPT !.status = "queued", !.bytes = s.lastSize[m]]
    BY <1>5 DEF NewCell
  <2> HIDE DEF fresh
  <2> QED BY <1>2, <1>3, <2>1 DEF Cell
<1> QED BY <1>4, <1>5

LEMMA AdmitToFacts ==
    ASSUME NEW s, IsState(s), NEW n \in s.admitted .. Len(s.order)
    PROVE  LET t == AdmitTo(s, n) IN
           /\ IsState(t)
           /\ t.phase = s.phase /\ t.generation = s.generation /\ t.order = s.order
           /\ t.next = s.next /\ t.prev = s.prev /\ t.last = s.last
           /\ t.lastSize = s.lastSize /\ t.running = s.running /\ t.shutdown = s.shutdown
           /\ t.admitted = n
           /\ \A k \in Keys :
                 /\ Uses(s, n, k) = {} => t.cells[k] = s.cells[k]
                 /\ Uses(s, n, k) # {} =>
                       t.cells[k] = IF s.cells[k].status = "none"
                                    THEN NewCell(s, k, Uses(s, n, k))
                                    ELSE [s.cells[k] EXCEPT
                                             !.slots = @ + Cardinality(Uses(s, n, k))]
<1> DEFINE cells == [k \in Keys |->
                  IF Uses(s, n, k) = {} THEN s.cells[k]
                  ELSE IF s.cells[k].status = "none" THEN NewCell(s, k, Uses(s, n, k))
                  ELSE [s.cells[k] EXCEPT !.slots = @ + Cardinality(Uses(s, n, k))]]
<1>1. AdmitTo(s, n) = [s EXCEPT !.admitted = n, !.cells = cells]
  BY DEF AdmitTo
<1>2. n \in Nat /\ s.next <= n /\ n <= Len(s.order)
  BY DEF IsState, State
<1>3. ASSUME NEW k \in Keys PROVE cells[k] \in Cell
  <2>1. /\ Cardinality(Uses(s, n, k)) \in Nat /\ Uses(s, n, k) \subseteq Nat
        /\ s.cells[k] \in Cell
    BY <1>2, UsesAreFinite DEF IsState, State
  <2>2. ASSUME Uses(s, n, k) # {} PROVE NewCell(s, k, Uses(s, n, k)) \in Cell
    BY <2>1, <2>2, NewCellFacts
  <2>3. [s.cells[k] EXCEPT !.slots = @ + Cardinality(Uses(s, n, k))] \in Cell
    BY <2>1 DEF Cell
  <2> QED BY <2>1, <2>2, <2>3
<1>4. cells \in [Keys -> Cell]
  BY <1>3
<1>5. \A k \in Keys :
          /\ Uses(s, n, k) = {} => cells[k] = s.cells[k]
          /\ Uses(s, n, k) # {} =>
                cells[k] = IF s.cells[k].status = "none" THEN NewCell(s, k, Uses(s, n, k))
                           ELSE [s.cells[k] EXCEPT !.slots = @ + Cardinality(Uses(s, n, k))]
  OBVIOUS
<1> HIDE DEF cells
<1>6. LET t == AdmitTo(s, n) IN
           /\ t.phase = s.phase /\ t.generation = s.generation /\ t.order = s.order
           /\ t.next = s.next /\ t.prev = s.prev /\ t.last = s.last
           /\ t.lastSize = s.lastSize /\ t.running = s.running /\ t.shutdown = s.shutdown
           /\ t.admitted = n /\ t.cells = cells
  BY <1>1 DEF IsState, State
<1>7. AdmitTo(s, n) \in State
  BY <1>1, <1>2, <1>4 DEF IsState, State
<1>8. IsState(AdmitTo(s, n))
  BY <1>2, <1>6, <1>7 DEF IsState
<1> QED BY <1>5, <1>6, <1>8

LEMMA EndOrderFacts ==
    ASSUME NEW s, IsState(s), NEW phase \in Phases
    PROVE  LET t == EndOrder(s, phase) IN
           /\ IsState(t)
           /\ t.phase = phase /\ t.generation = s.generation + 1 /\ t.order = <<>>
           /\ t.next = 0 /\ t.admitted = 0 /\ t.prev = Nobody /\ t.last = s.last
           /\ t.lastSize = s.lastSize /\ t.running = s.running /\ t.shutdown = s.shutdown
           /\ t.cells = [k \in Keys |-> NoCell]
<1>1. NoCell \in Cell /\ Nobody \in [Members -> Anchors \cup {None}]
  BY DEF NoCell, Cell, Nobody
<1>2. <<>> \in Seq(Epochs) /\ Len(<<>>) = 0
  OBVIOUS
<1>3. [k \in Keys |-> NoCell] \in [Keys -> Cell] /\ s.generation + 1 \in Nat
  BY <1>1 DEF IsState, State
<1>4. EndOrder(s, phase) \in State
  <2> HIDE DEF NoCell, Nobody
  <2> QED BY <1>1, <1>2, <1>3 DEF EndOrder, IsState, State
<1>5. LET t == EndOrder(s, phase) IN
           /\ t.phase = phase /\ t.generation = s.generation + 1 /\ t.order = <<>>
           /\ t.next = 0 /\ t.admitted = 0 /\ t.prev = Nobody /\ t.last = s.last
           /\ t.lastSize = s.lastSize /\ t.running = s.running /\ t.shutdown = s.shutdown
  BY DEF EndOrder, IsState, State
<1>6. EndOrder(s, phase).cells = [k \in Keys |-> NoCell]
  BY DEF EndOrder, IsState, State
<1>7. IsState(EndOrder(s, phase))
  BY <1>2, <1>4, <1>5 DEF IsState
<1> QED BY <1>5, <1>6, <1>7

-----------------------------------------------------------------------------
(* What holds of the state in every critical section.                      *)

\* A sample counts the live slots that use it, and is in the window exactly while one does.
SlotsOK(s) ==
    \A k \in Keys : /\ s.cells[k].slots = Cardinality(LiveUses(s, k))
                    /\ s.cells[k].slots = 0 <=> s.cells[k].status = "none"

\* What is in the window came from the current order.
OwnOK(s) == \A k \in Keys : s.cells[k].status # "none" => s.cells[k].born = s.generation

\* A sample is its key's, under its own size, and so is the one a member took last.
DataOK(s) ==
    /\ \A k \in Keys :
          /\ s.cells[k].status = "ready" => s.cells[k].data = k[2] /\ s.cells[k].bytes = Size[k]
          /\ s.cells[k].status = "failed" => k \in MayFail
    /\ \A m \in Members : s.last[m] # None =>
          LET k == <<m, s.last[m].anchor>>
          IN k \in Keys /\ s.last[m].data = k[2] /\ s.last[m].bytes = Size[k]

OrderOK(s) == s.phase # "active" => s.order = <<>>

Core(s) == SlotsOK(s) /\ OwnOK(s) /\ DataOK(s) /\ OrderOK(s)

\* The next slot of the order is in the window.
HeadOK(s) == s.next < Len(s.order) => s.next < s.admitted

LEMMA SameWindowKeeps ==
    ASSUME NEW s, NEW t, SameWindow(s, t), Core(s), HeadOK(s)
    PROVE  Core(t) /\ HeadOK(t)
<1>1. \A k : LiveUses(t, k) = LiveUses(s, k)
  BY DEF SameWindow, LiveUses, Live, KeysAt, KeyAt
<1> QED BY <1>1 DEF SameWindow, Core, SlotsOK, OwnOK, DataOK, OrderOK, HeadOK

\* An order that ends leaves an empty window; so does one that has just been declared.
LEMMA EmptyWindow ==
    ASSUME NEW s, IsState(s), s.next = 0, s.admitted = 0, s.cells = [k \in Keys |-> NoCell],
           DataOK(s), OrderOK(s)
    PROVE  Core(s)
<1>1. \A k \in Keys : s.cells[k].status = "none" /\ s.cells[k].slots = 0
  BY DEF NoCell
<1>2. \A k : LiveUses(s, k) = {}
  BY DEF LiveUses, Live
<1>3. SlotsOK(s)
  BY <1>1, <1>2, FS_EmptySet DEF SlotsOK
<1> QED BY <1>1, <1>3 DEF Core, OwnOK

LEMMA EndOrderCore ==
    ASSUME NEW s, IsState(s), Core(s), NEW phase \in Phases
    PROVE  /\ Core(EndOrder(s, phase)) /\ HeadOK(EndOrder(s, phase))
           /\ \A order \in Orders :
                 LET t == [EndOrder(s, "active") EXCEPT !.order = order] IN
                 /\ IsState(t) /\ Core(t)
                 /\ t.phase = "active" /\ t.generation = s.generation + 1 /\ t.order = order
                 /\ t.next = 0 /\ t.admitted = 0 /\ t.prev = Nobody
                 /\ t.lastSize = s.lastSize /\ t.last = s.last /\ t.running = s.running
                 /\ t.cells = [k \in Keys |-> NoCell]
<1>1. ASSUME NEW t, t.cells = [k \in Keys |-> NoCell], t.last = s.last PROVE DataOK(t)
  BY <1>1 DEF Core, DataOK, NoCell
<1>2. ASSUME NEW q \in Phases
      PROVE  LET t == EndOrder(s, q) IN
             /\ IsState(t)
             /\ t.phase = q /\ t.generation = s.generation + 1 /\ t.order = <<>>
             /\ t.next = 0 /\ t.admitted = 0 /\ t.prev = Nobody /\ t.last = s.last
             /\ t.lastSize = s.lastSize /\ t.running = s.running
             /\ t.cells = [k \in Keys |-> NoCell]
  BY EndOrderFacts
<1>3. Core(EndOrder(s, phase)) /\ HeadOK(EndOrder(s, phase))
  <2> DEFINE t == EndOrder(s, phase)
  <2>1. /\ IsState(t) /\ t.order = <<>> /\ t.next = 0 /\ t.admitted = 0 /\ t.last = s.last
        /\ t.cells = [k \in Keys |-> NoCell]
    BY <1>2
  <2> HIDE DEF t
  <2>2. OrderOK(t) /\ HeadOK(t) /\ DataOK(t)
    BY <1>1, <2>1 DEF OrderOK, HeadOK
  <2>3. Core(t)
    BY <2>1, <2>2, EmptyWindow
  <2> QED BY <2>2, <2>3 DEF t
<1>4. ASSUME NEW order \in Orders
      PROVE  LET t == [EndOrder(s, "active") EXCEPT !.order = order] IN
             /\ IsState(t) /\ Core(t)
             /\ t.phase = "active" /\ t.generation = s.generation + 1 /\ t.order = order
             /\ t.next = 0 /\ t.admitted = 0 /\ t.prev = Nobody
             /\ t.lastSize = s.lastSize /\ t.last = s.last /\ t.running = s.running
             /\ t.cells = [k \in Keys |-> NoCell]
  <2> DEFINE e == EndOrder(s, "active")
             t == [e EXCEPT !.order = order]
  <2>1. /\ IsState(e) /\ e.generation = s.generation + 1 /\ e.phase = "active"
        /\ e.next = 0 /\ e.admitted = 0 /\ e.prev = Nobody /\ e.last = s.last
        /\ e.lastSize = s.lastSize /\ e.running = s.running
        /\ e.cells = [k \in Keys |-> NoCell]
    BY <1>2 DEF Phases
  <2> HIDE DEF e
  <2>2. order \in Seq(Epochs) /\ Len(order) \in Nat
    BY GroupAssumption
  <2>3. /\ t.phase = e.phase /\ t.generation = e.generation /\ t.order = order
        /\ t.next = e.next /\ t.admitted = e.admitted /\ t.prev = e.prev /\ t.last = e.last
        /\ t.lastSize = e.lastSize /\ t.running = e.running /\ t.cells = e.cells
    BY <2>1 DEF IsState, State
  <2>4. t \in State
    BY <2>1, <2>2 DEF IsState, State
  <2> HIDE DEF t
  <2>5. IsState(t)
    BY <2>1, <2>2, <2>3, <2>4 DEF IsState
  <2>6. DataOK(t) /\ OrderOK(t)
    BY <1>1, <2>1, <2>3 DEF OrderOK
  <2>7. Core(t)
    BY <2>1, <2>3, <2>5, <2>6, EmptyWindow
  <2>8. /\ IsState(t) /\ Core(t)
        /\ t.phase = "active" /\ t.generation = s.generation + 1 /\ t.order = order
        /\ t.next = 0 /\ t.admitted = 0 /\ t.prev = Nobody
        /\ t.lastSize = s.lastSize /\ t.last = s.last /\ t.running = s.running
        /\ t.cells = [k \in Keys |-> NoCell]
    BY <2>1, <2>3, <2>5, <2>7
  <2> QED BY <2>8 DEF t, e
<1> QED BY <1>3, <1>4

\* Slots that enter the window.
LEMMA AdmitToCore ==
    ASSUME NEW s, IsState(s), Core(s), NEW n \in s.admitted .. Len(s.order)
    PROVE  Core(AdmitTo(s, n))
<1> DEFINE t == AdmitTo(s, n)
<1>1. /\ IsState(t) /\ t.generation = s.generation /\ t.order = s.order /\ t.phase = s.phase
      /\ t.next = s.next /\ t.last = s.last /\ t.admitted = n
  BY AdmitToFacts
<1>2. ASSUME NEW k \in Keys
      PROVE  /\ Uses(s, n, k) = {} => t.cells[k] = s.cells[k]
             /\ Uses(s, n, k) # {} =>
                   t.cells[k] = IF s.cells[k].status = "none" THEN NewCell(s, k, Uses(s, n, k))
                                ELSE [s.cells[k] EXCEPT !.slots = @ + Cardinality(Uses(s, n, k))]
  BY AdmitToFacts
<1> HIDE DEF t
<1>3. n \in Nat /\ s.next \in Nat /\ s.admitted \in Nat /\ s.next <= s.admitted
      /\ s.admitted <= n
  BY DEF IsState, State
<1>4. ASSUME NEW k \in Keys
      PROVE  Cardinality(LiveUses(t, k))
             = Cardinality(LiveUses(s, k)) + Cardinality(Uses(s, n, k))
  <2>1. LiveUses(t, k) = LiveUses(s, k) \cup Uses(s, n, k)
        /\ LiveUses(s, k) \cap Uses(s, n, k) = {}
    BY <1>1, <1>3 DEF LiveUses, Live, Uses, KeysAt, KeyAt
  <2>2. /\ IsFiniteSet(LiveUses(s, k)) /\ Cardinality(LiveUses(s, k)) \in Nat
        /\ IsFiniteSet(Uses(s, n, k)) /\ Cardinality(Uses(s, n, k)) \in Nat
    BY <1>3, UsesAreFinite
  <2>3. Cardinality(LiveUses(s, k) \cup Uses(s, n, k))
        = Cardinality(LiveUses(s, k)) + Cardinality(Uses(s, n, k)) - Cardinality({})
    BY <2>1, <2>2, FS_Union
  <2> QED BY <2>1, <2>2, <2>3, FS_EmptySet
<1>5. ASSUME NEW k \in Keys
      PROVE  /\ t.cells[k].slots = Cardinality(LiveUses(t, k))
             /\ t.cells[k].slots = 0 <=> t.cells[k].status = "none"
             /\ t.cells[k].status # "none" => t.cells[k].born = t.generation
             /\ t.cells[k].status = "ready" => t.cells[k].data = k[2] /\ t.cells[k].bytes = Size[k]
             /\ t.cells[k].status = "failed" => k \in MayFail
  <2> DEFINE uses == Uses(s, n, k)
  <2>1. /\ s.cells[k] \in Cell
        /\ Cardinality(uses) \in Nat /\ uses \subseteq Nat
        /\ (Cardinality(uses) = 0 <=> uses = {})
        /\ s.cells[k].slots = Cardinality(LiveUses(s, k)) /\ s.cells[k].slots \in Nat
        /\ (s.cells[k].slots = 0 <=> s.cells[k].status = "none")
        /\ (s.cells[k].status # "none" => s.cells[k].born = s.generation)
        /\ (s.cells[k].status = "ready" =>
               s.cells[k].data = k[2] /\ s.cells[k].bytes = Size[k])
        /\ (s.cells[k].status = "failed" => k \in MayFail)
    BY <1>3, UsesAreFinite DEF IsState, State, Cell, Core, SlotsOK, OwnOK, DataOK
  <2>2. CASE uses = {}
    <3>1. t.cells[k] = s.cells[k] /\ Cardinality(uses) = 0
      BY <1>2, <2>1, <2>2
    <3>2. Cardinality(LiveUses(t, k)) = Cardinality(LiveUses(s, k)) + Cardinality(uses)
      BY <1>4
    <3> HIDE DEF uses
    <3> QED BY <1>1, <2>1, <3>1, <3>2
  <2>3. CASE uses # {} /\ s.cells[k].status # "none"
    <3>1. t.cells[k] = [s.cells[k] EXCEPT !.slots = @ + Cardinality(uses)]
      BY <1>2, <2>3
    <3> HIDE DEF uses
    <3>2. /\ t.cells[k].slots = s.cells[k].slots + Cardinality(uses)
          /\ t.cells[k].status = s.cells[k].status /\ t.cells[k].born = s.cells[k].born
          /\ t.cells[k].data = s.cells[k].data /\ t.cells[k].bytes = s.cells[k].bytes
      BY <2>1, <3>1 DEF Cell
    <3> QED BY <1>1, <1>4, <2>1, <2>3, <3>2 DEF uses
  <2>4. CASE uses # {} /\ s.cells[k].status = "none"
    <3>1. t.cells[k] = NewCell(s, k, uses)
      BY <1>2, <2>4
    <3>2. /\ t.cells[k].slots = Cardinality(uses) /\ t.cells[k].born = s.generation
          /\ \/ /\ t.cells[k].status = "ready" /\ s.last[k[1]] # None
                /\ s.last[k[1]].anchor = k[2]
                /\ t.cells[k].data = s.last[k[1]].data /\ t.cells[k].bytes = s.last[k[1]].bytes
             \/ t.cells[k].status = "queued"
      <4> DEFINE c == NewCell(s, k, uses)
      <4>1. uses \subseteq Nat /\ uses # {} /\ Cardinality(uses) \in Nat
        BY <2>1, <2>4
      <4>2. /\ c.slots = Cardinality(uses) /\ c.born = s.generation
            /\ \/ /\ c.status = "ready" /\ s.last[k[1]] # None
                  /\ s.last[k[1]].anchor = k[2]
                  /\ c.data = s.last[k[1]].data /\ c.bytes = s.last[k[1]].bytes
               \/ c.status = "queued"
        <5> HIDE DEF uses
        <5> QED BY <4>1, NewCellFacts
      <4> HIDE DEF uses
      <4> QED BY <3>1, <4>2
    <3>3. k[1] \in Members /\ k = <<k[1], k[2]>>
      BY KeyFacts
    <3>4. t.cells[k].status = "ready" => t.cells[k].data = k[2] /\ t.cells[k].bytes = Size[k]
      BY <3>2, <3>3 DEF Core, DataOK
    <3> QED BY <1>1, <1>4, <2>1, <2>4, <3>2, <3>4
  <2> QED BY <2>2, <2>3, <2>4
<1>6. Core(t)
  BY <1>1, <1>5 DEF Core, SlotsOK, OwnOK, DataOK, OrderOK
<1> QED BY <1>6 DEF t

\* The head is i, and the samples it uses are there.
Leaves(s, i) ==
    /\ i = s.next + 1 /\ i <= s.admitted
    /\ \A k \in KeysAt(s, i) : s.cells[k].slots >= 1

LEMMA ReleaseFacts ==
    ASSUME NEW s, IsState(s), NEW i, Leaves(s, i)
    PROVE  LET t == Release(s, i) IN
           /\ IsState(t)
           /\ t.phase = s.phase /\ t.generation = s.generation /\ t.order = s.order
           /\ t.next = i /\ t.admitted = s.admitted
           /\ t.lastSize = s.lastSize /\ t.running = s.running /\ t.shutdown = s.shutdown
           /\ \A m \in Members : t.prev[m] = KeyAt(s, i, m)[2]
           /\ \A m \in Members :
                 /\ t.last[m].anchor = KeyAt(s, i, m)[2]
                 /\ t.last[m].data = s.cells[KeyAt(s, i, m)].data
                 /\ t.last[m].bytes = s.cells[KeyAt(s, i, m)].bytes
           /\ \A k \in Keys :
                 /\ k \notin KeysAt(s, i) => t.cells[k] = s.cells[k]
                 /\ k \in KeysAt(s, i) /\ s.cells[k].slots = 1 =>
                       t.cells[k].slots = 0 /\ t.cells[k].status = "none"
                 /\ k \in KeysAt(s, i) /\ s.cells[k].slots # 1 =>
                       /\ t.cells[k].slots = s.cells[k].slots - 1
                       /\ t.cells[k].status = s.cells[k].status
                       /\ t.cells[k].born = s.cells[k].born
                       /\ t.cells[k].data = s.cells[k].data
                       /\ t.cells[k].bytes = s.cells[k].bytes
<1> DEFINE cells == [k \in Keys |-> IF k \notin KeysAt(s, i) THEN s.cells[k]
                              ELSE IF s.cells[k].slots = 1 THEN NoCell
                              ELSE [s.cells[k] EXCEPT !.slots = @ - 1]]
           prev == [m \in Members |-> KeyAt(s, i, m)[2]]
           last == [m \in Members |->
                     LET k == KeyAt(s, i, m) IN
                     [anchor |-> k[2], data |-> s.cells[k].data, bytes |-> s.cells[k].bytes]]
<1>0. i \in 1 .. Len(s.order) /\ i <= s.admitted /\ \A k \in KeysAt(s, i) : s.cells[k].slots >= 1
  BY DEF Leaves, IsState, State
<1>1. Release(s, i) = [s EXCEPT !.next = i, !.cells = cells, !.prev = prev, !.last = last]
  BY DEF Release
<1>2. \A m \in Members : KeyAt(s, i, m) \in Keys /\ KeyAt(s, i, m)[2] \in Anchors
  BY <1>0, KeysAtFacts, KeyFacts
<1>3. cells \in [Keys -> Cell]
  <2>1. NoCell \in Cell /\ \A k \in Keys : s.cells[k] \in Cell
    BY DEF NoCell, Cell, IsState, State
  <2>2. ASSUME NEW k \in KeysAt(s, i) PROVE [s.cells[k] EXCEPT !.slots = @ - 1] \in Cell
    <3>1. k \in Keys
      BY <1>0, KeysAtFacts
    <3> QED BY <1>0, <2>1, <3>1 DEF Cell
  <2> QED BY <2>1, <2>2
<1>4. prev \in [Members -> Anchors \cup {None}]
  BY <1>2
<1>5. last \in [Members -> Taken \cup {None}]
  <2>1. \A k \in Keys : s.cells[k].data \in Anchors \cup {None}
                        /\ s.cells[k].bytes \in Nat \cup {None}
    BY DEF IsState, State, Cell
  <2> QED BY <1>2, <2>1 DEF Taken
<1>6. ASSUME NEW k \in Keys
      PROVE  /\ k \notin KeysAt(s, i) => cells[k] = s.cells[k]
             /\ k \in KeysAt(s, i) /\ s.cells[k].slots = 1 =>
                   cells[k].slots = 0 /\ cells[k].status = "none"
             /\ k \in KeysAt(s, i) /\ s.cells[k].slots # 1 =>
                   /\ cells[k].slots = s.cells[k].slots - 1
                   /\ cells[k].status = s.cells[k].status /\ cells[k].born = s.cells[k].born
                   /\ cells[k].data = s.cells[k].data /\ cells[k].bytes = s.cells[k].bytes
  <2>1. s.cells[k] \in Cell
    BY DEF IsState, State
  <2>2. CASE k \in KeysAt(s, i) /\ s.cells[k].slots # 1
    <3>1. cells[k] = [s.cells[k] EXCEPT !.slots = @ - 1]
      BY <2>2
    <3> HIDE DEF cells
    <3> QED BY <2>1, <2>2, <3>1 DEF Cell
  <2>3. CASE k \notin KeysAt(s, i)
    BY <2>3
  <2>4. CASE k \in KeysAt(s, i) /\ s.cells[k].slots = 1
    BY <2>4 DEF NoCell
  <2> QED BY <2>2, <2>3, <2>4
<1>66. \A m \in Members :
            /\ last[m].anchor = KeyAt(s, i, m)[2]
            /\ last[m].data = s.cells[KeyAt(s, i, m)].data
            /\ last[m].bytes = s.cells[KeyAt(s, i, m)].bytes
  OBVIOUS
<1> HIDE DEF cells, last
<1>7. LET t == Release(s, i) IN
      /\ t.phase = s.phase /\ t.generation = s.generation /\ t.order = s.order
      /\ t.next = i /\ t.admitted = s.admitted
      /\ t.lastSize = s.lastSize /\ t.running = s.running /\ t.shutdown = s.shutdown
      /\ t.prev = prev /\ t.last = last /\ t.cells = cells
  BY <1>1 DEF IsState, State
<1>8. Release(s, i) \in State
  <2>1. i \in Nat
    BY <1>0
  <2> HIDE DEF prev
  <2> QED BY <1>1, <1>3, <1>4, <1>5, <2>1 DEF IsState, State
<1>9. IsState(Release(s, i))
  BY <1>0, <1>7, <1>8 DEF IsState
<1>10. \A m \in Members : prev[m] = KeyAt(s, i, m)[2]
  OBVIOUS
<1> QED BY <1>6, <1>66, <1>7, <1>9, <1>10

\* The head leaves the window, all of its samples decoded.
LEMMA ReleaseCore ==
    ASSUME NEW s, IsState(s), Core(s), NEW i \in 1 .. Len(s.order), i = s.next + 1,
           i <= s.admitted, \A k \in KeysAt(s, i) : s.cells[k].status = "ready"
    PROVE  /\ Leaves(s, i)
           /\ Core(Release(s, i))
<1>1. ASSUME NEW k \in KeysAt(s, i) PROVE k \in Keys /\ s.cells[k].slots \in Nat /\ s.cells[k].slots >= 1
  <2>1. k \in Keys
    BY KeysAtFacts
  <2>2. s.cells[k].slots \in Nat
    BY <2>1 DEF IsState, State, Cell
  <2> QED BY <2>1, <2>2 DEF Core, SlotsOK
<1>11. Leaves(s, i)
  BY <1>1 DEF Leaves
<1> DEFINE t == Release(s, i)
<1>2. /\ IsState(t) /\ t.generation = s.generation /\ t.order = s.order /\ t.phase = s.phase
      /\ t.next = i /\ t.admitted = s.admitted
  BY <1>11, ReleaseFacts
<1>22. ASSUME NEW m \in Members
       PROVE  /\ t.last[m].anchor = KeyAt(s, i, m)[2]
              /\ t.last[m].data = s.cells[KeyAt(s, i, m)].data
              /\ t.last[m].bytes = s.cells[KeyAt(s, i, m)].bytes
  BY <1>11, ReleaseFacts
<1>23. ASSUME NEW k \in Keys
       PROVE  /\ k \notin KeysAt(s, i) => t.cells[k] = s.cells[k]
              /\ k \in KeysAt(s, i) /\ s.cells[k].slots = 1 =>
                       t.cells[k].slots = 0 /\ t.cells[k].status = "none"
              /\ k \in KeysAt(s, i) /\ s.cells[k].slots # 1 =>
                    /\ t.cells[k].slots = s.cells[k].slots - 1
                    /\ t.cells[k].status = s.cells[k].status
                    /\ t.cells[k].born = s.cells[k].born
                    /\ t.cells[k].data = s.cells[k].data
                    /\ t.cells[k].bytes = s.cells[k].bytes
  BY <1>11, ReleaseFacts
<1> HIDE DEF t
<1>3. s.next \in Nat /\ s.admitted \in Nat
  BY DEF IsState, State
<1>4. ASSUME NEW k \in Keys
      PROVE  Cardinality(LiveUses(t, k))
             = Cardinality(LiveUses(s, k)) - (IF k \in KeysAt(s, i) THEN 1 ELSE 0)
  <2>1. LiveUses(t, k) = LiveUses(s, k) \ {i}
        /\ (i \in LiveUses(s, k) <=> k \in KeysAt(s, i))
    BY <1>2, <1>3 DEF LiveUses, Live, KeysAt, KeyAt
  <2>2. IsFiniteSet(LiveUses(s, k)) /\ Cardinality(LiveUses(s, k)) \in Nat
    BY <1>3, UsesAreFinite
  <2>3. Cardinality(LiveUses(s, k) \ {i}) = IF i \in LiveUses(s, k)
           THEN Cardinality(LiveUses(s, k)) - 1 ELSE Cardinality(LiveUses(s, k))
    BY <2>2, FS_RemoveElement
  <2> QED BY <2>1, <2>2, <2>3
<1>5. ASSUME NEW k \in Keys
      PROVE  /\ t.cells[k].slots = Cardinality(LiveUses(t, k))
             /\ t.cells[k].slots = 0 <=> t.cells[k].status = "none"
             /\ t.cells[k].status # "none" => t.cells[k].born = t.generation
             /\ t.cells[k].status = "ready" => t.cells[k].data = k[2] /\ t.cells[k].bytes = Size[k]
             /\ t.cells[k].status = "failed" => k \in MayFail
  <2>1. /\ s.cells[k] \in Cell
        /\ s.cells[k].slots = Cardinality(LiveUses(s, k)) /\ s.cells[k].slots \in Nat
        /\ (s.cells[k].slots = 0 <=> s.cells[k].status = "none")
        /\ (s.cells[k].status # "none" => s.cells[k].born = s.generation)
        /\ (s.cells[k].status = "ready" =>
               s.cells[k].data = k[2] /\ s.cells[k].bytes = Size[k])
        /\ (s.cells[k].status = "failed" => k \in MayFail)
    BY DEF IsState, State, Cell, Core, SlotsOK, OwnOK, DataOK
  <2>2. CASE k \notin KeysAt(s, i)
    <3>1. t.cells[k] = s.cells[k] /\ Cardinality(LiveUses(t, k)) = Cardinality(LiveUses(s, k))
      BY <1>23, <1>4, <2>1, <2>2
    <3> QED BY <1>2, <2>1, <3>1
  <2>3. CASE k \in KeysAt(s, i) /\ s.cells[k].slots = 1
    <3>1. t.cells[k].slots = 0 /\ t.cells[k].status = "none"
      BY <1>23, <2>3
    <3>2. Cardinality(LiveUses(t, k)) = Cardinality(LiveUses(s, k)) - 1
      BY <1>4, <2>3
    <3>4. Cardinality(LiveUses(s, k)) = 1
      BY <2>1, <2>3
    <3>3. Cardinality(LiveUses(t, k)) = 0
      BY <3>2, <3>4
    <3> QED BY <3>1, <3>3
  <2>4. CASE k \in KeysAt(s, i) /\ s.cells[k].slots # 1
    <3>1. Cardinality(LiveUses(t, k)) = Cardinality(LiveUses(s, k)) - 1
      BY <1>4, <2>4
    <3>2. /\ t.cells[k].slots = s.cells[k].slots - 1
          /\ t.cells[k].status = s.cells[k].status /\ t.cells[k].born = s.cells[k].born
          /\ t.cells[k].data = s.cells[k].data /\ t.cells[k].bytes = s.cells[k].bytes
      BY <1>23, <2>4
    <3> QED BY <1>1, <1>2, <2>1, <2>4, <3>1, <3>2
  <2> QED BY <2>2, <2>3, <2>4
<1>6. ASSUME NEW m \in Members
      PROVE  LET k == <<m, t.last[m].anchor>>
             IN k \in Keys /\ t.last[m].data = k[2] /\ t.last[m].bytes = Size[k]
  <2> DEFINE k == KeyAt(s, i, m)
  <2>1. k \in KeysAt(s, i) /\ k \in Keys /\ k = <<m, k[2]>>
    BY KeysAtFacts, KeyFacts
  <2>2. t.last[m].anchor = k[2] /\ t.last[m].data = s.cells[k].data
        /\ t.last[m].bytes = s.cells[k].bytes
    BY <1>22
  <2>3. s.cells[k].data = k[2] /\ s.cells[k].bytes = Size[k]
    BY <2>1 DEF Core, DataOK
  <2> HIDE DEF k
  <2> QED BY <2>1, <2>2, <2>3
<1>7. OrderOK(t)
  BY <1>2 DEF Core, OrderOK
<1>8. Core(t)
  BY <1>5, <1>6, <1>7 DEF Core, SlotsOK, OwnOK, DataOK
<1> QED BY <1>11, <1>8 DEF t

\* t is s after its admission: Admit(s) for t = st'.
Admitted(s, t) == \E n \in s.admitted .. Len(s.order) :
                      Admits(s, n) /\ t = QueueWarmUp(AdmitTo(s, n))

LEMMA AdmittedFacts ==
    ASSUME NEW s, NEW t, IsState(s), Core(s), Admitted(s, t)
    PROVE  /\ IsState(t) /\ Core(t) /\ HeadOK(t)
           /\ t.phase = s.phase /\ t.generation = s.generation /\ t.order = s.order
           /\ t.next = s.next /\ t.prev = s.prev /\ t.running = s.running
           /\ t.shutdown = s.shutdown
           /\ \A k \in Keys :
                 IF s.cells[k].status = "none" THEN t.cells[k].status \in {"none", "queued", "ready"}
                 ELSE t.cells[k].status = s.cells[k].status
<1>1. PICK n \in s.admitted .. Len(s.order) : Admits(s, n) /\ t = QueueWarmUp(AdmitTo(s, n))
  BY DEF Admitted
<1> DEFINE u == AdmitTo(s, n)
<1>2. /\ IsState(u) /\ u.phase = s.phase /\ u.generation = s.generation /\ u.order = s.order
      /\ u.next = s.next /\ u.prev = s.prev /\ u.running = s.running
      /\ u.shutdown = s.shutdown /\ u.admitted = n
  BY AdmitToFacts
<1>3. Core(u)
  BY AdmitToCore
<1>4. ASSUME NEW k \in Keys
      PROVE  IF s.cells[k].status = "none" THEN u.cells[k].status \in {"none", "queued", "ready"}
             ELSE u.cells[k].status = s.cells[k].status
  <2> DEFINE uses == Uses(s, n, k)
  <2>1. /\ uses = {} => u.cells[k] = s.cells[k]
        /\ uses # {} /\ s.cells[k].status = "none" => u.cells[k] = NewCell(s, k, uses)
        /\ uses # {} /\ s.cells[k].status # "none" =>
              u.cells[k] = [s.cells[k] EXCEPT !.slots = @ + Cardinality(uses)]
    BY AdmitToFacts
  <2>2. s.cells[k] \in Cell /\ n \in Nat
    BY DEF IsState, State
  <2>3. uses \subseteq Nat /\ Cardinality(uses) \in Nat
    BY <2>2, UsesAreFinite
  <2> HIDE DEF u, uses
  <2>4. CASE uses = {}
    BY <2>1, <2>4
  <2>5. CASE uses # {} /\ s.cells[k].status = "none"
    <3>1. NewCell(s, k, uses).status \in {"queued", "ready"}
      BY <2>3, <2>5, NewCellFacts
    <3> QED BY <2>1, <2>5, <3>1
  <2>6. CASE uses # {} /\ s.cells[k].status # "none"
    <3>1. u.cells[k] = [s.cells[k] EXCEPT !.slots = @ + Cardinality(uses)]
      BY <2>1, <2>6
    <3> QED BY <2>2, <2>6, <3>1 DEF Cell
  <2> QED BY <2>4, <2>5, <2>6
<1> HIDE DEF u
<1>5. HeadOK(u)
  <2> SUFFICES ASSUME s.next < Len(s.order), n = s.next PROVE FALSE
    BY <1>2 DEF HeadOK, IsState, State
  <2>1. s.next \in Nat /\ s.admitted = s.next /\ Depth >= 1 /\ Depth \in Nat /\ Len(s.order) \in Nat
    BY GroupAssumption DEF IsState, State
  <2>2. ~AnyFailed(s)
    BY <2>1 DEF AnyFailed, Live
  <2>3. n < IF s.next + Depth < Len(s.order) THEN s.next + Depth ELSE Len(s.order)
    BY <2>1
  <2>4. ~Fits(s, n + 1)
    BY <1>1, <2>2, <2>3 DEF Admits
  <2> QED BY <2>4 DEF Fits
<1>6. IsState(t) /\ SameWindow(u, t)
  BY <1>1, <1>2, QueueWarmUpFacts DEF u
<1>7. Core(t) /\ HeadOK(t)
  BY <1>3, <1>5, <1>6, SameWindowKeeps
<1> QED BY <1>2, <1>4, <1>6, <1>7 DEF SameWindow

-----------------------------------------------------------------------------
(* The inductive invariant.                                                *)

Thread == [pc : {"awake", "asleep", "decoding", "exited"}, gen : Nat, key : Keys \cup {None}]
Asks  == [op : {"none", "take", "cancel", "close", "join", "gone"}, asleep : BOOLEAN]

Decoders == {w \in Workers : worker[w].pc = "decoding"}

Typed ==
    /\ IsState(st)
    /\ worker \in [Workers -> Thread]
    /\ \A w \in Decoders : worker[w].key \in Keys /\ worker[w].gen <= st.generation
    /\ consumer \in Asks

\* The count that cancel and close wait for is that of the decodes under way.
RunningInv == st.running = Cardinality(Decoders)

\* A decode of the current order is behind one running sample, and each has one.
DecodeInv ==
    /\ \A w \in Decoders : worker[w].gen = st.generation =>
          st.cells[worker[w].key].status = "running"
    /\ \A v, w \in Decoders :
          worker[v].gen = st.generation /\ worker[w] = worker[v] => v = w
    /\ \A k \in Keys : st.cells[k].status = "running" =>
          \E w \in Decoders : worker[w].gen = st.generation /\ worker[w].key = k

IInv == Typed /\ Core(st) /\ HeadOK(st) /\ RunningInv /\ DecodeInv

\* Nobody's decode begins or ends.
Kept ==
    /\ worker' \in [Workers -> Thread]
    /\ \A w \in Workers : /\ worker'[w].pc = "decoding" <=> worker[w].pc = "decoding"
                          /\ worker[w].pc = "decoding" => worker'[w] = worker[w]

LEMMA WakingKeeps ==
    ASSUME IInv, \/ worker' = worker \/ NotifyWork
                 \/ worker' = [w \in Workers |-> Woken(worker[w])]
    PROVE  Kept
<1>1. \A w \in Workers : worker[w] \in Thread
  BY DEF IInv, Typed
<1>2. ASSUME NEW w \in Workers
      PROVE  /\ Woken(worker[w]) \in Thread
             /\ Woken(worker[w]).pc = "decoding" <=> worker[w].pc = "decoding"
             /\ worker[w].pc = "decoding" => Woken(worker[w]) = worker[w]
  BY <1>1 DEF Woken, Thread
<1>3. CASE worker' = worker
  BY <1>3 DEF Kept, IInv, Typed
<1>4. CASE worker' = [w \in Workers |-> Woken(worker[w])]
  BY <1>2, <1>4 DEF Kept
<1> QED BY <1>3, <1>4 DEF NotifyWork

LEMMA KeptFacts ==
    ASSUME Kept
    PROVE  Decoders' = Decoders /\ \A w \in Decoders : worker'[w] = worker[w]
BY DEF Kept, Decoders

\* An order ends: what is still decoded belongs to an earlier generation.
LEMMA GenerationKeeps ==
    ASSUME IInv, Kept, consumer' \in Asks,
           IsState(st'), Core(st'), HeadOK(st'),
           st'.generation = st.generation + 1, st'.running = st.running,
           \A k \in Keys : st'.cells[k].status # "running"
    PROVE  IInv'
<1>1. Decoders' = Decoders /\ \A w \in Decoders : worker'[w] = worker[w]
  BY KeptFacts
<1>2. \A w \in Decoders : worker[w].gen \in Nat /\ worker[w].gen <= st.generation
                          /\ worker[w].key \in Keys
  BY DEF IInv, Typed, Decoders, Thread
<1>3. st.generation \in Nat
  BY DEF IInv, Typed, IsState, State
<1>4. \A w \in Decoders' : worker'[w].key \in Keys /\ worker'[w].gen < st'.generation
                           /\ worker'[w].gen \in Nat
  BY <1>1, <1>2, <1>3
<1>5. Typed'
  BY <1>3, <1>4 DEF Typed, Kept
<1>6. RunningInv'
  BY <1>1 DEF IInv, RunningInv
<1>7. DecodeInv'
  BY <1>3, <1>4 DEF DecodeInv
<1> QED BY <1>5, <1>6, <1>7 DEF IInv

\* The order goes on, and no decode begins or ends.
LEMMA WindowKeeps ==
    ASSUME IInv, Kept, consumer' \in Asks,
           IsState(st'), Core(st'), HeadOK(st'),
           st'.generation = st.generation, st'.running = st.running,
           \A k \in Keys : st'.cells[k].status = "running" <=> st.cells[k].status = "running"
    PROVE  IInv'
<1>1. Decoders' = Decoders /\ \A w \in Decoders : worker'[w] = worker[w]
  BY KeptFacts
<1>2. Typed'
  BY <1>1 DEF IInv, Typed, Kept
<1>3. RunningInv'
  BY <1>1 DEF IInv, RunningInv
<1>4. DecodeInv'
  BY <1>1 DEF IInv, DecodeInv, Typed
<1> QED BY <1>2, <1>3, <1>4 DEF IInv

LEMMA InitIInv == Init => IInv
<1> SUFFICES ASSUME Init PROVE IInv
  OBVIOUS
<1>1. NoCell \in Cell /\ Nobody \in [Members -> Anchors \cup {None}]
      /\ Nobody \in [Members -> Taken \cup {None}] /\ Nobody \in [Members -> Nat \cup {None}]
      /\ [k \in Keys |-> NoCell] \in [Keys -> Cell]
  BY DEF NoCell, Cell, Nobody
<1>2. <<>> \in Seq(Epochs) /\ Len(<<>>) = 0
  OBVIOUS
<1>3. IsState(st)
  <2> HIDE DEF NoCell, Nobody
  <2> QED BY <1>1, <1>2 DEF Init, IsState, State, Phases
<1>4. st.next = 0 /\ st.admitted = 0 /\ st.cells = [k \in Keys |-> NoCell] /\ st.order = <<>>
      /\ st.last = Nobody /\ st.running = 0
  BY DEF Init
<1>5. DataOK(st) /\ OrderOK(st) /\ HeadOK(st)
  BY <1>2, <1>4 DEF DataOK, OrderOK, HeadOK, NoCell, Nobody
<1>6. Core(st)
  BY <1>3, <1>4, <1>5, EmptyWindow
<1>7. Decoders = {}
  BY DEF Init, Decoders, Resting
<1>8. Typed
  BY <1>3, <1>7 DEF Init, Typed, Thread, Asks, Resting, Free
<1>9. RunningInv
  BY <1>4, <1>7, FS_EmptySet DEF RunningInv
<1>10. DecodeInv
  BY <1>4, <1>7 DEF DecodeInv, NoCell
<1> QED BY <1>5, <1>6, <1>8, <1>9, <1>10 DEF IInv

LEMMA StartKeeps == ASSUME IInv, NEW order \in Orders, Start(order) PROVE IInv'
<1> DEFINE t == [EndOrder(st, "active") EXCEPT !.order = order]
<1>1. /\ IsState(t) /\ Core(t) /\ t.generation = st.generation + 1 /\ t.running = st.running
      /\ t.cells = [k \in Keys |-> NoCell]
  BY EndOrderCore DEF IInv, Typed, Phases
<1>2. Admitted(t, st')
  BY DEF Start, Admit, Admitted
<1> HIDE DEF t
<1>3. /\ IsState(st') /\ Core(st') /\ HeadOK(st') /\ st'.generation = t.generation
      /\ st'.running = t.running
  BY <1>1, <1>2, AdmittedFacts
<1>4. ASSUME NEW k \in Keys PROVE st'.cells[k].status # "running"
  <2>1. t.cells[k].status = "none"
    BY <1>1 DEF NoCell
  <2> QED BY <1>1, <1>2, <2>1, AdmittedFacts
<1>5. Kept
  BY WakingKeeps DEF Start
<1>6. consumer' \in Asks
  BY DEF Start, IInv, Typed
<1> QED BY <1>1, <1>3, <1>4, <1>5, <1>6, GenerationKeeps

\* Whoever ends the order, with whatever becomes of the shutdown flag.
LEMMA EndKeeps ==
    ASSUME IInv, Kept, consumer' \in Asks, NEW phase \in Phases,
           \/ st' = EndOrder(st, phase)
           \/ st' = [EndOrder(st, phase) EXCEPT !.shutdown = TRUE]
    PROVE  IInv'
<1> DEFINE t == EndOrder(st, phase)
<1>1. /\ IsState(t) /\ t.generation = st.generation + 1 /\ t.running = st.running
      /\ t.cells = [k \in Keys |-> NoCell]
  BY EndOrderFacts DEF IInv, Typed
<1>2. Core(t) /\ HeadOK(t)
  BY EndOrderCore DEF IInv, Typed
<1> HIDE DEF t
<1>3. CASE st' = t
  <2>1. \A k \in Keys : st'.cells[k].status # "running"
    BY <1>1, <1>3 DEF NoCell
  <2> QED BY <1>1, <1>2, <1>3, <2>1, GenerationKeeps
<1>4. CASE st' = [t EXCEPT !.shutdown = TRUE]
  <2> DEFINE u == [t EXCEPT !.shutdown = TRUE]
  <2>1. u \in State /\ u.next = t.next /\ u.admitted = t.admitted /\ u.order = t.order
        /\ u.cells = t.cells /\ u.generation = t.generation /\ u.running = t.running
        /\ u.last = t.last /\ u.phase = t.phase
    BY <1>1 DEF IsState, State
  <2> HIDE DEF u
  <2>2. IsState(u)
    BY <1>1, <2>1 DEF IsState
  <2>3. \A k \in Keys : LiveUses(u, k) = LiveUses(t, k)
    BY <2>1 DEF LiveUses, Live, KeysAt, KeyAt
  <2>4. Core(u) /\ HeadOK(u)
    BY <1>2, <2>1, <2>3 DEF Core, SlotsOK, OwnOK, DataOK, OrderOK, HeadOK
  <2>5. \A k \in Keys : u.cells[k].status # "running"
    BY <1>1, <2>1 DEF NoCell
  <2>6. st' = u
    BY <1>4 DEF u
  <2> QED BY <1>1, <2>1, <2>2, <2>4, <2>5, <2>6, GenerationKeeps
<1> QED BY <1>3, <1>4 DEF t

\* The threads are told to stop.
LEMMA ShutdownKeeps ==
    ASSUME IInv, Kept, consumer' \in Asks, st' = [st EXCEPT !.shutdown = TRUE] PROVE IInv'
<1>1. /\ st' \in State /\ st'.next = st.next /\ st'.admitted = st.admitted
      /\ st'.order = st.order /\ st'.cells = st.cells /\ st'.generation = st.generation
      /\ st'.running = st.running /\ st'.last = st.last /\ st'.phase = st.phase
  BY DEF IInv, Typed, IsState, State
<1>2. IsState(st')
  BY <1>1 DEF IInv, Typed, IsState
<1>3. \A k \in Keys : LiveUses(st', k) = LiveUses(st, k)
  BY <1>1 DEF LiveUses, Live, KeysAt, KeyAt
<1>4. Core(st') /\ HeadOK(st')
  BY <1>1, <1>3 DEF IInv, Core, SlotsOK, OwnOK, DataOK, OrderOK, HeadOK
<1> QED BY <1>1, <1>2, <1>4, WindowKeeps

\* A head whose samples are all decoded, and none of them failed, is ready to go.
LEMMA HeadIsReady ==
    ASSUME IInv, HeadDone(st),
           {m \in Members : st.cells[KeyAt(st, st.next + 1, m)].status = "failed"} = {}
    PROVE  /\ st.next + 1 \in 1 .. Len(st.order) /\ st.next + 1 <= st.admitted
           /\ \A k \in KeysAt(st, st.next + 1) : st.cells[k].status = "ready"
           /\ Leaves(st, st.next + 1) /\ Core(Release(st, st.next + 1))
<1>1. st.next + 1 \in 1 .. Len(st.order) /\ st.next + 1 <= st.admitted /\ IsState(st) /\ Core(st)
  BY DEF IInv, Typed, IsState, State, HeadDone
<1>2. \A k \in KeysAt(st, st.next + 1) : st.cells[k].status = "ready"
  BY <1>1, KeysAtFacts, KeyFacts DEF HeadDone, Done
<1>3. Leaves(st, st.next + 1) /\ Core(Release(st, st.next + 1))
  BY <1>1, <1>2, ReleaseCore
<1> QED BY <1>1, <1>2, <1>3

LEMMA TakeHeadKeeps == ASSUME IInv, HeadDone(st), TakeHead PROVE IInv'
<1> DEFINE i == st.next + 1
           failed == {m \in Members : st.cells[KeyAt(st, i, m)].status = "failed"}
<1>1. consumer' \in Asks
  BY DEF TakeHead, Free, Asks
<1>2. CASE failed # {}
  <2>1. st' = EndOrder(st, "failed") /\ worker' = worker
    BY <1>2 DEF TakeHead
  <2>2. Kept
    BY <2>1, WakingKeeps
  <2> QED BY <1>1, <2>1, <2>2, EndKeeps DEF Phases
<1>3. CASE failed = {}
  <2> DEFINE t == Release(st, i)
  <2>1. Admitted(t, st') /\ NotifyWork
    BY <1>3 DEF TakeHead, Admit, Admitted
  <2>2. /\ i \in 1 .. Len(st.order) /\ Leaves(st, i) /\ Core(t)
        /\ \A k \in KeysAt(st, i) : st.cells[k].status = "ready"
    BY <1>3, HeadIsReady
  <2>3. IsState(t) /\ t.generation = st.generation /\ t.running = st.running
    BY <2>2, ReleaseFacts DEF IInv, Typed
  <2>4. ASSUME NEW k \in Keys
        PROVE  t.cells[k].status = "running" <=> st.cells[k].status = "running"
    <3>1. /\ k \notin KeysAt(st, i) => t.cells[k] = st.cells[k]
          /\ k \in KeysAt(st, i) /\ st.cells[k].slots = 1 => t.cells[k].status = "none"
          /\ k \in KeysAt(st, i) /\ st.cells[k].slots # 1 =>
                t.cells[k].status = st.cells[k].status
      BY <2>2, ReleaseFacts DEF IInv, Typed
    <3> HIDE DEF t, i
    <3> QED BY <2>2, <3>1
  <2> HIDE DEF t, i, failed
  <2>5. /\ IsState(st') /\ Core(st') /\ HeadOK(st') /\ st'.generation = t.generation
        /\ st'.running = t.running
    BY <2>1, <2>2, <2>3, AdmittedFacts
  <2>6. ASSUME NEW k \in Keys
        PROVE  st'.cells[k].status = "running" <=> st.cells[k].status = "running"
    <3>1. IF t.cells[k].status = "none" THEN st'.cells[k].status \in {"none", "queued", "ready"}
          ELSE st'.cells[k].status = t.cells[k].status
      BY <2>1, <2>2, <2>3, AdmittedFacts
    <3> QED BY <2>4, <3>1
  <2>7. Kept
    BY <2>1, WakingKeeps
  <2> QED BY <1>1, <2>3, <2>5, <2>6, <2>7, WindowKeeps
<1> QED BY <1>2, <1>3

\* What a decode touches: one sample that stays in the window, and a member's size.
Touched(s, k, c, r, sizes) == [s EXCEPT !.cells[k] = c, !.running = r, !.lastSize = sizes]

MayBecome(s, k, c) ==
    /\ c \in Cell /\ s.cells[k].status # "none" /\ c.status # "none"
    /\ c.slots = s.cells[k].slots /\ c.born = s.cells[k].born
    /\ c.status = "ready" => c.data = k[2] /\ c.bytes = Size[k]
    /\ c.status = "failed" => k \in MayFail

LEMMA CellStep ==
    ASSUME NEW s, IsState(s), Core(s), NEW k \in Keys, NEW c, MayBecome(s, k, c),
           NEW r \in Int, NEW sizes \in [Members -> Nat \cup {None}]
    PROVE  LET t == Touched(s, k, c, r, sizes) IN
           /\ IsState(t) /\ Core(t)
           /\ t.phase = s.phase /\ t.generation = s.generation /\ t.order = s.order
           /\ t.next = s.next /\ t.admitted = s.admitted /\ t.prev = s.prev /\ t.running = r
           /\ t.last = s.last /\ t.lastSize = sizes
           /\ t.cells[k] = c
           /\ \A l \in Keys : l # k => t.cells[l] = s.cells[l]
<1> DEFINE t == Touched(s, k, c, r, sizes)
<1>1. s \in State /\ s.cells \in [Keys -> Cell] /\ c \in Cell
  BY DEF IsState, State, MayBecome
<1>2. /\ t.phase = s.phase /\ t.generation = s.generation /\ t.order = s.order
      /\ t.next = s.next /\ t.admitted = s.admitted /\ t.prev = s.prev /\ t.running = r
      /\ t.last = s.last /\ t.lastSize = sizes
      /\ t.cells = [s.cells EXCEPT ![k] = c]
  BY <1>1 DEF State, Touched
<1>3. t.cells[k] = c /\ \A l \in Keys : l # k => t.cells[l] = s.cells[l]
  BY <1>1, <1>2
<1>4. [s.cells EXCEPT ![k] = c] \in [Keys -> Cell]
  BY <1>1
<1>5. t \in State
  BY <1>1, <1>4 DEF State, Touched
<1> HIDE DEF t
<1>6. IsState(t)
  BY <1>2, <1>5 DEF IsState
<1>7. \A l \in Keys : LiveUses(t, l) = LiveUses(s, l)
  BY <1>2 DEF LiveUses, Live, KeysAt, KeyAt
<1>8. SlotsOK(t)
  BY <1>3, <1>7 DEF Core, SlotsOK, MayBecome
<1>9. OwnOK(t)
  BY <1>2, <1>3 DEF Core, OwnOK, MayBecome
<1>10. DataOK(t)
  BY <1>2, <1>3 DEF Core, DataOK, MayBecome
<1>11. OrderOK(t)
  BY <1>2 DEF Core, OrderOK
<1> QED BY <1>2, <1>3, <1>6, <1>8, <1>9, <1>10, <1>11 DEF Core, t

LEMMA DecodersAreFinite == IsFiniteSet(Decoders) /\ Cardinality(Decoders) \in Nat
BY GroupAssumption, FS_Subset, FS_CardinalityType DEF Decoders

\* A worker stops, sleeps, or begins to decode a sample that nobody decodes.
LEMMA NextItemKeeps == ASSUME IInv, NEW w \in Workers, NextItem(w) PROVE IInv'
<1>1. worker[w].pc = "awake" /\ worker \in [Workers -> Thread] /\ consumer' = consumer
      /\ consumer \in Asks
  BY DEF NextItem, IInv, Typed
<1>2. CASE st' = st /\ (worker' = [worker EXCEPT ![w] = Resting("exited")]
                        \/ worker' = [worker EXCEPT ![w] = Resting("asleep")])
  <2>1. Kept
    BY <1>1, <1>2 DEF Kept, Resting, Thread
  <2> QED BY <1>1, <1>2, <2>1, WindowKeeps DEF IInv, Typed
<1>3. ASSUME NEW k \in Keys, Front(st, k),
             st' = [st EXCEPT !.cells[k].status = "running", !.running = @ + 1],
             worker' = [worker EXCEPT ![w] = [pc |-> "decoding", gen |-> st.generation, key |-> k]]
      PROVE  IInv'
  <2> DEFINE c == [st.cells[k] EXCEPT !.status = "running"]
  <2>1. /\ IsState(st) /\ Core(st) /\ st \in State /\ st.cells[k] \in Cell /\ st.running \in Int
        /\ st.lastSize \in [Members -> Nat \cup {None}] /\ st.generation \in Nat
    BY DEF IInv, Typed, IsState, State
  <2>2. st.cells[k].status = "queued"
    BY <1>3 DEF Front, Queued
  <2>3. /\ c \in Cell /\ c.status = "running" /\ c.slots = st.cells[k].slots
        /\ c.born = st.cells[k].born
    BY <2>1 DEF Cell
  <2>4. st' = Touched(st, k, c, st.running + 1, st.lastSize)
    BY <1>3, <2>1 DEF State, Touched
  <2>44. MayBecome(st, k, c) /\ st.running + 1 \in Int
    BY <2>1, <2>2, <2>3 DEF MayBecome
  <2> HIDE DEF c
  <2>5. /\ IsState(st') /\ Core(st') /\ st'.generation = st.generation
        /\ st'.order = st.order /\ st'.next = st.next /\ st'.admitted = st.admitted
        /\ st'.running = st.running + 1
        /\ st'.cells[k] = c /\ \A l \in Keys : l # k => st'.cells[l] = st.cells[l]
    BY <2>1, <2>4, <2>44, CellStep
  <2>6. /\ Decoders' = Decoders \cup {w} /\ w \notin Decoders
        /\ worker'[w] = [pc |-> "decoding", gen |-> st.generation, key |-> k]
        /\ \A v \in Decoders : worker'[v] = worker[v]
    BY <1>1, <1>3 DEF Decoders
  <2>7. Typed'
    <3>1. worker' \in [Workers -> Thread]
      BY <1>1, <1>3, <2>1 DEF Thread
    <3>2. \A v \in Decoders' : worker'[v].key \in Keys /\ worker'[v].gen <= st'.generation
      BY <2>1, <2>5, <2>6 DEF IInv, Typed
    <3> QED BY <1>1, <2>5, <3>1, <3>2 DEF Typed
  <2>8. RunningInv'
    <3>1. Cardinality(Decoders \cup {w}) = Cardinality(Decoders) + 1
      BY <2>6, DecodersAreFinite, FS_AddElement
    <3> QED BY <2>5, <2>6, <3>1 DEF IInv, RunningInv
  <2>9. DecodeInv'
    <3>1. \A v \in Decoders : worker[v].gen = st.generation => worker[v].key # k
      BY <2>2 DEF IInv, DecodeInv
    <3>2. \A v \in Decoders : worker[v].gen = st.generation =>
             st'.cells[worker[v].key].status = "running"
      BY <2>5, <3>1 DEF IInv, DecodeInv, Typed
    <3>3. \A v \in Decoders' : worker'[v].gen = st'.generation =>
             st'.cells[worker'[v].key].status = "running"
      BY <2>3, <2>5, <2>6, <3>2
    <3>4. ASSUME NEW u \in Decoders', NEW v \in Decoders',
                 worker'[u].gen = st'.generation, worker'[v] = worker'[u]
          PROVE  u = v
      <4>1. CASE u \in Decoders /\ v \in Decoders
        BY <2>5, <2>6, <3>4, <4>1 DEF IInv, DecodeInv
      <4>2. CASE u = w \/ v = w
        BY <2>5, <2>6, <3>1, <3>4, <4>2
      <4> QED BY <2>6, <4>1, <4>2
    <3>5. ASSUME NEW l \in Keys, st'.cells[l].status = "running"
          PROVE  \E v \in Decoders' : worker'[v].gen = st'.generation /\ worker'[v].key = l
      <4>1. CASE l = k
        BY <2>5, <2>6, <4>1
      <4>2. CASE l # k
        BY <2>5, <2>6, <3>5, <4>2 DEF IInv, DecodeInv
      <4> QED BY <4>1, <4>2
    <3> QED BY <3>3, <3>4, <3>5 DEF DecodeInv
  <2>10. HeadOK(st')
    BY <2>5 DEF IInv, HeadOK
  <2> QED BY <2>5, <2>7, <2>8, <2>9, <2>10 DEF IInv
<1> QED BY <1>2, <1>3 DEF NextItem

\* What a decode that is still wanted leaves under its key.
LEMMA Stored ==
    ASSUME IInv, NEW w \in Workers, FinishDecode(w), Wanted(worker[w].gen, worker[w].key)
    PROVE  \E c \in Cell, sizes \in [Members -> Nat \cup {None}] :
              /\ MayBecome(st, worker[w].key, c) /\ c.status \in {"ready", "failed"}
              /\ \A m \in Members : sizes[m] # st.lastSize[m] =>
                    m = worker[w].key[1] /\ sizes[m] = Size[worker[w].key]
              /\ Admitted(Touched(st, worker[w].key, c, st.running - 1, sizes), st')
<1> DEFINE k == worker[w].key
           s == [st EXCEPT !.running = @ - 1]
<1>1. w \in Decoders /\ k \in Keys
  BY DEF FinishDecode, IInv, Typed, Decoders
<1>2. /\ IsState(st) /\ Core(st) /\ st \in State /\ st.cells[k] \in Cell /\ st.running \in Int
      /\ st.lastSize \in [Members -> Nat \cup {None}]
  BY <1>1 DEF IInv, Typed, IsState, State
<1>3. worker[w].gen = st.generation /\ st.cells[k].status = "running"
  BY <1>1 DEF Wanted, IInv, DecodeInv
<1> DEFINE ready == [st.cells[k] EXCEPT !.status = "ready", !.data = k[2],
                                        !.bytes = Size[k], !.born = worker[w].gen]
           broken == [st.cells[k] EXCEPT !.status = "failed", !.born = worker[w].gen]
           sizes == [st.lastSize EXCEPT ![k[1]] = Size[k]]
<1>4. k[1] \in Members /\ k[2] \in Anchors /\ Size[k] \in Nat
  BY <1>1, KeyFacts, GroupAssumption
<1>5. st.cells[k].born = worker[w].gen
  BY <1>1, <1>2, <1>3 DEF Core, OwnOK
<1>6. /\ ready \in Cell /\ ready.status = "ready" /\ ready.data = k[2]
      /\ ready.bytes = Size[k] /\ ready.slots = st.cells[k].slots
      /\ ready.born = st.cells[k].born
  BY <1>2, <1>4, <1>5 DEF Cell
<1>7. /\ broken \in Cell /\ broken.status = "failed" /\ broken.slots = st.cells[k].slots
      /\ broken.born = st.cells[k].born
  BY <1>2, <1>5 DEF Cell
<1>8. /\ sizes \in [Members -> Nat \cup {None}]
      /\ \A m \in Members : sizes[m] # st.lastSize[m] => m = k[1] /\ sizes[m] = Size[k]
  BY <1>2, <1>4
<1>9. \/ Admitted([s EXCEPT !.cells[k] = ready, !.lastSize[k[1]] = Size[k]], st')
      \/ k \in MayFail /\ Admitted([s EXCEPT !.cells[k] = broken], st')
  BY <1>2 DEF FinishDecode, Admit, Admitted, State
<1>10. /\ [s EXCEPT !.cells[k] = ready, !.lastSize[k[1]] = Size[k]]
         = Touched(st, k, ready, st.running - 1, sizes)
      /\ [s EXCEPT !.cells[k] = broken]
         = Touched(st, k, broken, st.running - 1, st.lastSize)
  BY <1>2 DEF State, Touched
<1>11. MayBecome(st, k, ready) /\ (k \in MayFail => MayBecome(st, k, broken))
  <2> HIDE DEF ready, broken
  <2> QED BY <1>3, <1>6, <1>7 DEF MayBecome
<1> HIDE DEF ready, broken, sizes, s
<1> QED BY <1>2, <1>6, <1>7, <1>8, <1>9, <1>10, <1>11

\* A decode ends.
LEMMA FinishDecodeKeeps == ASSUME IInv, NEW w \in Workers, FinishDecode(w) PROVE IInv'
<1> DEFINE k == worker[w].key
           s == [st EXCEPT !.running = @ - 1]
<1>1. /\ worker[w].pc = "decoding" /\ w \in Decoders /\ k \in Keys
      /\ worker \in [Workers -> Thread] /\ worker[w].gen <= st.generation
      /\ consumer' \in Asks
  BY DEF FinishDecode, IInv, Typed, Decoders, WakeConsumer, Asks
<1>2. /\ IsState(st) /\ Core(st) /\ st \in State /\ st.cells[k] \in Cell /\ st.running \in Int
      /\ st.lastSize \in [Members -> Nat \cup {None}] /\ st.generation \in Nat
  BY <1>1 DEF IInv, Typed, IsState, State
<1>3. /\ worker' \in [Workers -> Thread] /\ worker'[w].pc = "awake"
      /\ \A v \in Workers \ {w} : /\ worker'[v].pc = "decoding" <=> worker[v].pc = "decoding"
                                  /\ worker[v].pc = "decoding" => worker'[v] = worker[v]
  <2>1. CASE worker' = [v \in Workers |-> IF v = w THEN Resting("awake") ELSE Woken(worker[v])]
    <3>1. ASSUME NEW v \in Workers
          PROVE  /\ Woken(worker[v]) \in Thread
                 /\ Woken(worker[v]).pc = "decoding" <=> worker[v].pc = "decoding"
                 /\ worker[v].pc = "decoding" => Woken(worker[v]) = worker[v]
      BY <1>1 DEF Woken, Thread
    <3>2. Resting("awake") \in Thread /\ Resting("awake").pc = "awake"
      BY DEF Resting, Thread
    <3> QED BY <2>1, <3>1, <3>2
  <2>2. CASE worker' = [worker EXCEPT ![w] = Resting("awake")]
    <3>2. Resting("awake") \in Thread /\ Resting("awake").pc = "awake"
      BY DEF Resting, Thread
    <3> QED BY <1>1, <2>2, <3>2
  <2> QED BY <2>1, <2>2 DEF FinishDecode
<1>4. Decoders' = Decoders \ {w} /\ \A v \in Decoders' : worker'[v] = worker[v] /\ v # w
  BY <1>3 DEF Decoders
<1>5. ASSUME st'.running = st.running - 1 PROVE RunningInv'
  <2>1. Cardinality(Decoders \ {w}) = Cardinality(Decoders) - 1
    BY <1>1, DecodersAreFinite, FS_RemoveElement
  <2> QED BY <1>4, <1>5, <2>1 DEF IInv, RunningInv
<1>6. ASSUME st'.generation = st.generation, IsState(st') PROVE Typed'
  BY <1>1, <1>3, <1>4, <1>6 DEF IInv, Typed
<1>7. CASE Wanted(worker[w].gen, k)
  <2>1. worker[w].gen = st.generation /\ st.cells[k].status = "running"
    BY <1>1, <1>7 DEF Wanted, IInv, DecodeInv
  <2>2. PICK c \in Cell, sizes \in [Members -> Nat \cup {None}] :
          /\ MayBecome(st, k, c) /\ c.status \in {"ready", "failed"}
          /\ Admitted(Touched(st, k, c, st.running - 1, sizes), st')
    BY <1>7, Stored
  <2> DEFINE t == Touched(st, k, c, st.running - 1, sizes)
  <2>3. /\ IsState(t) /\ Core(t) /\ t.generation = st.generation
        /\ t.running = st.running - 1 /\ t.cells[k] = c
        /\ \A l \in Keys : l # k => t.cells[l] = st.cells[l]
    <3>1. st.running - 1 \in Int
      BY <1>2
    <3> HIDE DEF k, s
    <3> QED BY <1>1, <1>2, <2>2, <3>1, CellStep
  <2>4. Admitted(t, st')
    BY <2>2
  <2> HIDE DEF t, s
  <2>5. /\ IsState(st') /\ Core(st') /\ HeadOK(st') /\ st'.generation = st.generation
        /\ st'.running = st.running - 1
    BY <2>3, <2>4, AdmittedFacts
  <2>6. ASSUME NEW l \in Keys
        PROVE  st'.cells[l].status = "running" <=> st.cells[l].status = "running" /\ l # k
    <3>1. IF t.cells[l].status = "none" THEN st'.cells[l].status \in {"none", "queued", "ready"}
          ELSE st'.cells[l].status = t.cells[l].status
      BY <2>3, <2>4, AdmittedFacts
    <3> QED BY <2>2, <2>3, <3>1
  <2>7. DecodeInv'
    <3>1. \A v \in Decoders' : worker[v].gen = st.generation =>
             worker[v].key # k /\ worker[v].key \in Keys
      <4>1. ASSUME NEW v \in Decoders', worker[v].gen = st.generation, worker[v].key = k
            PROVE  FALSE
        <5>1. worker[v] = worker[w]
          BY <1>1, <1>4, <2>1, <4>1 DEF Thread, Decoders
        <5> QED BY <1>1, <1>4, <2>1, <4>1, <5>1 DEF IInv, DecodeInv
      <4> QED BY <1>4, <4>1 DEF IInv, Typed
    <3>2. \A v \in Decoders' : worker'[v].gen = st'.generation =>
             st'.cells[worker'[v].key].status = "running"
      BY <1>4, <2>5, <2>6, <3>1 DEF IInv, DecodeInv
    <3>3. \A u, v \in Decoders' :
             worker'[u].gen = st'.generation /\ worker'[v] = worker'[u] => u = v
      BY <1>4, <2>5 DEF IInv, DecodeInv
    <3>4. \A l \in Keys : st'.cells[l].status = "running" =>
             \E v \in Decoders' : worker'[v].gen = st'.generation /\ worker'[v].key = l
      <4> SUFFICES ASSUME NEW l \in Keys, st'.cells[l].status = "running"
                   PROVE  \E v \in Decoders' : worker'[v].gen = st'.generation
                                               /\ worker'[v].key = l
        OBVIOUS
      <4>1. st.cells[l].status = "running" /\ l # k
        BY <2>6
      <4>2. PICK v \in Decoders : worker[v].gen = st.generation /\ worker[v].key = l
        BY <4>1 DEF IInv, DecodeInv
      <4>3. v \in Decoders'
        BY <1>4, <4>1, <4>2
      <4> QED BY <1>4, <2>5, <4>2, <4>3
    <3> QED BY <3>2, <3>3, <3>4 DEF DecodeInv
  <2> QED BY <1>5, <1>6, <2>5, <2>7 DEF IInv
<1>8. CASE ~Wanted(worker[w].gen, k)
  <2>1. st' = [st EXCEPT !.running = st.running - 1]
    BY <1>8 DEF FinishDecode
  <2>2. worker[w].gen # st.generation
    BY <1>1, <1>8 DEF Wanted, IInv, DecodeInv
  <2>3. /\ st' \in State /\ st'.next = st.next /\ st'.admitted = st.admitted
        /\ st'.order = st.order /\ st'.cells = st.cells /\ st'.generation = st.generation
        /\ st'.running = st.running - 1 /\ st'.last = st.last /\ st'.phase = st.phase
    <3>1. st.running - 1 \in Int
      BY <1>2
    <3> HIDE DEF s
    <3> QED BY <1>2, <2>1, <3>1 DEF State
  <2>4. IsState(st')
    BY <1>2, <2>3 DEF IsState
  <2>5. \A l \in Keys : LiveUses(st', l) = LiveUses(st, l)
    BY <2>3 DEF LiveUses, Live, KeysAt, KeyAt
  <2>6. Core(st') /\ HeadOK(st')
    BY <2>3, <2>5 DEF IInv, Core, SlotsOK, OwnOK, DataOK, OrderOK, HeadOK
  <2>7. DecodeInv'
    BY <1>4, <2>2, <2>3 DEF IInv, DecodeInv
  <2> QED BY <1>5, <1>6, <2>3, <2>4, <2>6, <2>7 DEF IInv
<1> QED BY <1>7, <1>8

\* Every other step leaves the window and the decodes alone.
LEMMA NextKeeps == IInv /\ [Next]_vars => IInv'
<1> SUFFICES ASSUME IInv, [Next]_vars PROVE IInv'
  OBVIOUS
<1>1. ASSUME Kept, consumer' \in Asks, st' = st PROVE IInv'
  BY <1>1, WindowKeeps DEF IInv, Typed
<1>2. consumer \in Asks
  BY DEF IInv, Typed
<1>3. \A op \in {"take", "cancel", "close"} : In(op) \in Asks
  BY DEF In, Asks
<1>4. Free \in Asks /\ Joining \in Asks /\ [Joining EXCEPT !.op = "gone"] \in Asks
  BY DEF Free, Joining, Asks
<1>5. ASSUME UNCHANGED worker PROVE Kept
  BY <1>5, WakingKeeps
<1>6. CASE Call
  <2>1. ASSUME NEW order \in Orders, Start(order) PROVE IInv'
    BY <2>1, StartKeeps
  <2>2. CASE Take
    <3>1. CASE HeadDone(st)
      BY <2>2, <3>1, TakeHeadKeeps DEF Take
    <3>2. CASE ~HeadDone(st)
      BY <1>1, <1>3, <1>5, <2>2, <3>2 DEF Take
    <3> QED BY <3>1, <3>2
  <2>3. ASSUME NEW wait \in BOOLEAN, Cancel(wait) PROVE IInv'
    BY <1>3, <1>4, <1>5, <2>3, EndKeeps DEF Cancel, Phases
  <2>4. ASSUME Shutdown(EndOrder(st, "closed")) PROVE IInv'
    BY <1>4, <2>4, EndKeeps, WakingKeeps DEF Shutdown, Phases
  <2>5. CASE Close
    <3>1. CASE st' = EndOrder(st, "closed") /\ consumer' = In("close") /\ UNCHANGED worker
      BY <1>3, <1>5, <3>1, EndKeeps DEF Phases
    <3> QED BY <2>4, <2>5, <3>1 DEF Close
  <2>6. CASE Drop
    BY <2>4, <2>6 DEF Drop
  <2> QED BY <1>6, <2>1, <2>2, <2>3, <2>5, <2>6 DEF Call
<1>7. CASE Resume
  <2>1. CASE ResumeTake
    <3>1. CASE HeadDone(st)
      BY <2>1, <3>1, TakeHeadKeeps DEF ResumeTake
    <3>2. CASE ~HeadDone(st)
      BY <1>1, <1>3, <1>5, <2>1, <3>2 DEF ResumeTake
    <3> QED BY <3>1, <3>2
  <2>2. CASE ResumeCancel
    BY <1>1, <1>3, <1>4, <1>5, <2>2 DEF ResumeCancel
  <2>3. CASE ResumeClose
    <3>1. ASSUME Shutdown(st) PROVE IInv'
      BY <1>4, <3>1, ShutdownKeeps, WakingKeeps DEF Shutdown
    <3>2. CASE consumer' = In("close") /\ UNCHANGED <<st, worker, warmer, out>>
      BY <1>1, <1>3, <1>5, <3>2
    <3> QED BY <2>3, <3>1, <3>2 DEF ResumeClose
  <2>4. CASE Join
    BY <1>1, <1>4, <1>5, <2>4 DEF Join
  <2> QED BY <1>7, <2>1, <2>2, <2>3, <2>4 DEF Resume
<1>8. ASSUME NEW w \in Workers, Run(w) PROVE IInv'
  BY <1>8, NextItemKeeps, FinishDecodeKeeps DEF Run
<1>9. CASE WarmUp
  <2>1. CASE FinishWarmUp
    BY <1>1, <1>2, <1>5, <2>1 DEF FinishWarmUp
  <2>2. CASE NextFile
    <3>1. CASE UNCHANGED st
      BY <1>1, <1>2, <1>5, <2>2, <3>1 DEF NextFile
    <3>2. ASSUME NEW k \in st.toWarm, st' = [st EXCEPT !.toWarm = @ \ {k}] PROVE IInv'
      <4>1. /\ st' \in State /\ SameWindow(st, st')
        BY <3>2 DEF IInv, Typed, IsState, State, SameWindow
      <4>2. IsState(st')
        BY <4>1 DEF IInv, Typed, IsState, SameWindow
      <4>3. Core(st') /\ HeadOK(st')
        BY <4>1, SameWindowKeeps DEF IInv
      <4>4. Kept /\ consumer' \in Asks
        BY <1>2, <1>5, <2>2 DEF NextFile
      <4> QED BY <4>1, <4>2, <4>3, <4>4, WindowKeeps DEF SameWindow
    <3> QED BY <2>2, <3>1, <3>2 DEF NextFile
  <2> QED BY <1>9, <2>1, <2>2 DEF WarmUp
<1>10. CASE UNCHANGED vars
  BY <1>1, <1>2, <1>5, <1>10 DEF vars
<1> QED BY <1>6, <1>7, <1>8, <1>9, <1>10 DEF Next, Gone

\* The inductive invariant holds in every state that is reached.
THEOREM Invariance == Spec => []IInv
<1>1. Init => IInv
  BY InitIInv
<1>2. IInv /\ [Next]_vars => IInv'
  BY NextKeeps
<1> QED BY <1>1, <1>2, PTL DEF Spec

-----------------------------------------------------------------------------
(* What follows.                                                           *)

\* The window's bounds stay in order and within the declared order, and a worker that
\* decodes does so for a sample, under a generation that has begun.
THEOREM TypeCorrect == Spec => []Typed
<1>1. IInv => Typed
  BY DEF IInv
<1> QED BY <1>1, Invariance, PTL

\* What a cancelled order still had in flight never reaches the order that runs, and no
\* sample of the current order is decoded twice, or waits for nobody.
THEOREM GenerationsDoNotMixAlways == Spec => []GenerationsDoNotMix
<1>1. IInv => GenerationsDoNotMix
  <2> SUFFICES ASSUME IInv PROVE GenerationsDoNotMix
    OBVIOUS
  <2>1. ASSUME NEW k \in Keys
        PROVE  Cardinality({w \in Workers : /\ worker[w].pc = "decoding"
                                            /\ worker[w].gen = st.generation
                                            /\ worker[w].key = k})
               = IF st.cells[k].status = "running" THEN 1 ELSE 0
    <3> DEFINE D == {w \in Workers : /\ worker[w].pc = "decoding"
                                     /\ worker[w].gen = st.generation
                                     /\ worker[w].key = k}
    <3>1. D \subseteq Decoders
      BY DEF Decoders
    <3>2. \A v, w \in D : worker[v] = worker[w]
      BY DEF IInv, Typed, Thread
    <3>3. \A v, w \in D : v = w
      BY <3>1, <3>2 DEF IInv, DecodeInv
    <3>4. CASE st.cells[k].status = "running"
      <4>1. PICK w \in Decoders : worker[w].gen = st.generation /\ worker[w].key = k
        BY <3>4 DEF IInv, DecodeInv
      <4>2. w \in D
        BY <4>1 DEF Decoders
      <4> HIDE DEF D
      <4>3. D = {w}
        BY <3>3, <4>2
      <4>4. Cardinality(D) = 1
        BY <4>3, FS_Singleton
      <4> QED BY <3>4, <4>4 DEF D
    <3>5. CASE st.cells[k].status # "running"
      <4>1. D = {}
        BY <3>5, <3>1 DEF IInv, DecodeInv
      <4>2. Cardinality(D) = 0
        BY <4>1, FS_EmptySet
      <4> QED BY <3>5, <4>2
    <3> QED BY <3>4, <3>5
  <2>2. RunningHasOneDecoder
    BY <2>1 DEF RunningHasOneDecoder
  <2>3. ResultsAreOwn
    BY DEF IInv, Core, OwnOK, ResultsAreOwn, Done
  <2> QED BY <2>2, <2>3 DEF GenerationsDoNotMix
<1> QED BY <1>1, Invariance, PTL

LEMMA CountedFollows == IInv => HeadIsAdmitted /\ SlotsAreCounted
BY DEF IInv, Core, HeadOK, SlotsOK, LiveUses, HeadIsAdmitted, SlotsAreCounted

\* The head of the order is in the window, whatever the budget, the sizes and whatever
\* failed, and a sample is in it exactly while live slots use it: the two expects of take.
THEOREM WindowIsCounted == Spec => [](HeadIsAdmitted /\ SlotsAreCounted)
BY CountedFollows, Invariance, PTL

\* cancel(true) and close come back only when nothing is decoded any more, under this
\* order or an earlier one.
THEOREM QuietAfterCancelAlways == Spec => QuietAfterCancel
<1> DEFINE Back == \/ Cancel(TRUE) /\ consumer' = Free
                   \/ Close /\ consumer' = Joining
                   \/ consumer.op \in {"cancel", "close"} /\ consumer'.op # consumer.op
<1>1. IInv /\ [Next]_vars => [Back => \A w \in Workers : worker[w].pc # "decoding"]_vars
  <2> SUFFICES ASSUME IInv, Next, Back PROVE st.running = 0
    <3>1. ASSUME IInv, st.running = 0 PROVE \A w \in Workers : worker[w].pc # "decoding"
      BY <3>1, DecodersAreFinite, FS_EmptySet DEF IInv, RunningInv, Decoders
    <3> QED BY <3>1
  <2>0. /\ IsState(st) /\ st.running \in Nat
        /\ Free # In("cancel") /\ Joining # In("close")
    BY DecodersAreFinite DEF IInv, Typed, RunningInv, Free, Joining, In
  <2>1. CASE Cancel(TRUE) /\ consumer' = Free
    BY <2>0, <2>1, EndOrderFacts DEF Cancel, Phases
  <2>2. CASE Close /\ consumer' = Joining
    BY <2>0, <2>2, EndOrderFacts DEF Close, Phases
  <2>3. CASE consumer.op \in {"cancel", "close"} /\ consumer'.op # consumer.op
    <3>1. consumer # Free /\ consumer # Joining /\ consumer.op # "take" /\ consumer.op # "gone"
      BY <2>3 DEF Free, Joining
    <3>2. ~Call /\ ~ResumeTake /\ ~Join /\ ~Gone
      BY <3>1 DEF Call, Start, Take, Cancel, Close, Drop, ResumeTake, Join, Gone
    <3>3. ASSUME NEW w \in Workers, Run(w) PROVE consumer'.op = consumer.op
      BY <3>3 DEF Run, NextItem, FinishDecode, WakeConsumer, IInv, Typed, Asks
    <3>4. ~WarmUp
      BY <2>3 DEF WarmUp, NextFile, FinishWarmUp
    <3>5. CASE ResumeCancel
      BY <2>0, <2>3, <3>5 DEF ResumeCancel, In
    <3>6. CASE ResumeClose
      BY <2>0, <2>3, <3>6 DEF ResumeClose, In
    <3> QED BY <2>3, <3>2, <3>3, <3>4, <3>5, <3>6 DEF Next, Resume
  <2> QED BY <2>1, <2>2, <2>3
<1>2. Spec => [][Back => \A w \in Workers : worker[w].pc # "decoding"]_vars
  BY <1>1, Invariance, PTL DEF Spec
<1> QED BY <1>2 DEF QuietAfterCancel

-----------------------------------------------------------------------------
(* The consumer gets its epochs in order: every step is one of EpochOrder. *)

Rest(s) == SubSeq(s.order, s.next + 1, Len(s.order))

LEMMA RestFacts ==
    ASSUME NEW s, IsState(s)
    PROVE  /\ s.order = <<>> => Rest(s) = <<>>
           /\ s.next = 0 => Rest(s) = s.order
           /\ s.next < Len(s.order) =>
                 /\ Rest(s) # <<>> /\ Head(Rest(s)) = s.order[s.next + 1]
                 /\ Tail(Rest(s)) = SubSeq(s.order, s.next + 2, Len(s.order))
<1>1. s.order \in Seq(Epochs) /\ s.next \in Nat /\ Len(s.order) \in Nat
  BY DEF IsState, State
<1>2. ASSUME s.order = <<>> PROVE Rest(s) = <<>>
  <2>1. Len(s.order) = 0 /\ s.next + 1 \in Int /\ 0 < s.next + 1
    BY <1>1, <1>2
  <2>2. SubSeq(s.order, s.next + 1, 0) = <<>>
    BY <2>1, SubSeqEmpty
  <2> QED BY <2>1, <2>2 DEF Rest
<1>3. ASSUME s.next = 0 PROVE Rest(s) = s.order
  BY <1>1, <1>3, SubSeqFull DEF Rest
<1>4. ASSUME s.next < Len(s.order)
      PROVE  /\ Rest(s) # <<>> /\ Head(Rest(s)) = s.order[s.next + 1]
             /\ Tail(Rest(s)) = SubSeq(s.order, s.next + 2, Len(s.order))
  <2>1. s.next + 1 \in 1 .. Len(s.order) /\ Len(s.order) \in s.next + 1 .. Len(s.order)
    BY <1>1, <1>4
  <2>2. Head(Rest(s)) = s.order[s.next + 1]
        /\ Tail(Rest(s)) = SubSeq(s.order, s.next + 1 + 1, Len(s.order))
    BY <1>1, <2>1, HeadTailOfSubSeq DEF Rest
  <2>3. \A i \in s.next + 1 .. Len(s.order) : s.order[i] \in Epochs
    BY <1>1
  <2>4. Len(Rest(s)) = Len(s.order) - (s.next + 1) + 1
    BY <1>1, <2>1, <2>3, SubSeqProperties DEF Rest
  <2>5. Rest(s) # <<>>
    BY <1>1, <1>4, <2>4
  <2>6. s.next + 1 + 1 = s.next + 2
    BY <1>1
  <2> QED BY <2>2, <2>5, <2>6
<1> QED BY <1>2, <1>3, <1>4

\* The end of a decode moves neither the order nor the consumer's place in it.
LEMMA FinishDecodeStutters ==
    ASSUME IInv, NEW w \in Workers, FinishDecode(w)
    PROVE  st'.order = st.order /\ st'.next = st.next /\ st'.prev = st.prev
<1> DEFINE k == worker[w].key
<1>1. k \in Keys /\ IsState(st) /\ Core(st) /\ st.running - 1 \in Int
  BY DEF FinishDecode, IInv, Typed, Decoders, IsState, State
<1>2. CASE Wanted(worker[w].gen, k)
  <2>1. PICK c \in Cell, sizes \in [Members -> Nat \cup {None}] :
          /\ MayBecome(st, k, c)
          /\ Admitted(Touched(st, k, c, st.running - 1, sizes), st')
    BY <1>2, Stored
  <2> DEFINE t == Touched(st, k, c, st.running - 1, sizes)
  <2> HIDE DEF k
  <2>2. IsState(t) /\ Core(t) /\ t.order = st.order /\ t.next = st.next /\ t.prev = st.prev
    BY <1>1, <2>1, CellStep
  <2>3. Admitted(t, st')
    BY <2>1
  <2> HIDE DEF t
  <2> QED BY <2>2, <2>3, AdmittedFacts
<1>3. CASE ~Wanted(worker[w].gen, k)
  BY <1>1, <1>3 DEF FinishDecode, IsState, State
<1> QED BY <1>2, <1>3

LEMMA TakeHeadPromised ==
    ASSUME IInv, HeadDone(st), TakeHead
    PROVE  Promise!Deliver \/ \E m \in Promise!Members : Promise!Fail(m)
<1> DEFINE i == st.next + 1
           failed == {m \in Members : st.cells[KeyAt(st, i, m)].status = "failed"}
<1>1. /\ IsState(st) /\ Core(st) /\ st.next < Len(st.order) /\ i \in 1 .. Len(st.order)
      /\ i <= st.admitted /\ st.next \in Nat
  BY DEF IInv, Typed, IsState, State, HeadDone
<1>2. /\ Rest(st) # <<>> /\ Head(Rest(st)) = st.order[i]
      /\ Tail(Rest(st)) = SubSeq(st.order, st.next + 2, Len(st.order))
  BY <1>1, RestFacts
<1>3. \A m \in Members : /\ KeyAt(st, i, m) \in KeysAt(st, i) /\ KeyAt(st, i, m) \in Keys
                         /\ KeyAt(st, i, m)[2] = Anchor[m][st.order[i]]
                         /\ KeyAt(st, i, m) = <<m, Anchor[m][st.order[i]]>>
  BY <1>1, KeysAtFacts DEF KeyAt
<1>4. CASE failed # {}
  <2>1. failed \subseteq Nat
    BY GroupAssumption DEF Members
  <2> DEFINE m == CHOOSE n \in failed : \A o \in failed : n <= o
  <2>2. m \in failed
    <3>1. \E n \in failed : \A o \in failed : n <= o
      BY <1>4, <2>1, LeastExists
    <3> QED BY <3>1
  <2>3. /\ st' = EndOrder(st, "failed")
        /\ out' = [kind |-> "error", epoch |-> st.order[i], member |-> m]
    BY <1>4 DEF TakeHead
  <2> HIDE DEF m
  <2>4. IsState(st') /\ st'.order = <<>> /\ st'.prev = Nobody
    BY <1>1, <2>3, EndOrderFacts DEF Phases
  <2>5. Rest(st') = <<>>
    BY <2>4, RestFacts
  <2>6. m \in Members /\ <<m, Anchor[m][st.order[i]]>> \in MayFail
    BY <1>1, <1>3, <2>2 DEF Core, DataOK
  <2>7. Promise!Fail(m)
    BY <1>2, <2>3, <2>4, <2>5, <2>6 DEF Promise!Fail, Promise!Nobody, Promise!Members,
       Rest, Nobody, Members
  <2> QED BY <2>6, <2>7 DEF Members, Promise!Members
<1>5. CASE failed = {}
  <2> DEFINE t == Release(st, i)
             at == [m \in Members |-> Anchor[m][st.order[i]]]
  <2>1. Admitted(t, st')
    BY <1>5 DEF TakeHead, Admit, Admitted
  <2>2. Leaves(st, i) /\ Core(t) /\ \A k \in KeysAt(st, i) : st.cells[k].status = "ready"
    BY <1>5, HeadIsReady
  <2>3. /\ IsState(t) /\ t.order = st.order /\ t.next = i
        /\ \A m \in Members : t.prev[m] = KeyAt(st, i, m)[2]
    BY <1>1, <2>2, ReleaseFacts
  <2> HIDE DEF t
  <2>4. IsState(st') /\ st'.order = st.order /\ st'.next = i /\ st'.prev = t.prev
    BY <2>1, <2>2, <2>3, AdmittedFacts
  <2>5. t.prev = at
    <3>1. t.prev \in [Members -> Anchors \cup {None}]
      BY <2>3 DEF IsState, State
    <3>2. \A m \in Members : t.prev[m] = at[m]
      BY <1>3, <2>3
    <3> HIDE DEF at
    <3>3. at = [m \in Members |-> at[m]]
      BY DEF at
    <3> QED BY <3>1, <3>2, <3>3
  <2>6. Rest(st') = Tail(Rest(st))
    <3>1. i + 1 = st.next + 2
      BY <1>1
    <3> HIDE DEF i
    <3>2. Rest(st') = SubSeq(st.order, i + 1, Len(st.order))
      BY <2>4 DEF Rest
    <3> QED BY <1>2, <3>1, <3>2
  <2>7. [m \in Members |-> st.cells[KeyAt(st, i, m)].data] = at
    BY <1>3, <2>2 DEF Core, DataOK, IInv
  <2>8. {m \in Members : st.prev[m] # KeyAt(st, i, m)[2]} = {m \in Members : at[m] # st.prev[m]}
    BY <1>3
  <2>9. out' = [kind |-> "sample", epoch |-> st.order[i], data |-> at,
                changed |-> {m \in Members : at[m] # st.prev[m]}]
    BY <1>5, <2>7, <2>8 DEF TakeHead
  <2>10. Promise!Deliver
    <3>1. at = [m \in Members |-> Anchor[m][Head(Rest(st))]]
      BY <1>2
    <3> HIDE DEF at
    <3> QED BY <1>2, <2>4, <2>5, <2>6, <2>9, <3>1
        DEF Promise!Deliver, Promise!Members, Rest, Members
  <2> QED BY <2>10
<1> QED BY <1>4, <1>5

LEMMA EndPromised ==
    ASSUME IInv, NEW phase \in Phases, out' = out,
           \/ st' = EndOrder(st, phase)
           \/ st' = [EndOrder(st, phase) EXCEPT !.shutdown = TRUE]
    PROVE  Promise!Stop
<1> DEFINE t == EndOrder(st, phase)
<1>1. IsState(t) /\ t.order = <<>> /\ t.prev = Nobody
  BY EndOrderFacts DEF IInv, Typed
<1> HIDE DEF t
<1>2. st'.order = <<>> /\ st'.prev = Nobody /\ st'.next = t.next
  BY <1>1 DEF t, IsState, State
<1>3. Rest(st') = <<>>
  BY <1>1, <1>2, RestFacts DEF Rest
<1> QED BY <1>2, <1>3 DEF Promise!Stop, Promise!Nobody, Promise!Members, Nobody, Members, Rest

LEMMA NextPromised == IInv /\ [Next]_vars => [Promise!Next]_(Promise!vars)
<1> SUFFICES ASSUME IInv, [Next]_vars PROVE [Promise!Next]_(Promise!vars)
  OBVIOUS
<1>1. ASSUME st'.order = st.order, st'.next = st.next, st'.prev = st.prev, out' = out
      PROVE  UNCHANGED Promise!vars
  BY <1>1 DEF Promise!vars
<1>2. IsState(st) /\ Core(st)
  BY DEF IInv, Typed
<1>3. ASSUME HeadDone(st), TakeHead PROVE Promise!Next
  BY <1>3, TakeHeadPromised DEF Promise!Next
<1>4. CASE Call
  <2>1. ASSUME NEW order \in Orders, Start(order) PROVE Promise!Next
    <3> DEFINE t == [EndOrder(st, "active") EXCEPT !.order = order]
    <3>1. IsState(t) /\ Core(t) /\ t.order = order /\ t.next = 0 /\ t.prev = Nobody
      BY <1>2, EndOrderCore DEF Phases
    <3>2. Admitted(t, st') /\ out' = out
      BY <2>1 DEF Start, Admit, Admitted
    <3> HIDE DEF t
    <3>3. IsState(st') /\ st'.order = order /\ st'.next = 0 /\ st'.prev = Nobody
      BY <3>1, <3>2, AdmittedFacts
    <3>4. Rest(st') = order
      BY <3>3, RestFacts
    <3>5. Promise!Start(order)
      BY <3>2, <3>3, <3>4 DEF Promise!Start, Promise!Nobody, Promise!Members, Nobody, Members,
         Rest
    <3> QED BY <3>5 DEF Promise!Next
  <2>2. CASE Take
    <3>1. CASE HeadDone(st)
      BY <1>3, <2>2, <3>1 DEF Take
    <3>2. CASE ~HeadDone(st)
      BY <1>1, <2>2, <3>2 DEF Take
    <3> QED BY <3>1, <3>2
  <2>3. ASSUME NEW wait \in BOOLEAN, Cancel(wait) PROVE Promise!Next
    BY <2>3, EndPromised DEF Cancel, Phases, Promise!Next
  <2>4. ASSUME Shutdown(EndOrder(st, "closed")) PROVE Promise!Next
    BY <2>4, EndPromised DEF Shutdown, Phases, Promise!Next
  <2>5. CASE Close
    <3>1. CASE st' = EndOrder(st, "closed") /\ out' = out
      BY <3>1, EndPromised DEF Phases, Promise!Next
    <3> QED BY <2>4, <2>5, <3>1 DEF Close
  <2>6. CASE Drop
    BY <2>4, <2>6 DEF Drop
  <2> QED BY <1>4, <2>1, <2>2, <2>3, <2>5, <2>6 DEF Call
<1>5. CASE Resume
  <2>1. CASE ResumeTake
    <3>1. CASE HeadDone(st)
      BY <1>3, <2>1, <3>1 DEF ResumeTake
    <3>2. CASE ~HeadDone(st)
      BY <1>1, <2>1, <3>2 DEF ResumeTake
    <3> QED BY <3>1, <3>2
  <2>2. ASSUME Shutdown(st) PROVE UNCHANGED Promise!vars
    BY <1>1, <1>2, <2>2 DEF Shutdown, IsState, State
  <2> QED BY <1>1, <1>5, <2>1, <2>2 DEF Resume, ResumeCancel, ResumeClose, Join
<1>6. ASSUME NEW w \in Workers, Run(w) PROVE UNCHANGED Promise!vars
  <2>1. CASE NextItem(w)
    BY <1>1, <1>2, <2>1 DEF NextItem, IsState, State
  <2>2. CASE FinishDecode(w)
    BY <1>1, <2>2, FinishDecodeStutters DEF FinishDecode
  <2> QED BY <1>6, <2>1, <2>2 DEF Run
<1>7. CASE WarmUp
  BY <1>1, <1>2, <1>7 DEF WarmUp, NextFile, FinishWarmUp, IsState, State
<1>8. CASE UNCHANGED vars
  BY <1>1, <1>8 DEF vars
<1> QED BY <1>4, <1>5, <1>6, <1>7, <1>8 DEF Next, Gone

\* What the group promises: as if each take decoded its epoch on the spot, in the declared
\* order, whatever the threads, the depth and the budget.
THEOREM DeliversInOrderAlways == Spec => DeliversInOrder
<1>1. Init => Promise!Init
  <2> SUFFICES ASSUME Init PROVE Promise!Init
    OBVIOUS
  <2>1. IsState(st) /\ st.order = <<>> /\ st.prev = Nobody /\ out = [kind |-> "nothing"]
    BY InitIInv DEF Init, IInv, Typed
  <2>2. Rest(st) = <<>>
    BY <2>1, RestFacts
  <2> QED BY <2>1, <2>2 DEF Promise!Init, Promise!Nobody, Promise!Members, Nobody, Members, Rest
<1>2. Spec => Promise!Spec
  BY <1>1, NextPromised, Invariance, PTL DEF Spec, Promise!Spec
<1> QED BY <1>2 DEF DeliversInOrder

-----------------------------------------------------------------------------
(* The budget, for members whose samples all have one size: the estimate   *)
(* that a queued sample is counted by is then its size.                    *)

UniformSizes == \A k, l \in Keys : k[1] = l[1] => Size[k] = Size[l]

SizesOK(s) ==
    \A k \in Keys : /\ s.lastSize[k[1]] \in {None, Size[k]}
                    /\ k \in Counted(s) => s.cells[k].bytes \in {None, Size[k]}

BudgetOK(s) ==
    MaxBytes # None => s.admitted <= s.next + 1 \/ Total(Size, Counted(s)) <= MaxBytes

LEMMA CountedFacts ==
    ASSUME NEW s
    PROVE  /\ IsFiniteSet(Counted(s)) /\ Counted(s) \subseteq Keys
           /\ \A k \in Counted(s) : Size[k] \in Nat
           /\ Total(Size, Counted(s)) \in Nat
<1>1. Counted(s) \subseteq Keys /\ \A k \in Keys : Size[k] \in Nat
  BY GroupAssumption DEF Counted
<1>2. IsFiniteSet(Counted(s))
  BY <1>1, KeysAreFinite, FS_Subset
<1> QED BY <1>1, <1>2, TotalStep

\* At known sizes, what the code adds up is the total.
LEMMA CommittedIsTotal ==
    ASSUME NEW s, SizesOK(s), \A k \in Counted(s) : s.cells[k].bytes # None
    PROVE  Committed(s) = Total(Size, Counted(s))
<1> DEFINE S == Counted(s)
           t == [T \in SUBSET S |-> Total(Size, T)]
           IsSum(g) == g = [T \in SUBSET S |->
                              IF T = {} THEN 0
                              ELSE s.cells[CHOOSE x \in T : TRUE].bytes
                                   + g[T \ {CHOOSE x \in T : TRUE}]]
<1>1. \A k \in S : s.cells[k].bytes = Size[k]
  BY DEF SizesOK, Counted
<1>2. Committed(s) = (CHOOSE g : IsSum(g))[S]
  BY DEF Committed, MapThenSumSet, MapThenFoldSet
<1>3. /\ Adds(t, Size, S)
      /\ \A g : Adds(g, Size, S) => g[S] = Total(Size, S)
  BY CountedFacts, SumIsTotal
<1>4. \A T \in SUBSET S : T # {} => (CHOOSE x \in T : TRUE) \in T
  OBVIOUS
<1>5. IsSum(t)
  <2>1. \A T \in SUBSET S : T # {} =>
           t[T] = s.cells[CHOOSE x \in T : TRUE].bytes + t[T \ {CHOOSE x \in T : TRUE}]
    <3> HIDE DEF t, S
    <3> QED BY <1>1, <1>3, <1>4 DEF Adds
  <2>2. t[{}] = 0
    BY <1>3 DEF Adds
  <2> QED BY <2>1, <2>2
<1>6. ASSUME NEW g, IsSum(g) PROVE Adds(g, Size, S)
  <2>1. ASSUME NEW T \in SUBSET S, T # {}
        PROVE  g[T] = Size[CHOOSE x \in T : TRUE] + g[T \ {CHOOSE x \in T : TRUE}]
    <3>1. g[T] = s.cells[CHOOSE x \in T : TRUE].bytes + g[T \ {CHOOSE x \in T : TRUE}]
      BY <1>6, <2>1
    <3> QED BY <1>1, <1>4, <2>1, <3>1
  <2>2. g[{}] = 0
    BY <1>6
  <2> QED BY <2>1, <2>2 DEF Adds
<1> DEFINE sum == CHOOSE g : IsSum(g)
<1>7. IsSum(sum)
  <2> HIDE DEF IsSum, t
  <2> QED BY <1>5
<1> HIDE DEF IsSum, sum
<1>8. Adds(sum, Size, S)
  BY <1>6, <1>7
<1> QED BY <1>2, <1>3, <1>8 DEF sum

\* Nothing enters the window.
LEMMA ShrinkingKeeps ==
    ASSUME NEW s, NEW t, IsState(s), IsState(t), BudgetOK(s),
           s.next <= t.next, t.admitted = s.admitted, Counted(t) \subseteq Counted(s)
    PROVE  BudgetOK(t)
<1>1. Total(Size, Counted(t)) <= Total(Size, Counted(s))
  BY CountedFacts, TotalOfLess
<1>2. Total(Size, Counted(t)) \in Nat /\ Total(Size, Counted(s)) \in Nat
  BY CountedFacts
<1>3. s.next \in Nat /\ t.next \in Nat /\ s.admitted \in Nat /\ MaxBytes \in Nat \cup {None}
  BY GroupAssumption DEF IsState, State
<1> QED BY <1>1, <1>2, <1>3 DEF BudgetOK

\* A slot behind the head that enters the window fits.
LEMMA AdmittedBudget ==
    ASSUME NEW s, NEW t, IsState(s), Core(s), SizesOK(s), BudgetOK(s), Admitted(s, t)
    PROVE  SizesOK(t) /\ BudgetOK(t)
<1>1. PICK n \in s.admitted .. Len(s.order) : Admits(s, n) /\ t = QueueWarmUp(AdmitTo(s, n))
  BY DEF Admitted
<1> DEFINE u == AdmitTo(s, n)
<1>2. /\ IsState(u) /\ Core(u) /\ u.next = s.next /\ u.admitted = n /\ u.lastSize = s.lastSize
  BY AdmitToFacts, AdmitToCore
<1>3. ASSUME NEW k \in Keys
      PROVE  /\ Uses(s, n, k) = {} => u.cells[k] = s.cells[k]
             /\ Uses(s, n, k) # {} =>
                   u.cells[k] = IF s.cells[k].status = "none" THEN NewCell(s, k, Uses(s, n, k))
                                ELSE [s.cells[k] EXCEPT !.slots = @ + Cardinality(Uses(s, n, k))]
  BY AdmitToFacts
<1>4. s.admitted \in Nat /\ n \in Nat /\ s.admitted <= n /\ s.next \in Nat
  BY DEF IsState, State
<1> HIDE DEF u
<1>5. SizesOK(u)
  <2> SUFFICES ASSUME NEW k \in Keys, k \in Counted(u)
               PROVE  u.cells[k].bytes \in {None, Size[k]}
    BY <1>2 DEF SizesOK
  <2>1. s.cells[k] \in Cell
    BY DEF IsState, State
  <2>2. CASE u.cells[k].status = "ready"
    BY <1>2, <2>2 DEF Core, DataOK
  <2>3. CASE Uses(s, n, k) = {}
    BY <1>3, <2>3 DEF SizesOK, Counted
  <2>4. CASE Uses(s, n, k) # {} /\ s.cells[k].status # "none"
    <3>1. u.cells[k].bytes = s.cells[k].bytes /\ u.cells[k].status = s.cells[k].status
      BY <1>3, <2>1, <2>4 DEF Cell
    <3> QED BY <3>1 DEF SizesOK, Counted
  <2>5. CASE Uses(s, n, k) # {} /\ s.cells[k].status = "none" /\ u.cells[k].status # "ready"
    <3>1. Uses(s, n, k) \subseteq Nat /\ Cardinality(Uses(s, n, k)) \in Nat
      BY <1>4, UsesAreFinite
    <3>2. u.cells[k] = NewCell(s, k, Uses(s, n, k))
      BY <1>3, <2>5
    <3>3. u.cells[k].bytes = s.lastSize[k[1]]
      BY <2>5, <3>1, <3>2, NewCellFacts
    <3> QED BY <3>3 DEF SizesOK
  <2> QED BY <2>2, <2>3, <2>4, <2>5
<1>6. BudgetOK(u)
  <2>1. CASE n = s.admitted
    <3>1. \A k \in Keys : Uses(s, n, k) = {}
      BY <1>4, <2>1 DEF Uses
    <3>2. Counted(u) = Counted(s)
      BY <1>3, <3>1 DEF Counted
    <3> QED BY <1>2, <1>4, <2>1, <3>2, ShrinkingKeeps
  <2>2. CASE n # s.admitted
    <3> SUFFICES ASSUME MaxBytes # None, n # s.next + 1
                 PROVE  Total(Size, Counted(u)) <= MaxBytes
      BY <1>2, <1>4 DEF BudgetOK
    <3>1. Fits(s, n)
      BY <1>1, <1>4, <2>2 DEF Admits
    <3>2. (\A k \in Counted(u) : u.cells[k].bytes # None) /\ Committed(u) <= MaxBytes
      BY <3>1 DEF Fits, u
    <3> QED BY <1>5, <3>2, CommittedIsTotal
  <2> QED BY <2>1, <2>2
<1>7. SameWindow(u, t)
  BY <1>1, <1>2, QueueWarmUpFacts DEF u
<1>8. Counted(t) = Counted(u)
  BY <1>7 DEF SameWindow, Counted
<1> QED BY <1>5, <1>6, <1>7, <1>8 DEF SameWindow, SizesOK, BudgetOK

BudgetInv == SizesOK(st) /\ BudgetOK(st)

\* Nothing enters the window, and the sizes stay what they were.
LEMMA UntouchedBudget ==
    ASSUME BudgetInv, IsState(st), IsState(st'), st.next <= st'.next,
           st'.admitted = st.admitted, st'.lastSize = st.lastSize,
           \A k \in Keys : k \in Counted(st') => k \in Counted(st)
                                                 /\ st'.cells[k].bytes = st.cells[k].bytes
    PROVE  BudgetInv'
<1>1. Counted(st') \subseteq Counted(st)
  BY DEF Counted
<1>2. BudgetOK(st')
  BY <1>1, ShrinkingKeeps DEF BudgetInv
<1>3. SizesOK(st')
  BY DEF BudgetInv, SizesOK
<1> QED BY <1>2, <1>3 DEF BudgetInv

LEMMA EmptyBudget ==
    ASSUME NEW s, SizesOK(st), IsState(s), s.lastSize = st.lastSize, s.admitted = 0,
           s.cells = [k \in Keys |-> NoCell]
    PROVE  SizesOK(s) /\ BudgetOK(s)
<1>1. \A k \in Keys : k \notin Counted(s)
  BY DEF Counted, NoCell
<1>2. s.next \in Nat
  BY DEF IsState, State
<1> QED BY <1>1, <1>2 DEF SizesOK, BudgetOK

LEMMA EndBudget ==
    ASSUME IInv, BudgetInv, NEW phase \in Phases,
           \/ st' = EndOrder(st, phase)
           \/ st' = [EndOrder(st, phase) EXCEPT !.shutdown = TRUE]
    PROVE  BudgetInv'
<1> DEFINE t == EndOrder(st, phase)
<1>1. IsState(t) /\ t.lastSize = st.lastSize /\ t.admitted = 0 /\ t.next = 0
      /\ t.cells = [k \in Keys |-> NoCell]
  BY EndOrderFacts DEF IInv, Typed
<1> HIDE DEF t
<1>2. /\ SizesOK(t) /\ BudgetOK(t)
  BY <1>1, EmptyBudget DEF BudgetInv
<1>3. /\ st'.lastSize = t.lastSize /\ st'.admitted = t.admitted /\ st'.cells = t.cells
      /\ st'.next = t.next
  BY <1>1 DEF t, IsState, State
<1>4. Counted(st') = Counted(t)
  BY <1>3 DEF Counted
<1> QED BY <1>2, <1>3, <1>4 DEF BudgetInv, SizesOK, BudgetOK

LEMMA StartBudget ==
    ASSUME IInv, BudgetInv, NEW order \in Orders, Start(order) PROVE BudgetInv'
<1> DEFINE t == [EndOrder(st, "active") EXCEPT !.order = order]
<1>1. /\ IsState(t) /\ Core(t) /\ t.lastSize = st.lastSize /\ t.admitted = 0
      /\ t.cells = [k \in Keys |-> NoCell]
  BY EndOrderCore DEF IInv, Typed, Phases
<1>2. Admitted(t, st')
  BY DEF Start, Admit, Admitted
<1> HIDE DEF t
<1>3. SizesOK(t) /\ BudgetOK(t)
  BY <1>1, EmptyBudget DEF BudgetInv
<1> QED BY <1>1, <1>2, <1>3, AdmittedBudget DEF BudgetInv

LEMMA TakeHeadBudget == ASSUME IInv, BudgetInv, HeadDone(st), TakeHead PROVE BudgetInv'
<1> DEFINE i == st.next + 1
           failed == {m \in Members : st.cells[KeyAt(st, i, m)].status = "failed"}
<1>1. CASE failed # {}
  BY <1>1, EndBudget DEF TakeHead, Phases
<1>2. CASE failed = {}
  <2> DEFINE t == Release(st, i)
  <2>1. Admitted(t, st')
    BY <1>2 DEF TakeHead, Admit, Admitted
  <2>2. Leaves(st, i) /\ Core(t) /\ IsState(st) /\ st.next \in Nat
    BY <1>2, HeadIsReady DEF IInv, Typed, IsState, State
  <2>3. IsState(t) /\ t.lastSize = st.lastSize /\ t.next = i /\ t.admitted = st.admitted
    BY <2>2, ReleaseFacts
  <2>4. ASSUME NEW k \in Keys
        PROVE  /\ k \notin KeysAt(st, i) => t.cells[k] = st.cells[k]
               /\ k \in KeysAt(st, i) /\ st.cells[k].slots = 1 => t.cells[k].status = "none"
               /\ k \in KeysAt(st, i) /\ st.cells[k].slots # 1 =>
                     /\ t.cells[k].status = st.cells[k].status
                     /\ t.cells[k].bytes = st.cells[k].bytes
    BY <2>2, ReleaseFacts
  <2>5. st.next <= i
    BY <2>2
  <2> HIDE DEF t, i
  <2>6. \A k \in Keys : k \in Counted(t) => k \in Counted(st)
                                            /\ t.cells[k].bytes = st.cells[k].bytes
    BY <2>4 DEF Counted
  <2>7. BudgetOK(t)
    <3>1. Counted(t) \subseteq Counted(st)
      BY <2>6 DEF Counted
    <3> QED BY <2>2, <2>3, <2>5, <3>1, ShrinkingKeeps DEF BudgetInv
  <2>8. SizesOK(t)
    BY <2>3, <2>6 DEF SizesOK, BudgetInv
  <2> QED BY <2>1, <2>2, <2>3, <2>7, <2>8, AdmittedBudget DEF BudgetInv
<1> QED BY <1>1, <1>2

LEMMA NextItemBudget ==
    ASSUME IInv, BudgetInv, NEW w \in Workers, NextItem(w) PROVE BudgetInv'
<1>1. CASE st' = st
  BY <1>1 DEF BudgetInv
<1>2. ASSUME NEW k \in Keys, Front(st, k),
             st' = [st EXCEPT !.cells[k].status = "running", !.running = @ + 1]
      PROVE  BudgetInv'
  <2>1. IsState(st) /\ IsState(st') /\ st \in State /\ st.next \in Nat
    BY NextItemKeeps DEF IInv, Typed, IsState, State
  <2>2. st.cells[k].status = "queued"
    BY <1>2 DEF Front, Queued
  <2>3. /\ st'.next = st.next /\ st'.admitted = st.admitted /\ st'.lastSize = st.lastSize
        /\ st'.cells[k].bytes = st.cells[k].bytes
        /\ \A l \in Keys : l # k => st'.cells[l] = st.cells[l]
    BY <1>2, <2>1 DEF State, Cell
  <2>4. \A l \in Keys : l \in Counted(st') => l \in Counted(st)
                                              /\ st'.cells[l].bytes = st.cells[l].bytes
    BY <2>2, <2>3 DEF Counted
  <2> QED BY <2>1, <2>3, <2>4, UntouchedBudget
<1> QED BY <1>1, <1>2 DEF NextItem

LEMMA FinishDecodeBudget ==
    ASSUME UniformSizes, IInv, BudgetInv, NEW w \in Workers, FinishDecode(w) PROVE BudgetInv'
<1> DEFINE k == worker[w].key
<1>1. /\ IsState(st) /\ Core(st) /\ st \in State /\ k \in Keys /\ st.running \in Int
      /\ st.next \in Nat /\ IsState(st')
  BY FinishDecodeKeeps DEF FinishDecode, IInv, Typed, IsState, State, Decoders
<1>2. CASE Wanted(worker[w].gen, k)
  <2>1. st.cells[k].status = "running"
    BY <1>2, <1>1 DEF Wanted, FinishDecode, IInv, DecodeInv, Decoders
  <2>2. PICK c \in Cell, sizes \in [Members -> Nat \cup {None}] :
          /\ MayBecome(st, k, c) /\ c.status \in {"ready", "failed"}
          /\ \A m \in Members : sizes[m] # st.lastSize[m] => m = k[1] /\ sizes[m] = Size[k]
          /\ Admitted(Touched(st, k, c, st.running - 1, sizes), st')
    BY <1>2, Stored
  <2> DEFINE t == Touched(st, k, c, st.running - 1, sizes)
  <2>3. /\ IsState(t) /\ Core(t) /\ t.next = st.next /\ t.admitted = st.admitted
        /\ t.lastSize = sizes /\ t.cells[k] = c
        /\ \A l \in Keys : l # k => t.cells[l] = st.cells[l]
    <3>1. st.running - 1 \in Int
      BY <1>1
    <3> HIDE DEF k
    <3> QED BY <1>1, <2>2, <3>1, CellStep
  <2> HIDE DEF t, k
  <2>4. \A l \in Keys : sizes[l[1]] \in {None, Size[l]}
    <3>1. \A l \in Keys : l[1] \in Members
      BY KeyFacts
    <3> QED BY <1>1, <2>2, <3>1 DEF UniformSizes, BudgetInv, SizesOK
  <2>5. SizesOK(t)
    BY <1>1, <2>2, <2>3, <2>4 DEF SizesOK, BudgetInv, Counted, MayBecome
  <2>6. Counted(t) \subseteq Counted(st)
    BY <2>1, <2>3 DEF Counted
  <2>7. BudgetOK(t)
    BY <1>1, <2>3, <2>6, ShrinkingKeeps DEF BudgetInv
  <2> QED BY <2>2, <2>3, <2>5, <2>7, AdmittedBudget DEF BudgetInv, t
<1>3. CASE ~Wanted(worker[w].gen, k)
  <2>1. st' = [st EXCEPT !.running = st.running - 1]
    BY <1>3 DEF FinishDecode
  <2>2. /\ st'.next = st.next /\ st'.admitted = st.admitted /\ st'.lastSize = st.lastSize
        /\ st'.cells = st.cells
    BY <1>1, <2>1 DEF State
  <2>3. Counted(st') = Counted(st)
    BY <2>2 DEF Counted
  <2> QED BY <1>1, <2>2, <2>3, UntouchedBudget
<1> QED BY <1>2, <1>3

LEMMA NextBudget == UniformSizes /\ IInv /\ BudgetInv /\ [Next]_vars => BudgetInv'
<1> SUFFICES ASSUME UniformSizes, IInv, BudgetInv, [Next]_vars PROVE BudgetInv'
  OBVIOUS
<1>1. ASSUME st'.next = st.next, st'.admitted = st.admitted, st'.lastSize = st.lastSize,
             st'.cells = st.cells
      PROVE  BudgetInv'
  <2>1. Counted(st') = Counted(st)
    BY <1>1 DEF Counted
  <2> QED BY <1>1, <2>1 DEF BudgetInv, SizesOK, BudgetOK
<1>2. st \in State
  BY DEF IInv, Typed, IsState
<1>3. CASE Call
  <2>1. ASSUME NEW order \in Orders, Start(order) PROVE BudgetInv'
    BY <2>1, StartBudget
  <2>2. CASE Take
    BY <1>1, <2>2, TakeHeadBudget DEF Take
  <2>3. ASSUME NEW wait \in BOOLEAN, Cancel(wait) PROVE BudgetInv'
    BY <2>3, EndBudget DEF Cancel, Phases
  <2>4. CASE Close
    BY <2>4, EndBudget DEF Close, Shutdown, Phases
  <2>5. CASE Drop
    BY <2>5, EndBudget DEF Drop, Shutdown, Phases
  <2> QED BY <1>3, <2>1, <2>2, <2>3, <2>4, <2>5 DEF Call
<1>4. CASE Resume
  <2>1. CASE ResumeTake
    BY <1>1, <2>1, TakeHeadBudget DEF ResumeTake
  <2>2. ASSUME Shutdown(st) PROVE BudgetInv'
    BY <1>1, <1>2, <2>2 DEF Shutdown, State
  <2> QED BY <1>1, <1>4, <2>1, <2>2 DEF Resume, ResumeCancel, ResumeClose, Join
<1>5. ASSUME NEW w \in Workers, Run(w) PROVE BudgetInv'
  BY <1>5, NextItemBudget, FinishDecodeBudget DEF Run
<1>6. CASE WarmUp
  BY <1>1, <1>2, <1>6 DEF WarmUp, NextFile, FinishWarmUp, State
<1>7. CASE UNCHANGED vars
  BY <1>1, <1>7 DEF vars
<1> QED BY <1>3, <1>4, <1>5, <1>6, <1>7 DEF Next, Gone

LEMMA BudgetFollows == IInv /\ BudgetInv => BudgetIsKept
<1> SUFFICES ASSUME IInv, BudgetInv PROVE BudgetIsKept
  OBVIOUS
<1> DEFINE f == [k \in Keys |-> BytesOf(k)]
           t == [T \in SUBSET Keys |-> Total(f, T)]
           IsSum(g) == g = [T \in SUBSET Keys |->
                              IF T = {} THEN 0
                              ELSE BytesOf(CHOOSE x \in T : TRUE)
                                   + g[T \ {CHOOSE x \in T : TRUE}]]
           sum == CHOOSE g : IsSum(g)
<1>1. \A k \in Keys : f[k] \in Nat /\ f[k] = BytesOf(k)
  BY GroupAssumption DEF BytesOf
<1>2. MapThenSumSet(BytesOf, Keys) = sum[Keys]
  BY DEF MapThenSumSet, MapThenFoldSet
<1>3. \A T \in SUBSET Keys : T # {} => (CHOOSE x \in T : TRUE) \in T
  OBVIOUS
<1> HIDE DEF f
<1>4. /\ Adds(t, f, Keys)
      /\ \A g : Adds(g, f, Keys) => g[Keys] = Total(f, Keys)
  BY <1>1, KeysAreFinite, SumIsTotal
<1>5. IsSum(t)
  <2>1. \A T \in SUBSET Keys : T # {} =>
           t[T] = BytesOf(CHOOSE x \in T : TRUE) + t[T \ {CHOOSE x \in T : TRUE}]
    <3> HIDE DEF t
    <3> QED BY <1>1, <1>3, <1>4 DEF Adds
  <2>2. t[{}] = 0
    BY <1>4 DEF Adds
  <2> QED BY <2>1, <2>2
<1>6. ASSUME NEW g, IsSum(g) PROVE Adds(g, f, Keys)
  <2>1. ASSUME NEW T \in SUBSET Keys, T # {}
        PROVE  g[T] = f[CHOOSE x \in T : TRUE] + g[T \ {CHOOSE x \in T : TRUE}]
    <3>1. g[T] = BytesOf(CHOOSE x \in T : TRUE) + g[T \ {CHOOSE x \in T : TRUE}]
      BY <1>6, <2>1
    <3> QED BY <1>1, <1>3, <2>1, <3>1
  <2>2. g[{}] = 0
    BY <1>6
  <2> QED BY <2>1, <2>2 DEF Adds
<1>7. IsSum(sum)
  <2> HIDE DEF IsSum, t
  <2> QED BY <1>5
<1>8. sum[Keys] = Total(f, Keys)
  <2> HIDE DEF IsSum, sum, t
  <2> QED BY <1>4, <1>6, <1>7
<1>9. Total(f, Keys) = Total(Size, Counted(st))
  <2>1. Units(f, Keys) = Units(Size, Counted(st))
    <3>1. \A k \in Keys : k \in Counted(st) => f[k] = Size[k]
      BY <1>1 DEF BytesOf, Counted
    <3>2. \A k \in Keys : k \notin Counted(st) => f[k] = 0
      BY <1>1 DEF BytesOf, Counted, IInv, Typed, IsState, State, Cell
    <3> QED BY <3>1, <3>2, CountedFacts DEF Units
  <2> QED BY <2>1 DEF Total
<1> HIDE DEF sum, t, IsSum
<1> QED BY <1>2, <1>8, <1>9 DEF BudgetInv, BudgetOK, BudgetIsKept

\* The window holds what it should: its head whatever the budget, its samples exactly while
\* live slots use them, and no more bytes than max_bytes unless the head is alone.
THEOREM WindowIsAccountedAlways == ASSUME UniformSizes PROVE Spec => []WindowIsAccounted
<1>1. Init => BudgetInv
  <2> SUFFICES ASSUME Init PROVE BudgetInv
    OBVIOUS
  <2>1. /\ st.cells = [k \in Keys |-> NoCell] /\ st.admitted = 0 /\ st.next = 0
        /\ st.lastSize = Nobody
    BY DEF Init
  <2>2. \A k \in Keys : k \notin Counted(st) /\ st.lastSize[k[1]] = None
    BY <2>1, KeyFacts DEF Counted, NoCell, Nobody
  <2> QED BY <2>1, <2>2 DEF BudgetInv, SizesOK, BudgetOK
<1>2. IInv /\ BudgetInv /\ [Next]_vars => BudgetInv'
  BY NextBudget
<1>3. IInv /\ BudgetInv => WindowIsAccounted
  BY CountedFollows, BudgetFollows DEF WindowIsAccounted
<1> QED BY <1>1, <1>2, <1>3, Invariance, PTL DEF Spec

=============================================================================
