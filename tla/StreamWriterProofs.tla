------------------------ MODULE StreamWriterProofs ------------------------
(* What StreamWriter keeps, proved for any team, any number of records,    *)
(* shard length and statics, and any number of writes, faults, commits,    *)
(* invalidations and preemptions, as long as callers keep to the protocol  *)
(* (Habits = {}; the run early_question shows what happens otherwise).     *)
EXTENDS StreamWriter, FiniteSetTheorems, TLAPS

Cell   == Value \cup {Fill}
Handle ==
    [up : BOOLEAN, view : SUBSET Item, next : Nat, reload : BOOLEAN,
     buf : [Rec -> Cell], open : SUBSET Shards, slots : SUBSET Rec,
     dirty : SUBSET Shards, flushed : SUBSET Shards,
     pending : SUBSET Item, tokened : SUBSET Item]

Committing == commit.phase \in {"shapes", "manifest"}

Typed ==
    /\ mode \in Modes
    /\ disk \in [Team -> [Item -> Cell]] /\ last \in [Team -> [Item -> Cell]]
    /\ shape \in Nat
    /\ manifest \in SUBSET Item
    /\ h \in [Team -> Handle]
    /\ tokens \in SUBSET Token
    /\ commit \in [phase : {"idle", "cut", "shapes", "manifest"}, items : SUBSET Item,
                   used : SUBSET Token, closing : BOOLEAN]

-----------------------------------------------------------------------------
(* The inductive invariants, each about another hazard of the protocol.    *)

Prefix(X) == X = 0 .. Cardinality(X) - 1

\* What the handles know. The owner's view is the manifest, because only it commits. A
\* contributor counts every committed item, by its view or because it has tokened it.
Knows(w) ==
    h[w].up =>
        IF w = Owner THEN h[w].view = manifest
        ELSE manifest \subseteq h[w].view \cup h[w].tokened /\ Sent(w) \subseteq h[w].tokened

\* While the owner commits, every writer has sent the items, or it is the owner's own
\* token that went straight in. Nothing is open during a cut.
CommitInv ==
    /\ Committing =>
          /\ h[Owner].up
          /\ commit.items \cap manifest = {}
          /\ \A t \in commit.used : t.items = commit.items
          /\ commit.used \subseteq tokens \cup {OwnToken(Owner)}
          /\ \A w \in Team : \E t \in commit.used : t.from = w
          /\ ~mode.indexed => Prefix(Recs(manifest \cup commit.items))
    /\ commit.phase = "cut" =>
          /\ ~mode.indexed /\ tokens = {} /\ \A w \in Team : ~h[w].up
          /\ commit.items = {x \in manifest : x \in Rec => x < shape}

\* Append mode: the committed records are a prefix, and each writer's next record follows
\* what it has given.
PrefixInv == (~mode.indexed => Prefix(Recs(manifest))) /\ TokensContinuePrefix

\* What w has given, or is about to.
Given(w) == manifest \cup Sent(w) \cup h[w].pending

\* What is given is on disk as last accepted, or waits in a dirty shard.
OnDisk(w) ==
    /\ \A x \in manifest \cup Sent(w) : last[w][x] \in Value /\ disk[w][x] = last[w][x]
    /\ \A x \in h[w].pending :
          last[w][x] \in Value /\ (disk[w][x] = last[w][x] \/ (x \in Rec /\ Shard(x) \in h[w].dirty))

\* The buffer of an open shard holds whatever is given of it, so that writing the shard
\* again loses nothing. A shard that is not open is read back if anything is given of it.
Buffered(w) ==
    /\ h[w].dirty \subseteq h[w].open
    /\ \A x \in Rec \cap Given(w) : Shard(x) \in h[w].open => h[w].buf[x] = last[w][x]
    /\ mode.indexed => \A x \in Rec \cap Given(w) :
          Shard(x) \in h[w].open \/ h[w].reload \/ Shard(x) \in h[w].flushed
    /\ ~mode.indexed =>
          /\ h[w].slots \subseteq 0 .. h[w].next - 1
          /\ \A x \in Rec : x < h[w].next /\ Shard(x) = Shard(h[w].next) => Shard(x) \in h[w].open

\* The owner's own token, which is not on its way, is on disk too.
OwnIsOnDisk ==
    Committing => \A x \in commit.items :
        last[Owner][x] \in Value /\ disk[Owner][x] = last[Owner][x]

Safe(w) == OnDisk(w) /\ IF h[w].up THEN Buffered(w) ELSE h[w].dirty = {}

StoreInv == OwnIsOnDisk /\ \A w \in Team : Safe(w)

\* Shapes come before the manifest.
ShapeInv ==
    ~mode.indexed /\ commit.phase = "manifest" /\ Recs(commit.items) # {} =>
        Cardinality(Recs(manifest \cup commit.items)) <= shape

-----------------------------------------------------------------------------
(* Records, shards and counts.                                             *)

\* Division in the naturals.
LEMMA Division ==
    ASSUME NEW i \in Nat, NEW d \in Nat, d > 0
    PROVE  i \div d \in Nat /\ (i \div d) * d <= i /\ i < (i \div d) * d + d
<1>1. i = d * (i \div d) + (i % d) /\ i % d \in 0 .. d - 1 /\ i \div d \in Nat
  BY SMT
<1>2. d * (i \div d) = (i \div d) * d
  BY <1>1, SMT
<1> QED BY <1>1, <1>2

LEMMA Scaling ==
    ASSUME NEW a \in Nat, NEW b \in Nat, NEW d \in Nat, a <= b
    PROVE  a * d <= b * d
BY SMT

LEMMA Times ==
    ASSUME NEW a \in Nat, NEW b \in Nat, NEW d \in Nat, a + 1 <= b
    PROVE  a * d + d <= b * d
<1>1. (a + 1) * d <= b * d
  BY Scaling
<1>2. (a + 1) * d = a * d + d
  BY SMT
<1> QED BY <1>1, <1>2

LEMMA Sizes == NumRecords \in Nat /\ ShardLen \in Nat /\ ShardLen > 0
<1>1. NumRecords \in Nat /\ ShardLen \in Nat \ {0}
  BY WriterAssumption, Zenon
<1> QED BY <1>1

\* A shard holds ShardLen records in a row.
LEMMA ShardBounds ==
    ASSUME NEW i \in Nat
    PROVE  Shard(i) \in Nat /\ Shard(i) * ShardLen <= i /\ i < Shard(i) * ShardLen + ShardLen
<1>1. ShardLen \in Nat /\ ShardLen > 0
  BY Sizes
<1> QED BY <1>1, Division DEF Shard

\* A later record is in the same shard or in a later one.
LEMMA ShardMonotone ==
    ASSUME NEW i \in Nat, NEW j \in Nat, i <= j
    PROVE  Shard(i) <= Shard(j)
<1>1. ShardLen \in Nat /\ Shard(i) \in Nat /\ Shard(j) \in Nat
  BY ShardBounds, Sizes
<1> DEFINE a == Shard(i) * ShardLen
           b == Shard(j) * ShardLen
<1>2. a \in Nat /\ b \in Nat /\ a <= i /\ j < b + ShardLen
  BY <1>1, ShardBounds
<1>3. Shard(j) + 1 <= Shard(i) => b + ShardLen <= a
  BY <1>1, Times
<1> HIDE DEF a, b
<1> QED BY <1>1, <1>2, <1>3

\* After the last record of a shard comes one of a later shard.
LEMMA ShardEnds ==
    ASSUME NEW i \in Nat, NEW s \in Nat, (s + 1) * ShardLen - 1 <= i
    PROVE  Shard(i + 1) # s
<1>1. ShardLen \in Nat /\ (s + 1) * ShardLen = s * ShardLen + ShardLen
  BY Sizes
<1>2. SUFFICES ASSUME Shard(i + 1) = s PROVE FALSE
  OBVIOUS
<1> DEFINE a == s * ShardLen
           b == (s + 1) * ShardLen
<1>3. i + 1 < a + ShardLen /\ a \in Nat /\ b = a + ShardLen
  BY <1>1, <1>2, ShardBounds
<1>4. b - 1 <= i
  OBVIOUS
<1> HIDE DEF a, b
<1> QED BY <1>1, <1>3, <1>4

\* Sets of records are finite, and a prefix of them is known by its length.
LEMMA RecordsAreFinite ==
    ASSUME NEW X
    PROVE  Recs(X) \subseteq Rec /\ IsFiniteSet(Recs(X)) /\ Cardinality(Recs(X)) \in Nat
<1>1. IsFiniteSet(Rec)
  <2>1. 0 \in Int /\ NumRecords - 1 \in Int
    BY Sizes
  <2> QED BY <2>1, FS_Interval DEF Rec
<1>2. Recs(X) \subseteq Rec
  BY DEF Recs
<1> QED BY <1>1, <1>2, FS_Subset, FS_CardinalityType

LEMMA Intervals ==
    ASSUME NEW n \in Nat, NEW k \in Nat
    PROVE  /\ (0 .. n - 1) \cup (n .. n + k - 1) = 0 .. (n + k) - 1
           /\ (0 .. n - 1) \cup {n} = 0 .. (n + 1) - 1
OBVIOUS

LEMMA PrefixLength ==
    ASSUME NEW n \in Nat
    PROVE  IsFiniteSet(0 .. n - 1) /\ Cardinality(0 .. n - 1) = n
BY FS_Interval


-----------------------------------------------------------------------------
(* Types.                                                                  *)

LEMMA ModeFacts ==
    ASSUME Typed
    PROVE  /\ Owner \in Team /\ mode.statics \subseteq Statics /\ Rec \cap Statics = {}
           /\ Emit \in [Rec -> Value] /\ Rec \subseteq Nat /\ Fill \notin Value
           /\ Fill \notin [Team -> Value]
<1>1. mode \in Modes
  BY DEF Typed
<1>2. /\ 0 \in mode.team /\ mode.statics \subseteq Statics /\ Rec \cap Statics = {}
      /\ Emit \in [Rec -> Value] /\ Fill \notin Value /\ Fill \notin [mode.team -> Value]
  BY <1>1, WriterAssumption, Zenon
<1>3. Rec \subseteq Nat
  BY Sizes DEF Rec
<1> QED BY <1>2, <1>3 DEF Team, Owner

LEMMA NoHandleTyped == NoHandle \in Handle
BY DEF NoHandle, Handle, Cell

\* A fresh handle, field by field.
LEMMA OpenedFacts ==
    ASSUME Typed, NEW w \in Team, NEW seen \in SUBSET Item
    PROVE  LET o == Opened(w, seen)
               n == Cardinality(Recs(seen)) IN
           /\ o \in Handle
           /\ o.up /\ o.view = seen /\ o.reload
           /\ o.dirty = {} /\ o.flushed = {} /\ o.pending = {} /\ o.tokened = {}
           /\ mode.indexed => o.next = 0 /\ o.open = {} /\ o.slots = {}
           /\ ~mode.indexed =>
                 /\ o.next = n /\ n \in Nat /\ o.slots = OpenSlots(n)
                 /\ o.open = {Shard(i) : i \in OpenSlots(n)}
                 /\ \A x \in OpenSlots(n) : o.buf[x] = disk[w][x]
<1> DEFINE n == Cardinality(Recs(seen))
           part == IF mode.indexed THEN {} ELSE OpenSlots(n)
           next == IF mode.indexed THEN 0 ELSE n
           open == {Shard(i) : i \in part}
           buf == [i \in Rec |-> IF i \in part THEN disk[w][i] ELSE Fill]
           o == Opened(w, seen)
<1>1. n \in Nat
  BY RecordsAreFinite
<1>2. part \subseteq Rec /\ open \subseteq Shards
  BY DEF OpenSlots, Shards
<1>3. buf \in [Rec -> Cell]
  BY DEF Typed, Item, Cell
<1>4. o = [up |-> TRUE, view |-> seen, next |-> next, reload |-> TRUE, buf |-> buf,
           open |-> open, slots |-> part,
           dirty |-> {}, flushed |-> {}, pending |-> {}, tokened |-> {}]
  <2>1. o = [NoHandle EXCEPT !.up = TRUE, !.view = seen, !.next = next, !.reload = TRUE,
                             !.open = open, !.slots = part, !.buf = buf]
    BY DEF Opened
  <2> HIDE DEF o, next, open, part, buf
  <2> QED BY <2>1 DEF NoHandle
<1> HIDE DEF n, o
<1>5. o \in Handle
  BY <1>1, <1>2, <1>3, <1>4 DEF Handle
<1>6. /\ o.up /\ o.view = seen /\ o.reload
      /\ o.dirty = {} /\ o.flushed = {} /\ o.pending = {} /\ o.tokened = {}
      /\ mode.indexed => o.next = 0 /\ o.open = {} /\ o.slots = {}
  BY <1>4
<1>7. ~mode.indexed =>
         /\ o.next = n /\ o.slots = OpenSlots(n) /\ o.open = {Shard(i) : i \in OpenSlots(n)}
         /\ \A x \in OpenSlots(n) : o.buf[x] = disk[w][x]
  BY <1>2, <1>4
<1> QED BY <1>1, <1>5, <1>6, <1>7 DEF n, o

\* The handle after a record is placed in its buffer.
LEMMA PlacedFacts ==
    ASSUME Typed, NEW w \in Team, NEW me \in Handle, NEW i \in Rec, NEW v \in Value
    PROVE  LET p == Placed(me, w, i, v) IN
           /\ p \in Handle
           /\ p.up = me.up /\ p.view = me.view /\ p.next = me.next /\ p.reload = me.reload
           /\ p.dirty = me.dirty /\ p.flushed = me.flushed /\ p.tokened = me.tokened
           /\ p.pending = me.pending \cup {i} /\ p.slots = me.slots \cup {i}
           /\ p.open = me.open \cup {Shard(i)}
           /\ p.buf[i] = v
           /\ \A x \in Rec \ {i} :
                 /\ Shard(x) = Shard(i) /\ Shard(i) \notin me.open /\ mode.indexed
                    /\ (me.reload \/ Shard(i) \in me.flushed) => p.buf[x] = disk[w][x]
                 /\ Shard(x) # Shard(i) \/ Shard(i) \in me.open => p.buf[x] = me.buf[x]
<1> DEFINE s == Shard(i)
           o == WithOpen(me, w, s)
           p == Placed(me, w, i, v)
           buf == IF s \in me.open THEN me.buf
                  ELSE [x \in Rec |->
                          IF Shard(x) # s THEN me.buf[x]
                          ELSE IF mode.indexed /\ (me.reload \/ s \in me.flushed) THEN disk[w][x] ELSE Fill]
<1>1. o = [me EXCEPT !.open = @ \cup {s}, !.buf = buf]
  BY DEF WithOpen, Handle
<1>2. p = [me EXCEPT !.open = @ \cup {s}, !.buf = [buf EXCEPT ![i] = v],
                     !.slots = @ \cup {i}, !.pending = @ \cup {i}]
  BY <1>1 DEF Placed, Handle
<1>3. buf \in [Rec -> Cell]
  BY DEF Handle, Typed, Cell, Item
<1>4. s \in Shards /\ i \in Item
  BY DEF Shards, Item
<1> HIDE DEF p
<1>5. p \in Handle
  BY <1>2, <1>3, <1>4 DEF Handle, Cell
<1>6. p.buf = [buf EXCEPT ![i] = v]
  BY <1>2, <1>5 DEF Handle
<1>7. /\ p.up = me.up /\ p.view = me.view /\ p.next = me.next /\ p.reload = me.reload
      /\ p.dirty = me.dirty /\ p.flushed = me.flushed /\ p.tokened = me.tokened
      /\ p.pending = me.pending \cup {i} /\ p.slots = me.slots \cup {i}
      /\ p.open = me.open \cup {s}
  BY <1>2 DEF Handle
<1>8. p.buf[i] = v /\ \A x \in Rec \ {i} : p.buf[x] = buf[x]
  BY <1>3, <1>6
<1> QED BY <1>5, <1>7, <1>8 DEF p

\* The handle after its complete shard is closed.
LEMMA ClosedFacts ==
    ASSUME NEW me \in Handle, NEW s
    PROVE  LET c == Closed(me, s) IN
           /\ c.up = me.up /\ c.view = me.view /\ c.next = me.next /\ c.reload = me.reload
           /\ c.pending = me.pending /\ c.tokened = me.tokened
           /\ c.open = me.open \ {s} /\ c.dirty = me.dirty \ {s} /\ c.flushed = me.flushed \cup {s}
           /\ c.slots = me.slots \ Slots(s)
           /\ \A x \in Rec : Shard(x) # s => c.buf[x] = me.buf[x]
           /\ s \in Shards => c \in Handle
<1> DEFINE c == Closed(me, s)
           buf == [i \in Rec |-> IF Shard(i) = s THEN Fill ELSE me.buf[i]]
<1>1. c = [me EXCEPT !.open = @ \ {s}, !.dirty = @ \ {s}, !.flushed = @ \cup {s},
                     !.slots = @ \ Slots(s), !.buf = buf]
  BY DEF Closed
<1>2. buf \in [Rec -> Cell]
  BY DEF Handle, Cell
<1> HIDE DEF c, buf
<1>3. /\ c.up = me.up /\ c.view = me.view /\ c.next = me.next /\ c.reload = me.reload
      /\ c.pending = me.pending /\ c.tokened = me.tokened
      /\ c.open = me.open \ {s} /\ c.dirty = me.dirty \ {s} /\ c.flushed = me.flushed \cup {s}
      /\ c.slots = me.slots \ Slots(s) /\ c.buf = buf
  BY <1>1 DEF Handle
<1>4. s \in Shards => c \in Handle
  BY <1>1, <1>2 DEF Handle
<1>5. \A x \in Rec : Shard(x) # s => buf[x] = me.buf[x]
  BY DEF buf
<1> QED BY <1>3, <1>4, <1>5 DEF c

\* The handle after it has perhaps read the manifest again.
LEMMA RefreshedFacts ==
    ASSUME Typed, NEW w \in Team, NEW x \in Item
    PROVE  LET r == Refreshed(w, x) IN
           /\ r \in Handle
           /\ r.up = h[w].up /\ r.next = h[w].next /\ r.reload = h[w].reload /\ r.buf = h[w].buf
           /\ r.open = h[w].open /\ r.slots = h[w].slots /\ r.dirty = h[w].dirty
           /\ r.flushed = h[w].flushed /\ r.pending = h[w].pending
           /\ IF w # Owner /\ Suspects(w, x) THEN r.view = manifest /\ r.tokened = {}
              ELSE r.view = h[w].view /\ r.tokened = h[w].tokened
<1>1. h[w] \in Handle /\ manifest \in SUBSET Item
  BY DEF Typed
<1> QED BY <1>1 DEF Refreshed, Handle

\* Writing shards of w changes what its region of their records holds, and nothing else.
LEMMA WrittenFacts ==
    ASSUME Typed, NEW w \in Team, NEW ss, NEW buf \in [Rec -> Cell]
    PROVE  LET d == Written(w, ss, buf) IN
           /\ d \in [Team -> [Item -> Cell]]
           /\ \A u \in Team \ {w} : d[u] = disk[u]
           /\ \A x \in Item : d[w][x] = IF x \in Rec /\ Shard(x) \in ss THEN buf[x] ELSE disk[w][x]
<1> DEFINE row == [x \in Item |-> IF x \in Rec /\ Shard(x) \in ss THEN buf[x] ELSE disk[w][x]]
<1>1. row \in [Item -> Cell]
  BY DEF Typed, Item
<1>2. Written(w, ss, buf) = [disk EXCEPT ![w] = row]
  BY DEF Written
<1> HIDE DEF row
<1>3. /\ [disk EXCEPT ![w] = row] \in [Team -> [Item -> Cell]]
      /\ \A u \in Team \ {w} : [disk EXCEPT ![w] = row][u] = disk[u]
      /\ [disk EXCEPT ![w] = row][w] = row
  BY <1>1 DEF Typed
<1> QED BY <1>2, <1>3 DEF row

\* What the end of the job leaves.
LEMMA AbortFacts ==
    ASSUME Typed, Abort
    PROVE  /\ h' \in [Team -> Handle] /\ last' \in [Team -> [Item -> Cell]]
           /\ tokens' = {} /\ commit' = NoCommit
           /\ \A w \in Team : h'[w] = NoHandle
           /\ \A w \in Team, x \in manifest : last'[w][x] = last[w][x]
<1>1. h' = [w \in Team |-> NoHandle] /\ tokens' = {} /\ commit' = NoCommit
      /\ last' = [w \in Team |-> [x \in Item |-> IF x \in manifest THEN last[w][x] ELSE Fill]]
  BY DEF Abort
<1> QED BY <1>1, NoHandleTyped DEF Typed, Cell

LEMMA CommitTyped ==
    /\ NoCommit.phase = "idle"
    /\ NoCommit \in [phase : {"idle", "cut", "shapes", "manifest"}, items : SUBSET Item,
                     used : SUBSET Token, closing : BOOLEAN]
BY DEF NoCommit

\* A token of w.
LEMMA OwnTokenFacts ==
    ASSUME Typed, NEW w \in Team
    PROVE  OwnToken(w) \in Token /\ OwnToken(w).from = w /\ OwnToken(w).items = h[w].pending
BY DEF Typed, Handle, Token, OwnToken

\* The initial state has its types.
LEMMA InitTyped == Init => Typed
<1> SUFFICES ASSUME Init PROVE Typed
  OBVIOUS
<1>1. /\ mode \in Modes /\ shape = 0 /\ manifest = {} /\ tokens = {} /\ commit = NoCommit
      /\ disk = [w \in Team |-> [x \in Item |-> Fill]] /\ last = disk
      /\ h = [w \in Team |-> IF w = Owner THEN [NoHandle EXCEPT !.up = TRUE] ELSE NoHandle]
  BY DEF Init
<1>2. [NoHandle EXCEPT !.up = TRUE] \in Handle
  BY NoHandleTyped DEF Handle
<1>3. h \in [Team -> Handle]
  BY <1>1, <1>2, NoHandleTyped
<1>4. disk \in [Team -> [Item -> Cell]]
  BY <1>1 DEF Cell
<1> QED BY <1>1, <1>3, <1>4, CommitTyped DEF Typed

\* A handle is replaced by another, or the job ends.
LEMMA SetHandle ==
    ASSUME Typed, NEW w \in Team, NEW me \in Handle, h' = [h EXCEPT ![w] = me]
    PROVE  h' \in [Team -> Handle] /\ h'[w] = me /\ \A u \in Team \ {w} : h'[u] = h[u]
BY DEF Typed

LEMMA FailTyped ==
    ASSUME Typed, NEW w \in Team, NEW me \in Handle, Fail(w, me), UNCHANGED mode
    PROVE  /\ h' \in [Team -> Handle] /\ last' \in [Team -> [Item -> Cell]]
           /\ tokens' \in SUBSET Token
           /\ commit' \in [phase : {"idle", "cut", "shapes", "manifest"}, items : SUBSET Item,
                           used : SUBSET Token, closing : BOOLEAN]
<1>1. CASE Abort
  BY <1>1, AbortFacts, CommitTyped
<1>2. CASE h' = [h EXCEPT ![w] = me] /\ UNCHANGED <<tokens, commit, last>>
  BY <1>2, SetHandle DEF Typed
<1> QED BY <1>1, <1>2 DEF Fail

\* The handles of the writers move on within their types.
LEMMA WritingTyped ==
    ASSUME Typed, NEW w \in Team,
           \/ WriteRecord(w) \/ \E i \in Rec, v \in Value : WriteRecordAt(w, i, v)
           \/ \E x \in mode.statics, v \in Value : WriteStatic(w, x, v)
           \/ \E x \in Item : RefuseWrite(w, x)
    PROVE  Typed'
<1>0. UNCHANGED <<mode, shape, manifest>> /\ Team' = Team /\ Token' = Token
  BY DEF WriteRecord, WriteRecordAt, WriteStatic, RefuseWrite, Team, Token
<1>1. ASSUME NEW me \in Handle, NEW i \in Rec, NEW v \in Value, NEW next \in Nat,
             \/ Finish(w, Placed(me, w, i, v), i, v, next)
             \/ FinishFails(w, Placed(me, w, i, v), i)
      PROVE  Typed'
  <2> DEFINE p == Placed(me, w, i, v)
             d == Written(w, {Shard(i)}, p.buf)
  <2>1. p \in Handle /\ d \in [Team -> [Item -> Cell]]
    <3>1. p \in Handle
      BY PlacedFacts
    <3>2. p.buf \in [Rec -> Cell]
      BY <3>1 DEF Handle
    <3> QED BY <3>1, <3>2, WrittenFacts
  <2>2. Shard(i) \in Shards /\ i \in Item
    BY DEF Shards, Item
  <2> HIDE DEF p, d
  <2>3. [p EXCEPT !.dirty = @ \cup {Shard(i)}, !.next = next] \in Handle
    BY <2>1, <2>2 DEF Handle
  <2>4. [Closed(p, Shard(i)) EXCEPT !.next = next] \in Handle
    BY <2>1, <2>2, ClosedFacts DEF Handle
  <2>5. [last EXCEPT ![w][i] = v] \in [Team -> [Item -> Cell]]
    BY <2>2 DEF Typed, Cell
  <2>6. CASE Finish(w, p, i, v, next)
    <3>1. h' \in [Team -> Handle]
      BY <2>3, <2>4, <2>6, SetHandle DEF Finish
    <3>2. disk' \in [Team -> [Item -> Cell]] /\ last' \in [Team -> [Item -> Cell]]
          /\ UNCHANGED <<tokens, commit>>
      BY <2>1, <2>5, <2>6 DEF Finish, d, Typed
    <3> QED BY <1>0, <3>1, <3>2 DEF Typed
  <2>7. CASE FinishFails(w, p, i)
    BY <1>0, <2>1, <2>7, FailTyped DEF FinishFails, d, Typed
  <2> QED BY <1>1, <2>6, <2>7 DEF p
<1>2. CASE WriteRecord(w)
  <2>1. h[w] \in Handle /\ h[w].next \in Rec
    BY <1>2 DEF WriteRecord, Typed
  <2>2. h[w].next + 1 \in Nat /\ Emit[h[w].next] \in Value
    BY <2>1, ModeFacts DEF Handle
  <2> QED BY <1>1, <1>2, <2>1, <2>2 DEF WriteRecord
<1>3. ASSUME NEW i \in Rec, NEW v \in Value, WriteRecordAt(w, i, v) PROVE Typed'
  <2>1. Refreshed(w, i) \in Handle
    BY RefreshedFacts DEF Item
  <2>2. Placed(Refreshed(w, i), w, i, v).next \in Nat
    BY <2>1, PlacedFacts DEF Handle
  <2> QED BY <1>1, <1>3, <2>1, <2>2 DEF WriteRecordAt
<1>4. ASSUME NEW x \in mode.statics, NEW v \in Value, WriteStatic(w, x, v) PROVE Typed'
  <2>1. x \in Item /\ Refreshed(w, x) \in Handle
    BY ModeFacts, RefreshedFacts DEF Item
  <2>2. [Refreshed(w, x) EXCEPT !.pending = @ \cup {x}] \in Handle
    BY <2>1 DEF Handle
  <2>3. /\ [disk EXCEPT ![w][x] = v] \in [Team -> [Item -> Cell]]
        /\ [last EXCEPT ![w][x] = v] \in [Team -> [Item -> Cell]]
    BY <2>1 DEF Typed, Cell
  <2>4. CASE /\ disk' = [disk EXCEPT ![w][x] = v] /\ last' = [last EXCEPT ![w][x] = v]
             /\ h' = [h EXCEPT ![w] = [Refreshed(w, x) EXCEPT !.pending = @ \cup {x}]]
             /\ UNCHANGED <<tokens, commit>>
    BY <1>0, <2>2, <2>3, <2>4, SetHandle DEF Typed
  <2>5. CASE disk' \in {disk, [disk EXCEPT ![w][x] = v]} /\ Fail(w, Refreshed(w, x))
    BY <1>0, <2>1, <2>3, <2>5, FailTyped DEF Typed
  <2> QED BY <1>4, <2>4, <2>5 DEF WriteStatic
<1>5. ASSUME NEW x \in Item, RefuseWrite(w, x) PROVE Typed'
  BY <1>0, <1>5, RefreshedFacts, SetHandle DEF RefuseWrite, Typed
<1> QED BY <1>2, <1>3, <1>4, <1>5

LEMMA OpeningTyped ==
    ASSUME Typed,
           \/ ResumeOwner \/ TruncateManifest \/ \E n \in 0 .. NumRecords : TruncateShapes(n)
           \/ \E w \in Team : OpenContributor(w) \/ Close(w)
           \/ \E X \in SUBSET Item : Invalidate(X)
    PROVE  Typed'
<1>0. Owner \in Team /\ Team' = Team /\ Token' = Token /\ UNCHANGED mode
  BY ModeFacts DEF ResumeOwner, TruncateManifest, TruncateShapes, OpenContributor, Close, Invalidate, Team, Token
<1>1. commit.items \in SUBSET Item
  BY DEF Typed
<1>2. CASE ResumeOwner
  BY <1>0, <1>2, OpenedFacts, SetHandle DEF ResumeOwner, Typed
<1>3. CASE TruncateManifest
  BY <1>0, <1>1, <1>3, OpenedFacts, SetHandle, CommitTyped DEF TruncateManifest, Typed
<1>4. ASSUME NEW n \in 0 .. NumRecords, TruncateShapes(n) PROVE Typed'
  <2>1. Kept(n) \in SUBSET Item
    BY DEF Kept, Typed
  <2>2. commit' = [phase |-> "cut", items |-> Kept(n), used |-> {}, closing |-> FALSE]
    BY <1>4 DEF TruncateShapes, NoCommit
  <2>3. n \in Nat
    BY Sizes
  <2>4. commit' \in [phase : {"idle", "cut", "shapes", "manifest"}, items : SUBSET Item,
                     used : SUBSET Token, closing : BOOLEAN]
    BY <2>1, <2>2
  <2> QED BY <1>0, <1>4, <2>3, <2>4 DEF TruncateShapes, Typed
<1>5. ASSUME NEW w \in Team, OpenContributor(w) PROVE Typed'
  BY <1>0, <1>5, OpenedFacts, SetHandle DEF OpenContributor, Typed
<1>6. ASSUME NEW w \in Team, Close(w) PROVE Typed'
  BY <1>0, <1>6, NoHandleTyped, SetHandle DEF Close, Typed
<1>7. ASSUME NEW X \in SUBSET Item, Invalidate(X) PROVE Typed'
  <2>1. [h[Owner] EXCEPT !.view = @ \ X] \in Handle
    <3>1. h[Owner] \in Handle
      BY <1>0 DEF Typed
    <3> QED BY <3>1 DEF Handle
  <2>2. h' = [h EXCEPT ![Owner] = [h[Owner] EXCEPT !.view = @ \ X]]
    BY <1>7 DEF Invalidate
  <2> QED BY <1>0, <1>7, <2>1, <2>2, SetHandle DEF Invalidate, Typed
<1> QED BY <1>2, <1>3, <1>4, <1>5, <1>6, <1>7

\* The handle after its dirty shards are written, and after its token is handed out.
LEMMA FlushedFacts ==
    ASSUME NEW me \in Handle
    PROVE  LET c == Clean(me)
               u == Untold(c) IN
           /\ c \in Handle /\ u \in Handle
           /\ c.up = me.up /\ c.view = me.view /\ c.next = me.next /\ c.reload = me.reload /\ c.buf = me.buf
           /\ c.open = me.open /\ c.slots = me.slots /\ c.dirty = {}
           /\ c.flushed = me.flushed \cup me.dirty /\ c.pending = me.pending /\ c.tokened = me.tokened
           /\ u.up = me.up /\ u.view = me.view /\ u.next = me.next /\ u.reload = me.reload /\ u.buf = me.buf
           /\ u.open = me.open /\ u.slots = me.slots /\ u.dirty = {}
           /\ u.flushed = me.flushed \cup me.dirty /\ u.pending = {}
           /\ u.tokened = me.tokened \cup me.pending
BY DEF Clean, Untold, Handle

\* The owner's handle after its commit.
LEMMA AfterCommitTyped ==
    ASSUME NEW me \in Handle
    PROVE  AfterCommit(me) \in Handle
BY NoHandleTyped DEF AfterCommit

LEMMA FlushTyped ==
    ASSUME Typed,
           \/ \E w \in Team : Flush(w) \/ FlushFails(w)
           \/ \E closing \in BOOLEAN : FlushAndCommit(closing)
    PROVE  Typed'
<1>0. Owner \in Team /\ Team' = Team /\ Token' = Token /\ UNCHANGED <<mode, shape, manifest>>
  BY ModeFacts DEF Flush, FlushFails, FlushAndCommit, Team, Token
<1>1. ASSUME NEW w \in Team
      PROVE  h[w] \in Handle /\ h[w].buf \in [Rec -> Cell]
  BY DEF Typed, Handle
<1>2. ASSUME NEW w \in Team, Flush(w) PROVE Typed'
  <2>1. disk' \in [Team -> [Item -> Cell]]
    BY <1>1, <1>2, WrittenFacts DEF Flush
  <2>2. h' \in [Team -> Handle]
    BY <1>1, <1>2, FlushedFacts, SetHandle DEF Flush
  <2>3. tokens' \in SUBSET Token
    BY <1>2, OwnTokenFacts DEF Flush, Typed
  <2> QED BY <1>0, <1>2, <2>1, <2>2, <2>3 DEF Flush, Typed
<1>3. ASSUME NEW w \in Team, FlushFails(w) PROVE Typed'
  <2>1. PICK s \in h[w].dirty :
           LET done == {r \in h[w].dirty : r < s} IN
           /\ \E wrote \in {done, done \cup {s}} : disk' = Written(w, wrote, h[w].buf)
           /\ Fail(w, [h[w] EXCEPT !.dirty = {}, !.flushed = @ \cup done])
    BY <1>3 DEF FlushFails
  <2> DEFINE me == [h[w] EXCEPT !.dirty = {}, !.flushed = @ \cup {r \in h[w].dirty : r < s}]
  <2>2. me \in Handle
    BY <1>1 DEF Handle
  <2>3. disk' \in [Team -> [Item -> Cell]]
    BY <1>1, <2>1, WrittenFacts
  <2> HIDE DEF me
  <2>4. Fail(w, me)
    BY <2>1 DEF me
  <2> QED BY <1>0, <2>2, <2>3, <2>4, FailTyped DEF Typed
<1>4. ASSUME NEW closing \in BOOLEAN, FlushAndCommit(closing) PROVE Typed'
  <2>1. disk' \in [Team -> [Item -> Cell]]
    BY <1>0, <1>1, <1>4, WrittenFacts DEF FlushAndCommit
  <2>2. Clean(h[Owner]) \in Handle
    BY <1>0, <1>1, FlushedFacts
  <2>3. h' \in [Team -> Handle]
    BY <1>0, <1>4, <2>2, NoHandleTyped, SetHandle DEF FlushAndCommit
  <2>4. ASSUME NEW others \in SUBSET tokens, BeginCommit(others \cup {OwnToken(Owner)}, closing)
        PROVE  commit' \in [phase : {"idle", "cut", "shapes", "manifest"}, items : SUBSET Item,
                            used : SUBSET Token, closing : BOOLEAN]
    <3>1. others \cup {OwnToken(Owner)} \in SUBSET Token
      BY <1>0, OwnTokenFacts DEF Typed
    <3>2. UNION {t.items : t \in others \cup {OwnToken(Owner)}} \in SUBSET Item
      BY <3>1 DEF Token
    <3> QED BY <2>4, <3>1, <3>2 DEF BeginCommit
  <2>5. commit' \in [phase : {"idle", "cut", "shapes", "manifest"}, items : SUBSET Item,
                     used : SUBSET Token, closing : BOOLEAN]
    BY <1>4, <2>4 DEF FlushAndCommit, Typed
  <2> QED BY <1>0, <1>4, <2>1, <2>3, <2>5 DEF FlushAndCommit, Typed
<1> QED BY <1>2, <1>3, <1>4

LEMMA CommittingTyped ==
    ASSUME Typed, Commit \/ GrowShapes \/ WriteManifest \/ CommitFails
    PROVE  Typed'
<1>0. Owner \in Team /\ Team' = Team /\ Token' = Token /\ UNCHANGED <<mode, disk, last>>
  BY ModeFacts DEF Commit, GrowShapes, WriteManifest, CommitFails, Team, Token
<1>1. h[Owner] \in Handle /\ commit.items \in SUBSET Item
  BY <1>0 DEF Typed
<1>2. Cardinality(Recs(manifest \cup commit.items)) \in Nat
  BY RecordsAreFinite
<1>3. CASE Commit
  <2>1. PICK ts \in SUBSET tokens : BeginCommit(ts, FALSE)
    BY <1>3 DEF Commit
  <2>2. ts \in SUBSET Token /\ UNION {t.items : t \in ts} \in SUBSET Item
    BY DEF Typed, Token
  <2>3. commit' \in [phase : {"idle", "cut", "shapes", "manifest"}, items : SUBSET Item,
                     used : SUBSET Token, closing : BOOLEAN]
    BY <2>1, <2>2 DEF BeginCommit
  <2> QED BY <1>0, <1>3, <2>3 DEF Commit, Typed
<1>4. CASE GrowShapes
  BY <1>0, <1>2, <1>4 DEF GrowShapes, Typed
<1>5. CASE WriteManifest
  <2>1. Committed(h[Owner], commit.items) \in Handle
    BY <1>1 DEF Handle, Typed, Committed
  <2>2. h' = [h EXCEPT ![Owner] = AfterCommit(Committed(h[Owner], commit.items))]
    BY <1>5 DEF WriteManifest
  <2> QED BY <1>0, <1>1, <1>5, <2>1, <2>2, AfterCommitTyped, SetHandle, CommitTyped DEF WriteManifest, Typed
<1>6. CASE CommitFails
  BY <1>0, <1>1, <1>2, <1>6, AfterCommitTyped, SetHandle, CommitTyped DEF CommitFails, Typed
<1> QED BY <1>3, <1>4, <1>5, <1>6

\* A step keeps the types.
LEMMA TypedStep == Typed /\ [Next]_vars => Typed'
<1> SUFFICES ASSUME Typed, [Next]_vars PROVE Typed'
  OBVIOUS
<1>1. CASE UNCHANGED vars
  BY <1>1 DEF Typed, vars, Team, Token
<1>2. CASE Preempt
  <2>1. Team' = Team /\ Token' = Token /\ UNCHANGED <<mode, shape, manifest>> /\ Abort
    BY <1>2 DEF Preempt, Team, Token
  <2>2. disk' \in [Team -> [Item -> Cell]]
    <3>1. PICK s : disk' = [w \in Team |-> Written(w, {r \in h[w].dirty : r <= s[w]}, h[w].buf)[w]]
      BY <1>2 DEF Preempt
    <3>2. \A w \in Team : Written(w, {r \in h[w].dirty : r <= s[w]}, h[w].buf)[w] \in [Item -> Cell]
      BY WrittenFacts DEF Typed, Handle
    <3> QED BY <3>1, <3>2
  <2> QED BY <2>1, <2>2, AbortFacts, CommitTyped DEF Typed
<1> QED BY <1>1, <1>2, WritingTyped, OpeningTyped, FlushTyped, CommittingTyped DEF Next

\* The state of the writers and of the store is well typed.
THEOREM TypeCorrect == Spec => []Typed
BY InitTyped, TypedStep, PTL DEF Spec


-----------------------------------------------------------------------------
(* The protocol: what handles know, what tokens and commits carry.         *)

Polite == Habits = {}

Protocol == (\A w \in Team : Knows(w)) /\ CommitInv /\ PrefixInv

\* The handle of w takes on the items X, none of which is committed, and may have read the
\* manifest again, while none of its tokens is on the way.
Proceeds(w, X) ==
    /\ Free(w) /\ UNCHANGED <<mode, shape, manifest, tokens, commit>>
    /\ \A u \in Team \ {w} : h'[u] = h[u]
    /\ h'[w].up /\ h'[w].pending = h[w].pending \cup X
    /\ X \cap manifest = {}
    /\ \/ h'[w].view = h[w].view /\ h'[w].tokened = h[w].tokened
       \/ w # Owner /\ Sent(w) = {} /\ h'[w].view = manifest /\ h'[w].tokened = {}
    /\ ~mode.indexed =>
          \/ Recs(X) = {} /\ h'[w].next = h[w].next
          \/ X = {h[w].next} /\ h[w].next \in Rec /\ h'[w].next = h[w].next + 1

\* The job is over: no handle and no token is left, the manifest stays.
Ends == Abort /\ UNCHANGED <<mode, shape, manifest>>

\* In append mode the next record is one that is not committed.
LEMMA NextIsNew ==
    ASSUME Typed, Protocol, NEW w \in Team, h[w].up, ~mode.indexed, h[w].next \in Rec
    PROVE  h[w].next \notin Given(w)
<1>1. Recs(Given(w)) = 0 .. h[w].next - 1 /\ h[w].next \in Nat
  BY DEF Protocol, PrefixInv, TokensContinuePrefix, Given, Typed, Handle
<1> QED BY <1>1 DEF Recs

\* A write of an item that is committed is refused, whatever the writer's view.
LEMMA AcceptedIsNew ==
    ASSUME Typed, Protocol, Polite, NEW w \in Team, NEW x \in Item,
           Free(w), Mannerly(w, x), ~SeenCommitted(w, x)
    PROVE  /\ x \notin manifest /\ x \notin Sent(w)
           /\ w # Owner /\ Suspects(w, x) => Sent(w) = {}
<1>1. h[w].up /\ Knows(w) /\ h[w] \in Handle
  BY DEF Free, Protocol, Typed
<1>2. w # Owner /\ Suspects(w, x) => Sent(w) = {}
  BY DEF Mannerly, Polite
<1>3. CASE w = Owner
  BY <1>1, <1>3, RefreshedFacts DEF Knows, SeenCommitted, Suspects, Mannerly
<1>4. CASE w # Owner /\ Suspects(w, x)
  BY <1>2, <1>4, RefreshedFacts DEF SeenCommitted, Mannerly
<1>5. CASE w # Owner /\ ~Suspects(w, x)
  BY <1>1, <1>5 DEF Knows, Suspects, Mannerly
<1> QED BY <1>2, <1>3, <1>4, <1>5

\* A fault ends the job of callers that do not retry.
LEMMA FaultEnds ==
    ASSUME Polite, NEW w, NEW me, Fail(w, me)
    PROVE  Abort
BY DEF Polite, Fail

\* Every call that writes goes on with its handle, or ends the job.
LEMMA WritesProceed ==
    ASSUME Typed, Protocol, Polite, NEW w \in Team,
           \/ WriteRecord(w) \/ \E i \in Rec, v \in Value : WriteRecordAt(w, i, v)
           \/ \E x \in mode.statics, v \in Value : WriteStatic(w, x, v)
           \/ \E x \in Item : RefuseWrite(w, x)
    PROVE  Ends \/ \E X \in SUBSET Item : Proceeds(w, X)
<1>0. UNCHANGED <<mode, shape, manifest>> /\ Free(w) /\ h[w].up /\ h[w] \in Handle
  BY DEF WriteRecord, WriteRecordAt, WriteStatic, RefuseWrite, Free, Typed
<1>1. ASSUME NEW me \in Handle, NEW i \in Rec, NEW v \in Value, NEW next \in Nat,
             Finish(w, Placed(me, w, i, v), i, v, next)
      PROVE  /\ UNCHANGED <<tokens, commit>> /\ \A u \in Team \ {w} : h'[u] = h[u]
             /\ h'[w].up = me.up /\ h'[w].pending = me.pending \cup {i}
             /\ h'[w].view = me.view /\ h'[w].tokened = me.tokened /\ h'[w].next = next
  <2> DEFINE p == Placed(me, w, i, v)
             a == [p EXCEPT !.dirty = @ \cup {Shard(i)}, !.next = next]
             b == [Closed(p, Shard(i)) EXCEPT !.next = next]
  <2>1. /\ p \in Handle /\ p.up = me.up /\ p.view = me.view /\ p.tokened = me.tokened
        /\ p.pending = me.pending \cup {i}
    BY PlacedFacts
  <2>2. Shard(i) \in Shards
    BY DEF Shards
  <2> HIDE DEF p
  <2>3. /\ a \in Handle /\ a.up = p.up /\ a.view = p.view /\ a.tokened = p.tokened
        /\ a.pending = p.pending /\ a.next = next
    BY <2>1, <2>2 DEF Handle
  <2>4. /\ b \in Handle /\ b.up = p.up /\ b.view = p.view /\ b.tokened = p.tokened
        /\ b.pending = p.pending /\ b.next = next
    BY <2>1, <2>2, ClosedFacts DEF Handle
  <2>5. (h' = [h EXCEPT ![w] = a] \/ h' = [h EXCEPT ![w] = b]) /\ UNCHANGED <<tokens, commit>>
    BY <1>1 DEF Finish, p
  <2> HIDE DEF a, b
  <2>6. (h'[w] = a \/ h'[w] = b) /\ \A u \in Team \ {w} : h'[u] = h[u]
    BY <2>3, <2>4, <2>5, SetHandle
  <2> QED BY <2>1, <2>3, <2>4, <2>5, <2>6
<1>2. CASE WriteRecord(w)
  <2>1. ~mode.indexed /\ h[w].next \in Rec /\ h[w].next + 1 \in Nat /\ Emit[h[w].next] \in Value
    BY <1>2, ModeFacts DEF WriteRecord
  <2>2. CASE FinishFails(w, Placed(h[w], w, h[w].next, Emit[h[w].next]), h[w].next)
    BY <1>0, <2>2, FaultEnds DEF FinishFails, Ends
  <2>3. CASE Finish(w, Placed(h[w], w, h[w].next, Emit[h[w].next]), h[w].next, Emit[h[w].next], h[w].next + 1)
    <3>1. Proceeds(w, {h[w].next})
      BY <1>0, <1>1, <2>1, <2>3, NextIsNew DEF Proceeds, Given
    <3> QED BY <2>1, <3>1 DEF Item
  <2> QED BY <1>2, <2>2, <2>3 DEF WriteRecord
<1>3. ASSUME NEW i \in Rec, NEW v \in Value, WriteRecordAt(w, i, v)
      PROVE  Ends \/ \E X \in SUBSET Item : Proceeds(w, X)
  <2> DEFINE r == Refreshed(w, i)
             p == Placed(r, w, i, v)
  <2>1. i \in Item /\ mode.indexed /\ Mannerly(w, i) /\ ~SeenCommitted(w, i)
    BY <1>3 DEF WriteRecordAt, Item
  <2>2. /\ r \in Handle /\ r.up = h[w].up /\ r.pending = h[w].pending /\ r.next \in Nat
        /\ IF w # Owner /\ Suspects(w, i) THEN r.view = manifest /\ r.tokened = {}
           ELSE r.view = h[w].view /\ r.tokened = h[w].tokened
    BY <2>1, RefreshedFacts DEF Handle
  <2>3. i \notin manifest /\ (w # Owner /\ Suspects(w, i) => Sent(w) = {})
    BY <1>0, <2>1, AcceptedIsNew
  <2>4. CASE FinishFails(w, p, i)
    BY <1>0, <2>4, FaultEnds DEF FinishFails, Ends
  <2>5. CASE Finish(w, p, i, v, p.next)
    <3>1. p.next \in Nat
      BY <2>2, PlacedFacts DEF Handle
    <3> HIDE DEF r
    <3>2. Proceeds(w, {i})
      BY <1>0, <1>1, <2>1, <2>2, <2>3, <2>5, <3>1 DEF Proceeds
    <3> QED BY <2>1, <3>2
  <2> QED BY <1>3, <2>4, <2>5 DEF WriteRecordAt
<1>4. ASSUME NEW x \in mode.statics, NEW v \in Value, WriteStatic(w, x, v)
      PROVE  Ends \/ \E X \in SUBSET Item : Proceeds(w, X)
  <2> DEFINE r == Refreshed(w, x)
  <2>1. x \in Item /\ x \notin Rec /\ Mannerly(w, x) /\ ~SeenCommitted(w, x)
    BY <1>4, ModeFacts DEF WriteStatic, Item
  <2>2. /\ r \in Handle /\ r.up = h[w].up /\ r.pending = h[w].pending /\ r.next = h[w].next
        /\ IF w # Owner /\ Suspects(w, x) THEN r.view = manifest /\ r.tokened = {}
           ELSE r.view = h[w].view /\ r.tokened = h[w].tokened
    BY <2>1, RefreshedFacts
  <2>3. x \notin manifest /\ (w # Owner /\ Suspects(w, x) => Sent(w) = {})
    BY <1>0, <2>1, AcceptedIsNew
  <2>4. CASE Fail(w, r)
    BY <1>0, <2>4, FaultEnds DEF Ends
  <2>5. CASE h' = [h EXCEPT ![w] = [r EXCEPT !.pending = @ \cup {x}]] /\ UNCHANGED <<tokens, commit>>
    <3> DEFINE me == [r EXCEPT !.pending = @ \cup {x}]
    <3> HIDE DEF r
    <3>1. /\ me \in Handle /\ me.up = r.up /\ me.pending = r.pending \cup {x} /\ me.next = r.next
          /\ me.view = r.view /\ me.tokened = r.tokened
      BY <2>1, <2>2 DEF Handle
    <3> HIDE DEF me
    <3>2. h'[w] = me /\ \A u \in Team \ {w} : h'[u] = h[u]
      BY <2>5, <3>1, SetHandle DEF me
    <3>3. Recs({x}) = {}
      BY <2>1 DEF Recs
    <3>4. Proceeds(w, {x})
      BY <1>0, <2>2, <2>3, <2>5, <3>1, <3>2, <3>3 DEF Proceeds
    <3> QED BY <2>1, <3>4
  <2> QED BY <1>4, <2>4, <2>5 DEF WriteStatic
<1>5. ASSUME NEW x \in Item, RefuseWrite(w, x)
      PROVE  Ends \/ \E X \in SUBSET Item : Proceeds(w, X)
  <2> DEFINE r == Refreshed(w, x)
  <2>1. /\ r \in Handle /\ r.up = h[w].up /\ r.pending = h[w].pending /\ r.next = h[w].next
        /\ IF w # Owner /\ Suspects(w, x) THEN r.view = manifest /\ r.tokened = {}
           ELSE r.view = h[w].view /\ r.tokened = h[w].tokened
    BY RefreshedFacts
  <2>2. w # Owner /\ Suspects(w, x) => Sent(w) = {}
    BY <1>5 DEF RefuseWrite, Mannerly, Polite
  <2> HIDE DEF r
  <2>3. h'[w] = r /\ (\A u \in Team \ {w} : h'[u] = h[u]) /\ UNCHANGED <<tokens, commit>>
    BY <1>5, <2>1, SetHandle DEF RefuseWrite, r
  <2>4. Recs({}) = {}
    BY DEF Recs
  <2>5. Proceeds(w, {})
    BY <1>0, <2>1, <2>2, <2>3, <2>4 DEF Proceeds
  <2> QED BY <2>5
<1> QED BY <1>2, <1>3, <1>4, <1>5

\* A writer that proceeds keeps the protocol.
LEMMA ProceedsKeeps ==
    ASSUME Typed, Protocol, NEW w \in Team, NEW X \in SUBSET Item, Proceeds(w, X)
    PROVE  Protocol'
<1>0. /\ UNCHANGED <<mode, shape, manifest, tokens, commit>> /\ h[w].up /\ h'[w].up
      /\ (w = Owner => commit.phase = "idle")
      /\ \A u \in Team \ {w} : h'[u] = h[u]
  BY DEF Proceeds, Free
<1>1. Team' = Team /\ \A u : Sent(u)' = Sent(u)
  BY <1>0 DEF Team, Sent
<1>2. ASSUME NEW u \in Team PROVE Knows(u)'
  <2>1. Knows(u)
    BY DEF Protocol
  <2>2. CASE u = w
    BY <1>0, <1>1, <2>1, <2>2 DEF Knows, Proceeds
  <2>3. CASE u # w
    BY <1>0, <1>1, <2>1, <2>3 DEF Knows
  <2> QED BY <2>2, <2>3
<1>3. CommitInv'
  <2>1. Committing => w # Owner /\ OwnToken(Owner)' = OwnToken(Owner) /\ h'[Owner] = h[Owner]
    BY <1>0, ModeFacts DEF Committing, OwnToken
  <2>2. commit.phase # "cut"
    BY <1>0 DEF Protocol, CommitInv
  <2> QED BY <1>0, <1>1, <2>1, <2>2 DEF Protocol, CommitInv, Committing, Recs
<1>4. TokensContinuePrefix'
  <2>1. SUFFICES ASSUME NEW u \in Team, h'[u].up, ~mode.indexed
                 PROVE  Recs(manifest \cup Sent(u) \cup h'[u].pending) = 0 .. h'[u].next - 1
    BY <1>0, <1>1 DEF TokensContinuePrefix, Recs
  <2>2. h[u].up => Recs(Given(u)) = 0 .. h[u].next - 1
    BY <2>1 DEF Protocol, PrefixInv, TokensContinuePrefix, Given
  <2>3. CASE u # w
    BY <1>0, <2>1, <2>2, <2>3 DEF Given
  <2>4. CASE u = w
    <3>1. Recs(manifest \cup Sent(u) \cup h'[u].pending) = Recs(Given(w)) \cup Recs(X)
      BY <2>4 DEF Proceeds, Given, Recs
    <3>2. CASE Recs(X) = {} /\ h'[w].next = h[w].next
      BY <1>0, <2>2, <2>4, <3>1, <3>2
    <3>3. CASE X = {h[w].next} /\ h[w].next \in Rec /\ h'[w].next = h[w].next + 1
      <4> DEFINE n == h[w].next
      <4>1. Recs(X) = {n} /\ n \in Nat /\ Recs(Given(w)) = 0 .. n - 1 /\ h'[u].next = n + 1
        BY <1>0, <2>2, <2>4, <3>3, ModeFacts DEF Recs
      <4>2. (0 .. n - 1) \cup {n} = 0 .. (n + 1) - 1
        BY <4>1, Intervals
      <4> HIDE DEF n
      <4> QED BY <3>1, <4>1, <4>2
    <3> QED BY <2>1, <2>4, <3>2, <3>3 DEF Proceeds
  <2> QED BY <2>3, <2>4
<1> QED BY <1>0, <1>1, <1>2, <1>3, <1>4 DEF Protocol, PrefixInv, Recs

\* So does the end of the job.
LEMMA EndsKeeps ==
    ASSUME Typed, Protocol, Ends
    PROVE  Protocol'
<1>1. /\ tokens' = {} /\ commit'.phase = "idle" /\ \A w \in Team : ~h'[w].up
      /\ Team' = Team /\ UNCHANGED <<mode, manifest>>
  BY AbortFacts DEF Ends, NoCommit, NoHandle, Team
<1> QED BY <1>1 DEF Protocol, Knows, CommitInv, Committing, PrefixInv, TokensContinuePrefix, Recs

\* A prefix of a prefix, and a prefix with what follows it.
LEMMA PrefixCut ==
    ASSUME Typed, Prefix(Recs(manifest)), NEW n \in Nat
    PROVE  Prefix(Recs(Kept(n)))
<1> DEFINE c == Cardinality(Recs(manifest))
           m == IF n < c THEN n ELSE c
<1>1. c \in Nat /\ Recs(manifest) = 0 .. c - 1
  BY RecordsAreFinite DEF Prefix
<1>2. Recs(Kept(n)) = {x \in Recs(manifest) : x < n}
  BY DEF Kept, Recs
<1> HIDE DEF c
<1>3. m \in Nat /\ Recs(Kept(n)) = 0 .. m - 1
  BY <1>1, <1>2
<1> HIDE DEF m
<1> QED BY <1>3, PrefixLength DEF Prefix

LEMMA PrefixGrows ==
    ASSUME Typed, Prefix(Recs(manifest)), NEW X, NEW n, n = Cardinality(Recs(manifest)),
           Recs(X) = n .. n + Cardinality(Recs(X)) - 1
    PROVE  Prefix(Recs(manifest \cup X))
<1> DEFINE k == Cardinality(Recs(X))
<1>1. n \in Nat /\ k \in Nat
  BY RecordsAreFinite
<1>2. Recs(manifest \cup X) = Recs(manifest) \cup Recs(X)
  BY DEF Recs
<1>3. Recs(manifest) = 0 .. n - 1 /\ Recs(X) = n .. n + k - 1
  BY DEF Prefix
<1> HIDE DEF k
<1>4. Recs(manifest \cup X) = 0 .. (n + k) - 1
  BY <1>1, <1>2, <1>3, Intervals
<1> QED BY <1>1, <1>4, PrefixLength DEF Prefix

\* A handle that is opened while nothing of its writer is on the way.
LEMMA OpenedKeeps ==
    ASSUME Typed, NEW w \in Team, NEW seen \in SUBSET Item, ~mode.indexed => Prefix(Recs(seen)),
           h'[w] = Opened(w, seen), manifest' = seen, Sent(w)' = {}, mode' = mode
    PROVE  /\ Knows(w)'
           /\ ~mode.indexed => Recs(manifest \cup Sent(w) \cup h[w].pending)' = 0 .. h'[w].next - 1
<1>1. /\ h'[w].view = seen /\ h'[w].pending = {}
      /\ ~mode.indexed => h'[w].next = Cardinality(Recs(seen))
  BY OpenedFacts
<1> QED BY <1>1 DEF Knows, Recs, Prefix

\* Opening and closing handles, cutting and invalidating keep the protocol.
LEMMA OpeningKeeps ==
    ASSUME Typed, Protocol,
           \/ ResumeOwner \/ TruncateManifest \/ \E n \in 0 .. NumRecords : TruncateShapes(n)
           \/ \E w \in Team : OpenContributor(w) \/ Close(w)
           \/ \E X \in SUBSET Item : Invalidate(X)
    PROVE  Protocol'
<1>0. Owner \in Team /\ Team' = Team /\ UNCHANGED mode
  BY ModeFacts DEF ResumeOwner, TruncateManifest, TruncateShapes, OpenContributor, Close, Invalidate, Team
<1>1. (\A w \in Team : Knows(w)) /\ CommitInv /\ (~mode.indexed => Prefix(Recs(manifest))) /\ TokensContinuePrefix
  BY DEF Protocol, PrefixInv
<1>2. ASSUME ResumeOwner \/ TruncateManifest PROVE Protocol'
  <2>1. /\ tokens' = {} /\ commit'.phase = "idle" /\ manifest' \in SUBSET Item
        /\ h' = [h EXCEPT ![Owner] = Opened(Owner, manifest')]
        /\ \A w \in Team : ~h[w].up
    BY <1>1, <1>2, CommitTyped DEF ResumeOwner, TruncateManifest, CommitInv, Typed
  <2>2. ~mode.indexed => Prefix(Recs(manifest'))
    <3>1. CASE ResumeOwner
      BY <1>1, <3>1 DEF ResumeOwner
    <3>2. CASE TruncateManifest
      <4>1. manifest' = Kept(shape) /\ shape \in Nat
        BY <1>1, <3>2 DEF TruncateManifest, CommitInv, Kept, Typed
      <4> QED BY <1>1, <4>1, PrefixCut
    <3> QED BY <1>2, <3>1, <3>2
  <2>3. /\ h'[Owner] = Opened(Owner, manifest') /\ \A w \in Team \ {Owner} : h'[w] = h[w]
    BY <1>0, <2>1, OpenedFacts, SetHandle
  <2>4. \A w \in Team : Sent(w)' = {}
    BY <2>1 DEF Sent
  <2>5. /\ Knows(Owner)'
        /\ ~mode.indexed => Recs(manifest \cup Sent(Owner) \cup h[Owner].pending)' = 0 .. h'[Owner].next - 1
    BY <1>0, <2>1, <2>2, <2>3, <2>4, OpenedKeeps
  <2>6. \A w \in Team : Knows(w)'
    BY <2>1, <2>3, <2>5 DEF Knows
  <2>7. TokensContinuePrefix'
    BY <1>0, <2>1, <2>3, <2>5 DEF TokensContinuePrefix, Recs
  <2>8. CommitInv'
    BY <2>1 DEF CommitInv, Committing
  <2> QED BY <1>0, <2>2, <2>6, <2>7, <2>8 DEF Protocol, PrefixInv, Recs
<1>3. ASSUME NEW n \in 0 .. NumRecords, TruncateShapes(n) PROVE Protocol'
  <2>1. /\ tokens' = {} /\ UNCHANGED <<manifest, h>> /\ \A w \in Team : ~h[w].up
        /\ commit'.phase = "cut" /\ commit'.items = Kept(n) /\ shape' = n /\ ~mode.indexed
    BY <1>3 DEF TruncateShapes, NoCommit
  <2>2. CommitInv'
    BY <1>0, <2>1 DEF CommitInv, Committing, Kept
  <2> QED BY <1>0, <1>1, <2>1, <2>2 DEF Protocol, Knows, PrefixInv, TokensContinuePrefix, Recs
<1>4. ASSUME NEW w \in Team, OpenContributor(w) PROVE Protocol'
  <2>1. /\ UNCHANGED <<manifest, tokens, commit, shape>> /\ h' = [h EXCEPT ![w] = Opened(w, manifest)]
        /\ w # Owner /\ Sent(w) = {} /\ h[Owner].up /\ manifest \in SUBSET Item
    BY <1>4 DEF OpenContributor, Contributors, Typed
  <2>2. h'[w] = Opened(w, manifest) /\ \A u \in Team \ {w} : h'[u] = h[u]
    BY <2>1, OpenedFacts, SetHandle
  <2>3. \A u : Sent(u)' = Sent(u)
    BY <2>1 DEF Sent
  <2>4. /\ Knows(w)'
        /\ ~mode.indexed => Recs(manifest \cup Sent(w) \cup h[w].pending)' = 0 .. h'[w].next - 1
    BY <1>0, <1>1, <2>1, <2>2, <2>3, OpenedKeeps
  <2>5. \A u \in Team : Knows(u)'
    BY <1>1, <2>1, <2>2, <2>3, <2>4 DEF Knows
  <2>6. TokensContinuePrefix'
    BY <1>0, <1>1, <2>1, <2>2, <2>3, <2>4 DEF TokensContinuePrefix, Recs
  <2>7. OwnToken(Owner)' = OwnToken(Owner) /\ commit.phase # "cut"
    BY <1>0, <1>1, <2>1, <2>2 DEF OwnToken, CommitInv
  <2>8. CommitInv'
    BY <1>0, <1>1, <2>1, <2>2, <2>7 DEF CommitInv, Committing, Recs
  <2> QED BY <1>0, <1>1, <2>1, <2>5, <2>6, <2>8 DEF Protocol, PrefixInv, Recs
<1>5. ASSUME NEW w \in Team, Close(w) PROVE Protocol'
  <2>1. /\ UNCHANGED <<manifest, tokens, commit, shape>> /\ h[w].up /\ (w = Owner => commit.phase = "idle")
        /\ ~h'[w].up /\ \A u \in Team \ {w} : h'[u] = h[u]
    BY <1>5, NoHandleTyped, SetHandle DEF Close, Free, NoHandle
  <2>2. \A u : Sent(u)' = Sent(u)
    BY <2>1 DEF Sent
  <2>3. commit.phase # "cut" /\ (Committing => h'[Owner] = h[Owner] /\ OwnToken(Owner)' = OwnToken(Owner))
    BY <1>0, <1>1, <2>1 DEF OwnToken, CommitInv, Committing
  <2>4. CommitInv'
    BY <1>0, <1>1, <2>1, <2>3 DEF CommitInv, Committing, Recs
  <2>5. \A u \in Team : Knows(u)'
    BY <1>1, <2>1, <2>2 DEF Knows
  <2>6. TokensContinuePrefix'
    BY <1>0, <1>1, <2>1, <2>2 DEF TokensContinuePrefix, Recs
  <2> QED BY <1>0, <1>1, <2>1, <2>4, <2>5, <2>6 DEF Protocol, PrefixInv, Recs
<1>6. ASSUME NEW X \in SUBSET Item, Invalidate(X) PROVE Protocol'
  <2> DEFINE me == [h[Owner] EXCEPT !.view = @ \ X]
  <2>1. /\ UNCHANGED <<tokens, commit, shape>> /\ h[Owner].up /\ commit.phase = "idle"
        /\ manifest' = manifest \ X /\ h' = [h EXCEPT ![Owner] = me]
        /\ X \subseteq Statics \/ mode.indexed
    BY <1>6 DEF Invalidate, Free
  <2>2. /\ me \in Handle /\ me.view = h[Owner].view \ X /\ me.up = h[Owner].up
        /\ me.next = h[Owner].next /\ me.pending = h[Owner].pending
    <3>1. h[Owner] \in Handle
      BY <1>0 DEF Typed
    <3> QED BY <3>1 DEF Handle
  <2> HIDE DEF me
  <2>3. h'[Owner] = me /\ \A u \in Team \ {Owner} : h'[u] = h[u]
    BY <1>0, <2>1, <2>2, SetHandle
  <2>4. \A u : Sent(u)' = Sent(u)
    BY <2>1 DEF Sent
  <2>5. \A u \in Team : Knows(u)'
    BY <1>1, <2>1, <2>2, <2>3, <2>4 DEF Knows
  <2>6. ~mode.indexed => Recs(manifest') = Recs(manifest)
    BY <2>1, ModeFacts DEF Recs
  <2>7. ASSUME NEW u \in Team
        PROVE  ~mode.indexed => Recs(manifest \cup Sent(u) \cup h[u].pending)' = Recs(Given(u))
    <3>1. h'[u].pending = h[u].pending
      BY <2>2, <2>3
    <3> QED BY <2>4, <2>6, <3>1 DEF Recs, Given
  <2>8. TokensContinuePrefix'
    <3>1. \A u \in Team : h'[u].up = h[u].up /\ h'[u].next = h[u].next
      BY <2>2, <2>3
    <3> QED BY <1>0, <1>1, <2>7, <3>1 DEF TokensContinuePrefix, Given, Recs
  <2>9. CommitInv'
    BY <2>1 DEF CommitInv, Committing
  <2> QED BY <1>0, <1>1, <2>5, <2>6, <2>8, <2>9 DEF Protocol, PrefixInv, Recs
<1> QED BY <1>2, <1>3, <1>4, <1>5, <1>6

\* A token handed out is on its way.
LEMMA SentAdds ==
    ASSUME Typed, NEW w \in Team, tokens' = tokens \cup {OwnToken(w)}
    PROVE  Sent(w)' = Sent(w) \cup h[w].pending /\ \A u \in Team \ {w} : Sent(u)' = Sent(u)
BY OwnTokenFacts DEF Sent

\* What a commit sets out to do, once verify has passed its tokens.
LEMMA BeginKeeps ==
    ASSUME Typed, Protocol, NEW ts, NEW closing, h[Owner].up, commit.phase = "idle",
           ts \subseteq tokens \cup {OwnToken(Owner)}, Verify(ts), BeginCommit(ts, closing),
           h'[Owner].up, h'[Owner].pending = h[Owner].pending, UNCHANGED <<mode, manifest, tokens>>
    PROVE  CommitInv'
<1> DEFINE items == UNION {t.items : t \in ts}
<1>0. Owner \in Team /\ Team' = Team /\ OwnToken(Owner)' = OwnToken(Owner)
  BY ModeFacts DEF Team, OwnToken
<1>1. h[Owner].view = manifest
  BY <1>0 DEF Protocol, Knows
<1>2. commit'.items = items /\ commit'.used = ts /\ commit'.phase \in {"shapes", "manifest"}
  BY DEF BeginCommit
<1>3. items \cap manifest = {} /\ \A t \in ts : t.items = items
  BY <1>1 DEF Verify
<1>4. \A w \in Team : \E t \in ts : t.from = w
  <2>1. SUFFICES ASSUME NEW w \in Team PROVE \E t \in ts : t.from = w
    OBVIOUS
  <2> DEFINE own == {t \in ts : t.from = w}
  <2>2. Cardinality(own) = 1
    BY DEF Verify
  <2>3. own = {} => Cardinality(own) = 0
    BY FS_EmptySet, Zenon
  <2>4. own # {}
    <3> HIDE DEF own
    <3> QED BY <2>2, <2>3
  <2> QED BY <2>4
<1>5. ~mode.indexed => Prefix(Recs(manifest \cup items))
  <2>1. ASSUME ~mode.indexed
        PROVE  Recs(items) = Cardinality(Recs(manifest)) .. Cardinality(Recs(manifest)) + Cardinality(Recs(items)) - 1
    BY <1>1, <2>1 DEF Verify
  <2> HIDE DEF items
  <2> QED BY <2>1, PrefixGrows DEF Protocol, PrefixInv
<1> HIDE DEF items
<1> QED BY <1>0, <1>2, <1>3, <1>4, <1>5 DEF CommitInv, Committing, Recs

\* Flushing keeps the protocol.
LEMMA FlushKeeps ==
    ASSUME Typed, Protocol, Polite,
           \/ \E w \in Team : Flush(w) \/ FlushFails(w)
           \/ \E closing \in BOOLEAN : FlushAndCommit(closing)
    PROVE  Protocol'
<1>0. Owner \in Team /\ Team' = Team /\ UNCHANGED <<mode, shape, manifest>>
  BY ModeFacts DEF Flush, FlushFails, FlushAndCommit, Team
<1>1. (\A w \in Team : Knows(w)) /\ CommitInv /\ (~mode.indexed => Prefix(Recs(manifest))) /\ TokensContinuePrefix
  BY DEF Protocol, PrefixInv
<1>2. ASSUME NEW w \in Team, Flush(w) PROVE Protocol'
  <2>1. /\ h[w].up /\ (w = Owner => commit.phase = "idle") /\ UNCHANGED commit
        /\ tokens' = tokens \cup {OwnToken(w)} /\ h' = [h EXCEPT ![w] = Untold(Clean(h[w]))]
    BY <1>2 DEF Flush, Free
  <2>2. /\ h'[w].up = h[w].up /\ h'[w].view = h[w].view /\ h'[w].next = h[w].next
        /\ h'[w].pending = {} /\ h'[w].tokened = h[w].tokened \cup h[w].pending
        /\ \A u \in Team \ {w} : h'[u] = h[u]
    <3>1. h[w] \in Handle
      BY DEF Typed
    <3> QED BY <2>1, <3>1, FlushedFacts, SetHandle
  <2>3. Sent(w)' = Sent(w) \cup h[w].pending /\ \A u \in Team \ {w} : Sent(u)' = Sent(u)
    BY <2>1, SentAdds
  <2>4. ASSUME NEW u \in Team PROVE Knows(u)'
    <3>1. CASE u = w
      BY <1>0, <1>1, <2>1, <2>2, <2>3, <3>1 DEF Knows
    <3>2. CASE u # w
      BY <1>0, <1>1, <2>2, <2>3, <3>2 DEF Knows
    <3> QED BY <3>1, <3>2
  <2>5. TokensContinuePrefix'
    <3>1. ASSUME NEW u \in Team
          PROVE  manifest' \cup Sent(u)' \cup h'[u].pending = Given(u) /\ h'[u].up = h[u].up /\ h'[u].next = h[u].next
      BY <1>0, <2>2, <2>3 DEF Given
    <3> QED BY <1>0, <1>1, <3>1 DEF TokensContinuePrefix, Given, Recs
  <2>6. commit.phase # "cut" /\ (Committing => h'[Owner] = h[Owner] /\ OwnToken(Owner)' = OwnToken(Owner))
    BY <1>0, <1>1, <2>1, <2>2 DEF OwnToken, CommitInv, Committing
  <2>7. CommitInv'
    BY <1>0, <1>1, <2>1, <2>6 DEF CommitInv, Committing, Recs
  <2> QED BY <1>0, <1>1, <2>4, <2>5, <2>7 DEF Protocol, PrefixInv, Recs
<1>3. ASSUME NEW w \in Team, FlushFails(w) PROVE Protocol'
  BY <1>0, <1>3, FaultEnds, EndsKeeps DEF FlushFails, Ends
<1>4. ASSUME NEW closing \in BOOLEAN, FlushAndCommit(closing) PROVE Protocol'
  <2>1. h[Owner].up /\ commit.phase = "idle" /\ UNCHANGED tokens /\ h[Owner] \in Handle
    BY <1>0, <1>4 DEF FlushAndCommit, Free, Typed
  <2>2. \A u : Sent(u)' = Sent(u)
    BY <2>1 DEF Sent
  <2>3. ASSUME NEW me \in Handle, h' = [h EXCEPT ![Owner] = me],
               me.up => me.view = h[Owner].view /\ me.next = h[Owner].next /\ me.pending = h[Owner].pending,
               CommitInv'
        PROVE  Protocol'
    <3>1. h'[Owner] = me /\ \A u \in Team \ {Owner} : h'[u] = h[u]
      BY <1>0, <2>3, SetHandle
    <3>2. \A u \in Team : Knows(u)'
      BY <1>0, <1>1, <2>1, <2>2, <2>3, <3>1 DEF Knows
    <3>3. TokensContinuePrefix'
      BY <1>0, <1>1, <2>1, <2>2, <2>3, <3>1 DEF TokensContinuePrefix, Recs
    <3> QED BY <1>0, <1>1, <2>3, <3>2, <3>3 DEF Protocol, PrefixInv, Recs
  <2>4. LET c == Clean(h[Owner]) IN
        c \in Handle /\ c.up /\ c.view = h[Owner].view /\ c.next = h[Owner].next /\ c.pending = h[Owner].pending
    BY <2>1, FlushedFacts
  <2>5. PICK others \in SUBSET tokens :
           LET ts == others \cup {OwnToken(Owner)} IN
           \/ Verify(ts) /\ BeginCommit(ts, closing) /\ h' = [h EXCEPT ![Owner] = Clean(@)]
           \/ ~Verify(ts) /\ UNCHANGED commit /\ h' = [h EXCEPT ![Owner] = IF closing THEN NoHandle ELSE Clean(@)]
    BY <1>4 DEF FlushAndCommit
  <2>6. CASE LET ts == others \cup {OwnToken(Owner)} IN
             Verify(ts) /\ BeginCommit(ts, closing) /\ h' = [h EXCEPT ![Owner] = Clean(@)]
    <3>1. h'[Owner] = Clean(h[Owner])
      BY <1>0, <2>4, <2>6, SetHandle
    <3>2. CommitInv'
      BY <1>0, <2>1, <2>4, <2>6, <3>1, BeginKeeps
    <3> QED BY <2>3, <2>4, <2>6, <3>2
  <2>7. CASE UNCHANGED commit /\ h' = [h EXCEPT ![Owner] = IF closing THEN NoHandle ELSE Clean(@)]
    <3>1. CommitInv'
      BY <2>1, <2>7 DEF CommitInv, Committing
    <3>2. NoHandle \in Handle /\ ~NoHandle.up
      BY NoHandleTyped DEF NoHandle
    <3> QED BY <2>3, <2>4, <2>7, <3>1, <3>2
  <2> QED BY <2>5, <2>6, <2>7
<1> QED BY <1>2, <1>3, <1>4

\* What WriteManifest makes of the tokens: those that are used carried what is committed.
LEMMA ManifestMoves ==
    ASSUME Typed, Protocol, WriteManifest
    PROVE  /\ UNCHANGED <<mode, shape, disk, last>> /\ Team' = Team
           /\ commit.items \cap manifest = {} /\ manifest' = manifest \cup commit.items
           /\ commit' = NoCommit
           /\ h[Owner].up
           /\ \A w \in Team \ {Owner} : h'[w] = h[w] /\ commit.items \subseteq Sent(w)
           /\ commit.items \subseteq Sent(Owner) \cup h[Owner].pending
           /\ \A w \in Team : Sent(w)' \subseteq Sent(w) /\ Sent(w) \subseteq Sent(w)' \cup commit.items
           /\ h'[Owner] \in Handle /\ ~NoHandle.up
           /\ h'[Owner] # NoHandle =>
                 /\ h'[Owner].up = h[Owner].up
                 /\ h'[Owner].view = manifest' /\ h'[Owner].next = h[Owner].next
                 /\ h'[Owner].pending = h[Owner].pending \ commit.items
                 /\ h'[Owner].buf = h[Owner].buf /\ h'[Owner].open = h[Owner].open
                 /\ h'[Owner].slots = h[Owner].slots /\ h'[Owner].dirty = h[Owner].dirty
                 /\ h'[Owner].flushed = h[Owner].flushed /\ h'[Owner].reload = h[Owner].reload
<1>0. /\ Owner \in Team /\ Team' = Team /\ commit.phase = "manifest" /\ UNCHANGED <<mode, shape, disk, last>>
      /\ manifest' = manifest \cup commit.items /\ commit' = NoCommit
      /\ h' = [h EXCEPT ![Owner] = AfterCommit(Committed(h[Owner], commit.items))]
      /\ tokens' = tokens \ commit.used
  BY ModeFacts DEF WriteManifest, Team
<1>1. /\ h[Owner].up /\ commit.items \cap manifest = {} /\ \A t \in commit.used : t.items = commit.items
      /\ commit.used \subseteq tokens \cup {OwnToken(Owner)}
      /\ \A w \in Team : \E t \in commit.used : t.from = w
  BY <1>0 DEF Protocol, CommitInv, Committing
<1>2. ASSUME NEW w \in Team \ {Owner} PROVE commit.items \subseteq Sent(w)
  <2>1. PICK t \in commit.used : t.from = w
    BY <1>1
  <2>2. t \in tokens /\ t.items = commit.items
    BY <1>0, <1>1, <2>1, OwnTokenFacts
  <2> QED BY <2>1, <2>2 DEF Sent
<1>3. commit.items \subseteq Sent(Owner) \cup h[Owner].pending
  <2>1. PICK t \in commit.used : t.from = Owner
    BY <1>0, <1>1
  <2>2. t.items = commit.items /\ (t \in tokens \/ t.items = h[Owner].pending)
    BY <1>0, <1>1, <2>1, OwnTokenFacts
  <2> QED BY <2>1, <2>2 DEF Sent
<1>4. ASSUME NEW w \in Team PROVE Sent(w)' \subseteq Sent(w) /\ Sent(w) \subseteq Sent(w)' \cup commit.items
  <2>1. Sent(w)' \subseteq Sent(w)
    BY <1>0 DEF Sent
  <2>2. \A t \in tokens : t.from = w => t \in tokens' \/ t.items = commit.items
    BY <1>0, <1>1
  <2> QED BY <2>1, <2>2 DEF Sent
<1> DEFINE me == Committed(h[Owner], commit.items)
<1>5. /\ me \in Handle /\ me.up = h[Owner].up /\ me.view = manifest' /\ me.next = h[Owner].next
      /\ me.pending = h[Owner].pending \ commit.items
      /\ me.buf = h[Owner].buf /\ me.open = h[Owner].open /\ me.slots = h[Owner].slots
      /\ me.dirty = h[Owner].dirty /\ me.flushed = h[Owner].flushed /\ me.reload = h[Owner].reload
  <2>1. h[Owner] \in Handle /\ commit.items \in SUBSET Item /\ manifest \in SUBSET Item
    BY <1>0 DEF Typed
  <2> QED BY <1>0, <2>1 DEF Committed, Handle
<1> HIDE DEF me
<1>6. (h'[Owner] = me \/ h'[Owner] = NoHandle) /\ \A w \in Team \ {Owner} : h'[w] = h[w]
  BY <1>0, <1>5, AfterCommitTyped, SetHandle DEF AfterCommit, me
<1>7. NoHandle \in Handle /\ ~NoHandle.up
  BY NoHandleTyped DEF NoHandle
<1> QED BY <1>0, <1>1, <1>2, <1>3, <1>4, <1>5, <1>6, <1>7

\* A commit that fails leaves the owner's handle, or none.
LEMMA CommitFailsLeaves ==
    ASSUME Typed, CommitFails
    PROVE  /\ UNCHANGED <<mode, disk, manifest, tokens, last>> /\ Team' = Team
           /\ commit' = NoCommit
           /\ h'[Owner] = h[Owner] \/ h'[Owner] = NoHandle
           /\ \A w \in Team \ {Owner} : h'[w] = h[w]
<1>1. Owner \in Team /\ h[Owner] \in Handle
  BY ModeFacts DEF Typed
<1> QED BY <1>1, AfterCommitTyped, SetHandle DEF CommitFails, AfterCommit, Team

\* Committing keeps the protocol.
LEMMA CommitKeeps ==
    ASSUME Typed, Protocol, Commit \/ GrowShapes \/ WriteManifest \/ CommitFails
    PROVE  Protocol'
<1>0. Owner \in Team /\ Team' = Team /\ UNCHANGED mode
  BY ModeFacts DEF Commit, GrowShapes, WriteManifest, CommitFails, Team
<1>1. (\A w \in Team : Knows(w)) /\ CommitInv /\ (~mode.indexed => Prefix(Recs(manifest))) /\ TokensContinuePrefix
  BY DEF Protocol, PrefixInv
<1>2. ASSUME UNCHANGED <<manifest, h, tokens>>, CommitInv' PROVE Protocol'
  BY <1>0, <1>1, <1>2 DEF Protocol, Knows, PrefixInv, TokensContinuePrefix, Recs, Sent
<1>3. CASE Commit
  <2>1. PICK ts \in SUBSET tokens : Verify(ts) /\ BeginCommit(ts, FALSE)
    BY <1>3 DEF Commit
  <2>2. CommitInv'
    BY <1>3, <2>1, BeginKeeps DEF Commit, Free
  <2> QED BY <1>2, <1>3, <2>2 DEF Commit
<1>4. CASE GrowShapes
  <2>1. /\ commit'.phase = "manifest" /\ commit'.items = commit.items /\ commit'.used = commit.used
        /\ Committing /\ UNCHANGED <<manifest, h, tokens>>
    BY <1>4 DEF GrowShapes, Typed, Committing
  <2>2. OwnToken(Owner)' = OwnToken(Owner)
    BY <2>1 DEF OwnToken
  <2>3. CommitInv'
    BY <1>0, <1>1, <2>1, <2>2 DEF CommitInv, Committing, Recs
  <2> QED BY <1>2, <2>1, <2>3
<1>5. CASE WriteManifest
  <2>1. ASSUME NEW w \in Team PROVE Knows(w)'
    <3>1. CASE w = Owner
      BY <1>5, <3>1, ManifestMoves DEF Knows
    <3>2. CASE w # Owner
      <4>1. /\ h'[w] = h[w] /\ commit.items \subseteq Sent(w) /\ Sent(w)' \subseteq Sent(w)
            /\ manifest' = manifest \cup commit.items
        BY <1>5, <3>2, ManifestMoves
      <4> QED BY <1>1, <3>2, <4>1 DEF Knows
    <3> QED BY <3>1, <3>2
  <2>2. TokensContinuePrefix'
    <3>1. ASSUME NEW w \in Team, h'[w].up
          PROVE  h[w].up /\ h'[w].next = h[w].next /\ manifest' \cup Sent(w)' \cup h'[w].pending = Given(w)
      <4>1. CASE w = Owner
        BY <1>5, <3>1, <4>1, ManifestMoves DEF Given
      <4>2. CASE w # Owner
        BY <1>5, <3>1, <4>2, ManifestMoves DEF Given
      <4> QED BY <4>1, <4>2
    <3> QED BY <1>0, <1>1, <3>1 DEF TokensContinuePrefix, Given, Recs
  <2>3. ~mode.indexed => Prefix(Recs(manifest'))
    BY <1>1, <1>5, ManifestMoves DEF CommitInv, Committing, WriteManifest
  <2>4. CommitInv'
    BY <1>5, ManifestMoves DEF CommitInv, Committing, NoCommit
  <2> QED BY <1>0, <2>1, <2>2, <2>3, <2>4 DEF Protocol, PrefixInv, Recs
<1>6. CASE CommitFails
  <2>1. \A u \in Team : h'[u] = h[u] \/ ~h'[u].up
    BY <1>6, CommitFailsLeaves DEF NoHandle
  <2>2. \A u : Sent(u)' = Sent(u)
    BY <1>6, CommitFailsLeaves DEF Sent
  <2>3. CommitInv'
    BY <1>6, CommitFailsLeaves DEF CommitInv, Committing, NoCommit
  <2>4. manifest' = manifest
    BY <1>6, CommitFailsLeaves
  <2> QED BY <1>0, <1>1, <2>1, <2>2, <2>3, <2>4 DEF Protocol, Knows, PrefixInv, TokensContinuePrefix, Recs
<1> QED BY <1>3, <1>4, <1>5, <1>6

LEMMA InitProtocol == Init => Protocol
<1> SUFFICES ASSUME Init PROVE Protocol
  OBVIOUS
<1>1. Typed
  BY InitTyped
<1>2. /\ manifest = {} /\ tokens = {} /\ commit.phase = "idle"
      /\ h = [w \in Team |-> IF w = Owner THEN [NoHandle EXCEPT !.up = TRUE] ELSE NoHandle]
  BY DEF Init, NoCommit
<1>3. \A w \in Team : h[w].view = {} /\ h[w].tokened = {} /\ h[w].pending = {} /\ h[w].next = 0
  BY <1>2 DEF NoHandle
<1>4. \A w : Sent(w) = {}
  BY <1>2 DEF Sent
<1>5. Recs({}) = {} /\ Prefix({})
  <2>1. Cardinality({}) = 0
    BY FS_EmptySet
  <2> QED BY <2>1 DEF Recs, Prefix
<1>6. \A w \in Team : Knows(w)
  BY <1>2, <1>3, <1>4 DEF Knows
<1>7. ASSUME NEW w \in Team
      PROVE  Recs(manifest \cup Sent(w) \cup h[w].pending) = 0 .. h[w].next - 1
  <2>1. manifest \cup Sent(w) \cup h[w].pending = {}
    BY <1>2, <1>3, <1>4
  <2>2. h[w].next = 0
    BY <1>3
  <2> QED BY <2>1, <2>2, <1>5
<1>8. PrefixInv
  BY <1>2, <1>5, <1>7 DEF PrefixInv, TokensContinuePrefix
<1>9. CommitInv
  BY <1>2 DEF CommitInv, Committing
<1> QED BY <1>6, <1>8, <1>9 DEF Protocol

LEMMA ProtocolStep == Polite /\ Typed /\ Protocol /\ [Next]_vars => Protocol'
<1> SUFFICES ASSUME Polite, Typed, Protocol, [Next]_vars PROVE Protocol'
  OBVIOUS
<1>1. CASE UNCHANGED vars
  BY <1>1 DEF vars, Protocol, Knows, CommitInv, Committing, PrefixInv, TokensContinuePrefix, OwnToken, Team, Recs, Sent
<1>2. CASE Preempt
  BY <1>2, EndsKeeps DEF Preempt, Ends
<1>3. ASSUME NEW w \in Team,
             \/ WriteRecord(w) \/ \E i \in Rec, v \in Value : WriteRecordAt(w, i, v)
             \/ \E x \in mode.statics, v \in Value : WriteStatic(w, x, v)
             \/ \E x \in Item : RefuseWrite(w, x)
      PROVE  Protocol'
  BY <1>3, WritesProceed, ProceedsKeeps, EndsKeeps
<1> QED BY <1>1, <1>2, <1>3, OpeningKeeps, FlushKeeps, CommitKeeps DEF Next

LEMMA ProtocolAlways == Polite => (Spec => [](Typed /\ Protocol))
<1>1. Init => Typed /\ Protocol
  BY InitTyped, InitProtocol
<1>2. Polite /\ Typed /\ Protocol /\ [Next]_vars => (Typed /\ Protocol)'
  BY TypedStep, ProtocolStep
<1>3. ASSUME Polite PROVE Spec => [](Typed /\ Protocol)
  <2>1. Typed /\ Protocol /\ [Next]_vars => (Typed /\ Protocol)'
    BY <1>2, <1>3
  <2> QED BY <1>1, <2>1, PTL DEF Spec
<1> QED BY <1>3

\* In append mode what a writer has written beyond the committed records, sent or not, is
\* exactly their continuation (write_record, flush, commit, resume).
THEOREM TokensContinuePrefixAlways == Polite => (Spec => []TokensContinuePrefix)
<1>1. Typed /\ Protocol => TokensContinuePrefix
  BY DEF Protocol, PrefixInv
<1> QED BY <1>1, ProtocolAlways, PTL

\* Opening, flushing and committing leave no new item pending.
LEMMA NothingNewPending ==
    ASSUME Typed, Protocol, Polite, NEW u \in Team,
           \/ ResumeOwner \/ TruncateManifest \/ \E n \in 0 .. NumRecords : TruncateShapes(n)
           \/ \E w \in Team : OpenContributor(w) \/ Close(w) \/ Flush(w) \/ FlushFails(w)
           \/ Commit \/ GrowShapes \/ WriteManifest \/ CommitFails \/ Preempt
           \/ \E closing \in BOOLEAN : FlushAndCommit(closing)
           \/ \E X \in SUBSET Item : Invalidate(X)
    PROVE  h'[u].pending \subseteq h[u].pending
<1>0. Owner \in Team /\ manifest \in SUBSET Item /\ commit.items \in SUBSET Item /\ \A w \in Team : h[w] \in Handle
  BY ModeFacts DEF Typed
<1>1. ASSUME NEW w \in Team, NEW me \in Handle, h' = [h EXCEPT ![w] = me], me.pending \subseteq h[w].pending
      PROVE  h'[u].pending \subseteq h[u].pending
  BY <1>1, SetHandle
<1>2. NoHandle \in Handle /\ NoHandle.pending = {}
  BY NoHandleTyped DEF NoHandle
<1>3. CASE ResumeOwner \/ TruncateManifest
  BY <1>0, <1>1, <1>3, OpenedFacts DEF ResumeOwner, TruncateManifest
<1>4. ASSUME NEW w \in Team, OpenContributor(w) \/ Close(w) PROVE h'[u].pending \subseteq h[u].pending
  BY <1>0, <1>1, <1>2, <1>4, OpenedFacts DEF OpenContributor, Close
<1>5. ASSUME NEW w \in Team, Flush(w) PROVE h'[u].pending \subseteq h[u].pending
  BY <1>0, <1>1, <1>5, FlushedFacts DEF Flush
<1>6. CASE Preempt \/ \E w \in Team : FlushFails(w)
  BY <1>2, <1>6, AbortFacts, FaultEnds DEF Preempt, FlushFails
<1>7. ASSUME NEW closing \in BOOLEAN, FlushAndCommit(closing) PROVE h'[u].pending \subseteq h[u].pending
  BY <1>0, <1>1, <1>2, <1>7, FlushedFacts DEF FlushAndCommit
<1>8. CASE WriteManifest
  <2>1. h' = [h EXCEPT ![Owner] = AfterCommit(Committed(h[Owner], commit.items))]
    BY <1>8 DEF WriteManifest
  <2> DEFINE me == Committed(h[Owner], commit.items)
  <2>2. me \in Handle /\ me.pending = h[Owner].pending \ commit.items
    BY <1>0 DEF Committed, Handle
  <2> HIDE DEF me
  <2>3. AfterCommit(me) \in Handle /\ AfterCommit(me).pending \subseteq h[Owner].pending
    BY <1>2, <2>2 DEF AfterCommit
  <2> QED BY <1>0, <1>1, <2>1, <2>3 DEF me
<1>9. CASE CommitFails
  BY <1>2, <1>9, CommitFailsLeaves
<1>10. ASSUME NEW X \in SUBSET Item, Invalidate(X) PROVE h'[u].pending \subseteq h[u].pending
  <2> DEFINE me == [h[Owner] EXCEPT !.view = @ \ X]
  <2>1. me \in Handle /\ me.pending = h[Owner].pending
    BY <1>0 DEF Handle
  <2> QED BY <1>0, <1>1, <1>10, <2>1 DEF Invalidate
<1>11. CASE UNCHANGED h
  BY <1>11
<1> QED BY <1>3, <1>4, <1>5, <1>6, <1>7, <1>8, <1>9, <1>10, <1>11 DEF TruncateShapes, Commit, GrowShapes

\* A write of a committed item is refused.
LEMMA RefusedStep ==
    ASSUME Polite, Typed, Protocol, Next, NEW u \in Team
    PROVE  h'[u].pending \cap manifest' \subseteq h[u].pending
<1>1. ASSUME NEW w \in Team,
             \/ WriteRecord(w) \/ \E i \in Rec, v \in Value : WriteRecordAt(w, i, v)
             \/ \E x \in mode.statics, v \in Value : WriteStatic(w, x, v)
             \/ \E x \in Item : RefuseWrite(w, x)
      PROVE  h'[u].pending \cap manifest' \subseteq h[u].pending
  <2>1. CASE Ends
    <3>1. h'[u].pending = {}
      BY <2>1, AbortFacts DEF Ends, NoHandle
    <3> QED BY <3>1
  <2>2. ASSUME NEW X \in SUBSET Item, Proceeds(w, X) PROVE h'[u].pending \cap manifest' \subseteq h[u].pending
    <3>1. CASE u = w
      BY <2>2, <3>1 DEF Proceeds
    <3>2. CASE u # w
      BY <2>2, <3>2 DEF Proceeds
    <3> QED BY <3>1, <3>2
  <2> QED BY <1>1, <2>1, <2>2, WritesProceed
<1> QED BY <1>1, NothingNewPending DEF Next

\* Writing an item that is committed is an error at the call, whichever writer makes it and
\* however old its view is (record_committed, refresh_view).
THEOREM RewriteIsRefusedAlways == Polite => (Spec => RewriteIsRefused)
<1>1. ASSUME Polite PROVE Spec => RewriteIsRefused
  <2>1. Typed /\ Protocol /\ [Next]_vars
          => [\A w \in Team : h'[w].pending \cap manifest' \subseteq h[w].pending]_vars
    BY <1>1, RefusedStep
  <2>2. Spec => [](Typed /\ Protocol)
    BY <1>1, ProtocolAlways
  <2> QED BY <2>1, <2>2, PTL DEF Spec, RewriteIsRefused
<1> QED BY <1>1

-----------------------------------------------------------------------------
(* The store: what is given is on disk, or waits in a buffer.              *)

\* Writing dirty shards from the buffer leaves what is given as it was accepted last.
LEMMA FlushWrites ==
    ASSUME Typed, NEW w \in Team, Safe(w), NEW ss, ss \subseteq h[w].dirty,
           NEW x \in Given(w), disk[w][x] = last[w][x] \/ (x \in Rec /\ Shard(x) \in ss)
    PROVE  Written(w, ss, h[w].buf)[w][x] = last[w][x]
<1>1. h[w].buf \in [Rec -> Cell] /\ x \in Item
  BY DEF Typed, Handle, Given, Sent, Token
<1>2. Written(w, ss, h[w].buf)[w][x] = IF x \in Rec /\ Shard(x) \in ss THEN h[w].buf[x] ELSE disk[w][x]
  BY <1>1, WrittenFacts
<1>3. ASSUME x \in Rec, Shard(x) \in ss PROVE h[w].buf[x] = last[w][x]
  BY <1>3 DEF Safe, Buffered
<1> QED BY <1>2, <1>3

\* A writer whose buffers stay, and which has given no more than before.
LEMMA StoreStays ==
    ASSUME Typed, NEW w \in Team, Safe(w), mode' = mode,
           disk'[w] = disk[w], last'[w] = last[w],
           manifest' \cup Sent(w)' \subseteq Given(w),
           \A x \in manifest' \cup Sent(w)' : last[w][x] \in Value /\ disk[w][x] = last[w][x],
           \/ h'[w] = NoHandle
           \/ /\ h'[w].up = h[w].up /\ h'[w].pending \subseteq h[w].pending
              /\ h'[w].buf = h[w].buf /\ h'[w].open = h[w].open /\ h'[w].slots = h[w].slots
              /\ h'[w].dirty = h[w].dirty /\ h'[w].flushed = h[w].flushed
              /\ h'[w].reload = h[w].reload /\ h'[w].next = h[w].next
    PROVE  Safe(w)'
<1>1. CASE h'[w] = NoHandle
  BY <1>1 DEF Safe, OnDisk, NoHandle
<1>2. CASE /\ h'[w].up = h[w].up /\ h'[w].pending \subseteq h[w].pending
           /\ h'[w].buf = h[w].buf /\ h'[w].open = h[w].open /\ h'[w].slots = h[w].slots
           /\ h'[w].dirty = h[w].dirty /\ h'[w].flushed = h[w].flushed
           /\ h'[w].reload = h[w].reload /\ h'[w].next = h[w].next
  <2>1. Given(w)' \subseteq Given(w)
    BY <1>2 DEF Given
  <2>2. OnDisk(w)'
    BY <1>2 DEF Safe, OnDisk
  <2>3. h[w].up => Buffered(w)'
    BY <1>2, <2>1 DEF Safe, Buffered
  <2> QED BY <1>2, <2>2, <2>3 DEF Safe
<1> QED BY <1>1, <1>2

\* In particular one that is not part of the step.
LEMMA OthersStay ==
    ASSUME Typed, NEW w \in Team, Safe(w), mode' = mode,
           disk'[w] = disk[w], last'[w] = last[w], h'[w] = h[w] \/ h'[w] = NoHandle,
           manifest' \cup Sent(w)' \subseteq manifest \cup Sent(w)
    PROVE  Safe(w)'
<1>1. manifest' \cup Sent(w)' \subseteq Given(w)
  BY DEF Given
<1>2. \A x \in manifest' \cup Sent(w)' : last[w][x] \in Value /\ disk[w][x] = last[w][x]
  BY DEF Safe, OnDisk
<1>3. CASE h'[w] = NoHandle
  BY <1>1, <1>2, <1>3, StoreStays
<1>4. CASE h'[w] = h[w]
  BY <1>1, <1>2, <1>4, StoreStays
<1> QED BY <1>3, <1>4

\* A handle just opened has read back what is committed of its open shard.
LEMMA OpenedIsSafe ==
    ASSUME Typed, NEW w \in Team, Safe(w), NEW seen \in SUBSET Item, seen \subseteq manifest,
           ~mode.indexed => Prefix(Recs(seen)), h'[w] = Opened(w, seen), manifest' = seen, Sent(w)' = {},
           UNCHANGED <<mode, disk, last>>
    PROVE  Safe(w)'
<1> DEFINE n == Cardinality(Recs(seen))
<1>1. \A x \in seen : last[w][x] \in Value /\ disk[w][x] = last[w][x]
  BY DEF Safe, OnDisk
<1>2. /\ h'[w].up /\ h'[w].reload /\ h'[w].dirty = {} /\ h'[w].pending = {}
      /\ mode.indexed => h'[w].open = {}
      /\ ~mode.indexed =>
            /\ h'[w].next = n /\ n \in Nat /\ h'[w].slots = OpenSlots(n)
            /\ h'[w].open = {Shard(i) : i \in OpenSlots(n)}
            /\ \A x \in OpenSlots(n) : h'[w].buf[x] = disk[w][x]
  BY OpenedFacts
<1>3. ~mode.indexed => Recs(seen) = 0 .. n - 1
  BY DEF Prefix
<1> HIDE DEF n
<1>4. Given(w)' = seen
  BY <1>2 DEF Given
<1>5. OnDisk(w)'
  BY <1>1, <1>2 DEF OnDisk
<1>6. ASSUME ~mode.indexed, NEW x \in Rec, x < n, Shard(x) = Shard(n) \/ Shard(x) \in h'[w].open
      PROVE  x \in OpenSlots(n) /\ Shard(x) \in h'[w].open
  BY <1>2, <1>6 DEF OpenSlots
<1>7. ~mode.indexed =>
         /\ h'[w].slots \subseteq 0 .. h'[w].next - 1
         /\ \A x \in Rec : x < h'[w].next /\ Shard(x) = Shard(h'[w].next) => Shard(x) \in h'[w].open
  <2>1. ~mode.indexed => OpenSlots(n) \subseteq 0 .. n - 1
    BY <1>2, ModeFacts DEF OpenSlots
  <2> QED BY <1>2, <1>6, <2>1
<1>8. \A x \in Rec \cap seen : Shard(x) \in h'[w].open => h'[w].buf[x] = last[w][x]
  <2>1. ~mode.indexed => \A x \in Rec \cap seen : x < n
    BY <1>2, <1>3 DEF Recs
  <2> QED BY <1>1, <1>2, <1>6, <2>1
<1>9. Buffered(w)'
  BY <1>2, <1>4, <1>7, <1>8 DEF Buffered
<1> QED BY <1>2, <1>5, <1>9 DEF Safe

\* A handle whose dirty shards were written.
LEMMA FlushedIsSafe ==
    ASSUME Typed, NEW w \in Team, Safe(w), h[w].up, mode' = mode, last' = last,
           disk' = Written(w, h[w].dirty, h[w].buf), Given(w)' \subseteq Given(w),
           \/ h'[w] = NoHandle
           \/ /\ h'[w].up /\ h'[w].dirty = {} /\ h'[w].flushed = h[w].flushed \cup h[w].dirty
              /\ h'[w].buf = h[w].buf /\ h'[w].open = h[w].open /\ h'[w].slots = h[w].slots
              /\ h'[w].reload = h[w].reload /\ h'[w].next = h[w].next
    PROVE  /\ Safe(w)'
           /\ \A x \in Given(w) : last[w][x] \in Value /\ disk'[w][x] = last[w][x]
<1>1. \A x \in Given(w) : last[w][x] \in Value /\ disk'[w][x] = last[w][x]
  <2>1. \A x \in Given(w) : /\ last[w][x] \in Value
                            /\ disk[w][x] = last[w][x] \/ (x \in Rec /\ Shard(x) \in h[w].dirty)
    BY DEF Safe, OnDisk, Given
  <2> QED BY <2>1, FlushWrites
<1>2. OnDisk(w)'
  BY <1>1 DEF OnDisk, Given
<1>3. CASE h'[w] = NoHandle
  BY <1>1, <1>2, <1>3 DEF Safe, NoHandle
<1>4. CASE /\ h'[w].up /\ h'[w].dirty = {} /\ h'[w].flushed = h[w].flushed \cup h[w].dirty
           /\ h'[w].buf = h[w].buf /\ h'[w].open = h[w].open /\ h'[w].slots = h[w].slots
           /\ h'[w].reload = h[w].reload /\ h'[w].next = h[w].next
  <2>1. Buffered(w)'
    BY <1>4 DEF Safe, Buffered
  <2> QED BY <1>1, <1>2, <1>4, <2>1 DEF Safe
<1> QED BY <1>1, <1>3, <1>4

\* The end of the job, if what is committed stayed on disk.
LEMMA EndIsSafe ==
    ASSUME Typed, StoreInv, Ends, \A w \in Team, x \in manifest : disk'[w][x] = last[w][x]
    PROVE  StoreInv'
<1>1. /\ tokens' = {} /\ commit'.phase = "idle" /\ Team' = Team /\ UNCHANGED <<mode, manifest>>
      /\ \A w \in Team : ~h'[w].up /\ h'[w].pending = {} /\ h'[w].dirty = {}
      /\ \A w \in Team, x \in manifest : last'[w][x] = last[w][x]
  BY AbortFacts DEF Ends, NoCommit, NoHandle, Team
<1>2. ASSUME NEW w \in Team PROVE Safe(w)'
  <2>1. \A x \in manifest : last[w][x] \in Value
    BY DEF StoreInv, Safe, OnDisk
  <2>2. Sent(w)' = {}
    BY <1>1 DEF Sent
  <2> QED BY <1>1, <2>1, <2>2 DEF Safe, OnDisk
<1> QED BY <1>1, <1>2 DEF StoreInv, OwnIsOnDisk, Committing

\* The handle in which a record is placed: but for its view, the writer's own.
Places(me, w, i) ==
    /\ h[w].up /\ i \notin manifest \cup Sent(w)
    /\ me.up = h[w].up /\ me.next = h[w].next /\ me.reload = h[w].reload /\ me.buf = h[w].buf
    /\ me.open = h[w].open /\ me.slots = h[w].slots /\ me.dirty = h[w].dirty
    /\ me.flushed = h[w].flushed /\ me.pending = h[w].pending
    /\ ~mode.indexed => i = h[w].next /\ \A x \in Rec \cap Given(w) : x < i

\* Placing a record loses nothing that is given: its shard is read back, or was open.
LEMMA PlacedKeeps ==
    ASSUME Typed, NEW w \in Team, Safe(w), NEW me \in Handle, NEW i \in Rec, NEW v \in Value,
           Places(me, w, i), NEW x \in (Rec \cap Given(w)) \ {i}
    PROVE  LET p == Placed(me, w, i, v) IN Shard(x) \in p.open => p.buf[x] = last[w][x]
<1> DEFINE p == Placed(me, w, i, v)
<1>1. /\ p.open = h[w].open \cup {Shard(i)}
      /\ Shard(x) = Shard(i) /\ Shard(i) \notin h[w].open /\ mode.indexed
           /\ (h[w].reload \/ Shard(i) \in h[w].flushed) => p.buf[x] = disk[w][x]
      /\ Shard(x) # Shard(i) \/ Shard(i) \in h[w].open => p.buf[x] = h[w].buf[x]
  BY PlacedFacts DEF Places
<1>2. Buffered(w) /\ OnDisk(w)
  BY DEF Safe, Places
<1> HIDE DEF p
<1>3. ASSUME Shard(x) \in h[w].open PROVE p.buf[x] = last[w][x]
  BY <1>1, <1>2, <1>3 DEF Buffered
<1>4. ASSUME Shard(x) \notin h[w].open, Shard(x) = Shard(i) PROVE p.buf[x] = last[w][x]
  <2>1. mode.indexed
    BY <1>2, <1>4 DEF Buffered, Places
  <2>2. p.buf[x] = disk[w][x]
    BY <1>1, <1>2, <1>4, <2>1 DEF Buffered
  <2>3. disk[w][x] = last[w][x]
    BY <1>2, <1>4 DEF OnDisk, Buffered, Given
  <2> QED BY <2>2, <2>3
<1> QED BY <1>1, <1>3, <1>4 DEF p

\* The next record of append mode is in the open shard or starts one, and a shard that is
\* complete is not written to again.
LEMMA NextShard ==
    ASSUME Typed, NEW w \in Team, Safe(w), NEW me \in Handle, NEW i \in Rec, NEW v \in Value,
           Places(me, w, i), ~mode.indexed
    PROVE  LET p == Placed(me, w, i, v) IN
           /\ p.slots \subseteq 0 .. (i + 1) - 1
           /\ \A x \in Rec : x < i + 1 /\ Shard(x) = Shard(i + 1) =>
                 Shard(x) = Shard(i) /\ ~(Whole(Shard(i)) \subseteq p.slots)
<1> DEFINE p == Placed(me, w, i, v)
<1>1. i \in Nat /\ i + 1 \in Nat /\ Shard(i) \in Nat /\ Shard(i + 1) \in Nat
  BY ModeFacts, ShardBounds
<1>2. p.slots = h[w].slots \cup {i} /\ h[w].slots \subseteq 0 .. i - 1
  BY PlacedFacts DEF Places, Safe, Buffered
<1> HIDE DEF p
<1>3. p.slots \subseteq 0 .. (i + 1) - 1
  BY <1>1, <1>2
<1>4. ASSUME NEW x \in Rec, x < i + 1, Shard(x) = Shard(i + 1)
      PROVE  Shard(x) = Shard(i)
  <2>1. x \in Nat /\ x <= i /\ i <= i + 1 /\ Shard(x) \in Nat
    BY <1>1, <1>4, ModeFacts, ShardBounds
  <2>2. Shard(x) <= Shard(i) /\ Shard(i) <= Shard(i + 1)
    BY <1>1, <2>1, ShardMonotone
  <2> QED BY <1>1, <1>4, <2>1, <2>2
<1>5. ASSUME Whole(Shard(i)) \subseteq p.slots
      PROVE  Shard(i + 1) # Shard(i)
  <2> DEFINE a == Shard(i) * ShardLen
             b == (Shard(i) + 1) * ShardLen
  <2>1. a \in Nat /\ b = a + ShardLen /\ ShardLen \in Nat /\ ShardLen > 0
    BY <1>1, Sizes
  <2>2. a .. b - 1 \subseteq 0 .. (i + 1) - 1
    BY <1>3, <1>5 DEF Whole
  <2> HIDE DEF a, b
  <2>3. b - 1 \in a .. b - 1
    BY <2>1
  <2>4. b - 1 <= i
    BY <1>1, <2>2, <2>3
  <2> QED BY <1>1, <2>4, ShardEnds DEF b
<1> QED BY <1>3, <1>4, <1>5 DEF p

\* A record accepted waits in a dirty shard, or is on disk with its complete shard.
LEMMA FinishIsSafe ==
    ASSUME Typed, NEW w \in Team, Safe(w), NEW me \in Handle, NEW i \in Rec, NEW v \in Value, NEW next \in Nat,
           Places(me, w, i), Finish(w, Placed(me, w, i, v), i, v, next),
           next = IF mode.indexed THEN h[w].next ELSE i + 1, UNCHANGED <<mode, manifest>>
    PROVE  /\ Safe(w)' /\ tokens' = tokens
           /\ \A u \in Team \ {w} : disk'[u] = disk[u] /\ last'[u] = last[u] /\ h'[u] = h[u]
<1> DEFINE p == Placed(me, w, i, v)
           s == Shard(i)
           a == [p EXCEPT !.dirty = @ \cup {s}, !.next = next]
           c == Closed(p, s)
           b == [c EXCEPT !.next = next]
<1>1. /\ p \in Handle
      /\ p.up /\ p.reload = h[w].reload /\ p.dirty = h[w].dirty /\ p.flushed = h[w].flushed
      /\ p.pending = h[w].pending \cup {i} /\ p.open = h[w].open \cup {s} /\ p.buf[i] = v
  <2>1. /\ p \in Handle
        /\ p.up = me.up /\ p.reload = me.reload /\ p.dirty = me.dirty /\ p.flushed = me.flushed
        /\ p.pending = me.pending \cup {i} /\ p.open = me.open \cup {s} /\ p.buf[i] = v
    BY PlacedFacts
  <2> HIDE DEF p
  <2> QED BY <2>1 DEF Places
<1>2. \A x \in (Rec \cap Given(w)) \ {i} : Shard(x) \in p.open => p.buf[x] = last[w][x]
  BY PlacedKeeps
<1>3. ~mode.indexed =>
         /\ p.slots \subseteq 0 .. next - 1
         /\ \A x \in Rec : x < next /\ Shard(x) = Shard(next) =>
               Shard(x) = s /\ ~(Whole(s) \subseteq p.slots)
  BY NextShard
<1>4. s \in Shards /\ i \in Item /\ i \notin manifest /\ i \notin Sent(w) /\ OnDisk(w) /\ Buffered(w)
  BY DEF Shards, Item, Places, Safe
<1>5. /\ UNCHANGED <<tokens, commit>> /\ last' = [last EXCEPT ![w][i] = v]
      /\ \/ ~(Whole(s) \subseteq p.slots) /\ h' = [h EXCEPT ![w] = a] /\ disk' = disk
         \/ Whole(s) \subseteq p.slots /\ h' = [h EXCEPT ![w] = b] /\ disk' = Written(w, {s}, p.buf)
  BY DEF Finish
<1> HIDE DEF p
<1>6. /\ a \in Handle /\ a.up /\ a.pending = p.pending /\ a.open = p.open /\ a.buf = p.buf
      /\ a.dirty = p.dirty \cup {s} /\ a.flushed = p.flushed /\ a.slots = p.slots
      /\ a.next = next /\ a.reload = p.reload
  BY <1>1, <1>4 DEF Handle
<1>7. /\ b \in Handle /\ b.up /\ b.pending = p.pending /\ b.open = p.open \ {s}
      /\ \A x \in Rec : Shard(x) # s => b.buf[x] = p.buf[x]
      /\ b.dirty = p.dirty \ {s} /\ b.flushed = p.flushed \cup {s} /\ b.slots \subseteq p.slots
      /\ b.next = next /\ b.reload = p.reload
  <2>1. /\ c \in Handle /\ c.up = p.up /\ c.pending = p.pending /\ c.open = p.open \ {s}
        /\ \A x \in Rec : Shard(x) # s => c.buf[x] = p.buf[x]
        /\ c.dirty = p.dirty \ {s} /\ c.flushed = p.flushed \cup {s} /\ c.slots \subseteq p.slots
        /\ c.reload = p.reload
    <3>1. /\ c \in Handle /\ c.up = p.up /\ c.pending = p.pending /\ c.open = p.open \ {s}
          /\ c.slots = p.slots \ Slots(s)
          /\ c.dirty = p.dirty \ {s} /\ c.flushed = p.flushed \cup {s} /\ c.reload = p.reload
      <4>1. p \in Handle /\ s \in Shards
        BY <1>1, <1>4
      <4> HIDE DEF s
      <4> QED BY <4>1, ClosedFacts
    <3>2. \A x \in Rec : Shard(x) # s => c.buf[x] = p.buf[x]
      BY <1>1, ClosedFacts
    <3> HIDE DEF c
    <3> QED BY <3>1, <3>2
  <2> HIDE DEF c
  <2> QED BY <1>1, <2>1 DEF Handle
<1>8. /\ last'[w][i] = v /\ \A x \in Item \ {i} : last'[w][x] = last[w][x]
      /\ \A u \in Team \ {w} : last'[u] = last[u]
  BY <1>4, <1>5 DEF Typed
<1>9. Team' = Team /\ Sent(w)' = Sent(w)
  BY <1>5 DEF Team, Sent
<1>10. Given(w) \subseteq Item
  BY DEF Given, Sent, Typed, Token, Handle
<1>11. p.buf \in [Rec -> Cell]
  BY <1>1 DEF Handle
<1> HIDE DEF a, b, c
\* Until the shard is complete.
<1>12. CASE ~(Whole(s) \subseteq p.slots) /\ h' = [h EXCEPT ![w] = a] /\ disk' = disk
  <2>1. h'[w] = a /\ \A u \in Team \ {w} : h'[u] = h[u]
    BY <1>6, <1>12, SetHandle
  <2>2. Given(w)' = Given(w) \cup {i}
    BY <1>1, <1>6, <1>9, <2>1 DEF Given
  <2>3. OnDisk(w)'
    <3>1. \A x \in manifest \cup Sent(w) : last'[w][x] \in Value /\ disk'[w][x] = last'[w][x]
      BY <1>4, <1>8, <1>10, <1>12 DEF OnDisk, Given
    <3>2. \A x \in p.pending : /\ last'[w][x] \in Value
                               /\ disk'[w][x] = last'[w][x] \/ (x \in Rec /\ Shard(x) \in a.dirty)
      BY <1>1, <1>4, <1>6, <1>8, <1>10, <1>12 DEF OnDisk, Given
    <3> QED BY <1>6, <1>9, <2>1, <3>1, <3>2 DEF OnDisk
  <2>4. \A x \in Rec \cap Given(w)' : Shard(x) \in a.open => a.buf[x] = last'[w][x]
    BY <1>1, <1>2, <1>6, <1>8, <2>2 DEF Item
  <2>5. mode.indexed => \A x \in Rec \cap Given(w)' : Shard(x) \in a.open \/ a.reload \/ Shard(x) \in a.flushed
    BY <1>1, <1>4, <1>6, <2>2 DEF Buffered
  <2>6. a.dirty \subseteq a.open
    BY <1>1, <1>4, <1>6 DEF Buffered
  <2>7. ~mode.indexed =>
           /\ a.slots \subseteq 0 .. a.next - 1
           /\ \A x \in Rec : x < a.next /\ Shard(x) = Shard(a.next) => Shard(x) \in a.open
    BY <1>1, <1>3, <1>6
  <2>8. Buffered(w)'
    BY <2>1, <2>4, <2>5, <2>6, <2>7 DEF Buffered
  <2> QED BY <1>5, <1>6, <1>8, <1>12, <2>1, <2>3, <2>8 DEF Safe
\* When it is complete.
<1>13. CASE Whole(s) \subseteq p.slots /\ h' = [h EXCEPT ![w] = b] /\ disk' = Written(w, {s}, p.buf)
  <2>1. h'[w] = b /\ \A u \in Team \ {w} : h'[u] = h[u]
    BY <1>7, <1>13, SetHandle
  <2>2. Given(w)' = Given(w) \cup {i}
    BY <1>1, <1>7, <1>9, <2>1 DEF Given
  <2>3. /\ \A u \in Team \ {w} : disk'[u] = disk[u]
        /\ \A x \in Item : disk'[w][x] = IF x \in Rec /\ Shard(x) \in {s} THEN p.buf[x] ELSE disk[w][x]
    BY <1>11, <1>13, WrittenFacts
  <2>4. \A x \in Rec \cap Given(w)' : Shard(x) \in p.open => p.buf[x] = last'[w][x]
    BY <1>1, <1>2, <1>8, <2>2 DEF Item
  <2>5. ASSUME NEW x \in Given(w) \cup {i}
        PROVE  disk'[w][x] = last'[w][x] \/ (disk'[w][x] = disk[w][x] /\ ~(x \in Rec /\ Shard(x) = s))
    <3>1. x \in Item /\ s \in p.open
      BY <1>1, <1>4, <1>10
    <3>2. x \in Rec /\ Shard(x) = s => p.buf[x] = last'[w][x]
      BY <2>2, <2>4, <3>1
    <3> QED BY <2>3, <3>1, <3>2
  <2>6. OnDisk(w)'
    <3>1. \A x \in manifest \cup Sent(w) : last'[w][x] \in Value /\ disk'[w][x] = last'[w][x]
      <4>1. \A x \in manifest \cup Sent(w) :
               last[w][x] \in Value /\ disk[w][x] = last[w][x] /\ x # i /\ x \in Item /\ x \in Given(w)
        BY <1>4, <1>10 DEF OnDisk, Given
      <4> QED BY <1>8, <2>5, <4>1
    <3>2. \A x \in p.pending : /\ last'[w][x] \in Value
                               /\ disk'[w][x] = last'[w][x] \/ (x \in Rec /\ Shard(x) \in b.dirty)
      <4>1. ASSUME NEW x \in h[w].pending \ {i}
            PROVE  /\ last'[w][x] \in Value
                   /\ disk'[w][x] = last'[w][x] \/ (x \in Rec /\ Shard(x) \in b.dirty)
        <5>1. x \in Given(w) /\ x \in Item
          BY <1>10, <4>1 DEF Given
        <5>2. last[w][x] \in Value /\ (disk[w][x] = last[w][x] \/ (x \in Rec /\ Shard(x) \in h[w].dirty))
          BY <1>4, <4>1 DEF OnDisk
        <5>3. last'[w][x] = last[w][x]
          BY <1>8, <5>1
        <5> QED BY <1>1, <1>7, <2>5, <5>1, <5>2, <5>3
      <4>2. disk'[w][i] = last'[w][i] /\ last'[w][i] \in Value
        BY <1>1, <1>4, <1>8, <2>3
      <4> QED BY <1>1, <4>1, <4>2
    <3> QED BY <1>7, <1>9, <2>1, <3>1, <3>2 DEF OnDisk
  <2>7. \A x \in Rec \cap Given(w)' : Shard(x) \in b.open => b.buf[x] = last'[w][x]
    BY <1>7, <2>4
  <2>8. mode.indexed => \A x \in Rec \cap Given(w)' : Shard(x) \in b.open \/ b.reload \/ Shard(x) \in b.flushed
    BY <1>1, <1>4, <1>7, <2>2 DEF Buffered
  <2>9. b.dirty \subseteq b.open
    BY <1>1, <1>4, <1>7 DEF Buffered
  <2>10. ~mode.indexed =>
           /\ b.slots \subseteq 0 .. b.next - 1
           /\ \A x \in Rec : x < b.next /\ Shard(x) = Shard(b.next) => Shard(x) \in b.open
    <3>1. ~mode.indexed => b.slots \subseteq 0 .. b.next - 1
      BY <1>3, <1>7
    <3>2. ~mode.indexed => ~(\E x \in Rec : x < b.next /\ Shard(x) = Shard(b.next))
      BY <1>3, <1>7, <1>13
    <3> QED BY <3>1, <3>2
  <2>11. Buffered(w)'
    BY <2>1, <2>7, <2>8, <2>9, <2>10 DEF Buffered
  <2> QED BY <1>5, <1>7, <1>8, <2>1, <2>3, <2>6, <2>11 DEF Safe
<1> QED BY <1>5, <1>12, <1>13

\* The shard is not written, or it is: what is committed of it is the same.
LEMMA FaultIsSafe ==
    ASSUME Typed, StoreInv, Polite, NEW w \in Team, NEW me \in Handle, NEW i \in Rec, NEW v \in Value,
           Places(me, w, i), FinishFails(w, Placed(me, w, i, v), i), UNCHANGED <<mode, shape, manifest>>
    PROVE  StoreInv'
<1> DEFINE p == Placed(me, w, i, v)
<1>1. Abort /\ disk' \in {disk, Written(w, {Shard(i)}, p.buf)}
  BY FaultEnds DEF FinishFails
<1>2. p.buf \in [Rec -> Cell] /\ Shard(i) \in p.open
  BY PlacedFacts DEF Handle
<1>3. ASSUME NEW u \in Team, NEW x \in manifest PROVE disk'[u][x] = last[u][x]
  <2>1. disk[u][x] = last[u][x] /\ x \in Item /\ x \in Given(w) /\ Safe(w) /\ x # i
    BY DEF StoreInv, Safe, OnDisk, Typed, Given, Places
  <2>2. CASE disk' = disk
    BY <2>1, <2>2
  <2>3. CASE disk' = Written(w, {Shard(i)}, p.buf)
    <3>1. x \in Rec /\ Shard(x) = Shard(i) => p.buf[x] = last[w][x]
      BY <1>2, <2>1, PlacedKeeps
    <3> HIDE DEF p
    <3> QED BY <1>2, <2>1, <2>3, <3>1, WrittenFacts
  <2> QED BY <1>1, <2>2, <2>3
<1> QED BY <1>1, <1>3, EndIsSafe DEF Ends

\* A step of one writer leaves the others as they are.
LEMMA OneIsSafe ==
    ASSUME Typed, StoreInv, NEW w \in Team, Free(w), Safe(w)', UNCHANGED <<mode, manifest, commit>>,
           \A u \in Team \ {w} : /\ disk'[u] = disk[u] /\ last'[u] = last[u] /\ h'[u] = h[u]
                                 /\ Sent(u)' = Sent(u)
    PROVE  StoreInv'
<1>1. Team' = Team /\ Owner \in Team
  BY ModeFacts DEF Team
<1>2. ASSUME NEW u \in Team PROVE Safe(u)'
  <2>1. CASE u # w
    BY <2>1, OthersStay DEF StoreInv
  <2> QED BY <2>1
<1>3. OwnIsOnDisk'
  <2>1. Committing' => Committing /\ w # Owner
    BY DEF Committing, Free
  <2> QED BY <1>1, <2>1 DEF StoreInv, OwnIsOnDisk
<1> QED BY <1>1, <1>2, <1>3 DEF StoreInv

\* Writing keeps the store safe.
LEMMA WritingIsSafe ==
    ASSUME Typed, Protocol, StoreInv, Polite, NEW w \in Team,
           \/ WriteRecord(w) \/ \E i \in Rec, v \in Value : WriteRecordAt(w, i, v)
           \/ \E x \in mode.statics, v \in Value : WriteStatic(w, x, v)
           \/ \E x \in Item : RefuseWrite(w, x)
    PROVE  StoreInv'
<1>0. UNCHANGED <<mode, shape, manifest>> /\ Free(w) /\ h[w].up /\ h[w] \in Handle /\ Safe(w)
  BY DEF WriteRecord, WriteRecordAt, WriteStatic, RefuseWrite, Free, Typed, StoreInv
<1>1. ASSUME NEW me \in Handle, NEW i \in Rec, NEW v \in Value, NEW next \in Nat, Places(me, w, i),
             \/ FinishFails(w, Placed(me, w, i, v), i)
             \/ /\ Finish(w, Placed(me, w, i, v), i, v, next)
                /\ next = IF mode.indexed THEN h[w].next ELSE i + 1
      PROVE  StoreInv'
  <2>1. CASE Finish(w, Placed(me, w, i, v), i, v, next) /\ next = IF mode.indexed THEN h[w].next ELSE i + 1
    <3>1. /\ Safe(w)' /\ tokens' = tokens /\ UNCHANGED commit
          /\ \A u \in Team \ {w} : disk'[u] = disk[u] /\ last'[u] = last[u] /\ h'[u] = h[u]
      BY <1>0, <1>1, <2>1, FinishIsSafe DEF Finish
    <3>2. \A u : Sent(u)' = Sent(u)
      BY <3>1 DEF Sent
    <3> QED BY <1>0, <3>1, <3>2, OneIsSafe
  <2> QED BY <1>0, <1>1, <2>1, FaultIsSafe
<1>2. CASE WriteRecord(w)
  <2> DEFINE i == h[w].next
  <2>1. ~mode.indexed /\ i \in Rec /\ i + 1 \in Nat /\ Emit[i] \in Value
    BY <1>2, ModeFacts DEF WriteRecord
  <2>2. i \notin Given(w) /\ \A x \in Rec \cap Given(w) : x < i
    <3>1. Recs(Given(w)) = 0 .. i - 1 /\ i \in Nat
      BY <1>0, <2>1, ModeFacts DEF Protocol, PrefixInv, TokensContinuePrefix, Given
    <3> HIDE DEF i
    <3>2. \A x \in Recs(Given(w)) : x < i
      BY <3>1
    <3>3. i \notin Recs(Given(w))
      BY <3>1
    <3> QED BY <2>1, <3>2, <3>3 DEF Recs
  <2>3. Places(h[w], w, i)
    BY <1>0, <2>1, <2>2 DEF Places, Given
  <2>4. \/ FinishFails(w, Placed(h[w], w, i, Emit[i]), i)
        \/ Finish(w, Placed(h[w], w, i, Emit[i]), i, Emit[i], i + 1)
    BY <1>2 DEF WriteRecord
  <2> HIDE DEF i
  <2> QED BY <1>0, <1>1, <2>1, <2>3, <2>4
<1>3. ASSUME NEW i \in Rec, NEW v \in Value, WriteRecordAt(w, i, v) PROVE StoreInv'
  <2> DEFINE r == Refreshed(w, i)
             p == Placed(r, w, i, v)
  <2>1. i \in Item /\ mode.indexed /\ Mannerly(w, i) /\ ~SeenCommitted(w, i)
    BY <1>3 DEF WriteRecordAt, Item
  <2>2. i \notin manifest /\ i \notin Sent(w)
    BY <1>0, <2>1, AcceptedIsNew
  <2>3. r \in Handle /\ Places(r, w, i)
    BY <1>0, <2>1, <2>2, RefreshedFacts DEF Places
  <2>4. p.next = h[w].next /\ p.next \in Nat
    <3>1. p.next = r.next /\ r.next = h[w].next
      BY <2>1, <2>3, PlacedFacts, RefreshedFacts
    <3> QED BY <1>0, <3>1 DEF Handle
  <2>5. FinishFails(w, p, i) \/ Finish(w, p, i, v, p.next)
    BY <1>3 DEF WriteRecordAt
  <2> HIDE DEF r
  <2> QED BY <1>1, <2>1, <2>3, <2>4, <2>5
<1>4. ASSUME NEW x \in mode.statics, NEW v \in Value, WriteStatic(w, x, v) PROVE StoreInv'
  <2> DEFINE r == Refreshed(w, x)
  <2>1. x \in Item /\ x \notin Rec /\ Mannerly(w, x) /\ ~SeenCommitted(w, x)
    BY <1>4, ModeFacts DEF WriteStatic, Item
  <2>2. x \notin manifest /\ x \notin Sent(w) /\ manifest \subseteq Item
    BY <1>0, <2>1, AcceptedIsNew DEF Typed
  <2>3. \A d \in {disk, [disk EXCEPT ![w][x] = v]} :
           /\ \A u \in Team \ {w} : d[u] = disk[u]
           /\ \A y \in Item \ {x} : d[w][y] = disk[w][y]
    BY DEF Typed
  <2>4. CASE Fail(w, r) /\ disk' \in {disk, [disk EXCEPT ![w][x] = v]}
    <3>1. ASSUME NEW u \in Team, NEW y \in manifest PROVE disk'[u][y] = last[u][y]
      <4>1. disk[u][y] = last[u][y] /\ y \in Item \ {x}
        BY <2>2 DEF StoreInv, Safe, OnDisk
      <4>2. disk'[u][y] = disk[u][y]
        BY <2>3, <2>4, <4>1
      <4> QED BY <4>1, <4>2
    <3> QED BY <1>0, <2>4, <3>1, FaultEnds, EndIsSafe DEF Ends
  <2>5. CASE /\ disk' = [disk EXCEPT ![w][x] = v] /\ last' = [last EXCEPT ![w][x] = v]
             /\ h' = [h EXCEPT ![w] = [r EXCEPT !.pending = @ \cup {x}]] /\ UNCHANGED <<tokens, commit>>
    <3> DEFINE me == [r EXCEPT !.pending = @ \cup {x}]
    <3>1. /\ r \in Handle /\ r.up = h[w].up /\ r.next = h[w].next /\ r.reload = h[w].reload
          /\ r.buf = h[w].buf /\ r.open = h[w].open /\ r.slots = h[w].slots /\ r.dirty = h[w].dirty
          /\ r.flushed = h[w].flushed /\ r.pending = h[w].pending
      BY <2>1, RefreshedFacts
    <3> HIDE DEF r
    <3>2. /\ me \in Handle /\ me.up = h[w].up /\ me.next = h[w].next /\ me.reload = h[w].reload
          /\ me.buf = h[w].buf /\ me.open = h[w].open /\ me.slots = h[w].slots /\ me.dirty = h[w].dirty
          /\ me.flushed = h[w].flushed /\ me.pending = h[w].pending \cup {x}
      BY <2>1, <3>1 DEF Handle
    <3>3. h' = [h EXCEPT ![w] = me]
      BY <2>5
    <3> HIDE DEF me
    <3>4. h'[w] = me /\ \A u \in Team \ {w} : h'[u] = h[u]
      BY <3>2, <3>3, SetHandle
    <3>5. /\ disk'[w][x] = v /\ last'[w][x] = v
          /\ \A y \in Item \ {x} : disk'[w][y] = disk[w][y] /\ last'[w][y] = last[w][y]
          /\ \A u \in Team \ {w} : disk'[u] = disk[u] /\ last'[u] = last[u]
      BY <2>1, <2>5 DEF Typed
    <3>6. \A u : Sent(u)' = Sent(u)
      BY <2>5 DEF Sent
    <3>7. Given(w)' = Given(w) \cup {x} /\ Given(w) \subseteq Item
      <4>1. Given(w)' = Given(w) \cup {x}
        BY <1>0, <3>2, <3>4, <3>6 DEF Given
      <4>2. Given(w) \subseteq Item
        BY DEF Given, Sent, Typed, Token, Handle
      <4> QED BY <4>1, <4>2
    <3>8. OnDisk(w)'
      <4>1. \A y \in manifest \cup Sent(w) : last'[w][y] \in Value /\ disk'[w][y] = last'[w][y]
        BY <1>0, <2>2, <3>5, <3>7 DEF Safe, OnDisk, Given
      <4>2. \A y \in h[w].pending : /\ last'[w][y] \in Value
                                    /\ disk'[w][y] = last'[w][y] \/ (y \in Rec /\ Shard(y) \in h[w].dirty)
        BY <1>0, <3>5, <3>7 DEF Safe, OnDisk, Given
      <4> QED BY <1>0, <3>2, <3>4, <3>5, <3>6, <4>1, <4>2 DEF OnDisk
    <3>9. Buffered(w)'
      <4>1. Rec \cap Given(w)' = Rec \cap Given(w) /\ \A y \in Rec : last'[w][y] = last[w][y]
        BY <2>1, <3>5, <3>7 DEF Item
      <4> QED BY <1>0, <3>2, <3>4, <4>1 DEF Safe, Buffered
    <3>10. Safe(w)'
      BY <1>0, <3>2, <3>4, <3>8, <3>9 DEF Safe
    <3> QED BY <1>0, <2>5, <3>4, <3>5, <3>6, <3>10, OneIsSafe
  <2> QED BY <1>4, <2>4, <2>5 DEF WriteStatic
<1>5. ASSUME NEW x \in Item, RefuseWrite(w, x) PROVE StoreInv'
  <2>1. LET r == Refreshed(w, x) IN
        /\ r \in Handle /\ r.up = h[w].up /\ r.next = h[w].next /\ r.reload = h[w].reload
        /\ r.buf = h[w].buf /\ r.open = h[w].open /\ r.slots = h[w].slots /\ r.dirty = h[w].dirty
        /\ r.flushed = h[w].flushed /\ r.pending = h[w].pending
    BY RefreshedFacts
  <2>2. /\ h' = [h EXCEPT ![w] = Refreshed(w, x)]
        /\ UNCHANGED <<mode, disk, manifest, tokens, commit, last>>
    BY <1>5 DEF RefuseWrite
  <2>3. h'[w] = Refreshed(w, x) /\ \A u \in Team \ {w} : h'[u] = h[u]
    BY <2>1, <2>2, SetHandle
  <2>4. \A u : Sent(u)' = Sent(u)
    BY <2>2 DEF Sent
  <2>5. Safe(w)'
    <3>1. manifest' \cup Sent(w)' \subseteq Given(w)
      BY <2>2, <2>4 DEF Given
    <3>2. \A y \in manifest' \cup Sent(w)' : last[w][y] \in Value /\ disk[w][y] = last[w][y]
      BY <1>0, <2>2, <2>4 DEF Safe, OnDisk
    <3> QED BY <1>0, <2>1, <2>2, <2>3, <3>1, <3>2, StoreStays
  <2> QED BY <1>0, <2>2, <2>3, <2>4, <2>5, OneIsSafe
<1> QED BY <1>2, <1>3, <1>4, <1>5

\* Opening and closing handles, cutting and invalidating keep the store safe.
LEMMA OpeningIsSafe ==
    ASSUME Typed, Protocol, StoreInv,
           \/ ResumeOwner \/ TruncateManifest \/ \E n \in 0 .. NumRecords : TruncateShapes(n)
           \/ \E w \in Team : OpenContributor(w) \/ Close(w)
           \/ \E X \in SUBSET Item : Invalidate(X)
    PROVE  StoreInv'
<1>0. Owner \in Team /\ Team' = Team /\ UNCHANGED <<mode, disk, last>> /\ \A u \in Team : Safe(u)
  BY ModeFacts DEF ResumeOwner, TruncateManifest, TruncateShapes, OpenContributor, Close, Invalidate, Team, StoreInv
<1>1. ASSUME NEW w \in Team, \A u \in Team \ {w} : h'[u] = h[u] /\ Sent(u)' \subseteq Sent(u),
             Safe(w)', manifest' \subseteq manifest, Committing' => Committing /\ UNCHANGED commit
      PROVE  StoreInv'
  <2>1. \A u \in Team \ {w} : Safe(u)'
    BY <1>0, <1>1, OthersStay
  <2>2. OwnIsOnDisk'
    BY <1>0, <1>1 DEF StoreInv, OwnIsOnDisk
  <2> QED BY <1>0, <1>1, <2>1, <2>2 DEF StoreInv
<1>2. CASE ResumeOwner \/ TruncateManifest
  <2>1. /\ tokens' = {} /\ commit'.phase = "idle" /\ manifest' \in SUBSET Item /\ manifest' \subseteq manifest
        /\ h' = [h EXCEPT ![Owner] = Opened(Owner, manifest')]
    BY <1>2, CommitTyped DEF ResumeOwner, TruncateManifest, Protocol, CommitInv, Typed
  <2>2. ~mode.indexed => Prefix(Recs(manifest'))
    BY <1>0, <1>2, OpeningKeeps DEF Protocol, PrefixInv, Recs
  <2>3. /\ h'[Owner] = Opened(Owner, manifest') /\ \A w \in Team \ {Owner} : h'[w] = h[w]
    BY <1>0, <2>1, OpenedFacts, SetHandle
  <2>4. \A w : Sent(w)' = {}
    BY <2>1 DEF Sent
  <2>5. Safe(Owner)'
    BY <1>0, <2>1, <2>2, <2>3, <2>4, OpenedIsSafe
  <2> QED BY <1>0, <1>1, <2>1, <2>3, <2>4, <2>5 DEF Committing
<1>3. ASSUME NEW n \in 0 .. NumRecords, TruncateShapes(n) PROVE StoreInv'
  <2>1. tokens' = {} /\ UNCHANGED <<manifest, h>> /\ commit'.phase = "cut"
    BY <1>3 DEF TruncateShapes, NoCommit
  <2>2. \A w : Sent(w)' = {}
    BY <2>1 DEF Sent
  <2>3. Safe(Owner)'
    BY <1>0, <2>1, <2>2, OthersStay
  <2> QED BY <1>0, <1>1, <2>1, <2>2, <2>3 DEF Committing
<1>4. ASSUME NEW w \in Team, OpenContributor(w) PROVE StoreInv'
  <2>1. /\ UNCHANGED <<manifest, tokens, commit>> /\ h' = [h EXCEPT ![w] = Opened(w, manifest)]
        /\ Sent(w) = {} /\ manifest \in SUBSET Item
    BY <1>4 DEF OpenContributor, Typed
  <2>2. h'[w] = Opened(w, manifest) /\ \A u \in Team \ {w} : h'[u] = h[u]
    BY <2>1, OpenedFacts, SetHandle
  <2>3. \A u : Sent(u)' = Sent(u)
    BY <2>1 DEF Sent
  <2>4. Safe(w)'
    BY <1>0, <2>1, <2>2, <2>3, OpenedIsSafe DEF Protocol, PrefixInv
  <2> QED BY <1>1, <2>1, <2>2, <2>3, <2>4 DEF Committing
<1>5. ASSUME NEW w \in Team, Close(w) PROVE StoreInv'
  <2>1. /\ UNCHANGED <<manifest, tokens, commit>> /\ h'[w] = NoHandle /\ \A u \in Team \ {w} : h'[u] = h[u]
    BY <1>5, NoHandleTyped, SetHandle DEF Close
  <2>2. \A u : Sent(u)' = Sent(u)
    BY <2>1 DEF Sent
  <2>3. Safe(w)'
    BY <1>0, <2>1, <2>2, OthersStay
  <2> QED BY <1>1, <2>1, <2>2, <2>3 DEF Committing
<1>6. ASSUME NEW X \in SUBSET Item, Invalidate(X) PROVE StoreInv'
  <2> DEFINE me == [h[Owner] EXCEPT !.view = @ \ X]
  <2>1. /\ UNCHANGED <<tokens, commit>> /\ manifest' = manifest \ X /\ h' = [h EXCEPT ![Owner] = me]
    BY <1>6 DEF Invalidate
  <2>2. /\ me \in Handle /\ me.up = h[Owner].up /\ me.next = h[Owner].next /\ me.reload = h[Owner].reload
        /\ me.buf = h[Owner].buf /\ me.open = h[Owner].open /\ me.slots = h[Owner].slots
        /\ me.dirty = h[Owner].dirty /\ me.flushed = h[Owner].flushed /\ me.pending = h[Owner].pending
    <3>1. h[Owner] \in Handle
      BY <1>0 DEF Typed
    <3> QED BY <3>1 DEF Handle
  <2> HIDE DEF me
  <2>3. h'[Owner] = me /\ \A u \in Team \ {Owner} : h'[u] = h[u]
    BY <1>0, <2>1, <2>2, SetHandle
  <2>4. \A u : Sent(u)' = Sent(u)
    BY <2>1 DEF Sent
  <2>5. Safe(Owner)'
    <3>1. manifest' \cup Sent(Owner)' \subseteq Given(Owner)
      BY <2>1, <2>4 DEF Given
    <3>2. \A y \in manifest' \cup Sent(Owner)' : last[Owner][y] \in Value /\ disk[Owner][y] = last[Owner][y]
      BY <1>0, <2>1, <2>4 DEF Safe, OnDisk
    <3> QED BY <1>0, <2>2, <2>3, <3>1, <3>2, StoreStays
  <2> QED BY <1>0, <1>1, <2>1, <2>3, <2>4, <2>5 DEF Committing
<1> QED BY <1>2, <1>3, <1>4, <1>5, <1>6

\* Each of the tokens carries the items, and one of them is the owner's.
LEMMA ItemsAreGiven ==
    ASSUME Typed, NEW ts, NEW closing, ts \subseteq tokens \cup {OwnToken(Owner)}, Verify(ts),
           BeginCommit(ts, closing), NEW t \in ts, t.from = Owner
    PROVE  /\ commit'.items = t.items
           /\ t \in tokens => commit'.items \subseteq Sent(Owner)
           /\ commit'.items \subseteq Given(Owner)
<1>1. commit'.items = UNION {u.items : u \in ts} /\ \A u \in ts : u.items = UNION {v.items : v \in ts}
  BY DEF Verify, BeginCommit
<1>2. commit'.items = t.items
  BY <1>1
<1>3. t \in tokens => t.items \subseteq Sent(Owner)
  BY DEF Sent
<1>4. t \notin tokens => t.items = h[Owner].pending
  BY ModeFacts, OwnTokenFacts
<1> QED BY <1>2, <1>3, <1>4 DEF Given

\* Flushing keeps the store safe.
LEMMA FlushIsSafe ==
    ASSUME Typed, Protocol, StoreInv, Polite,
           \/ \E w \in Team : Flush(w) \/ FlushFails(w)
           \/ \E closing \in BOOLEAN : FlushAndCommit(closing)
    PROVE  StoreInv'
<1>0. /\ Owner \in Team /\ Team' = Team /\ UNCHANGED <<mode, shape, manifest>>
      /\ \A u \in Team : Safe(u) /\ h[u] \in Handle /\ h[u].buf \in [Rec -> Cell]
  BY ModeFacts DEF Flush, FlushFails, FlushAndCommit, Team, StoreInv, Typed, Handle
<1>1. ASSUME NEW w \in Team, Flush(w) PROVE StoreInv'
  <2>1. /\ Free(w) /\ UNCHANGED <<commit, last>> /\ tokens' = tokens \cup {OwnToken(w)}
        /\ disk' = Written(w, h[w].dirty, h[w].buf) /\ h' = [h EXCEPT ![w] = Untold(Clean(h[w]))]
    BY <1>1 DEF Flush
  <2>2. /\ h'[w] = Untold(Clean(h[w])) /\ \A u \in Team \ {w} : h'[u] = h[u]
    BY <1>0, <2>1, FlushedFacts, SetHandle
  <2>3. /\ h'[w].up = h[w].up /\ h'[w].dirty = {} /\ h'[w].flushed = h[w].flushed \cup h[w].dirty
        /\ h'[w].buf = h[w].buf /\ h'[w].open = h[w].open /\ h'[w].slots = h[w].slots
        /\ h'[w].reload = h[w].reload /\ h'[w].next = h[w].next /\ h'[w].pending = {}
    BY <1>0, <2>2, FlushedFacts
  <2>4. Sent(w)' = Sent(w) \cup h[w].pending /\ \A u \in Team \ {w} : Sent(u)' = Sent(u)
    BY <2>1, SentAdds
  <2>5. Given(w)' \subseteq Given(w)
    BY <1>0, <2>3, <2>4 DEF Given
  <2>6. Safe(w)'
    BY <1>0, <2>1, <2>3, <2>5, FlushedIsSafe DEF Free
  <2>7. \A u \in Team \ {w} : disk'[u] = disk[u] /\ last'[u] = last[u]
    BY <1>0, <2>1, WrittenFacts
  <2> QED BY <1>0, <2>1, <2>2, <2>4, <2>6, <2>7, OneIsSafe
<1>2. ASSUME NEW w \in Team, FlushFails(w) PROVE StoreInv'
  <2>1. Abort /\ \E ss \in SUBSET h[w].dirty : disk' = Written(w, ss, h[w].buf)
    BY <1>2, FaultEnds DEF FlushFails
  <2>2. PICK ss \in SUBSET h[w].dirty : disk' = Written(w, ss, h[w].buf)
    BY <2>1
  <2>3. ASSUME NEW u \in Team, NEW x \in manifest PROVE disk'[u][x] = last[u][x]
    <3>1. disk[u][x] = last[u][x] /\ x \in Given(w)
      BY <1>0 DEF Safe, OnDisk, Given
    <3>2. CASE u = w
      BY <1>0, <2>2, <3>1, <3>2, FlushWrites
    <3>3. CASE u # w
      BY <1>0, <2>2, <3>1, <3>3, WrittenFacts
    <3> QED BY <3>2, <3>3
  <2> QED BY <1>0, <2>1, <2>3, EndIsSafe DEF Ends
<1>3. ASSUME NEW closing \in BOOLEAN, FlushAndCommit(closing) PROVE StoreInv'
  <2> DEFINE c == Clean(h[Owner])
  <2>1. /\ h[Owner].up /\ commit.phase = "idle" /\ UNCHANGED <<tokens, last>>
        /\ disk' = Written(Owner, h[Owner].dirty, h[Owner].buf)
    BY <1>0, <1>3 DEF FlushAndCommit, Free
  <2>2. /\ c \in Handle /\ c.up = h[Owner].up /\ c.dirty = {} /\ c.flushed = h[Owner].flushed \cup h[Owner].dirty
        /\ c.buf = h[Owner].buf /\ c.open = h[Owner].open /\ c.slots = h[Owner].slots
        /\ c.reload = h[Owner].reload /\ c.next = h[Owner].next /\ c.pending = h[Owner].pending
    BY <1>0, FlushedFacts
  <2>3. PICK others \in SUBSET tokens :
           LET ts == others \cup {OwnToken(Owner)} IN
           \/ Verify(ts) /\ BeginCommit(ts, closing) /\ h' = [h EXCEPT ![Owner] = Clean(@)]
           \/ ~Verify(ts) /\ UNCHANGED commit /\ h' = [h EXCEPT ![Owner] = IF closing THEN NoHandle ELSE Clean(@)]
    BY <1>3 DEF FlushAndCommit
  <2> DEFINE ts == others \cup {OwnToken(Owner)}
  <2>4. h' = [h EXCEPT ![Owner] = c] \/ h' = [h EXCEPT ![Owner] = NoHandle]
    BY <2>3
  <2>5. ts \subseteq tokens \cup {OwnToken(Owner)} /\ \E t \in ts : t.from = Owner
    BY <1>0, OwnTokenFacts
  <2>6. UNCHANGED commit \/ (Verify(ts) /\ BeginCommit(ts, closing))
    BY <2>3
  <2> HIDE DEF c, ts
  <2>7. (h'[Owner] = c \/ h'[Owner] = NoHandle) /\ \A u \in Team \ {Owner} : h'[u] = h[u]
    BY <1>0, <2>2, <2>4, NoHandleTyped, SetHandle
  <2>8. \A u : Sent(u)' = Sent(u)
    BY <2>1 DEF Sent
  <2>9. Given(Owner)' \subseteq Given(Owner)
    BY <1>0, <2>2, <2>7, <2>8 DEF Given, NoHandle
  <2>10. /\ Safe(Owner)'
         /\ \A x \in Given(Owner) : last[Owner][x] \in Value /\ disk'[Owner][x] = last[Owner][x]
    BY <1>0, <2>1, <2>2, <2>7, <2>9, FlushedIsSafe
  <2>11. \A u \in Team \ {Owner} : Safe(u)'
    <3>1. \A u \in Team \ {Owner} : disk'[u] = disk[u] /\ last'[u] = last[u]
      BY <1>0, <2>1, WrittenFacts
    <3> QED BY <1>0, <2>7, <2>8, <3>1, OthersStay
  <2>12. OwnIsOnDisk'
    <3>1. CASE UNCHANGED commit
      BY <2>1, <3>1 DEF OwnIsOnDisk, Committing
    <3>2. CASE Verify(ts) /\ BeginCommit(ts, closing)
      BY <2>1, <2>5, <2>10, <3>2, ItemsAreGiven DEF OwnIsOnDisk
    <3> QED BY <2>6, <3>1, <3>2
  <2> QED BY <1>0, <2>10, <2>11, <2>12 DEF StoreInv
<1> QED BY <1>1, <1>2, <1>3

\* Committing keeps the store safe: every writer's region of the items is on disk.
LEMMA CommitIsSafe ==
    ASSUME Typed, Protocol, StoreInv, Commit \/ GrowShapes \/ WriteManifest \/ CommitFails
    PROVE  StoreInv'
<1>0. Owner \in Team /\ Team' = Team /\ UNCHANGED <<mode, disk, last>> /\ \A u \in Team : Safe(u)
  BY ModeFacts DEF Commit, GrowShapes, WriteManifest, CommitFails, Team, StoreInv
<1>1. ASSUME UNCHANGED manifest, \A u \in Team : Sent(u)' = Sent(u) /\ (h'[u] = h[u] \/ h'[u] = NoHandle),
             OwnIsOnDisk'
      PROVE  StoreInv'
  BY <1>0, <1>1, OthersStay DEF StoreInv
<1>2. CASE Commit
  <2>1. PICK ts \in SUBSET tokens : ts # {} /\ Verify(ts) /\ BeginCommit(ts, FALSE)
    BY <1>2 DEF Commit
  <2>2. \E t \in ts : t.from = Owner
    <3>1. h[Owner].up /\ commit.phase = "idle" /\ UNCHANGED <<mode, manifest, h, tokens>>
      BY <1>2 DEF Commit, Free
    <3>2. CommitInv' /\ Committing' /\ commit'.used = ts
      BY <2>1, <3>1, BeginKeeps DEF BeginCommit, Committing
    <3> QED BY <1>0, <3>2 DEF CommitInv
  <2>3. commit'.items \subseteq Sent(Owner)
    BY <2>1, <2>2, ItemsAreGiven
  <2>4. OwnIsOnDisk'
    BY <1>0, <2>3 DEF OwnIsOnDisk, Safe, OnDisk
  <2>5. UNCHANGED <<manifest, h, tokens>>
    BY <1>2 DEF Commit
  <2> QED BY <1>1, <2>4, <2>5 DEF Sent
<1>3. CASE GrowShapes
  <2>1. /\ commit'.items = commit.items /\ Committing /\ UNCHANGED <<manifest, h, tokens>>
    BY <1>3 DEF GrowShapes, Typed, Committing
  <2>2. OwnIsOnDisk'
    BY <1>0, <2>1 DEF StoreInv, OwnIsOnDisk
  <2> QED BY <1>1, <2>1, <2>2 DEF Sent
<1>4. CASE WriteManifest
  <2>1. ASSUME NEW w \in Team PROVE Safe(w)'
    <3>1. commit.items \subseteq Given(w) /\ manifest' = manifest \cup commit.items /\ Sent(w)' \subseteq Sent(w)
      BY <1>4, ManifestMoves DEF Given
    <3>2. manifest' \cup Sent(w)' \subseteq Given(w)
      BY <3>1 DEF Given
    <3>3. \A x \in commit.items : last[w][x] \in Value /\ disk[w][x] = last[w][x]
      <4>1. CASE w = Owner
        BY <1>4, <4>1 DEF StoreInv, OwnIsOnDisk, Committing, WriteManifest
      <4>2. CASE w # Owner
        BY <1>0, <1>4, <4>2, ManifestMoves DEF Safe, OnDisk
      <4> QED BY <4>1, <4>2
    <3>4. \A x \in manifest' \cup Sent(w)' : last[w][x] \in Value /\ disk[w][x] = last[w][x]
      BY <1>0, <3>1, <3>3 DEF Safe, OnDisk
    <3>5. h'[w] = h[w] \/ w = Owner
      BY <1>4, ManifestMoves
    <3>6. \/ h'[w] = NoHandle
          \/ /\ h'[w].up = h[w].up /\ h'[w].pending \subseteq h[w].pending
             /\ h'[w].buf = h[w].buf /\ h'[w].open = h[w].open /\ h'[w].slots = h[w].slots
             /\ h'[w].dirty = h[w].dirty /\ h'[w].flushed = h[w].flushed
             /\ h'[w].reload = h[w].reload /\ h'[w].next = h[w].next
      <4>1. CASE h'[w] = h[w]
        BY <4>1
      <4>2. CASE w = Owner
        BY <1>4, <4>2, ManifestMoves
      <4> QED BY <3>5, <4>1, <4>2
    <3> QED BY <1>0, <3>2, <3>4, <3>6, StoreStays
  <2>2. OwnIsOnDisk'
    BY <1>4, ManifestMoves DEF OwnIsOnDisk, Committing, NoCommit
  <2> QED BY <1>0, <2>1, <2>2 DEF StoreInv
<1>5. CASE CommitFails
  <2>1. UNCHANGED <<manifest, tokens>> /\ \A u \in Team : h'[u] = h[u] \/ h'[u] = NoHandle
    BY <1>5, CommitFailsLeaves
  <2>2. OwnIsOnDisk'
    BY <1>5, CommitFailsLeaves DEF OwnIsOnDisk, Committing, NoCommit
  <2> QED BY <1>1, <2>1, <2>2 DEF Sent
<1> QED BY <1>2, <1>3, <1>4, <1>5

\* A preemption leaves what is committed on disk, whichever shards were being written.
LEMMA PreemptIsSafe ==
    ASSUME Typed, StoreInv, Preempt
    PROVE  StoreInv'
<1>1. PICK s : disk' = [w \in Team |-> Written(w, {r \in h[w].dirty : r <= s[w]}, h[w].buf)[w]]
  BY DEF Preempt
<1>2. ASSUME NEW w \in Team, NEW x \in manifest PROVE disk'[w][x] = last[w][x]
  <2> DEFINE ss == {r \in h[w].dirty : r <= s[w]}
  <2>1. Safe(w) /\ x \in Given(w) /\ disk[w][x] = last[w][x] /\ ss \subseteq h[w].dirty
    BY DEF StoreInv, Safe, OnDisk, Given
  <2>2. disk'[w] = Written(w, ss, h[w].buf)[w]
    BY <1>1
  <2> HIDE DEF ss
  <2> QED BY <2>1, <2>2, FlushWrites
<1> QED BY <1>2, EndIsSafe DEF Preempt, Ends

LEMMA InitStore == Init => StoreInv
<1> SUFFICES ASSUME Init PROVE StoreInv
  OBVIOUS
<1>1. /\ manifest = {} /\ tokens = {} /\ commit.phase = "idle"
      /\ h = [w \in Team |-> IF w = Owner THEN [NoHandle EXCEPT !.up = TRUE] ELSE NoHandle]
  BY DEF Init, NoCommit
<1>2. ASSUME NEW w \in Team PROVE Safe(w)
  <2>1. /\ h[w].pending = {} /\ h[w].dirty = {} /\ h[w].slots = {} /\ h[w].next = 0
    BY <1>1 DEF NoHandle
  <2>2. Sent(w) = {}
    BY <1>1 DEF Sent
  <2>3. Given(w) = {} /\ OnDisk(w)
    BY <1>1, <2>1, <2>2 DEF Given, OnDisk
  <2>4. \A x \in Rec : ~(x < h[w].next)
    BY <2>1, Sizes DEF Rec
  <2>5. Buffered(w)
    BY <2>1, <2>3, <2>4 DEF Buffered
  <2> QED BY <2>1, <2>3, <2>5 DEF Safe
<1> QED BY <1>1, <1>2 DEF StoreInv, OwnIsOnDisk, Committing

LEMMA StoreStep == Polite /\ Typed /\ Protocol /\ StoreInv /\ [Next]_vars => StoreInv'
<1> SUFFICES ASSUME Polite, Typed, Protocol, StoreInv, [Next]_vars PROVE StoreInv'
  OBVIOUS
<1>1. CASE UNCHANGED vars
  BY <1>1 DEF vars, StoreInv, Safe, OnDisk, Buffered, OwnIsOnDisk, Committing, Given, Team, Sent
<1>2. ASSUME NEW w \in Team,
             \/ WriteRecord(w) \/ \E i \in Rec, v \in Value : WriteRecordAt(w, i, v)
             \/ \E x \in mode.statics, v \in Value : WriteStatic(w, x, v)
             \/ \E x \in Item : RefuseWrite(w, x)
      PROVE  StoreInv'
  BY <1>2, WritingIsSafe
<1> QED BY <1>1, <1>2, OpeningIsSafe, FlushIsSafe, CommitIsSafe, PreemptIsSafe DEF Next

-----------------------------------------------------------------------------
(* Shapes before the manifest, and what is committed can be read.          *)

LEMMA ShapeStep == Typed /\ ShapeInv /\ [Next]_vars => ShapeInv'
<1> SUFFICES ASSUME Typed, ShapeInv, [Next]_vars PROVE ShapeInv'
  OBVIOUS
<1>1. ASSUME UNCHANGED <<mode, shape, manifest, commit>> PROVE ShapeInv'
  BY <1>1 DEF ShapeInv, Recs
<1>2. ASSUME commit'.phase # "manifest" PROVE ShapeInv'
  BY <1>2 DEF ShapeInv
<1>3. ASSUME NEW ts, NEW closing, BeginCommit(ts, closing), UNCHANGED mode PROVE ShapeInv'
  BY <1>3 DEF BeginCommit, ShapeInv, Recs
<1>4. CASE UNCHANGED vars
  BY <1>1, <1>4 DEF vars
<1>5. ASSUME NEW w, NEW me, Fail(w, me), UNCHANGED <<mode, shape, manifest>> PROVE ShapeInv'
  <2>1. UNCHANGED commit \/ commit' = NoCommit
    BY <1>5, Zenon DEF Fail, Abort
  <2> QED BY <1>1, <1>2, <1>5, <2>1, CommitTyped
<1>6. ASSUME NEW w \in Team,
             \/ WriteRecord(w) \/ \E i \in Rec, v \in Value : WriteRecordAt(w, i, v)
             \/ \E x \in mode.statics, v \in Value : WriteStatic(w, x, v)
             \/ \E x \in Item : RefuseWrite(w, x)
      PROVE  ShapeInv'
  <2>1. UNCHANGED <<mode, shape, manifest>> /\ (UNCHANGED commit \/ \E me : Fail(w, me))
    BY <1>6 DEF WriteRecord, WriteRecordAt, WriteStatic, RefuseWrite, Finish, FinishFails
  <2> QED BY <1>1, <1>5, <2>1
<1>7. ASSUME NEW w \in Team, FlushFails(w) PROVE ShapeInv'
  <2>1. PICK me : Fail(w, me)
    BY <1>7 DEF FlushFails
  <2> QED BY <1>5, <1>7, <2>1 DEF FlushFails
<1>8. ASSUME NEW w \in Team, OpenContributor(w) \/ Flush(w) \/ Close(w) PROVE ShapeInv'
  BY <1>1, <1>8 DEF OpenContributor, Flush, Close
<1>9. CASE ResumeOwner \/ \E X \in SUBSET Item : Invalidate(X)
  BY <1>9 DEF ResumeOwner, Invalidate, Free, ShapeInv
<1>10. CASE TruncateManifest \/ \E n \in 0 .. NumRecords : TruncateShapes(n)
  <2>1. commit'.phase \in {"idle", "cut"}
    <3>1. CASE TruncateManifest
      BY <3>1 DEF TruncateManifest, NoCommit
    <3>2. ASSUME NEW n \in 0 .. NumRecords, TruncateShapes(n) PROVE commit'.phase = "cut"
      BY <3>2 DEF TruncateShapes, NoCommit
    <3> QED BY <1>10, <3>1, <3>2
  <2> QED BY <1>2, <2>1
<1>11. CASE Commit \/ \E closing \in BOOLEAN : FlushAndCommit(closing)
  <2>1. UNCHANGED <<mode, shape, manifest>> /\ (UNCHANGED commit \/ \E ts, closing : BeginCommit(ts, closing))
    BY <1>11 DEF Commit, FlushAndCommit
  <2> QED BY <1>1, <1>3, <2>1
<1>12. CASE GrowShapes
  <2>1. shape' = Cardinality(Recs(manifest \cup commit.items)) /\ commit'.items = commit.items /\ UNCHANGED manifest
    BY <1>12 DEF GrowShapes, Typed
  <2>2. shape' \in Nat
    BY <2>1, RecordsAreFinite
  <2>3. Cardinality(Recs(manifest \cup commit.items))' = shape'
    BY <2>1 DEF Recs
  <2> QED BY <2>2, <2>3 DEF ShapeInv
<1>13. CASE WriteManifest \/ CommitFails
  BY <1>2, <1>13 DEF WriteManifest, CommitFails, NoCommit
<1>14. CASE Preempt
  BY <1>2, <1>14 DEF Preempt, Abort, NoCommit
<1> QED BY <1>4, <1>6, <1>7, <1>8, <1>9, <1>10, <1>11, <1>12, <1>13, <1>14 DEF Next

\* How a step changes what the manifest names: only a commit adds to it.
LEMMA ManifestStep ==
    ASSUME Typed, Protocol, [Next]_vars
    PROVE  /\ mode' = mode
           /\ \/ manifest' = manifest
              \/ WriteManifest /\ shape' = shape
              \/ manifest' \subseteq manifest /\ shape' = shape
<1>1. CASE UNCHANGED vars
  BY <1>1 DEF vars
<1>2. CASE TruncateManifest
  BY <1>2 DEF TruncateManifest, Protocol, CommitInv
<1>3. CASE ResumeOwner \/ Preempt \/ \E n \in 0 .. NumRecords : TruncateShapes(n)
  BY <1>3 DEF ResumeOwner, Preempt, TruncateShapes
<1>4. ASSUME NEW w \in Team,
             \/ WriteRecord(w) \/ \E i \in Rec, v \in Value : WriteRecordAt(w, i, v)
             \/ \E x \in mode.statics, v \in Value : WriteStatic(w, x, v)
             \/ \E x \in Item : RefuseWrite(w, x)
      PROVE  UNCHANGED <<mode, manifest>>
  BY <1>4 DEF WriteRecord, WriteRecordAt, WriteStatic, RefuseWrite
<1>5. ASSUME NEW w \in Team, OpenContributor(w) \/ Flush(w) \/ FlushFails(w) \/ Close(w)
      PROVE  UNCHANGED <<mode, manifest>>
  BY <1>5 DEF OpenContributor, Flush, FlushFails, Close
<1>6. CASE Commit \/ GrowShapes \/ CommitFails \/ \E closing \in BOOLEAN : FlushAndCommit(closing)
  BY <1>6 DEF Commit, GrowShapes, CommitFails, FlushAndCommit
<1>7. CASE WriteManifest
  BY <1>7 DEF WriteManifest
<1>8. CASE \E X \in SUBSET Item : Invalidate(X)
  BY <1>8 DEF Invalidate
<1> QED BY <1>1, <1>2, <1>3, <1>4, <1>5, <1>6, <1>7, <1>8 DEF Next

LEMMA StoreAlways == Polite => (Spec => [](Typed /\ Protocol /\ StoreInv /\ ShapeInv))
<1>1. Init => Typed /\ Protocol /\ StoreInv /\ ShapeInv
  <2>1. Init => ShapeInv
    BY DEF Init, NoCommit, ShapeInv
  <2> QED BY <2>1, InitTyped, InitProtocol, InitStore
<1>2. ASSUME Polite PROVE Spec => [](Typed /\ Protocol /\ StoreInv /\ ShapeInv)
  <2>1. Typed /\ Protocol /\ StoreInv /\ ShapeInv /\ [Next]_vars
          => (Typed /\ Protocol /\ StoreInv /\ ShapeInv)'
    BY <1>2, TypedStep, ProtocolStep, StoreStep, ShapeStep
  <2> QED BY <1>1, <2>1, PTL DEF Spec
<1> QED BY <1>2

\* Whatever the manifest comes to name is whole on disk, as its writers gave it last, and
\* within the shapes of the arrays (write_shard, flush, apply_commit, resume).
THEOREM CommittedIsReadableAlways == Polite => (Spec => CommittedIsReadable)
<1>1. Typed /\ StoreInv => CommittedIsWritten
  BY DEF StoreInv, Safe, OnDisk, CommittedIsWritten
<1>2. Typed /\ Protocol /\ ShapeInv /\ [Next]_vars => [NamedRecordsAreInShape]_vars
  <2> SUFFICES ASSUME Typed, Protocol, ShapeInv, [Next]_vars, ~mode.indexed,
                      ~(Recs(manifest') \subseteq manifest)
               PROVE  Cardinality(Recs(manifest')) <= shape'
    BY DEF NamedRecordsAreInShape
  <2>1. WriteManifest /\ shape' = shape
    BY ManifestStep DEF Recs
  <2>2. manifest' = manifest \cup commit.items /\ commit.phase = "manifest"
    BY <2>1 DEF WriteManifest
  <2>3. Recs(commit.items) # {}
    BY <2>2 DEF Recs
  <2> QED BY <2>1, <2>2, <2>3 DEF ShapeInv
<1> QED BY <1>1, <1>2, StoreAlways, PTL DEF Spec, CommittedIsReadable

-----------------------------------------------------------------------------
(* What readers see: the writers implement CommittedRecords.               *)

\* The items a reader gets, and what it gets of x.
Seen == {x \in Item : x \in manifest /\ (x \in Rec /\ ~mode.indexed => x < shape)}
Content(x) == [w \in Team |-> disk[w][x]]

\* A reader gets every region of an item it gets, and nothing of the others.
ShowsRegions ==
    \A x \in Item :
        /\ Visible[x] = IF x \in Seen THEN Content(x) ELSE Fill
        /\ x \in Seen => Content(x) \in UNION {[m.team -> Value] : m \in Modes}
        /\ x \in Seen <=> Visible[x] # Fill

LEMMA VisibleItems == Typed /\ StoreInv => ShowsRegions
<1> SUFFICES ASSUME Typed, StoreInv, NEW x \in Item
             PROVE  /\ Visible[x] = IF x \in Seen THEN Content(x) ELSE Fill
                    /\ x \in Seen => Content(x) \in UNION {[m.team -> Value] : m \in Modes}
                    /\ x \in Seen <=> Visible[x] # Fill
  BY DEF ShowsRegions
<1>1. Visible[x] = IF x \in Seen THEN Content(x) ELSE Fill
  BY DEF Visible, Seen, Content
<1>2. x \in Seen => Content(x) \in [Team -> Value]
  BY DEF Seen, Content, StoreInv, Safe, OnDisk
<1>3. [Team -> Value] \in {[m.team -> Value] : m \in Modes}
  BY DEF Typed, Team
<1>4. Fill \notin [Team -> Value]
  BY ModeFacts
<1> QED BY <1>1, <1>2, <1>3, <1>4

\* What is committed is never accepted again, so what was accepted last stays.
LEMMA LastStays ==
    ASSUME Polite, Typed, Protocol, [Next]_vars, NEW u \in Team, NEW x \in manifest
    PROVE  last'[u][x] = last[u][x]
<1>0. x \in Item
  BY DEF Typed
<1>1. ASSUME NEW w \in Team, NEW i \in Item, i # x, NEW v, last' = [last EXCEPT ![w][i] = v]
      PROVE  last'[u][x] = last[u][x]
  BY <1>0, <1>1 DEF Typed
<1>2. CASE Abort
  BY <1>2, AbortFacts
<1>3. CASE UNCHANGED last
  BY <1>3
<1>4. ASSUME NEW w \in Team, WriteRecord(w) PROVE last'[u][x] = last[u][x]
  <2>1. h[w].up /\ ~mode.indexed /\ h[w].next \in Rec
    BY <1>4 DEF WriteRecord, Free
  <2>2. h[w].next # x /\ h[w].next \in Item
    BY <2>1, NextIsNew DEF Given, Item
  <2>3. Abort \/ last' = [last EXCEPT ![w][h[w].next] = Emit[h[w].next]]
    BY <1>4, FaultEnds DEF WriteRecord, Finish, FinishFails
  <2> QED BY <1>1, <1>2, <2>2, <2>3
<1>5. ASSUME NEW w \in Team, NEW i \in Rec, NEW v \in Value, WriteRecordAt(w, i, v)
      PROVE  last'[u][x] = last[u][x]
  <2>1. i \in Item /\ Free(w) /\ Mannerly(w, i) /\ ~SeenCommitted(w, i)
    BY <1>5 DEF WriteRecordAt, Item
  <2>2. i # x
    BY <2>1, AcceptedIsNew
  <2>3. Abort \/ last' = [last EXCEPT ![w][i] = v]
    BY <1>5, FaultEnds DEF WriteRecordAt, Finish, FinishFails
  <2> QED BY <1>1, <1>2, <2>1, <2>2, <2>3
<1>6. ASSUME NEW w \in Team, NEW y \in mode.statics, NEW v \in Value, WriteStatic(w, y, v)
      PROVE  last'[u][x] = last[u][x]
  <2>1. y \in Item /\ Free(w) /\ Mannerly(w, y) /\ ~SeenCommitted(w, y)
    BY <1>6, ModeFacts DEF WriteStatic, Item
  <2>2. y # x
    BY <2>1, AcceptedIsNew
  <2>3. Abort \/ last' = [last EXCEPT ![w][y] = v]
    BY <1>6, FaultEnds DEF WriteStatic
  <2> QED BY <1>1, <1>2, <2>1, <2>2, <2>3
<1>7. ASSUME NEW w \in Team, FlushFails(w) PROVE Abort
  BY <1>7, FaultEnds DEF FlushFails
<1>8. ASSUME NEW w \in Team, OpenContributor(w) \/ Flush(w) \/ Close(w) \/ \E y \in Item : RefuseWrite(w, y)
      PROVE  UNCHANGED last
  BY <1>8 DEF OpenContributor, Flush, Close, RefuseWrite
<1>9. CASE ResumeOwner \/ TruncateManifest \/ \E n \in 0 .. NumRecords : TruncateShapes(n)
  BY <1>3, <1>9 DEF ResumeOwner, TruncateManifest, TruncateShapes
<1>10. CASE \/ Commit \/ GrowShapes \/ WriteManifest \/ CommitFails
            \/ \E closing \in BOOLEAN : FlushAndCommit(closing)
            \/ \E X \in SUBSET Item : Invalidate(X)
  BY <1>3, <1>10 DEF Commit, GrowShapes, WriteManifest, CommitFails, FlushAndCommit, Invalidate
<1>11. CASE Preempt
  BY <1>2, <1>11 DEF Preempt
<1>12. CASE UNCHANGED vars
  BY <1>3, <1>12 DEF vars
<1> QED BY <1>2, <1>3, <1>4, <1>5, <1>6, <1>7, <1>8, <1>9, <1>10, <1>11, <1>12 DEF Next

\* A step shows items, or hides items, or neither: what a reader keeps does not change.
LEMMA SeenStep ==
    ASSUME Polite, Typed, Protocol, StoreInv, StoreInv', [Next]_vars
    PROVE  /\ Seen \subseteq Seen' \/ Seen' \subseteq Seen
           /\ \A x \in Seen \cap Seen' : Content(x)' = Content(x)
<1>1. mode' = mode /\ Team' = Team
  BY ManifestStep DEF Team
<1>2. ASSUME NEW x \in Seen \cap Seen' PROVE Content(x)' = Content(x)
  <2>1. x \in manifest /\ x \in manifest'
    BY DEF Seen
  <2>2. \A w \in Team : disk[w][x] = last[w][x] /\ disk'[w][x] = last'[w][x] /\ last'[w][x] = last[w][x]
    BY <1>1, <2>1, LastStays DEF StoreInv, Safe, OnDisk
  <2> QED BY <1>1, <2>2 DEF Content
<1>3. Seen \subseteq Seen' \/ Seen' \subseteq Seen
  <2>1. shape \in Nat /\ shape' \in Nat /\ \A x \in Rec : x \in Nat
    BY TypedStep, ModeFacts DEF Typed
  <2>2. CASE manifest' = manifest
    <3>1. CASE shape <= shape'
      BY <1>1, <2>1, <2>2, <3>1 DEF Seen
    <3>2. CASE shape' <= shape
      BY <1>1, <2>1, <2>2, <3>2 DEF Seen
    <3> QED BY <2>1, <3>1, <3>2
  <2>3. CASE WriteManifest /\ shape' = shape
    <3>1. manifest \subseteq manifest'
      BY <2>3 DEF WriteManifest
    <3> QED BY <1>1, <2>3, <3>1 DEF Seen
  <2>4. CASE manifest' \subseteq manifest /\ shape' = shape
    BY <1>1, <2>4 DEF Seen
  <2> QED BY <2>2, <2>3, <2>4, ManifestStep
<1> QED BY <1>2, <1>3

\* Each step of the writers publishes items, withdraws items, or shows readers nothing.
LEMMA ReaderStep ==
    Polite /\ Typed /\ Typed' /\ Protocol /\ StoreInv /\ StoreInv' /\ [Next]_vars => [Reader!Next]_Visible
<1> SUFFICES ASSUME Polite, Typed, Typed', Protocol, StoreInv, StoreInv', [Next]_vars
             PROVE  [Reader!Next]_Visible
  OBVIOUS
<1>1. ShowsRegions
  BY VisibleItems
<1>2. ShowsRegions'
  BY VisibleItems, PTL
<1>3. /\ Visible = [x \in Item |-> Visible[x]] /\ Visible' = [x \in Item |-> Visible'[x]]
      /\ Seen \subseteq Item /\ Seen' \subseteq Item
  BY DEF Visible, Seen
<1>4. Reader!Seen = Seen
  BY <1>1, <1>3 DEF Reader!Seen, ShowsRegions
<1>5. \A x \in Item : (x \in Seen <=> x \in Seen') => Visible'[x] = Visible[x]
  BY <1>1, <1>2, SeenStep DEF ShowsRegions
<1>6. CASE Seen' = Seen
  BY <1>3, <1>5, <1>6
<1>7. CASE Seen \subseteq Seen' /\ Seen' # Seen
  <2> DEFINE X == Seen' \ Seen
  <2>1. X # {} /\ X \cap Seen = {} /\ X \in SUBSET Item
    BY <1>3, <1>7
  <2>2. Visible' \in [Item -> (UNION {[m.team -> Value] : m \in Modes}) \cup {Fill}]
    <3>1. \A x \in Item : Visible'[x] \in (UNION {[m.team -> Value] : m \in Modes}) \cup {Fill}
      BY <1>2 DEF ShowsRegions
    <3> QED BY <1>3, <3>1
  <2>3. \A x \in Item : IF x \in X THEN Visible'[x] # Fill ELSE Visible'[x] = Visible[x]
    BY <1>2, <1>5, <1>7 DEF ShowsRegions
  <2> HIDE DEF X
  <2>4. Reader!Publish(X)
    BY <1>4, <2>1, <2>2, <2>3 DEF Reader!Publish
  <2> QED BY <2>1, <2>4 DEF Reader!Next
<1>8. CASE Seen' \subseteq Seen /\ Seen' # Seen
  <2> DEFINE X == Seen \ Seen'
  <2>1. X # {} /\ X \subseteq Seen /\ X \in SUBSET Item
    BY <1>3, <1>8
  <2>2. \A x \in Item : Visible'[x] = IF x \in X THEN Fill ELSE Visible[x]
    BY <1>2, <1>5, <1>8 DEF ShowsRegions
  <2> HIDE DEF X
  <2>3. Visible' = [x \in Item |-> IF x \in X THEN Fill ELSE Visible[x]]
    BY <1>3, <2>2
  <2>4. Reader!Withdraw(X)
    BY <1>4, <2>1, <2>3 DEF Reader!Withdraw
  <2> QED BY <2>1, <2>4 DEF Reader!Next
<1> QED BY <1>6, <1>7, <1>8, SeenStep

\* A committed record or static appears with every writer's region of it, and what a reader
\* can get never changes under the reader: the streaming writers implement CommittedRecords.
THEOREM ReadersAreServed == Polite => (Spec => CommittedKept)
<1>1. Init => Reader!Init
  BY DEF Init, Reader!Init, Visible
<1>2. ASSUME Polite PROVE Spec => Reader!Spec
  <2>1. Typed /\ Typed' /\ Protocol /\ StoreInv /\ StoreInv' /\ [Next]_vars => [Reader!Next]_Visible
    BY <1>2, ReaderStep
  <2>2. Spec => [](Typed /\ Protocol /\ StoreInv /\ ShapeInv)
    BY <1>2, StoreAlways
  <2> QED BY <1>1, <2>1, <2>2, PTL DEF Spec, Reader!Spec
<1> QED BY <1>2 DEF CommittedKept


=============================================================================
