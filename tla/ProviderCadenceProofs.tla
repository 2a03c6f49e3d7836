------------------------ MODULE ProviderCadenceProofs ------------------------
(***************************************************************************)
(* For every loader, window and instant: the buffer is of its anchor, a    *)
(* refresh never decodes again the file it was drawn from, a warmed run is *)
(* whole, and the files a group warms are those a sample decodes.          *)
(*                                                                         *)
(* A read is followed through its call: what it leaves of the files and    *)
(* the memo (CallOK), which file it got (GotOK), which record it found in  *)
(* it (RecordAt, and RecordIsDue for what that is worth), and, for both     *)
(* kinds of loader, the sample (Reads).  IInv then says what a call leaves *)
(* for the next one.  Of an address reused by the allocator nothing is     *)
(* assumed but that no one holds it.                                       *)
(***************************************************************************)
EXTENDS ProviderCadence, CalendarProofs, SequenceTheorems

(* --- the list of kept files -------------------------------------------*)

\* A decoded file kept: the anchor of the file, and its address.
File == [anchor : Int, addr : 1..8]

\* A list of kept files, at most n of them and none twice.
ListOK(n, fs) ==
    /\ fs \in Seq(File) /\ Len(fs) <= n
    /\ \A i, j \in 1..Len(fs) : i # j => fs[i].anchor # fs[j].anchor /\ fs[i].addr # fs[j].addr

\* r is the sequence s without its i-th element.
Without(S, s, i, r) ==
    /\ r \in Seq(S) /\ Len(r) = Len(s) - 1
    /\ \A j \in 1..(Len(s) - 1) : r[j] = IF j < i THEN s[j] ELSE s[j + 1]

\* RemoveAt takes one element out and keeps the order of the rest.
LEMMA RemoveAtIs ==
    ASSUME NEW S, NEW s \in Seq(S), NEW i \in 1..Len(s)
    PROVE  Without(S, s, i, RemoveAt(s, i))
<1> DEFINE r == RemoveAt(s, i)
           a == SubSeq(s, 1, i - 1)
           b == SubSeq(s, i + 1, Len(s))
<1>1. Len(s) \in Nat /\ \A j \in 1..Len(s) : s[j] \in S
  BY LenProperties, ElementOfSeq
<1>2. /\ a \in Seq(S) /\ Len(a) = i - 1 /\ \A j \in 1..(i - 1) : a[j] = s[j]
  <2>1. i - 1 \in Int /\ 1 \in Int /\ \A j \in 1..(i - 1) : s[j] \in S
    BY <1>1
  <2>2. /\ a \in Seq(S) /\ Len(a) = IF 1 <= i - 1 THEN (i - 1) - 1 + 1 ELSE 0
        /\ \A j \in 1..((i - 1) - 1 + 1) : a[j] = s[1 + j - 1]
    BY <2>1, SubSeqProperties
  <2> HIDE DEF a
  <2>3. \A j \in 1..(i - 1) : a[j] = s[j]
    <3> TAKE j \in 1..(i - 1)
    <3>1. j \in 1..((i - 1) - 1 + 1) /\ 1 + j - 1 = j
      OBVIOUS
    <3> QED BY <2>2, <3>1
  <2> QED BY <2>2, <2>3
<1>3. /\ b \in Seq(S) /\ Len(b) = Len(s) - i /\ \A j \in 1..(Len(s) - i) : b[j] = s[i + j]
  <2>1. i + 1 \in Int /\ Len(s) \in Int /\ \A j \in (i + 1)..Len(s) : s[j] \in S
    BY <1>1
  <2>2. /\ b \in Seq(S) /\ Len(b) = IF i + 1 <= Len(s) THEN Len(s) - (i + 1) + 1 ELSE 0
        /\ \A j \in 1..(Len(s) - (i + 1) + 1) : b[j] = s[(i + 1) + j - 1]
    BY <2>1, SubSeqProperties
  <2> HIDE DEF b
  <2>3. \A j \in 1..(Len(s) - i) : b[j] = s[i + j]
    <3> TAKE j \in 1..(Len(s) - i)
    <3>1. j \in 1..(Len(s) - (i + 1) + 1) /\ (i + 1) + j - 1 = i + j
      BY <1>1
    <3> QED BY <2>2, <3>1
  <2> QED BY <1>1, <2>2, <2>3
<1>4. r = a \o b
  BY DEF RemoveAt
<1> HIDE DEF a, b, r
<1>5. /\ r \in Seq(S) /\ Len(r) = Len(a) + Len(b)
      /\ \A j \in 1..(Len(a) + Len(b)) : r[j] = IF j <= Len(a) THEN a[j] ELSE b[j - Len(a)]
  <2>1. /\ a \o b \in Seq(S) /\ Len(a \o b) = Len(a) + Len(b)
        /\ \A j \in 1..(Len(a) + Len(b)) : (a \o b)[j] = IF j <= Len(a) THEN a[j] ELSE b[j - Len(a)]
    BY <1>2, <1>3, ConcatProperties
  <2> QED BY <1>4, <2>1
<1>6. ASSUME NEW j \in 1..(Len(s) - 1) PROVE r[j] = IF j < i THEN s[j] ELSE s[j + 1]
  <2>1. j \in 1..(Len(a) + Len(b))
    BY <1>1, <1>2, <1>3
  <2>2. CASE j < i
    <3>1. j <= Len(a) /\ j \in 1..(i - 1)
      BY <1>1, <1>2, <2>2
    <3> QED BY <1>2, <1>5, <2>1, <2>2, <3>1
  <2>3. CASE ~(j < i)
    <3>1. ~(j <= Len(a)) /\ j - Len(a) \in 1..(Len(s) - i) /\ i + (j - Len(a)) = j + 1
      BY <1>1, <1>2, <2>3
    <3> QED BY <1>3, <1>5, <2>1, <2>3, <3>1
  <2> QED BY <2>2, <2>3
<1>7. r \in Seq(S) /\ Len(r) = Len(s) - 1
  BY <1>1, <1>2, <1>3, <1>5
<1> QED BY <1>6, <1>7 DEF Without, r

\* g has the files of fs, that at i last.
Touches(n, fs, i, g) ==
    /\ ListOK(n, g) /\ Len(g) = Len(fs) /\ g[Len(g)] = fs[i]
    /\ \A j \in 1..Len(g) : \E k \in 1..Len(fs) : g[j] = fs[k]
    /\ \A k \in 1..Len(fs) : \E j \in 1..Len(g) : g[j] = fs[k]

\* A file used again is the last of the list, which has the same files.
LEMMA TouchedOK ==
    ASSUME NEW n \in Nat, NEW fs, ListOK(n, fs), NEW i \in 1..Len(fs)
    PROVE  Touches(n, fs, i, Touched(fs, i))
<1> DEFINE g == Touched(fs, i)
           r == RemoveAt(fs, i)
           at(j) == IF j < i THEN j ELSE IF j < Len(fs) THEN j + 1 ELSE i
           back(k) == IF k < i THEN k ELSE IF k = i THEN Len(fs) ELSE k - 1
<1>1. /\ fs \in Seq(File) /\ Len(fs) \in Nat /\ Len(fs) <= n
      /\ \A j, k \in 1..Len(fs) : j # k => fs[j].anchor # fs[k].anchor /\ fs[j].addr # fs[k].addr
  BY LenProperties DEF ListOK
<1>2. /\ r \in Seq(File) /\ Len(r) = Len(fs) - 1
      /\ \A j \in 1..(Len(fs) - 1) : r[j] = IF j < i THEN fs[j] ELSE fs[j + 1]
  <2>1. Without(File, fs, i, r)
    BY <1>1, RemoveAtIs
  <2> HIDE DEF r
  <2> QED BY <2>1 DEF Without
<1>3. g = Append(r, fs[i]) /\ fs[i] \in File
  BY <1>1, ElementOfSeq DEF Touched
<1> HIDE DEF r, g
<1>4. /\ g \in Seq(File) /\ Len(g) = Len(r) + 1
      /\ \A j \in 1..Len(r) : g[j] = r[j]
      /\ g[Len(r) + 1] = fs[i]
  BY <1>2, <1>3, AppendProperties
<1>5. Len(g) = Len(fs) /\ g[Len(g)] = fs[i]
  BY <1>1, <1>2, <1>4
<1>6. ASSUME NEW j \in 1..Len(g) PROVE g[j] = fs[at(j)] /\ at(j) \in 1..Len(fs)
  <2>1. CASE j = Len(fs)
    BY <1>1, <1>5, <2>1
  <2>2. CASE j # Len(fs)
    <3>1. j \in 1..(Len(fs) - 1) /\ j < Len(fs)
      BY <1>1, <1>5, <2>2
    <3>2. g[j] = IF j < i THEN fs[j] ELSE fs[j + 1]
      BY <1>2, <1>4, <3>1
    <3> QED BY <1>1, <3>1, <3>2
  <2> QED BY <2>1, <2>2
<1>7. ASSUME NEW j \in 1..Len(g), NEW k \in 1..Len(g), j # k PROVE at(j) # at(k)
  BY <1>1, <1>5, <1>7
<1>8. ASSUME NEW k \in 1..Len(fs) PROVE back(k) \in 1..Len(g) /\ at(back(k)) = k
  BY <1>1, <1>5
<1> HIDE DEF at, back
<1>9. ListOK(n, g)
  <2>1. ASSUME NEW j \in 1..Len(g), NEW k \in 1..Len(g), j # k
        PROVE  g[j].anchor # g[k].anchor /\ g[j].addr # g[k].addr
    <3>1. /\ at(j) \in 1..Len(fs) /\ at(k) \in 1..Len(fs) /\ at(j) # at(k)
          /\ g[j] = fs[at(j)] /\ g[k] = fs[at(k)]
      BY <1>6, <1>7, <2>1
    <3> QED BY <1>1, <3>1
  <2> QED BY <1>1, <1>4, <1>5, <2>1 DEF ListOK
<1>10. \A k \in 1..Len(fs) : \E j \in 1..Len(g) : g[j] = fs[k]
  BY <1>6, <1>8
<1> QED BY <1>5, <1>6, <1>9, <1>10 DEF Touches, g

\* A new file is the last of the list; of two, the one used last stays.
LEMMA PushedOK ==
    ASSUME Cap \in {1, 2}, NEW fs, ListOK(Cap, fs), NEW f \in File,
           \A i \in 1..Len(fs) : fs[i].anchor # f.anchor /\ fs[i].addr # f.addr,
           NEW g, g = Pushed(fs, f)
    PROVE  /\ ListOK(Cap, g) /\ Len(g) > 0 /\ g[Len(g)] = f
           /\ \A i \in 1..Len(g) : g[i] = f \/ \E k \in 1..Len(fs) : g[i] = fs[k]
           /\ Cap = 2 /\ Len(fs) > 0 => \E i \in 1..Len(g) : g[i] = fs[Len(fs)]
<1> DEFINE kept == Append(fs, f)
           m == Len(fs)
<1>1. /\ fs \in Seq(File) /\ m \in Nat /\ m <= Cap
      /\ \A i, j \in 1..m : i # j => fs[i].anchor # fs[j].anchor /\ fs[i].addr # fs[j].addr
  BY LenProperties DEF ListOK
<1>2. /\ kept \in Seq(File) /\ Len(kept) = m + 1
      /\ kept[m + 1] = f /\ \A i \in 1..m : kept[i] = fs[i]
      /\ \A i \in 1..(m + 1) : kept[i] \in File
  BY <1>1, AppendProperties, ElementOfSeq
<1>3. g = IF Len(kept) - Cap > 0 THEN SubSeq(kept, (Len(kept) - Cap) + 1, Len(kept)) ELSE kept
  BY Zenon DEF Pushed
<1>4. \A i \in 1..m : fs[i].anchor # f.anchor /\ fs[i].addr # f.addr
  OBVIOUS
<1> HIDE DEF kept, m
<1>5. CASE m < Cap
  <2>1. g = kept
    BY <1>1, <1>2, <1>3, <1>5
  <2>2. ASSUME NEW i \in 1..(m + 1), NEW j \in 1..(m + 1), i # j
        PROVE  g[i].anchor # g[j].anchor /\ g[i].addr # g[j].addr
    <3>1. CASE i = m + 1
      <4>1. j \in 1..m
        BY <1>1, <2>2, <3>1
      <4> QED BY <1>2, <1>4, <2>1, <3>1, <4>1
    <3>2. CASE j = m + 1
      <4>1. i \in 1..m
        BY <1>1, <2>2, <3>2
      <4> QED BY <1>2, <1>4, <2>1, <3>2, <4>1
    <3>3. CASE i # m + 1 /\ j # m + 1
      <4>1. i \in 1..m /\ j \in 1..m
        BY <1>1, <3>3
      <4> QED BY <1>1, <1>2, <2>1, <2>2, <4>1
    <3> QED BY <3>1, <3>2, <3>3
  <2>3. ListOK(Cap, g)
    BY <1>1, <1>2, <1>5, <2>1, <2>2 DEF ListOK
  <2>4. \A i \in 1..Len(g) : g[i] = f \/ \E k \in 1..m : g[i] = fs[k]
    <3> TAKE i \in 1..Len(g)
    <3>1. i = m + 1 \/ i \in 1..m
      BY <1>1, <1>2, <2>1
    <3> QED BY <1>2, <2>1, <3>1
  <2>5. m > 0 => \E i \in 1..Len(g) : g[i] = fs[m]
    <3>1. m > 0 => m \in 1..m /\ m \in 1..Len(g)
      BY <1>1, <1>2, <2>1
    <3> QED BY <1>2, <2>1, <3>1
  <2> QED BY <1>1, <1>2, <2>1, <2>3, <2>4, <2>5 DEF m
<1>6. CASE m = Cap
  <2>1. g = SubSeq(kept, 2, m + 1)
    <3>1. Len(kept) - Cap = 1 /\ 1 > 0 /\ (Len(kept) - Cap) + 1 = 2
      BY <1>1, <1>2, <1>6
    <3> QED BY Zenon, <1>2, <1>3, <3>1
  <2>2. /\ g \in Seq(File) /\ Len(g) = m
        /\ \A i \in 1..m : g[i] = kept[i + 1]
    <3>1. 2 \in Int /\ m + 1 \in Int /\ \A i \in 2..(m + 1) : kept[i] \in File
      BY <1>1, <1>2
    <3>2. /\ g \in Seq(File) /\ Len(g) = IF 2 <= m + 1 THEN (m + 1) - 2 + 1 ELSE 0
          /\ \A i \in 1..((m + 1) - 2 + 1) : g[i] = kept[2 + i - 1]
      BY <2>1, <3>1, SubSeqProperties
    <3>3. \A i \in 1..m : g[i] = kept[i + 1]
      <4> TAKE i \in 1..m
      <4>1. i \in 1..((m + 1) - 2 + 1) /\ 2 + i - 1 = i + 1
        BY <1>1
      <4> QED BY <3>2, <4>1
    <3> QED BY <1>1, <1>6, <3>2, <3>3
  <2>3. CASE Cap = 1
    <3>1. Len(g) = 1 /\ g[1] = f
      BY <1>2, <1>6, <2>2, <2>3
    <3> QED BY <1>1, <1>6, <2>2, <2>3, <3>1 DEF ListOK
  <2>4. CASE Cap = 2
    <3>1. Len(g) = 2 /\ g[1] = fs[2] /\ g[2] = f /\ 2 \in 1..m
      BY <1>2, <1>6, <2>2, <2>4
    <3>2. g[1].anchor # g[2].anchor /\ g[1].addr # g[2].addr
      BY <1>4, <3>1
    <3>3. ListOK(Cap, g)
      BY <2>2, <2>4, <3>1, <3>2 DEF ListOK
    <3>4. Len(fs) = 2
      BY <1>6, <2>4 DEF m
    <3> QED BY <3>1, <3>3, <3>4
  <2> QED BY <2>3, <2>4
<1> QED BY <1>1, <1>5, <1>6

(* --- the memo, and a call in progress ---------------------------------*)

\* A decoded axis: the address of its file, and the file it is of.
MemoEntry == [addr : 1..8, of : Int]

\* At most four addresses are in a memo, and that of a kept file is its own.
MemoOK(fs, m) ==
    /\ m \subseteq MemoEntry
    /\ \A e \in m, i \in 1..Len(fs) : e.addr = fs[i].addr => e.of = fs[i].anchor
    /\ \E w, x, y, z : \A e \in m : e.addr \in {w, x, y, z}

\* The fields of a call in progress (Call).
CallType == [files : Seq(File), memo : SUBSET MemoEntry, held : SUBSET (1..8), addr : 0..8,
             rec : Int, ok : BOOLEAN, decoded : SUBSET Int, lru : BOOLEAN]

\* A call whose files and memo are as they must be.
CallOK(c) == c \in CallType /\ ListOK(Cap, c.files) /\ MemoOK(c.files, c.memo)

\* The file of fa is the one got last.
GotOK(c, fa) ==
    /\ c.addr \in 1..8 /\ c.addr \in c.held
    /\ \A i \in 1..Len(c.files) : c.files[i].addr = c.addr => c.files[i].anchor = fa
    /\ \A e \in c.memo : e.addr = c.addr => e.of = fa

\* fa is a kept file's.
KeptIn(fs, fa) == \E i \in 1..Len(fs) : fs[i].anchor = fa

\* The domain and the elements of a sequence.
LEMMA SeqDomain ==
    ASSUME NEW S, NEW s \in Seq(S)
    PROVE  /\ DOMAIN s = 1..Len(s) /\ Len(s) \in Nat
           /\ ToSet(s) = {s[i] : i \in 1..Len(s)}
BY LenProperties DEF ToSet

\* Seven addresses leave one of eight.
LEMMA EightAddresses ==
    ASSUME NEW a, NEW b, NEW c, NEW d, NEW e, NEW f, NEW g, NEW X, X \subseteq {a, b, c, d, e, f, g}
    PROVE  \E x \in 1..8 : x \notin X
BY SMTT(60)

\* The least of a set of naturals is in it.
LEMMA MinIs ==
    ASSUME NEW S \in SUBSET Nat, S # {}
    PROVE  Min(S) \in S /\ \A x \in S : Min(S) <= x
<1>1. \E x \in S : \A y \in S : x <= y
  BY LeastNatural
<1> QED BY Zenon, <1>1 DEF Min

\* While a call holds one file at most, there is an address left, and it is new.
LEMMA FreshAddrIsFree ==
    ASSUME Cap \in {1, 2}, NEW c, CallOK(c), NEW u, c.held \subseteq {u}
    PROVE  /\ FreshAddr(c) \in 1..8 /\ FreshAddr(c) \notin c.held
           /\ \A i \in 1..Len(c.files) : c.files[i].addr # FreshAddr(c)
           /\ \A e \in c.memo : e.addr # FreshAddr(c)
<1> DEFINE fs == c.files
           taken == Used(c) \cup {m.addr : m \in c.memo}
           free == (1..8) \ taken
<1>1. fs \in Seq(File) /\ Len(fs) <= Cap
  BY DEF CallOK, ListOK
<1>2. /\ DOMAIN fs = 1..Len(fs) /\ Len(fs) \in Nat
      /\ ToSet(fs) = {fs[i] : i \in 1..Len(fs)}
  BY <1>1, SeqDomain
<1>3. PICK w, x, y, z : \A e \in c.memo : e.addr \in {w, x, y, z}
  BY Zenon DEF CallOK, MemoOK
<1>4. Used(c) = {f.addr : f \in ToSet(fs)} \cup c.held
  BY DEF Used
<1>5. \A i \in 1..Len(fs) : fs[i].addr \in Used(c)
  BY <1>2, <1>4
<1>6. taken \subseteq {fs[1].addr, fs[2].addr, u, w, x, y, z}
  <2>1. \A i \in 1..Len(fs) : i = 1 \/ i = 2
    BY <1>1, <1>2
  <2>2. Used(c) \subseteq {fs[1].addr, fs[2].addr, u}
    <3> SUFFICES ASSUME NEW a \in Used(c) PROVE a \in {fs[1].addr, fs[2].addr, u}
      OBVIOUS
    <3>1. CASE a \in c.held
      BY <3>1
    <3>2. CASE a \notin c.held
      <4>1. PICK i \in 1..Len(fs) : a = fs[i].addr
        BY Zenon, <1>2, <1>4, <3>2
      <4> QED BY <2>1, <4>1
    <3> QED BY <3>1, <3>2
  <2>3. {m.addr : m \in c.memo} \subseteq {w, x, y, z}
    BY <1>3
  <2> QED BY <2>2, <2>3
<1>7. PICK a \in 1..8 : a \notin taken
  <2> HIDE DEF taken
  <2> QED BY <1>6, EightAddresses
<1>8. FreshAddr(c) = Min(free)
  BY Zenon DEF FreshAddr
<1>9. Min(free) \in free
  <2>1. free \in SUBSET Nat /\ free # {}
    BY <1>7
  <2> HIDE DEF free
  <2> QED BY <2>1, MinIs
<1>10. /\ FreshAddr(c) \in 1..8 /\ FreshAddr(c) \notin Used(c)
       /\ FreshAddr(c) \notin {m.addr : m \in c.memo}
  BY <1>8, <1>9
<1>11. c.held \subseteq Used(c)
  BY <1>4
<1> QED BY <1>5, <1>10, <1>11

(* --- reading one file -------------------------------------------------*)

\* A file is kept, or the list has no file of its anchor.
LEMMA KeptIs ==
    ASSUME NEW c, CallOK(c), NEW fa
    PROVE  /\ Kept(c, fa) = {i \in 1..Len(c.files) : c.lru /\ c.files[i].anchor = fa}
           /\ Kept(c, fa) # {} <=> c.lru /\ KeptIn(c.files, fa)
<1>1. c.files \in Seq(File)
  BY DEF CallOK, ListOK
<1>2. DOMAIN c.files = 1..Len(c.files)
  BY <1>1, SeqDomain
<1> QED BY <1>2 DEF Kept, KeptIn

\* A call that got a file: its list of files and what it decoded.
GotWith(c, g, dec, v) == Got([c EXCEPT !.files = g, !.decoded = dec], v)

\* The fields of a call that got a file.
LEMMA GotFields ==
    ASSUME NEW c \in CallType, NEW g \in Seq(File), NEW v \in 1..8, NEW dec \in SUBSET Int,
           NEW d, d = GotWith(c, g, dec, v)
    PROVE  /\ d \in CallType /\ d.files = g /\ d.memo = c.memo /\ d.lru = c.lru /\ d.rec = c.rec
           /\ d.addr = v /\ d.held = c.held \cup {v} /\ d.ok /\ d.decoded = dec
<1> DEFINE S == Seq(File)
           M == SUBSET MemoEntry
           H == SUBSET (1..8)
           A == 0..8
           B == BOOLEAN
           D == SUBSET Int
<1>1. c \in [files : S, memo : M, held : H, addr : A, rec : Int, ok : B, decoded : D, lru : B]
  BY DEF CallType
<1>2. g \in S /\ c.held \cup {v} \in H /\ v \in A /\ TRUE \in B /\ dec \in D
  BY <1>1
<1> HIDE DEF S, M, H, A, B, D
<1>3. d \in [files : S, memo : M, held : H, addr : A, rec : Int, ok : B, decoded : D, lru : B]
  BY <1>1, <1>2 DEF Got, GotWith
<1>4. /\ d.files = g /\ d.memo = c.memo /\ d.lru = c.lru /\ d.rec = c.rec
      /\ d.addr = v /\ d.held = c.held \cup {v} /\ d.ok /\ d.decoded = dec
  BY <1>1, <1>2 DEF Got, GotWith
<1> QED BY <1>3, <1>4 DEF CallType, S, M, H, A, B, D

\* A call told that it failed, or that it did not.
LEMMA OkFields ==
    ASSUME NEW c, CallOK(c), NEW b \in BOOLEAN, NEW d, d = [c EXCEPT !.ok = b]
    PROVE  /\ CallOK(d) /\ d.files = c.files /\ d.memo = c.memo /\ d.held = c.held
           /\ d.rec = c.rec /\ d.decoded = c.decoded /\ d.lru = c.lru /\ d.ok = b
<1> DEFINE S == Seq(File)
           M == SUBSET MemoEntry
           H == SUBSET (1..8)
           A == 0..8
           B == BOOLEAN
           D == SUBSET Int
<1>1. c \in [files : S, memo : M, held : H, addr : A, rec : Int, ok : B, decoded : D, lru : B]
  BY DEF CallOK, CallType
<1>2. b \in B
  OBVIOUS
<1> HIDE DEF S, M, H, A, B, D
<1>3. d \in [files : S, memo : M, held : H, addr : A, rec : Int, ok : B, decoded : D, lru : B]
  BY <1>1, <1>2
<1>4. /\ d.files = c.files /\ d.memo = c.memo /\ d.held = c.held
      /\ d.rec = c.rec /\ d.decoded = c.decoded /\ d.lru = c.lru /\ d.ok = b
  BY <1>1, <1>2
<1>5. d \in CallType
  BY <1>3 DEF CallType, S, M, H, A, B, D
<1>6. CallOK(d)
  BY Zenon, <1>4, <1>5 DEF CallOK
<1> QED BY Zenon, <1>4, <1>6

\* What finding a record sets.
LEMMA FoundFields ==
    ASSUME NEW c \in CallType, NEW r \in Int, NEW d, d = Found(c, r)
    PROVE  /\ d \in CallType /\ d.files = c.files /\ d.memo = c.memo /\ d.held = c.held
           /\ d.addr = c.addr /\ d.rec = r /\ d.decoded = c.decoded /\ d.lru = c.lru
           /\ d.ok <=> r >= 0
<1> DEFINE S == Seq(File)
           M == SUBSET MemoEntry
           H == SUBSET (1..8)
           A == 0..8
           B == BOOLEAN
           D == SUBSET Int
           b == r >= 0
<1>1. c \in [files : S, memo : M, held : H, addr : A, rec : Int, ok : B, decoded : D, lru : B]
  BY DEF CallType
<1>2. b \in B
  OBVIOUS
<1> DEFINE e == [c EXCEPT !.rec = r, !.ok = b]
<1>5. d = e
  BY DEF Found
<1> HIDE DEF S, M, H, A, B, D, b
<1>3. d \in [files : S, memo : M, held : H, addr : A, rec : Int, ok : B, decoded : D, lru : B]
  BY <1>1, <1>2, <1>5
<1>4. /\ d.files = c.files /\ d.memo = c.memo /\ d.held = c.held /\ d.addr = c.addr
      /\ d.rec = r /\ d.ok = b /\ d.decoded = c.decoded /\ d.lru = c.lru
  BY <1>1, <1>2, <1>5
<1> QED BY <1>3, <1>4 DEF CallType, S, M, H, A, B, D, b

\* What a read of the file of fa leaves of a call.
GetsFile(c, fa, down, d) ==
    /\ CallOK(d) /\ d.memo = c.memo /\ d.lru = c.lru /\ d.rec = c.rec
    /\ \E v : d.held \subseteq c.held \cup {v}
    /\ c.decoded \subseteq d.decoded /\ d.decoded \subseteq c.decoded \cup {fa}
    /\ d.ok => GotOK(d, fa)
    /\ fa \notin down => d.ok
    /\ ~d.ok => d.files = c.files
    /\ ~c.lru => d.files = c.files
    /\ c.lru /\ KeptIn(c.files, fa) => d.ok /\ d.decoded = c.decoded
    /\ c.lru /\ d.ok => Len(d.files) > 0 /\ d.files[Len(d.files)].anchor = fa
    /\ c.lru /\ Cap = 2 /\ Len(c.files) > 0 => KeptIn(d.files, c.files[Len(c.files)].anchor)

\* A kept file is got without decoding it (LruFiles::file, its first branch).
LEMMA GetKept ==
    ASSUME Cap \in {1, 2}, NEW c, CallOK(c), NEW u, c.held \subseteq {u}, NEW fa \in Int, NEW down,
           c.ok, Kept(c, fa) # {}, NEW d, d = GetFile(c, fa, down)
    PROVE  GetsFile(c, fa, down, d)
<1> DEFINE fs == c.files
           i == Min(Kept(c, fa))
           g == Touched(fs, i)
           v == fs[i].addr
<1>1. /\ c \in CallType /\ fs \in Seq(File) /\ Len(fs) \in Nat
      /\ ListOK(Cap, fs) /\ MemoOK(fs, c.memo)
  BY LenProperties DEF CallOK, ListOK
<1>2. i \in 1..Len(fs) /\ c.lru /\ fs[i].anchor = fa
  <2> DEFINE K == Kept(c, fa)
  <2>1. K = {k \in 1..Len(fs) : c.lru /\ fs[k].anchor = fa} /\ K # {}
    BY KeptIs
  <2>2. K \in SUBSET Nat
    BY <1>1, <2>1
  <2>3. Min(K) \in K
    <3> HIDE DEF K
    <3> QED BY <2>1, <2>2, MinIs
  <2> QED BY <2>1, <2>3
<1>3. d = Got([c EXCEPT !.files = g], v)
  BY Zenon DEF GetFile
<1> HIDE DEF i
<1>4. v \in 1..8 /\ fs[i] \in File
  <2>1. fs[i] \in File
    BY <1>1, <1>2, ElementOfSeq
  <2> QED BY <2>1 DEF File
<1>5. /\ ListOK(Cap, g) /\ Len(g) = Len(fs) /\ g[Len(g)] = fs[i]
      /\ \A j \in 1..Len(g) : \E k \in 1..Len(fs) : g[j] = fs[k]
      /\ \A k \in 1..Len(fs) : \E j \in 1..Len(g) : g[j] = fs[k]
  <2>1. Cap \in Nat /\ g = Touched(fs, i)
    OBVIOUS
  <2>2. ListOK(Cap, fs) /\ i \in 1..Len(fs)
    BY <1>1, <1>2
  <2>3. Touches(Cap, fs, i, Touched(fs, i))
    BY <2>1, <2>2, TouchedOK
  <2> HIDE DEF g
  <2> QED BY <2>1, <2>3 DEF Touches
<1>6. g \in Seq(File)
  BY <1>5 DEF ListOK
<1> HIDE DEF g, v, fs
<1>7. /\ d \in CallType /\ d.files = g /\ d.memo = c.memo /\ d.lru = c.lru /\ d.rec = c.rec
      /\ d.addr = v /\ d.held = c.held \cup {v} /\ d.ok /\ d.decoded = c.decoded
  <2>1. c.decoded \in SUBSET Int
    BY <1>1 DEF CallType
  <2>2. d = GotWith(c, g, c.decoded, v)
    BY <1>1, <1>3 DEF Got, GotWith, CallType
  <2> QED BY <1>1, <1>4, <1>6, <2>1, <2>2, GotFields
<1>8. MemoOK(g, c.memo)
  <2>1. /\ c.memo \subseteq MemoEntry
        /\ \E w, x, y, z : \A e \in c.memo : e.addr \in {w, x, y, z}
        /\ \A e \in c.memo, k \in 1..Len(fs) : e.addr = fs[k].addr => e.of = fs[k].anchor
    BY <1>1, Zenon DEF MemoOK
  <2>2. ASSUME NEW e \in c.memo, NEW j \in 1..Len(g), e.addr = g[j].addr PROVE e.of = g[j].anchor
    <3>1. PICK k \in 1..Len(fs) : g[j] = fs[k]
      BY <1>5
    <3> QED BY <2>1, <2>2, <3>1
  <2> QED BY Zenon, <2>1, <2>2 DEF MemoOK
<1>9. CallOK(d)
  BY <1>5, <1>7, <1>8 DEF CallOK
<1>10. GotOK(d, fa)
  <2>1. \A e \in c.memo, k \in 1..Len(fs) : e.addr = fs[k].addr => e.of = fs[k].anchor
    BY <1>1, Zenon DEF MemoOK
  <2>2. \A e \in c.memo : e.addr = v => e.of = fa
    BY <1>2, <2>1 DEF v
  <2>3. \A j \in 1..Len(g) : g[j].addr = v => g[j].anchor = fa
    <3> TAKE j \in 1..Len(g)
    <3>1. PICK k \in 1..Len(fs) : g[j] = fs[k]
      BY <1>5
    <3>2. k # i => fs[k].addr # fs[i].addr
      BY <1>1, <1>2 DEF ListOK
    <3> QED BY <1>2, <3>1, <3>2 DEF v
  <2> QED BY <1>4, <1>7, <2>2, <2>3 DEF GotOK
<1>11. Len(g) > 0 /\ g[Len(g)].anchor = fa
  BY <1>1, <1>2, <1>5
<1>12. Len(fs) > 0 => KeptIn(g, fs[Len(fs)].anchor)
  <2>1. Len(fs) > 0 => Len(fs) \in 1..Len(fs)
    BY <1>1
  <2> QED BY <1>5, <2>1 DEF KeptIn
<1>13. /\ \E w : d.held \subseteq c.held \cup {w}
       /\ c.decoded \subseteq d.decoded
       /\ d.decoded \subseteq c.decoded \cup {fa}
  BY <1>7
<1> QED BY <1>2, <1>7, <1>9, <1>10, <1>11, <1>12, <1>13 DEF GetsFile, fs

\* A file that is not kept is decoded at an address no one holds.
LEMMA GetNew ==
    ASSUME Cap \in {1, 2}, NEW c, CallOK(c), NEW u, c.held \subseteq {u}, NEW fa \in Int, NEW down,
           c.ok, Kept(c, fa) = {}, fa \notin down, NEW d, d = GetFile(c, fa, down)
    PROVE  GetsFile(c, fa, down, d)
<1> DEFINE fs == c.files
           v == FreshAddr(c)
           f == [anchor |-> fa, addr |-> v]
           g == IF c.lru THEN Pushed(fs, f) ELSE fs
<1>1. /\ c \in CallType /\ fs \in Seq(File) /\ Len(fs) \in Nat
      /\ ListOK(Cap, fs) /\ MemoOK(fs, c.memo)
  BY LenProperties DEF CallOK, ListOK
<1>2. /\ v \in 1..8 /\ v \notin c.held
      /\ \A i \in 1..Len(fs) : fs[i].addr # v
      /\ \A e \in c.memo : e.addr # v
  BY FreshAddrIsFree
<1>3. d = Got([c EXCEPT !.files = g, !.decoded = @ \cup {fa}], v)
  BY Zenon DEF GetFile, Decode
<1> HIDE DEF v
<1>4. f \in File /\ f.anchor = fa /\ f.addr = v
  BY <1>2 DEF File
<1>5. c.lru => \A i \in 1..Len(fs) : fs[i].anchor # fa
  BY KeptIs DEF KeptIn
<1>6. c.lru => /\ ListOK(Cap, g) /\ Len(g) > 0 /\ g[Len(g)] = f
               /\ \A i \in 1..Len(g) : g[i] = f \/ \E k \in 1..Len(fs) : g[i] = fs[k]
               /\ Cap = 2 /\ Len(fs) > 0 => \E i \in 1..Len(g) : g[i] = fs[Len(fs)]
  <2> SUFFICES ASSUME c.lru
               PROVE  /\ ListOK(Cap, g) /\ Len(g) > 0 /\ g[Len(g)] = f
                      /\ \A i \in 1..Len(g) : g[i] = f \/ \E k \in 1..Len(fs) : g[i] = fs[k]
                      /\ Cap = 2 /\ Len(fs) > 0 => \E i \in 1..Len(g) : g[i] = fs[Len(fs)]
    OBVIOUS
  <2>1. g = Pushed(fs, f)
    OBVIOUS
  <2>2. \A i \in 1..Len(fs) : fs[i].anchor # f.anchor /\ fs[i].addr # f.addr
    BY <1>2, <1>4, <1>5
  <2> HIDE DEF g, f, fs
  <2> QED BY <1>1, <1>4, <2>1, <2>2, PushedOK
<1>7. ~c.lru => g = fs
  OBVIOUS
<1>8. ListOK(Cap, g) /\ g \in Seq(File)
  BY <1>1, <1>6, <1>7 DEF ListOK
<1>9. \A i \in 1..Len(g) : g[i] = f \/ \E k \in 1..Len(fs) : g[i] = fs[k]
  BY <1>6, <1>7
<1> HIDE DEF g, f
<1>10. /\ d \in CallType /\ d.files = g /\ d.memo = c.memo /\ d.lru = c.lru /\ d.rec = c.rec
       /\ d.addr = v /\ d.held = c.held \cup {v} /\ d.ok /\ d.decoded = c.decoded \cup {fa}
  <2> DEFINE dec == c.decoded \cup {fa}
  <2>1. dec \in SUBSET Int
    BY <1>1 DEF CallType
  <2>2. d = GotWith(c, g, dec, v)
    BY <1>3, Zenon DEF GotWith
  <2> HIDE DEF dec
  <2>3. /\ d \in CallType /\ d.files = g /\ d.memo = c.memo /\ d.lru = c.lru /\ d.rec = c.rec
        /\ d.addr = v /\ d.held = c.held \cup {v} /\ d.ok /\ d.decoded = dec
    BY <1>1, <1>2, <1>8, <2>1, <2>2, GotFields
  <2> QED BY <2>3 DEF dec
<1>11. MemoOK(g, c.memo)
  <2>1. /\ c.memo \subseteq MemoEntry
        /\ \E w, x, y, z : \A e \in c.memo : e.addr \in {w, x, y, z}
        /\ \A e \in c.memo, k \in 1..Len(fs) : e.addr = fs[k].addr => e.of = fs[k].anchor
    BY <1>1, Zenon DEF MemoOK
  <2>2. ASSUME NEW e \in c.memo, NEW j \in 1..Len(g), e.addr = g[j].addr PROVE e.of = g[j].anchor
    <3>1. g[j] # f
      BY <1>2, <1>4, <2>2
    <3>2. PICK k \in 1..Len(fs) : g[j] = fs[k]
      BY <1>9, <3>1
    <3> QED BY <2>1, <2>2, <3>2
  <2> QED BY Zenon, <2>1, <2>2 DEF MemoOK
<1>12. CallOK(d)
  BY <1>8, <1>10, <1>11 DEF CallOK
<1>13. GotOK(d, fa)
  <2>1. \A j \in 1..Len(g) : g[j].addr = v => g[j].anchor = fa
    BY <1>2, <1>4, <1>9
  <2> QED BY <1>2, <1>10, <2>1 DEF GotOK
<1>14. c.lru => Len(g) > 0 /\ g[Len(g)].anchor = fa
  BY <1>4, <1>6
<1>15. c.lru /\ Cap = 2 /\ Len(fs) > 0 => KeptIn(g, fs[Len(fs)].anchor)
  BY <1>6 DEF KeptIn
<1>16. ~(c.lru /\ KeptIn(fs, fa))
  BY KeptIs
<1>17. /\ \E w : d.held \subseteq c.held \cup {w}
       /\ c.decoded \subseteq d.decoded
       /\ d.decoded \subseteq c.decoded \cup {fa}
  BY <1>10
<1> QED BY <1>7, <1>10, <1>12, <1>13, <1>14, <1>15, <1>16, <1>17 DEF GetsFile

\* LruFiles::file and FreshFiles::file, whichever branch they take.
LEMMA GetFileOK ==
    ASSUME Cap \in {1, 2}, NEW c, CallOK(c), NEW u, c.held \subseteq {u}, NEW fa \in Int, NEW down,
           c.ok, NEW d, d = GetFile(c, fa, down)
    PROVE  GetsFile(c, fa, down, d)
<1>1. CASE Kept(c, fa) # {}
  BY <1>1, GetKept
<1>2. CASE Kept(c, fa) = {} /\ fa \notin down
  BY <1>2, GetNew
<1>3. CASE Kept(c, fa) = {} /\ fa \in down
  <2>1. d = [c EXCEPT !.ok = FALSE] /\ c \in CallType
    BY <1>3, Zenon DEF GetFile, CallOK
  <2>2. /\ d \in CallType /\ d.files = c.files /\ d.memo = c.memo /\ d.lru = c.lru
        /\ d.rec = c.rec /\ d.held = c.held /\ d.ok = FALSE /\ d.decoded = c.decoded
    BY <2>1 DEF CallType
  <2>3. CallOK(d)
    BY <2>2 DEF CallOK
  <2>4. ~(c.lru /\ KeptIn(c.files, fa))
    BY <1>3, KeptIs
  <2>5. Len(c.files) > 0 => KeptIn(c.files, c.files[Len(c.files)].anchor)
    <3>1. Len(c.files) \in Nat
      BY LenProperties DEF CallOK, ListOK
    <3> QED BY <3>1 DEF KeptIn
  <2>6. \E v : d.held \subseteq c.held \cup {v}
    BY <2>2
  <2> QED BY <1>3, <2>2, <2>3, <2>4, <2>5, <2>6 DEF GetsFile
<1> QED BY <1>1, <1>2, <1>3

\* The axis a record is looked for in.
AxisOf(fa) == IF HasAxis THEN Records(fa) ELSE << >>

\* What a call is with the axis of its file in the memo.
MemoiseOK(c, fa, d) ==
    /\ CallOK(d) /\ d = [c EXCEPT !.memo = d.memo]
    /\ Times(d) = AxisOf(fa) /\ GotOK(d, fa)

\* AxisMemo::times leaves the axis of the file got, and of no other, at its address.
LEMMA MemoiseIs ==
    ASSUME Cap \in {1, 2}, NEW c, CallOK(c), NEW u, NEW v, c.held \subseteq {u, v},
           NEW fa \in Int, GotOK(c, fa), NEW d, d = Memoise(c, fa)
    PROVE  MemoiseOK(c, fa, d)
<1> DEFINE fs == c.files
           e0 == [addr |-> c.addr, of |-> fa]
<1>1. /\ c \in CallType /\ fs \in Seq(File) /\ Len(fs) \in Nat /\ Len(fs) <= Cap
      /\ ListOK(Cap, fs) /\ MemoOK(fs, c.memo)
  BY LenProperties DEF CallOK, ListOK
<1>2. /\ c.memo \subseteq MemoEntry
      /\ \A e \in c.memo, k \in 1..Len(fs) : e.addr = fs[k].addr => e.of = fs[k].anchor
  BY <1>1, Zenon DEF MemoOK
<1>3. /\ c.addr \in 1..8 /\ c.addr \in c.held
      /\ \A i \in 1..Len(fs) : fs[i].addr = c.addr => fs[i].anchor = fa
      /\ \A e \in c.memo : e.addr = c.addr => e.of = fa
  BY DEF GotOK
<1>4. /\ CallOK(d) /\ d = [c EXCEPT !.memo = d.memo]
      /\ \E e \in d.memo : e.addr = c.addr
      /\ \A e \in d.memo : e.addr = c.addr => e.of = fa
  <2>1. CASE \E e \in c.memo : e.addr = c.addr
    <3>1. d = c
      BY <2>1, Zenon DEF Memoise
    <3> QED BY <1>1, <1>3, <2>1, <3>1 DEF CallType
  <2>2. CASE ~\E e \in c.memo : e.addr = c.addr
    <3> DEFINE m == {e \in c.memo : e.addr \in Used(c)} \cup {e0}
    <3>1. d = [c EXCEPT !.memo = m]
      BY <2>2, Zenon DEF Memoise
    <3>2. e0 \in MemoEntry /\ e0.addr = c.addr /\ e0.of = fa
      BY <1>3 DEF MemoEntry
    <3> HIDE DEF e0
    <3>3. m \subseteq MemoEntry
      BY <1>2, <3>2
    <3>4. \A e \in m, k \in 1..Len(fs) : e.addr = fs[k].addr => e.of = fs[k].anchor
      BY <1>2, <1>3, <3>2
    <3>5. \A e \in m : e.addr \in {fs[1].addr, fs[2].addr, u, v}
      <4>1. ToSet(fs) = {fs[i] : i \in 1..Len(fs)}
        BY <1>1, SeqDomain
      <4>2. \A i \in 1..Len(fs) : i = 1 \/ i = 2
        BY <1>1
      <4>3. Used(c) \subseteq {fs[1].addr, fs[2].addr, u, v}
        <5> SUFFICES ASSUME NEW a \in Used(c) PROVE a \in {fs[1].addr, fs[2].addr, u, v}
          OBVIOUS
        <5>1. Used(c) = {f.addr : f \in ToSet(fs)} \cup c.held
          BY DEF Used
        <5>2. CASE a \in c.held
          BY <5>2
        <5>3. CASE a \notin c.held
          <6>1. PICK i \in 1..Len(fs) : a = fs[i].addr
            BY Zenon, <4>1, <5>1, <5>3
          <6> QED BY <4>2, <6>1
        <5> QED BY <5>2, <5>3
      <4>4. c.addr \in {u, v}
        BY <1>3
      <4> QED BY <3>2, <4>3, <4>4
    <3>6. \E w, x, y, z : \A e \in m : e.addr \in {w, x, y, z}
      <4> DEFINE Few(w, x, y, z) == \A e \in m : e.addr \in {w, x, y, z}
      <4>1. Few(fs[1].addr, fs[2].addr, u, v)
        BY <3>5
      <4> HIDE DEF Few
      <4>2. \E w, x, y, z : Few(w, x, y, z)
        BY Zenon, <4>1
      <4> QED BY Zenon, <4>2 DEF Few
    <3>7. e0 \in m /\ \A e \in m : e.addr = c.addr => e.of = fa
      BY <1>3, <3>2
    <3> HIDE DEF m
    <3>8. MemoOK(fs, m)
      BY Zenon, <3>3, <3>4, <3>6 DEF MemoOK
    <3>9. d \in CallType /\ d.memo = m /\ d.files = fs
      BY <1>1, <3>1, <3>3 DEF CallType
    <3>10. CallOK(d)
      BY <1>1, <3>8, <3>9 DEF CallOK
    <3> QED BY <3>1, <3>2, <3>7, <3>9, <3>10
  <2> QED BY <2>1, <2>2
<1>5. d.addr = c.addr
  BY <1>1, <1>4 DEF CallType
<1>6. (CHOOSE e \in d.memo : e.addr = d.addr).of = fa
  BY <1>4, <1>5
<1>7. Times(d) = AxisOf(fa)
  <2> DEFINE m == CHOOSE e \in d.memo : e.addr = d.addr
  <2>1. Times(d) = IF HasAxis THEN Records(m.of) ELSE << >>
    BY DEF Times
  <2>2. m.of = fa
    BY <1>6
  <2> HIDE DEF m
  <2> QED BY <2>1, <2>2 DEF AxisOf
<1>8. GotOK(d, fa)
  <2>1. d.files = c.files /\ d.held = c.held
    BY <1>1, <1>4 DEF CallType
  <2> QED BY <1>3, <1>4, <1>5, <2>1 DEF GotOK
<1> QED BY <1>4, <1>7, <1>8 DEF MemoiseOK

\* The record a call looks for, whatever is in its memo.
RecordAt(anchor, fa) == RecordIndex(AxisOf(fa), anchor, fa)

\* A file in hand, its record is found unless it lies before the file.
LocatesRecord(c, anchor, fa, d) ==
    /\ CallOK(d) /\ d.files = c.files /\ d.held = c.held /\ d.decoded = c.decoded /\ d.lru = c.lru
    /\ d.ok => c.ok /\ d.rec = RecordAt(anchor, fa) /\ d.rec >= 0 /\ GotOK(d, fa)
    /\ c.ok /\ RecordAt(anchor, fa) >= 0 => d.ok

\* file_record finds the record of the anchor in the file got.
LEMMA LocateOK ==
    ASSUME Cap \in {1, 2}, NEW c, CallOK(c), NEW u, NEW v, c.held \subseteq {u, v},
           NEW fa \in Int, c.ok => GotOK(c, fa), NEW anchor, RecordAt(anchor, fa) \in Int,
           NEW d, d = Locate(c, anchor, fa)
    PROVE  LocatesRecord(c, anchor, fa, d)
<1>1. CASE ~c.ok
  <2>1. d = c
    BY <1>1, Zenon DEF Locate
  <2> QED BY <1>1, <2>1 DEF LocatesRecord
<1>2. CASE c.ok
  <2> DEFINE m == Memoise(c, fa)
             r == RecordAt(anchor, fa)
  <2>1. MemoiseOK(c, fa, m)
    BY <1>2, MemoiseIs
  <2>2. d = Found(m, RecordIndex(Times(m), anchor, fa))
    BY <1>2, Zenon DEF Locate, FindRecord, FindIn
  <2> HIDE DEF m
  <2>3. d = Found(m, r)
    BY Zenon, <2>1, <2>2 DEF MemoiseOK, RecordAt
  <2> HIDE DEF r
  <2>4. r \in Int
    BY DEF r
  <2>5. /\ c \in CallType /\ m \in CallType /\ CallOK(m) /\ m = [c EXCEPT !.memo = m.memo]
    BY <2>1 DEF MemoiseOK, CallOK
  <2>6. /\ d \in CallType /\ d.files = m.files /\ d.memo = m.memo /\ d.held = m.held
        /\ d.addr = m.addr /\ d.decoded = m.decoded /\ d.lru = m.lru /\ d.rec = r
        /\ d.ok <=> r >= 0
    BY <2>3, <2>4, <2>5, FoundFields
  <2>7. m.files = c.files /\ m.held = c.held /\ m.decoded = c.decoded /\ m.lru = c.lru
    BY <2>5 DEF CallType
  <2>8. CallOK(d)
    BY <2>5, <2>6 DEF CallOK
  <2>9. GotOK(d, fa)
    <3>1. GotOK(m, fa)
      BY <2>1 DEF MemoiseOK
    <3> QED BY <2>6, <3>1 DEF GotOK
  <2> QED BY <1>2, <2>6, <2>7, <2>8, <2>9 DEF LocatesRecord, r
<1> QED BY <1>1, <1>2

(* --- anchors and files ------------------------------------------------*)

\* The cadence anchor of an index, and the file anchor of one.
Rec(k) == Anchor(src.freq, src.start, k)
Fil(k) == Anchor(src.period, src.start, k)

\* What the loaders are, and how many files a provider keeps of each.
LEMMA SourceType ==
    ASSUME src \in Sources
    PROVE  /\ src.start \in Int /\ src.end \in Int \cup {None}
           /\ IsPeriod(src.freq) /\ IsPeriod(src.period)
           /\ Cap \in {1, 2} /\ (src.bracket => Cap = 2)
           /\ None \notin Int
BY SourcesAssumption DEF Cap

\* A cadence anchor is the anchor of its own interval, and the next one follows it.
LEMMA RecIs ==
    ASSUME src \in Sources, NEW k \in Int
    PROVE  /\ Rec(k) \in Int /\ FloorIndex(src.freq, src.start, Rec(k)) = k
           /\ CadenceAnchor(Rec(k)) = Rec(k) /\ NextRecordAnchor(Rec(k)) = Rec(k + 1)
<1>1. FloorIndex(src.freq, src.start, Anchor(src.freq, src.start, k)) = k
  BY SourceType, FloorIndexOfAnchor
<1>2. Anchor(src.freq, src.start, k) \in Int
  BY SourceType, AnchorType
<1>3. Floor(src.freq, src.start, Anchor(src.freq, src.start, k)) = Anchor(src.freq, src.start, k)
  BY SourceType, FloorIndexOfAnchor
<1> QED BY Zenon, <1>1, <1>2, <1>3 DEF Rec, CadenceAnchor, NextRecordAnchor

\* Cadence anchors are ordered as their indices.
LEMMA RecOrder ==
    ASSUME src \in Sources, NEW m \in Int, NEW n \in Int
    PROVE  /\ Rec(m) \in Int /\ Rec(n) \in Int
           /\ (Rec(m) < Rec(n)) = (m < n) /\ (Rec(m) <= Rec(n)) = (m <= n)
BY SourceType, AnchorOrder, AnchorType DEF Rec

\* File anchors are ordered as their indices.
LEMMA FilOrder ==
    ASSUME src \in Sources, NEW m \in Int, NEW n \in Int
    PROVE  /\ Fil(m) \in Int /\ Fil(n) \in Int
           /\ (Fil(m) < Fil(n)) = (m < n) /\ (Fil(m) <= Fil(n)) = (m <= n)
BY SourceType, AnchorOrder, AnchorType DEF Fil

\* Every instant is in the interval of its cadence anchor.
LEMMA CadenceIs ==
    ASSUME src \in Sources, NEW t \in Int
    PROVE  \E k \in Int : /\ k = FloorIndex(src.freq, src.start, t)
                          /\ CadenceAnchor(t) = Rec(k) /\ NextRecordAnchor(t) = Rec(k + 1)
                          /\ Rec(k) <= t /\ t < Rec(k + 1)
<1> DEFINE k == FloorIndex(src.freq, src.start, t)
<1>1. k \in Int /\ Anchor(src.freq, src.start, k) <= t /\ t < Anchor(src.freq, src.start, k + 1)
  BY SourceType, FloorIndexExact
<1>2. CadenceAnchor(t) = Rec(k) /\ NextRecordAnchor(t) = Rec(k + 1)
  BY Zenon DEF CadenceAnchor, NextRecordAnchor, Floor, Rec
<1> HIDE DEF k
<1>3. Rec(k) <= t /\ t < Rec(k + 1)
  BY <1>1 DEF Rec
<1> QED BY <1>1, <1>2, <1>3 DEF k

\* Every instant is in the period of its file anchor.
LEMMA FileIs ==
    ASSUME src \in Sources, NEW t \in Int
    PROVE  \E n \in Int : /\ n = FloorIndex(src.period, src.start, t)
                          /\ FileAnchor(t) = Fil(n) /\ NextFileAnchor(Fil(n)) = Fil(n + 1)
                          /\ Fil(n) <= t /\ t < Fil(n + 1)
<1> DEFINE n == FloorIndex(src.period, src.start, t)
<1>1. n \in Int /\ Anchor(src.period, src.start, n) <= t /\ t < Anchor(src.period, src.start, n + 1)
  BY SourceType, FloorIndexExact
<1>2. FileAnchor(t) = Fil(n)
  BY Zenon DEF FileAnchor, Floor, Fil
<1> HIDE DEF n
<1>3. FloorIndex(src.period, src.start, Anchor(src.period, src.start, n)) = n
  BY <1>1, SourceType, FloorIndexOfAnchor
<1>4. NextFileAnchor(Fil(n)) = Fil(n + 1)
  BY Zenon, <1>3 DEF NextFileAnchor, Fil
<1>5. Fil(n) <= t /\ t < Fil(n + 1)
  BY <1>1 DEF Fil
<1> QED BY <1>1, <1>2, <1>4, <1>5 DEF n

\* The anchors of a file are consecutive, and those of its instants are among them.
Consecutive(all, from) ==
    /\ all \in Seq(Int)
    /\ \A i \in 1..Len(all) : all[i] = Rec(from + i - 1)

\* The anchors of the file of a cadence anchor, and its offset among them.
LEMMA AnchorsInIs ==
    ASSUME src \in Sources, NEW j \in Int, NEW fa, fa = FileAnchor(Rec(j))
    PROVE  \E from \in Int : /\ Consecutive(AnchorsIn(fa), from)
                             /\ RecordInFile(Rec(j), fa) = j - from
                             /\ from <= j /\ j - from < Len(AnchorsIn(fa))
<1> DEFINE from == CeilIndex(src.freq, src.start, fa)
           to == CeilIndex(src.freq, src.start, NextFileAnchor(fa))
           all == AnchorsIn(fa)
<1>1. Rec(j) \in Int /\ FloorIndex(src.freq, src.start, Rec(j)) = j
  BY RecIs
<1>2. PICK n \in Int : /\ fa = Fil(n) /\ NextFileAnchor(fa) = Fil(n + 1)
                       /\ Fil(n) <= Rec(j) /\ Rec(j) < Fil(n + 1)
  BY <1>1, FileIs
<1>3. fa \in Int /\ NextFileAnchor(fa) \in Int
  <2>1. n + 1 \in Int
    OBVIOUS
  <2> QED BY <1>2, <2>1, FilOrder
<1>4. from \in Int /\ fa <= Rec(from) /\ Rec(from - 1) < fa
  BY <1>3, SourceType, CeilIndexExact DEF Rec
<1>5. to \in Int /\ NextFileAnchor(fa) <= Rec(to)
  BY <1>3, SourceType, CeilIndexExact DEF Rec
<1>6. all = [i \in 1..(to - from) |-> Rec(from + i - 1)]
  BY Zenon DEF AnchorsIn, AnchorsBetween, Rec
<1>7. RecordInFile(Rec(j), fa) = j - from
  BY <1>1 DEF RecordInFile
<1> HIDE DEF from, to, all
<1>8. from <= j
  <2>1. from - 1 \in Int
    BY <1>4
  <2>2. Rec(from - 1) < Rec(j)
    BY <1>1, <1>2, <1>3, <1>4, <2>1, RecIs
  <2>3. from - 1 < j
    BY <2>1, <2>2, RecOrder
  <2> QED BY <1>4, <2>3
<1>9. j < to
  <2>1. Rec(j) < Rec(to)
    BY <1>1, <1>2, <1>3, <1>5, RecIs
  <2> QED BY <1>5, <2>1, RecOrder
<1>10. \A i \in 1..(to - from) : Rec(from + i - 1) \in Int
  <2> TAKE i \in 1..(to - from)
  <2>1. from + i - 1 \in Int
    BY <1>4, <1>5
  <2> QED BY <2>1, RecIs
<1>11. all \in Seq(Int) /\ Len(all) = to - from
  <2>1. to - from \in Nat
    BY <1>4, <1>5, <1>8, <1>9
  <2> QED BY <1>6, <1>10, <2>1
<1>12. Consecutive(all, from)
  BY <1>6, <1>11 DEF Consecutive
<1>13. j - from < Len(all)
  BY <1>4, <1>5, <1>9, <1>11
<1> QED BY <1>4, <1>7, <1>8, <1>12, <1>13 DEF all

\* A set of integers with a bound has a largest.
LEMMA MaxIs ==
    ASSUME NEW S \in SUBSET Int, S # {}, NEW b \in Int, \A x \in S : x <= b
    PROVE  Max(S) \in S /\ \A x \in S : x <= Max(S)
<1> DEFINE G == {n \in Nat : b - n \in S}
<1>1. \E m \in G : \A n \in G : m <= n
  <2>1. G \in SUBSET Nat
    OBVIOUS
  <2>2. PICK x \in S : TRUE
    OBVIOUS
  <2>3. b - x \in G
    <3>1. b - x \in Nat /\ b - (b - x) = x
      BY <2>2
    <3> QED BY <3>1
  <2> HIDE DEF G
  <2> QED BY <2>1, <2>3, LeastNatural
<1>2. PICK m \in G : \A n \in G : m <= n
  BY <1>1
<1>3. \A x \in S : b - m >= x
  <2> TAKE x \in S
  <2>1. x \in Int /\ b - x \in Nat /\ b - (b - x) = x
    OBVIOUS
  <2>2. b - x \in G
    BY <2>1
  <2>3. m \in Nat
    OBVIOUS
  <2> HIDE DEF G
  <2>4. m <= b - x
    BY <1>2, <2>2
  <2> QED BY <2>1, <2>3, <2>4
<1>4. \E x \in S : \A y \in S : x >= y
  <2>1. b - m \in S
    OBVIOUS
  <2> QED BY <1>3, <2>1
<1>5. Max(S) \in S /\ \A x \in S : Max(S) >= x
  BY Zenon, <1>4 DEF Max
<1>6. \A x \in S : x <= Max(S)
  BY <1>5
<1> QED BY <1>5, <1>6

\* What is left of a file's anchors, however they are laid out.
Laid(all, s) ==
    /\ s \in Seq(Int) /\ Len(s) >= 1 /\ Len(s) <= Len(all)
    /\ \A i \in 1..Len(s) : \E k \in 1..Len(all) : s[i] = all[k]
    /\ \E i \in 1..Len(s) : s[i] >= all[Len(s)]
    /\ Len(all) >= 2 => \E i \in 1..Len(s) : s[i] <= all[2]
    /\ src.layout = "bare" => s = all

\* Every layout keeps a record of a non-empty file, and where its ends are.
LEMMA LaidOutIs ==
    ASSUME NEW all \in Seq(Int), Len(all) >= 1,
           \A i, k \in 1..Len(all) : i <= k => all[i] <= all[k]
    PROVE  Laid(all, LaidOut(all))
<1> DEFINE n == Len(all)
           s == LaidOut(all)
<1>1. n \in Nat /\ n >= 1 /\ n \in 1..n /\ 1 \in 1..n /\ \A i \in 1..n : all[i] \in Int
  BY LenProperties, ElementOfSeq
<1>2. CASE s = all
  <2>1. n >= 2 => 1 \in 1..n /\ 2 \in 1..n /\ all[1] <= all[2]
    BY <1>1
  <2>2. /\ \A i \in 1..Len(s) : \E k \in 1..n : s[i] = all[k]
        /\ \E i \in 1..Len(s) : s[i] >= all[Len(s)]
        /\ n >= 2 => \E i \in 1..Len(s) : s[i] <= all[2]
    <3> HIDE DEF s
    <3> QED BY <1>1, <1>2, <2>1
  <2> HIDE DEF s
  <2>3. Laid(all, s)
    BY <1>1, <1>2, <2>2 DEF Laid
  <2> QED BY <2>3 DEF s
<1>3. CASE src.layout = "trimmed" /\ n > 1
  <2>1. s = Tail(all)
    BY <1>3 DEF LaidOut
  <2> HIDE DEF s
  <2>2. s \in Seq(Int) /\ Len(s) = n - 1 /\ \A i \in 1..(n - 1) : s[i] = all[i + 1]
    <3>1. all # << >>
      BY <1>3
    <3>2. /\ Tail(all) \in Seq(Int) /\ Len(Tail(all)) = n - 1
          /\ \A i \in 1..Len(Tail(all)) : Tail(all)[i] = all[i + 1]
      BY <3>1, HeadTailProperties
    <3> QED BY <2>1, <3>2
  <2>3. \A i \in 1..Len(s) : \E k \in 1..n : s[i] = all[k]
    <3> TAKE i \in 1..Len(s)
    <3>1. i + 1 \in 1..n /\ i \in 1..(n - 1)
      BY <1>1, <2>2
    <3> QED BY <2>2, <3>1
  <2>4. \E i \in 1..Len(s) : s[i] >= all[Len(s)]
    <3>1. n - 1 \in 1..Len(s) /\ n - 1 \in 1..n /\ (n - 1) + 1 = n /\ n - 1 <= n
      BY <1>1, <1>3, <2>2
    <3>2. s[n - 1] = all[n] /\ all[n - 1] <= all[n] /\ all[n] \in Int /\ all[n - 1] \in Int
      BY <1>1, <2>2, <3>1
    <3>3. s[n - 1] >= all[Len(s)]
      BY <2>2, <3>2
    <3> QED BY <3>1, <3>3
  <2>5. \E i \in 1..Len(s) : s[i] <= all[2]
    <3>1. 1 \in 1..Len(s) /\ 2 \in 1..n /\ s[1] = all[2] /\ all[2] \in Int
      BY <1>1, <1>3, <2>2
    <3> QED BY <3>1
  <2>6. Len(s) >= 1 /\ Len(s) <= n /\ src.layout # "bare"
    BY <1>1, <1>3, <2>2
  <2>7. Laid(all, s)
    BY Zenon, <2>2, <2>3, <2>4, <2>5, <2>6 DEF Laid
  <2> QED BY <2>7 DEF s
<1>4. CASE src.layout = "gap" /\ n > 2
  <2>1. s = RemoveAt(all, 2)
    BY <1>4 DEF LaidOut
  <2> HIDE DEF s
  <2>2. /\ s \in Seq(Int) /\ Len(s) = n - 1
        /\ \A i \in 1..(n - 1) : s[i] = IF i < 2 THEN all[i] ELSE all[i + 1]
    <3>1. 2 \in 1..Len(all)
      BY <1>1, <1>4
    <3>2. Without(Int, all, 2, RemoveAt(all, 2))
      BY Zenon, <3>1, RemoveAtIs
    <3> QED BY <2>1, <3>2 DEF Without
  <2>3. \A i \in 1..Len(s) : \E k \in 1..n : s[i] = all[k]
    <3> TAKE i \in 1..Len(s)
    <3>1. i + 1 \in 1..n /\ i \in 1..n /\ i \in 1..(n - 1)
      BY <1>1, <2>2
    <3> QED BY <2>2, <3>1
  <2>4. \E i \in 1..Len(s) : s[i] >= all[Len(s)]
    <3>1. n - 1 \in 1..Len(s) /\ n - 1 \in 1..n /\ (n - 1) + 1 = n /\ n - 1 <= n /\ ~(n - 1 < 2)
      BY <1>1, <1>4, <2>2
    <3>2. s[n - 1] = all[n] /\ all[n - 1] <= all[n] /\ all[n] \in Int /\ all[n - 1] \in Int
      BY <1>1, <2>2, <3>1
    <3>3. s[n - 1] >= all[Len(s)]
      BY <2>2, <3>2
    <3> QED BY <3>1, <3>3
  <2>5. \E i \in 1..Len(s) : s[i] <= all[2]
    <3>1. 1 \in 1..Len(s) /\ 2 \in 1..n /\ 1 \in 1..n /\ s[1] = all[1] /\ all[1] <= all[2]
      BY <1>1, <1>4, <2>2
    <3> QED BY <3>1
  <2>6. Len(s) >= 1 /\ Len(s) <= n /\ src.layout # "bare"
    BY <1>1, <1>4, <2>2
  <2>7. Laid(all, s)
    BY Zenon, <2>2, <2>3, <2>4, <2>5, <2>6 DEF Laid
  <2> QED BY <2>7 DEF s
<1>5. CASE src.layout = "cut" /\ n > 1
  <2>1. s = SubSeq(all, 1, n - 1)
    BY <1>5 DEF LaidOut, Front
  <2> HIDE DEF s
  <2>2. s \in Seq(Int) /\ Len(s) = n - 1 /\ \A i \in 1..(n - 1) : s[i] = all[i]
    <3>1. 1 \in Int /\ n - 1 \in Int /\ \A i \in 1..(n - 1) : all[i] \in Int
      BY <1>1
    <3>2. /\ s \in Seq(Int) /\ Len(s) = IF 1 <= n - 1 THEN (n - 1) - 1 + 1 ELSE 0
          /\ \A i \in 1..((n - 1) - 1 + 1) : s[i] = all[1 + i - 1]
      BY <2>1, <3>1, SubSeqProperties
    <3>3. \A i \in 1..(n - 1) : s[i] = all[i]
      <4> TAKE i \in 1..(n - 1)
      <4>1. i \in 1..((n - 1) - 1 + 1) /\ 1 + i - 1 = i
        BY <1>1
      <4> QED BY <3>2, <4>1
    <3> QED BY <1>1, <1>5, <3>2, <3>3
  <2>3. \A i \in 1..Len(s) : \E k \in 1..n : s[i] = all[k]
    BY <1>1, <2>2
  <2>4. \E i \in 1..Len(s) : s[i] >= all[Len(s)]
    <3>1. n - 1 \in 1..Len(s) /\ n - 1 \in 1..(n - 1) /\ n - 1 \in 1..n
      BY <1>1, <1>5, <2>2
    <3>2. s[n - 1] = all[n - 1] /\ all[n - 1] \in Int
      BY <1>1, <2>2, <3>1
    <3> QED BY <2>2, <3>1, <3>2
  <2>5. \E i \in 1..Len(s) : s[i] <= all[2]
    <3>1. 1 \in 1..Len(s) /\ 2 \in 1..n /\ 1 \in 1..n /\ s[1] = all[1] /\ all[1] <= all[2]
      BY <1>1, <1>5, <2>2
    <3> QED BY <3>1
  <2>6. Len(s) >= 1 /\ Len(s) <= n /\ src.layout # "bare"
    BY <1>1, <1>5, <2>2
  <2>7. Laid(all, s)
    BY Zenon, <2>2, <2>3, <2>4, <2>5, <2>6 DEF Laid
  <2> QED BY <2>7 DEF s
<1>6. CASE src.layout = "backwards"
  <2>1. s = [i \in 1..n |-> all[(n - i) + 1]]
    BY <1>6 DEF LaidOut, Reverse
  <2> HIDE DEF s
  <2>2. s \in Seq(Int) /\ Len(s) = n /\ \A i \in 1..n : s[i] = all[(n - i) + 1]
    <3>1. \A i \in 1..n : all[(n - i) + 1] \in Int
      BY <1>1
    <3> QED BY <1>1, <2>1, <3>1
  <2>3. \A i \in 1..Len(s) : \E k \in 1..n : s[i] = all[k]
    <3> TAKE i \in 1..Len(s)
    <3>1. (n - i) + 1 \in 1..n /\ i \in 1..n
      BY <1>1, <2>2
    <3> QED BY <2>2, <3>1
  <2>4. \E i \in 1..Len(s) : s[i] >= all[Len(s)]
    <3>1. 1 \in 1..Len(s) /\ (n - 1) + 1 = n
      BY <1>1, <2>2
    <3>2. s[1] = all[n] /\ all[n] \in Int
      BY <1>1, <2>2, <3>1
    <3> QED BY <2>2, <3>1, <3>2
  <2>5. n >= 2 => \E i \in 1..Len(s) : s[i] <= all[2]
    <3>1. n \in 1..Len(s) /\ (n - n) + 1 = 1 /\ (n >= 2 => 2 \in 1..n)
      BY <1>1, <2>2
    <3>2. s[n] = all[1] /\ (n >= 2 => all[1] <= all[2])
      BY <1>1, <2>2, <3>1
    <3> QED BY <3>1, <3>2
  <2>6. Laid(all, s)
    BY <1>1, <1>6, <2>2, <2>3, <2>4, <2>5 DEF Laid
  <2> QED BY <2>6 DEF s
<1>7. \/ s = all \/ (src.layout = "trimmed" /\ n > 1) \/ (src.layout = "gap" /\ n > 2)
      \/ (src.layout = "cut" /\ n > 1) \/ src.layout = "backwards"
  BY <1>1 DEF LaidOut
<1> QED BY <1>2, <1>3, <1>4, <1>5, <1>6, <1>7

\* What a file holds for the cadence anchor j, whose place is x.
PlaceOf(j, s, x) ==
    /\ s \in Seq(Int) /\ Len(s) >= 1 /\ x \in Nat
    /\ src.layout = "bare" => x < Len(s) /\ s[x + 1] = Rec(j)
    /\ (\A i \in 1..Len(s) : s[i] < Rec(j)) => x >= Len(s)
    /\ (\A i \in 1..Len(s) : Rec(j) < s[i]) => x < Len(s)
    /\ \E b \in Int : \A i \in 1..Len(s) : s[i] <= b

\* The records of a cadence anchor's file, and what they leave of its offset.
LEMMA PlaceIs ==
    ASSUME src \in Sources, NEW j \in Int
    PROVE  PlaceOf(j, Records(FileAnchor(Rec(j))), RecordInFile(Rec(j), FileAnchor(Rec(j))))
<1> DEFINE fa == FileAnchor(Rec(j))
           all == AnchorsIn(fa)
           s == Records(fa)
           x == RecordInFile(Rec(j), fa)
           n == Len(all)
<1>1. PICK from \in Int : /\ Consecutive(all, from) /\ x = j - from
                          /\ from <= j /\ j - from < n
  BY AnchorsInIs
<1>2. s = LaidOut(all)
  BY Zenon DEF Records
<1> HIDE DEF all, s, x, fa
<1>3. all \in Seq(Int) /\ n \in Nat /\ n >= 1 /\ \A i \in 1..n : all[i] = Rec(from + i - 1)
  BY <1>1, LenProperties DEF Consecutive
<1>4. \A i, k \in 1..n : i <= k => all[i] <= all[k]
  <2> TAKE i, k \in 1..n
  <2>1. from + i - 1 \in Int /\ from + k - 1 \in Int /\ (i <= k => from + i - 1 <= from + k - 1)
    BY <1>3
  <2>2. i <= k => Rec(from + i - 1) <= Rec(from + k - 1)
    BY <2>1, RecOrder
  <2> QED BY <1>3, <2>2
<1>5. Laid(all, s)
  BY <1>2, <1>3, <1>4, LaidOutIs
<1>6. s \in Seq(Int) /\ Len(s) >= 1 /\ Len(s) \in Nat /\ \A i \in 1..Len(s) : s[i] \in Int
  BY <1>5, LenProperties, ElementOfSeq DEF Laid
<1>7. x \in Nat /\ Rec(j) \in Int
  BY <1>1, RecIs
<1>8. ASSUME src.layout = "bare" PROVE x < Len(s) /\ s[x + 1] = Rec(j)
  <2>1. s = all
    BY <1>5, <1>8 DEF Laid
  <2>2. x + 1 \in 1..n /\ from + (x + 1) - 1 = j
    BY <1>1, <1>3, <1>7
  <2> QED BY <1>1, <1>3, <2>1, <2>2
<1>9. ASSUME \A i \in 1..Len(s) : s[i] < Rec(j) PROVE x >= Len(s)
  <2>1. PICK i \in 1..Len(s) : s[i] >= all[Len(s)]
    BY <1>5 DEF Laid
  <2>2. Len(s) \in 1..n /\ from + Len(s) - 1 \in Int
    BY <1>5, <1>6 DEF Laid
  <2>3. all[Len(s)] = Rec(from + Len(s) - 1) /\ Rec(from + Len(s) - 1) \in Int
    BY <1>3, <2>2, RecIs
  <2>4. Rec(from + Len(s) - 1) < Rec(j)
    BY <1>6, <1>7, <1>9, <2>1, <2>3
  <2>5. from + Len(s) - 1 < j
    BY <2>2, <2>4, RecOrder
  <2> QED BY <1>1, <1>6, <2>5
<1>10. ASSUME \A i \in 1..Len(s) : Rec(j) < s[i] PROVE x < Len(s)
  <2>1. CASE n >= 2
    <3>1. PICK i \in 1..Len(s) : s[i] <= all[2]
      BY <1>5, <2>1 DEF Laid
    <3>2. 2 \in 1..n /\ from + 2 - 1 = from + 1 /\ from + 1 \in Int
      BY <1>3, <2>1
    <3>3. all[2] = Rec(from + 1) /\ Rec(from + 1) \in Int
      BY <1>3, <3>2, RecIs
    <3>4. Rec(j) < Rec(from + 1)
      BY <1>6, <1>7, <1>10, <3>1, <3>3
    <3>5. j < from + 1
      BY <3>2, <3>4, RecOrder
    <3> QED BY <1>1, <1>6, <3>5
  <2>2. CASE ~(n >= 2)
    BY <1>1, <1>3, <1>6, <2>2
  <2> QED BY <2>1, <2>2
<1>11. \E b \in Int : \A i \in 1..Len(s) : s[i] <= b
  <2>1. n \in 1..n /\ from + n - 1 \in Int
    BY <1>3
  <2>2. all[n] \in Int
    BY <1>3, <2>1, RecIs
  <2>3. \A i \in 1..Len(s) : s[i] <= all[n]
    <3> TAKE i \in 1..Len(s)
    <3>1. PICK k \in 1..n : s[i] = all[k]
      BY <1>5 DEF Laid
    <3>2. k <= n
      BY <1>3
    <3> QED BY <1>4, <2>1, <3>1, <3>2
  <2> QED BY <2>2, <2>3
<1>12. PlaceOf(j, s, x)
  BY Zenon, <1>6, <1>7, <1>8, <1>9, <1>10, <1>11 DEF PlaceOf
<1> QED BY <1>12 DEF s, x, fa

(* --- the record due ---------------------------------------------------*)

\* The record found for the cadence anchor j is the one due, when its file has
\* one, and it has one when Holds says so.
RecordIsDue(j, fa) ==
    /\ RecordAt(Rec(j), fa) \in Nat
    /\ HasRecord(fa, RecordAt(Rec(j), fa)) => Due(RecordOf(fa, RecordAt(Rec(j), fa)), Rec(j))
    /\ Holds(Rec(j)) => HasRecord(fa, RecordAt(Rec(j), fa))

\* The record AxisMemo::record_index finds is the one due, for every layout.
LEMMA RecordAtIs ==
    ASSUME src \in Sources, NEW j \in Int
    PROVE  RecordIsDue(j, FileAnchor(Rec(j)))
<1> DEFINE t == Rec(j)
           fa == FileAnchor(t)
           s == Records(fa)
           x == RecordInFile(t, fa)
           r == RecordAt(t, fa)
           before == {i \in 1..Len(s) : s[i] <= t}
           latest == {i \in before : \A k \in before : s[k] <= s[i]}
           values == {s[i] : i \in before}
<1>1. PlaceOf(j, s, x) /\ t \in Int
  BY PlaceIs, RecIs
<1>2. Holds(t) <=> \/ ~HasAxis \/ x < Len(s) \/ t <= Max(ToSet(s))
  BY Zenon DEF Holds, HasRecord
<1>3. s \in Seq(Int) => DOMAIN s = 1..Len(s)
  BY SeqDomain
<1>4. RecordOf(fa, r).file = fa /\ RecordOf(fa, r).rec = r
  BY DEF RecordOf
<1>5. Due(RecordOf(fa, r), t) <=>
        (before # {} => s[r + 1] = Max(values))
  <2>1. s \in Seq(Int)
    BY <1>1, Zenon DEF PlaceOf
  <2>2. DOMAIN s = 1..Len(s)
    BY <1>3, <2>1
  <2>3. Due(RecordOf(fa, r), t) <=>
          /\ RecordOf(fa, r).file = fa
          /\ {i \in DOMAIN s : s[i] <= t} # {} =>
               s[RecordOf(fa, r).rec + 1] = Max({s[k] : k \in {i \in DOMAIN s : s[i] <= t}})
    BY Zenon DEF Due
  <2> HIDE DEF s, fa, r, t
  <2> QED BY Zenon, <1>4, <2>2, <2>3
<1>6. HasAxis => r = IF before # {} /\ \E i \in 1..Len(s) : t <= s[i] THEN Min(latest) - 1 ELSE x
  <2>1. DOMAIN s = 1..Len(s)
    BY <1>1, <1>3, Zenon DEF PlaceOf
  <2>2. HasAxis => r = RecordIndex(s, t, fa)
    BY Zenon DEF RecordAt, AxisOf
  <2>3. RecordIndex(s, t, fa) =
          IF {i \in DOMAIN s : s[i] <= t} # {} /\ \E i \in DOMAIN s : t <= s[i]
          THEN Min({m \in {i \in DOMAIN s : s[i] <= t} :
                      \A k \in {i \in DOMAIN s : s[i] <= t} : s[k] <= s[m]}) - 1 ELSE x
    BY Zenon DEF RecordIndex
  <2> HIDE DEF s, fa, r, t, x
  <2> QED BY Zenon, <2>1, <2>2, <2>3
<1>7. ~HasAxis => r = x
  <2>1. ~HasAxis => r = RecordIndex(<< >>, t, fa)
    BY Zenon DEF RecordAt, AxisOf
  <2>2. RecordIndex(<< >>, t, fa) = x
    <3>1. DOMAIN << >> = {}
      OBVIOUS
    <3> HIDE DEF x, fa, t
    <3> QED BY <3>1 DEF RecordIndex, x
  <2> QED BY <2>1, <2>2
<1>8. HasRecord(fa, r) <=> r < Len(s)
  BY Zenon DEF HasRecord
<1>9. ~HasAxis <=> src.layout = "bare"
  BY DEF HasAxis
<1> HIDE DEF s, x, fa, r, t
<1>10. /\ s \in Seq(Int) /\ Len(s) \in Nat /\ Len(s) >= 1 /\ x \in Nat
       /\ \A i \in 1..Len(s) : s[i] \in Int
       /\ src.layout = "bare" => x < Len(s) /\ s[x + 1] = t
       /\ (\A i \in 1..Len(s) : s[i] < t) => x >= Len(s)
       /\ (\A i \in 1..Len(s) : t < s[i]) => x < Len(s)
  <2>1. s \in Seq(Int)
    BY <1>1, Zenon DEF PlaceOf
  <2>2. Len(s) \in Nat /\ \A i \in 1..Len(s) : s[i] \in Int
    BY <2>1, LenProperties, ElementOfSeq
  <2> QED BY Zenon, <1>1, <2>1, <2>2 DEF PlaceOf, t
<1>11. PICK b \in Int : \A i \in 1..Len(s) : s[i] <= b
  BY <1>1, Zenon DEF PlaceOf
<1>12. ASSUME NEW i \in before, \A k \in before : s[k] <= s[i] PROVE s[i] = Max(values)
  <2>1. values \in SUBSET Int /\ s[i] \in values /\ \A v \in values : v <= s[i]
    BY <1>10, <1>12
  <2>2. s[i] \in Int
    BY <2>1
  <2> HIDE DEF values
  <2>3. Max(values) \in values /\ \A v \in values : v <= Max(values)
    BY <2>1, <2>2, MaxIs
  <2>4. Max(values) \in Int /\ Max(values) <= s[i] /\ s[i] <= Max(values)
    BY <2>1, <2>3
  <2> QED BY <2>2, <2>4
<1>13. CASE ~HasAxis
  <2>1. r = x /\ x < Len(s) /\ s[x + 1] = t
    BY <1>7, <1>9, <1>10, <1>13
  <2>2. x + 1 \in before /\ \A k \in before : s[k] <= s[x + 1]
    BY <1>1, <1>10, <2>1
  <2>3. s[r + 1] = Max(values)
    BY <1>12, <2>1, <2>2
  <2> QED BY <1>5, <1>8, <1>10, <2>1, <2>3 DEF RecordIsDue, fa, t, r
<1>14. CASE HasAxis /\ before # {} /\ \E i \in 1..Len(s) : t <= s[i]
  <2>1. r = Min(latest) - 1
    BY <1>6, <1>14
  <2>2. latest # {}
    <3>1. values \in SUBSET Int /\ values # {} /\ \A v \in values : v <= t
      BY <1>10, <1>14
    <3>2. Max(values) \in values /\ \A v \in values : v <= Max(values)
      <4> HIDE DEF values
      <4> QED BY <1>1, <3>1, MaxIs
    <3>3. PICK i \in before : s[i] = Max(values)
      BY <3>2
    <3>4. \A k \in before : s[k] <= s[i]
      BY <3>2, <3>3
    <3> QED BY <3>4
  <2>3. Min(latest) \in latest
    <3>1. latest \in SUBSET Nat
      BY <1>10
    <3> HIDE DEF latest
    <3> QED BY <2>2, <3>1, MinIs
  <2>4. r \in Nat /\ r < Len(s) /\ r + 1 = Min(latest)
    BY <1>10, <2>1, <2>3
  <2>5. s[r + 1] = Max(values)
    BY <1>12, <2>3, <2>4
  <2> QED BY <1>5, <1>8, <2>4, <2>5 DEF RecordIsDue, fa, t, r
<1>15. CASE HasAxis /\ ~(before # {} /\ \E i \in 1..Len(s) : t <= s[i])
  <2>1. r = x
    BY <1>6, <1>15
  <2>2. r < Len(s) /\ before # {} => s[r + 1] = Max(values)
    <3> SUFFICES ASSUME r < Len(s), before # {} PROVE FALSE
      OBVIOUS
    <3>1. ~\E i \in 1..Len(s) : t <= s[i]
      BY <1>15
    <3>2. \A i \in 1..Len(s) : s[i] < t
      BY <1>1, <1>10, <3>1
    <3>3. x >= Len(s)
      BY <1>10, <3>2
    <3> QED BY <1>10, <2>1, <3>3
  <2>3. ASSUME t <= Max(ToSet(s)) PROVE r < Len(s)
    <3> DEFINE all == {s[i] : i \in 1..Len(s)}
    <3>1. all \in SUBSET Int /\ all # {} /\ \A v \in all : v <= b
      <4>1. 1 \in 1..Len(s)
        BY <1>10
      <4> QED BY <1>10, <1>11, <4>1
    <3>2. ToSet(s) = all
      BY <1>10, SeqDomain
    <3>3. Max(all) \in all
      <4> HIDE DEF all
      <4> QED BY <1>11, <3>1, MaxIs
    <3>4. PICK i \in 1..Len(s) : s[i] = Max(all)
      BY <3>3
    <3>5. t <= s[i]
      BY <2>3, <3>2, <3>4
    <3>6. \A k \in 1..Len(s) : ~(s[k] <= t)
      BY <1>15, <3>5
    <3>7. \A k \in 1..Len(s) : t < s[k]
      BY <1>1, <1>10, <3>6
    <3> QED BY <1>10, <2>1, <3>7
  <2> QED BY <1>2, <1>5, <1>8, <1>10, <1>15, <2>1, <2>2, <2>3 DEF RecordIsDue, fa, t, r
<1> QED BY <1>13, <1>14, <1>15

(* --- a sample ---------------------------------------------------------*)

\* What opening a file and looking a record up in it leaves of a call.
Opens(c, anchor, fa, down, d) ==
    /\ CallOK(d) /\ d.lru = c.lru /\ \E v : d.held \subseteq c.held \cup {v}
    /\ c.decoded \subseteq d.decoded /\ d.decoded \subseteq c.decoded \cup {fa}
    /\ d.ok => d.rec = RecordAt(anchor, fa) /\ GotOK(d, fa)
    /\ RecordAt(anchor, fa) >= 0 /\ fa \notin down => d.ok
    /\ ~c.lru => d.files = c.files
    /\ c.lru /\ KeptIn(c.files, fa) => d.decoded = c.decoded
    /\ c.lru /\ d.ok => Len(d.files) > 0 /\ d.files[Len(d.files)].anchor = fa
    /\ c.lru /\ Cap = 2 /\ Len(c.files) > 0 => KeptIn(d.files, c.files[Len(c.files)].anchor)

\* Getting a file and finding a record in it.
LEMMA OpenOK ==
    ASSUME Cap \in {1, 2}, NEW c, CallOK(c), NEW u, c.held \subseteq {u}, c.ok,
           NEW fa \in Int, NEW down, NEW anchor, RecordAt(anchor, fa) \in Int
    PROVE  Opens(c, anchor, fa, down, Locate(GetFile(c, fa, down), anchor, fa))
<1> DEFINE g == GetFile(c, fa, down)
           d == Locate(g, anchor, fa)
<1>1. GetsFile(c, fa, down, g)
  BY GetFileOK
<1> HIDE DEF g
<1>2. CallOK(g) /\ g.lru = c.lru /\ (g.ok => GotOK(g, fa))
  BY <1>1 DEF GetsFile
<1>3. PICK v : g.held \subseteq c.held \cup {v}
  BY <1>1 DEF GetsFile
<1>4. g.held \subseteq {u, v}
  BY <1>3
<1>5. LocatesRecord(g, anchor, fa, d)
  BY <1>2, <1>4, LocateOK
<1> HIDE DEF d
<1>6. d.held \subseteq c.held \cup {v}
  BY <1>3, <1>5 DEF LocatesRecord
<1>7. Opens(c, anchor, fa, down, d)
  BY <1>1, <1>5, <1>6 DEF Opens, GetsFile, LocatesRecord
<1> QED BY <1>7 DEF d, g

\* A call begun: nothing got, nothing decoded.
LEMMA CallBegins ==
    ASSUME ListOK(Cap, files), MemoOK(files, memo), NEW lru \in BOOLEAN, NEW c, c = Call(lru)
    PROVE  /\ CallOK(c) /\ c.files = files /\ c.held = {} /\ c.decoded = {} /\ c.ok
           /\ c.lru = lru
<1>1. /\ files \in Seq(File) /\ memo \in SUBSET MemoEntry
  BY Zenon DEF ListOK, MemoOK
<1>2. /\ c.files = files /\ c.memo = memo /\ c.held = {} /\ c.decoded = {} /\ c.ok
      /\ c.lru = lru
  BY DEF Call
<1>3. c \in CallType
  <2> DEFINE S == Seq(File)
             M == SUBSET MemoEntry
             H == SUBSET (1..8)
             A == 0..8
             B == BOOLEAN
             D == SUBSET Int
             Z == Int
  <2>1. /\ files \in S /\ memo \in M /\ {} \in H /\ 0 \in A /\ TRUE \in B /\ {} \in D
        /\ lru \in B /\ 0 \in Z
    BY <1>1
  <2> HIDE DEF S, M, H, A, B, D, Z
  <2>2. c \in [files : S, memo : M, held : H, addr : A, rec : Z, ok : B, decoded : D, lru : B]
    BY Zenon, <2>1 DEF Call
  <2> QED BY <2>2 DEF CallType, S, M, H, A, B, D, Z
<1> QED BY Zenon, <1>2, <1>3 DEF CallOK

\* A call about the cadence anchor j leaves the kept files and the memo as
\* they must be, and decodes no file that was kept for it, nor another than fas.
Leaves(lru, fa, fas, d) ==
    /\ CallOK(d) /\ d.decoded \subseteq fas
    /\ ~lru => d.files = files
    /\ lru /\ KeptIn(files, fa) => fa \notin d.decoded

\* Whether the call failed is no matter of what it leaves.
LEMMA LeavesOk ==
    ASSUME NEW lru, NEW fa, NEW fas, NEW c, Leaves(lru, fa, fas, c), NEW b \in BOOLEAN
    PROVE  Leaves(lru, fa, fas, [c EXCEPT !.ok = b]) /\ ([c EXCEPT !.ok = b].ok <=> b)
<1> DEFINE d == [c EXCEPT !.ok = b]
<1>1. CallOK(c)
  BY DEF Leaves
<1>2. CallOK(d) /\ d.files = c.files /\ d.decoded = c.decoded /\ d.ok = b
  BY <1>1, OkFields
<1> HIDE DEF d
<1>3. Leaves(lru, fa, fas, d)
  BY <1>2 DEF Leaves
<1> QED BY <1>2, <1>3 DEF d

\* The sample of the cadence anchor j.
SampleOf(j, b) ==
    /\ b \in [recs : Seq([file : Int, rec : Int]), coords : Int, times : Seq(Int)]
    /\ b.coords = FileAnchor(Rec(j))
    /\ Due(b.recs[1], Rec(j))
    /\ src.bracket =>
         \/ /\ b.times = <<Rec(j), Rec(j + 1)>>
            /\ Due(b.recs[2], Rec(j + 1))
         \/ b.times = <<Rec(j), Rec(j)>> /\ b.recs[2] = b.recs[1]

\* How a call for the cadence anchor j ends.
Reads(j, lru, down, got) ==
    /\ Leaves(lru, FileAnchor(Rec(j)), WarmFiles(Rec(j)), got.call)
    /\ got.call.ok =>
         /\ SampleOf(j, got.sample)
         /\ lru => \A i \in DOMAIN got.sample.recs : KeptIn(got.call.files, got.sample.recs[i].file)
    /\ /\ FileAnchor(Rec(j)) \notin down /\ FileAnchor(Rec(j + 1)) \notin down
       /\ Holds(Rec(j)) /\ (src.end = None \/ Rec(j + 1) < src.end)
       => got.call.ok /\ (src.bracket /\ Holds(Rec(j + 1)) => got.sample.times = <<Rec(j), Rec(j + 1)>>)

\* The files a group warms for the cadence anchor j.
LEMMA WarmFilesIs ==
    ASSUME src \in Sources, NEW j \in Int
    PROVE  WarmFiles(Rec(j)) = {FileAnchor(Rec(j))} \cup
             IF src.bracket /\ (src.end = None \/ Rec(j + 1) < src.end)
             THEN {FileAnchor(Rec(j + 1))} ELSE {}
<1>1. CadenceAnchor(Rec(j)) = Rec(j) /\ NextRecordAnchor(Rec(j)) = Rec(j + 1)
  BY RecIs
<1> QED BY Zenon, <1>1 DEF WarmFiles

\* A file anchor is an instant.
LEMMA FileAnchorType ==
    ASSUME src \in Sources, NEW t \in Int
    PROVE  FileAnchor(t) \in Int
BY FileIs, FilOrder

\* A sample of one record.
LEMMA SampleOneOK ==
    ASSUME src \in Sources, ListOK(Cap, files), MemoOK(files, memo), ~src.bracket,
           NEW j \in Int, NEW lru \in BOOLEAN, NEW down
    PROVE  Reads(j, lru, down, SampleAnchor(Rec(j), lru, down))
<1> DEFINE t == Rec(j)
           fa == FileAnchor(t)
           c == Call(lru)
           l == Locate(GetFile(c, fa, down), t, fa)
           got == SampleAnchor(t, lru, down)
           r == RecordAt(t, fa)
           fas == WarmFiles(t)
<1>1. got = IF ~l.ok \/ ~HasRecord(fa, l.rec) THEN NoSample(l)
            ELSE [call |-> l, sample |-> [recs |-> <<RecordOf(fa, l.rec)>>, coords |-> fa, times |-> << >>]]
  BY Zenon DEF SampleAnchor, SampleOne, OneOf
<1>2. CallOK(c) /\ c.files = files /\ c.held = {} /\ c.decoded = {} /\ c.ok /\ c.lru = lru
  BY CallBegins
<1>3. t \in Int /\ fa \in Int
  BY RecIs, FileAnchorType
<1>4. RecordIsDue(j, fa)
  BY RecordAtIs
<1>5. Cap \in {1, 2}
  BY SourceType
<1>6. fas = {fa}
  BY WarmFilesIs
<1> HIDE DEF c, fa, t, r, got, fas
<1>7. r \in Nat /\ (HasRecord(fa, r) => Due(RecordOf(fa, r), t)) /\ (Holds(t) => HasRecord(fa, r))
  BY <1>4, Zenon DEF RecordIsDue, r, t
<1>8. Opens(c, t, fa, down, l)
  <2>1. c.held \subseteq {fa} /\ RecordAt(t, fa) \in Int
    BY <1>2, <1>7 DEF r
  <2> QED BY <1>2, <1>3, <1>5, <2>1, OpenOK
<1> HIDE DEF l
<1>9. /\ CallOK(l) /\ l.decoded \subseteq {fa} /\ (l.ok => l.rec = r) /\ (fa \notin down => l.ok)
      /\ ~lru => l.files = files
      /\ lru /\ KeptIn(files, fa) => l.decoded = {}
      /\ lru /\ l.ok => Len(l.files) > 0 /\ l.files[Len(l.files)].anchor = fa
  BY <1>2, <1>7, <1>8 DEF Opens, r
<1>10. Leaves(lru, fa, fas, l)
  BY <1>6, <1>9 DEF Leaves
<1>11. lru /\ l.ok => KeptIn(l.files, fa)
  <2>1. Len(l.files) \in Nat
    BY <1>9, LenProperties DEF CallOK, ListOK
  <2>2. Len(l.files) > 0 => Len(l.files) \in 1..Len(l.files)
    BY <2>1
  <2> QED BY <1>9, <2>2 DEF KeptIn
<1>12. CASE l.ok /\ HasRecord(fa, r)
  <2> DEFINE b == [recs |-> <<RecordOf(fa, r)>>, coords |-> fa, times |-> << >>]
  <2>1. got.call = l /\ got.sample = b
    BY <1>1, <1>9, <1>12
  <2>2. b.recs = <<RecordOf(fa, r)>> /\ b.coords = fa /\ b.times = << >>
    OBVIOUS
  <2>3. b \in [recs : Seq([file : Int, rec : Int]), coords : Int, times : Seq(Int)]
    <3>1. RecordOf(fa, r) \in [file : Int, rec : Int]
      BY <1>3, <1>7 DEF RecordOf
    <3> DEFINE S == Seq([file : Int, rec : Int])
               T == Seq(Int)
    <3>2. <<RecordOf(fa, r)>> \in S /\ << >> \in T
      BY <3>1
    <3> HIDE DEF S, T
    <3>3. b \in [recs : S, coords : Int, times : T]
      BY <1>3, <3>2
    <3> QED BY <3>3 DEF S, T
  <2> HIDE DEF b
  <2>4. b.recs[1] = RecordOf(fa, r) /\ DOMAIN b.recs = {1}
    BY <2>2
  <2>5. SampleOf(j, b)
    BY Zenon, <1>7, <1>12, <2>2, <2>3, <2>4 DEF SampleOf, t, fa
  <2>6. lru => \A i \in DOMAIN b.recs : KeptIn(l.files, b.recs[i].file)
    BY <1>11, <1>12, <2>4 DEF RecordOf
  <2> QED BY Zenon, <1>10, <1>12, <2>1, <2>5, <2>6 DEF Reads, t, fa, fas, got
<1>13. CASE ~(l.ok /\ HasRecord(fa, r))
  <2> DEFINE d == [l EXCEPT !.ok = FALSE]
  <2>1. ~l.ok \/ ~HasRecord(fa, l.rec)
    BY <1>9, <1>13
  <2>2. got = NoSample(l)
    BY Zenon, <1>1, <2>1
  <2>3. got.call = d
    BY <2>2 DEF NoSample
  <2>4. Leaves(lru, fa, fas, d) /\ ~d.ok
    BY <1>10, LeavesOk
  <2>5. ~(fa \notin down /\ Holds(t))
    BY <1>7, <1>9, <1>13
  <2> HIDE DEF d
  <2> QED BY Zenon, <2>3, <2>4, <2>5 DEF Reads, t, fa, fas, got
<1> QED BY <1>12, <1>13 DEF got, t

\* The last of a list of kept files is kept.
LEMMA LastIsKept ==
    ASSUME NEW c, CallOK(c), NEW fa, Len(c.files) > 0, c.files[Len(c.files)].anchor = fa
    PROVE  KeptIn(c.files, fa)
<1>1. Len(c.files) \in Nat
  BY LenProperties DEF CallOK, ListOK
<1>2. Len(c.files) \in 1..Len(c.files)
  BY <1>1
<1> QED BY <1>2 DEF KeptIn

\* What the read of the next anchor leaves of the call that read the first.
Late(j) == src.end # None /\ Rec(j + 1) >= src.end
NextRead(j, l, down) ==
    IF Late(j) THEN [l EXCEPT !.ok = FALSE]
    ELSE Locate(OpenNext(l, FileAnchor(Rec(j)), FileAnchor(Rec(j + 1)), down),
                Rec(j + 1), FileAnchor(Rec(j + 1)))
Continues(j, lru, down, m) ==
    /\ Leaves(lru, FileAnchor(Rec(j)), WarmFiles(Rec(j)), m)
    /\ m.ok => m.rec = RecordAt(Rec(j + 1), FileAnchor(Rec(j + 1)))
    /\ ~Late(j) /\ FileAnchor(Rec(j + 1)) \notin down => m.ok
    /\ lru => KeptIn(m.files, FileAnchor(Rec(j)))
    /\ lru /\ m.ok => KeptIn(m.files, FileAnchor(Rec(j + 1)))

\* The read of the next anchor keeps the file of the first one, when files are kept.
LEMMA NextReadOK ==
    ASSUME src \in Sources, src.bracket, NEW j \in Int, NEW lru \in BOOLEAN, NEW down,
           NEW l, CallOK(l), l.ok, l.lru = lru, NEW u, l.held \subseteq {u},
           GotOK(l, FileAnchor(Rec(j))),
           Leaves(lru, FileAnchor(Rec(j)), {FileAnchor(Rec(j))}, l),
           lru => Len(l.files) > 0 /\ l.files[Len(l.files)].anchor = FileAnchor(Rec(j))
    PROVE  Continues(j, lru, down, NextRead(j, l, down))
<1> DEFINE fa == FileAnchor(Rec(j))
           next == Rec(j + 1)
           fa1 == FileAnchor(next)
           r1 == RecordAt(next, fa1)
           fas == WarmFiles(Rec(j))
           m == NextRead(j, l, down)
<1>1. m = IF Late(j) THEN [l EXCEPT !.ok = FALSE] ELSE Locate(OpenNext(l, fa, fa1, down), next, fa1)
  BY Zenon DEF NextRead
<1>2. j + 1 \in Int
  OBVIOUS
<1>3. Rec(j) \in Int /\ next \in Int /\ fa \in Int /\ fa1 \in Int
  BY <1>2, RecIs, FileAnchorType
<1>4. r1 \in Nat
  BY <1>2, RecordAtIs DEF RecordIsDue
<1>5. Cap = 2
  BY SourceType
<1>6. fa \in fas /\ (~Late(j) => fa1 \in fas)
  <2>1. fas = {fa} \cup IF src.bracket /\ (src.end = None \/ next < src.end) THEN {fa1} ELSE {}
    BY WarmFilesIs
  <2>2. ~Late(j) => src.end = None \/ next < src.end
    BY <1>3, SourceType DEF Late
  <2> QED BY <2>1, <2>2
<1>7. Leaves(lru, fa, {fa}, l)
  OBVIOUS
<1>8. lru => KeptIn(l.files, fa)
  BY LastIsKept
<1>9. lru => Len(l.files) > 0 /\ l.files[Len(l.files)].anchor = fa
  OBVIOUS
<1>10. GotOK(l, fa)
  OBVIOUS
<1> HIDE DEF fa, fa1, fas, r1, m, next
<1>11. Leaves(lru, fa, fas, l)
  BY <1>6, <1>7 DEF Leaves
<1>12. CASE Late(j)
  <2> DEFINE d == [l EXCEPT !.ok = FALSE]
  <2>1. m = d
    BY <1>1, <1>12
  <2>2. Leaves(lru, fa, fas, d) /\ ~d.ok
    BY <1>11, LeavesOk
  <2>3. d.files = l.files
    BY OkFields
  <2> HIDE DEF d
  <2> QED BY Zenon, <1>8, <1>12, <2>1, <2>2, <2>3 DEF Continues, fa, fa1, fas, m, next
<1>13. CASE ~Late(j) /\ fa1 = fa
  <2>1. m = Locate(l, next, fa1)
    BY <1>1, <1>13 DEF OpenNext
  <2>2. l.held \subseteq {u, u} /\ GotOK(l, fa1) /\ Cap \in {1, 2}
    BY <1>5, <1>10, <1>13
  <2>3. RecordAt(next, fa1) \in Int
    BY <1>4 DEF r1
  <2>4. LocatesRecord(l, next, fa1, m)
    BY <1>3, <2>1, <2>2, <2>3, LocateOK
  <2>5. /\ CallOK(m) /\ m.files = l.files /\ m.decoded = l.decoded
        /\ (m.ok => m.rec = r1) /\ m.ok
    BY <1>4, <2>4 DEF LocatesRecord, r1
  <2>6. Leaves(lru, fa, fas, m)
    BY <1>11, <2>5 DEF Leaves
  <2> QED BY Zenon, <1>8, <1>13, <2>5, <2>6 DEF Continues, fa, fa1, fas, m, next, r1
<1>14. CASE ~Late(j) /\ fa1 # fa
  <2>1. m = Locate(GetFile(l, fa1, down), next, fa1)
    BY <1>1, <1>14 DEF OpenNext
  <2>2. RecordAt(next, fa1) \in Int /\ Cap \in {1, 2}
    BY <1>4, <1>5 DEF r1
  <2>3. Opens(l, next, fa1, down, m)
    BY <1>3, <2>1, <2>2, OpenOK
  <2>4. /\ CallOK(m) /\ m.decoded \subseteq l.decoded \cup {fa1}
        /\ (m.ok => m.rec = r1) /\ (fa1 \notin down => m.ok)
        /\ ~lru => m.files = l.files
        /\ lru /\ m.ok => Len(m.files) > 0 /\ m.files[Len(m.files)].anchor = fa1
        /\ lru => KeptIn(m.files, fa)
    BY <1>4, <1>5, <1>9, <2>3 DEF Opens, r1
  <2>5. lru /\ m.ok => KeptIn(m.files, fa1)
    BY <2>4, LastIsKept
  <2>6. Leaves(lru, fa, fas, m)
    BY <1>6, <1>11, <1>14, <2>4 DEF Leaves
  <2> QED BY Zenon, <2>4, <2>5, <2>6 DEF Continues, fa, fa1, fas, m, next, r1
<1> QED BY <1>12, <1>13, <1>14 DEF m

\* A sample of a bracket: both records, or the first one twice.
LEMMA SampleBracketOK ==
    ASSUME src \in Sources, ListOK(Cap, files), MemoOK(files, memo), src.bracket,
           NEW j \in Int, NEW lru \in BOOLEAN, NEW down
    PROVE  Reads(j, lru, down, SampleAnchor(Rec(j), lru, down))
<1> DEFINE t == Rec(j)
           next == Rec(j + 1)
           fa == FileAnchor(t)
           fa1 == FileAnchor(next)
           c == Call(lru)
           l == Locate(GetFile(c, fa, down), t, fa)
           m == NextRead(j, l, down)
           got == SampleAnchor(t, lru, down)
           r == RecordAt(t, fa)
           r1 == RecordAt(next, fa1)
           fas == WarmFiles(t)
           both == [recs |-> <<RecordOf(fa, r), RecordOf(fa1, r1)>>,
                    coords |-> fa, times |-> <<t, next>>]
           one == [recs |-> <<RecordOf(fa, r), RecordOf(fa, r)>>,
                   coords |-> fa, times |-> <<t, t>>]
<1>1. got = IF ~l.ok THEN NoSample(l)
            ELSE IF ~HasRecord(fa, l.rec) THEN NoSample(m)
            ELSE IF m.ok /\ HasRecord(fa1, m.rec)
            THEN Bracketed(t, fa, l.rec, m, RecordOf(fa1, m.rec), next)
            ELSE Bracketed(t, fa, l.rec, m, RecordOf(fa, l.rec), t)
  <2>1. NextRecordAnchor(t) = next
    BY RecIs
  <2>2. got = Second(t, fa, l, next, fa1, down)
    BY Zenon, <2>1 DEF SampleAnchor, SampleBracket
  <2> QED BY Zenon, <2>2 DEF Second, Reach, NextRead, Late
<1>2. CallOK(c) /\ c.files = files /\ c.held = {} /\ c.decoded = {} /\ c.ok /\ c.lru = lru
  BY CallBegins
<1>3. j + 1 \in Int
  OBVIOUS
<1>4. t \in Int /\ next \in Int /\ fa \in Int /\ fa1 \in Int
  BY <1>3, RecIs, FileAnchorType
<1>5. RecordIsDue(j, fa) /\ RecordIsDue(j + 1, fa1)
  BY <1>3, RecordAtIs
<1>6. Cap \in {1, 2} /\ (src.end \in Int \/ src.end = None)
  BY SourceType
<1>7. fa \in fas
  BY WarmFilesIs
<1>8. /\ r \in Nat /\ (HasRecord(fa, r) => Due(RecordOf(fa, r), t)) /\ (Holds(t) => HasRecord(fa, r))
      /\ r1 \in Nat /\ (HasRecord(fa1, r1) => Due(RecordOf(fa1, r1), next))
      /\ (Holds(next) => HasRecord(fa1, r1))
  BY <1>5, Zenon DEF RecordIsDue
<1> HIDE DEF c, fa, fa1, t, next, r, r1, got, fas
<1>9. Opens(c, t, fa, down, l)
  <2>1. c.held \subseteq {fa} /\ RecordAt(t, fa) \in Int
    BY <1>2, <1>8 DEF r
  <2> QED BY <1>2, <1>4, <1>6, <2>1, OpenOK
<1> HIDE DEF l
<1>10. /\ CallOK(l) /\ l.lru = lru /\ l.decoded \subseteq {fa} /\ (l.ok => l.rec = r /\ GotOK(l, fa))
       /\ (fa \notin down => l.ok)
       /\ ~lru => l.files = files
       /\ lru /\ KeptIn(files, fa) => l.decoded = {}
       /\ lru /\ l.ok => Len(l.files) > 0 /\ l.files[Len(l.files)].anchor = fa
       /\ \E u : l.held \subseteq {u}
  BY <1>2, <1>8, <1>9 DEF Opens, r
<1>11. Leaves(lru, fa, {fa}, l) /\ Leaves(lru, fa, fas, l)
  BY <1>7, <1>10 DEF Leaves
<1>12. PICK u : l.held \subseteq {u}
  BY <1>10
<1>13. l.ok => Continues(j, lru, down, m)
  BY <1>10, <1>11, <1>12, NextReadOK DEF fa, t
<1> HIDE DEF m
<1>14. l.ok => /\ Leaves(lru, fa, fas, m)
               /\ (m.ok => m.rec = r1)
               /\ ~Late(j) /\ fa1 \notin down => m.ok
               /\ lru => KeptIn(m.files, fa)
               /\ lru /\ m.ok => KeptIn(m.files, fa1)
  BY Zenon, <1>13 DEF Continues, fa, fa1, t, next, r1, fas
<1>15. src.end = None \/ next < src.end => ~Late(j)
  BY <1>4, <1>6 DEF Late, next
<1>16. ASSUME NEW w, NEW b, NEW p \in BOOLEAN, Leaves(lru, fa, fas, w), got.call = [w EXCEPT !.ok = TRUE], got.sample = b,
              b = IF p THEN both ELSE one, HasRecord(fa, r), p => HasRecord(fa1, r1),
              lru => KeptIn(w.files, fa), lru /\ p => KeptIn(w.files, fa1),
              fa1 \notin down /\ (src.end = None \/ next < src.end) /\ Holds(next) => p
       PROVE  Reads(j, lru, down, got)
  <2> DEFINE d == [w EXCEPT !.ok = TRUE]
             rf == RecordOf(fa, r)
             rs == IF p THEN RecordOf(fa1, r1) ELSE rf
             ts == IF p THEN <<t, next>> ELSE <<t, t>>
  <2>1. b.recs = <<rf, rs>> /\ b.coords = fa /\ b.times = ts
    BY <1>16
  <2>2. rf.file = fa /\ rs.file = IF p THEN fa1 ELSE fa
    BY DEF RecordOf
  <2>3. b \in [recs : Seq([file : Int, rec : Int]), coords : Int, times : Seq(Int)]
    <3>1. rf \in [file : Int, rec : Int] /\ rs \in [file : Int, rec : Int]
      BY <1>4, <1>8 DEF RecordOf
    <3> DEFINE S == Seq([file : Int, rec : Int])
               T == Seq(Int)
               rr == <<rf, rs>>
    <3>2. rr \in S /\ ts \in T
      BY <1>4, <3>1
    <3>3. b = [recs |-> rr, coords |-> fa, times |-> ts]
      BY <1>16
    <3> HIDE DEF S, T, rr, ts, both, one
    <3>4. b \in [recs : S, coords : Int, times : T]
      BY <1>4, <3>2, <3>3
    <3> QED BY <3>4 DEF S, T
  <2>4. Leaves(lru, fa, fas, d) /\ d.ok
    BY <1>16, LeavesOk
  <2>5. d.files = w.files
    <3>1. CallOK(w)
      BY <1>16 DEF Leaves
    <3> QED BY <3>1, OkFields
  <2> HIDE DEF both, one, rf, d
  <2>6. b.recs[1] = rf /\ b.recs[2] = rs /\ DOMAIN b.recs = {1, 2}
    BY <2>1
  <2>7. lru => \A i \in DOMAIN b.recs : KeptIn(w.files, b.recs[i].file)
    BY <1>16, <2>2, <2>6
  <2>8. Due(rf, t) /\ (p => ts = <<t, next>> /\ Due(rs, next)) /\ (~p => ts = <<t, t>> /\ rs = rf)
    BY <1>8, <1>16 DEF rf
  <2> HIDE DEF rs, ts
  <2>9. SampleOf(j, b)
    BY Zenon, <2>1, <2>3, <2>6, <2>8 DEF SampleOf, t, next, fa
  <2>10. p => b.times = <<t, next>>
    BY <2>1, <2>8
  <2> QED BY Zenon, <1>16, <2>4, <2>5, <2>7, <2>9, <2>10 DEF Reads, t, next, fa, fa1, fas, got, d
<1>17. ASSUME NEW w, Leaves(lru, fa, fas, w), got = NoSample(w),
              ~(fa \notin down /\ Holds(t))
       PROVE  Reads(j, lru, down, got)
  <2> DEFINE d == [w EXCEPT !.ok = FALSE]
  <2>1. got.call = d
    BY <1>17 DEF NoSample
  <2>2. Leaves(lru, fa, fas, d) /\ ~d.ok
    BY <1>17, LeavesOk
  <2> HIDE DEF d
  <2> QED BY Zenon, <1>17, <2>1, <2>2 DEF Reads, t, fa, fas, got
<1> SUFFICES Reads(j, lru, down, got)
  BY DEF got, t
<1>18. CASE ~l.ok
  <2>1. got = NoSample(l)
    BY Zenon, <1>1, <1>18
  <2> QED BY Zenon, <1>10, <1>11, <1>17, <1>18, <2>1
<1>19. CASE l.ok /\ ~HasRecord(fa, r)
  <2>1. got = NoSample(m)
    BY Zenon, <1>1, <1>10, <1>19
  <2> QED BY Zenon, <1>8, <1>14, <1>17, <1>19, <2>1
<1>20. CASE l.ok /\ HasRecord(fa, r) /\ m.ok /\ HasRecord(fa1, r1)
  <2>1. got = Bracketed(t, fa, r, m, RecordOf(fa1, r1), next)
    BY Zenon, <1>1, <1>10, <1>14, <1>20
  <2>2. got.call = [m EXCEPT !.ok = TRUE] /\ got.sample = both
    BY <2>1 DEF Bracketed
  <2>3. got.sample = IF TRUE THEN both ELSE one
    BY <2>2
  <2> HIDE DEF both, one
  <2> QED BY Zenon, <1>14, <1>16, <1>20, <2>2, <2>3
<1>21. CASE l.ok /\ HasRecord(fa, r) /\ ~(m.ok /\ HasRecord(fa1, r1))
  <2>1. got = Bracketed(t, fa, r, m, RecordOf(fa, r), t)
    BY Zenon, <1>1, <1>10, <1>14, <1>21
  <2>2. got.call = [m EXCEPT !.ok = TRUE] /\ got.sample = one
    BY <2>1 DEF Bracketed
  <2>3. ~(fa1 \notin down /\ (src.end = None \/ next < src.end) /\ Holds(next))
    BY <1>8, <1>14, <1>15, <1>21
  <2>4. got.sample = IF FALSE THEN both ELSE one
    BY <2>2
  <2> HIDE DEF both, one
  <2> QED BY Zenon, <1>14, <1>16, <1>21, <2>2, <2>3, <2>4
<1> QED BY <1>18, <1>19, <1>20, <1>21

(* --- runs of anchors --------------------------------------------------*)

\* s is the anchors from the k-th on that lie before `to`.
RunUntil(p, start, to, k, s) ==
    /\ s \in Seq(Int)
    /\ \A i \in 1..Len(s) : s[i] = Anchor(p, start, k + i - 1)
    /\ \A n \in Int : n >= k /\ Anchor(p, start, n) < to => n - k + 1 \in 1..Len(s)

\* The recursive runs of refresh_times and of the prefetch, from their first anchor.
LEMMA AnchorsUntil ==
    ASSUME NEW p, IsPeriod(p), NEW start \in Int, NEW to \in Int, NEW k0 \in Int
    PROVE  RunUntil(p, start, to, k0,
             (CHOOSE f : f = [k \in Int |-> IF Anchor(p, start, k) >= to THEN << >>
                                            ELSE <<Anchor(p, start, k)>> \o f[k+1]])[k0])
<1> DEFINE a(k) == Anchor(p, start, k)
           f == CHOOSE h : h = [k \in Int |-> IF Anchor(p, start, k) >= to THEN << >>
                                              ELSE <<Anchor(p, start, k)>> \o h[k+1]]
           K == CeilIndex(p, start, to)
           run(k) == [i \in 1..(K - k) |-> a(k + i - 1)]
           g == [k \in Int |-> IF k >= K THEN << >> ELSE run(k)]
           Good == {k \in Int : /\ f[k] \in Seq(Int) /\ Len(f[k]) = K - k
                                /\ \A i \in 1..(K - k) : f[k][i] = a(k + i - 1)}
<1>1. \A k \in Int : a(k) \in Int
  BY AnchorType
<1>2. K \in Int /\ to <= a(K) /\ a(K - 1) < to
  BY CeilIndexExact
<1>3. \A m, n \in Int : (a(m) <= a(n)) = (m <= n)
  BY AnchorOrder
<1> HIDE DEF K
<1>4. \A k \in Int : (a(k) >= to) = (k >= K)
  <2> TAKE k \in Int
  <2>1. K - 1 \in Int /\ (K <= k \/ k <= K - 1)
    BY <1>2
  <2>2. a(K) \in Int /\ a(K - 1) \in Int /\ a(k) \in Int
    BY <1>1, <1>2, <2>1
  <2>3. K <= k => a(K) <= a(k)
    BY <1>2, <1>3
  <2>4. k <= K - 1 => a(k) <= a(K - 1)
    BY <1>3, <2>1
  <2> HIDE DEF a
  <2> QED BY <1>2, <2>1, <2>2, <2>3, <2>4
<1> HIDE DEF a
<1>5. ASSUME NEW k \in Int, k < K
      PROVE  /\ run(k) \in Seq(Int) /\ Len(run(k)) = K - k
             /\ \A i \in 1..(K - k) : run(k)[i] = a(k + i - 1)
  <2>1. K - k \in Nat /\ \A i \in 1..(K - k) : a(k + i - 1) \in Int
    BY <1>1, <1>2, <1>5
  <2> QED BY <2>1
<1>6. ASSUME NEW k \in Int, k < K, NEW s \in Seq(Int), Len(s) = K - (k + 1),
             \A i \in 1..(K - (k + 1)) : s[i] = a((k + 1) + i - 1),
             NEW r, r = <<a(k)>> \o s
      PROVE  /\ r \in Seq(Int) /\ Len(r) = K - k
             /\ \A i \in 1..(K - k) : r[i] = a(k + i - 1)
  <2>1. <<a(k)>> \in Seq(Int) /\ Len(<<a(k)>>) = 1 /\ <<a(k)>>[1] = a(k)
    BY <1>1
  <2> DEFINE one == <<a(k)>>
  <2>2. one \in Seq(Int) /\ Len(one) = 1 /\ one[1] = a(k) /\ r = one \o s
    BY <1>6, <2>1
  <2> HIDE DEF one
  <2>3. /\ one \o s \in Seq(Int) /\ Len(one \o s) = Len(one) + Len(s)
        /\ \A i \in 1..(Len(one) + Len(s)) : (one \o s)[i] = IF i <= Len(one) THEN one[i] ELSE s[i - Len(one)]
    BY <2>2, ConcatProperties
  <2>4. \A i \in 1..(K - k) : r[i] = a(k + i - 1)
    <3> TAKE i \in 1..(K - k)
    <3>1. r[i] = IF i <= 1 THEN one[i] ELSE s[i - 1]
      BY <1>2, <1>6, <2>2, <2>3
    <3>2. CASE i = 1
      <4>1. k + i - 1 = k
        BY <3>2
      <4> QED BY <2>2, <3>1, <3>2, <4>1
    <3>3. CASE i # 1
      <4>1. i - 1 \in 1..(K - (k + 1)) /\ (k + 1) + (i - 1) - 1 = k + i - 1 /\ ~(i <= 1)
        BY <1>2, <3>3
      <4>2. s[i - 1] = a((k + 1) + (i - 1) - 1)
        BY <1>6, <4>1
      <4> QED BY <3>1, <4>1, <4>2
    <3> QED BY <3>2, <3>3
  <2>5. r \in Seq(Int) /\ Len(r) = Len(one) + Len(s)
    BY Zenon, <2>2, <2>3
  <2>6. Len(one) + Len(s) = K - k
    BY <1>2, <1>6, <2>2
  <2> QED BY Zenon, <2>4, <2>5, <2>6
<1>7. \A k \in Int : k < K => run(k) = <<a(k)>> \o (IF k + 1 >= K THEN << >> ELSE run(k + 1))
  <2> SUFFICES ASSUME NEW k \in Int, k < K
               PROVE  run(k) = <<a(k)>> \o (IF k + 1 >= K THEN << >> ELSE run(k + 1))
    OBVIOUS
  <2> DEFINE s == IF k + 1 >= K THEN << >> ELSE run(k + 1)
             r == <<a(k)>> \o s
  <2>1. /\ s \in Seq(Int) /\ Len(s) = K - (k + 1)
        /\ \A i \in 1..(K - (k + 1)) : s[i] = a((k + 1) + i - 1)
    <3>1. CASE k + 1 >= K
      <4>1. K - (k + 1) = 0
        BY <1>2, <3>1
      <4> QED BY <3>1, <4>1
    <3>2. CASE ~(k + 1 >= K)
      <4>1. k + 1 \in Int /\ k + 1 < K /\ s = run(k + 1)
        BY <1>2, <3>2
      <4>2. /\ run(k + 1) \in Seq(Int) /\ Len(run(k + 1)) = K - (k + 1)
            /\ \A i \in 1..(K - (k + 1)) : run(k + 1)[i] = a((k + 1) + i - 1)
        BY <1>5, <4>1
      <4> HIDE DEF s, run
      <4> QED BY <4>1, <4>2
    <3> QED BY <3>1, <3>2
  <2>2. r = <<a(k)>> \o s
    OBVIOUS
  <2> HIDE DEF s, r, run
  <2>3. r \in Seq(Int) /\ Len(r) = K - k /\ \A i \in 1..(K - k) : r[i] = a(k + i - 1)
    BY <1>6, <2>1, <2>2
  <2>4. /\ run(k) \in Seq(Int) /\ Len(run(k)) = K - k
        /\ \A i \in 1..(K - k) : run(k)[i] = a(k + i - 1)
    BY <1>5
  <2>5. run(k) = r
    <3>1. Len(run(k)) = Len(r) /\ \A i \in 1..Len(run(k)) : run(k)[i] = r[i]
      BY <2>3, <2>4
    <3> QED BY <2>3, <2>4, <3>1, SeqEqual
  <2> QED BY <2>5 DEF r, s
<1>8. f = [k \in Int |-> IF a(k) >= to THEN << >> ELSE <<a(k)>> \o f[k+1]]
  <2>1. ASSUME NEW k \in Int PROVE g[k] = IF a(k) >= to THEN << >> ELSE <<a(k)>> \o g[k+1]
    <3>1. k + 1 \in Int
      OBVIOUS
    <3> HIDE DEF run
    <3>2. g[k] = IF k >= K THEN << >> ELSE run(k)
      OBVIOUS
    <3>3. g[k + 1] = IF k + 1 >= K THEN << >> ELSE run(k + 1)
      BY <3>1
    <3>4. k >= K \/ k < K
      BY <1>2
    <3> HIDE DEF g
    <3> QED BY Zenon, <1>4, <1>7, <3>2, <3>3, <3>4
  <2>2. g = [k \in Int |-> IF a(k) >= to THEN << >> ELSE <<a(k)>> \o g[k+1]]
    <3>1. g = [k \in Int |-> g[k]]
      OBVIOUS
    <3> HIDE DEF g
    <3> QED BY Zenon, <2>1, <3>1
  <2> HIDE DEF g
  <2> QED BY Zenon, <2>2 DEF a
<1> HIDE DEF f, g, run
<1>9. \A k \in Int : f[k] = IF k >= K THEN << >> ELSE <<a(k)>> \o f[k+1]
  <2> TAKE k \in Int
  <2>1. f[k] = IF a(k) >= to THEN << >> ELSE <<a(k)>> \o f[k+1]
    BY Zenon, <1>8
  <2> QED BY Zenon, <1>4, <2>1
<1>10. \A k \in Int : k <= K => k \in Good
  <2>1. K \in Good
    <3>1. K >= K /\ K - K = 0 /\ 1..0 = {}
      BY <1>2
    <3>2. f[K] = << >>
      BY Zenon, <1>2, <1>9, <3>1
    <3>3. << >> \in Seq(Int) /\ Len(<< >>) = 0
      OBVIOUS
    <3> QED BY Zenon, <1>2, <3>1, <3>2, <3>3
  <2>2. ASSUME NEW k \in Int, k <= K, k \in Good PROVE k - 1 \in Good
    <3> DEFINE m == k - 1
               s == f[k]
    <3>1. m \in Int /\ m < K /\ m + 1 = k /\ ~(m >= K)
      BY <1>2, <2>2
    <3>2. /\ s \in Seq(Int) /\ Len(s) = K - k
          /\ \A i \in 1..(K - k) : s[i] = a(k + i - 1)
      BY <2>2
    <3>3. f[m] = <<a(m)>> \o s
      <4> HIDE DEF m
      <4> QED BY <1>9, <3>1
    <3> HIDE DEF m, s
    <3>4. /\ f[m] \in Seq(Int) /\ Len(f[m]) = K - m
          /\ \A i \in 1..(K - m) : f[m][i] = a(m + i - 1)
      BY <1>6, <3>1, <3>2, <3>3
    <3>5. m \in Good
      BY <3>1, <3>4
    <3> QED BY <3>5 DEF m
  <2> HIDE DEF Good
  <2> QED BY <1>2, <2>1, <2>2, Downwards
<1>11. RunUntil(p, start, to, k0, f[k0])
  <2>1. CASE k0 <= K
    <3>1. /\ f[k0] \in Seq(Int) /\ Len(f[k0]) = K - k0
          /\ \A i \in 1..(K - k0) : f[k0][i] = a(k0 + i - 1)
      BY <1>10, <2>1
    <3>2. ASSUME NEW n \in Int, n >= k0, a(n) < to PROVE n - k0 + 1 \in 1..Len(f[k0])
      <4>1. ~(a(n) >= to)
        BY <1>1, <3>2
      <4>2. ~(n >= K)
        BY <1>4, <4>1
      <4> QED BY <1>2, <3>1, <3>2, <4>2
    <3> QED BY <3>1, <3>2 DEF RunUntil, a
  <2>2. CASE ~(k0 <= K)
    <3>1. f[k0] = << >>
      <4>1. k0 >= K
        BY <1>2, <2>2
      <4> QED BY Zenon, <1>9, <4>1
    <3>2. ASSUME NEW n \in Int, n >= k0, a(n) < to PROVE FALSE
      <4>1. ~(a(n) >= to)
        BY <1>1, <3>2
      <4>2. ~(n >= K)
        BY <1>4, <4>1
      <4> QED BY <1>2, <2>2, <3>2, <4>2
    <3>3. << >> \in Seq(Int) /\ Len(<< >>) = 0
      OBVIOUS
    <3> QED BY <3>1, <3>2, <3>3 DEF RunUntil, a
  <2> QED BY <2>1, <2>2
<1> QED BY <1>11 DEF f

\* The run window and its lower bound are instants.
LEMMA WindowIs ==
    ASSUME src \in Sources, window \in Horizon(src)
    PROVE  /\ window # None => window[1] \in Int /\ window[2] \in Int
           /\ LowerBound \in Int
<1>1. window # None => window \in Int \X Int
  BY SourcesAssumption
<1>2. window # None => window[1] \in Int /\ window[2] \in Int
  BY <1>1
<1>3. src.start \in Int
  BY SourceType
<1> QED BY <1>2, <1>3 DEF LowerBound

\* Every file that covers an instant of the run window, from the lower bound, is among fas.
Covered(fas) ==
    \A n \in Int : LowerBound < Fil(n + 1) /\ Fil(n) < window[2] => Fil(n) \in fas

\* A prefetch goes over every file that covers an instant of the window.
LEMMA PrefetchCovers ==
    ASSUME src \in Sources, window \in Horizon(src), window # None,
           NEW order, order = FileAnchorsFrom(LowerBound, window[2])
    PROVE  /\ order \in Seq(Int)
           /\ Covered({order[i] : i \in 1..Len(order)})
<1> DEFINE p == src.period
           k0 == FloorIndex(p, src.start, LowerBound)
           to == window[2]
<1>1. IsPeriod(p) /\ src.start \in Int /\ to \in Int /\ LowerBound \in Int
  BY SourceType, WindowIs
<1>2. k0 \in Int /\ Fil(k0) <= LowerBound
  BY <1>1, FloorIndexExact DEF Fil
<1>3. order = (CHOOSE f : f = [k \in Int |-> IF Anchor(p, src.start, k) >= to THEN << >>
                                            ELSE <<Anchor(p, src.start, k)>> \o f[k+1]])[k0]
  BY Zenon DEF FileAnchorsFrom
<1> HIDE DEF k0, p, to
<1>4. RunUntil(p, src.start, to, k0, order)
  BY <1>1, <1>2, <1>3, AnchorsUntil
<1>5. /\ order \in Seq(Int)
      /\ \A i \in 1..Len(order) : order[i] = Fil(k0 + i - 1)
      /\ \A n \in Int : n >= k0 /\ Fil(n) < to => n - k0 + 1 \in 1..Len(order)
  BY <1>4 DEF RunUntil, Fil, p
<1>6. ASSUME NEW n \in Int, LowerBound < Fil(n + 1), Fil(n) < to
      PROVE  Fil(n) \in {order[i] : i \in 1..Len(order)}
  <2>1. n + 1 \in Int
    OBVIOUS
  <2>2. Fil(k0) < Fil(n + 1)
    BY <1>1, <1>2, <1>6, <2>1, FilOrder
  <2>3. k0 < n + 1
    BY <1>2, <2>1, <2>2, FilOrder
  <2>4. n >= k0 /\ k0 + (n - k0 + 1) - 1 = n
    BY <1>2, <2>3
  <2>5. n - k0 + 1 \in 1..Len(order)
    BY <1>5, <1>6, <2>4
  <2>6. order[n - k0 + 1] = Fil(n)
    BY <1>5, <2>4, <2>5
  <2> QED BY <2>5, <2>6
<1> QED BY <1>5, <1>6 DEF Covered, to

\* The schedule of a run: increasing, and in every interval of the window.
Scheduled(s) ==
    LET upper == IF window # None THEN window[2] ELSE src.end
    IN  /\ upper # None => \A t \in Int :
             LowerBound <= t /\ t < upper =>
               CadenceAnchor(t) \in {CadenceAnchor(LowerBound)} \cup ToSet(s)
        /\ \A i \in 1..(Len(s) - 1) : s[i] < s[i + 1]

\* refresh_times meets every interval of the window, once.
LEMMA ScheduleIs ==
    ASSUME src \in Sources, window \in Horizon(src)
    PROVE  Scheduled(RefreshTimes)
<1> DEFINE p == src.freq
           s == RefreshTimes
           upper == IF window # None THEN window[2] ELSE src.end
           k0 == CeilIndex(p, src.start, LowerBound)
<1>1. IsPeriod(p) /\ src.start \in Int /\ LowerBound \in Int /\ None \notin Int
  BY SourceType, WindowIs
<1>2. upper \in Int \/ upper = None
  BY SourceType, WindowIs
<1>3. s = IF upper = None THEN << >>
          ELSE (CHOOSE f : f = [k \in Int |-> IF Anchor(p, src.start, k) >= upper THEN << >>
                                              ELSE <<Anchor(p, src.start, k)>> \o f[k+1]])[k0]
  BY Zenon DEF RefreshTimes
<1>4. k0 \in Int /\ LowerBound <= Rec(k0) /\ Rec(k0 - 1) < LowerBound
  BY <1>1, CeilIndexExact DEF Rec
<1>5. Scheduled(s) <=> /\ upper # None => \A t \in Int : LowerBound <= t /\ t < upper =>
                             CadenceAnchor(t) \in {CadenceAnchor(LowerBound)} \cup ToSet(s)
                       /\ \A i \in 1..(Len(s) - 1) : s[i] < s[i + 1]
  BY Zenon DEF Scheduled
<1> SUFFICES Scheduled(s)
  BY DEF s
<1> HIDE DEF s, upper, k0, p
<1>6. CASE upper = None
  <2>1. s = << >>
    BY Zenon, <1>3, <1>6
  <2>2. Len(s) = 0 /\ 1..(0 - 1) = {}
    BY <2>1
  <2>3. 1..(Len(s) - 1) = {}
    BY <2>2
  <2> QED BY Zenon, <1>5, <1>6, <2>3
<1>7. CASE upper \in Int
  <2>1. s = (CHOOSE f : f = [k \in Int |-> IF Anchor(p, src.start, k) >= upper THEN << >>
                                           ELSE <<Anchor(p, src.start, k)>> \o f[k+1]])[k0]
    <3>1. upper # None
      BY <1>1, <1>7
    <3> QED BY Zenon, <1>3, <3>1
  <2>2. RunUntil(p, src.start, upper, k0, s)
    BY <1>1, <1>4, <1>7, <2>1, AnchorsUntil
  <2>3. /\ s \in Seq(Int)
        /\ \A i \in 1..Len(s) : s[i] = Rec(k0 + i - 1)
        /\ \A n \in Int : n >= k0 /\ Rec(n) < upper => n - k0 + 1 \in 1..Len(s)
    BY <2>2 DEF RunUntil, Rec, p
  <2>4. Len(s) \in Nat /\ ToSet(s) = {s[i] : i \in 1..Len(s)}
    BY <2>3, SeqDomain
  <2>5. ASSUME NEW i \in 1..(Len(s) - 1) PROVE s[i] < s[i + 1]
    <3>1. i \in 1..Len(s) /\ i + 1 \in 1..Len(s) /\ k0 + (i + 1) - 1 = k0 + i
          /\ k0 + i - 1 \in Int /\ k0 + i \in Int /\ k0 + i - 1 < k0 + i
      BY <1>4, <2>4
    <3>2. s[i] = Rec(k0 + i - 1) /\ s[i + 1] = Rec(k0 + i)
      BY <2>3, <3>1
    <3>3. Rec(k0 + i - 1) < Rec(k0 + i)
      BY <3>1, RecOrder
    <3> QED BY <3>2, <3>3
  <2>6. ASSUME NEW t \in Int, LowerBound <= t, t < upper
        PROVE  CadenceAnchor(t) \in {CadenceAnchor(LowerBound)} \cup ToSet(s)
    <3>1. PICK j \in Int : CadenceAnchor(t) = Rec(j) /\ Rec(j) <= t /\ t < Rec(j + 1)
      BY CadenceIs
    <3>2. PICK i \in Int : CadenceAnchor(LowerBound) = Rec(i) /\ Rec(i) <= LowerBound /\ LowerBound < Rec(i + 1)
      BY <1>1, CadenceIs
    <3>3. j + 1 \in Int /\ i + 1 \in Int /\ k0 - 1 \in Int /\ (k0 <= j \/ j <= k0 - 1)
      BY <1>4
    <3>4. Rec(j) \in Int /\ Rec(j + 1) \in Int /\ Rec(i) \in Int /\ Rec(i + 1) \in Int /\ Rec(k0 - 1) \in Int
      BY <3>3, RecIs
    <3>5. CASE k0 <= j
      <4>1. Rec(j) < upper
        BY <1>7, <2>6, <3>1, <3>4
      <4>2. j - k0 + 1 \in 1..Len(s) /\ k0 + (j - k0 + 1) - 1 = j
        BY <1>4, <2>3, <3>5, <4>1
      <4>3. s[j - k0 + 1] = Rec(j)
        BY <2>3, <4>2
      <4> QED BY <2>4, <3>1, <4>2, <4>3
    <3>6. CASE j <= k0 - 1
      <4>1. Rec(j) <= Rec(k0 - 1)
        BY <3>3, <3>6, RecOrder
      <4>2. Rec(j) < Rec(i + 1) /\ Rec(i) < Rec(j + 1)
        BY <1>1, <1>4, <2>6, <3>1, <3>2, <3>4, <4>1
      <4>3. j < i + 1 /\ i < j + 1
        BY <3>3, <4>2, RecOrder
      <4>4. i = j
        BY <4>3
      <4> QED BY <3>1, <3>2, <4>4
    <3> QED BY <3>3, <3>5, <3>6
  <2> QED BY Zenon, <1>5, <2>5, <2>6
<1> QED BY <1>2, <1>6, <1>7

(* --- what a step that keeps the source keeps --------------------------*)

\* The anchors are those of the loader, which no step changes.
LEMMA RecSame ==
    ASSUME src' = src, NEW k
    PROVE  Rec(k)' = Rec(k) /\ Fil(k)' = Fil(k)
BY DEF Rec, Fil

\* So is the file of an instant,
LEMMA FileSame ==
    ASSUME src' = src, NEW t
    PROVE  FileAnchor(t)' = FileAnchor(t)
BY Zenon DEF FileAnchor

\* the record due,
LEMMA DueSame ==
    ASSUME src' = src, NEW r, NEW t
    PROVE  Due(r, t)' <=> Due(r, t)
<1>1. FileAnchor(t)' = FileAnchor(t)
  BY FileSame
<1>2. Records(FileAnchor(t))' = Records(FileAnchor(t))
  BY Zenon DEF Records, LaidOut, AnchorsIn, AnchorsBetween, NextFileAnchor, FileAnchor
<1> QED BY Zenon, <1>1, <1>2 DEF Due

\* the sample of an anchor,
LEMMA SampleSame ==
    ASSUME src' = src, NEW j, NEW b
    PROVE  SampleOf(j, b)' <=> SampleOf(j, b)
<1>1. \A k : Rec(k)' = Rec(k)
  BY RecSame
<1>2. \A k : FileAnchor(k)' = FileAnchor(k)
  BY FileSame
<1>3. \A k, r : Due(r, k)' <=> Due(r, k)
  BY DueSame
<1> QED BY SMT, <1>1, <1>2, <1>3 DEF SampleOf

\* the files warmed for one,
LEMMA WarmSame ==
    ASSUME src' = src, NEW t
    PROVE  WarmFiles(t)' = WarmFiles(t)
BY Zenon DEF WarmFiles, FileAnchor, CadenceAnchor, NextRecordAnchor

\* how many files are kept,
LEMMA KeptSame ==
    ASSUME src' = src, NEW fs, NEW m
    PROVE  (ListOK(Cap, fs) /\ MemoOK(fs, m))' <=> ListOK(Cap, fs) /\ MemoOK(fs, m)
BY Zenon DEF Cap

\* and, for the same window, the files that cover it.
LEMMA CoveredSame ==
    ASSUME src' = src, window' = window, NEW fas
    PROVE  Covered(fas)' <=> Covered(fas)
<1>1. \A k : Fil(k)' = Fil(k)
  BY RecSame
<1>2. LowerBound' = LowerBound
  BY DEF LowerBound
<1> QED BY SMT, <1>1, <1>2 DEF Covered

\* What the buffer, the last call, what a refresh kept and what a prefetch
\* warmed have to do with each other.
BufferInv(cur, buf) ==
    /\ (cur = None) = (buf = None)
    /\ cur # None => \E j \in Int : cur = Rec(j) /\ SampleOf(j, buf)
\* The last call was about a cadence anchor, and decoded only what warm_files names.
LastInv(l) ==
    l.op \in {"refresh", "sample"} => \E j \in Int : l.at = Rec(j) /\ l.decoded \subseteq WarmFiles(Rec(j))
\* Right after a refresh that succeeded, the files of the buffer are kept.
DrawnInv(l, buf, fs) ==
    l.op = "refresh" /\ l.ok => \A i \in DOMAIN buf.recs : KeptIn(fs, buf.recs[i].file)
\* A warmed window has all its files on the disk.
WarmedInv(w, fas) == w # None => w = window /\ Covered(fas)

\* The inductive invariant.
IInv ==
    /\ src \in Sources /\ window \in Horizon(src) /\ online \in BOOLEAN
    /\ ListOK(Cap, files) /\ MemoOK(files, memo)
    /\ BufferInv(current, buffer)
    /\ LastInv(last)
    /\ DrawnInv(last, buffer, files)
    /\ WarmedInv(warmed, cached)

\* A step that keeps the loader keeps what the buffer is,
LEMMA BufferSame ==
    ASSUME src' = src, NEW cur, NEW buf, BufferInv(cur, buf)
    PROVE  BufferInv(cur, buf)'
<1>1. \A k : Rec(k)' = Rec(k)
  BY RecSame
<1>2. \A k, b : SampleOf(k, b)' <=> SampleOf(k, b)
  BY SampleSame
<1> QED BY SMT, <1>1, <1>2 DEF BufferInv

\* what the last call was,
LEMMA LastSame ==
    ASSUME src' = src, NEW l, LastInv(l)
    PROVE  LastInv(l)'
<1>1. \A k : Rec(k)' = Rec(k)
  BY RecSame
<1>2. \A k : WarmFiles(k)' = WarmFiles(k)
  BY WarmSame
<1> QED BY SMT, <1>1, <1>2 DEF LastInv

\* and what is warmed.
LEMMA WarmedSame ==
    ASSUME src' = src, window' = window, NEW w, NEW fas, WarmedInv(w, fas)
    PROVE  WarmedInv(w, fas)'
BY CoveredSame DEF WarmedInv

(* --- the invariant ----------------------------------------------------*)

\* A new provider holds nothing.
LEMMA StartsOK ==
    ASSUME Init
    PROVE  IInv
<1>1. /\ src \in Sources /\ window \in Horizon(src) /\ files = << >> /\ memo = {}
      /\ current = None /\ buffer = None /\ warmed = None /\ online = TRUE
      /\ last.op = "new"
  BY DEF Init
<1>2. ListOK(Cap, files)
  <2>1. << >> \in Seq(File) /\ Len(<< >>) = 0 /\ 1..0 = {} /\ Cap \in {1, 2}
    BY <1>1, SourceType
  <2> QED BY <1>1, <2>1 DEF ListOK
<1>3. MemoOK(files, memo)
  BY <1>1 DEF MemoOK
<1>4. BufferInv(current, buffer) /\ LastInv(last) /\ DrawnInv(last, buffer, files) /\ WarmedInv(warmed, cached)
  BY Zenon, <1>1 DEF BufferInv, LastInv, DrawnInv, WarmedInv
<1> QED BY <1>1, <1>2, <1>3, <1>4 DEF IInv

\* A read from a state of the invariant.
LEMMA ReadIs ==
    ASSUME IInv, NEW j \in Int, NEW lru \in BOOLEAN, NEW down
    PROVE  Reads(j, lru, down, SampleAnchor(Rec(j), lru, down))
<1>1. src \in Sources /\ ListOK(Cap, files) /\ MemoOK(files, memo)
  BY DEF IInv
<1>2. CASE src.bracket
  BY <1>1, <1>2, SampleBracketOK
<1>3. CASE ~src.bracket
  BY <1>1, <1>3, SampleOneOK
<1> QED BY <1>2, <1>3

\* What a call about an instant is: a read of the cadence anchor that covers it.
CallFor(t, lru, down, j) ==
    /\ CadenceAnchor(t) = Rec(j)
    /\ Reads(j, lru, down, SampleAnchor(CadenceAnchor(t), lru, down))
    /\ Wanted(t) = {FileAnchor(Rec(j)), FileAnchor(Rec(j + 1))}

\* A call about an instant reads its cadence anchor, and wants two files at most.
LEMMA CallIs ==
    ASSUME IInv, NEW t \in Int, NEW lru \in BOOLEAN, NEW down
    PROVE  \E j \in Int : CallFor(t, lru, down, j)
<1>1. src \in Sources
  BY DEF IInv
<1>2. PICK j \in Int : CadenceAnchor(t) = Rec(j)
  BY <1>1, CadenceIs
<1>3. Reads(j, lru, down, SampleAnchor(Rec(j), lru, down))
  BY ReadIs
<1>4. NextRecordAnchor(Rec(j)) = Rec(j + 1)
  BY <1>1, RecIs
<1>5. CallFor(t, lru, down, j)
  BY Zenon, <1>2, <1>3, <1>4 DEF CallFor, Wanted
<1> QED BY <1>5

\* What a call leaves for the next one.
LEMMA LeftOK ==
    ASSUME NEW lru \in BOOLEAN, NEW j, NEW down, NEW got, Reads(j, lru, down, got)
    PROVE  /\ ListOK(Cap, got.call.files) /\ MemoOK(got.call.files, got.call.memo)
           /\ got.call.decoded \subseteq WarmFiles(Rec(j))
           /\ ~lru => got.call.files = files
           /\ lru /\ KeptIn(files, FileAnchor(Rec(j))) => FileAnchor(Rec(j)) \notin got.call.decoded
           /\ got.call.ok \in BOOLEAN
BY Zenon DEF Reads, Leaves, CallOK, CallType

\* A refresh that moves the buffer, or fails.
LEMMA KeepsOK ==
    ASSUME IInv, NEW j \in Int, NEW down, NEW got, Reads(j, TRUE, down, got),
           UNCHANGED <<src, window, cached, warmed, online>>, Keeps(Rec(j), got)
    PROVE  IInv'
<1> DEFINE ok == got.call.ok
<1>1. /\ ListOK(Cap, got.call.files) /\ MemoOK(got.call.files, got.call.memo)
      /\ got.call.decoded \subseteq WarmFiles(Rec(j)) /\ ok \in BOOLEAN
  BY LeftOK
<1>2. ok => /\ SampleOf(j, got.sample)
            /\ \A i \in DOMAIN got.sample.recs : KeptIn(got.call.files, got.sample.recs[i].file)
  BY Zenon DEF Reads
<1>3. /\ files' = got.call.files /\ memo' = got.call.memo
      /\ current' = IF ok THEN Rec(j) ELSE current
      /\ buffer' = IF ok THEN got.sample ELSE buffer
      /\ last' = [op |-> "refresh", at |-> Rec(j), ok |-> ok, decoded |-> got.call.decoded]
  BY Zenon DEF Keeps, Note
<1>4. /\ src \in Sources /\ window \in Horizon(src) /\ online \in BOOLEAN
      /\ BufferInv(current, buffer) /\ WarmedInv(warmed, cached)
      /\ src' = src /\ window' = window /\ cached' = cached /\ warmed' = warmed /\ online' = online
  BY DEF IInv
<1> HIDE DEF ok
<1>5. BufferInv(current', buffer')
  <2>1. CASE ok
    <3>1. got.sample # None
      BY <1>2, <2>1, SourcesAssumption DEF SampleOf
    <3>2. Rec(j) # None
      BY <1>4, RecIs, SourceType
    <3> QED BY Zenon, <1>2, <1>3, <2>1, <3>1, <3>2 DEF BufferInv
  <2>2. CASE ~ok
    BY <1>3, <1>4, <2>2
  <2> QED BY <2>1, <2>2
<1>6. LastInv(last')
  <2>1. last'.at = Rec(j) /\ last'.decoded = got.call.decoded
    BY <1>3
  <2> QED BY Zenon, <1>1, <2>1 DEF LastInv
<1>7. DrawnInv(last', buffer', files')
  <2>1. last'.ok = ok
    BY <1>3
  <2>2. CASE ok
    BY Zenon, <1>2, <1>3, <2>2 DEF DrawnInv
  <2>3. CASE ~ok
    BY <2>1, <2>3 DEF DrawnInv
  <2> QED BY <2>2, <2>3
<1>8. ListOK(Cap, files)' /\ MemoOK(files, memo)'
  <2>1. ListOK(Cap, files') /\ MemoOK(files', memo')
    BY <1>1, <1>3
  <2> QED BY <1>4, <2>1, KeptSame
<1>9. BufferInv(current, buffer)'
  BY <1>4, <1>5, BufferSame
<1>10. LastInv(last)'
  BY <1>4, <1>6, LastSame
<1>11. WarmedInv(warmed, cached)'
  BY <1>4, WarmedSame
<1>12. DrawnInv(last, buffer, files)'
  BY <1>7 DEF DrawnInv
<1> QED BY <1>4, <1>8, <1>9, <1>10, <1>11, <1>12 DEF IInv

\* A sample beside the buffer.
LEMMA PeekedOK ==
    ASSUME IInv, NEW j \in Int, NEW down, NEW got, Reads(j, FALSE, down, got),
           UNCHANGED <<src, window, files, current, buffer, cached, warmed, online>>,
           Peeked(Rec(j), got.call)
    PROVE  IInv'
<1>1. /\ MemoOK(files, got.call.memo) /\ got.call.decoded \subseteq WarmFiles(Rec(j))
  BY LeftOK
<1>2. /\ memo' = got.call.memo
      /\ last' = [op |-> "sample", at |-> Rec(j), ok |-> got.call.ok, decoded |-> got.call.decoded]
  BY Zenon DEF Peeked, Note
<1>3. /\ src \in Sources /\ window \in Horizon(src) /\ online \in BOOLEAN /\ ListOK(Cap, files)
      /\ BufferInv(current, buffer) /\ WarmedInv(warmed, cached)
      /\ src' = src /\ window' = window /\ cached' = cached /\ warmed' = warmed /\ online' = online
      /\ files' = files /\ current' = current /\ buffer' = buffer
  BY DEF IInv
<1>4. last'.at = Rec(j) /\ last'.decoded = got.call.decoded /\ last'.op = "sample"
  BY <1>2
<1>5. LastInv(last')
  BY Zenon, <1>1, <1>4 DEF LastInv
<1>6. DrawnInv(last, buffer, files)'
  BY <1>4 DEF DrawnInv
<1>7. ListOK(Cap, files)' /\ MemoOK(files, memo)'
  <2>1. ListOK(Cap, files') /\ MemoOK(files', memo')
    BY <1>1, <1>2, <1>3
  <2> QED BY <1>3, <2>1, KeptSame
<1>8. BufferInv(current, buffer)'
  BY <1>3, BufferSame
<1>9. LastInv(last)'
  BY <1>3, <1>5, LastSame
<1>10. WarmedInv(warmed, cached)'
  BY <1>3, WarmedSame
<1> QED BY <1>3, <1>6, <1>7, <1>8, <1>9, <1>10 DEF IInv

\* A step that leaves what the provider holds, and sets no refresh as the last call.
LEMMA OthersOK ==
    ASSUME IInv, UNCHANGED <<src, window, files, memo, current, buffer>>,
           online' \in BOOLEAN, WarmedInv(warmed', cached'),
           last' = last \/ last'.op = "prefetch"
    PROVE  IInv'
<1>1. /\ src \in Sources /\ window \in Horizon(src)
      /\ ListOK(Cap, files) /\ MemoOK(files, memo) /\ BufferInv(current, buffer)
      /\ LastInv(last) /\ DrawnInv(last, buffer, files)
      /\ src' = src /\ window' = window /\ files' = files /\ memo' = memo
      /\ current' = current /\ buffer' = buffer
  BY DEF IInv
<1>2. LastInv(last') /\ DrawnInv(last, buffer, files)'
  <2>1. CASE last' = last
    BY <1>1, <2>1 DEF DrawnInv
  <2>2. CASE last'.op = "prefetch"
    BY <2>2 DEF LastInv, DrawnInv
  <2> QED BY <2>1, <2>2
<1>3. ListOK(Cap, files)' /\ MemoOK(files, memo)'
  BY <1>1, KeptSame
<1>4. BufferInv(current, buffer)'
  BY <1>1, BufferSame
<1>5. LastInv(last)'
  BY <1>1, <1>2, LastSame
<1>6. WarmedInv(warmed, cached)'
  BY <1>1, WarmedSame
<1> QED BY <1>1, <1>2, <1>3, <1>4, <1>5, <1>6 DEF IInv

\* A prefetch that came to its end has every file that covers the window.
LEMMA PrefetchOK ==
    ASSUME IInv, Prefetch
    PROVE  IInv'
<1> DEFINE order == FileAnchorsFrom(IF window[1] > src.start THEN window[1] ELSE src.start, window[2])
<1>1. /\ src \in Sources /\ window \in Horizon(src) /\ online \in BOOLEAN
  BY DEF IInv
<1>2. window # None /\ warmed = None
      /\ UNCHANGED <<src, window, files, memo, current, buffer, online>>
  BY DEF Prefetch
<1>3. (IF window[1] > src.start THEN window[1] ELSE src.start) = LowerBound
  BY <1>2 DEF LowerBound
<1>4. PICK down : LET failed == {i \in DOMAIN order : order[i] \in down}
                      upto == IF failed = {} THEN Len(order) ELSE Min(failed) - 1
                  IN  /\ cached' = cached \cup {order[i] : i \in 1..upto}
                      /\ warmed' = IF failed = {} THEN window ELSE None
                      /\ last' = [op |-> "prefetch", at |-> None, ok |-> failed = {}, decoded |-> {}]
  BY Zenon DEF Prefetch
<1>5. Covered({order[i] : i \in 1..Len(order)})
  <2>1. order = FileAnchorsFrom(LowerBound, window[2])
    BY Zenon, <1>3
  <2> HIDE DEF order
  <2> QED BY <1>1, <1>2, <2>1, PrefetchCovers
<1> HIDE DEF order
<1> DEFINE failed == {i \in DOMAIN order : order[i] \in down}
           upto == IF failed = {} THEN Len(order) ELSE Min(failed) - 1
<1>6. /\ cached' = cached \cup {order[i] : i \in 1..upto}
      /\ warmed' = IF failed = {} THEN window ELSE None
      /\ last' = [op |-> "prefetch", at |-> None, ok |-> failed = {}, decoded |-> {}]
  BY Zenon, <1>4
<1>7. WarmedInv(warmed', cached')
  <2>1. CASE failed = {}
    <3>1. upto = Len(order)
      BY Zenon, <2>1
    <3>2. cached' = cached \cup {order[i] : i \in 1..Len(order)} /\ warmed' = window
      BY Zenon, <1>6, <2>1, <3>1
    <3> HIDE DEF failed, upto
    <3>3. Covered(cached')
      BY <1>5, <3>2 DEF Covered
    <3> QED BY Zenon, <3>2, <3>3 DEF WarmedInv
  <2>2. CASE failed # {}
    <3>1. warmed' = None
      BY Zenon, <1>6, <2>2
    <3> QED BY Zenon, <3>1 DEF WarmedInv
  <2> QED BY <2>1, <2>2
<1>8. last'.op = "prefetch" /\ online' \in BOOLEAN
  BY <1>1, <1>2, <1>6
<1> QED BY <1>2, <1>7, <1>8, OthersOK

\* A refresh either leaves the provider as it is, or is a call about its anchor.
Moves(t, j, down) ==
    /\ j \in Int /\ CallFor(t, TRUE, down, j)
    /\ UNCHANGED <<src, window, cached, warmed, online>>
    /\ current # Rec(j) /\ down \in Unreadable(Wanted(t))
    /\ Keeps(Rec(j), SampleAnchor(CadenceAnchor(t), TRUE, down))

\* RefreshTo has no other outcome.
LEMMA RefreshIs ==
    ASSUME IInv, NEW t \in Int, RefreshTo(t)
    PROVE  (vars' = vars) \/ \E j, down : Moves(t, j, down)
<1>1. CASE UNCHANGED <<files, memo, current, buffer, last>>
  BY <1>1 DEF RefreshTo, vars
<1>2. CASE ~UNCHANGED <<files, memo, current, buffer, last>>
  <2>1. /\ UNCHANGED <<src, window, cached, warmed, online>>
        /\ current # CadenceAnchor(t)
        /\ \E down \in Unreadable(Wanted(t)) :
             Keeps(CadenceAnchor(t), SampleAnchor(CadenceAnchor(t), TRUE, down))
    BY Zenon, <1>2 DEF RefreshTo
  <2>2. PICK down \in Unreadable(Wanted(t)) :
             Keeps(CadenceAnchor(t), SampleAnchor(CadenceAnchor(t), TRUE, down))
    BY Zenon, <2>1
  <2>3. PICK j \in Int : CallFor(t, TRUE, down, j)
    BY CallIs
  <2>4. CadenceAnchor(t) = Rec(j)
    BY <2>3 DEF CallFor
  <2>5. Moves(t, j, down)
    BY Zenon, <2>1, <2>2, <2>3, <2>4 DEF Moves
  <2> QED BY <2>5
<1> QED BY <1>1, <1>2

(* --- the theorems -----------------------------------------------------*)

\* A refresh that moves keeps the invariant.
LEMMA MovesOK ==
    ASSUME IInv, NEW t, NEW j, NEW down, Moves(t, j, down)
    PROVE  IInv'
<1> DEFINE got == SampleAnchor(CadenceAnchor(t), TRUE, down)
<1>1. /\ j \in Int /\ Reads(j, TRUE, down, got) /\ Keeps(Rec(j), got)
      /\ UNCHANGED <<src, window, cached, warmed, online>>
  BY Zenon DEF Moves, CallFor
<1> HIDE DEF got
<1> QED BY <1>1, KeepsOK

\* The invariant of a step.
LEMMA StepOK ==
    ASSUME IInv, [Next]_vars
    PROVE  IInv'
<1>1. src \in Sources /\ window \in Horizon(src) /\ online \in BOOLEAN /\ WarmedInv(warmed, cached)
  BY DEF IInv
<1>2. ASSUME vars' = vars PROVE IInv'
  <2>1. /\ UNCHANGED <<src, window, files, memo, current, buffer>>
        /\ online' \in BOOLEAN /\ WarmedInv(warmed', cached') /\ last' = last
    BY <1>1, <1>2 DEF vars
  <2> QED BY <2>1, OthersOK
<1>3. ASSUME NEW t \in Int, RefreshTo(t) PROVE IInv'
  BY <1>2, <1>3, RefreshIs, MovesOK
<1>4. CASE Refresh
  <2>1. PICK t \in Probes(src) : RefreshTo(t)
    BY <1>4 DEF Refresh
  <2>2. t \in Int
    BY <1>1, SourcesAssumption
  <2> QED BY <1>3, <2>1, <2>2
<1>5. CASE Materialize
  <2>1. LowerBound \in Int /\ RefreshTo(LowerBound)
    BY <1>1, <1>5, WindowIs DEF Materialize
  <2> QED BY <1>3, <2>1
<1>6. CASE SampleAt
  <2>1. /\ UNCHANGED <<src, window, files, current, buffer, cached, warmed, online>>
        /\ \E t \in Peeks(src) : \E down \in Unreadable(Wanted(t)) :
             Peeked(CadenceAnchor(t), SampleAnchor(CadenceAnchor(t), FALSE, down).call)
    BY Zenon, <1>6 DEF SampleAt
  <2>2. PICK t \in Peeks(src) : \E down \in Unreadable(Wanted(t)) :
             Peeked(CadenceAnchor(t), SampleAnchor(CadenceAnchor(t), FALSE, down).call)
    BY Zenon, <2>1
  <2> PICK down \in Unreadable(Wanted(t)) :
             Peeked(CadenceAnchor(t), SampleAnchor(CadenceAnchor(t), FALSE, down).call)
    BY Zenon, <2>2
  <2>3. t \in Int
    BY <1>1, SourcesAssumption
  <2>4. PICK j \in Int : CallFor(t, FALSE, down, j)
    BY <2>3, CallIs
  <2> DEFINE got == SampleAnchor(CadenceAnchor(t), FALSE, down)
  <2>5. Reads(j, FALSE, down, got) /\ Peeked(Rec(j), got.call)
    BY Zenon, <2>2, <2>4 DEF CallFor
  <2> HIDE DEF got
  <2> QED BY <2>1, <2>5, PeekedOK
<1>7. CASE Prefetch
  BY <1>7, PrefetchOK
<1>8. CASE GoOffline
  <2>1. /\ UNCHANGED <<src, window, files, memo, current, buffer>>
        /\ online' \in BOOLEAN /\ WarmedInv(warmed', cached') /\ last' = last
    BY <1>1, <1>8 DEF GoOffline
  <2> QED BY <2>1, OthersOK
<1>9. CASE vars' = vars
  BY <1>2, <1>9
<1> QED BY <1>4, <1>5, <1>6, <1>7, <1>8, <1>9 DEF Next

\* Every reachable state of the provider satisfies the invariant.
THEOREM Invariance == Spec => []IInv
<1>1. Init => IInv
  BY StartsOK
<1>2. IInv /\ [Next]_vars => IInv'
  BY StepOK
<1> QED BY <1>1, <1>2, PTL DEF Spec

\* The invariant gives the buffer its anchor, and the kept files their bound.
LEMMA BufferOfInv ==
    ASSUME IInv
    PROVE  BufferIsOfAnchor
<1>1. /\ src \in Sources /\ online \in BOOLEAN /\ ListOK(Cap, files) /\ BufferInv(current, buffer)
  BY DEF IInv
<1>2. TypeOK
  <2>1. DOMAIN files = 1..Len(files)
    BY <1>1, SeqDomain DEF ListOK
  <2> QED BY <1>1, <2>1 DEF TypeOK, ListOK, BufferInv
<1>3. ASSUME current # None
      PROVE  /\ buffer.coords = FileAnchor(current)
             /\ Due(buffer.recs[1], current)
             /\ src.bracket =>
                  \/ /\ buffer.times = <<current, NextRecordAnchor(current)>>
                     /\ Due(buffer.recs[2], NextRecordAnchor(current))
                  \/ /\ buffer.times = <<current, current>>
                     /\ buffer.recs[2] = buffer.recs[1]
  <2>1. PICK j \in Int : current = Rec(j) /\ SampleOf(j, buffer)
    BY <1>1, <1>3 DEF BufferInv
  <2>2. NextRecordAnchor(current) = Rec(j + 1)
    BY <1>1, <2>1, RecIs
  <2> QED BY Zenon, <2>1, <2>2 DEF SampleOf
<1> QED BY Zenon, <1>2, <1>3 DEF BufferIsOfAnchor

\* Whatever reads failed before and whatever addresses were used again, the buffer is
\* the sample of the anchor the provider says it holds (provider.rs refresh).
THEOREM BufferIsOfAnchorAlways == Spec => []BufferIsOfAnchor
<1>1. IInv => BufferIsOfAnchor
  BY BufferOfInv
<1> QED BY <1>1, Invariance, PTL

\* The invariant bounds what a sample decodes, and the schedule is as ScheduleIs says.
LEMMA CoverOfInv ==
    ASSUME IInv
    PROVE  WarmAndScheduleCover
<1>1. /\ src \in Sources /\ window \in Horizon(src) /\ LastInv(last)
  BY DEF IInv
<1>2. ASSUME last.op \in {"refresh", "sample"} PROVE last.decoded \subseteq WarmFiles(last.at)
  <2>1. PICK j \in Int : last.at = Rec(j) /\ last.decoded \subseteq WarmFiles(Rec(j))
    BY <1>1, <1>2 DEF LastInv
  <2> QED BY Zenon, <2>1
<1>3. Scheduled(RefreshTimes)
  BY <1>1, ScheduleIs
<1>4. Probes(src) \subseteq Int
  BY <1>1, SourcesAssumption
<1> DEFINE s == RefreshTimes
           upper == IF window # None THEN window[2] ELSE src.end
           held == {CadenceAnchor(LowerBound)} \cup ToSet(s)
<1>5. /\ upper # None => \A t \in Int : LowerBound <= t /\ t < upper => CadenceAnchor(t) \in held
      /\ \A i \in 1..(Len(s) - 1) : s[i] < s[i + 1]
  BY Zenon, <1>3 DEF Scheduled
<1>6. upper # None => \A t \in Probes(src) : LowerBound <= t /\ t < upper => CadenceAnchor(t) \in held
  <2> HIDE DEF held, upper
  <2> QED BY Zenon, <1>4, <1>5
<1> QED BY Zenon, <1>2, <1>5, <1>6 DEF WarmAndScheduleCover

\* A sample decodes no file but those warm_files names, and refresh_times meets every
\* cadence interval of the window once.
THEOREM WarmAndScheduleCoverAlways == Spec => []WarmAndScheduleCover
<1>1. IInv => WarmAndScheduleCover
  BY CoverOfInv
<1> QED BY <1>1, Invariance, PTL

\* The only step that notes a refresh is one that moved, or tried to.
LEMMA RefreshMoves ==
    ASSUME IInv, [Next]_vars, Refreshes
    PROVE  \E t, j, down : Moves(t, j, down)
<1>1. src \in Sources /\ window \in Horizon(src)
  BY DEF IInv
<1>2. last' # last /\ last'.op = "refresh"
  BY DEF Refreshes
<1>3. ASSUME NEW t \in Int, RefreshTo(t) PROVE \E j, down : Moves(t, j, down)
  BY <1>2, <1>3, RefreshIs DEF vars
<1>4. CASE Refresh
  <2>1. PICK t \in Probes(src) : RefreshTo(t)
    BY <1>4 DEF Refresh
  <2>2. t \in Int
    BY <1>1, SourcesAssumption
  <2> QED BY <1>3, <2>1, <2>2
<1>5. CASE Materialize
  <2>1. LowerBound \in Int /\ RefreshTo(LowerBound)
    BY <1>1, <1>5, WindowIs DEF Materialize
  <2> QED BY <1>3, <2>1
<1>6. CASE SampleAt
  <2>1. PICK a, c : Note("sample", a, c)
    BY Zenon, <1>6 DEF SampleAt, Peeked
  <2> QED BY <1>2, <2>1 DEF Note
<1>7. CASE Prefetch
  <2>1. PICK b : last' = [op |-> "prefetch", at |-> None, ok |-> b, decoded |-> {}]
    BY Zenon, <1>7 DEF Prefetch
  <2> QED BY <1>2, <2>1
<1>8. CASE GoOffline
  BY <1>2, <1>8 DEF GoOffline
<1>9. CASE vars' = vars
  BY <1>2, <1>9 DEF vars
<1> QED BY <1>4, <1>5, <1>6, <1>7, <1>8, <1>9 DEF Next

\* What the call of a refresh is, and what it notes.
LEMMA MovesTo ==
    ASSUME NEW t, NEW j, NEW down, Moves(t, j, down),
           NEW got, got = SampleAnchor(CadenceAnchor(t), TRUE, down)
    PROVE  /\ j \in Int /\ Reads(j, TRUE, down, got)
           /\ last'.at = Rec(j) /\ last'.ok = got.call.ok /\ last'.decoded = got.call.decoded
           /\ got.call.ok => buffer' = got.sample
           /\ down \in Unreadable({FileAnchor(Rec(j)), FileAnchor(Rec(j + 1))})
<1>1. /\ j \in Int /\ Reads(j, TRUE, down, got) /\ Keeps(Rec(j), got)
      /\ down \in Unreadable({FileAnchor(Rec(j)), FileAnchor(Rec(j + 1))})
  BY Zenon DEF Moves, CallFor
<1>2. /\ last' = [op |-> "refresh", at |-> Rec(j), ok |-> got.call.ok, decoded |-> got.call.decoded]
      /\ buffer' = IF got.call.ok THEN got.sample ELSE buffer
  BY Zenon, <1>1 DEF Keeps, Note
<1> QED BY <1>1, <1>2

\* After a refresh that succeeded, a file the buffer was drawn from is still kept.
LEMMA SeamStep ==
    ASSUME IInv, [Next]_vars, last.op = "refresh", last.ok, Refreshes,
           NEW i \in DOMAIN buffer.recs, buffer.recs[i].file = FileAnchor(last'.at)
    PROVE  FileAnchor(last'.at) \notin last'.decoded
<1>1. PICK t, j, down : Moves(t, j, down)
  BY RefreshMoves
<1> DEFINE got == SampleAnchor(CadenceAnchor(t), TRUE, down)
<1>2. /\ Reads(j, TRUE, down, got) /\ last'.at = Rec(j) /\ last'.decoded = got.call.decoded
  BY <1>1, MovesTo
<1> HIDE DEF got
<1>3. KeptIn(files, FileAnchor(Rec(j)))
  <2>1. DrawnInv(last, buffer, files)
    BY DEF IInv
  <2>2. KeptIn(files, buffer.recs[i].file)
    BY <2>1 DEF DrawnInv
  <2> QED BY Zenon, <1>2, <2>2
<1>4. FileAnchor(Rec(j)) \notin got.call.decoded
  BY <1>2, <1>3, LeftOK
<1> QED BY Zenon, <1>2, <1>4

\* A sweep over the anchors decodes no file twice, at the seams either (LruFiles).
THEOREM SeamDecodesOnceAlways == Spec => SeamDecodesOnce
<1>1. IInv /\ [Next]_vars =>
        [last.op = "refresh" /\ last.ok /\ Refreshes =>
           \A i \in DOMAIN buffer.recs :
             buffer.recs[i].file = FileAnchor(last'.at) =>
               FileAnchor(last'.at) \notin last'.decoded]_vars
  BY SeamStep
<1> QED BY <1>1, Invariance, PTL DEF Spec, SeamDecodesOnce

\* A file that covers an instant of a warmed window can be read.
LEMMA WarmedIsReadable ==
    ASSUME src \in Sources, window \in Horizon(src), window # None, Covered(cached),
           NEW t \in Int, LowerBound <= t, t < window[2],
           NEW fs, NEW down \in Unreadable(fs), FileAnchor(t) \in fs
    PROVE  FileAnchor(t) \notin down
<1>1. PICK n \in Int : FileAnchor(t) = Fil(n) /\ Fil(n) <= t /\ t < Fil(n + 1)
  BY FileIs
<1>2. n + 1 \in Int
  OBVIOUS
<1>3. Fil(n) \in Int /\ Fil(n + 1) \in Int
  BY <1>2, FilOrder
<1>4. LowerBound \in Int /\ window[2] \in Int
  BY WindowIs
<1>5. LowerBound < Fil(n + 1) /\ Fil(n) < window[2]
  BY <1>1, <1>3, <1>4
<1>6. FileAnchor(t) \in cached
  BY <1>1, <1>5 DEF Covered
<1> QED BY <1>6 DEF Unreadable

\* The run window is warmed, and the anchor is in it with the next one.
Inside(anchor, next) ==
    /\ warmed # None /\ warmed[1] <= anchor /\ src.start <= anchor /\ next < warmed[2]
    /\ src.end = None \/ next < src.end
    /\ Holds(anchor)

\* Both files of an anchor inside a warmed window can be read, so its sample is whole.
LEMMA WarmedStep ==
    ASSUME IInv, [Next]_vars, Refreshes,
           Inside(CadenceAnchor(last'.at), NextRecordAnchor(CadenceAnchor(last'.at)))
    PROVE  /\ last'.ok
           /\ src.bracket /\ Holds(NextRecordAnchor(CadenceAnchor(last'.at))) =>
                buffer'.times = <<CadenceAnchor(last'.at), NextRecordAnchor(CadenceAnchor(last'.at))>>
<1>1. /\ src \in Sources /\ window \in Horizon(src) /\ WarmedInv(warmed, cached)
  BY DEF IInv
<1>2. PICK t, j, down : Moves(t, j, down)
  BY RefreshMoves
<1> DEFINE got == SampleAnchor(CadenceAnchor(t), TRUE, down)
           a == Rec(j)
           b == Rec(j + 1)
<1>3. /\ j \in Int /\ Reads(j, TRUE, down, got) /\ last'.at = a /\ last'.ok = got.call.ok
      /\ got.call.ok => buffer' = got.sample
      /\ down \in Unreadable({FileAnchor(a), FileAnchor(b)})
  BY <1>2, MovesTo
<1>4. CadenceAnchor(a) = a /\ NextRecordAnchor(a) = b
  BY <1>1, <1>3, RecIs
<1>5. a \in Int /\ b \in Int /\ a < b
  <2>1. j + 1 \in Int /\ j < j + 1
    BY <1>3
  <2> QED BY <1>1, <1>3, <2>1, RecOrder
<1>6. Inside(a, b)
  BY Zenon, <1>3, <1>4
<1> HIDE DEF got
<1>7. /\ FileAnchor(a) \notin down /\ FileAnchor(b) \notin down
      /\ Holds(a) /\ (src.end = None \/ b < src.end)
      => got.call.ok /\ (src.bracket /\ Holds(b) => got.sample.times = <<a, b>>)
  BY Zenon, <1>3 DEF Reads
<1> HIDE DEF a, b
<1>8. window # None /\ warmed = window /\ Covered(cached)
  BY <1>1, <1>6 DEF WarmedInv, Inside
<1>9. LowerBound \in Int /\ window[1] \in Int /\ window[2] \in Int /\ src.start \in Int
  BY <1>1, <1>8, WindowIs, SourceType
<1>10. LowerBound <= a /\ b < window[2]
  BY <1>6, <1>8 DEF Inside, LowerBound
<1>11. LowerBound <= b /\ a < window[2]
  BY <1>5, <1>9, <1>10
<1>12. FileAnchor(a) \notin down /\ FileAnchor(b) \notin down
  BY <1>1, <1>3, <1>5, <1>8, <1>10, <1>11, WarmedIsReadable
<1>13. Holds(a) /\ (src.end = None \/ b < src.end)
  BY Zenon, <1>6 DEF Inside
<1>14. got.call.ok /\ (src.bracket /\ Holds(b) => got.sample.times = <<a, b>>)
  BY Zenon, <1>7, <1>12, <1>13
<1>15. last'.ok /\ (src.bracket /\ Holds(b) => buffer'.times = <<a, b>>)
  BY Zenon, <1>3, <1>14
<1> QED BY Zenon, <1>3, <1>4, <1>15

\* Once a prefetch has warmed the window, every refresh inside it is whole, offline too.
THEOREM WarmedRunIsWholeAlways == Spec => WarmedRunIsWhole
<1>1. IInv /\ [Next]_vars =>
        [Refreshes /\ warmed # None =>
           LET anchor == CadenceAnchor(last'.at)
               next == NextRecordAnchor(anchor)
           IN  (warmed[1] <= anchor /\ src.start <= anchor /\ next < warmed[2]
                  /\ (src.end = None \/ next < src.end) /\ Holds(anchor)) =>
                 /\ last'.ok
                 /\ src.bracket /\ Holds(next) => buffer'.times = <<anchor, next>>]_vars
  BY Zenon, WarmedStep DEF Inside
<1> QED BY <1>1, Invariance, PTL DEF Spec, WarmedRunIsWhole
==============================================================================
